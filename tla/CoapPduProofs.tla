-------------------------- MODULE CoapPduProofs ---------------------------
(***************************************************************************)
(* Whatever calls are made of a CoapPDU, and in whatever order, its bytes  *)
(* are those of the token, the options and the payload asked for, and a    *)
(* receiver that gets all or the first of them reads that content back.    *)
(***************************************************************************)
EXTENDS CoapBytesProofs

-----------------------------------------------------------------------------
(* The datagram of a content.                                                *)

(* The header and the token that stand for a token.                         *)
Hdr(token)    == <<64 + Len(token), 1, 1, 2>> \o token
(* What stands behind the options for a payload.                            *)
Trail(bytes)  == IF bytes = << >> THEN << >> ELSE <<MARKER>> \o bytes

LEMMA HdrIs ==
  ASSUME NEW token \in Octets, Size(token) <= 8
  PROVE  /\ Headed(Hdr(token)) /\ Hdr(token) \in Octets /\ Size(Hdr(token)) = 4 + Size(token)
         /\ \A s \in Octets : TokenLength(Hdr(token) ++ s) = Size(token)
<1> DEFINE h == <<64 + Len(token), 1, 1, 2>>
<1>1. PICK n \in Nat : n = Len(token) /\ n <= 8
  BY SMT DEF Octets, Size
<1>2. h \in Seq(Nat) /\ Len(h) = 4 /\ h[1] = 64 + n /\ (64 + n) % 16 = n
  BY SMT, <1>1
<1> HIDE DEF h
<1>3. /\ h \o token \in Seq(Nat) /\ Len(h \o token) = 4 + n
      /\ (h \o token)[1] = 64 + n
  <2>1. token \in Seq(Nat) /\ 1 \in 1 .. 4
    BY DEF Octets
  <2>2. /\ h \o token \in Seq(Nat) /\ Len(h \o token) = Len(h) + Len(token)
        /\ \A k \in 1 .. Len(h) : (h \o token)[k] = h[k]
    BY <1>2, <2>1, Cat
  <2> QED BY Zenon, <1>1, <1>2, <2>1, <2>2
<1>4. ASSUME NEW s \in Seq(Nat) PROVE ((h \o token) \o s)[1] = 64 + n /\ Len((h \o token) \o s) > 0
  <2> DEFINE x == h \o token
  <2>0. x \in Seq(Nat) /\ Len(x) = 4 + n /\ x[1] = 64 + n
    BY <1>3
  <2> HIDE DEF x
  <2>1. /\ Len(x \o s) = Len(x) + Len(s) /\ Len(s) \in Nat
        /\ \A k \in 1 .. Len(x) : (x \o s)[k] = x[k]
    BY <2>0, Cat
  <2>2. 1 \in 1 .. (4 + n) /\ \A l \in Nat : (4 + n) + l > 0
    BY SMT, <1>1
  <2>3. (x \o s)[1] = 64 + n /\ Len(x \o s) > 0
    BY Zenon, <2>0, <2>1, <2>2
  <2> QED BY <2>3 DEF x
<1>5. \A b : b[1] = 64 + n /\ Len(b) > 0 => TokenLength(b) = n
  BY SMT, <1>2 DEF TokenLength, At
<1>6. HDR + n = 4 + n /\ 4 + n > 0
  BY SMT, <1>1 DEF HDR
<1>7. Hdr(token) = h \o token
  BY Zenon DEF Hdr, h
<1>8. TokenLength(h \o token) = n
  BY Zenon, <1>3, <1>5, <1>6
<1>9. \A s \in Seq(Nat) : TokenLength((h \o token) \o s) = n
  BY Zenon, <1>4, <1>5
<1> QED BY Zenon, <1>1, <1>3, <1>6, <1>7, <1>8, <1>9 DEF Octets, Size, ++, Headed

LEMMA TrailIs ==
  /\ Trail(None) = None
  /\ \A bytes \in Octets : /\ Trail(bytes) \in Octets
                           /\ bytes # None => /\ Trail(bytes) = Byte(255) ++ bytes
                                              /\ Size(bytes) > 0
<1>1. 255 \in Nat
  OBVIOUS
<1>2. Byte(255) \in Octets /\ None \in Octets
  BY <1>1, OctetsByte, OctetsNone
<1>3. \A bytes \in Octets : bytes # None => Size(bytes) > 0
  BY SMT DEF Octets, None, Size
<1>4. \A bytes \in Octets : Byte(255) ++ bytes \in Octets
  BY <1>2, OctetsCat
<1> QED BY Zenon, <1>2, <1>3, <1>4 DEF Trail, None, MARKER, ++, Byte

(* A content and the datagram that stands for it.                           *)
LEMMA EncodeIs ==
  ASSUME NEW c, c.token \in Octets, Size(c.token) <= 8, c.options \in Lists,
         Ascending(0, c.options), c.payload \in Octets
  PROVE  Encode(c) = Image(Hdr(c.token), c.options, Trail(c.payload))
<1>1. Hdr(c.token) \in Octets /\ Trail(c.payload) \in Octets /\ Fields(0, c.options) \in Octets
  BY HdrIs, TrailIs, FieldsIn, ZeroIn
<1>2. (Hdr(c.token) ++ Fields(0, c.options)) ++ Trail(c.payload)
        = Hdr(c.token) ++ (Fields(0, c.options) ++ Trail(c.payload))
  BY <1>1, OctetsAssoc
<1>3. Encode(c) = (Hdr(c.token) ++ Fields(0, c.options)) ++ Trail(c.payload)
  BY Zenon DEF Encode, Hdr, Trail, ++
<1> QED BY Zenon, <1>2, <1>3 DEF Image

-----------------------------------------------------------------------------
(* What a call of addOption does to the number of options.                   *)

(* A call of addOption, whatever the object: one option more, or the bytes  *)
(* and the number of options as they were.                                  *)
Counted(b, n, r) ==
  \/ \E x, m : r = Object(x, n + 1, m, Ok)
  \/ \E m : r = Object(b, n, m, Refused)

LEMMA AddToCounts ==
  ASSUME NEW b, NEW n, NEW m, NEW e
  PROVE  Counted(b, n, AddTo(Object(b, n, m, Ok), e))
<1> DEFINE p == Object(b, n, m, Ok)
           pos == InsertionPosition(p, e.number)
           r == AddTo(p, e)
<1>1. p.pdu = b /\ p.num = n
  BY ObjectParts
<1>2. \/ r = AppendOption(p, e.number, e.value, pos.prev)
      \/ r = InsertBefore(p, e.number, e.value, pos)
  <2>1. r = IF pos.at = Len(b) THEN AppendOption(p, e.number, e.value, pos.prev)
            ELSE InsertBefore(p, e.number, e.value, pos)
    BY AddToIs
  <2> HIDE DEF r, pos, p
  <2> QED BY Zenon, <2>1
<1>3. AppendOption(p, e.number, e.value, pos.prev) = Appending(p, e.number, e.value, Mod16(e.number - pos.prev))
  <2> HIDE DEF p, pos
  <2> QED BY AppendIs
<1>4. \E y : InsertBefore(p, e.number, e.value, pos) = Failed(p, Refused)
             \/ InsertBefore(p, e.number, e.value, pos) = Widened(p, p.num + 1, y)
  <2> HIDE DEF p, pos
  <2> DEFINE od == OptionDelta(p.pdu, pos.at)
             dd == e.number - pos.prev
             nx == Mod16(pos.prev + (OptionDelta(p.pdu, pos.at) - e.number))
  <2>1. InsertBefore(p, e.number, e.value, pos) = Inserting(p, e.number, e.value, pos.at, dd, od, nx)
    BY InsertIs
  <2> HIDE DEF od, dd, nx
  <2> QED BY Zenon, <2>1 DEF Inserting
<1>5. \E y : Appending(p, e.number, e.value, Mod16(e.number - pos.prev)) = Recorded(p, e.number, Refused)
             \/ Appending(p, e.number, e.value, Mod16(e.number - pos.prev)) = Grown(p, e.number, p.num + 1, y)
  <2> DEFINE d == Mod16(e.number - pos.prev)
  <2> HIDE DEF p, pos, d
  <2> QED BY Zenon DEF Appending
<1>6. /\ \A x, y : Recorded(p, x, y) = Object(b, n, x, y)
      /\ \A y : Failed(p, y) = Object(b, n, m, y)
      /\ \A x, y, z : Grown(p, x, y, z) = Object(z, y, x, Ok)
      /\ \A y, z : Widened(p, y, z) = Object(z, y, m, Ok)
  <2>1. /\ \A x, y : Recorded(Object(b, n, m, Ok), x, y) = Object(b, n, x, y)
        /\ \A y : Failed(Object(b, n, m, Ok), y) = Object(b, n, m, y)
        /\ \A x, y, z : Grown(Object(b, n, m, Ok), x, y, z) = Object(z, y, x, Ok)
        /\ \A y, z : Widened(Object(b, n, m, Ok), y, z) = Object(z, y, m, Ok)
    BY ObjectChanged
  <2> QED BY Zenon, <2>1
<1>7. Counted(b, n, r)
  <2> HIDE DEF p, pos, r
  <2>1. CASE r = AppendOption(p, e.number, e.value, pos.prev)
    <3>1. PICK y : r = Recorded(p, e.number, Refused) \/ r = Grown(p, e.number, p.num + 1, y)
      BY Zenon, <1>3, <1>5, <2>1
    <3>2. Recorded(p, e.number, Refused) = Object(b, n, e.number, Refused)
      BY Zenon, <1>6
    <3>3. Grown(p, e.number, p.num + 1, y) = Object(y, n + 1, e.number, Ok)
      <4>1. \A u, v, z : Grown(p, u, v, z) = Object(z, v, u, Ok)
        BY Zenon, <1>6
      <4>2. Grown(p, e.number, n + 1, y) = Object(y, n + 1, e.number, Ok)
        BY Zenon, <4>1
      <4> QED BY Zenon, <1>1, <4>2
    <3> QED BY Zenon, <3>1, <3>2, <3>3 DEF Counted
  <2>2. CASE r = InsertBefore(p, e.number, e.value, pos)
    <3>1. PICK y : r = Failed(p, Refused) \/ r = Widened(p, p.num + 1, y)
      BY Zenon, <1>4, <2>2
    <3>2. r = Object(b, n, m, Refused) \/ r = Object(y, n + 1, m, Ok)
      BY Zenon, <1>1, <1>6, <3>1
    <3> QED BY Zenon, <3>2 DEF Counted
  <2> QED BY Zenon, <1>2, <2>1, <2>2
<1> QED BY Zenon, <1>7 DEF r, p

(* Calls of addOption, whatever the object: if the number of options is as  *)
(* it was, so are the bytes, and all calls succeeded only if there were     *)
(* none.                                                                    *)
LEMMA AddAllCounts ==
  ASSUME NEW b, NEW n \in Nat, NEW m, NEW es, Len(es) \in Nat,
         AddAll(Object(b, n, m, Ok), es).num = n
  PROVE  /\ AddAll(Object(b, n, m, Ok), es).pdu = b
         /\ \/ AddAll(Object(b, n, m, Ok), es).ok = Refused
            \/ AddAll(Object(b, n, m, Ok), es).ok = Ok /\ Len(es) = 0
<1> DEFINE p == Object(b, n, m, Ok)
<1>l. PICK l \in Nat : l = Len(es)
  OBVIOUS
<1>1. PICK f : /\ AddAll(p, es) = f[l] /\ f[0] = p
               /\ \A k \in 0 .. l : k # 0 => f[k] = AddTo(f[k - 1], es[k])
  <2> HIDE DEF p
  <2>1. \E f : /\ AddAll(p, es) = f[Len(es)]
               /\ f[0] = p
               /\ \A k \in 0 .. Len(es) : k # 0 => f[k] = AddTo(f[k - 1], es[k])
    BY AddIs
  <2> QED BY Zenon, <1>l, <2>1
<1> DEFINE Alive(k) == \E x, y : f[k] = Object(x, n + k, y, Ok) /\ (k = 0 => x = b)
           Dead(k)  == \E x, y : \E c \in Nat : f[k] = Object(x, n + c, y, Refused) /\ (c = 0 => x = b)
           T == {k \in Nat : k <= l => Alive(k) \/ Dead(k)}
<1>2. 0 \in T
  <2>1. n + 0 = n /\ 0 \in Nat
    BY SMT
  <2> HIDE DEF Dead
  <2> QED BY Zenon, <1>1, <2>1 DEF p
<1>3. ASSUME NEW k \in Nat, k \in T PROVE k + 1 \in T
  <2>0. k + 1 \in Nat
    BY SMT
  <2>1. ASSUME k + 1 <= l PROVE Alive(k + 1) \/ Dead(k + 1)
    <3>1. /\ k <= l /\ k + 1 \in 0 .. l /\ k + 1 # 0 /\ (k + 1) - 1 = k
          /\ n + (k + 1) = (n + k) + 1 /\ k + 1 # 0
      BY SMT, <2>1
    <3>2. f[k + 1] = AddTo(f[k], es[k + 1])
      BY Zenon, <1>1, <3>1
    <3>3. Alive(k) \/ Dead(k)
      <4> HIDE DEF Alive, Dead
      <4> QED BY Zenon, <1>3, <3>1
    <3>4. CASE Dead(k)
      <4>1. f[k + 1] = f[k]
        BY Zenon, <3>2, <3>4, AddToRefused
      <4>2. Dead(k + 1)
        BY Zenon, <3>4, <4>1
      <4> HIDE DEF Alive, Dead
      <4> QED BY Zenon, <4>2
    <3>5. CASE Alive(k)
      <4>1. PICK x, y : f[k] = Object(x, n + k, y, Ok) /\ (k = 0 => x = b)
        BY Zenon, <3>5
      <4> DEFINE e == es[k + 1]
      <4>e. e = es[k + 1]
        OBVIOUS
      <4> HIDE DEF e, Alive, Dead
      <4>2. Counted(x, n + k, AddTo(Object(x, n + k, y, Ok), e))
        BY AddToCounts
      <4>3. Counted(x, n + k, f[k + 1])
        BY Zenon, <3>2, <4>1, <4>2, <4>e
      <4>4. Alive(k + 1) \/ Dead(k + 1)
        BY Zenon, <3>1, <4>1, <4>3 DEF Counted, Alive, Dead
      <4> QED BY Zenon, <4>4
    <3> HIDE DEF Alive, Dead
    <3> QED BY Zenon, <3>3, <3>4, <3>5
  <2> HIDE DEF Alive, Dead
  <2> QED BY Zenon, <2>0, <2>1
<1> HIDE DEF T
<1>4. \A k \in Nat : k \in T
  <2> HIDE DEF Alive, Dead
  <2> QED BY <1>2, <1>3, Induction
<1>5. l <= l
  BY SMT
<1>6. Alive(l) \/ Dead(l)
  <2> HIDE DEF Alive, Dead
  <2> QED BY Zenon, <1>4, <1>5 DEF T
<1>7. f[l].num = n
  BY Zenon, <1>1 DEF p
<1>8. \A c \in Nat : n + c = n => c = 0
  BY SMT
<1>9. CASE Alive(l)
  <2>1. PICK x, y : f[l] = Object(x, n + l, y, Ok) /\ (l = 0 => x = b)
    BY Zenon, <1>9
  <2>2. f[l].num = n + l /\ f[l].pdu = x /\ f[l].ok = Ok
    <3>1. /\ Object(x, n + l, y, Ok).num = n + l /\ Object(x, n + l, y, Ok).pdu = x
          /\ Object(x, n + l, y, Ok).ok = Ok
      BY ObjectParts
    <3> QED BY Zenon, <2>1, <3>1
  <2>3. l = 0
    BY Zenon, <1>7, <1>8, <2>2
  <2> QED BY Zenon, <1>l, <1>1, <2>1, <2>2, <2>3 DEF p
<1>10. CASE Dead(l)
  <2>0. PICK x, y : \E c \in Nat : f[l] = Object(x, n + c, y, Refused) /\ (c = 0 => x = b)
    BY Zenon, <1>10
  <2>1. PICK c \in Nat : f[l] = Object(x, n + c, y, Refused) /\ (c = 0 => x = b)
    BY Zenon, <2>0
  <2>2. f[l].num = n + c /\ f[l].pdu = x /\ f[l].ok = Refused
    <3>1. /\ Object(x, n + c, y, Refused).num = n + c /\ Object(x, n + c, y, Refused).pdu = x
          /\ Object(x, n + c, y, Refused).ok = Refused
      BY ObjectParts
    <3> QED BY Zenon, <2>1, <3>1
  <2>3. c = 0
    BY Zenon, <1>7, <1>8, <2>2
  <2> QED BY Zenon, <1>1, <2>1, <2>2, <2>3 DEF p
<1> HIDE DEF Alive, Dead
<1> QED BY Zenon, <1>6, <1>9, <1>10

-----------------------------------------------------------------------------
(* The inductive invariant: the bytes stand for the content.                 *)

(* The content, and that the bytes b with n options stand for it.  pay is   *)
(* the payload as the object knows it.                                      *)
Contents == [token : Octets, options : Lists, payload : Octets,
             uri : Uris \cup {<< >>}, block : Blocks \cup {-1}]

Stands(b, n, pay, c) ==
  /\ c \in Contents /\ Size(c.token) <= 8
  /\ Fitting(Hdr(c.token), c.options, Trail(c.payload), n)
  /\ b = Image(Hdr(c.token), c.options, Trail(c.payload))
  /\ \E at \in Nat : /\ pay = [at |-> at, len |-> Size(c.payload)]
                     /\ at = 0 <=> c.payload = None

(* d differs from c in its options, its URI and its block only.             *)
Reordered(d, c, os) ==
  /\ d.token = c.token /\ d.payload = c.payload /\ d.options = os
  /\ os \in Lists => d \in Contents

LEMMA ContentParts ==
  ASSUME NEW c \in Contents
  PROVE  /\ c.token \in Octets /\ c.options \in Lists /\ c.payload \in Octets
         /\ \A os : Reordered([c EXCEPT !.options = os], c, os)
<1> DEFINE O == Octets
           L == Lists
           U == Uris \cup {<< >>}
           B == Blocks \cup {-1}
<1>1. c \in [token : O, options : L, payload : O, uri : U, block : B]
  BY Zenon DEF Contents
<1>2. Contents = [token : O, options : L, payload : O, uri : U, block : B]
  BY Zenon DEF Contents
<1> HIDE DEF O, L, U, B
<1>3. c.token \in O /\ c.options \in L /\ c.payload \in O
  BY SMT, <1>1
<1>4. ASSUME NEW os
      PROVE  /\ [c EXCEPT !.options = os].token = c.token /\ [c EXCEPT !.options = os].payload = c.payload
             /\ [c EXCEPT !.options = os].options = os
             /\ os \in L => [c EXCEPT !.options = os] \in [token : O, options : L, payload : O, uri : U, block : B]
  BY SMT, <1>1
<1>5. ASSUME NEW os PROVE Reordered([c EXCEPT !.options = os], c, os)
  BY Zenon, <1>2, <1>4 DEF Reordered, L
<1> QED BY Zenon, <1>3, <1>5 DEF O, L

LEMMA StandsParts ==
  ASSUME NEW b, NEW n, NEW pay, NEW c, Stands(b, n, pay, c)
  PROVE  /\ c \in Contents /\ c.token \in Octets /\ c.options \in Lists /\ c.payload \in Octets
         /\ Headed(Hdr(c.token)) /\ Hdr(c.token) \in Octets /\ Trail(c.payload) \in Octets
         /\ Ascending(0, c.options) /\ n = Count(c.options) /\ n \in Nat
         /\ HDR + TokenLength(b) = Size(Hdr(c.token))
         /\ b = Image(Hdr(c.token), c.options, Trail(c.payload)) /\ Size(b) <= Capacity
         /\ Fitting(Hdr(c.token), c.options, Trail(c.payload), Count(c.options))
<1>1. /\ c \in Contents /\ Size(c.token) <= 8
      /\ Fitting(Hdr(c.token), c.options, Trail(c.payload), n)
      /\ b = Image(Hdr(c.token), c.options, Trail(c.payload))
  BY Zenon DEF Stands
<1>2. c.token \in Octets /\ c.options \in Lists /\ c.payload \in Octets
  BY <1>1, ContentParts
<1>3. Headed(Hdr(c.token)) /\ Hdr(c.token) \in Octets /\ Trail(c.payload) \in Octets
  BY <1>1, <1>2, HdrIs, TrailIs
<1>4. /\ Ascending(0, c.options) /\ n = Count(c.options) /\ Size(b) <= Capacity
      /\ Fitting(Hdr(c.token), c.options, Trail(c.payload), Count(c.options))
  BY Zenon, <1>1 DEF Fitting
<1>5. n \in Nat
  BY Zenon, <1>2, <1>4, ListsCount
<1>6. HDR + TokenLength(Image(Hdr(c.token), c.options, Trail(c.payload))) = Size(Hdr(c.token))
  BY <1>2, <1>3, <1>4, HeadedImage
<1> QED BY Zenon, <1>1, <1>2, <1>3, <1>4, <1>5, <1>6

LEMMA InOrderNone ==
  ASSUME NEW os, NEW es, Len(es) = 0
  PROVE  InOrderAll(os, es) = os
<1>1. Len(es) \in Nat
  OBVIOUS
<1>2. \E f : /\ InOrderAll(os, es) = f[Len(es)]
             /\ f[0] = os
             /\ \A k \in 0 .. Len(es) : k # 0 => f[k] = InOrder(f[k - 1], es[k])
  BY <1>1, InOrderIs
<1> QED BY Zenon, <1>2

LEMMA InOrderOne ==
  ASSUME NEW os, NEW o
  PROVE  InOrderAll(os, <<o>>) = InOrder(os, o)
<1> DEFINE es == <<o>>
<1>1. Len(es) = 1 /\ Len(es) \in Nat /\ es[1] = o /\ 1 - 1 = 0 /\ 1 \in 0 .. 1 /\ 1 # 0
  BY SMT
<1> HIDE DEF es
<1>2. \E f : /\ InOrderAll(os, es) = f[Len(es)]
             /\ f[0] = os
             /\ \A k \in 0 .. Len(es) : k # 0 => f[k] = InOrder(f[k - 1], es[k])
  BY <1>1, InOrderIs
<1>3. InOrderAll(os, es) = InOrder(os, o)
  BY Zenon, <1>1, <1>2
<1> QED BY <1>3 DEF es

-----------------------------------------------------------------------------
(* Calls that add options.                                                   *)

LEMMA Restands ==
  ASSUME NEW b, NEW n, NEW pay, NEW c, Stands(b, n, pay, c),
         NEW d, NEW os, Reordered(d, c, os), NEW k,
         Fitting(Hdr(c.token), os, Trail(c.payload), k)
  PROVE  Stands(Image(Hdr(c.token), os, Trail(c.payload)), k, pay, d)
<1>1. os \in Lists
  BY Zenon DEF Fitting
<1>2. d \in Contents /\ d.token = c.token /\ d.payload = c.payload /\ d.options = os
  BY Zenon, <1>1 DEF Reordered
<1> QED BY Zenon, <1>2 DEF Stands

LEMMA NoTrail ==
  ASSUME NEW b, NEW n, NEW c, Stands(b, n, NoPayload, c)
  PROVE  c.payload = None /\ Trail(c.payload) = None
<1>1. PICK at \in Nat : NoPayload = [at |-> at, len |-> Size(c.payload)] /\ (at = 0 <=> c.payload = None)
  BY Zenon DEF Stands
<1>2. at = 0
  <2> DEFINE l == Size(c.payload)
  <2> HIDE DEF l
  <2>1. [at |-> 0, len |-> 0] = [at |-> at, len |-> l]
    BY Zenon, <1>1 DEF NoPayload, l
  <2> QED BY SMT, <2>1
<1> QED BY Zenon, <1>1, <1>2, TrailIs

LEMMA AddStands ==
  ASSUME NEW b, NEW n, NEW m, NEW pay, NEW c, Stands(b, n, pay, c),
         NEW es \in Seq(Offered),
         NEW wanted, Reordered(wanted, c, InOrderAll(c.options, es)),
         NEW r, r = AddAll(Object(b, n, m, Ok), es),
         \/ r.num = n
         \/ /\ m = Walk(b, n).number
            /\ pay = NoPayload \/ \A k \in DOMAIN es : es[k].number < m
  PROVE  Stands(r.pdu, r.num, pay, IF r.ok THEN wanted
                                   ELSE [c EXCEPT !.options = InOrderAll(@, SubSeq(es, 1, r.num - n))])
<1> DEFINE hdr == Hdr(c.token)
           q   == Trail(c.payload)
           os  == c.options
           Kept(i) == [c EXCEPT !.options = InOrderAll(os, SubSeq(es, 1, i))]
<1>0. /\ c \in Contents /\ os \in Lists /\ n = Count(os) /\ n \in Nat
      /\ Headed(hdr) /\ hdr \in Octets /\ q \in Octets /\ Ascending(0, os)
      /\ HDR + TokenLength(b) = Size(hdr) /\ b = Image(hdr, os, q)
      /\ Fitting(hdr, os, q, Count(os))
  BY StandsParts
<1>1. PICK l \in Nat : l = Len(es) /\ DOMAIN es = 1 .. l
  <2>1. Len(es) \in Nat /\ DOMAIN es = 1 .. Len(es)
    BY Beginnings
  <2> QED BY Zenon, <2>1
<1>2. \A k \in 0 .. l : Len(SubSeq(es, 1, k)) = k
  <2>1. \A k \in 0 .. Len(es) : Len(SubSeq(es, 1, k)) = k
    <3> DEFINE S == Offered
    <3> HIDE DEF S
    <3>1. es \in Seq(S)
      BY DEF S
    <3> QED BY <3>1, Beginnings
  <2> QED BY Zenon, <1>1, <2>1
<1>3. \A i : Reordered(Kept(i), c, InOrderAll(os, SubSeq(es, 1, i)))
  BY Zenon, <1>0, ContentParts
<1>k. \A i : [c EXCEPT !.options = InOrderAll(@, SubSeq(es, 1, i))] = Kept(i)
  OBVIOUS
<1>a. os = c.options
  OBVIOUS
<1> HIDE DEF hdr, q, os, Kept
<1>w. Reordered(wanted, c, InOrderAll(os, es))
  BY Zenon, <1>a
<1>s. \A d, N, k : Reordered(d, c, N) /\ Fitting(hdr, N, q, k) => Stands(Image(hdr, N, q), k, pay, d)
  BY Zenon, Restands DEF hdr, q
<1>4. CASE r.num = n
  <2>1. r.pdu = b /\ (r.ok = Refused \/ (r.ok = Ok /\ l = 0))
    <3>1. AddAll(Object(b, n, m, Ok), es).num = n /\ Len(es) \in Nat
      BY Zenon, <1>1, <1>4
    <3>2. /\ AddAll(Object(b, n, m, Ok), es).pdu = b
          /\ \/ AddAll(Object(b, n, m, Ok), es).ok = Refused
             \/ AddAll(Object(b, n, m, Ok), es).ok = Ok /\ Len(es) = 0
      BY <1>0, <3>1, AddAllCounts
    <3> QED BY Zenon, <1>1, <3>2
  <2>2. r.num - n = 0 /\ 0 \in 0 .. l
    BY SMT, <1>0, <1>4
  <2>3. CASE r.ok = Refused
    <3>1. InOrderAll(os, SubSeq(es, 1, 0)) = os
      BY <1>2, <2>2, InOrderNone
    <3>2. Reordered(Kept(0), c, os)
      BY Zenon, <1>3, <3>1
    <3>3. Stands(b, n, pay, Kept(0))
      BY Zenon, <1>0, <1>s, <3>2
    <3>4. ~r.ok
      BY Zenon, <2>3 DEF Refused
    <3> QED BY Zenon, <1>4, <1>k, <2>1, <2>2, <3>3, <3>4
  <2>4. CASE r.ok = Ok /\ l = 0
    <3>1. InOrderAll(os, es) = os
      BY <1>1, <2>4, InOrderNone
    <3>2. Stands(b, n, pay, wanted)
      BY Zenon, <1>0, <1>s, <1>w, <3>1
    <3>3. r.ok
      BY Zenon, <2>4 DEF Ok
    <3> QED BY Zenon, <1>4, <2>1, <3>2, <3>3
  <2> QED BY Zenon, <2>1, <2>3, <2>4
<1>5. CASE /\ m = Walk(b, n).number
           /\ pay = NoPayload \/ \A k \in DOMAIN es : es[k].number < m
  <2>1. m = Last(0, os)
    <3>1. Walk(Image(hdr, os, q), Count(os))
            = [at |-> Size(Before(hdr, os)), number |-> Last(0, os), options |-> os]
      BY <1>0, WalkReads
    <3>2. Walk(b, n).number = Last(0, os)
      BY <1>0, <3>1
    <3> QED BY Zenon, <1>5, <3>2
  <2>2. q = None \/ \A k \in 1 .. Len(es) : ~(Last(0, os) <= es[k].number)
    <3>1. CASE pay = NoPayload
      BY Zenon, <3>1, NoTrail DEF q
    <3>2. CASE \A k \in DOMAIN es : es[k].number < m
      <4>1. m \in Nat
        <5>1. Last(0, os) \in Uint16
          BY <1>0, LastIn, ZeroIn
        <5> QED BY <2>1, <5>1, Bounds16
      <4>2. ASSUME NEW k \in 1 .. l PROVE ~(m <= es[k].number)
        <5>1. es[k] \in Offered
          <6> DEFINE S == Offered
          <6> HIDE DEF S
          <6>1. es \in Seq(S) /\ k \in 1 .. Len(es)
            BY <1>1 DEF S
          <6>2. es[k] \in S
            BY <6>1, Beginnings
          <6> QED BY <6>2 DEF S
        <5>2. es[k].number \in Nat
          BY <5>1, OfferedParts
        <5>3. es[k].number < m
          BY Zenon, <1>1, <3>2
        <5> QED BY SMT, <4>1, <5>2, <5>3
      <4> QED BY Zenon, <1>1, <2>1, <4>2
    <3> QED BY Zenon, <1>5, <3>1, <3>2
  <2>3. AddedAll(hdr, os, q, es, AddAll(Object(Image(hdr, os, q), Count(os), Last(0, os), Ok), es))
    BY <1>0, <2>2, AddAllKeeps
  <2>4. AddedAll(hdr, os, q, es, r)
    BY Zenon, <1>0, <2>1, <2>3
  <2>4a. PICK i \in 0 .. l : \E mm :
          /\ Fitting(hdr, InOrderAll(os, SubSeq(es, 1, i)), q, Count(os) + i)
          /\ \/ r = Object(Image(hdr, InOrderAll(os, SubSeq(es, 1, i)), q), Count(os) + i, mm, Refused)
             \/ /\ i = l
                /\ InOrderAll(os, es) = InOrderAll(os, SubSeq(es, 1, i))
                /\ mm = Last(0, InOrderAll(os, es))
                /\ r = Object(Image(hdr, InOrderAll(os, es), q), Count(os) + i, mm, Ok)
    BY Zenon, <1>1, <2>4 DEF AddedAll
  <2>5. PICK mm :
          /\ Fitting(hdr, InOrderAll(os, SubSeq(es, 1, i)), q, Count(os) + i)
          /\ \/ r = Object(Image(hdr, InOrderAll(os, SubSeq(es, 1, i)), q), Count(os) + i, mm, Refused)
             \/ /\ i = l
                /\ InOrderAll(os, es) = InOrderAll(os, SubSeq(es, 1, i))
                /\ mm = Last(0, InOrderAll(os, es))
                /\ r = Object(Image(hdr, InOrderAll(os, es), q), Count(os) + i, mm, Ok)
    BY Zenon, <2>4a
  <2> DEFINE N == InOrderAll(os, SubSeq(es, 1, i))
  <2>n. N = InOrderAll(os, SubSeq(es, 1, i))
    OBVIOUS
  <2> HIDE DEF N
  <2>6. (n + i) - n = i
    BY SMT, <1>0
  <2>7. CASE r = Object(Image(hdr, N, q), Count(os) + i, mm, Refused)
    <3>1. r.pdu = Image(hdr, N, q) /\ r.num = n + i /\ r.ok = Refused
      <4>1. /\ Object(Image(hdr, N, q), Count(os) + i, mm, Refused).pdu = Image(hdr, N, q)
            /\ Object(Image(hdr, N, q), Count(os) + i, mm, Refused).num = Count(os) + i
            /\ Object(Image(hdr, N, q), Count(os) + i, mm, Refused).ok = Refused
        BY ObjectParts
      <4> QED BY Zenon, <1>0, <2>7, <4>1
    <3>2. Stands(Image(hdr, N, q), n + i, pay, Kept(i))
      BY Zenon, <1>0, <1>3, <1>s, <2>5, <2>n
    <3>3. ~r.ok
      BY Zenon, <3>1 DEF Refused
    <3> QED BY Zenon, <1>k, <2>6, <3>1, <3>2, <3>3
  <2>8. CASE /\ InOrderAll(os, es) = N
             /\ r = Object(Image(hdr, N, q), Count(os) + i, mm, Ok)
    <3>1. r.pdu = Image(hdr, N, q) /\ r.num = n + i /\ r.ok = Ok
      <4>1. /\ Object(Image(hdr, N, q), Count(os) + i, mm, Ok).pdu = Image(hdr, N, q)
            /\ Object(Image(hdr, N, q), Count(os) + i, mm, Ok).num = Count(os) + i
            /\ Object(Image(hdr, N, q), Count(os) + i, mm, Ok).ok = Ok
        BY ObjectParts
      <4> QED BY Zenon, <1>0, <2>8, <4>1
    <3>2. Stands(Image(hdr, N, q), n + i, pay, wanted)
      BY Zenon, <1>0, <1>s, <1>w, <2>5, <2>8, <2>n
    <3>3. r.ok
      BY Zenon, <3>1 DEF Ok
    <3> QED BY Zenon, <3>1, <3>2, <3>3
  <2> QED BY Zenon, <2>5, <2>7, <2>8, <2>n
<1> QED BY Zenon, <1>4, <1>5

-----------------------------------------------------------------------------
(* A token or a payload put in the place of another.                         *)

LEMMA Suffix ==
  ASSUME NEW b \in Seq(Nat), NEW a \in Nat, NEW n \in Nat, Len(b) = a + n
  PROVE  /\ SubSeq(b, a + 1, Len(b)) \in Seq(Nat) /\ Len(SubSeq(b, a + 1, Len(b))) = n
         /\ \A k \in 1 .. n : SubSeq(b, a + 1, Len(b))[k] = b[a + k]
<1> DEFINE r == SubSeq(b, a + 1, a + n)
<1>1. r \in Seq(Nat)
  BY SMT
<1>2. Len(r) = n
  BY SMT
<1>3. \A k \in 1 .. n : r[k] = b[a + k]
  BY SMT
<1>4. r = SubSeq(b, a + 1, Len(b))
  OBVIOUS
<1> HIDE DEF r
<1> QED BY Zenon, <1>1, <1>2, <1>3, <1>4

LEMMA EndOf ==
  ASSUME NEW p \in Octets, NEW q \in Octets
  PROVE  SubSeq(p ++ q, Size(p) + 1, Len(p ++ q)) = q
<1>1. p \in Seq(Nat) /\ q \in Seq(Nat)
  BY DEF Octets
<1>2. /\ p \o q \in Seq(Nat) /\ Len(p \o q) = Len(p) + Len(q) /\ Len(p) \in Nat /\ Len(q) \in Nat
      /\ \A k \in 1 .. Len(q) : (p \o q)[Len(p) + k] = q[k]
  BY <1>1, Cat
<1> DEFINE b == p \o q
<1>3. /\ b \in Seq(Nat) /\ Len(b) = Len(p) + Len(q)
      /\ \A k \in 1 .. Len(q) : b[Len(p) + k] = q[k]
  BY <1>2
<1> HIDE DEF b
<1>4. /\ SubSeq(b, Len(p) + 1, Len(b)) \in Seq(Nat) /\ Len(SubSeq(b, Len(p) + 1, Len(b))) = Len(q)
      /\ \A k \in 1 .. Len(q) : SubSeq(b, Len(p) + 1, Len(b))[k] = b[Len(p) + k]
  BY <1>2, <1>3, Suffix
<1>5. SubSeq(b, Len(p) + 1, Len(b)) = q
  <2>1. \A k \in 1 .. Len(SubSeq(b, Len(p) + 1, Len(b))) : SubSeq(b, Len(p) + 1, Len(b))[k] = q[k]
    BY Zenon, <1>3, <1>4
  <2> DEFINE x == SubSeq(b, Len(p) + 1, Len(b))
  <2>2. x \in Seq(Nat) /\ Len(x) = Len(q) /\ \A k \in 1 .. Len(x) : x[k] = q[k]
    BY Zenon, <1>4, <2>1
  <2> HIDE DEF x
  <2>3. x = q
    BY <1>1, <2>2, SameSeq
  <2> QED BY <2>3 DEF x
<1> QED BY Zenon, <1>5 DEF b, ++, Size

LEMMA SizeBound == ASSUME NEW t \in Octets, Size(t) <= 8 PROVE \E i \in 0 .. 8 : i = Len(t)
<1>1. PICK n \in Nat : n = Len(t) /\ n <= 8
  BY SMT DEF Octets, Size
<1>2. \A i \in Nat : i <= 8 => i \in 0 .. 8
  BY SMT
<1> QED BY Zenon, <1>1, <1>2

LEMMA FirstFour ==
  ASSUME NEW c \in Seq(Nat), Len(c) >= 4
  PROVE  /\ SubSeq(c, 1, 4) \in Seq(Nat) /\ Len(SubSeq(c, 1, 4)) = 4
         /\ \A i \in 1 .. 4 : SubSeq(c, 1, 4)[i] = c[i]
BY SMT

(* The first four bytes once the length of the token is set.                *)
LEMMA HeadSet ==
  ASSUME NEW b \in Seq(Nat), Len(b) >= 4, NEW j \in 0 .. 8, NEW k \in 0 .. 8,
         b[1] = 64 + j, b[2] = 1, b[3] = 1, b[4] = 2
  PROVE  SubSeq(SetTokenLength(b, k), 1, HDR) = <<64 + k, 1, 1, 2>>
<1>1. ((64 + j) \div 16) * 16 + k = 64 + k
  <2>1. (64 + j) \div 16 = 4
    BY SMT
  <2> QED BY SMT, <2>1
<1> DEFINE c == [b EXCEPT ![1] = 64 + k]
<1>2. SetTokenLength(b, k) = c
  <2>1. ~(k > 8)
    BY SMT
  <2>2. SetTokenLength(b, k) = [b EXCEPT ![1] = (b[1] \div 16) * 16 + k]
    BY Zenon, <2>1 DEF SetTokenLength
  <2>3. (b[1] \div 16) * 16 + k = 64 + k
    BY Zenon, <1>1
  <2> QED BY Zenon, <2>2, <2>3
<1>3. c \in Seq(Nat) /\ Len(c) = Len(b) /\ c[1] = 64 + k /\ c[2] = 1 /\ c[3] = 1 /\ c[4] = 2
  BY SMT
<1> HIDE DEF c
<1>4. SubSeq(c, 1, 4) = <<64 + k, 1, 1, 2>>
  <2> DEFINE x == SubSeq(c, 1, 4)
             t == <<64 + k, 1, 1, 2>>
  <2>1. /\ x \in Seq(Nat) /\ Len(x) = 4
        /\ x[1] = c[1] /\ x[2] = c[2] /\ x[3] = c[3] /\ x[4] = c[4]
    <3>1. c \in Seq(Nat) /\ Len(c) >= 4
      BY Zenon, <1>3
    <3>2. /\ SubSeq(c, 1, 4) \in Seq(Nat) /\ Len(SubSeq(c, 1, 4)) = 4
          /\ \A i \in 1 .. 4 : SubSeq(c, 1, 4)[i] = c[i]
      BY <3>1, FirstFour
    <3>3. 1 \in 1 .. 4 /\ 2 \in 1 .. 4 /\ 3 \in 1 .. 4 /\ 4 \in 1 .. 4
      BY SMT
    <3> QED BY Zenon, <3>2, <3>3
  <2>2. t \in Seq(Nat) /\ Len(t) = 4 /\ t[1] = 64 + k /\ t[2] = 1 /\ t[3] = 1 /\ t[4] = 2
    BY SMT
  <2> HIDE DEF x, t
  <2>3. \A i \in 1 .. Len(x) : i = 1 \/ i = 2 \/ i = 3 \/ i = 4
    BY SMT, <2>1
  <2>4. \A i \in 1 .. Len(x) : x[i] = t[i]
    BY Zenon, <1>3, <2>1, <2>2, <2>3
  <2>5. x = t
    BY <2>1, <2>2, <2>4, SameSeq
  <2> QED BY <2>5 DEF x, t
<1> QED BY Zenon, <1>2, <1>4 DEF HDR

LEMMA HdrBytes ==
  ASSUME NEW token \in Octets, NEW s \in Octets
  PROVE  LET b == Hdr(token) ++ s IN
         b \in Seq(Nat) /\ Len(b) >= 4 /\ b[1] = 64 + Len(token) /\ b[2] = 1 /\ b[3] = 1 /\ b[4] = 2
<1> DEFINE h == <<64 + Len(token), 1, 1, 2>>
<1>1. Len(token) \in Nat /\ token \in Seq(Nat) /\ s \in Seq(Nat)
  BY SMT DEF Octets
<1>2. /\ h \in Seq(Nat) /\ Len(h) = 4 /\ h[1] = 64 + Len(token) /\ h[2] = 1 /\ h[3] = 1 /\ h[4] = 2
  BY SMT, <1>1
<1> HIDE DEF h
<1>3. /\ h \o token \in Seq(Nat) /\ Len(h \o token) = 4 + Len(token)
      /\ \A k \in 1 .. 4 : (h \o token)[k] = h[k]
  <2>1. /\ h \o token \in Seq(Nat) /\ Len(h \o token) = Len(h) + Len(token)
        /\ \A k \in 1 .. Len(h) : (h \o token)[k] = h[k]
    BY <1>1, <1>2, Cat
  <2> QED BY Zenon, <1>2, <2>1
<1> DEFINE x == h \o token
<1>4. x \in Seq(Nat) /\ Len(x) = 4 + Len(token) /\ \A k \in 1 .. 4 : x[k] = h[k]
  BY <1>3
<1>x. Hdr(token) = x
  BY Zenon DEF Hdr, h
<1> HIDE DEF x
<1>5. /\ x \o s \in Seq(Nat) /\ Len(x \o s) = Len(x) + Len(s) /\ Len(s) \in Nat
      /\ \A k \in 1 .. Len(x) : (x \o s)[k] = x[k]
  BY <1>1, <1>4, Cat
<1>6. /\ 1 \in 1 .. 4 /\ 2 \in 1 .. 4 /\ 3 \in 1 .. 4 /\ 4 \in 1 .. 4
      /\ \A l \in Nat : 1 \in 1 .. (4 + l) /\ 2 \in 1 .. (4 + l) /\ 3 \in 1 .. (4 + l) /\ 4 \in 1 .. (4 + l)
      /\ \A l, m \in Nat : (4 + l) + m >= 4
  BY SMT
<1>7. /\ x \o s \in Seq(Nat) /\ Len(x \o s) >= 4
      /\ (x \o s)[1] = 64 + Len(token) /\ (x \o s)[2] = 1 /\ (x \o s)[3] = 1 /\ (x \o s)[4] = 2
  <2>1. x[1] = 64 + Len(token) /\ x[2] = 1 /\ x[3] = 1 /\ x[4] = 2
    BY Zenon, <1>2, <1>4, <1>6
  <2>2. 1 \in 1 .. Len(x) /\ 2 \in 1 .. Len(x) /\ 3 \in 1 .. Len(x) /\ 4 \in 1 .. Len(x)
    BY Zenon, <1>1, <1>4, <1>6
  <2>3. /\ (x \o s)[1] = x[1] /\ (x \o s)[2] = x[2] /\ (x \o s)[3] = x[3] /\ (x \o s)[4] = x[4]
    BY Zenon, <1>5, <2>2
  <2>4. Len(x \o s) >= 4
    BY Zenon, <1>1, <1>4, <1>5, <1>6
  <2> QED BY Zenon, <1>5, <2>1, <2>3, <2>4
<1> QED BY Zenon, <1>7, <1>x DEF ++

(* setToken replaces the token and moves what is behind it.                 *)
LEMMA TokenReplaced ==
  ASSUME NEW old \in Octets, Size(old) <= 8, NEW token \in Octets, Size(token) <= 8, NEW s \in Octets
  PROVE  WithToken(Hdr(old) ++ s, token) = Hdr(token) ++ s
<1> DEFINE b == Hdr(old) ++ s
<1>1. /\ Hdr(old) \in Octets /\ Size(Hdr(old)) = 4 + Size(old) /\ TokenLength(b) = Size(old)
  BY HdrIs
<1>2. PICK j \in 0 .. 8, k \in 0 .. 8 : j = Len(old) /\ k = Len(token)
  <2>1. Len(old) \in 0 .. 8 /\ Len(token) \in 0 .. 8
    <3>1. \E i \in 0 .. 8 : i = Len(old)
      BY SizeBound
    <3>2. \E i \in 0 .. 8 : i = Len(token)
      BY SizeBound
    <3> QED BY Zenon, <3>1, <3>2
  <2> QED BY Zenon, <2>1
<1>3. b \in Seq(Nat) /\ Len(b) >= 4 /\ b[1] = 64 + j /\ b[2] = 1 /\ b[3] = 1 /\ b[4] = 2
  <2>1. b \in Seq(Nat) /\ Len(b) >= 4 /\ b[1] = 64 + Len(old) /\ b[2] = 1 /\ b[3] = 1 /\ b[4] = 2
    BY HdrBytes
  <2> QED BY Zenon, <1>2, <2>1
<1>4. SubSeq(b, Size(Hdr(old)) + 1, Len(b)) = s
  BY <1>1, EndOf
<1> HIDE DEF b
<1>5. SubSeq(SetTokenLength(b, k), 1, HDR) = <<64 + k, 1, 1, 2>>
  BY <1>3, HeadSet
<1>6. HDR + TokenLength(b) + 1 = Size(Hdr(old)) + 1
  <2>1. HDR = 4
    BY DEF HDR
  <2> QED BY Zenon, <1>1, <2>1
<1>7. WithToken(b, token) = (<<64 + k, 1, 1, 2>> \o token) \o s
  BY Zenon, <1>2, <1>4, <1>5, <1>6 DEF WithToken
<1> QED BY Zenon, <1>2, <1>7 DEF b, Hdr, ++

(* The bytes behind a place written again.                                  *)
LEMMA Rewritten ==
  ASSUME NEW a \in Octets, NEW old \in Octets, NEW s \in Octets
  PROVE  Overwrite(Resize(a ++ old, Size(a) + Size(s)), Size(a), s) = a ++ s
<1> DEFINE b == a \o old
           n == Len(a) + Len(s)
           r == Resize(b, n)
           x == Overwrite(r, Len(a), s)
           y == a \o s
<1>1. a \in Seq(Nat) /\ old \in Seq(Nat) /\ s \in Seq(Nat) /\ Len(a) \in Nat /\ Len(s) \in Nat /\ n \in Nat
  BY SMT DEF Octets
<1>2. /\ b \in Seq(Nat) /\ Len(b) = Len(a) + Len(old) /\ Len(old) \in Nat
      /\ \A k \in 1 .. Len(a) : b[k] = a[k]
  BY <1>1, Cat
<1>3. /\ y \in Seq(Nat) /\ Len(y) = n
      /\ \A k \in 1 .. Len(a) : y[k] = a[k]
      /\ \A k \in 1 .. Len(s) : y[Len(a) + k] = s[k]
  BY <1>1, Cat
<1> HIDE DEF b, n, y
<1>4. /\ r \in Seq(Nat) /\ Len(r) = n
      /\ \A k \in 1 .. n : k <= Len(b) => r[k] = b[k]
  BY <1>1, <1>2, ResizeIs
<1> HIDE DEF r
<1>5. /\ x \in Seq(Nat) /\ Len(x) = Len(r)
      /\ \A k \in 1 .. Len(r) :
              /\ k > Len(a) /\ k <= Len(a) + Len(s) => x[k] = s[k - Len(a)]
              /\ k <= Len(a) \/ k > Len(a) + Len(s) => x[k] = r[k]
  BY <1>1, <1>4, OverwriteIs
<1> HIDE DEF x
<1>6. \A k \in 1 .. n : x[k] = y[k]
  <2> SUFFICES ASSUME NEW k \in 1 .. n PROVE x[k] = y[k]
    OBVIOUS
  <2>0. k \in 1 .. Len(r)
    BY Zenon, <1>4
  <2>1. CASE k <= Len(a)
    <3>1. k \in 1 .. Len(a) /\ k <= Len(b)
      BY SMT, <1>1, <1>2, <2>1
    <3>2. x[k] = r[k] /\ r[k] = b[k] /\ b[k] = a[k] /\ y[k] = a[k]
      BY Zenon, <1>2, <1>3, <1>4, <1>5, <2>0, <2>1, <3>1
    <3> QED BY Zenon, <3>2
  <2>2. CASE k > Len(a)
    <3> DEFINE i == k - Len(a)
    <3>1. i \in 1 .. Len(s) /\ Len(a) + i = k /\ k <= Len(a) + Len(s)
      BY SMT, <1>1, <2>2 DEF n
    <3>2. x[k] = s[i]
      BY Zenon, <1>5, <2>0, <2>2, <3>1
    <3> HIDE DEF i
    <3>3. y[k] = s[i]
      BY Zenon, <1>3, <3>1
    <3> QED BY Zenon, <3>2, <3>3
  <2> QED BY SMT, <1>1, <2>1, <2>2
<1>7. x = y
  <2>1. Len(x) = Len(y) /\ \A k \in 1 .. Len(x) : x[k] = y[k]
    BY Zenon, <1>3, <1>4, <1>5, <1>6
  <2> QED BY <1>3, <1>5, <2>1, SameSeq
<1> QED BY Zenon, <1>7 DEF x, y, r, b, n, ++, Size

(* A marker and bytes written behind what was there.                        *)
LEMMA MarkedAppended ==
  ASSUME NEW a \in Octets, NEW h \in Nat, NEW s \in Octets
  PROVE  Overwrite(Overwrite(Resize(a, Size(a) + (1 + Size(s))), Size(a), Byte(h)), Size(a) + 1, s)
           = a ++ (Byte(h) ++ s)
<1>1. Byte(h) \in Octets /\ Size(Byte(h)) = 1 /\ a ++ Byte(h) \in Octets
      /\ Size(a ++ Byte(h)) = Size(a) + 1
  BY OctetsByte, OctetsCat
<1> DEFINE n == Size(s)
           b == Resize(a, Size(a) + (1 + n))
<1>2. n \in Nat /\ Size(a) \in Nat /\ Size(a) + (1 + n) \in Nat
  BY SMT, OctetsSize
<1>3. \E j \in Octets : Size(j) = 1 + n /\ b = a ++ j
  <2>1. a \in Seq(Nat) /\ Size(a) = Len(a)
    BY DEF Octets, Size
  <2>2. /\ b \in Seq(Nat) /\ Len(b) = Size(a) + (1 + n)
        /\ \A k \in 1 .. Size(a) + (1 + n) : k <= Len(a) => b[k] = a[k]
    BY <1>2, <2>1, ResizeIs
  <2> HIDE DEF b, n
  <2>3. 1 + n \in Nat
    BY SMT, <1>2
  <2>4. PICK u \in Seq(Nat), v \in Seq(Nat) : Len(u) = Len(a) /\ Len(v) = 1 + n /\ b = u \o v
    <3> DEFINE f == Len(a)
               e == 1 + n
    <3>1. f \in Nat /\ e \in Nat /\ b \in Seq(Nat) /\ Len(b) = f + e
      BY <1>2, <2>1, <2>2, <2>3
    <3> HIDE DEF f, e
    <3>2. \E u \in Seq(Nat), v \in Seq(Nat) : Len(u) = f /\ Len(v) = e /\ b = u \o v
      BY <3>1, Split
    <3> QED BY Zenon, <3>2 DEF f, e
  <2>5. \A k \in 1 .. Len(u) : (u \o v)[k] = u[k]
    BY <2>4, Cat
  <2>6. \A k \in 1 .. Len(a) : k \in 1 .. Size(a) + (1 + n) /\ k <= Len(a)
    BY SMT, <1>2, <2>1
  <2>7. \A k \in 1 .. Len(u) : u[k] = a[k]
    BY Zenon, <2>2, <2>4, <2>5, <2>6
  <2>8. u = a
    BY <2>1, <2>4, <2>7, SameSeq
  <2> QED BY Zenon, <2>4, <2>8 DEF Octets, Size, ++
<1> HIDE DEF b
<1>4. PICK j \in Octets : Size(j) = 1 + n /\ b = a ++ j
  BY <1>3
<1>5. PICK u \in Octets, v \in Octets : Size(u) = 1 /\ Size(v) = n /\ j = u ++ v
  <2>1. 1 \in Nat /\ Size(j) = 1 + n /\ n \in Nat
    BY <1>2, <1>4
  <2> HIDE DEF n
  <2> QED BY <2>1, OctetsSplit
<1>6. Overwrite(b, Size(a), Byte(h)) = a ++ (Byte(h) ++ v)
  <2>1. b = a ++ (u ++ v) /\ Size(u) = Size(Byte(h))
    BY Zenon, <1>1, <1>4, <1>5
  <2>2. Overwrite(a ++ (u ++ v), Size(a), Byte(h)) = a ++ (Byte(h) ++ v)
    BY <1>1, <2>1, OctetsOver
  <2> QED BY Zenon, <2>1, <2>2
<1>7. a ++ (Byte(h) ++ v) = (a ++ Byte(h)) ++ (v ++ None)
  <2>1. v ++ None = v
    BY OctetsNone
  <2>2. (a ++ Byte(h)) ++ v = a ++ (Byte(h) ++ v)
    BY <1>1, OctetsAssoc
  <2> QED BY Zenon, <2>1, <2>2
<1>8. Overwrite((a ++ Byte(h)) ++ (v ++ None), Size(a ++ Byte(h)), s) = (a ++ Byte(h)) ++ (s ++ None)
  <2>1. Size(v) = Size(s)
    BY <1>5
  <2>2. None \in Octets
    BY OctetsNone
  <2> QED BY <1>1, <2>1, <2>2, OctetsOver
<1>9. (a ++ Byte(h)) ++ (s ++ None) = a ++ (Byte(h) ++ s)
  <2>1. s ++ None = s
    BY OctetsNone
  <2>2. (a ++ Byte(h)) ++ s = a ++ (Byte(h) ++ s)
    BY <1>1, OctetsAssoc
  <2> QED BY Zenon, <2>1, <2>2
<1> QED BY Zenon, <1>1, <1>6, <1>7, <1>8, <1>9 DEF b, n

-----------------------------------------------------------------------------
(* Calls that set the token and the payload.                                 *)

LEMMA ContentChanged ==
  ASSUME NEW c \in Contents, NEW s \in Octets
  PROVE  /\ [c EXCEPT !.token = s] \in Contents
         /\ [c EXCEPT !.token = s].token = s /\ [c EXCEPT !.token = s].options = c.options
         /\ [c EXCEPT !.token = s].payload = c.payload
         /\ [c EXCEPT !.payload = s] \in Contents
         /\ [c EXCEPT !.payload = s].payload = s /\ [c EXCEPT !.payload = s].options = c.options
         /\ [c EXCEPT !.payload = s].token = c.token
<1> DEFINE O == Octets
           L == Lists
           U == Uris \cup {<< >>}
           B == Blocks \cup {-1}
<1>2. Contents = [token : O, options : L, payload : O, uri : U, block : B]
  BY Zenon DEF Contents
<1> HIDE DEF O, L, U, B
<1>1. c \in [token : O, options : L, payload : O, uri : U, block : B] /\ s \in O
  BY Zenon, <1>2 DEF O
<1>3. /\ [c EXCEPT !.token = s] \in [token : O, options : L, payload : O, uri : U, block : B]
      /\ [c EXCEPT !.token = s].token = s /\ [c EXCEPT !.token = s].options = c.options
      /\ [c EXCEPT !.token = s].payload = c.payload
  BY SMT, <1>1
<1>4. /\ [c EXCEPT !.payload = s] \in [token : O, options : L, payload : O, uri : U, block : B]
      /\ [c EXCEPT !.payload = s].payload = s /\ [c EXCEPT !.payload = s].options = c.options
      /\ [c EXCEPT !.payload = s].token = c.token
  BY SMT, <1>1
<1> QED BY Zenon, <1>2, <1>3, <1>4

(* setToken, when the buffer has room.                                      *)
LEMMA TokenStands ==
  ASSUME NEW b, NEW n, NEW pay, NEW c, Stands(b, n, pay, c),
         NEW token \in Octets, Size(token) <= 8,
         ~(Size(token) > TokenLength(b) /\ Len(b) - TokenLength(b) + Size(token) > Capacity)
  PROVE  Stands(WithToken(b, token), n, pay, [c EXCEPT !.token = token])
<1> DEFINE S == Fields(0, c.options) ++ Trail(c.payload)
           d == [c EXCEPT !.token = token]
<1>1. /\ c \in Contents /\ c.token \in Octets /\ c.options \in Lists /\ c.payload \in Octets
      /\ Hdr(c.token) \in Octets /\ Trail(c.payload) \in Octets /\ Ascending(0, c.options)
      /\ b = Image(Hdr(c.token), c.options, Trail(c.payload)) /\ Size(b) <= Capacity
      /\ n = Count(c.options)
  BY StandsParts
<1>2. Size(c.token) <= 8
  BY Zenon DEF Stands
<1>3. S \in Octets
  <2>1. Fields(0, c.options) \in Octets
    BY <1>1, FieldsIn, ZeroIn
  <2> QED BY <1>1, <2>1, OctetsCat
<1>4. b = Hdr(c.token) ++ S /\ \A t : Image(Hdr(t), c.options, Trail(c.payload)) = Hdr(t) ++ S
  BY Zenon, <1>1 DEF Image
<1>5. /\ d \in Contents /\ d.token = token /\ d.options = c.options /\ d.payload = c.payload
  BY <1>1, ContentChanged
<1> HIDE DEF S, d
<1>6. WithToken(b, token) = Hdr(token) ++ S
  <2>1. WithToken(Hdr(c.token) ++ S, token) = Hdr(token) ++ S
    BY <1>1, <1>2, <1>3, TokenReplaced
  <2> QED BY Zenon, <1>4, <2>1
<1>7. Size(Hdr(token) ++ S) <= Capacity
  <2>1. PICK x \in Nat, y \in Nat, z \in Nat : x = Size(c.token) /\ y = Size(token) /\ z = Size(S)
    BY Zenon, <1>1, <1>3, OctetsSize
  <2>2. /\ Hdr(c.token) \in Octets /\ Size(Hdr(c.token)) = 4 + Size(c.token)
        /\ \A s \in Octets : TokenLength(Hdr(c.token) ++ s) = Size(c.token)
    BY <1>1, <1>2, HdrIs
  <2>3. Hdr(token) \in Octets /\ Size(Hdr(token)) = 4 + Size(token)
    BY HdrIs
  <2>4. Size(Hdr(c.token) ++ S) = Size(Hdr(c.token)) + Size(S)
    BY <1>3, <2>2, OctetsCat
  <2>5. Size(Hdr(token) ++ S) = Size(Hdr(token)) + Size(S)
    BY <1>3, <2>3, OctetsCat
  <2>6. TokenLength(b) = x /\ Len(b) = (4 + x) + z /\ Size(b) = (4 + x) + z
    BY Zenon, <1>3, <1>4, <2>1, <2>2, <2>4 DEF Size
  <2>7. Size(Hdr(token) ++ S) = (4 + y) + z
    BY Zenon, <2>1, <2>3, <2>5
  <2>8. (4 + x) + z <= Capacity /\ ~(y > x /\ ((4 + x) + z) - x + y > Capacity)
    BY Zenon, <1>1, <2>1, <2>6
  <2>9. (4 + y) + z <= Capacity
    BY SMT, <2>8, CoapBytesAssumption
  <2> QED BY Zenon, <2>7, <2>9
<1>8. Fitting(Hdr(token), c.options, Trail(c.payload), n)
  BY Zenon, <1>1, <1>4, <1>7 DEF Fitting
<1>9. PICK at \in Nat : pay = [at |-> at, len |-> Size(c.payload)] /\ (at = 0 <=> c.payload = None)
  BY Zenon DEF Stands
<1>10. Stands(Hdr(token) ++ S, n, pay, d)
  BY Zenon, <1>4, <1>5, <1>8, <1>9 DEF Stands
<1> QED BY Zenon, <1>6, <1>10 DEF d

(* mallocPayload, when there is room.                                       *)
LEMMA PayloadStands ==
  ASSUME NEW b, NEW n, NEW pay, NEW c, Stands(b, n, pay, c),
         NEW bytes \in Octets, Size(bytes) > 0,
         NEW at, at = (IF pay.at = 0 THEN Len(b) + 1 ELSE pay.at),
         NEW s, s = Resize(b, Len(b) + Size(bytes) - pay.len + (IF pay.len = 0 THEN 1 ELSE 0)),
         Len(s) <= Capacity,
         pay.at \in {0, Len(b) - pay.len}
  PROVE  Stands(Overwrite(IF pay.at = 0 THEN Overwrite(s, at - 1, <<MARKER>>) ELSE s, at, bytes), n,
                [at |-> at, len |-> Size(bytes)], [c EXCEPT !.payload = bytes])
<1> DEFINE H == Hdr(c.token) ++ Fields(0, c.options)
           d == [c EXCEPT !.payload = bytes]
<1>1. /\ c \in Contents /\ c.token \in Octets /\ c.options \in Lists /\ c.payload \in Octets
      /\ Hdr(c.token) \in Octets /\ Trail(c.payload) \in Octets /\ Ascending(0, c.options)
      /\ b = Image(Hdr(c.token), c.options, Trail(c.payload)) /\ Size(b) <= Capacity
      /\ n = Count(c.options)
  BY StandsParts
<1>2. Size(c.token) <= 8
  BY Zenon DEF Stands
<1>3. H \in Octets /\ \A t \in Octets : Image(Hdr(c.token), c.options, t) = H ++ t
  <2>1. Fields(0, c.options) \in Octets
    BY <1>1, FieldsIn, ZeroIn
  <2>2. H \in Octets
    BY <1>1, <2>1, OctetsCat
  <2>3. \A t \in Octets : (Hdr(c.token) ++ Fields(0, c.options)) ++ t = Hdr(c.token) ++ (Fields(0, c.options) ++ t)
    BY <1>1, <2>1, OctetsAssoc
  <2> QED BY Zenon, <2>2, <2>3 DEF Image
<1>5. /\ d \in Contents /\ d.payload = bytes /\ d.options = c.options /\ d.token = c.token
  BY <1>1, ContentChanged
<1>6. /\ Byte(255) \in Octets /\ Size(Byte(255)) = 1 /\ Byte(255) ++ bytes \in Octets
      /\ Trail(bytes) = Byte(255) ++ bytes /\ bytes # None /\ Byte(255) = <<MARKER>>
  <2>1. 255 \in Nat
    OBVIOUS
  <2>2. Byte(255) \in Octets /\ Size(Byte(255)) = 1 /\ Size(None) = 0
    BY <2>1, OctetsByte, OctetsNone
  <2>3. bytes # None
    <3>1. ~(0 > 0)
      BY SMT
    <3> QED BY Zenon, <2>2, <3>1
  <2>4. Byte(255) ++ bytes \in Octets
    BY <2>2, OctetsCat
  <2> QED BY Zenon, <2>2, <2>3, <2>4, TrailIs DEF Byte, MARKER
<1>7. PICK k \in Nat : pay = [at |-> k, len |-> Size(c.payload)] /\ (k = 0 <=> c.payload = None)
  BY Zenon DEF Stands
<1>8. pay.at = k /\ pay.len = Size(c.payload)
  BY <1>7
<1>9. PICK l \in Nat, m \in Nat, h \in Nat : l = Size(c.payload) /\ m = Size(bytes) /\ h = Size(H)
  BY Zenon, <1>1, <1>3, OctetsSize
<1> HIDE DEF H, d
<1>c. \A x : /\ x = H ++ (Byte(255) ++ bytes) /\ Size(x) <= Capacity
             /\ at \in Nat /\ at # 0
             => Stands(x, n, [at |-> at, len |-> Size(bytes)], d)
  <2> SUFFICES ASSUME NEW x, x = H ++ (Byte(255) ++ bytes), Size(x) <= Capacity, at \in Nat, at # 0
               PROVE  Stands(x, n, [at |-> at, len |-> Size(bytes)], d)
    BY Zenon
  <2>1. x = Image(Hdr(c.token), c.options, Trail(bytes))
    BY Zenon, <1>3, <1>6
  <2>2. Fitting(Hdr(c.token), c.options, Trail(bytes), n)
    BY Zenon, <1>1, <2>1 DEF Fitting
  <2>3. \E j \in Nat : /\ [at |-> at, len |-> Size(bytes)] = [at |-> j, len |-> Size(bytes)]
                       /\ j = 0 <=> bytes = None
    BY Zenon, <1>6
  <2> QED BY Zenon, <1>2, <1>5, <2>1, <2>2, <2>3 DEF Stands
<1>10. CASE k = 0
  <2>1. l = 0 /\ c.payload = None
    BY Zenon, <1>7, <1>9, <1>10, OctetsNone
  <2>2. b = H
    <3>1. Trail(c.payload) = None
      BY Zenon, <2>1, TrailIs
    <3>2. H ++ None = H
      BY Zenon, <1>3, OctetsNone
    <3> QED BY Zenon, <1>1, <1>3, <3>1, <3>2
  <2>3. at = Size(H) + 1 /\ at - 1 = Size(H) /\ at \in Nat /\ at # 0
    <3>1. at = Size(H) + 1
      BY Zenon, <1>8, <1>10, <2>2 DEF Size
    <3>2. (h + 1) - 1 = h /\ h + 1 \in Nat /\ h + 1 # 0
      BY SMT
    <3> QED BY Zenon, <1>9, <3>1, <3>2
  <2>4. s = Resize(H, Size(H) + (1 + Size(bytes)))
    <3>1. h + m - 0 + 1 = h + (1 + m)
      BY SMT
    <3>2. Len(b) = h
      BY Zenon, <1>9, <2>2 DEF Size
    <3>3. s = Resize(H, h + m - 0 + 1)
      BY Zenon, <1>8, <1>9, <2>1, <2>2, <3>2
    <3> QED BY Zenon, <1>9, <3>1, <3>3
  <2>5. Overwrite(Overwrite(s, at - 1, <<MARKER>>), at, bytes) = H ++ (Byte(255) ++ bytes)
    <3>1. 255 \in Nat
      OBVIOUS
    <3>2. Overwrite(Overwrite(Resize(H, Size(H) + (1 + Size(bytes))), Size(H), Byte(255)), Size(H) + 1, bytes)
            = H ++ (Byte(255) ++ bytes)
      BY <1>3, <3>1, MarkedAppended
    <3> QED BY Zenon, <1>6, <2>3, <2>4, <3>2
  <2>6. Size(H ++ (Byte(255) ++ bytes)) <= Capacity
    <3>1. Size(H ++ (Byte(255) ++ bytes)) = Size(H) + (1 + Size(bytes))
      <4>1. Size(H ++ (Byte(255) ++ bytes)) = Size(H) + Size(Byte(255) ++ bytes)
        BY <1>3, <1>6, OctetsCat
      <4>2. Size(Byte(255) ++ bytes) = Size(Byte(255)) + Size(bytes)
        BY <1>6, OctetsCat
      <4> QED BY Zenon, <1>6, <4>1, <4>2
    <3>2. Len(s) = Size(H) + (1 + Size(bytes))
      <4>1. H \in Seq(Nat) /\ h + (1 + m) \in Nat
        BY <1>3 DEF Octets
      <4>2. Len(Resize(H, h + (1 + m))) = h + (1 + m)
        BY <4>1, ResizeIs
      <4> QED BY Zenon, <1>9, <2>4, <4>2
    <3> QED BY Zenon, <3>1, <3>2
  <2>7. Overwrite(IF pay.at = 0 THEN Overwrite(s, at - 1, <<MARKER>>) ELSE s, at, bytes) = H ++ (Byte(255) ++ bytes)
    BY Zenon, <1>8, <1>10, <2>5
  <2> QED BY Zenon, <1>c, <2>3, <2>6, <2>7 DEF d
<1>11. CASE k # 0
  <2> DEFINE A == H ++ Byte(255)
             P == c.payload
  <2>1. /\ P # None /\ P \in Octets /\ Trail(P) = Byte(255) ++ P /\ Size(P) > 0
    BY Zenon, <1>1, <1>7, <1>11, TrailIs
  <2>2. b = A ++ P /\ A \in Octets /\ Size(A) = h + 1
    <3>1. (H ++ Byte(255)) ++ P = H ++ (Byte(255) ++ P)
      BY <1>1, <1>3, <1>6, OctetsAssoc
    <3>2. b = H ++ (Byte(255) ++ P)
      BY Zenon, <1>1, <1>3, <2>1
    <3>3. A \in Octets /\ Size(A) = Size(H) + Size(Byte(255))
      BY <1>3, <1>6, OctetsCat
    <3> QED BY Zenon, <1>6, <1>9, <3>1, <3>2, <3>3
  <2>p. P = c.payload
    OBVIOUS
  <2>a. A = H ++ Byte(255)
    OBVIOUS
  <2> HIDE DEF A, P
  <2>3. l > 0 /\ Len(b) = (h + 1) + l
    <3>1. Size(A ++ P) = Size(A) + Size(P)
      BY <2>1, <2>2, OctetsCat
    <3> QED BY Zenon, <1>9, <2>1, <2>2, <2>p, <3>1 DEF Size
  <2>4. at = Size(A) /\ at \in Nat /\ at # 0
    <3>1. k = 0 \/ k = ((h + 1) + l) - l
      BY Zenon, <1>8, <1>9, <2>3
    <3>2. k = h + 1
      BY SMT, <1>11, <3>1
    <3>3. h + 1 \in Nat /\ h + 1 # 0
      BY SMT
    <3> QED BY Zenon, <1>8, <1>11, <2>2, <3>2, <3>3
  <2>5. s = Resize(A ++ P, Size(A) + Size(bytes))
    <3>1. l # 0 /\ ((h + 1) + l) + m - l + 0 = (h + 1) + m
      BY SMT, <2>3
    <3>2. s = Resize(b, ((h + 1) + l) + m - l + 0)
      BY Zenon, <1>8, <1>9, <2>3, <3>1
    <3> QED BY Zenon, <1>9, <2>2, <3>1, <3>2
  <2>6. Overwrite(s, at, bytes) = A ++ bytes
    <3>1. Overwrite(Resize(A ++ P, Size(A) + Size(bytes)), Size(A), bytes) = A ++ bytes
      BY <2>1, <2>2, Rewritten
    <3> QED BY Zenon, <2>4, <2>5, <3>1
  <2>7. A ++ bytes = H ++ (Byte(255) ++ bytes)
    <3>1. (H ++ Byte(255)) ++ bytes = H ++ (Byte(255) ++ bytes)
      BY <1>3, <1>6, OctetsAssoc
    <3> QED BY Zenon, <2>a, <3>1
  <2>8. Size(A ++ bytes) <= Capacity
    <3>1. Size(A ++ bytes) = Size(A) + Size(bytes)
      BY <2>2, OctetsCat
    <3>2. Len(s) = Size(A) + Size(bytes)
      <4>1. A ++ P \in Octets
        BY <2>1, <2>2, OctetsCat
      <4>2. A ++ P \in Seq(Nat) /\ (h + 1) + m \in Nat
        BY <4>1 DEF Octets
      <4>3. Len(Resize(A ++ P, (h + 1) + m)) = (h + 1) + m
        BY <4>2, ResizeIs
      <4> QED BY Zenon, <1>9, <2>2, <2>5, <4>3
    <3> QED BY Zenon, <3>1, <3>2
  <2>9. Overwrite(IF pay.at = 0 THEN Overwrite(s, at - 1, <<MARKER>>) ELSE s, at, bytes) = H ++ (Byte(255) ++ bytes)
    BY Zenon, <1>8, <1>11, <2>6, <2>7
  <2> QED BY Zenon, <1>c, <2>4, <2>7, <2>8, <2>9 DEF d
<1> QED BY Zenon, <1>10, <1>11

-----------------------------------------------------------------------------
(* The initial state and reset.                                              *)

(* The bytes that a reset object begins with.                               *)
LEMMA ClearedIs == Cleared = Hdr(None) /\ Size(None) = 0
<1> DEFINE a == <<64, 0, 0, 0>>
           c == <<64, 1, 0, 0>>
           d == <<64, 1, 1, 2>>
<1>1. SetVersion(ZeroHeader, 1) = a
  <2>1. ~(1 > 3) /\ 1 * 64 + (0 % 64) = 64
    BY SMT
  <2>2. [<<0, 0, 0, 0>> EXCEPT ![1] = 64] = a
    BY SMT
  <2>3. <<0, 0, 0, 0>>[1] = 0
    BY SMT
  <2> QED BY Zenon, <2>1, <2>2, <2>3 DEF SetVersion, ZeroHeader
<1>2. SetType(a, CONFIRMABLE) = a
  <2>1. (64 \div 16) % 4 = 0 /\ (64 \div 64) * 64 + 0 + (64 % 16) = 64
    BY SMT
  <2>2. [a EXCEPT ![1] = 64] = a /\ a[1] = 64
    BY SMT
  <2> HIDE DEF a
  <2> QED BY Zenon, <2>1, <2>2 DEF SetType, CONFIRMABLE
<1>3. SetCode(a, 1) = c
  BY SMT DEF SetCode
<1>4. SetMessageID(c, 258) = d
  <2>1. Store16(258) = <<1, 2>>
    <3>1. 258 \div 256 = 1 /\ 258 % 256 = 2
      BY SMT
    <3> QED BY Zenon, <3>1 DEF Store16
  <2>2. SubSeq(c, 1, 2) = <<64, 1>>
    <3>1. /\ c \in Seq(Nat) /\ Len(c) = 4 /\ c[1] = 64 /\ c[2] = 1
      BY SMT
    <3> HIDE DEF c
    <3>2. /\ SubSeq(c, 1, 2) \in Seq(Nat) /\ Len(SubSeq(c, 1, 2)) = 2
          /\ \A i \in 1 .. 2 : SubSeq(c, 1, 2)[i] = c[i]
      BY SMT, <3>1
    <3>3. <<64, 1>> \in Seq(Nat) /\ Len(<<64, 1>>) = 2 /\ <<64, 1>>[1] = 64 /\ <<64, 1>>[2] = 1
      BY SMT
    <3>4. \A i \in 1 .. 2 : i = 1 \/ i = 2
      BY SMT
    <3>5. \A i \in 1 .. 2 : SubSeq(c, 1, 2)[i] = <<64, 1>>[i]
      BY Zenon, <3>1, <3>2, <3>3, <3>4
    <3> DEFINE x == SubSeq(c, 1, 2)
               y == <<64, 1>>
    <3>6. x \in Seq(Nat) /\ y \in Seq(Nat) /\ Len(x) = Len(y) /\ \A i \in 1 .. Len(x) : x[i] = y[i]
      BY Zenon, <3>2, <3>3, <3>5
    <3> HIDE DEF x, y
    <3>7. x = y
      BY <3>6, SameSeq
    <3> QED BY <3>7 DEF x, y
  <2>3. SubSeq(c, 5, 4) = << >> /\ Len(c) = 4 /\ HDR + 1 = 5
    BY SMT DEF HDR
  <2>4. (<<64, 1>> \o <<1, 2>>) \o << >> = d
    <3> DEFINE u == <<64, 1>>
               v == <<1, 2>>
               w == u \o v
    <3>1. /\ u \in Seq(Nat) /\ Len(u) = 2 /\ u[1] = 64 /\ u[2] = 1
          /\ v \in Seq(Nat) /\ Len(v) = 2 /\ v[1] = 1 /\ v[2] = 2
          /\ d \in Seq(Nat) /\ Len(d) = 4 /\ d[1] = 64 /\ d[2] = 1 /\ d[3] = 1 /\ d[4] = 2
      BY SMT
    <3> HIDE DEF u, v, d
    <3>2. /\ w \in Seq(Nat) /\ Len(w) = 4
          /\ w[1] = u[1] /\ w[2] = u[2] /\ w[3] = v[1] /\ w[4] = v[2]
      <4>1. /\ w \in Seq(Nat) /\ Len(w) = Len(u) + Len(v)
            /\ \A k \in 1 .. Len(u) : w[k] = u[k]
            /\ \A k \in 1 .. Len(v) : w[Len(u) + k] = v[k]
        BY <3>1, Cat
      <4>2. 2 + 1 = 3 /\ 2 + 2 = 4 /\ 1 \in 1 .. 2 /\ 2 \in 1 .. 2
        BY SMT
      <4> HIDE DEF w
      <4>3. 1 \in 1 .. Len(u) /\ 2 \in 1 .. Len(u) /\ 1 \in 1 .. Len(v) /\ 2 \in 1 .. Len(v)
        BY Zenon, <3>1, <4>2
      <4>4. w[1] = u[1] /\ w[2] = u[2] /\ w[Len(u) + 1] = v[1] /\ w[Len(u) + 2] = v[2]
        BY Zenon, <4>1, <4>3
      <4>5. Len(u) + 1 = 3 /\ Len(u) + 2 = 4 /\ Len(u) + Len(v) = 4
        BY Zenon, <3>1, <4>2
      <4> QED BY Zenon, <4>1, <4>4, <4>5
    <3>3. w \o << >> = w
      <4>1. w ++ None = w
        BY <3>2, OctetsNone DEF Octets
      <4> QED BY Zenon, <4>1 DEF ++, None
    <3>4. w = d
      <4> HIDE DEF w
      <4>1. \A k \in 1 .. Len(w) : k = 1 \/ k = 2 \/ k = 3 \/ k = 4
        BY SMT, <3>2
      <4>2. Len(w) = Len(d) /\ \A k \in 1 .. Len(w) : w[k] = d[k]
        BY Zenon, <3>1, <3>2, <4>1
      <4> QED BY <3>1, <3>2, <4>2, SameSeq
    <3> QED BY Zenon, <3>3, <3>4 DEF u, v, w
  <2> HIDE DEF c, d
  <2> QED BY Zenon, <2>1, <2>2, <2>3, <2>4 DEF SetMessageID
<1>5. Hdr(None) = d
  <2>1. 64 + Len(<< >>) = 64 /\ d \o << >> = d
    BY SMT
  <2> QED BY Zenon, <2>1 DEF Hdr, None
<1>6. Cleared = d
  <2> HIDE DEF a, c, d
  <2> QED BY Zenon, <1>1, <1>2, <1>3, <1>4 DEF Cleared
<1> QED BY Zenon, <1>5, <1>6, OctetsNone

LEMMA ClearedStands == Stands(Cleared, 0, NoPayload, Empty)
<1>1. Empty \in Contents /\ Empty.token = None /\ Empty.options = Nil /\ Empty.payload = None
  <2>1. None \in Octets /\ Nil \in Lists
    BY OctetsNone, ListsNil
  <2> DEFINE O == Octets
             L == Lists
             U == Uris \cup {<< >>}
             B == Blocks \cup {-1}
  <2>2. Contents = [token : O, options : L, payload : O, uri : U, block : B]
    BY Zenon DEF Contents
  <2>3. << >> \in O /\ << >> \in L /\ << >> \in U /\ -1 \in B
    BY Zenon, <2>1 DEF None, Nil
  <2> HIDE DEF O, L, U, B
  <2>4. /\ Empty \in [token : O, options : L, payload : O, uri : U, block : B]
        /\ Empty.token = << >> /\ Empty.options = << >> /\ Empty.payload = << >>
    BY SMT, <2>3 DEF Empty
  <2> QED BY Zenon, <2>2, <2>4 DEF None, Nil
<1>2. Fields(0, Nil) = None /\ Ascending(0, Nil) /\ Nil \in Lists /\ Count(Nil) = 0
  BY FieldsStep, AscendingStep, ListsNil
<1>3. /\ None \in Octets /\ Trail(None) = None /\ Size(None) = 0 /\ Size(None) <= 8
      /\ Hdr(None) \in Octets /\ Size(Hdr(None)) = 4
  <2>1. None \in Octets /\ Size(None) = 0 /\ 0 <= 8 /\ 4 + 0 = 4
    BY OctetsNone
  <2>2. Size(None) <= 8
    BY Zenon, <2>1
  <2>3. Hdr(None) \in Octets /\ Size(Hdr(None)) = 4 + Size(None)
    BY <2>1, <2>2, HdrIs
  <2>4. 4 + 0 = 4
    BY SMT
  <2> QED BY Zenon, <2>1, <2>2, <2>3, <2>4, TrailIs
<1>4. Image(Hdr(None), Nil, None) = Hdr(None)
  <2>1. None ++ None = None /\ Hdr(None) ++ None = Hdr(None)
    BY Zenon, <1>3, OctetsNone
  <2> QED BY Zenon, <1>2, <2>1 DEF Image
<1>5. Fitting(Hdr(None), Nil, None, 0)
  <2>1. 4 <= Capacity
    BY SMT, CoapBytesAssumption
  <2> QED BY Zenon, <1>2, <1>3, <1>4, <2>1 DEF Fitting
<1>6. \E at \in Nat : NoPayload = [at |-> at, len |-> Size(None)] /\ (at = 0 <=> None = None)
  <2>1. 0 \in Nat
    OBVIOUS
  <2> QED BY Zenon, <1>3, <2>1 DEF NoPayload
<1>7. Stands(Hdr(None), 0, NoPayload, Empty)
  BY Zenon, <1>1, <1>3, <1>4, <1>5, <1>6 DEF Stands
<1> QED BY Zenon, <1>7, ClearedIs

(* The invariant: as long as the calls are of the kind that the editing     *)
(* provides for, the bytes stand for the content.                           *)
IInv == ops \in Nat /\ (regular => Stands(pdu, num, payload, content))

LEMMA InitStands == Init => IInv
BY ClearedStands DEF Init, IInv

LEMMA ResetStands == Reset => IInv'
BY ClearedStands DEF Reset, IInv

LEMMA OperationCounts == IInv /\ Operation => regular /\ Stands(pdu, num, payload, content) /\ ops' \in Nat /\ ops \in Nat
<1> SUFFICES ASSUME IInv, Operation PROVE regular /\ Stands(pdu, num, payload, content) /\ ops' \in Nat /\ ops \in Nat
  OBVIOUS
<1>1. regular /\ ops' = ops + 1 /\ ops \in Nat /\ Stands(pdu, num, payload, content)
  BY Zenon DEF Operation, IInv
<1>2. ops + 1 \in Nat
  BY SMT, <1>1
<1> QED BY Zenon, <1>1, <1>2

LEMMA AddKeepsIt ==
  ASSUME IInv, Operation, NEW es \in Seq(Offered),
         NEW wanted, Reordered(wanted, content, InOrderAll(content.options, es)),
         Add(es, wanted)
  PROVE  IInv'
<1>1. regular /\ Stands(pdu, num, payload, content) /\ ops' \in Nat
  BY Zenon, OperationCounts
<1> DEFINE p == AddAll(Object(pdu, num, max, Ok), es)
<1>2. /\ pdu' = p.pdu /\ num' = p.num /\ payload' = payload
      /\ regular' = \/ p.num = num
                    \/ /\ max = Walk(pdu, num).number
                       /\ payload = NoPayload \/ \A k \in DOMAIN es : es[k].number < max
      /\ content' = IF p.ok THEN wanted
                    ELSE [content EXCEPT !.options = InOrderAll(@, SubSeq(es, 1, p.num - num))]
  BY Zenon DEF Add, Object, Ok
<1>3. ASSUME regular' PROVE Stands(pdu', num', payload', content')
  <2>1. \/ p.num = num
        \/ /\ max = Walk(pdu, num).number
           /\ payload = NoPayload \/ \A k \in DOMAIN es : es[k].number < max
    <3> HIDE DEF p
    <3> QED BY Zenon, <1>2, <1>3
  <2>2. Stands(p.pdu, p.num, payload, IF p.ok THEN wanted
                 ELSE [content EXCEPT !.options = InOrderAll(@, SubSeq(es, 1, p.num - num))])
    <3> DEFINE q == p
    <3>1. q = AddAll(Object(pdu, num, max, Ok), es)
      OBVIOUS
    <3>2. \/ q.num = num
          \/ /\ max = Walk(pdu, num).number
             /\ payload = NoPayload \/ \A k \in DOMAIN es : es[k].number < max
      BY <2>1
    <3> HIDE DEF q
    <3>3. Stands(q.pdu, q.num, payload, IF q.ok THEN wanted
                   ELSE [content EXCEPT !.options = InOrderAll(@, SubSeq(es, 1, q.num - num))])
      BY <1>1, <3>1, <3>2, AddStands
    <3> QED BY <3>3 DEF q
  <2> HIDE DEF p
  <2> QED BY Zenon, <1>2, <2>2
<1> QED BY Zenon, <1>1, <1>3 DEF IInv

-----------------------------------------------------------------------------
(* Every operation keeps the invariant.                                      *)

LEMMA ContentMarked ==
  ASSUME NEW c \in Contents, NEW os
  PROVE  /\ \A n \in Blocks : Reordered([c EXCEPT !.options = os, !.block = n], c, os)
         /\ \A u \in Uris : Reordered([c EXCEPT !.options = os, !.uri = IF @ = << >> THEN u ELSE @], c, os)
<1> DEFINE O == Octets
           L == Lists
           U == Uris \cup {<< >>}
           B == Blocks \cup {-1}
<1>2. Contents = [token : O, options : L, payload : O, uri : U, block : B]
  BY Zenon DEF Contents
<1>0. \A n \in Blocks : n \in B
  OBVIOUS
<1>u. \A u \in Uris : u \in U
  OBVIOUS
<1> HIDE DEF O, L, U, B
<1>1. c \in [token : O, options : L, payload : O, uri : U, block : B]
  BY Zenon, <1>2
<1>3. ASSUME NEW n \in Blocks
      PROVE  Reordered([c EXCEPT !.options = os, !.block = n], c, os)
  <2> DEFINE d == [c EXCEPT !.options = os, !.block = n]
  <2>0. n \in B
    BY <1>0
  <2>1. /\ d.token = c.token /\ d.payload = c.payload /\ d.options = os
        /\ os \in L => d \in [token : O, options : L, payload : O, uri : U, block : B]
    <3>1. d.token = c.token /\ d.payload = c.payload /\ d.options = os
      BY SMT, <1>1
    <3>2. ASSUME os \in L PROVE d \in [token : O, options : L, payload : O, uri : U, block : B]
      <4> DEFINE R == [token : O, options : L, payload : O, uri : U, block : B]
      <4>1. [c EXCEPT !.options = os] \in R
        BY SMT, <1>1, <3>2
      <4>2. \A i \in R : [i EXCEPT !.block = n] \in R
        BY SMT, <2>0
      <4> DEFINE e == [c EXCEPT !.options = os]
      <4>3. d = [e EXCEPT !.block = n]
        BY SMT, <1>1
      <4>4. e \in R
        BY <4>1
      <4> HIDE DEF R, e, d
      <4>5. [e EXCEPT !.block = n] \in R
        BY Zenon, <4>2, <4>4
      <4> QED BY Zenon, <4>3, <4>5 DEF R
    <3> QED BY Zenon, <3>1, <3>2
  <2> HIDE DEF d
  <2>2. Reordered(d, c, os)
    BY Zenon, <1>2, <2>1 DEF Reordered, L
  <2> QED BY <2>2 DEF d
<1>4. ASSUME NEW u \in Uris
      PROVE  Reordered([c EXCEPT !.options = os, !.uri = IF @ = << >> THEN u ELSE @], c, os)
  <2> DEFINE w == IF c.uri = << >> THEN u ELSE c.uri
             d == [c EXCEPT !.options = os, !.uri = w]
  <2>0. w \in U
    <3>1. u \in U /\ c.uri \in U
      BY SMT, <1>1, <1>u
    <3> QED BY Zenon, <3>1
  <2>e. [c EXCEPT !.options = os, !.uri = IF @ = << >> THEN u ELSE @] = d
    BY SMT, <1>1
  <2> HIDE DEF w
  <2>1. /\ d.token = c.token /\ d.payload = c.payload /\ d.options = os
        /\ os \in L => d \in [token : O, options : L, payload : O, uri : U, block : B]
    <3>1. d.token = c.token /\ d.payload = c.payload /\ d.options = os
      BY SMT, <1>1
    <3>2. ASSUME os \in L PROVE d \in [token : O, options : L, payload : O, uri : U, block : B]
      <4> DEFINE R == [token : O, options : L, payload : O, uri : U, block : B]
      <4>1. [c EXCEPT !.options = os] \in R
        BY SMT, <1>1, <3>2
      <4>2. \A i \in R : [i EXCEPT !.uri = w] \in R
        BY SMT, <2>0
      <4> DEFINE e == [c EXCEPT !.options = os]
      <4>3. d = [e EXCEPT !.uri = w]
        BY SMT, <1>1
      <4>4. e \in R
        BY <4>1
      <4> HIDE DEF R, e, d
      <4>5. [e EXCEPT !.uri = w] \in R
        BY Zenon, <4>2, <4>4
      <4> QED BY Zenon, <4>3, <4>5 DEF R
    <3> QED BY Zenon, <3>1, <3>2
  <2> HIDE DEF d
  <2>2. Reordered(d, c, os)
    BY Zenon, <1>2, <2>1 DEF Reordered, L
  <2> QED BY Zenon, <2>2, <2>e
<1> QED BY Zenon, <1>3, <1>4

LEMMA OfferedElement ==
  ASSUME NEW n \in Uint16, NEW v \in Octets
  PROVE  Element(n, v) \in Offered /\ <<Element(n, v)>> \in Seq(Offered)
<1>1. Element(n, v) \in Offered
  <2> DEFINE N == Uint16
             V == Octets
  <2>1. n \in N /\ v \in V
    OBVIOUS
  <2> HIDE DEF N, V
  <2>2. [number |-> n, value |-> v] \in [number : N, value : V]
    BY SMT, <2>1
  <2> QED BY Zenon, <2>2 DEF Element, Offered, N, V
<1> DEFINE S == Offered
           e == Element(n, v)
<1>2. e \in S
  BY <1>1
<1> HIDE DEF S, e
<1>3. <<e>> \in Seq(S)
  BY SMT, <1>2
<1> QED BY <1>1, <1>3 DEF S, e

LEMMA SameByte ==
  ASSUME NEW n \in Nat, NEW h \in Nat
  PROVE  [k \in 1 .. n |-> h] \in Octets /\ Size([k \in 1 .. n |-> h]) = n
<1> DEFINE f == [k \in 1 .. n |-> h]
<1>1. f \in [1 .. n -> Nat]
  OBVIOUS
<1> HIDE DEF f
<1>2. f \in Seq(Nat) /\ Len(f) = n
  BY <1>1, FnSeq
<1> QED BY Zenon, <1>2 DEF f, Octets, Size

LEMMA AddOptionKeeps ==
  ASSUME IInv, NEW n \in Numbers, NEW l \in Lens, AddOption(n, l)
  PROVE  IInv'
<1> DEFINE v == [k \in 1 .. l |-> 253 + ops]
           o == Element(n, v)
           wanted == [content EXCEPT !.options = InOrder(@, o)]
<1>1. Operation /\ Add(<<o>>, wanted)
  BY Zenon DEF AddOption
<1>2. regular /\ Stands(pdu, num, payload, content) /\ ops \in Nat
  BY Zenon, <1>1, OperationCounts
<1>3. n \in Uint16 /\ l \in Nat /\ 253 + ops \in Nat
  BY SMT, <1>2, CoapPduAssumption
<1>4. v \in Octets
  BY <1>3, SameByte
<1> HIDE DEF v
<1>5. <<o>> \in Seq(Offered)
  BY <1>3, <1>4, OfferedElement
<1> HIDE DEF o
<1>6. Reordered(wanted, content, InOrderAll(content.options, <<o>>))
  <2>1. content \in Contents
    BY Zenon, <1>2 DEF Stands
  <2>2. \A os : Reordered([content EXCEPT !.options = os], content, os)
    BY <2>1, ContentParts
  <2>3. InOrderAll(content.options, <<o>>) = InOrder(content.options, o)
    BY InOrderOne
  <2> QED BY Zenon, <2>2, <2>3
<1> HIDE DEF wanted
<1> QED BY <1>1, <1>5, <1>6, AddKeepsIt

LEMMA AddBlockKeeps ==
  ASSUME IInv, NEW n \in Blocks, AddBlock(n)
  PROVE  IInv'
<1> DEFINE v == BlockBytes(n, 0, 2)
           o == Element(BLOCK2, v)
           wanted == [content EXCEPT !.options = InOrder(@, o), !.block = n]
<1>1. Operation /\ Add(<<o>>, wanted)
  BY Zenon DEF AddBlock
<1>2. regular /\ Stands(pdu, num, payload, content) /\ ops \in Nat
  BY Zenon, <1>1, OperationCounts
<1>3. BLOCK2 \in Uint16 /\ n \in Nat
  <2>1. 23 \in Nat /\ 23 < 65536
    OBVIOUS
  <2>2. 23 \in Uint16
    BY <2>1, In16
  <2> QED BY <2>2, CoapPduAssumption DEF BLOCK2
<1>4. v \in Octets
  <2>1. BlockLow(n, 0, 2) \in Nat
    <3>1. 0 \in 0 .. 1 /\ 2 \in 0 .. 7
      BY SMT
    <3>2. BlockLow(n, 0, 2) \in Uint8
      BY <1>3, <3>1, LowByte
    <3> QED BY <3>2 DEF Uint8
  <2> DEFINE low == BlockLow(n, 0, 2)
  <2>2. low \in Nat
    BY <2>1
  <2> HIDE DEF low
  <2>3. (n \div 16) % 256 \in Nat /\ (n \div 4096) % 256 \in Nat
    BY SMT, <1>3
  <2> DEFINE x == (n \div 16) % 256
             y == (n \div 4096) % 256
  <2>4. x \in Nat /\ y \in Nat
    BY <2>3
  <2> HIDE DEF x, y
  <2>5. <<low>> \in Seq(Nat) /\ <<x, low>> \in Seq(Nat) /\ <<y, x, low>> \in Seq(Nat)
    BY SMT, <2>2, <2>4
  <2>6. v = IF n <= 15 THEN <<low>> ELSE IF n <= 4095 THEN <<x, low>> ELSE <<y, x, low>>
    BY DEF BlockBytes, low, x, y
  <2> HIDE DEF v
  <2>7. v = <<low>> \/ v = <<x, low>> \/ v = <<y, x, low>>
    BY SMT, <2>6
  <2>8. v \in Seq(Nat)
    BY <2>5, <2>7
  <2> QED BY Zenon, <2>8 DEF Octets
<1> HIDE DEF v
<1>5. <<o>> \in Seq(Offered)
  BY <1>3, <1>4, OfferedElement
<1> HIDE DEF o
<1>6. Reordered(wanted, content, InOrderAll(content.options, <<o>>))
  <2>1. content \in Contents
    BY Zenon, <1>2 DEF Stands
  <2>2. \A os : \A i \in Blocks : Reordered([content EXCEPT !.options = os, !.block = i], content, os)
    BY <2>1, ContentMarked
  <2>3. InOrderAll(content.options, <<o>>) = InOrder(content.options, o)
    BY InOrderOne
  <2> QED BY Zenon, <2>2, <2>3
<1> HIDE DEF wanted
<1> QED BY <1>1, <1>5, <1>6, AddKeepsIt

LEMMA SetURIKeeps ==
  ASSUME IInv, NEW u \in Uris, SetURI(u),
         SetURIElements(Written(u)) = Named(u), Named(u) \in Seq(Offered)
  PROVE  IInv'
<1> DEFINE es == Named(u)
           wanted == [content EXCEPT !.options = InOrderAll(@, es), !.uri = IF @ = << >> THEN u ELSE @]
<1>0. es \in Seq(Offered) /\ es = Named(u)
  OBVIOUS
<1> HIDE DEF es
<1>1. Operation /\ Add(es, wanted)
  BY Zenon, <1>0 DEF SetURI
<1>2. Stands(pdu, num, payload, content)
  BY Zenon, <1>1, OperationCounts
<1>3. Reordered(wanted, content, InOrderAll(content.options, es))
  <2>1. content \in Contents
    BY Zenon, <1>2 DEF Stands
  <2> DEFINE os == InOrderAll(content.options, es)
  <2>2. wanted = [content EXCEPT !.options = os, !.uri = IF @ = << >> THEN u ELSE @]
    OBVIOUS
  <2> HIDE DEF os
  <2>3. Reordered([content EXCEPT !.options = os, !.uri = IF @ = << >> THEN u ELSE @], content, os)
    BY <2>1, ContentMarked
  <2> HIDE DEF wanted
  <2>4. Reordered(wanted, content, os)
    BY Zenon, <2>2, <2>3
  <2> QED BY <2>4 DEF os
<1> HIDE DEF wanted
<1> QED BY <1>0, <1>1, <1>3, AddKeepsIt

LEMMA SetTokenKeeps ==
  ASSUME IInv, NEW n \in TokenLens, SetToken(n)
  PROVE  IInv'
<1> DEFINE token == [k \in 1 .. n |-> 240 + ops]
           old   == TokenLength(pdu)
<1>1. /\ Operation
      /\ \/ UNCHANGED <<pdu, content>>
         \/ /\ n > 0 /\ ~(n > old /\ Len(pdu) - old + n > Capacity)
            /\ pdu' = WithToken(pdu, token) /\ content' = [content EXCEPT !.token = token]
      /\ UNCHANGED <<num, max, payload, regular>>
  BY Zenon DEF SetToken
<1>2. regular /\ Stands(pdu, num, payload, content) /\ ops \in Nat /\ ops' \in Nat
  BY Zenon, <1>1, OperationCounts
<1>3. n \in Nat /\ n <= 8 /\ 240 + ops \in Nat
  BY SMT, <1>2, CoapPduAssumption
<1>4. token \in Octets /\ Size(token) = n
  BY <1>3, SameByte
<1> HIDE DEF token
<1>5. CASE UNCHANGED <<pdu, content>>
  <2>1. pdu' = pdu /\ content' = content /\ num' = num /\ payload' = payload
    BY Zenon, <1>1, <1>5
  <2> QED BY Zenon, <1>2, <2>1 DEF IInv
<1>6. CASE /\ ~(n > old /\ Len(pdu) - old + n > Capacity)
           /\ pdu' = WithToken(pdu, token) /\ content' = [content EXCEPT !.token = token]
  <2>1. Size(token) <= 8 /\ ~(Size(token) > TokenLength(pdu) /\ Len(pdu) - TokenLength(pdu) + Size(token) > Capacity)
    BY Zenon, <1>3, <1>4, <1>6
  <2>2. Stands(WithToken(pdu, token), num, payload, [content EXCEPT !.token = token])
    BY <1>2, <1>4, <2>1, TokenStands
  <2>3. num' = num /\ payload' = payload
    BY Zenon, <1>1
  <2> QED BY Zenon, <1>2, <1>6, <2>2, <2>3 DEF IInv
<1> QED BY Zenon, <1>1, <1>5, <1>6

LEMMA SetPayloadKeeps ==
  ASSUME IInv, NEW n \in PayloadLens, SetPayload(n)
  PROVE  IInv'
<1> DEFINE at    == IF payload.at = 0 THEN Len(pdu) + 1 ELSE payload.at
           bytes == [k \in 1 .. n |-> 250 + ops]
           b     == Space(pdu, n)
<1>1. /\ Operation
      /\ \/ UNCHANGED <<pdu, payload, content, regular>>
         \/ /\ n > 0 /\ Len(b) <= Capacity
            /\ pdu' = Overwrite(IF payload.at = 0 THEN Overwrite(b, at - 1, <<MARKER>>) ELSE b, at, bytes)
            /\ payload' = [at |-> at, len |-> n]
            /\ content' = [content EXCEPT !.payload = bytes]
            /\ regular' = (payload.at \in {0, Len(pdu) - payload.len})
      /\ num' = num
  BY Zenon DEF SetPayload
<1>2. regular /\ Stands(pdu, num, payload, content) /\ ops \in Nat /\ ops' \in Nat
  BY Zenon, <1>1, OperationCounts
<1>3. n \in Nat /\ 250 + ops \in Nat
  BY SMT, <1>2, CoapPduAssumption
<1>4. bytes \in Octets /\ Size(bytes) = n
  BY <1>3, SameByte
<1> HIDE DEF bytes
<1>5. CASE UNCHANGED <<pdu, payload, content, regular>>
  <2>1. pdu' = pdu /\ content' = content /\ payload' = payload
    BY Zenon, <1>5
  <2> QED BY Zenon, <1>1, <1>2, <2>1 DEF IInv
<1>6. CASE /\ n > 0 /\ Len(b) <= Capacity
           /\ pdu' = Overwrite(IF payload.at = 0 THEN Overwrite(b, at - 1, <<MARKER>>) ELSE b, at, bytes)
           /\ payload' = [at |-> at, len |-> n]
           /\ content' = [content EXCEPT !.payload = bytes]
           /\ regular' = (payload.at \in {0, Len(pdu) - payload.len})
  <2>1. b = Resize(pdu, Len(pdu) + Size(bytes) - payload.len + (IF payload.len = 0 THEN 1 ELSE 0))
    BY Zenon, <1>4 DEF Space
  <2>2. at = IF payload.at = 0 THEN Len(pdu) + 1 ELSE payload.at
    OBVIOUS
  <2> HIDE DEF at, b
  <2>3. ASSUME regular' PROVE Stands(pdu', num', payload', content')
    <3>1. payload.at \in {0, Len(pdu) - payload.len} /\ Len(b) <= Capacity /\ Size(bytes) > 0
      BY Zenon, <1>4, <1>6, <2>3
    <3>2. Stands(Overwrite(IF payload.at = 0 THEN Overwrite(b, at - 1, <<MARKER>>) ELSE b, at, bytes), num,
                 [at |-> at, len |-> Size(bytes)], [content EXCEPT !.payload = bytes])
      BY <1>2, <1>4, <2>1, <2>2, <3>1, PayloadStands
    <3> QED BY Zenon, <1>1, <1>4, <1>6, <3>2
  <2> QED BY Zenon, <1>2, <2>3 DEF IInv
<1> HIDE DEF at, b
<1> QED BY Zenon, <1>1, <1>5, <1>6

-----------------------------------------------------------------------------
(* A URI as text, and the loop of setURI.                                    *)

(* A URI by its segments.                                                   *)
WrittenSteps(f, n, u) == f = [k \in 0 .. n |-> IF k = 0 THEN << >> ELSE f[k - 1] \o Segments(u)[k]]

LEMMA WrittenStepsExist == ASSUME NEW u PROVE \A n \in Nat : \E f : WrittenSteps(f, n, u)
<1> DEFINE T == {n \in Nat : \E f : WrittenSteps(f, n, u)}
<1>1. 0 \in T
  <2>1. WrittenSteps([k \in 0 .. 0 |-> << >>], 0, u)
    BY SMT DEF WrittenSteps
  <2> QED BY Zenon, <2>1
<1>2. ASSUME NEW n \in Nat, n \in T PROVE n + 1 \in T
  <2>1. PICK f : WrittenSteps(f, n, u)
    BY <1>2
  <2> DEFINE x == f[n] \o Segments(u)[n + 1]
             g == Extend(f, n, x)
  <2> HIDE DEF x
  <2>2. /\ \A k \in 0 .. n : g[k] = f[k]
        /\ g[n + 1] = x
        /\ g = [k \in 0 .. n + 1 |-> g[k]]
    BY SMT DEF Extend
  <2> HIDE DEF g
  <2>3. \A k \in 0 .. n : f[k] = IF k = 0 THEN << >> ELSE f[k - 1] \o Segments(u)[k]
    BY Zenon, <2>1 DEF WrittenSteps
  <2>4. ASSUME NEW k \in 0 .. n + 1
        PROVE  g[k] = IF k = 0 THEN << >> ELSE g[k - 1] \o Segments(u)[k]
    <3>1. CASE k = n + 1
      BY Zenon, <2>2, <3>1, Count0 DEF x
    <3>2. CASE k \in 0 .. n
      BY Zenon, <2>2, <2>3, <3>2, Count0
    <3> QED BY Zenon, Count0, <3>1, <3>2
  <2>5. WrittenSteps(g, n + 1, u)
    BY Zenon, <2>2, <2>4 DEF WrittenSteps
  <2> QED BY <2>5
<1> HIDE DEF T
<1>3. \A n \in Nat : n \in T
  BY <1>1, <1>2, Induction
<1> QED BY <1>3 DEF T

LEMMA WrittenIs ==
  ASSUME NEW u, Len(Segments(u)) \in Nat
  PROVE  \E f : /\ Written(u) = IF u[1] = << >> THEN <<Slash>> ELSE f[Len(Segments(u))]
                /\ f[0] = << >>
                /\ \A k \in 0 .. Len(Segments(u)) : k # 0 => f[k] = f[k - 1] \o Segments(u)[k]
<1> DEFINE text[k \in 0 .. Len(Segments(u))] == IF k = 0 THEN << >> ELSE text[k - 1] \o Segments(u)[k]
<1>1. \E f : f = [k \in 0 .. Len(Segments(u)) |-> IF k = 0 THEN << >> ELSE f[k - 1] \o Segments(u)[k]]
  <2>1. PICK f : WrittenSteps(f, Len(Segments(u)), u)
    BY Zenon, WrittenStepsExist
  <2> QED BY Zenon, <2>1 DEF WrittenSteps
<1>2. text = [k \in 0 .. Len(Segments(u)) |-> IF k = 0 THEN << >> ELSE text[k - 1] \o Segments(u)[k]]
  BY Zenon, <1>1
<1>3. Written(u) = IF u[1] = << >> THEN <<Slash>> ELSE text[Len(Segments(u))]
  BY Zenon DEF Written
<1> HIDE DEF text
<1>4. \A k \in 0 .. Len(Segments(u)) : text[k] = IF k = 0 THEN << >> ELSE text[k - 1] \o Segments(u)[k]
  BY Zenon, <1>2
<1>5. 0 \in 0 .. Len(Segments(u))
  BY SMT
<1> QED BY Zenon, <1>3, <1>4, <1>5

(* One round of the loop of setURI.                                         *)
UriStart == [elements |-> << >>, at |-> 1, split |-> Slash, type |-> URI_PATH]
UriStep(u, st) == IF AtEnd(u, st.at) THEN st ELSE Round(u, st)

(* The loop of setURI by its rounds.                                        *)
UriSteps(f, n, u) == f = [k \in 0 .. n |-> IF k = 0 THEN UriStart ELSE UriStep(u, f[k - 1])]

LEMMA UriStepsExist == ASSUME NEW u PROVE \A n \in Nat : \E f : UriSteps(f, n, u)
<1> DEFINE T == {n \in Nat : \E f : UriSteps(f, n, u)}
<1>1. 0 \in T
  <2>1. UriSteps([k \in 0 .. 0 |-> UriStart], 0, u)
    BY SMT DEF UriSteps
  <2> QED BY Zenon, <2>1
<1>2. ASSUME NEW n \in Nat, n \in T PROVE n + 1 \in T
  <2>1. PICK f : UriSteps(f, n, u)
    BY <1>2
  <2> DEFINE x == UriStep(u, f[n])
             g == Extend(f, n, x)
  <2> HIDE DEF x
  <2>2. /\ \A k \in 0 .. n : g[k] = f[k]
        /\ g[n + 1] = x
        /\ g = [k \in 0 .. n + 1 |-> g[k]]
    BY SMT DEF Extend
  <2> HIDE DEF g
  <2>3. \A k \in 0 .. n : f[k] = IF k = 0 THEN UriStart ELSE UriStep(u, f[k - 1])
    BY Zenon, <2>1 DEF UriSteps
  <2>4. ASSUME NEW k \in 0 .. n + 1
        PROVE  g[k] = IF k = 0 THEN UriStart ELSE UriStep(u, g[k - 1])
    <3>1. CASE k = n + 1
      BY Zenon, <2>2, <3>1, Count0 DEF x
    <3>2. CASE k \in 0 .. n
      BY Zenon, <2>2, <2>3, <3>2, Count0
    <3> QED BY Zenon, Count0, <3>1, <3>2
  <2>5. UriSteps(g, n + 1, u)
    BY Zenon, <2>2, <2>4 DEF UriSteps
  <2> QED BY <2>5
<1> HIDE DEF T
<1>3. \A n \in Nat : n \in T
  BY <1>1, <1>2, Induction
<1> QED BY <1>3 DEF T

LEMMA UriIs ==
  ASSUME NEW u, Len(u) \in Nat
  PROVE  \E f : /\ SetURIElements(u) = IF Len(u) = 1 THEN <<Element(URI_PATH, u)>> ELSE f[Len(u)].elements
                /\ f[0] = UriStart
                /\ \A k \in 0 .. Len(u) : k # 0 => f[k] = UriStep(u, f[k - 1])
<1> DEFINE rounds[k \in 0 .. Len(u)] == IF k = 0 THEN [elements |-> << >>, at |-> 1, split |-> Slash, type |-> URI_PATH]
             ELSE LET st == rounds[k - 1] IN IF AtEnd(u, st.at) THEN st ELSE Round(u, st)
<1>1. \E f : f = [k \in 0 .. Len(u) |-> IF k = 0 THEN [elements |-> << >>, at |-> 1, split |-> Slash, type |-> URI_PATH]
             ELSE LET st == f[k - 1] IN IF AtEnd(u, st.at) THEN st ELSE Round(u, st)]
  <2>1. PICK f : UriSteps(f, Len(u), u)
    BY Zenon, UriStepsExist
  <2> QED BY Zenon, <2>1 DEF UriSteps, UriStart, UriStep
<1>2. rounds = [k \in 0 .. Len(u) |-> IF k = 0 THEN [elements |-> << >>, at |-> 1, split |-> Slash, type |-> URI_PATH]
             ELSE LET st == rounds[k - 1] IN IF AtEnd(u, st.at) THEN st ELSE Round(u, st)]
  BY Zenon, <1>1
<1>3. SetURIElements(u) = IF Len(u) = 1 THEN <<Element(URI_PATH, u)>> ELSE rounds[Len(u)].elements
  BY Zenon DEF SetURIElements, UriStart, UriStep
<1> HIDE DEF rounds
<1>4. \A k \in 0 .. Len(u) : rounds[k] = IF k = 0 THEN UriStart ELSE UriStep(u, rounds[k - 1])
  BY Zenon, <1>2 DEF UriStart, UriStep
<1>5. 0 \in 0 .. Len(u)
  BY SMT
<1> QED BY Zenon, <1>3, <1>4, <1>5

-----------------------------------------------------------------------------
(* The text of a URI, word by word.                                          *)

(* A word and the character in front of every word.                         *)
Separators == {Slash, Quest, Amp}
Plain(w) == w \in Seq(Nat) /\ Len(w) > 0 /\ \A i \in 1 .. Len(w) : w[i] \notin Separators

(* The ends of the words, and the text made of the first n words.           *)
Measured(N, m, wd) ==
  /\ m[0] = 0 /\ \A k \in 0 .. N : m[k] \in Nat
  /\ \A k \in 1 .. N : m[k] = (m[k - 1] + 1) + Len(wd[k])
Laid(s, n, m, sp, wd) ==
  /\ s \in Seq(Nat) /\ Len(s) = m[n]
  /\ \A k \in 1 .. n : /\ s[m[k - 1] + 1] = sp[k]
                       /\ \A i \in 1 .. Len(wd[k]) : s[(m[k - 1] + 1) + i] = wd[k][i]
  /\ \A i \in 1 .. m[n] : \E k \in 1 .. n : \/ i = m[k - 1] + 1
                                            \/ \E t \in 1 .. Len(wd[k]) : i = (m[k - 1] + 1) + t

LEMMA Marks ==
  ASSUME NEW N \in Nat, NEW m, NEW wd, Measured(N, m, wd), \A k \in 1 .. N : Plain(wd[k])
  PROVE  \A b \in 0 .. N : \A a \in 0 .. b : m[a] <= m[b] /\ (a < b => m[a] + 2 <= m[b])
<1> DEFINE T == {b \in Nat : b <= N => \A a \in 0 .. b : m[a] <= m[b] /\ (a < b => m[a] + 2 <= m[b])}
<1>1. 0 \in T
  BY SMT DEF Measured
<1>2. ASSUME NEW b \in Nat, b \in T PROVE b + 1 \in T
  <2>1. ASSUME b + 1 <= N, NEW a \in 0 .. b + 1
        PROVE m[a] <= m[b + 1] /\ (a < b + 1 => m[a] + 2 <= m[b + 1])
    <3>1. /\ b <= N /\ b + 1 \in 1 .. N /\ (b + 1) - 1 = b /\ b \in 0 .. N /\ b + 1 \in 0 .. N /\ a \in 0 .. N
          /\ a = b + 1 \/ a \in 0 .. b
      BY SMT, <2>1
    <3>2. Len(wd[b + 1]) > 0 /\ wd[b + 1] \in Seq(Nat)
      BY Zenon, <3>1 DEF Plain
    <3>3. PICK l \in Nat : l = Len(wd[b + 1]) /\ l > 0
      BY SMT, <3>2
    <3>4. PICK x \in Nat, y \in Nat, z \in Nat : x = m[a] /\ y = m[b] /\ z = m[b + 1] /\ z = (y + 1) + l
      BY Zenon, <3>1, <3>3 DEF Measured
    <3>5. CASE a = b + 1
      <4>1. z <= z /\ ~(b + 1 < b + 1)
        BY SMT
      <4> QED BY Zenon, <3>4, <3>5, <4>1
    <3>6. CASE a \in 0 .. b
      <4>1. x <= y
        BY Zenon, <1>2, <3>1, <3>4, <3>6
      <4>2. x <= z /\ x + 2 <= z
        <5>1. \A i, j, k \in Nat : i <= j /\ k > 0 => i <= (j + 1) + k /\ i + 2 <= (j + 1) + k
          BY SMT
        <5> QED BY Zenon, <3>3, <3>4, <4>1, <5>1
      <4> QED BY Zenon, <3>4, <4>2
    <3> QED BY Zenon, <3>1, <3>5, <3>6
  <2>2. b + 1 \in Nat
    BY SMT
  <2> QED BY Zenon, <2>1, <2>2
<1> HIDE DEF T
<1>3. \A b \in Nat : b \in T
  BY <1>1, <1>2, Induction
<1>4. \A b \in 0 .. N : b \in Nat /\ b <= N
  BY SMT
<1> QED BY Zenon, <1>3, <1>4 DEF T

LEMMA TextGrows ==
  ASSUME NEW s \in Seq(Nat), NEW c \in Nat, NEW w \in Seq(Nat)
  PROVE  LET r == s \o (<<c>> \o w) IN
         /\ r \in Seq(Nat) /\ Len(r) = (Len(s) + 1) + Len(w)
         /\ \A k \in 1 .. Len(s) : r[k] = s[k]
         /\ r[Len(s) + 1] = c
         /\ \A k \in 1 .. Len(w) : r[(Len(s) + 1) + k] = w[k]
<1> DEFINE h == <<c>>
<1>1. h \in Seq(Nat) /\ Len(h) = 1 /\ h[1] = c /\ 1 \in 1 .. 1
  BY SMT
<1>2. Len(s) \in Nat /\ Len(w) \in Nat
  BY SMT
<1> HIDE DEF h
<1>3. /\ s \o (h \o w) \in Seq(Nat) /\ Len(s \o (h \o w)) = Len(s) + Len(h) + Len(w)
      /\ \A k \in 1 .. Len(s) : (s \o (h \o w))[k] = s[k]
      /\ \A k \in 1 .. Len(h) : (s \o (h \o w))[Len(s) + k] = h[k]
      /\ \A k \in 1 .. Len(w) : (s \o (h \o w))[Len(s) + Len(h) + k] = w[k]
  BY <1>1, Cat3
<1>4. \A k \in Nat : Len(s) + Len(h) + k = (Len(s) + 1) + k
  BY SMT, <1>1, <1>2
<1>5. \A k \in 1 .. Len(w) : k \in Nat
  BY SMT
<1>6. 1 \in 1 .. Len(h)
  BY Zenon, <1>1
<1> DEFINE r == s \o (h \o w)
<1>7. /\ r \in Seq(Nat) /\ Len(r) = (Len(s) + 1) + Len(w)
      /\ \A k \in 1 .. Len(s) : r[k] = s[k]
      /\ r[Len(s) + 1] = c
      /\ \A k \in 1 .. Len(w) : r[(Len(s) + 1) + k] = w[k]
  BY Zenon, <1>1, <1>2, <1>3, <1>4, <1>5, <1>6
<1> QED BY Zenon, <1>7 DEF h

LEMMA TextLaid ==
  ASSUME NEW N \in Nat, NEW f, NEW m, NEW sp, NEW wd,
         Measured(N, m, wd), \A k \in 1 .. N : Plain(wd[k]) /\ sp[k] \in Nat,
         f[0] = << >>, \A k \in 1 .. N : f[k] = f[k - 1] \o (<<sp[k]>> \o wd[k])
  PROVE  \A n \in 0 .. N : Laid(f[n], n, m, sp, wd)
<1> DEFINE T == {n \in Nat : n <= N => Laid(f[n], n, m, sp, wd)}
<1>1. 0 \in T
  <2>1. Laid(f[0], 0, m, sp, wd)
    <3>1. << >> \in Seq(Nat) /\ Len(<< >>) = 0 /\ 1 .. 0 = {}
      BY SMT
    <3> QED BY Zenon, <3>1 DEF Laid, Measured
  <2> QED BY Zenon, <2>1
<1>2. ASSUME NEW n \in Nat, n \in T PROVE n + 1 \in T
  <2>1. n + 1 \in Nat
    BY SMT
  <2>2. ASSUME n + 1 <= N PROVE Laid(f[n + 1], n + 1, m, sp, wd)
    <3>1. /\ n <= N /\ n + 1 \in 1 .. N /\ (n + 1) - 1 = n /\ n \in 0 .. N /\ n + 1 \in 0 .. N
          /\ \A k \in 1 .. n + 1 : k = n + 1 \/ k \in 1 .. n
          /\ \A k \in 1 .. n : k \in 1 .. n + 1 /\ k \in 1 .. N /\ k \in 0 .. n /\ k - 1 \in 0 .. n /\ k - 1 < n
          /\ n + 1 \in 1 .. n + 1
      BY SMT, <2>2
    <3> DEFINE s == f[n]
               c == sp[n + 1]
               w == wd[n + 1]
               r == f[n + 1]
    <3>2. r = s \o (<<c>> \o w) /\ c \in Nat /\ w \in Seq(Nat) /\ Plain(w)
      BY Zenon, <3>1 DEF Plain
    <3>3. Laid(s, n, m, sp, wd)
      BY Zenon, <1>2, <3>1
    <3>4. s \in Seq(Nat) /\ Len(s) = m[n] /\ m[n] \in Nat
      BY Zenon, <3>1, <3>3 DEF Laid, Measured
    <3>d. s = f[n] /\ c = sp[n + 1] /\ w = wd[n + 1] /\ r = f[n + 1]
      OBVIOUS
    <3> HIDE DEF s, c, w, r
    <3>5. /\ r \in Seq(Nat) /\ Len(r) = (m[n] + 1) + Len(w)
          /\ \A k \in 1 .. m[n] : r[k] = s[k]
          /\ r[m[n] + 1] = c
          /\ \A k \in 1 .. Len(w) : r[(m[n] + 1) + k] = w[k]
      <4> DEFINE rr == s \o (<<c>> \o w)
      <4>1. /\ rr \in Seq(Nat) /\ Len(rr) = (Len(s) + 1) + Len(w)
            /\ \A k \in 1 .. Len(s) : rr[k] = s[k]
            /\ rr[Len(s) + 1] = c
            /\ \A k \in 1 .. Len(w) : rr[(Len(s) + 1) + k] = w[k]
        BY <3>2, <3>4, TextGrows
      <4> HIDE DEF rr
      <4>2. r = rr
        BY <3>2 DEF rr
      <4> QED BY Zenon, <3>4, <4>1, <4>2
    <3>6. m[n + 1] = (m[n] + 1) + Len(w) /\ m[n + 1] \in Nat
      BY Zenon, <3>1, <3>d DEF Measured
    <3>7. \A k \in 1 .. n : m[k - 1] + 2 <= m[n] /\ m[k - 1] \in Nat /\ m[k] <= m[n]
                            /\ m[k] = (m[k - 1] + 1) + Len(wd[k]) /\ Len(wd[k]) \in Nat
      <4>1. \A b \in 0 .. N : \A a \in 0 .. b : m[a] <= m[b] /\ (a < b => m[a] + 2 <= m[b])
        BY Marks
      <4>2. \A k \in 1 .. n : wd[k] \in Seq(Nat)
        BY Zenon, <3>1 DEF Plain
      <4>3. \A x \in Seq(Nat) : Len(x) \in Nat
        BY SMT
      <4>4. \A k \in 1 .. n : k - 1 \in 0 .. N
        BY SMT, <3>1
      <4> QED BY Zenon, <3>1, <4>1, <4>2, <4>3, <4>4 DEF Measured
    <3>8. \A k \in 1 .. n : /\ r[m[k - 1] + 1] = sp[k]
                            /\ \A i \in 1 .. Len(wd[k]) : r[(m[k - 1] + 1) + i] = wd[k][i]
      <4> SUFFICES ASSUME NEW k \in 1 .. n
                   PROVE  /\ r[m[k - 1] + 1] = sp[k]
                          /\ \A i \in 1 .. Len(wd[k]) : r[(m[k - 1] + 1) + i] = wd[k][i]
        BY Zenon
      <4>0. /\ m[k - 1] + 2 <= m[n] /\ m[k - 1] \in Nat /\ m[k] <= m[n]
            /\ m[k] = (m[k - 1] + 1) + Len(wd[k]) /\ Len(wd[k]) \in Nat
        BY Zenon, <3>7
      <4>1. PICK a \in Nat, b \in Nat, l \in Nat : a = m[k - 1] /\ b = m[n] /\ l = Len(wd[k]) /\ a + 2 <= b /\ (a + 1) + l <= b
        BY Zenon, <3>4, <4>0
      <4>2. a + 1 \in 1 .. b /\ \A i \in 1 .. l : (a + 1) + i \in 1 .. b
        <5>1. \A x, y, z \in Nat : x + 2 <= y /\ (x + 1) + z <= y
                 => x + 1 \in 1 .. y /\ \A i \in 1 .. z : (x + 1) + i \in 1 .. y
          BY SMT
        <5> QED BY Zenon, <4>1, <5>1
      <4>3. s[a + 1] = sp[k] /\ \A i \in 1 .. l : s[(a + 1) + i] = wd[k][i]
        BY Zenon, <3>3, <4>1 DEF Laid
      <4> QED BY Zenon, <3>5, <4>1, <4>2, <4>3
    <3>9. \A i \in 1 .. m[n + 1] : i \in 1 .. m[n] \/ i = m[n] + 1 \/ \E t \in 1 .. Len(w) : i = (m[n] + 1) + t
      <4>1. PICK b \in Nat, l \in Nat : b = m[n] /\ l = Len(w) /\ m[n + 1] = (b + 1) + l
        <5>1. Len(w) \in Nat
          BY SMT, <3>2
        <5> QED BY Zenon, <3>4, <3>6, <5>1
      <4>2. \A i \in 1 .. (b + 1) + l : i \in 1 .. b \/ i = b + 1 \/ (i - (b + 1) \in 1 .. l /\ i = (b + 1) + (i - (b + 1)))
        BY SMT
      <4> QED BY Zenon, <4>1, <4>2
    <3>10. \A i \in 1 .. m[n + 1] : \E k \in 1 .. n + 1 : \/ i = m[k - 1] + 1
                                                         \/ \E t \in 1 .. Len(wd[k]) : i = (m[k - 1] + 1) + t
      <4> SUFFICES ASSUME NEW i \in 1 .. m[n + 1]
                   PROVE  \E k \in 1 .. n + 1 : \/ i = m[k - 1] + 1
                                                \/ \E t \in 1 .. Len(wd[k]) : i = (m[k - 1] + 1) + t
        BY Zenon
      <4>1. CASE i \in 1 .. m[n]
        <5>1. \E k \in 1 .. n : i = m[k - 1] + 1 \/ \E t \in 1 .. Len(wd[k]) : i = (m[k - 1] + 1) + t
          BY Zenon, <3>3, <4>1 DEF Laid
        <5> QED BY Zenon, <3>1, <5>1
      <4>2. CASE i = m[n] + 1 \/ \E t \in 1 .. Len(w) : i = (m[n] + 1) + t
        BY Zenon, <3>1, <3>d, <4>2
      <4> QED BY Zenon, <3>9, <4>1, <4>2
    <3>11. \A k \in 1 .. n + 1 : /\ r[m[k - 1] + 1] = sp[k]
                                 /\ \A i \in 1 .. Len(wd[k]) : r[(m[k - 1] + 1) + i] = wd[k][i]
      <4> SUFFICES ASSUME NEW k \in 1 .. n + 1
                   PROVE  /\ r[m[k - 1] + 1] = sp[k]
                          /\ \A i \in 1 .. Len(wd[k]) : r[(m[k - 1] + 1) + i] = wd[k][i]
        BY Zenon
      <4>1. CASE k \in 1 .. n
        BY Zenon, <3>8, <4>1
      <4>2. CASE k = n + 1
        <5>1. k - 1 = n /\ sp[k] = c /\ wd[k] = w
          BY Zenon, <3>1, <3>d, <4>2
        <5> QED BY Zenon, <3>5, <5>1
      <4> QED BY Zenon, <3>1, <4>1, <4>2
    <3>12. r \in Seq(Nat) /\ Len(r) = m[n + 1]
      BY Zenon, <3>5, <3>6
    <3>13. Laid(r, n + 1, m, sp, wd)
      BY Zenon, <3>10, <3>11, <3>12 DEF Laid
    <3> QED BY Zenon, <3>13, <3>d
  <2> QED BY Zenon, <2>1, <2>2
<1> HIDE DEF T
<1>3. \A n \in Nat : n \in T
  BY <1>1, <1>2, Induction
<1>4. \A n \in 0 .. N : n \in Nat /\ n <= N
  BY SMT
<1> QED BY Zenon, <1>3, <1>4 DEF T

-----------------------------------------------------------------------------
(* The separators of a URI.                                                  *)

(* A text of N words, the first P of them of a path, the others of a query. *)
Mark(k, P) == IF k <= P THEN Slash ELSE IF k = P + 1 THEN Quest ELSE Amp
Segmented(s, N, P, m, sp, wd) ==
  /\ N \in Nat /\ P \in 1 .. N
  /\ Measured(N, m, wd) /\ Laid(s, N, m, sp, wd)
  /\ \A k \in 1 .. N : Plain(wd[k]) /\ sp[k] = Mark(k, P)
  /\ N = P + 1 => Len(wd[N]) > 1

LEMMA SegmentedMarks ==
  ASSUME NEW s, NEW N, NEW P, NEW m, NEW sp, NEW wd, Segmented(s, N, P, m, sp, wd)
  PROVE  /\ N \in Nat /\ P \in 1 .. N /\ Len(s) = m[N]
         /\ \A k \in 0 .. N : m[k] \in Nat
         /\ \A b \in 0 .. N : \A a \in 0 .. b : m[a] <= m[b] /\ (a < b => m[a] + 2 <= m[b])
         /\ \A k \in 0 .. N - 1 : /\ k \in 0 .. N /\ k + 1 \in 0 .. N /\ k + 1 \in 1 .. N
                                  /\ s[m[k] + 1] = Mark(k + 1, P)
                                  /\ \A i \in 1 .. Len(wd[k + 1]) : s[(m[k] + 1) + i] = wd[k + 1][i]
                                  /\ m[k + 1] = (m[k] + 1) + Len(wd[k + 1])
                                  /\ Plain(wd[k + 1])
<1>1. /\ N \in Nat /\ P \in 1 .. N /\ Measured(N, m, wd) /\ Laid(s, N, m, sp, wd)
      /\ \A k \in 1 .. N : Plain(wd[k]) /\ sp[k] = Mark(k, P)
  BY Zenon DEF Segmented
<1>2. \A b \in 0 .. N : \A a \in 0 .. b : m[a] <= m[b] /\ (a < b => m[a] + 2 <= m[b])
  BY <1>1, Marks
<1>3. \A k \in 0 .. N - 1 : k \in 0 .. N /\ k + 1 \in 0 .. N /\ k + 1 \in 1 .. N /\ (k + 1) - 1 = k
  BY SMT, <1>1
<1>4. /\ \A k \in 1 .. N : /\ s[m[k - 1] + 1] = Mark(k, P)
                           /\ \A i \in 1 .. Len(wd[k]) : s[(m[k - 1] + 1) + i] = wd[k][i]
                           /\ m[k] = (m[k - 1] + 1) + Len(wd[k])
                           /\ Plain(wd[k])
      /\ Len(s) = m[N] /\ \A k \in 0 .. N : m[k] \in Nat
  BY Zenon, <1>1 DEF Laid, Measured
<1>5. ASSUME NEW k \in 0 .. N - 1
      PROVE  /\ s[m[k] + 1] = Mark(k + 1, P)
             /\ \A i \in 1 .. Len(wd[k + 1]) : s[(m[k] + 1) + i] = wd[k + 1][i]
             /\ m[k + 1] = (m[k] + 1) + Len(wd[k + 1])
             /\ Plain(wd[k + 1])
  <2> DEFINE i == k + 1
  <2>1. i \in 1 .. N /\ i - 1 = k
    BY <1>3
  <2>2. /\ s[m[i - 1] + 1] = Mark(i, P)
        /\ \A j \in 1 .. Len(wd[i]) : s[(m[i - 1] + 1) + j] = wd[i][j]
        /\ m[i] = (m[i - 1] + 1) + Len(wd[i])
        /\ Plain(wd[i])
    <3> HIDE DEF i
    <3> QED BY Zenon, <1>4, <2>1
  <2> QED BY Zenon, <2>1, <2>2
<1> QED BY Zenon, <1>1, <1>2, <1>3, <1>4, <1>5

(* Every position of the text is a separator or within a word.              *)
LEMMA SegmentedPlaces ==
  ASSUME NEW s, NEW N, NEW P, NEW m, NEW sp, NEW wd, Segmented(s, N, P, m, sp, wd),
         NEW i \in 1 .. m[N]
  PROVE  \E k \in 0 .. N - 1 : \/ i = m[k] + 1
                               \/ \E t \in 1 .. Len(wd[k + 1]) : i = (m[k] + 1) + t
<1>1. N \in Nat /\ Laid(s, N, m, sp, wd)
  BY Zenon DEF Segmented
<1>2. PICK k \in 1 .. N : i = m[k - 1] + 1 \/ \E t \in 1 .. Len(wd[k]) : i = (m[k - 1] + 1) + t
  BY Zenon, <1>1 DEF Laid
<1>3. k - 1 \in 0 .. N - 1 /\ (k - 1) + 1 = k
  BY SMT, <1>1
<1> QED BY Zenon, <1>2, <1>3

(* The separators behind the first character of a word.                     *)
LEMMA HitsAre ==
  ASSUME NEW s, NEW N, NEW P, NEW m, NEW sp, NEW wd, Segmented(s, N, P, m, sp, wd),
         NEW k \in 0 .. N - 1, NEW c \in Separators
  PROVE  /\ \A j \in k + 1 .. N - 1 : Mark(j + 1, P) = c => m[j] + 1 \in Hits(s, m[k] + 2, c)
         /\ \A i \in Hits(s, m[k] + 2, c) : i \in Nat /\ \E j \in k + 1 .. N - 1 : Mark(j + 1, P) = c /\ i = m[j] + 1
<1>1. /\ N \in Nat /\ P \in 1 .. N /\ Len(s) = m[N]
      /\ \A j \in 0 .. N : m[j] \in Nat
      /\ \A b \in 0 .. N : \A a \in 0 .. b : m[a] <= m[b] /\ (a < b => m[a] + 2 <= m[b])
      /\ \A j \in 0 .. N - 1 : /\ j \in 0 .. N /\ j + 1 \in 0 .. N /\ j + 1 \in 1 .. N
                               /\ s[m[j] + 1] = Mark(j + 1, P)
                               /\ \A i \in 1 .. Len(wd[j + 1]) : s[(m[j] + 1) + i] = wd[j + 1][i]
                               /\ m[j + 1] = (m[j] + 1) + Len(wd[j + 1])
                               /\ Plain(wd[j + 1])
  BY SegmentedMarks
<1>2. ASSUME NEW j \in k + 1 .. N - 1, Mark(j + 1, P) = c PROVE m[j] + 1 \in Hits(s, m[k] + 2, c)
  <2>1. j \in 0 .. N - 1 /\ j \in 0 .. N /\ k \in 0 .. j /\ k < j /\ j \in 0 .. N /\ N \in 0 .. N /\ j < N
    BY SMT, <1>1
  <2>2. m[k] + 2 <= m[j] /\ m[j] + 2 <= m[N] /\ m[k] \in Nat /\ m[j] \in Nat /\ m[N] \in Nat
    BY Zenon, <1>1, <2>1
  <2>3. \A x, y, z \in Nat : x + 2 <= y /\ y + 2 <= z => y + 1 \in x + 2 .. z
    BY SMT
  <2>4. m[j] + 1 \in m[k] + 2 .. Len(s)
    BY Zenon, <1>1, <2>2, <2>3
  <2>5. s[m[j] + 1] = c
    BY Zenon, <1>1, <1>2, <2>1
  <2> QED BY Zenon, <2>4, <2>5 DEF Hits
<1>3. ASSUME NEW i \in Hits(s, m[k] + 2, c)
      PROVE  i \in Nat /\ \E j \in k + 1 .. N - 1 : Mark(j + 1, P) = c /\ i = m[j] + 1
  <2>1. i \in m[k] + 2 .. m[N] /\ s[i] = c
    BY Zenon, <1>1 DEF Hits
  <2>2. PICK x \in Nat, z \in Nat : x = m[k] /\ z = m[N]
    <3>1. N \in 0 .. N
      BY SMT, <1>1
    <3> QED BY Zenon, <1>1, <3>1
  <2>3. i \in Nat /\ x + 2 <= i /\ i \in 1 .. z
    <3>1. i \in x + 2 .. z
      BY Zenon, <2>1, <2>2
    <3> QED BY SMT, <2>2, <3>1
  <2>4. PICK j \in 0 .. N - 1 : \/ i = m[j] + 1
                                \/ \E t \in 1 .. Len(wd[j + 1]) : i = (m[j] + 1) + t
    <3>1. i \in 1 .. m[N]
      BY Zenon, <2>2, <2>3
    <3>2. \E j \in 0 .. N - 1 : \/ i = m[j] + 1
                                \/ \E t \in 1 .. Len(wd[j + 1]) : i = (m[j] + 1) + t
      BY <3>1, SegmentedPlaces
    <3> QED BY Zenon, <3>2
  <2>5. i = m[j] + 1
    <3>1. ASSUME NEW t \in 1 .. Len(wd[j + 1]), i = (m[j] + 1) + t PROVE FALSE
      <4>1. s[i] = wd[j + 1][t]
        BY Zenon, <1>1, <3>1
      <4>2. wd[j + 1][t] \notin Separators
        BY Zenon, <1>1 DEF Plain
      <4> QED BY Zenon, <2>1, <4>1, <4>2
    <3> QED BY Zenon, <2>4, <3>1
  <2>6. Mark(j + 1, P) = c
    BY Zenon, <1>1, <2>1, <2>5
  <2>7. j \in k + 1 .. N - 1
    <3>1. k < j
      <4> SUFFICES ASSUME ~(k < j) PROVE FALSE
        OBVIOUS
      <4>1. j \in 0 .. k /\ k \in 0 .. N /\ j \in 0 .. N
        BY SMT, <1>1
      <4>2. m[j] <= x /\ m[j] \in Nat
        BY Zenon, <1>1, <2>2, <4>1
      <4>3. PICK y \in Nat : y = m[j]
        BY <4>2
      <4>4. y <= x /\ x + 2 <= y + 1
        BY Zenon, <2>3, <2>5, <4>2, <4>3
      <4> QED BY SMT, <4>4
    <3> QED BY SMT, <1>1, <3>1
  <2> QED BY Zenon, <2>3, <2>5, <2>6, <2>7
<1> QED BY Zenon, <1>2, <1>3

LEMMA LeastIs ==
  ASSUME NEW S, NEW x \in S, \A y \in S : y \in Nat /\ x <= y
  PROVE  Sets!Min(S) = x
<1>1. \E y \in S : \A z \in S : y <= z
  BY Zenon
<1> DEFINE c == CHOOSE y \in S : \A z \in S : y <= z
<1>2. c \in S /\ \A z \in S : c <= z
  BY Zenon, <1>1
<1>3. Sets!Min(S) = c
  BY DEF Sets!Min
<1> HIDE DEF c
<1>4. c <= x /\ x <= c /\ c \in Nat /\ x \in Nat
  BY Zenon, <1>2
<1>5. c = x
  BY SMT, <1>4
<1> QED BY Zenon, <1>3, <1>5

-----------------------------------------------------------------------------
(* One round of setURI: where it begins and ends.                            *)

(* The first separator behind a word, and the absence of one.               *)
LEMMA FirstHit ==
  ASSUME NEW s, NEW N, NEW P, NEW m, NEW sp, NEW wd, Segmented(s, N, P, m, sp, wd),
         NEW k \in 0 .. N - 1, NEW c \in Separators, k + 1 \in 0 .. N - 1, Mark((k + 1) + 1, P) = c
  PROVE  Hits(s, m[k] + 2, c) # {} /\ Sets!Min(Hits(s, m[k] + 2, c)) = m[k + 1] + 1
<1> DEFINE H == Hits(s, m[k] + 2, c)
<1>1. /\ \A j \in k + 1 .. N - 1 : Mark(j + 1, P) = c => m[j] + 1 \in H
      /\ \A i \in H : i \in Nat /\ \E j \in k + 1 .. N - 1 : Mark(j + 1, P) = c /\ i = m[j] + 1
  BY HitsAre
<1>2. /\ N \in Nat /\ \A j \in 0 .. N : m[j] \in Nat
      /\ \A b \in 0 .. N : \A a \in 0 .. b : m[a] <= m[b] /\ (a < b => m[a] + 2 <= m[b])
  BY SegmentedMarks
<1> HIDE DEF H
<1>3. /\ k + 1 \in k + 1 .. N - 1
      /\ \A j \in k + 1 .. N - 1 : j \in 0 .. N /\ k + 1 \in 0 .. j
  BY SMT, <1>2
<1>4. m[k + 1] + 1 \in H
  BY Zenon, <1>1, <1>3
<1>5. ASSUME NEW i \in H PROVE i \in Nat /\ m[k + 1] + 1 <= i
  <2>1. PICK j \in k + 1 .. N - 1 : i = m[j] + 1
    BY Zenon, <1>1
  <2>2. m[k + 1] <= m[j] /\ m[k + 1] \in Nat /\ m[j] \in Nat
    BY Zenon, <1>2, <1>3
  <2>3. \A x, y \in Nat : x <= y => x + 1 <= y + 1
    BY SMT
  <2> QED BY Zenon, <1>1, <2>1, <2>2, <2>3
<1>6. Sets!Min(H) = m[k + 1] + 1
  BY <1>4, <1>5, LeastIs
<1> QED BY Zenon, <1>4, <1>6 DEF H

LEMMA NoHit ==
  ASSUME NEW s, NEW N, NEW P, NEW m, NEW sp, NEW wd, Segmented(s, N, P, m, sp, wd),
         NEW k \in 0 .. N - 1, NEW c \in Separators, \A j \in k + 1 .. N - 1 : Mark(j + 1, P) # c
  PROVE  Hits(s, m[k] + 2, c) = {}
<1> DEFINE H == Hits(s, m[k] + 2, c)
<1>1. \A i \in H : i \in Nat /\ \E j \in k + 1 .. N - 1 : Mark(j + 1, P) = c /\ i = m[j] + 1
  BY HitsAre
<1> QED BY Zenon, <1>1

(* Where the loop of setURI stands in front of word k + 1, and in what      *)
(* state.                                                                   *)
Turned(k, N, P)   == P < N /\ P <= k
PosAt(k, N, P, m) == IF P < N /\ k = P THEN m[k] + 2 ELSE m[k] + 1
SplitAt(k, N, P)  == IF Turned(k, N, P) THEN Amp ELSE Slash
TypeAt(k, N, P)   == IF Turned(k, N, P) THEN URI_QUERY ELSE URI_PATH
AtWord(k, N, P, m, es) ==
  [elements |-> es, at |-> PosAt(k, N, P, m), split |-> SplitAt(k, N, P), type |-> TypeAt(k, N, P)]

LEMMA SeparatorsDiffer == Slash # Quest /\ Slash # Amp /\ Quest # Amp
                          /\ Slash \in Separators /\ Quest \in Separators /\ Amp \in Separators
BY SMT DEF Slash, Quest, Amp, Separators

(* A round skips a separator in front of the word and takes none else.      *)
LEMMA RoundBegins ==
  ASSUME NEW s, NEW N, NEW P, NEW m, NEW sp, NEW wd, Segmented(s, N, P, m, sp, wd),
         NEW k \in 0 .. N - 1
  PROVE  (IF s[PosAt(k, N, P, m)] = SplitAt(k, N, P) THEN PosAt(k, N, P, m) + 1 ELSE PosAt(k, N, P, m))
           = m[k] + 2
<1>1. /\ N \in Nat /\ P \in 1 .. N /\ k \in 0 .. N /\ s[m[k] + 1] = Mark(k + 1, P)
      /\ \A i \in 1 .. Len(wd[k + 1]) : s[(m[k] + 1) + i] = wd[k + 1][i]
      /\ Plain(wd[k + 1]) /\ m[k] \in Nat
  BY SegmentedMarks
<1>2. PICK x \in Nat : x = m[k]
  BY <1>1
<1>3. (x + 1) + 1 = x + 2
  BY SMT
<1>4. CASE P < N /\ k = P
  <2>1. wd[k + 1] \in Seq(Nat) /\ Len(wd[k + 1]) > 0 /\ \A i \in 1 .. Len(wd[k + 1]) : wd[k + 1][i] \notin Separators
    BY Zenon, <1>1 DEF Plain
  <2>2. 1 \in 1 .. Len(wd[k + 1])
    BY SMT, <2>1
  <2>3. s[x + 2] = wd[k + 1][1] /\ wd[k + 1][1] \notin Separators
    BY Zenon, <1>1, <1>2, <1>3, <2>1, <2>2
  <2>4. PosAt(k, N, P, m) = x + 2
    BY Zenon, <1>2, <1>4 DEF PosAt
  <2>5. SplitAt(k, N, P) \in Separators
    BY Zenon, SeparatorsDiffer DEF SplitAt
  <2> QED BY Zenon, <1>2, <2>3, <2>4, <2>5
<1>5. CASE ~(P < N /\ k = P)
  <2>1. PosAt(k, N, P, m) = x + 1
    BY Zenon, <1>2, <1>5 DEF PosAt
  <2>2. Mark(k + 1, P) = SplitAt(k, N, P)
    BY SMT, <1>1, <1>5 DEF Mark, SplitAt, Turned
  <2> QED BY Zenon, <1>1, <1>2, <1>3, <2>1, <2>2
<1> QED BY Zenon, <1>4, <1>5

(* The end e of a word, from the separators of its kind behind it and the   *)
(* question marks, and whether the query begins there.                      *)
Ending(more, query, e, last, turn) ==
  /\ (more = {} /\ query # {}) <=> turn
  /\ more # {} => Sets!Min(more) = e
  /\ more = {} /\ query # {} => Sets!Min(query) = e
  /\ more = {} /\ query = {} => last = e

(* A round ends in front of the next separator, or at the end of the text.  *)
LEMMA RoundEnds ==
  ASSUME NEW s, NEW N, NEW P, NEW m, NEW sp, NEW wd, Segmented(s, N, P, m, sp, wd),
         NEW k \in 0 .. N - 1
  PROVE  Ending(Hits(s, m[k] + 2, SplitAt(k, N, P)), Hits(s, m[k] + 2, Quest),
                m[k + 1] + 1, Len(s) + 1, P < N /\ k + 1 = P)
<1> DEFINE more  == Hits(s, m[k] + 2, SplitAt(k, N, P))
           query == Hits(s, m[k] + 2, Quest)
<1>1. N \in Nat /\ P \in 1 .. N /\ Len(s) = m[N]
  BY SegmentedMarks
<1>2. SplitAt(k, N, P) \in Separators /\ Quest \in Separators
  BY Zenon, SeparatorsDiffer DEF SplitAt
<1>3. CASE k + 1 < P
  <2>1. k + 1 \in 0 .. N - 1 /\ Mark((k + 1) + 1, P) = Slash /\ SplitAt(k, N, P) = Slash
        /\ ~(P < N /\ k + 1 = P)
    BY SMT, <1>1, <1>3 DEF Mark, SplitAt, Turned
  <2>2. more # {} /\ Sets!Min(more) = m[k + 1] + 1
    <3>1. Mark((k + 1) + 1, P) = SplitAt(k, N, P)
      BY Zenon, <2>1
    <3> QED BY <1>2, <2>1, <3>1, FirstHit
  <2> QED BY Zenon, <2>1, <2>2 DEF Ending
<1>4. CASE k + 1 = P
  <2>1. SplitAt(k, N, P) = Slash /\ \A j \in k + 1 .. N - 1 : ~(j + 1 <= P)
    BY SMT, <1>1, <1>4 DEF SplitAt, Turned
  <2>2. \A j \in k + 1 .. N - 1 : Mark(j + 1, P) # SplitAt(k, N, P)
    BY Zenon, <2>1, SeparatorsDiffer DEF Mark
  <2>3. more = {}
    BY <1>2, <2>2, NoHit
  <2>4. CASE P < N
    <3>1. k + 1 \in 0 .. N - 1 /\ Mark((k + 1) + 1, P) = Quest
      BY SMT, <1>1, <1>4, <2>4 DEF Mark
    <3>2. query # {} /\ Sets!Min(query) = m[k + 1] + 1
      BY <1>2, <3>1, FirstHit
    <3> QED BY Zenon, <1>4, <2>3, <2>4, <3>2 DEF Ending
  <2>5. CASE ~(P < N)
    <3>1. k + 1 = N /\ k + 1 .. N - 1 = {}
      BY SMT, <1>1, <1>4, <2>5
    <3>2. \A j \in k + 1 .. N - 1 : Mark(j + 1, P) # Quest
      BY Zenon, <3>1
    <3>3. query = {}
      BY <1>2, <3>2, NoHit
    <3> QED BY Zenon, <1>1, <2>3, <2>5, <3>1, <3>3 DEF Ending
  <2> QED BY Zenon, <2>4, <2>5
<1>5. CASE P < k + 1
  <2>1. /\ SplitAt(k, N, P) = Amp /\ ~(P < N /\ k + 1 = P)
        /\ \A j \in k + 1 .. N - 1 : ~(j + 1 <= P) /\ j + 1 # P + 1
    BY SMT, <1>1, <1>5 DEF SplitAt, Turned
  <2>2. \A j \in k + 1 .. N - 1 : Mark(j + 1, P) = Amp
    BY Zenon, <2>1 DEF Mark
  <2>3. query = {}
    <3>1. \A j \in k + 1 .. N - 1 : Mark(j + 1, P) # Quest
      BY Zenon, <2>2, SeparatorsDiffer
    <3> QED BY <1>2, <3>1, NoHit
  <2>4. CASE k + 1 < N
    <3>1. k + 1 \in 0 .. N - 1 /\ k + 1 \in k + 1 .. N - 1
      BY SMT, <1>1, <2>4
    <3>2. Mark((k + 1) + 1, P) = SplitAt(k, N, P)
      BY Zenon, <2>1, <2>2, <3>1
    <3>3. more # {} /\ Sets!Min(more) = m[k + 1] + 1
      BY <1>2, <3>1, <3>2, FirstHit
    <3> QED BY Zenon, <2>1, <2>3, <3>3 DEF Ending
  <2>5. CASE ~(k + 1 < N)
    <3>1. k + 1 = N /\ k + 1 .. N - 1 = {}
      BY SMT, <1>1, <2>5
    <3>2. \A j \in k + 1 .. N - 1 : Mark(j + 1, P) # SplitAt(k, N, P)
      BY Zenon, <3>1
    <3>3. more = {}
      BY <1>2, <3>2, NoHit
    <3> QED BY Zenon, <1>1, <2>1, <2>3, <3>1, <3>3 DEF Ending
  <2> QED BY Zenon, <2>4, <2>5
<1>6. k + 1 < P \/ k + 1 = P \/ P < k + 1
  BY SMT, <1>1
<1> QED BY Zenon, <1>3, <1>4, <1>5, <1>6

-----------------------------------------------------------------------------
(* One round of setURI: what it takes.                                       *)

LEMMA SliceIs ==
  ASSUME NEW s \in Seq(Nat), NEW w \in Seq(Nat), NEW x \in Nat, x + Len(w) <= Len(s),
         \A i \in 1 .. Len(w) : s[x + i] = w[i]
  PROVE  SubSeq(s, x + 1, x + Len(w)) = w
<1> DEFINE r == SubSeq(s, x + 1, x + Len(w))
<1>1. r \in Seq(Nat) /\ Len(r) = Len(w) /\ \A i \in 1 .. Len(w) : r[i] = s[x + i]
  BY SMT
<1> HIDE DEF r
<1>2. \A i \in 1 .. Len(w) : r[i] = w[i]
  BY Zenon, <1>1
<1>3. r = w
  BY <1>1, <1>2, SameSeq
<1> QED BY <1>3 DEF r

LEMMA WordTaken ==
  ASSUME NEW s, NEW N, NEW P, NEW m, NEW sp, NEW wd, Segmented(s, N, P, m, sp, wd),
         NEW k \in 0 .. N - 1
  PROVE  SubSeq(s, m[k] + 2, (m[k + 1] + 1) - 1) = wd[k + 1]
<1>1. /\ N \in Nat /\ k \in 0 .. N /\ k + 1 \in 0 .. N /\ Len(s) = m[N]
      /\ \A i \in 1 .. Len(wd[k + 1]) : s[(m[k] + 1) + i] = wd[k + 1][i]
      /\ Plain(wd[k + 1]) /\ m[k] \in Nat /\ m[k + 1] \in Nat /\ m[N] \in Nat
      /\ m[k + 1] = (m[k] + 1) + Len(wd[k + 1])
      /\ \A b \in 0 .. N : \A a \in 0 .. b : m[a] <= m[b]
  <2>1. /\ N \in Nat /\ Len(s) = m[N]
        /\ \A j \in 0 .. N : m[j] \in Nat
        /\ \A b \in 0 .. N : \A a \in 0 .. b : m[a] <= m[b] /\ (a < b => m[a] + 2 <= m[b])
        /\ k \in 0 .. N /\ k + 1 \in 0 .. N
        /\ \A i \in 1 .. Len(wd[k + 1]) : s[(m[k] + 1) + i] = wd[k + 1][i]
        /\ Plain(wd[k + 1]) /\ m[k + 1] = (m[k] + 1) + Len(wd[k + 1])
    BY SegmentedMarks
  <2>2. N \in 0 .. N
    BY SMT, <2>1
  <2> QED BY Zenon, <2>1, <2>2
<1>2. s \in Seq(Nat) /\ wd[k + 1] \in Seq(Nat)
  BY Zenon, <1>1 DEF Segmented, Laid, Plain
<1>3. PICK w \in Seq(Nat) : w = wd[k + 1]
  BY <1>2
<1>4. PICK x \in Nat : x = m[k] + 1
  BY SMT, <1>1
<1>5. k + 1 \in 0 .. N /\ N \in 0 .. N /\ m[k + 1] <= m[N]
  <2>1. N \in 0 .. N
    BY SMT, <1>1
  <2>2. \A a \in 0 .. N : m[a] <= m[N]
    BY Zenon, <1>1, <2>1
  <2> QED BY Zenon, <1>1, <2>1, <2>2
<1>6. x + Len(w) <= Len(s) /\ \A i \in 1 .. Len(w) : s[x + i] = w[i]
  BY Zenon, <1>1, <1>3, <1>4, <1>5
<1>7. SubSeq(s, x + 1, x + Len(w)) = w
  BY <1>2, <1>6, SliceIs
<1>8. x + 1 = m[k] + 2 /\ x + Len(w) = (m[k + 1] + 1) - 1
  <2>1. PICK a \in Nat, c \in Nat, l \in Nat :
           a = m[k] /\ c = m[k + 1] /\ l = Len(w) /\ x = a + 1 /\ c = x + l
    <3>1. Len(w) \in Nat
      BY SMT
    <3> QED BY Zenon, <1>1, <1>3, <1>4, <3>1
  <2>2. x + 1 = a + 2 /\ x + l = (c + 1) - 1
    BY SMT, <1>4, <2>1
  <2> QED BY Zenon, <2>1, <2>2
<1> QED BY Zenon, <1>3, <1>7, <1>8

LEMMA RoundTurns ==
  ASSUME NEW N \in Nat, NEW P \in 1 .. N, NEW k \in 0 .. N - 1, NEW m
  PROVE  /\ SplitAt(k + 1, N, P) = IF P < N /\ k + 1 = P THEN Amp ELSE SplitAt(k, N, P)
         /\ TypeAt(k + 1, N, P) = IF P < N /\ k + 1 = P THEN URI_QUERY ELSE TypeAt(k, N, P)
<1>1. Turned(k + 1, N, P) <=> (P < N /\ k + 1 = P) \/ Turned(k, N, P)
  BY SMT DEF Turned
<1> QED BY Zenon, <1>1 DEF SplitAt, TypeAt

(* A round takes the next word as an element of the path or of the query.   *)
LEMMA RoundStep ==
  ASSUME NEW s, NEW N, NEW P, NEW m, NEW sp, NEW wd, Segmented(s, N, P, m, sp, wd),
         NEW k \in 0 .. N - 1, NEW es
  PROVE  Round(s, AtWord(k, N, P, m, es))
           = AtWord(k + 1, N, P, m, Append(es, Element(TypeAt(k, N, P), wd[k + 1])))
<1> DEFINE st    == AtWord(k, N, P, m, es)
           b     == m[k] + 2
           more  == Hits(s, b, SplitAt(k, N, P))
           query == Hits(s, b, Quest)
           e     == m[k + 1] + 1
           turn  == P < N /\ k + 1 = P
<1>1. /\ N \in Nat /\ P \in 1 .. N /\ m[k + 1] \in Nat
  BY SegmentedMarks
<1>2. st.at = PosAt(k, N, P, m) /\ st.split = SplitAt(k, N, P) /\ st.type = TypeAt(k, N, P) /\ st.elements = es
  BY Zenon DEF AtWord
<1>3. (IF s[st.at] = st.split THEN st.at + 1 ELSE st.at) = b
  <2>1. (IF s[PosAt(k, N, P, m)] = SplitAt(k, N, P) THEN PosAt(k, N, P, m) + 1 ELSE PosAt(k, N, P, m)) = m[k] + 2
    BY RoundBegins
  <2> QED BY Zenon, <1>2, <2>1
<1>4. /\ (more = {} /\ query # {}) <=> turn
      /\ more # {} => Sets!Min(more) = e
      /\ more = {} /\ query # {} => Sets!Min(query) = e
      /\ more = {} /\ query = {} => Len(s) + 1 = e
  <2>1. Ending(Hits(s, m[k] + 2, SplitAt(k, N, P)), Hits(s, m[k] + 2, Quest),
               m[k + 1] + 1, Len(s) + 1, P < N /\ k + 1 = P)
    <3> HIDE DEF more, query, e, turn, st, b
    <3> QED BY RoundEnds
  <2> QED BY Zenon, <2>1 DEF Ending
<1>5. SubSeq(s, b, e - 1) = wd[k + 1]
  BY WordTaken
<1>6. /\ SplitAt(k + 1, N, P) = IF turn THEN Amp ELSE SplitAt(k, N, P)
      /\ TypeAt(k + 1, N, P) = IF turn THEN URI_QUERY ELSE TypeAt(k, N, P)
  BY <1>1, RoundTurns
<1>7. PosAt(k + 1, N, P, m) = IF turn THEN e + 1 ELSE e
  <2>1. m[k + 1] + 2 = e + 1
    BY SMT, <1>1
  <2> QED BY Zenon, <2>1 DEF PosAt
<1> DEFINE ee == IF more # {} THEN Sets!Min(more) ELSE IF query # {} THEN Sets!Min(query) ELSE Len(s) + 1
<1>8. ee = e
  <2> HIDE DEF more, query, e
  <2> QED BY Zenon, <1>4
<1>9. Round(s, st) =
        [elements |-> Append(st.elements, Element(st.type, SubSeq(s, b, ee - 1))),
         at    |-> IF more = {} /\ query # {} THEN ee + 1 ELSE ee,
         split |-> IF more = {} /\ query # {} THEN Amp ELSE st.split,
         type  |-> IF more = {} /\ query # {} THEN URI_QUERY ELSE st.type]
  <2> HIDE DEF st, b
  <2>1. more = Hits(s, b, st.split)
    BY <1>2 DEF more
  <2> QED BY Zenon, <1>3, <2>1 DEF Round
<1>10. Round(s, st) =
        [elements |-> Append(es, Element(TypeAt(k, N, P), wd[k + 1])),
         at    |-> IF turn THEN e + 1 ELSE e,
         split |-> IF turn THEN Amp ELSE SplitAt(k, N, P),
         type  |-> IF turn THEN URI_QUERY ELSE TypeAt(k, N, P)]
  <2> HIDE DEF st, b, more, query, e, turn, ee
  <2> QED BY Zenon, <1>2, <1>4, <1>5, <1>8, <1>9
<1>11. Round(s, st) = AtWord(k + 1, N, P, m, Append(es, Element(TypeAt(k, N, P), wd[k + 1])))
  <2> HIDE DEF st, b, more, query, e, turn, ee
  <2> QED BY Zenon, <1>6, <1>7, <1>10 DEF AtWord
<1> QED BY <1>11

(* The loop goes on while a word is left, and stops at the end.             *)
LEMMA RoundsEnd ==
  ASSUME NEW s, NEW N, NEW P, NEW m, NEW sp, NEW wd, Segmented(s, N, P, m, sp, wd)
  PROVE  /\ \A k \in 0 .. N - 1 : ~AtEnd(s, PosAt(k, N, P, m))
         /\ AtEnd(s, PosAt(N, N, P, m))
         /\ N <= Len(s) /\ Len(s) \in Nat /\ Len(s) # 1
<1>1. /\ N \in Nat /\ P \in 1 .. N /\ Len(s) = m[N]
      /\ \A j \in 0 .. N : m[j] \in Nat
      /\ \A b \in 0 .. N : \A a \in 0 .. b : m[a] <= m[b] /\ (a < b => m[a] + 2 <= m[b])
      /\ \A k \in 0 .. N - 1 : m[k + 1] = (m[k] + 1) + Len(wd[k + 1]) /\ Plain(wd[k + 1])
  BY SegmentedMarks
<1>2. N \in 0 .. N /\ 0 \in 0 .. N /\ 0 < N /\ ~(P < N /\ N = P)
  BY SMT, <1>1
<1>3. ASSUME NEW k \in 0 .. N - 1 PROVE ~AtEnd(s, PosAt(k, N, P, m))
  <2>1. k \in 0 .. N /\ k < N /\ k + 1 \in 0 .. N
    BY SMT, <1>1
  <2>2. PICK x \in Nat, z \in Nat : x = m[k] /\ z = m[N] /\ x + 2 <= z
    BY Zenon, <1>1, <1>2, <2>1
  <2>3. CASE ~(P < N /\ k = P)
    <3>1. PosAt(k, N, P, m) = x + 1
      BY Zenon, <2>2, <2>3 DEF PosAt
    <3>2. ~(x + 1 >= z)
      BY SMT, <2>2
    <3> QED BY Zenon, <1>1, <2>2, <3>1, <3>2 DEF AtEnd
  <2>4. CASE P < N /\ k = P
    <3>1. PosAt(k, N, P, m) = x + 2
      BY Zenon, <2>2, <2>4 DEF PosAt
    <3>2. ~(x + 2 >= z)
      <4>1. CASE N = k + 1
        <5>1. Len(wd[N]) > 1 /\ wd[N] \in Seq(Nat)
          <6>1. N = P + 1
            BY <2>4, <4>1
          <6> QED BY Zenon, <1>1, <4>1, <6>1 DEF Segmented, Plain
        <5>2. z = (x + 1) + Len(wd[N])
          BY Zenon, <1>1, <2>2, <4>1
        <5>3. PICK l \in Nat : l = Len(wd[N])
          BY SMT, <5>1
        <5>4. z = (x + 1) + l /\ l > 1
          BY Zenon, <5>1, <5>2, <5>3
        <5> QED BY SMT, <5>4
      <4>2. CASE N # k + 1
        <5>1. k + 1 < N /\ k < k + 1 /\ k + 1 \in 0 .. N /\ k \in 0 .. k + 1
          BY SMT, <1>1, <4>2
        <5>2. PICK y \in Nat : y = m[k + 1] /\ x + 2 <= y /\ y + 2 <= z
          BY Zenon, <1>1, <1>2, <2>2, <5>1
        <5> QED BY SMT, <5>2
      <4> QED BY Zenon, <4>1, <4>2
    <3> QED BY Zenon, <1>1, <2>2, <3>1, <3>2 DEF AtEnd
  <2> QED BY Zenon, <2>3, <2>4
<1>4. PICK z \in Nat : z = m[N]
  BY <1>1, <1>2
<1>5. AtEnd(s, PosAt(N, N, P, m))
  <2>1. PosAt(N, N, P, m) = z + 1
    BY Zenon, <1>2, <1>4 DEF PosAt
  <2>2. z + 1 >= z
    BY SMT
  <2> QED BY Zenon, <1>1, <1>4, <2>1, <2>2 DEF AtEnd
<1>6. z # 1
  <2>1. m[0] + 2 <= m[N] /\ m[0] \in Nat
    BY Zenon, <1>1, <1>2
  <2>2. PICK x \in Nat : x = m[0]
    BY <2>1
  <2>3. x + 2 <= z
    BY Zenon, <1>4, <2>1, <2>2
  <2> QED BY SMT, <2>3
<1>7. N <= z
  <2> DEFINE T == {k \in Nat : k <= N => k <= m[k]}
  <2>1. 0 \in T
    <3>1. 0 <= m[0] /\ 0 \in Nat
      BY SMT, <1>1
    <3> QED BY Zenon, <3>1
  <2>2. ASSUME NEW k \in Nat, k \in T PROVE k + 1 \in T
    <3>1. k + 1 \in Nat
      BY SMT
    <3>2. ASSUME k + 1 <= N PROVE k + 1 <= m[k + 1]
      <4>1. k <= N /\ k \in 0 .. N /\ k + 1 \in 0 .. N /\ k < k + 1 /\ k \in 0 .. k + 1
        BY SMT, <1>1, <3>2
      <4>2. PICK x \in Nat, y \in Nat : x = m[k] /\ y = m[k + 1] /\ x + 2 <= y /\ k <= x
        BY Zenon, <1>1, <2>2, <4>1
      <4>3. k + 1 <= y
        BY SMT, <4>2
      <4> QED BY Zenon, <4>2, <4>3
    <3> QED BY Zenon, <3>1, <3>2
  <2> HIDE DEF T
  <2>3. \A k \in Nat : k \in T
    BY <2>1, <2>2, Induction
  <2>4. N <= N
    BY SMT, <1>1
  <2> QED BY Zenon, <1>1, <1>4, <2>3, <2>4 DEF T
<1> QED BY Zenon, <1>1, <1>3, <1>4, <1>5, <1>6, <1>7

-----------------------------------------------------------------------------
(* All rounds of setURI.                                                     *)

LEMMA Prefixes ==
  ASSUME NEW S, NEW q \in Seq(S)
  PROVE  /\ SubSeq(q, 1, 0) = << >> /\ SubSeq(q, 1, Len(q)) = q
         /\ \A k \in Nat : k + 1 <= Len(q) => Append(SubSeq(q, 1, k), q[k + 1]) = SubSeq(q, 1, k + 1)
<1>1. SubSeq(q, 1, 0) = << >>
  BY SMT
<1>2. SubSeq(q, 1, Len(q)) = q
  BY SMT
<1>3. ASSUME NEW k \in Nat, k + 1 <= Len(q)
      PROVE  Append(SubSeq(q, 1, k), q[k + 1]) = SubSeq(q, 1, k + 1)
  <2> DEFINE a == SubSeq(q, 1, k)
             b == SubSeq(q, 1, k + 1)
  <2>1. a \in Seq(S) /\ Len(a) = k /\ \A i \in 1 .. k : a[i] = q[i]
    BY SMT, <1>3
  <2>2. b \in Seq(S) /\ Len(b) = k + 1 /\ \A i \in 1 .. k + 1 : b[i] = q[i]
    BY SMT, <1>3
  <2>3. q[k + 1] \in S
    BY SMT, <1>3
  <2> HIDE DEF a, b
  <2> QED BY SMT, <2>1, <2>2, <2>3
<1> QED BY Zenon, <1>1, <1>2, <1>3

(* The loop of setURI takes the words one by one.                           *)
LEMMA UriRead ==
  ASSUME NEW s, NEW N, NEW P, NEW m, NEW sp, NEW wd, Segmented(s, N, P, m, sp, wd),
         NEW S, NEW es \in Seq(S), Len(es) = N,
         \A k \in 1 .. N : es[k] = Element(IF k <= P THEN URI_PATH ELSE URI_QUERY, wd[k])
  PROVE  SetURIElements(s) = es
<1>1. N \in Nat /\ P \in 1 .. N /\ m[0] = 0
  BY Zenon DEF Segmented, Measured
<1>2. /\ \A k \in 0 .. N - 1 : ~AtEnd(s, PosAt(k, N, P, m))
      /\ AtEnd(s, PosAt(N, N, P, m))
      /\ N <= Len(s) /\ Len(s) \in Nat /\ Len(s) # 1
  BY RoundsEnd
<1>3. PICK f : /\ SetURIElements(s) = IF Len(s) = 1 THEN <<Element(URI_PATH, s)>> ELSE f[Len(s)].elements
               /\ f[0] = UriStart
               /\ \A k \in 0 .. Len(s) : k # 0 => f[k] = UriStep(s, f[k - 1])
  <2>1. \E f : /\ SetURIElements(s) = IF Len(s) = 1 THEN <<Element(URI_PATH, s)>> ELSE f[Len(s)].elements
               /\ f[0] = UriStart
               /\ \A k \in 0 .. Len(s) : k # 0 => f[k] = UriStep(s, f[k - 1])
    BY <1>2, UriIs
  <2> QED BY Zenon, <2>1
<1>4. /\ SubSeq(es, 1, 0) = << >> /\ SubSeq(es, 1, Len(es)) = es
      /\ \A k \in Nat : k + 1 <= Len(es) => Append(SubSeq(es, 1, k), es[k + 1]) = SubSeq(es, 1, k + 1)
  BY Prefixes
<1>5. \A k, es1 : AtWord(k, N, P, m, es1).at = PosAt(k, N, P, m)
  BY Zenon DEF AtWord
<1> DEFINE State(k) == AtWord(k, N, P, m, SubSeq(es, 1, k))
           T == {k \in Nat : k <= N => f[k] = State(k)}
           R == {k \in Nat : N + k <= Len(s) => f[N + k] = State(N)}
<1>6. 0 \in T
  <2>1. ~(P < N /\ 0 = P) /\ m[0] + 1 = 1 /\ ~Turned(0, N, P)
    BY SMT, <1>1 DEF Turned
  <2>2. UriStart = State(0)
    BY Zenon, <1>4, <2>1 DEF UriStart, AtWord, PosAt, SplitAt, TypeAt
  <2>3. 0 \in Nat
    BY SMT
  <2> QED BY Zenon, <1>3, <2>2, <2>3
<1>7. ASSUME NEW k \in Nat, k \in T PROVE k + 1 \in T
  <2>1. k + 1 \in Nat
    BY SMT
  <2>2. ASSUME k + 1 <= N PROVE f[k + 1] = State(k + 1)
    <3>1. k <= N /\ k \in 0 .. N - 1 /\ k + 1 \in 0 .. Len(s) /\ k + 1 # 0 /\ (k + 1) - 1 = k /\ k + 1 \in 1 .. N
          /\ (k + 1 <= P <=> ~Turned(k, N, P))
      BY SMT, <1>1, <1>2, <2>2 DEF Turned
    <3>2. f[k] = State(k)
      BY Zenon, <1>7, <3>1
    <3>3. f[k + 1] = UriStep(s, State(k))
      BY Zenon, <1>3, <3>1, <3>2
    <3>4. UriStep(s, State(k)) = Round(s, State(k))
      <4>1. State(k).at = PosAt(k, N, P, m)
        BY <1>5
      <4> HIDE DEF State
      <4> QED BY Zenon, <1>2, <3>1, <4>1 DEF UriStep
    <3>5. Round(s, AtWord(k, N, P, m, SubSeq(es, 1, k)))
            = AtWord(k + 1, N, P, m, Append(SubSeq(es, 1, k), Element(TypeAt(k, N, P), wd[k + 1])))
      BY <3>1, RoundStep
    <3>6. es[k + 1] = Element(TypeAt(k, N, P), wd[k + 1])
      BY Zenon, <3>1 DEF TypeAt
    <3>7. Append(SubSeq(es, 1, k), es[k + 1]) = SubSeq(es, 1, k + 1)
      BY Zenon, <1>4, <2>2
    <3> QED BY Zenon, <3>3, <3>4, <3>5, <3>6, <3>7
  <2> QED BY Zenon, <2>1, <2>2
<1> HIDE DEF T
<1>8. \A k \in Nat : k \in T
  BY <1>6, <1>7, Induction
<1>9. f[N] = State(N)
  <2>1. N <= N
    BY SMT, <1>1
  <2> QED BY Zenon, <1>1, <1>8, <2>1 DEF T
<1>10. 0 \in R
  <2>1. N + 0 = N /\ 0 \in Nat
    BY SMT, <1>1
  <2> QED BY Zenon, <1>9, <2>1
<1>11. ASSUME NEW k \in Nat, k \in R PROVE k + 1 \in R
  <2>1. k + 1 \in Nat
    BY SMT
  <2>2. ASSUME N + (k + 1) <= Len(s) PROVE f[N + (k + 1)] = State(N)
    <3>1. /\ N + k <= Len(s) /\ N + (k + 1) \in 0 .. Len(s) /\ N + (k + 1) # 0 /\ (N + (k + 1)) - 1 = N + k
      BY SMT, <1>1, <1>2, <2>2
    <3>2. f[N + k] = State(N)
      BY Zenon, <1>11, <3>1
    <3>3. f[N + (k + 1)] = UriStep(s, State(N))
      BY Zenon, <1>3, <3>1, <3>2
    <3>4. State(N).at = PosAt(N, N, P, m)
      BY <1>5
    <3> HIDE DEF State
    <3> QED BY Zenon, <1>2, <3>3, <3>4 DEF UriStep
  <2> QED BY Zenon, <2>1, <2>2
<1> HIDE DEF R
<1>12. \A k \in Nat : k \in R
  BY <1>10, <1>11, Induction
<1>13. f[Len(s)] = State(N)
  <2>1. PICK k \in Nat : N + k = Len(s)
    <3>1. Len(s) - N \in Nat /\ N + (Len(s) - N) = Len(s)
      BY SMT, <1>1, <1>2
    <3> QED BY Zenon, <3>1
  <2>2. N + k <= Len(s)
    BY SMT, <1>2, <2>1
  <2> QED BY Zenon, <1>12, <2>1, <2>2 DEF R
<1>14. State(N).elements = SubSeq(es, 1, N)
  BY Zenon DEF AtWord
<1> QED BY Zenon, <1>2, <1>3, <1>4, <1>13, <1>14

-----------------------------------------------------------------------------
(* The words of a path and a query.                                          *)

LEMMA Joined ==
  ASSUME NEW S, NEW x \in Seq(S), NEW y \in Seq(S), NEW r, r = x \o y
  PROVE  /\ r \in Seq(S) /\ Len(r) = Len(x) + Len(y)
         /\ \A k \in 1 .. Len(x) + Len(y) : r[k] = IF k <= Len(x) THEN x[k] ELSE y[k - Len(x)]
BY SMT

LEMMA Listed ==
  ASSUME NEW S, NEW n \in Nat, NEW f, f = [k \in 1 .. n |-> f[k]], \A k \in 1 .. n : f[k] \in S
  PROVE  f \in Seq(S) /\ Len(f) = n /\ DOMAIN f = 1 .. n
<1>1. f \in [1 .. n -> S]
  BY Zenon
<1>2. f \in Seq(S) /\ Len(f) = n
  BY SMT, <1>1
<1> QED BY Zenon, <1>1, <1>2

LEMMA SequenceIs == ASSUME NEW S, NEW x \in Seq(S)
                    PROVE Len(x) \in Nat /\ DOMAIN x = 1 .. Len(x) /\ \A k \in 1 .. Len(x) : x[k] \in S
BY SMT

(* The words of a URI, one behind the other.                                *)
Words(u) == [k \in 1 .. Len(u[1]) + Len(u[2]) |-> IF k <= Len(u[1]) THEN u[1][k] ELSE u[2][k - Len(u[1])]]

LEMMA WordsOf ==
  ASSUME NEW u, Readable(u), u[1] # << >>
  PROVE  LET N  == Len(u[1]) + Len(u[2])
             P  == Len(u[1])
         IN /\ N \in Nat /\ P \in 1 .. N
            /\ DOMAIN u[1] = 1 .. P /\ DOMAIN u[2] = 1 .. Len(u[2]) /\ Len(u[2]) \in Nat
            /\ \A k \in 1 .. N : Plain(Words(u)[k])
            /\ \A k \in 1 .. P : Words(u)[k] = u[1][k]
            /\ \A k \in 1 .. Len(u[2]) : u[2][k] \in Seq(Nat)
            /\ \A k \in 1 .. P : u[1][k] \in Seq(Nat)
            /\ N = P + 1 => Len(Words(u)[N]) > 1
<1> DEFINE a == u[1]
           q == u[2]
           W == Nat \ {Slash, Quest, Amp}
           N == Len(a) + Len(q)
           P == Len(a)
<1>1. /\ a \in Seq(Seq(W)) /\ q \in Seq(Seq(W))
      /\ \A k \in DOMAIN a : a[k] # << >>
      /\ \A k \in DOMAIN q : q[k] # << >>
      /\ Len(q) = 1 => Len(q[1]) > 1
  <2>1. 1 \in 1 .. 2 /\ 2 \in 1 .. 2
    BY SMT
  <2> QED BY Zenon, <2>1 DEF Readable
<1>2. /\ Len(a) \in Nat /\ DOMAIN a = 1 .. Len(a) /\ \A k \in 1 .. Len(a) : a[k] \in Seq(W)
      /\ Len(q) \in Nat /\ DOMAIN q = 1 .. Len(q) /\ \A k \in 1 .. Len(q) : q[k] \in Seq(W)
  <2> HIDE DEF a, q, W
  <2> QED BY <1>1, SequenceIs
<1>3. Len(a) > 0
  <2>1. a # << >>
    OBVIOUS
  <2> HIDE DEF a, q, W
  <2> QED BY SMT, <1>1, <2>1
<1>4. ASSUME NEW w \in Seq(W), w # << >> PROVE Plain(w) /\ w \in Seq(Nat)
  <2>1. Len(w) \in Nat /\ DOMAIN w = 1 .. Len(w) /\ \A i \in 1 .. Len(w) : w[i] \in W
    BY SequenceIs
  <2>2. Len(w) > 0
    <3> HIDE DEF W
    <3> QED BY SMT, <1>4
  <2>3. w \in Seq(Nat)
    <3>1. \A i \in 1 .. Len(w) : w[i] \in Nat
      BY Zenon, <2>1
    <3>2. w = [i \in 1 .. Len(w) |-> w[i]]
      BY SMT
    <3>3. w \in [1 .. Len(w) -> Nat]
      BY Zenon, <3>1, <3>2
    <3> QED BY SMT, <2>1, <3>3
  <2>4. \A i \in 1 .. Len(w) : w[i] \notin Separators
    BY Zenon, <2>1 DEF Separators
  <2> QED BY Zenon, <2>2, <2>3, <2>4 DEF Plain
<1> HIDE DEF W
<1>5. N \in Nat /\ P \in 1 .. N
  <2> HIDE DEF a, q
  <2> QED BY SMT, <1>2, <1>3
<1>6. ASSUME NEW k \in 1 .. N
      PROVE  Words(u)[k] = IF k <= P THEN a[k] ELSE q[k - P]
  BY Zenon DEF Words
<1>7. \A k \in 1 .. N : (k <= P => k \in 1 .. P) /\ (~(k <= P) => k - P \in 1 .. Len(q))
  <2> HIDE DEF a, q
  <2> QED BY SMT, <1>2, <1>5
<1>8. \A k \in 1 .. P : k <= P /\ k \in 1 .. N
  <2> HIDE DEF a, q
  <2> QED BY SMT, <1>2, <1>5
<1>9. \A k \in 1 .. N : Plain(Words(u)[k])
  <2> HIDE DEF a, q, N, P
  <2>1. \A k \in 1 .. P : a[k] \in Seq(W) /\ a[k] # << >>
    BY Zenon, <1>1, <1>2 DEF P
  <2>2. \A k \in 1 .. Len(q) : q[k] \in Seq(W) /\ q[k] # << >>
    BY Zenon, <1>1, <1>2
  <2> QED BY Zenon, <1>4, <1>6, <1>7, <2>1, <2>2
<1>10. N = P + 1 => Len(Words(u)[N]) > 1
  <2> SUFFICES ASSUME N = P + 1 PROVE Len(Words(u)[N]) > 1
    OBVIOUS
  <2> HIDE DEF a, q
  <2>1. Len(q) = 1 /\ N \in 1 .. N /\ ~(N <= P) /\ N - P = 1
    BY SMT, <1>2, <1>5
  <2> QED BY Zenon, <1>1, <1>6, <2>1
<1>11. /\ \A k \in 1 .. Len(q) : q[k] \in Seq(Nat)
       /\ \A k \in 1 .. P : a[k] \in Seq(Nat)
  BY Zenon, <1>1, <1>2, <1>4
<1> QED BY Zenon, <1>2, <1>5, <1>6, <1>8, <1>9, <1>10, <1>11

LEMMA SegmentsOf ==
  ASSUME NEW u, Readable(u), u[1] # << >>
  PROVE  /\ Len(Segments(u)) = Len(u[1]) + Len(u[2])
         /\ \A k \in 1 .. Len(u[1]) + Len(u[2]) : Segments(u)[k] = <<Mark(k, Len(u[1]))>> \o Words(u)[k]
<1> DEFINE a == u[1]
           q == u[2]
           N == Len(a) + Len(q)
           P == Len(a)
           x == [k \in DOMAIN a |-> <<Slash>> \o a[k]]
           y == [k \in DOMAIN q |-> <<IF k = 1 THEN Quest ELSE Amp>> \o q[k]]
<1>1. /\ N \in Nat /\ P \in 1 .. N
      /\ DOMAIN a = 1 .. P /\ DOMAIN q = 1 .. Len(q) /\ Len(q) \in Nat
      /\ \A k \in 1 .. Len(q) : q[k] \in Seq(Nat)
      /\ \A k \in 1 .. P : a[k] \in Seq(Nat)
  BY Zenon, WordsOf
<1>2. \A c \in Nat, w \in Seq(Nat) : <<c>> \o w \in Seq(Nat)
  BY SMT
<1>3. Slash \in Nat /\ Quest \in Nat /\ Amp \in Nat
  BY SMT DEF Slash, Quest, Amp
<1>4. x \in Seq(Seq(Nat)) /\ Len(x) = P /\ \A k \in 1 .. P : x[k] = <<Slash>> \o a[k]
  <2>1. x = [k \in 1 .. P |-> x[k]] /\ \A k \in 1 .. P : x[k] = <<Slash>> \o a[k]
    BY Zenon, <1>1
  <2>2. \A k \in 1 .. P : x[k] \in Seq(Nat)
    BY Zenon, <1>1, <1>2, <1>3, <2>1
  <2>3. P \in Nat
    BY SMT, <1>1
  <2> HIDE DEF x, P
  <2>4. x \in Seq(Seq(Nat)) /\ Len(x) = P /\ DOMAIN x = 1 .. P
    BY <2>1, <2>2, <2>3, Listed
  <2> QED BY Zenon, <2>1, <2>4
<1>5. y \in Seq(Seq(Nat)) /\ Len(y) = Len(q) /\ \A k \in 1 .. Len(q) : y[k] = <<IF k = 1 THEN Quest ELSE Amp>> \o q[k]
  <2>1. y = [k \in 1 .. Len(q) |-> y[k]] /\ \A k \in 1 .. Len(q) : y[k] = <<IF k = 1 THEN Quest ELSE Amp>> \o q[k]
    BY Zenon, <1>1
  <2>2. \A k \in 1 .. Len(q) : y[k] \in Seq(Nat)
    BY Zenon, <1>1, <1>2, <1>3, <2>1
  <2> HIDE DEF y, q
  <2>4. y \in Seq(Seq(Nat)) /\ Len(y) = Len(q) /\ DOMAIN y = 1 .. Len(q)
    BY <1>1, <2>1, <2>2, Listed
  <2> QED BY Zenon, <2>1, <2>4
<1>6. Segments(u) = x \o y
  BY Zenon DEF Segments
<1>7. /\ Len(Segments(u)) = Len(x) + Len(y)
      /\ \A k \in 1 .. Len(x) + Len(y) : Segments(u)[k] = IF k <= Len(x) THEN x[k] ELSE y[k - Len(x)]
  <2> HIDE DEF x, y
  <2> DEFINE S == Seq(Nat)
  <2>1. x \in Seq(S) /\ y \in Seq(S)
    BY <1>4, <1>5
  <2> HIDE DEF S
  <2>2. \A r : r = x \o y =>
              /\ r \in Seq(S) /\ Len(r) = Len(x) + Len(y)
              /\ \A k \in 1 .. Len(x) + Len(y) : r[k] = IF k <= Len(x) THEN x[k] ELSE y[k - Len(x)]
    BY Zenon, <2>1, Joined
  <2> QED BY Zenon, <1>6, <2>2
<1>8. ASSUME NEW k \in 1 .. N PROVE Segments(u)[k] = <<Mark(k, P)>> \o Words(u)[k]
  <2>1. Words(u)[k] = IF k <= P THEN a[k] ELSE q[k - P]
    BY Zenon DEF Words
  <2>2. Segments(u)[k] = IF k <= P THEN x[k] ELSE y[k - P]
    <3> HIDE DEF x, y
    <3> QED BY Zenon, <1>4, <1>5, <1>6, <1>7
  <2>3. /\ k <= P => k \in 1 .. P /\ Mark(k, P) = Slash
        /\ ~(k <= P) => k - P \in 1 .. Len(q) /\ Mark(k, P) = IF k - P = 1 THEN Quest ELSE Amp
    <3> HIDE DEF a, q
    <3> QED BY SMT, <1>1 DEF Mark
  <2> HIDE DEF x, y, a, q, P
  <2>4. CASE k <= P
    BY Zenon, <1>4, <2>1, <2>2, <2>3, <2>4
  <2>5. CASE ~(k <= P)
    BY Zenon, <1>5, <2>1, <2>2, <2>3, <2>5
  <2> QED BY Zenon, <2>4, <2>5
<1>9. Len(Segments(u)) = N
  <2> HIDE DEF x, y
  <2> QED BY Zenon, <1>4, <1>5, <1>6, <1>7
<1> QED BY Zenon, <1>8, <1>9

LEMMA NamedOf ==
  ASSUME NEW u, Readable(u), u[1] # << >>
  PROVE  /\ Named(u) \in Seq(Offered) /\ Len(Named(u)) = Len(u[1]) + Len(u[2])
         /\ \A k \in 1 .. Len(u[1]) + Len(u[2]) :
              Named(u)[k] = Element(IF k <= Len(u[1]) THEN URI_PATH ELSE URI_QUERY, Words(u)[k])
<1> DEFINE a == u[1]
           q == u[2]
           N == Len(a) + Len(q)
           P == Len(a)
           x == [k \in DOMAIN a |-> Element(URI_PATH, a[k])]
           y == [k \in DOMAIN q |-> Element(URI_QUERY, q[k])]
<1>1. /\ N \in Nat /\ P \in 1 .. N
      /\ DOMAIN a = 1 .. P /\ DOMAIN q = 1 .. Len(q) /\ Len(q) \in Nat
      /\ \A k \in 1 .. Len(q) : q[k] \in Seq(Nat)
      /\ \A k \in 1 .. P : a[k] \in Seq(Nat)
  BY Zenon, WordsOf
<1>2. \A w \in Seq(Nat) : Element(URI_PATH, w) \in Offered /\ Element(URI_QUERY, w) \in Offered
  <2>1. URI_PATH \in Uint16 /\ URI_QUERY \in Uint16
    BY SMT DEF URI_PATH, URI_QUERY, Uint16
  <2>2. \A w \in Octets : Element(URI_PATH, w) \in Offered /\ Element(URI_QUERY, w) \in Offered
    BY Zenon, <2>1, OfferedElement
  <2> QED BY Zenon, <2>2 DEF Octets
<1>4. x \in Seq(Offered) /\ Len(x) = P /\ \A k \in 1 .. P : x[k] = Element(URI_PATH, a[k])
  <2>1. x = [k \in 1 .. P |-> x[k]] /\ \A k \in 1 .. P : x[k] = Element(URI_PATH, a[k])
    BY Zenon, <1>1
  <2>2. \A k \in 1 .. P : x[k] \in Offered
    BY Zenon, <1>1, <1>2, <2>1
  <2>3. P \in Nat
    BY SMT, <1>1
  <2> HIDE DEF x, P
  <2>4. x \in Seq(Offered) /\ Len(x) = P /\ DOMAIN x = 1 .. P
    BY <2>1, <2>2, <2>3, Listed
  <2> QED BY Zenon, <2>1, <2>4
<1>5. y \in Seq(Offered) /\ Len(y) = Len(q) /\ \A k \in 1 .. Len(q) : y[k] = Element(URI_QUERY, q[k])
  <2>1. y = [k \in 1 .. Len(q) |-> y[k]] /\ \A k \in 1 .. Len(q) : y[k] = Element(URI_QUERY, q[k])
    BY Zenon, <1>1
  <2>2. \A k \in 1 .. Len(q) : y[k] \in Offered
    BY Zenon, <1>1, <1>2, <2>1
  <2> HIDE DEF y, q
  <2>4. y \in Seq(Offered) /\ Len(y) = Len(q) /\ DOMAIN y = 1 .. Len(q)
    BY <1>1, <2>1, <2>2, Listed
  <2> QED BY Zenon, <2>1, <2>4
<1>6. Named(u) = x \o y
  BY Zenon DEF Named
<1>7. /\ Named(u) \in Seq(Offered) /\ Len(Named(u)) = Len(x) + Len(y)
      /\ \A k \in 1 .. Len(x) + Len(y) : Named(u)[k] = IF k <= Len(x) THEN x[k] ELSE y[k - Len(x)]
  <2> HIDE DEF x, y
  <2>1. x \in Seq(Offered) /\ y \in Seq(Offered)
    BY <1>4, <1>5
  <2>2. \A r : r = x \o y =>
              /\ r \in Seq(Offered) /\ Len(r) = Len(x) + Len(y)
              /\ \A k \in 1 .. Len(x) + Len(y) : r[k] = IF k <= Len(x) THEN x[k] ELSE y[k - Len(x)]
    BY Zenon, <2>1, Joined
  <2> QED BY Zenon, <1>6, <2>2
<1>8. ASSUME NEW k \in 1 .. N
      PROVE  Named(u)[k] = Element(IF k <= P THEN URI_PATH ELSE URI_QUERY, Words(u)[k])
  <2>1. Words(u)[k] = IF k <= P THEN a[k] ELSE q[k - P]
    BY Zenon DEF Words
  <2>2. Named(u)[k] = IF k <= P THEN x[k] ELSE y[k - P]
    <3> HIDE DEF x, y
    <3> QED BY Zenon, <1>4, <1>5, <1>6, <1>7
  <2>3. /\ k <= P => k \in 1 .. P
        /\ ~(k <= P) => k - P \in 1 .. Len(q)
    <3> HIDE DEF a, q
    <3> QED BY SMT, <1>1
  <2> HIDE DEF x, y, a, q, P
  <2>4. CASE k <= P
    BY Zenon, <1>4, <2>1, <2>2, <2>3, <2>4
  <2>5. CASE ~(k <= P)
    BY Zenon, <1>5, <2>1, <2>2, <2>3, <2>5
  <2> QED BY Zenon, <2>4, <2>5
<1>9. Named(u) \in Seq(Offered) /\ Len(Named(u)) = N
  <2> HIDE DEF x, y
  <2> QED BY Zenon, <1>4, <1>5, <1>6, <1>7
<1> QED BY Zenon, <1>8, <1>9

-----------------------------------------------------------------------------
(* setURI gives the options it names, and the theorem.                       *)

(* The text of a readable URI is laid out as its words.                     *)
LEMMA WrittenLaid ==
  ASSUME NEW u, Readable(u), u[1] # << >>
  PROVE  \E m, sp : Segmented(Written(u), Len(u[1]) + Len(u[2]), Len(u[1]), m, sp, Words(u))
<1> DEFINE N  == Len(u[1]) + Len(u[2])
           P  == Len(u[1])
           wd == Words(u)
<1>1. /\ N \in Nat /\ P \in 1 .. N /\ \A k \in 1 .. N : Plain(wd[k])
      /\ N = P + 1 => Len(wd[N]) > 1
  BY Zenon, WordsOf
<1>2. Len(Segments(u)) = N /\ \A k \in 1 .. N : Segments(u)[k] = <<Mark(k, P)>> \o wd[k]
  BY Zenon, SegmentsOf
<1> HIDE DEF N, wd
<1>3. PICK f : /\ Written(u) = f[N]
               /\ f[0] = << >>
               /\ \A k \in 0 .. N : k # 0 => f[k] = f[k - 1] \o Segments(u)[k]
  <2>1. Len(Segments(u)) \in Nat
    BY <1>1, <1>2
  <2>2. \E f : /\ Written(u) = IF u[1] = << >> THEN <<Slash>> ELSE f[Len(Segments(u))]
               /\ f[0] = << >>
               /\ \A k \in 0 .. Len(Segments(u)) : k # 0 => f[k] = f[k - 1] \o Segments(u)[k]
    BY <2>1, WrittenIs
  <2> QED BY Zenon, <1>2, <2>2
<1> HIDE DEF P
<1> DEFINE sp == [k \in 1 .. N |-> Mark(k, P)]
           m  == [k \in 0 .. N |-> Len(f[k])]
<1>4. \A k \in 1 .. N : k \in 0 .. N /\ k # 0 /\ k - 1 \in 0 .. N
  BY SMT, <1>1
<1>5. \A k \in 1 .. N : sp[k] = Mark(k, P) /\ sp[k] \in Nat
  <2>1. Slash \in Nat /\ Quest \in Nat /\ Amp \in Nat
    BY SMT DEF Slash, Quest, Amp
  <2>2. \A k \in 1 .. N : Mark(k, P) \in Nat
    BY Zenon, <2>1 DEF Mark
  <2> QED BY Zenon, <2>2
<1>m. \A k \in 0 .. N : m[k] = Len(f[k])
  BY Zenon
<1> HIDE DEF sp, m
<1>6. \A k \in 1 .. N : f[k] = f[k - 1] \o (<<sp[k]>> \o wd[k])
  BY Zenon, <1>2, <1>3, <1>4, <1>5
<1>w. \A k \in 1 .. N : wd[k] \in Seq(Nat)
  BY Zenon, <1>1 DEF Plain
<1>7. \A k \in Nat : k <= N => f[k] \in Seq(Nat)
  <2> DEFINE T == {k \in Nat : k <= N => f[k] \in Seq(Nat)}
  <2>1. 0 \in T
    <3>1. << >> \in Seq(Nat) /\ 0 \in Nat
      BY SMT
    <3> QED BY Zenon, <1>3, <3>1
  <2>2. ASSUME NEW k \in Nat, k \in T PROVE k + 1 \in T
    <3>1. k + 1 \in Nat
      BY SMT
    <3>2. ASSUME k + 1 <= N PROVE f[k + 1] \in Seq(Nat)
      <4>1. k <= N /\ k + 1 \in 1 .. N /\ (k + 1) - 1 = k
        BY SMT, <1>1, <3>2
      <4>2. f[k] \in Seq(Nat) /\ sp[k + 1] \in Nat /\ wd[k + 1] \in Seq(Nat)
        BY Zenon, <1>5, <1>w, <2>2, <4>1
      <4>3. \A s \in Seq(Nat), c \in Nat, w \in Seq(Nat) : s \o (<<c>> \o w) \in Seq(Nat)
        BY SMT
      <4> QED BY Zenon, <1>6, <4>1, <4>2, <4>3
    <3> QED BY Zenon, <3>1, <3>2
  <2> HIDE DEF T
  <2>3. \A k \in Nat : k \in T
    BY <2>1, <2>2, Induction
  <2> QED BY Zenon, <2>3 DEF T
<1>8. \A k \in 0 .. N : f[k] \in Seq(Nat)
  <2>1. \A k \in 0 .. N : k \in Nat /\ k <= N
    BY SMT, <1>1
  <2> QED BY Zenon, <1>7, <2>1
<1>9. Measured(N, m, wd)
  <2>1. Len(<< >>) = 0 /\ 0 \in 0 .. N /\ \A s \in Seq(Nat) : Len(s) \in Nat
    BY SMT, <1>1
  <2>2. ASSUME NEW k \in 1 .. N PROVE m[k] = (m[k - 1] + 1) + Len(wd[k])
    <3>1. f[k - 1] \in Seq(Nat) /\ sp[k] \in Nat /\ wd[k] \in Seq(Nat)
      BY Zenon, <1>4, <1>5, <1>8, <1>w
    <3>2. \A s \in Seq(Nat), c \in Nat, w \in Seq(Nat) : Len(s \o (<<c>> \o w)) = (Len(s) + 1) + Len(w)
      BY SMT
    <3>3. Len(f[k]) = (Len(f[k - 1]) + 1) + Len(wd[k])
      BY Zenon, <1>6, <3>1, <3>2
    <3> QED BY Zenon, <1>4, <1>m, <3>3
  <2>3. m[0] = 0 /\ \A k \in 0 .. N : m[k] \in Nat
    BY Zenon, <1>3, <1>8, <1>m, <2>1
  <2> QED BY Zenon, <2>2, <2>3 DEF Measured
<1>10. Laid(Written(u), N, m, sp, wd)
  <2>1. \A k \in 1 .. N : Plain(wd[k]) /\ sp[k] \in Nat
    BY Zenon, <1>1, <1>5
  <2>2. f[0] = << >>
    BY Zenon, <1>3
  <2>3. \A n \in 0 .. N : Laid(f[n], n, m, sp, wd)
    BY <1>1, <1>6, <1>9, <2>1, <2>2, TextLaid
  <2>4. N \in 0 .. N
    BY SMT, <1>1
  <2> QED BY Zenon, <1>3, <2>3, <2>4
<1>11. Segmented(Written(u), N, P, m, sp, wd)
  BY Zenon, <1>1, <1>5, <1>9, <1>10 DEF Segmented
<1>12. \E m1, sp1 : Segmented(Written(u), N, P, m1, sp1, wd)
  BY Zenon, <1>11
<1> QED BY Zenon, <1>12 DEF N, P, wd

(* setURI breaks a readable URI into the words of its path and its query.   *)
LEMMA SetURINames ==
  ASSUME NEW u, Readable(u)
  PROVE  SetURIElements(Written(u)) = Named(u) /\ Named(u) \in Seq(Offered)
<1>1. CASE u[1] = << >>
  <2> DEFINE s == <<Slash>>
             e == Element(URI_PATH, s)
  <2>1. Written(u) = s
    BY Zenon, <1>1 DEF Written
  <2>2. Named(u) = <<e>>
    BY Zenon, <1>1 DEF Named
  <2>3. Len(s) = 1 /\ s \in Octets /\ URI_PATH \in Uint16
    BY SMT DEF Octets, Slash, URI_PATH, Uint16
  <2>4. SetURIElements(s) = <<e>>
    <3>1. Len(s) \in Nat
      BY <2>3
    <3>2. \E f : /\ SetURIElements(s) = IF Len(s) = 1 THEN <<Element(URI_PATH, s)>> ELSE f[Len(s)].elements
                 /\ f[0] = UriStart
                 /\ \A k \in 0 .. Len(s) : k # 0 => f[k] = UriStep(s, f[k - 1])
      <4> HIDE DEF s
      <4> QED BY <3>1, UriIs
    <3> QED BY Zenon, <2>3, <3>2
  <2>5. <<e>> \in Seq(Offered)
    <3> HIDE DEF s
    <3> QED BY <2>3, OfferedElement
  <2> QED BY Zenon, <2>1, <2>2, <2>4, <2>5
<1>2. CASE u[1] # << >>
  <2> DEFINE N == Len(u[1]) + Len(u[2])
             P == Len(u[1])
  <2>1. PICK m, sp : Segmented(Written(u), N, P, m, sp, Words(u))
    BY Zenon, <1>2, WrittenLaid
  <2>2. /\ Named(u) \in Seq(Offered) /\ Len(Named(u)) = N
        /\ \A k \in 1 .. N : Named(u)[k] = Element(IF k <= P THEN URI_PATH ELSE URI_QUERY, Words(u)[k])
    BY Zenon, <1>2, NamedOf
  <2> HIDE DEF N, P
  <2>3. SetURIElements(Written(u)) = Named(u)
    BY <2>1, <2>2, UriRead
  <2> QED BY Zenon, <2>2, <2>3
<1> QED BY Zenon, <1>1, <1>2

LEMMA NextKeeps ==
  ASSUME IInv, [Next]_vars
  PROVE  IInv'
<1>1. CASE Reset
  BY <1>1, ResetStands
<1>2. CASE \E n \in Numbers, l \in Lens : AddOption(n, l)
  BY <1>2, AddOptionKeeps
<1>3. CASE \E n \in Blocks : AddBlock(n)
  BY <1>3, AddBlockKeeps
<1>4. CASE \E u \in Uris : SetURI(u)
  <2>1. PICK u \in Uris : SetURI(u)
    BY <1>4
  <2>2. Readable(u)
    BY Zenon, CoapPduAssumption
  <2>3. SetURIElements(Written(u)) = Named(u) /\ Named(u) \in Seq(Offered)
    BY <2>2, SetURINames
  <2> QED BY <2>1, <2>3, SetURIKeeps
<1>5. CASE \E n \in TokenLens : SetToken(n)
  BY <1>5, SetTokenKeeps
<1>6. CASE \E n \in PayloadLens : SetPayload(n)
  BY <1>6, SetPayloadKeeps
<1>7. CASE UNCHANGED vars
  BY Zenon, <1>7 DEF IInv, vars
<1> QED BY Zenon, <1>1, <1>2, <1>3, <1>4, <1>5, <1>6, <1>7 DEF Next

LEMMA Exact == ASSUME IInv PROVE BytesAreContent
<1> SUFFICES ASSUME regular PROVE pdu = Encode(content) /\ Len(pdu) <= Capacity
  BY Zenon DEF BytesAreContent
<1>1. Stands(pdu, num, payload, content)
  BY Zenon DEF IInv
<1>2. Size(content.token) <= 8
  BY Zenon, <1>1 DEF Stands
<1>3. /\ content.token \in Octets /\ content.options \in Lists /\ content.payload \in Octets
      /\ Ascending(0, content.options)
      /\ pdu = Image(Hdr(content.token), content.options, Trail(content.payload)) /\ Size(pdu) <= Capacity
  <2>1. /\ content \in Contents /\ content.token \in Octets /\ content.options \in Lists /\ content.payload \in Octets
         /\ Headed(Hdr(content.token)) /\ Hdr(content.token) \in Octets /\ Trail(content.payload) \in Octets
         /\ Ascending(0, content.options) /\ num = Count(content.options) /\ num \in Nat
         /\ HDR + TokenLength(pdu) = Size(Hdr(content.token))
         /\ pdu = Image(Hdr(content.token), content.options, Trail(content.payload)) /\ Size(pdu) <= Capacity
         /\ Fitting(Hdr(content.token), content.options, Trail(content.payload), Count(content.options))
    BY <1>1, StandsParts
  <2> QED BY Zenon, <2>1
<1>4. Encode(content) = Image(Hdr(content.token), content.options, Trail(content.payload))
  BY <1>2, <1>3, EncodeIs
<1> QED BY Zenon, <1>3, <1>4 DEF Size

(* Whatever options, blocks, URIs, tokens and payloads are set on a CoapPDU, *)
(* in whatever order, the bytes that insertOption, setToken and              *)
(* mallocPayload have moved about are exactly those of the datagram asked    *)
(* for, and fit the buffer.                                                  *)
THEOREM BytesStand == Spec => []BytesAreContent
<1>1. Init => IInv
  BY InitStands
<1>2. IInv /\ [Next]_vars => IInv'
  BY NextKeeps
<1>3. IInv => BytesAreContent
  BY Exact
<1> QED BY <1>1, <1>2, <1>3, PTL DEF Spec

-----------------------------------------------------------------------------
(* An option that is cut short, byte by byte.                                *)

(* What is known of a header at offset i that says d and n.                 *)
Spells(b, i, d, n) ==
  /\ At(b, i) = Nibble(d) * 16 + Nibble(n)
  /\ OptionDelta(b, i) = d /\ OptionValueLength(b, i) = n
  /\ d >= 269 => Load16(b, i + 1) = d - 269
  /\ \A k \in Nat : At(b, k) \in Nat

(* c is b up to its length L; a read behind it gives 0.                     *)
CutOf(c, b, L) == L = Len(c) /\ \A k \in Nat : At(c, k) = IF k < L THEN At(b, k) ELSE 0

LEMMA NibbleFacts ==
  ASSUME NEW n \in Uint16
  PROVE  /\ Nibble(n) \in 0 .. 14 /\ (n < 269 => Nibble(n) \in 0 .. 13)
         /\ Nibble(n) < 13 => n = Nibble(n) /\ ExtraBytes(n) = 0
         /\ Nibble(n) = 13 => n >= 13 /\ n < 269 /\ ExtraBytes(n) = 1
         /\ Nibble(n) = 14 => n >= 269 /\ ExtraBytes(n) = 2
         /\ DeltaBytes(Nibble(n)) = ExtraBytes(n)
         /\ ExtraBytes(Nibble(n)) <= ExtraBytes(n) /\ ExtraBytes(Nibble(n)) \in 0 .. 1
         /\ ExtraBytes(n) \in 0 .. 2
BY SMT DEF Nibble, ExtraBytes, DeltaBytes, Uint16

LEMMA SplitByte ==
  ASSUME NEW x \in 0 .. 14, NEW y \in 0 .. 14
  PROVE  (x * 16 + y) \div 16 = x /\ (x * 16 + y) % 16 = y
BY SMT

LEMMA NumberGrows ==
  \A k \in Nat : ExtraBytes(k) \in 0 .. 2 /\ (k >= 13 => ExtraBytes(k) >= 1) /\ (k >= 269 => ExtraBytes(k) = 2)
BY SMT DEF ExtraBytes

(* The total of an option by its getters.                                   *)
LEMMA TotalIs ==
  ASSUME NEW b, NEW i, NEW pr
  PROVE  OptionAt(b, i, pr).total = 1 + ExtraBytes(OptionDelta(b, i)) + ExtraBytes(OptionValueLength(b, i))
                                      + OptionValueLength(b, i)
<1> DEFINE d   == OptionDelta(b, i)
           n   == OptionValueLength(b, i)
           t   == 1 + ExtraBytes(d) + ExtraBytes(n) + n
           val == [k \in 1 .. n |-> At(b, i + t - n + k - 1)]
           m   == Number(pr, d)
<1>1. OptionAt(b, i, pr) = [number |-> m, at |-> i, total |-> t, value |-> val]
  BY SMT DEF OptionAt, Number
<1> HIDE DEF t, val, m, n, d
<1>2. OptionAt(b, i, pr).total = t
  BY SMT, <1>1
<1> QED BY Zenon, <1>2 DEF t, n, d

(* The delta read from a cut header is not shorter than the one written.    *)
LEMMA CutDelta ==
  ASSUME NEW b, NEW c, NEW L \in Nat, NEW i \in Nat, NEW d \in Uint16, NEW n \in 0 .. 255,
         Spells(b, i, d, n), CutOf(c, b, L), i < L
  PROVE  OptionDelta(c, i) \in Nat /\ ExtraBytes(OptionDelta(c, i)) >= ExtraBytes(d)
         /\ ExtraBytes(OptionDelta(c, i)) \in Nat
<1> DEFINE dn == Nibble(d)
<1>0. n \in Uint16
  BY SMT DEF Uint16
<1>1. dn \in 0 .. 14 /\ Nibble(n) \in 0 .. 14
  BY <1>0, NibbleFacts
<1>d. dn = Nibble(d)
  OBVIOUS
<1>n. /\ dn < 13 => d = dn
      /\ dn = 13 => ExtraBytes(d) = 1
      /\ dn = 14 => ExtraBytes(d) = 2 /\ d >= 269
      /\ ExtraBytes(d) \in 0 .. 2
  BY NibbleFacts
<1> HIDE DEF dn
<1>2. At(c, i) \div 16 = dn /\ At(b, i) \div 16 = dn /\ dn # 15
  <2>1. At(b, i) \div 16 = dn
    <3>1. (dn * 16 + Nibble(n)) \div 16 = dn
      BY <1>1, SplitByte
    <3>2. At(b, i) = dn * 16 + Nibble(n)
      BY Zenon, <1>d DEF Spells
    <3> QED BY Zenon, <3>1, <3>2
  <2>2. At(c, i) = At(b, i)
    BY Zenon DEF CutOf
  <2>3. dn # 15
    BY SMT, <1>1
  <2> QED BY Zenon, <2>1, <2>2, <2>3
<1>3. Extended(b, dn, i + 1) = d /\ OptionDelta(c, i) = Extended(c, dn, i + 1)
  BY Zenon, <1>2 DEF OptionDelta, Spells
<1>4. PICK x \in Nat, y \in Nat : x = At(b, i + 1) /\ y = At(b, i + 1 + 1)
  <2>1. i + 1 \in Nat /\ i + 1 + 1 \in Nat
    BY SMT
  <2> QED BY Zenon, <2>1 DEF Spells
<1>5. PICK u \in Nat, v \in Nat : /\ u = At(c, i + 1) /\ v = At(c, i + 1 + 1)
                                  /\ u <= x /\ v <= y
  <2>1. i + 1 \in Nat /\ i + 1 + 1 \in Nat /\ x <= x /\ y <= y /\ 0 <= x /\ 0 <= y /\ 0 \in Nat
    BY SMT
  <2> QED BY Zenon, <1>4, <2>1 DEF CutOf
<1>6. CASE dn < 13
  <2>1. OptionDelta(c, i) = dn /\ d = dn
    BY SMT, <1>3, <1>6, <1>n DEF Extended
  <2>2. ExtraBytes(d) >= ExtraBytes(d) /\ ExtraBytes(d) \in Nat
    BY SMT, <1>n
  <2>3. d \in Nat
    BY Bounds16
  <2> QED BY Zenon, <1>n, <2>1, <2>2, <2>3
<1>7. CASE dn = 13
  <2>1. OptionDelta(c, i) = u + 13
    BY SMT, <1>3, <1>5, <1>7 DEF Extended
  <2>2. u + 13 \in Nat /\ u + 13 >= 13
    BY SMT
  <2>4. ExtraBytes(u + 13) \in 0 .. 2 /\ ExtraBytes(u + 13) >= 1
    BY <2>2, NumberGrows
  <2>5. ExtraBytes(u + 13) \in Nat
    BY SMT, <2>4
  <2> QED BY Zenon, <1>7, <1>n, <2>1, <2>2, <2>4, <2>5
<1>8. CASE dn = 14
  <2>1. OptionDelta(c, i) = (u * 256 + v + 269) % 65536
    BY SMT, <1>3, <1>5, <1>8 DEF Extended, Load16
  <2>2. x * 256 + y = d - 269 /\ ExtraBytes(d) = 2
    <3>1. Load16(b, i + 1) = d - 269
      BY Zenon, <1>8, <1>n DEF Spells
    <3> QED BY Zenon, <3>1, <1>4, <1>8, <1>n DEF Load16
  <2>3. d \in Nat /\ d < 65536
    BY Bounds16
  <2>4. (u * 256 + v + 269) % 65536 = u * 256 + v + 269
    BY SMT, <1>5, <2>2, <2>3
  <2>5. u * 256 + v + 269 \in Nat /\ u * 256 + v + 269 >= 269
    BY SMT
  <2>6. ExtraBytes(u * 256 + v + 269) = 2
    BY <2>5, NumberGrows
  <2>7. 2 >= 2 /\ 2 \in Nat
    BY SMT
  <2> QED BY SMT, <2>1, <2>2, <2>4, <2>5, <2>6, <2>7
<1> QED BY SMT, <1>1, <1>6, <1>7, <1>8

(* An option whose bytes are cut is not let pass.                           *)
LEMMA CutMalformed ==
  ASSUME NEW b, NEW c, NEW L \in Nat, NEW i \in Nat, NEW d \in Uint16, NEW n \in 0 .. 255,
         Spells(b, i, d, n), CutOf(c, b, L), i < L,
         L < i + (1 + ExtraBytes(d) + ExtraBytes(n) + n)
  PROVE  Malformed(c, i)
<1>0. n \in Uint16
  BY SMT DEF Uint16
<1>1. PICK dn \in 0 .. 14, ln \in 0 .. 13 :
        /\ dn = Nibble(d) /\ ln = Nibble(n)
        /\ DeltaBytes(dn) = ExtraBytes(d) /\ ExtraBytes(d) \in 0 .. 2
        /\ ln < 13 => n = ln /\ ExtraBytes(n) = 0
        /\ ln = 13 => ExtraBytes(n) = 1
  <2>1. Nibble(n) \in 0 .. 13
    <3>1. n < 269
      BY SMT
    <3> QED BY <1>0, <3>1, NibbleFacts
  <2> QED BY <1>0, <2>1, NibbleFacts
<1>2. PICK e \in 0 .. 2, m \in 0 .. 2 : e = ExtraBytes(d) /\ m = ExtraBytes(n)
  BY <1>0, NibbleFacts
<1>3. /\ At(c, i) = At(b, i) /\ At(b, i) = dn * 16 + ln
      /\ At(b, i) \div 16 = dn /\ At(b, i) % 16 = ln
  <2>1. (dn * 16 + ln) \div 16 = dn /\ (dn * 16 + ln) % 16 = ln
    BY SMT
  <2>2. At(b, i) = dn * 16 + ln
    <3>1. At(b, i) = Nibble(d) * 16 + Nibble(n)
      BY Zenon DEF Spells
    <3> QED BY Zenon, <1>1, <3>1
  <2>3. At(c, i) = At(b, i)
    BY Zenon DEF CutOf
  <2> QED BY Zenon, <2>1, <2>2, <2>3
<1> DEFINE j == i + 1 + e
<1>4. j \in Nat /\ Extended(b, ln, j) = n /\ OptionValueLength(c, i) = Extended(c, ln, j)
  <2>1. j \in Nat
    BY SMT
  <2>2. OptionValueLength(b, i) = n
    BY Zenon DEF Spells
  <2>3. DeltaBytes(dn) = e
    BY Zenon, <1>1, <1>2
  <2>4. OptionValueLength(b, i) = Extended(b, ln, j)
    BY Zenon, <1>3, <2>3 DEF OptionValueLength
  <2>5. OptionValueLength(c, i) = Extended(c, ln, j)
    BY Zenon, <1>3, <2>3 DEF OptionValueLength
  <2> QED BY Zenon, <2>1, <2>2, <2>4, <2>5
<1>j. j = i + 1 + e
  OBVIOUS
<1> HIDE DEF j
<1>5. PICK f \in Nat : f = ExtraBytes(OptionDelta(c, i)) /\ f >= e
  BY CutDelta, <1>2
<1>6. ASSUME NEW x \in Nat, OptionValueLength(c, i) = x, i + (1 + f + ExtraBytes(x) + x) > L
      PROVE  Malformed(c, i)
  <2>1. OptionAt(c, i, 0).total = 1 + ExtraBytes(OptionDelta(c, i)) + ExtraBytes(OptionValueLength(c, i))
                                      + OptionValueLength(c, i)
    BY TotalIs
  <2>2. i + OptionAt(c, i, 0).total > Len(c)
    BY Zenon, <1>5, <1>6, <2>1 DEF CutOf
  <2> QED BY Zenon, <2>2 DEF Malformed
<1>7. CASE ln < 13
  <2>1. OptionValueLength(c, i) = n
    BY SMT, <1>1, <1>4, <1>7 DEF Extended
  <2>2. i + (1 + f + ExtraBytes(n) + n) > L
    BY SMT, <1>1, <1>2, <1>5
  <2>3. n \in Nat
    BY SMT
  <2> QED BY Zenon, <1>6, <2>1, <2>2, <2>3
<1>8. CASE ln = 13
  <2>1. PICK y \in Nat : y = At(c, j) /\ (j < L => y = At(b, j)) /\ At(b, j) \in Nat
    <3>1. At(b, j) \in Nat /\ 0 \in Nat /\ At(c, j) = IF j < L THEN At(b, j) ELSE 0
      BY Zenon, <1>4 DEF CutOf, Spells
    <3> QED BY Zenon, <3>1
  <2>2. OptionValueLength(c, i) = y + 13 /\ At(b, j) + 13 = n
    BY SMT, <1>4, <1>8, <2>1 DEF Extended
  <2>3. y + 13 \in Nat /\ ExtraBytes(y + 13) \in 0 .. 2 /\ ExtraBytes(y + 13) >= 1
    <3>1. y + 13 \in Nat /\ y + 13 >= 13
      BY SMT
    <3> QED BY <3>1, NumberGrows
  <2>4. i + (1 + f + ExtraBytes(y + 13) + (y + 13)) > L
    <3>1. m = 1
      BY Zenon, <1>1, <1>2, <1>8
    <3>2. CASE j < L
      <4>1. y + 13 = n
        BY SMT, <2>1, <2>2, <3>2
      <4>2. ExtraBytes(y + 13) = m
        BY Zenon, <1>2, <4>1
      <4> QED BY SMT, <1>2, <1>5, <4>1, <4>2
    <3>3. CASE j >= L
      BY SMT, <3>3, <1>j, <1>5, <2>3
    <3> QED BY SMT, <1>4, <3>2, <3>3
  <2> QED BY Zenon, <1>6, <2>2, <2>3, <2>4
<1> QED BY SMT, <1>1, <1>7, <1>8

-----------------------------------------------------------------------------
(* The bytes of an option, and of a datagram that is cut.                    *)

(* The two bytes that extend a long delta.                                  *)
LEMMA LongExt ==
  ASSUME NEW d \in Uint16, d >= 269, NEW p \in Seq(Nat), NEW w \in Seq(Nat)
  PROVE  Load16((p \o Ext(d)) \o w, Len(p)) = d - 269
<1> DEFINE k  == d - 269
           hi == k \div 256
           lo == k % 256
           b  == (p \o Ext(d)) \o w
<1>0. d \in Nat /\ d < 65536
  BY Bounds16
<1>1. k \in Nat /\ k < 65536
  BY SMT, <1>0
<1>2. Ext(d) = <<hi, lo>>
  BY SMT, <1>0 DEF Ext, Store16
<1> HIDE DEF k
<1>3. hi \in Nat /\ lo \in Nat /\ hi * 256 + lo = k
  BY SMT, <1>1
<1> HIDE DEF hi, lo
<1>4. At(b, Len(p)) = hi /\ At(b, Len(p) + 1) = lo
  BY SMT, <1>2, <1>3 DEF At
<1> HIDE DEF b
<1>5. Load16(b, Len(p)) = k
  BY SMT, <1>3, <1>4 DEF Load16
<1> QED BY Zenon, <1>5 DEF b, k

LEMMA BytesIn ==
  ASSUME NEW b \in Octets
  PROVE  \A k \in Nat : At(b, k) \in Nat
<1>0. b \in Seq(Nat)
  BY DEF Octets
<1>1. ASSUME NEW k \in Nat PROVE At(b, k) \in Nat
  BY SMT, <1>0, <1>1 DEF At
<1> QED BY Zenon, <1>1

(* What insertOption has written, by its header.                            *)
LEMMA OptionSpells ==
  ASSUME NEW p \in Octets, NEW q \in Octets, NEW d \in Uint16, NEW v \in Octets, Len(v) <= 255
  PROVE  /\ Spells(p ++ (Option(d, v) ++ q), Size(p), d, Len(v))
         /\ Len(v) \in 0 .. 255 /\ Len(v) \in Nat
<1>0. p \in Seq(Nat) /\ q \in Seq(Nat) /\ v \in Seq(Nat)
  BY Zenon DEF Octets
<1>n. PICK n \in Nat : n = Len(v)
  BY <1>0, Cat
<1>v. n \in 0 .. 255 /\ n \in Uint16
  <2>1. n \in Uint16
    BY <1>0, <1>n, ValueShape
  <2>2. n <= 255
    BY Zenon, <1>n
  <2>3. n \in 0 .. 255
    BY SMT, <2>2
  <2> QED BY <2>1, <2>3
<1> DEFINE b == p ++ (Option(d, v) ++ q)
<1>b. b \in Octets /\ b = (p \o Header(d, n)) \o (v \o q) /\ v \o q \in Seq(Nat)
  <2>1. Option(d, v) \in Octets
    BY OptionShape
  <2>2. b \in Octets
    BY <2>1, OctetsCat
  <2> DEFINE H == Header(d, n)
  <2>3. H \in Seq(Nat)
    BY <1>v, HeaderShape
  <2>4. Option(d, v) = H \o v
    BY Zenon, <1>n DEF Option
  <2> HIDE DEF H
  <2>5. v \o q \in Seq(Nat) /\ H \o v \in Seq(Nat)
    BY <1>0, <2>3, Concatenated
  <2>6. (H \o v) \o q = H \o (v \o q)
    BY Zenon, <1>0, <2>3, Assoc
  <2>7. p \o (H \o (v \o q)) = (p \o H) \o (v \o q)
    BY Zenon, <1>0, <2>3, <2>5, Assoc
  <2>8. b = p \o ((H \o v) \o q)
    BY Zenon, <2>4 DEF ++
  <2> HIDE DEF b
  <2> QED BY Zenon, <2>2, <2>5, <2>6, <2>7, <2>8 DEF H
<1>1. OptionDelta(b, Len(p)) = d /\ OptionValueLength(b, Len(p)) = n
  <2> DEFINE w == v \o q
  <2>1. w \in Seq(Nat) /\ b = (p \o Header(d, n)) \o w
    BY <1>b
  <2> HIDE DEF w, b
  <2>2. LET bb == (p \o Header(d, n)) \o w IN
         /\ OptionDelta(bb, Len(p)) = d /\ OptionValueLength(bb, Len(p)) = n
    BY <1>0, <1>v, <2>1, HeaderRoundTrip
  <2> QED BY Zenon, <2>1, <2>2
<1>2. At(b, Len(p)) = Nibble(d) * 16 + Nibble(n)
  <2>1. b = p ++ (Byte(TopByte(d, v)) ++ ((Extra(d) ++ Rest(v)) ++ q))
    <3>1. /\ Option(d, v) = Byte(TopByte(d, v)) ++ (Extra(d) ++ Rest(v))
          /\ TopByte(d, v) \in Nat /\ Extra(d) \in Octets /\ Rest(v) \in Octets
      BY OptionParts
    <3>2. Byte(TopByte(d, v)) \in Octets /\ Extra(d) ++ Rest(v) \in Octets
      BY <3>1, OctetsByte, OctetsCat
    <3>3. (Byte(TopByte(d, v)) ++ (Extra(d) ++ Rest(v))) ++ q
            = Byte(TopByte(d, v)) ++ ((Extra(d) ++ Rest(v)) ++ q)
      BY <3>2, OctetsAssoc
    <3> QED BY Zenon, <3>1, <3>3
  <2>2. TopByte(d, v) \in Nat /\ (Extra(d) ++ Rest(v)) ++ q \in Octets
    <3>1. TopByte(d, v) \in Nat /\ Extra(d) \in Octets /\ Rest(v) \in Octets
      BY OptionParts
    <3> QED BY <3>1, OctetsCat
  <2> DEFINE h == TopByte(d, v)
             r == (Extra(d) ++ Rest(v)) ++ q
  <2>3. h \in Nat /\ r \in Octets /\ b = p ++ (Byte(h) ++ r)
    BY <2>1, <2>2
  <2>4. h = Nibble(d) * 16 + Nibble(n)
    BY Zenon, <1>n DEF TopByte
  <2> HIDE DEF h, r, b
  <2>5. At(p ++ (Byte(h) ++ r), Size(p)) = h
    BY <2>3, OctetsAt
  <2> QED BY Zenon, <2>3, <2>4, <2>5 DEF Size
<1>3. ASSUME d >= 269 PROVE Load16(b, Len(p) + 1) = d - 269
  <2> DEFINE h == <<Nibble(d) * 16 + Nibble(n)>>
             x == Ext(d)
             y == Ext(n)
             w == v \o q
  <2>1. h \in Seq(Nat) /\ Len(h) = 1
    <3>1. Nibble(d) * 16 + Nibble(n) \in Nat
      BY <1>v, HeaderShape
    <3> QED BY <3>1, Single
  <2>2. x \in Seq(Nat) /\ y \in Seq(Nat)
    BY <1>v, Bounds16, ExtShape
  <2>3. Header(d, n) = (h \o x) \o y
    BY DEF Header
  <2>4. w \in Seq(Nat) /\ b = (p \o ((h \o x) \o y)) \o w
    BY <1>b, <2>3
  <2> HIDE DEF h, y, w, b, x
  <2>5. y \o w \in Seq(Nat) /\ p \o h \in Seq(Nat) /\ Len(p \o h) = Len(p) + 1
    <3>1. y \o w \in Seq(Nat)
      BY <2>2, <2>4, Concatenated
    <3>2. p \o h \in Seq(Nat) /\ Len(p \o h) = Len(p) + Len(h)
      BY <1>0, <2>1, Cat
    <3> QED BY Zenon, <2>1, <3>1, <3>2
  <2>6. b = ((p \o h) \o x) \o (y \o w)
    <3>1. h \o x \in Seq(Nat) /\ (p \o h) \o x \in Seq(Nat)
      BY <1>0, <2>1, <2>2, <2>5, Concatenated
    <3>2. p \o ((h \o x) \o y) = (p \o (h \o x)) \o y
      <4>1. ASSUME NEW t \in Seq(Nat) PROVE p \o (t \o y) = (p \o t) \o y
        BY Zenon, <1>0, <2>2, <4>1, Assoc
      <4> QED BY Zenon, <3>1, <4>1
    <3>3. p \o (h \o x) = (p \o h) \o x
      BY Zenon, <1>0, <2>1, <2>2, Assoc
    <3>4. (((p \o h) \o x) \o y) \o w = ((p \o h) \o x) \o (y \o w)
      BY Zenon, <2>2, <2>4, <3>1, Assoc
    <3> QED BY Zenon, <2>4, <3>2, <3>3, <3>4
  <2> DEFINE r == p \o h
             z == y \o w
  <2>7. r \in Seq(Nat) /\ z \in Seq(Nat) /\ Len(r) = Len(p) + 1 /\ b = (r \o Ext(d)) \o z
    BY <2>5, <2>6 DEF x
  <2> HIDE DEF r, z
  <2>8. Load16((r \o Ext(d)) \o z, Len(r)) = d - 269
    BY <1>3, <2>7, LongExt
  <2> QED BY Zenon, <2>7, <2>8
<1>4. \A k \in Nat : At(b, k) \in Nat
  <2> HIDE DEF b
  <2> QED BY <1>b, BytesIn
<1> HIDE DEF b
<1>5. Spells(b, Len(p), d, n)
  BY Zenon, <1>1, <1>2, <1>3, <1>4 DEF Spells
<1> QED BY Zenon, <1>5, <1>v, <1>n DEF Size, b

(* The beginning of bytes is a cut of them.                                 *)
LEMMA CutIs ==
  ASSUME NEW c \in Octets, NEW s \in Octets
  PROVE  CutOf(c, c ++ s, Size(c)) /\ Size(c) \in Nat
<1>0. c \in Seq(Nat) /\ s \in Seq(Nat)
  BY Zenon DEF Octets
<1>1. PICK L \in Nat : L = Len(c)
  BY <1>0, Cat
<1> DEFINE b == c \o s
<1>2. Len(b) = L + Len(s) /\ Len(s) \in Nat /\ \A k \in 1 .. L : b[k] = c[k]
  BY <1>0, <1>1, Cat
<1> HIDE DEF b
<1>3. ASSUME NEW k \in Nat PROVE At(c, k) = IF k < L THEN At(b, k) ELSE 0
  <2>1. CASE k < L
    <3>1. k + 1 \in 1 .. L /\ k < Len(b)
      BY SMT, <1>2, <2>1
    <3>2. At(c, k) = c[k + 1] /\ At(b, k) = b[k + 1]
      BY Zenon, <1>1, <2>1, <3>1 DEF At
    <3> QED BY Zenon, <1>2, <2>1, <3>1, <3>2
  <2>2. CASE ~(k < L)
    BY Zenon, <1>1, <2>2 DEF At
  <2> QED BY <2>1, <2>2
<1> QED BY Zenon, <1>1, <1>3 DEF CutOf, Size, b, ++

-----------------------------------------------------------------------------
(* validate at one option, whole or cut.                                     *)

(* Two ways to split the same bytes.                                        *)
LEMMA Cancel ==
  ASSUME NEW a \in Octets, NEW x \in Octets, NEW b \in Octets, NEW y \in Octets,
         Size(a) = Size(b), a ++ x = b ++ y
  PROVE  a = b /\ x = y
<1>0. a \in Seq(Nat) /\ b \in Seq(Nat) /\ x \in Seq(Nat) /\ y \in Seq(Nat)
  BY Zenon DEF Octets
<1>1. PICK n \in Nat : n = Len(a) /\ n = Len(b)
  BY SMT, <1>0 DEF Size
<1> DEFINE l == a \o x
           r == b \o y
<1>2. /\ Len(l) = n + Len(x) /\ Len(x) \in Nat
      /\ \A k \in 1 .. n : l[k] = a[k]
      /\ \A k \in 1 .. Len(x) : l[n + k] = x[k]
  <2>1. /\ Len(a \o x) = Len(a) + Len(x) /\ Len(x) \in Nat
        /\ \A k \in 1 .. Len(a) : (a \o x)[k] = a[k]
        /\ \A k \in 1 .. Len(x) : (a \o x)[Len(a) + k] = x[k]
    BY <1>0, Cat
  <2> QED BY Zenon, <1>1, <2>1
<1>3. /\ Len(r) = n + Len(y) /\ Len(y) \in Nat
      /\ \A k \in 1 .. n : r[k] = b[k]
      /\ \A k \in 1 .. Len(y) : r[n + k] = y[k]
  <2>1. /\ Len(b \o y) = Len(b) + Len(y) /\ Len(y) \in Nat
        /\ \A k \in 1 .. Len(b) : (b \o y)[k] = b[k]
        /\ \A k \in 1 .. Len(y) : (b \o y)[Len(b) + k] = y[k]
    BY <1>0, Cat
  <2> QED BY Zenon, <1>1, <2>1
<1>4. l = r
  BY Zenon DEF ++
<1> HIDE DEF l, r
<1>5. Len(x) = Len(y)
  BY SMT, <1>1, <1>2, <1>3, <1>4
<1>6. a = b
  <2>1. \A k \in 1 .. Len(a) : a[k] = b[k]
    BY Zenon, <1>1, <1>2, <1>3, <1>4
  <2>2. Len(a) = Len(b)
    BY Zenon, <1>1
  <2> QED BY <1>0, <2>1, <2>2, SameSeq
<1>7. x = y
  <2>1. \A k \in 1 .. Len(x) : x[k] = y[k]
    BY Zenon, <1>2, <1>3, <1>4, <1>5
  <2> QED BY <1>0, <1>5, <2>1, SameSeq
<1> QED BY <1>6, <1>7

(* Bytes of which both a and u are a beginning.                             *)
LEMMA Longer ==
  ASSUME NEW a \in Octets, NEW x \in Octets, NEW u \in Octets, NEW s \in Octets,
         a ++ x = u ++ s, Size(a) <= Size(u)
  PROVE  \E v \in Octets : u = a ++ v /\ x = v ++ s
<1>1. PICK i \in Nat, j \in Nat : i = Size(a) /\ j = Size(u)
  BY OctetsSize
<1>2. PICK e \in Nat : Size(u) = i + e
  <2>1. j - i \in Nat /\ j = i + (j - i)
    BY SMT, <1>1
  <2> QED BY Zenon, <1>1, <2>1
<1>3. PICK f \in Octets, v \in Octets : Size(f) = i /\ u = f ++ v
  <2>1. \E f \in Octets, v \in Octets : Size(f) = i /\ Size(v) = e /\ u = f ++ v
    BY <1>2, OctetsSplit
  <2> QED BY Zenon, <2>1
<1>4. a ++ x = f ++ (v ++ s) /\ v ++ s \in Octets
  BY <1>3, OctetsAssoc, OctetsCat
<1>5. a = f /\ x = v ++ s
  BY <1>1, <1>3, <1>4, Cancel
<1> QED BY Zenon, <1>3, <1>5

(* Bytes have a size or there are none.                                      *)
LEMMA SomeOrNone ==
  ASSUME NEW u \in Octets
  PROVE  Size(u) > 0 \/ u = None
<1>1. Size(u) \in Nat
  BY OctetsSize
<1>2. CASE Size(u) = 0
  <2>3. None \in Octets /\ Size(None) = 0
    BY OctetsNone
  <2>4. Len(u) = Len(None) /\ u \in Seq(Nat) /\ None \in Seq(Nat)
    BY Zenon, <1>2, <2>3 DEF Octets, Size
  <2>5. \A k \in 1 .. Len(u) : u[k] = None[k]
    <3>1. Len(u) = 0
      BY Zenon, <1>2 DEF Size
    <3>2. 1 .. 0 = {}
      BY SMT
    <3> QED BY Zenon, <3>1, <3>2
  <2>6. u = None
    BY <2>4, <2>5, SameSeq
  <2> QED BY <2>6
<1> QED BY SMT, <1>1, <1>2

(* An option cut short is found to be so.                                   *)
LEMMA OptionCut ==
  ASSUME NEW p \in Octets, NEW u \in Octets, NEW w \in Octets,
         NEW d \in Uint16, NEW v \in Octets, Len(v) <= 255,
         Option(d, v) = u ++ w, Size(u) > 0, Size(w) > 0
  PROVE  /\ Malformed(p ++ u, Size(p)) /\ ~(Size(p) >= Len(p ++ u))
         /\ At(p ++ u, Size(p)) # MARKER
<1> DEFINE b == p ++ (Option(d, v) ++ None)
           c == p ++ u
<1>1. None \in Octets /\ Option(d, v) \in Octets
  BY OctetsNone, OptionShape
<1>2. b = c ++ w /\ c \in Octets
  <2>1. b = p ++ (u ++ w)
    BY Zenon, <1>1, OctetsNone
  <2>2. p ++ (u ++ w) = c ++ w
    BY OctetsAssoc
  <2> QED BY <2>1, <2>2, OctetsCat
<1>3. Spells(b, Size(p), d, Len(v)) /\ Len(v) \in 0 .. 255
  BY <1>1, OptionSpells
<1>4. CutOf(c, b, Size(c)) /\ Size(c) \in Nat
  <2>1. CutOf(c, c ++ w, Size(c)) /\ Size(c) \in Nat
    <3> HIDE DEF c
    <3> QED BY <1>2, CutIs
  <2> HIDE DEF c, b
  <2> QED BY Zenon, <1>2, <2>1
<1>5. At(b, Size(p)) # MARKER
  BY <1>1, OptionReads
<1>6. PICK i \in Nat, j \in Nat, k \in Nat :
        /\ i = Size(p) /\ j = Size(u) /\ k = Size(w) /\ j > 0 /\ k > 0
        /\ Size(c) = i + j /\ Size(Option(d, v)) = j + k
  <2>1. Size(p) \in Nat /\ Size(u) \in Nat /\ Size(w) \in Nat
    BY OctetsSize
  <2>2. Size(c) = Size(p) + Size(u) /\ Size(u ++ w) = Size(u) + Size(w)
    BY OctetsCat
  <2> QED BY Zenon, <2>1, <2>2
<1>7. 1 + ExtraBytes(d) + ExtraBytes(Len(v)) + Len(v) = j + k
  BY Zenon, <1>6, OptionShape
<1> HIDE DEF b, c
<1>8. i < Size(c) /\ Size(c) < i + (j + k)
  BY SMT, <1>6
<1>9. Malformed(c, i)
  <2> DEFINE L == Size(c)
             n == Len(v)
  <2>1. /\ L \in Nat /\ i \in Nat /\ n \in 0 .. 255
        /\ Spells(b, i, d, n) /\ CutOf(c, b, L) /\ i < L
        /\ L < i + (1 + ExtraBytes(d) + ExtraBytes(n) + n)
    BY Zenon, <1>3, <1>4, <1>6, <1>7, <1>8
  <2> HIDE DEF L, n
  <2> QED BY <2>1, CutMalformed
<1>10. At(c, i) # MARKER
  <2>1. At(c, i) = At(b, i)
    BY Zenon, <1>4, <1>8 DEF CutOf
  <2> QED BY Zenon, <1>5, <1>6, <2>1
<1>11. ~(i >= Len(c))
  <2>1. i < Len(c)
    BY Zenon, <1>8 DEF Size
  <2>2. Len(c) \in Nat
    BY Zenon, <1>4 DEF Size
  <2> QED BY SMT, <2>1, <2>2
<1> QED BY Zenon, <1>6, <1>9, <1>10, <1>11 DEF c

(* A whole option is let pass, by its size.                                 *)
LEMMA OptionWhole ==
  ASSUME NEW p \in Octets, NEW q \in Octets, NEW d \in Uint16, NEW v \in Octets, Len(v) <= 255
  PROVE  /\ ~Malformed(p ++ (Option(d, v) ++ q), Size(p))
         /\ OptionAt(p ++ (Option(d, v) ++ q), Size(p), 0).total = Size(Option(d, v))
         /\ At(p ++ (Option(d, v) ++ q), Size(p)) # MARKER
         /\ ~(Size(p) >= Len(p ++ (Option(d, v) ++ q)))
<1> DEFINE b == p ++ (Option(d, v) ++ q)
           n == Len(v)
           F == Option(d, v)
<1>1. F \in Octets /\ Size(F) = 1 + ExtraBytes(d) + ExtraBytes(n) + n
  BY OptionShape
<1>2. Spells(b, Size(p), d, n) /\ n \in 0 .. 255
  BY OptionSpells
<1>3. PICK i \in Nat, t \in Nat, k \in Nat :
        i = Size(p) /\ t = Size(F) /\ k = Size(q) /\ Len(b) = i + (t + k)
  <2>1. Size(p) \in Nat /\ Size(F) \in Nat /\ Size(q) \in Nat
    BY <1>1, OctetsSize
  <2>2. F ++ q \in Octets /\ Size(F ++ q) = Size(F) + Size(q)
    <3> HIDE DEF F
    <3> QED BY <1>1, OctetsCat
  <2>3. Size(p ++ (F ++ q)) = Size(p) + Size(F ++ q)
    <3> HIDE DEF F
    <3> QED BY <2>2, OctetsCat
  <2>4. Len(b) = Size(p) + (Size(F) + Size(q))
    BY Zenon, <2>2, <2>3 DEF Size
  <2> HIDE DEF b, F
  <2> QED BY Zenon, <2>1, <2>4
<1>4. At(b, Size(p)) # MARKER /\ \A pr : OptionAt(b, Size(p), pr) =
        [number |-> Number(pr, d), at |-> Size(p), total |-> Size(F), value |-> v]
  BY OptionReads
<1>5. OptionAt(b, i, 0).total = t
  <2>1. OptionAt(b, i, 0) = [number |-> Number(0, d), at |-> Size(p), total |-> Size(F), value |-> v]
    BY Zenon, <1>3, <1>4
  <2> DEFINE z == Size(F)
             y == Number(0, d)
  <2> HIDE DEF z, y
  <2>2. [number |-> y, at |-> Size(p), total |-> z, value |-> v].total = z
    BY SMT
  <2> QED BY Zenon, <1>3, <2>1, <2>2 DEF z, y
<1> HIDE DEF b, n, F
<1>6. n \in Uint16
  BY SMT, <1>2 DEF Uint16
<1>7. PICK x \in 0 .. 14, y \in 0 .. 14 : x = Nibble(d) /\ y = Nibble(n)
  BY <1>6, NibbleFacts
<1>8. At(b, i) \div 16 = x /\ At(b, i) % 16 = y
  <2>1. At(b, i) = x * 16 + y
    BY Zenon, <1>2, <1>3, <1>7 DEF Spells
  <2>2. (x * 16 + y) \div 16 = x /\ (x * 16 + y) % 16 = y
    BY SplitByte
  <2> QED BY Zenon, <2>1, <2>2
<1>9. x # 15 /\ y # 15
  BY SMT
<1>10. PICK ed \in 0 .. 2, en \in 0 .. 2, ex \in 0 .. 1, ey \in 0 .. 1 :
        /\ ed = ExtraBytes(d) /\ en = ExtraBytes(n) /\ ex = ExtraBytes(x) /\ ey = ExtraBytes(y)
        /\ ex <= ed /\ ey <= en
  <2>1. ExtraBytes(Nibble(d)) <= ExtraBytes(d) /\ ExtraBytes(Nibble(d)) \in 0 .. 1 /\ ExtraBytes(d) \in 0 .. 2
    BY NibbleFacts
  <2>2. ExtraBytes(Nibble(n)) <= ExtraBytes(n) /\ ExtraBytes(Nibble(n)) \in 0 .. 1 /\ ExtraBytes(n) \in 0 .. 2
    BY <1>6, NibbleFacts
  <2> QED BY Zenon, <1>7, <2>1, <2>2
<1>11. ~(ex + ey > Len(b) - i - 1) /\ ~(i + t > Len(b)) /\ ~(i >= Len(b))
  <2>1. t = 1 + ed + en + n
    BY Zenon, <1>1, <1>3, <1>10
  <2>2. PICK l \in Nat, m \in Nat : l = Len(b) /\ l = i + (t + k) /\ m = n
    <3>1. i + (t + k) \in Nat /\ n \in Nat
      BY SMT, <1>2
    <3> QED BY Zenon, <1>3, <3>1
  <2>3. ~(ex + ey > l - i - 1) /\ ~(i + t > l) /\ ~(i >= l)
    <3>1. t = 1 + ed + en + m /\ l = i + (t + k) /\ ex <= ed /\ ey <= en
      BY Zenon, <1>10, <2>1, <2>2
    <3> QED BY SMT, <3>1
  <2> QED BY Zenon, <2>2, <2>3
<1>12. ~Malformed(b, i)
  BY Zenon, <1>5, <1>8, <1>9, <1>10, <1>11 DEF Malformed
<1> QED BY Zenon, <1>3, <1>4, <1>5, <1>11, <1>12 DEF b, F

-----------------------------------------------------------------------------
(* One round of validate.                                                    *)

(* Where the loop of validate stands.                                       *)
Stage(a, n, p, x, d) == [at |-> a, num |-> n, payload |-> p, ok |-> x, done |-> d]

LEMMA StageParts ==
  ASSUME NEW a, NEW n, NEW p, NEW x, NEW d
  PROVE  /\ DOMAIN Stage(a, n, p, x, d) = {"at", "num", "payload", "ok", "done"}
         /\ Stage(a, n, p, x, d).at = a /\ Stage(a, n, p, x, d).num = n
         /\ Stage(a, n, p, x, d).payload = p /\ Stage(a, n, p, x, d).ok = x
         /\ Stage(a, n, p, x, d).done = d
BY Zenon DEF Stage

LEMMA StageIs ==
  ASSUME NEW e, NEW a, NEW n, NEW p, NEW x, NEW d,
         DOMAIN e = {"at", "num", "payload", "ok", "done"} /\ e = [i \in DOMAIN e |-> e[i]],
         e.at = a /\ e.num = n /\ e.payload = p /\ e.ok = x /\ e.done = d
  PROVE  e = Stage(a, n, p, x, d)
BY DEF Stage

(* The state with some of its fields changed, as a round of validate does.  *)
Ceased(w, d, x)    == [w EXCEPT !.done = d, !.ok = x]
Closed(w, d, x, p) == [w EXCEPT !.done = d, !.ok = x, !.payload = p]
Broken(w, d)       == [w EXCEPT !.done = d]
Advanced(w, n, a)  == [w EXCEPT !.num = n, !.at = a]

LEMMA StageChanged ==
  ASSUME NEW a, NEW n, NEW p, NEW x, NEW d
  PROVE  /\ \A g, y : Ceased(Stage(a, n, p, x, d), g, y) = Stage(a, n, p, y, g)
         /\ \A g, y, q : Closed(Stage(a, n, p, x, d), g, y, q) = Stage(a, n, q, y, g)
         /\ \A g : Broken(Stage(a, n, p, x, d), g) = Stage(a, n, p, x, g)
         /\ \A m, j : Advanced(Stage(a, n, p, x, d), m, j) = Stage(j, m, p, x, d)
<1> DEFINE w == Stage(a, n, p, x, d)
<1>1. /\ DOMAIN w = {"at", "num", "payload", "ok", "done"}
      /\ w.at = a /\ w.num = n /\ w.payload = p /\ w.ok = x /\ w.done = d
  BY StageParts
<1> HIDE DEF w
<1>2. ASSUME NEW g, NEW y PROVE Ceased(w, g, y) = Stage(a, n, p, y, g)
  <2> DEFINE e == Ceased(w, g, y)
  <2>1. e = [i \in DOMAIN w |-> IF i = "ok" THEN y ELSE IF i = "done" THEN g ELSE w[i]]
    BY Zenon DEF Ceased, Closed, Broken, Advanced
  <2> HIDE DEF e
  <2>2. DOMAIN e = {"at", "num", "payload", "ok", "done"} /\ e = [i \in DOMAIN e |-> e[i]]
    BY SMT, <1>1, <2>1
  <2>3. e.at = a /\ e.num = n /\ e.payload = p /\ e.ok = y /\ e.done = g
    BY <1>1, <2>1
  <2>4. e = Stage(a, n, p, y, g)
    BY <2>2, <2>3, StageIs
  <2> QED BY Zenon, <2>4 DEF e
<1>3. ASSUME NEW g, NEW y, NEW q PROVE Closed(w, g, y, q) = Stage(a, n, q, y, g)
  <2> DEFINE e == Closed(w, g, y, q)
  <2>1. e = [i \in DOMAIN w |-> IF i = "payload" THEN q ELSE IF i = "ok" THEN y ELSE IF i = "done" THEN g ELSE w[i]]
    BY Zenon DEF Ceased, Closed, Broken, Advanced
  <2> HIDE DEF e
  <2>2. DOMAIN e = {"at", "num", "payload", "ok", "done"} /\ e = [i \in DOMAIN e |-> e[i]]
    BY SMT, <1>1, <2>1
  <2>3. e.at = a /\ e.num = n /\ e.payload = q /\ e.ok = y /\ e.done = g
    BY <1>1, <2>1
  <2>4. e = Stage(a, n, q, y, g)
    BY <2>2, <2>3, StageIs
  <2> QED BY Zenon, <2>4 DEF e
<1>4. ASSUME NEW g PROVE Broken(w, g) = Stage(a, n, p, x, g)
  <2> DEFINE e == Broken(w, g)
  <2>1. e = [i \in DOMAIN w |-> IF i = "done" THEN g ELSE w[i]]
    BY Zenon DEF Ceased, Closed, Broken, Advanced
  <2> HIDE DEF e
  <2>2. DOMAIN e = {"at", "num", "payload", "ok", "done"} /\ e = [i \in DOMAIN e |-> e[i]]
    BY SMT, <1>1, <2>1
  <2>3. e.at = a /\ e.num = n /\ e.payload = p /\ e.ok = x /\ e.done = g
    BY <1>1, <2>1
  <2>4. e = Stage(a, n, p, x, g)
    BY <2>2, <2>3, StageIs
  <2> QED BY Zenon, <2>4 DEF e
<1>5. ASSUME NEW m, NEW j PROVE Advanced(w, m, j) = Stage(j, m, p, x, d)
  <2> DEFINE e == Advanced(w, m, j)
  <2>1. e = [i \in DOMAIN w |-> IF i = "at" THEN j ELSE IF i = "num" THEN m ELSE w[i]]
    BY Zenon DEF Ceased, Closed, Broken, Advanced
  <2> HIDE DEF e
  <2>2. DOMAIN e = {"at", "num", "payload", "ok", "done"} /\ e = [i \in DOMAIN e |-> e[i]]
    BY SMT, <1>1, <2>1
  <2>3. e.at = j /\ e.num = m /\ e.payload = p /\ e.ok = x /\ e.done = d
    BY <1>1, <2>1
  <2>4. e = Stage(j, m, p, x, d)
    BY <2>2, <2>3, StageIs
  <2> QED BY Zenon, <2>4 DEF e
<1> QED BY Zenon, <1>2, <1>3, <1>4, <1>5 DEF w

LEMMA ExamineIs ==
  ASSUME NEW b, NEW w
  PROVE  Examine(b, w) = IF w.at >= Len(b) THEN Ceased(w, Ok, Ok)
                         ELSE IF At(b, w.at) = MARKER
                           THEN Closed(w, Ok, w.at + 1 < Len(b), SubSeq(b, w.at + 2, Len(b)))
                         ELSE IF Malformed(b, w.at) THEN Broken(w, Ok)
                         ELSE Advanced(w, w.num + 1, w.at + OptionAt(b, w.at, 0).total)
BY Zenon DEF Examine, Ceased, Closed, Broken, Advanced, Ok

(* Before a round that reads on.                                            *)
Open(i, n) == Stage(i, n, None, Refused, Refused)

LEMMA Examined ==
  ASSUME NEW b, NEW i, NEW n
  PROVE  /\ i >= Len(b) => Examine(b, Open(i, n)) = Stage(i, n, None, Ok, Ok)
         /\ ~(i >= Len(b)) /\ At(b, i) = MARKER
              => Examine(b, Open(i, n)) = Stage(i, n, SubSeq(b, i + 2, Len(b)), i + 1 < Len(b), Ok)
         /\ ~(i >= Len(b)) /\ At(b, i) # MARKER /\ Malformed(b, i)
              => Examine(b, Open(i, n)) = Stage(i, n, None, Refused, Ok)
         /\ ~(i >= Len(b)) /\ At(b, i) # MARKER /\ ~Malformed(b, i)
              => Examine(b, Open(i, n)) = Open(i + OptionAt(b, i, 0).total, n + 1)
<1> DEFINE w == Stage(i, n, None, Refused, Refused)
<1>1. w.at = i /\ w.num = n
  BY StageParts
<1>2. /\ \A g, y : Ceased(w, g, y) = Stage(i, n, None, y, g)
      /\ \A g, y, q : Closed(w, g, y, q) = Stage(i, n, q, y, g)
      /\ \A g : Broken(w, g) = Stage(i, n, None, Refused, g)
      /\ \A m, j : Advanced(w, m, j) = Stage(j, m, None, Refused, Refused)
  BY StageChanged
<1> HIDE DEF w
<1>3. Examine(b, w) = IF i >= Len(b) THEN Ceased(w, Ok, Ok)
                         ELSE IF At(b, i) = MARKER
                           THEN Closed(w, Ok, i + 1 < Len(b), SubSeq(b, i + 2, Len(b)))
                         ELSE IF Malformed(b, i) THEN Broken(w, Ok)
                         ELSE Advanced(w, n + 1, i + OptionAt(b, i, 0).total)
  BY Zenon, <1>1, ExamineIs
<1>4. w = Open(i, n)
  BY DEF w, Open
<1>5. \A m, j : Advanced(w, m, j) = Open(j, m)
  BY Zenon, <1>2 DEF Open
<1> QED BY Zenon, <1>2, <1>3, <1>4, <1>5

-----------------------------------------------------------------------------
(* The loop of validate, round by round.                                     *)

(* The loop of validate: its start and one round.                           *)
Unsound(b) == \/ Len(b) < HDR \/ Version(b) # 1
              \/ TokenLength(b) > 8 \/ HDR + TokenLength(b) > Len(b) \/ ~ValidCode(Code(b))
CheckStart(b) == [at |-> HDR + TokenLength(b), num |-> 0, payload |-> << >>, ok |-> FALSE, done |-> Unsound(b)]
CheckStep(b, w) == IF w.done THEN w ELSE Examine(b, w)

(* The loop of validate by its rounds.                                      *)
CheckSteps(f, n, b) == f = [k \in 0 .. n |-> IF k = 0 THEN CheckStart(b) ELSE CheckStep(b, f[k - 1])]

LEMMA CheckStepsExist == ASSUME NEW b PROVE \A n \in Nat : \E f : CheckSteps(f, n, b)
<1> DEFINE T == {n \in Nat : \E f : CheckSteps(f, n, b)}
<1>1. 0 \in T
  <2>1. CheckSteps([k \in 0 .. 0 |-> CheckStart(b)], 0, b)
    BY SMT DEF CheckSteps
  <2> QED BY Zenon, <2>1
<1>2. ASSUME NEW n \in Nat, n \in T PROVE n + 1 \in T
  <2>1. PICK f : CheckSteps(f, n, b)
    BY <1>2
  <2> DEFINE x == CheckStep(b, f[n])
             g == Extend(f, n, x)
  <2> HIDE DEF x
  <2>2. /\ \A k \in 0 .. n : g[k] = f[k]
        /\ g[n + 1] = x
        /\ g = [k \in 0 .. n + 1 |-> g[k]]
    BY SMT DEF Extend
  <2> HIDE DEF g
  <2>3. \A k \in 0 .. n : f[k] = IF k = 0 THEN CheckStart(b) ELSE CheckStep(b, f[k - 1])
    BY Zenon, <2>1 DEF CheckSteps
  <2>4. ASSUME NEW k \in 0 .. n + 1
        PROVE  g[k] = IF k = 0 THEN CheckStart(b) ELSE CheckStep(b, g[k - 1])
    <3>1. CASE k = n + 1
      BY Zenon, <2>2, <3>1, Count0 DEF x
    <3>2. CASE k \in 0 .. n
      BY Zenon, <2>2, <2>3, <3>2, Count0
    <3> QED BY Zenon, Count0, <3>1, <3>2
  <2>5. CheckSteps(g, n + 1, b)
    BY Zenon, <2>2, <2>4 DEF CheckSteps
  <2> QED BY <2>5
<1> HIDE DEF T
<1>3. \A n \in Nat : n \in T
  BY <1>1, <1>2, Induction
<1> QED BY <1>3 DEF T

LEMMA CheckIs ==
  ASSUME NEW b, Len(b) \in Nat
  PROVE  \E f : /\ Validate(b) = f[Len(b)]
                /\ f[0] = CheckStart(b)
                /\ \A k \in 0 .. Len(b) : k # 0 => f[k] = CheckStep(b, f[k - 1])
<1> DEFINE loop[j \in 0 .. Len(b)] == IF j = 0 THEN [at |-> HDR + TokenLength(b), num |-> 0, payload |-> << >>, ok |-> FALSE,
                  done |-> \/ Len(b) < HDR \/ Version(b) # 1
                           \/ TokenLength(b) > 8 \/ HDR + TokenLength(b) > Len(b) \/ ~ValidCode(Code(b))]
             ELSE LET w == loop[j - 1] IN IF w.done THEN w ELSE Examine(b, w)
<1>1. \E f : f = [j \in 0 .. Len(b) |-> IF j = 0 THEN [at |-> HDR + TokenLength(b), num |-> 0, payload |-> << >>, ok |-> FALSE,
                  done |-> \/ Len(b) < HDR \/ Version(b) # 1
                           \/ TokenLength(b) > 8 \/ HDR + TokenLength(b) > Len(b) \/ ~ValidCode(Code(b))]
             ELSE LET w == f[j - 1] IN IF w.done THEN w ELSE Examine(b, w)]
  <2>1. PICK f : CheckSteps(f, Len(b), b)
    BY Zenon, CheckStepsExist
  <2> QED BY Zenon, <2>1 DEF CheckSteps, CheckStart, CheckStep, Unsound
<1>2. loop = [j \in 0 .. Len(b) |-> IF j = 0 THEN [at |-> HDR + TokenLength(b), num |-> 0, payload |-> << >>, ok |-> FALSE,
                  done |-> \/ Len(b) < HDR \/ Version(b) # 1
                           \/ TokenLength(b) > 8 \/ HDR + TokenLength(b) > Len(b) \/ ~ValidCode(Code(b))]
             ELSE LET w == loop[j - 1] IN IF w.done THEN w ELSE Examine(b, w)]
  BY Zenon, <1>1
<1>3. Validate(b) = loop[Len(b)]
  BY Zenon DEF Validate, CheckStart, CheckStep, Unsound
<1> HIDE DEF loop
<1>4. \A k \in 0 .. Len(b) : loop[k] = IF k = 0 THEN CheckStart(b) ELSE CheckStep(b, loop[k - 1])
  BY Zenon, <1>2 DEF CheckStart, CheckStep, Unsound
<1>5. 0 \in 0 .. Len(b)
  BY SMT
<1> QED BY Zenon, <1>3, <1>4, <1>5

-----------------------------------------------------------------------------
(* What is left of a datagram, and where validate is in it.                  *)

LEMMA ListsFirst == \A R \in Lists : R = Nil \/ \E o \in Held, Q \in Lists : R = One(o) ** Q
<1> DEFINE T == {R \in Lists : R = Nil \/ \E o \in Held, Q \in Lists : R = One(o) ** Q}
<1>1. Nil \in T
  BY Zenon, ListsNil
<1>2. ASSUME NEW R \in Lists, NEW e \in Held, R \in T PROVE R ** One(e) \in T
  <2>0. One(e) \in Lists /\ R ** One(e) \in Lists
    BY ListsOne, ListsCat
  <2>1. CASE R = Nil
    <3>1. R ** One(e) = One(e) ** Nil /\ Nil \in Lists
      BY Zenon, <2>0, <2>1, ListsNil
    <3> QED BY Zenon, <2>0, <3>1
  <2>2. ASSUME NEW o \in Held, NEW Q \in Lists, R = One(o) ** Q PROVE R ** One(e) \in T
    <3>1. One(o) \in Lists /\ Q ** One(e) \in Lists
      BY <2>0, ListsOne, ListsCat
    <3>2. (One(o) ** Q) ** One(e) = One(o) ** (Q ** One(e))
      BY <2>0, <3>1, ListsAssoc
    <3> QED BY Zenon, <2>0, <2>2, <3>1, <3>2
  <2> QED BY Zenon, <1>2, <2>1, <2>2
<1> HIDE DEF T
<1>3. \A R \in Lists : R \in T
  BY <1>1, <1>2, ListInduction
<1> QED BY Zenon, <1>3 DEF T

LEMMA ImageSplit ==
  ASSUME NEW hdr \in Octets, NEW P \in Lists, Ascending(0, P), NEW y \in Octets
  PROVE  Image(hdr, P, y) = Before(hdr, P) ++ y /\ Before(hdr, P) \in Octets
<1>1. Fields(0, P) \in Octets
  BY FieldsIn, ZeroIn
<1> DEFINE f == Fields(0, P)
<1>2. f \in Octets
  BY <1>1
<1> HIDE DEF f
<1>3. hdr ++ (f ++ y) = (hdr ++ f) ++ y /\ hdr ++ f \in Octets
  BY <1>2, OctetsAssoc, OctetsCat
<1> QED BY Zenon, <1>3 DEF Image, Before, f

(* The bytes c are a datagram, or what is left of it without the end s.     *)
Cut(c, s, hdr, os, q) ==
  /\ c \in Octets /\ s \in Octets /\ hdr \in Octets /\ q \in Octets
  /\ os \in Lists /\ Ascending(0, os) /\ c ++ s = Image(hdr, os, q)

(* validate has let the first k options pass.                               *)
Reading(c, hdr, os, k, w) ==
  \E P \in Lists, R \in Lists, u \in Octets :
    /\ os = P ** R /\ k = Count(P) /\ k < Size(Before(hdr, P))
    /\ c = Before(hdr, P) ++ u /\ w = Open(Size(Before(hdr, P)), k)

(* validate is done: with all of a whole datagram, and with a beginning of  *)
(* the options and of the payload if it accepts one that is cut.            *)
Settled(c, s, hdr, os, pay, w) ==
  /\ w.done
  /\ s = None => w.ok /\ w.num = Count(os) /\ w.payload = pay
  /\ w.ok => /\ \E z \in Octets : pay = w.payload ++ z
             /\ w.payload \in Octets
             /\ \E P \in Lists, R \in Lists, y \in Octets :
                  os = P ** R /\ w.num = Count(P) /\ c = Image(hdr, P, y)

(* Behind the last option there is the payload.                             *)
LEMMA RestAtEnd ==
  ASSUME NEW c, NEW s, NEW hdr, NEW q, NEW P \in Lists, Cut(c, s, hdr, P ** Nil, q),
         NEW u \in Octets, c = Before(hdr, P) ++ u
  PROVE  u ++ s = q
<1>1. Nil \in Lists /\ P ** Nil = P
  BY Zenon, ListsNil
<1>2. /\ s \in Octets /\ q \in Octets /\ c ++ s = Image(hdr, P, q) /\ Before(hdr, P) \in Octets
      /\ Image(hdr, P, q) = Before(hdr, P) ++ q
  <2>1. Cut(c, s, hdr, P, q)
    BY Zenon, <1>1
  <2>2. s \in Octets /\ q \in Octets /\ hdr \in Octets /\ Ascending(0, P) /\ c ++ s = Image(hdr, P, q)
    BY Zenon, <2>1 DEF Cut
  <2>3. Image(hdr, P, q) = Before(hdr, P) ++ q /\ Before(hdr, P) \in Octets
    BY <2>2, ImageSplit
  <2> QED BY Zenon, <2>2, <2>3
<1> DEFINE p == Before(hdr, P)
<1>3. p \in Octets /\ (p ++ u) ++ s = p ++ q
  BY Zenon, <1>1, <1>2
<1> HIDE DEF p
<1>4. p ++ (u ++ s) = p ++ q /\ u ++ s \in Octets /\ Size(p) = Size(p)
  BY <1>2, <1>3, OctetsAssoc, OctetsCat
<1> QED BY <1>2, <1>3, <1>4, Cancel

(* Before the last option there is an option.                               *)
LEMMA RestAtOption ==
  ASSUME NEW c, NEW s, NEW hdr, NEW q, NEW P \in Lists, NEW o \in Held, NEW Q \in Lists,
         Cut(c, s, hdr, P ** (One(o) ** Q), q), NEW u \in Octets, c = Before(hdr, P) ++ u
  PROVE  \E d \in Uint16 : \E rest \in Octets :
           /\ o.value \in Octets /\ Len(o.value) <= 255
           /\ Option(d, o.value) \in Octets /\ Size(Option(d, o.value)) > 0
           /\ u ++ s = Option(d, o.value) ++ rest
           /\ Before(hdr, P ** One(o)) = Before(hdr, P) ++ Option(d, o.value)
<1>1. One(o) \in Lists /\ One(o) ** Q \in Lists
  BY ListsOne, ListsCat
<1>2. /\ s \in Octets /\ q \in Octets /\ hdr \in Octets /\ c ++ s = Image(hdr, P ** (One(o) ** Q), q)
      /\ Before(hdr, P) \in Octets /\ Ascending(0, P ** (One(o) ** Q))
  <2>1. /\ s \in Octets /\ q \in Octets /\ hdr \in Octets /\ c ++ s = Image(hdr, P ** (One(o) ** Q), q)
        /\ Ascending(0, P ** (One(o) ** Q))
    BY Zenon DEF Cut
  <2>2. Before(hdr, P) \in Octets
    BY <2>1, OptionIn
  <2> QED BY Zenon, <2>1, <2>2
<1>3. PICK d \in Uint16 :
        /\ Image(hdr, P ** (One(o) ** Q), q) = Before(hdr, P) ++ (Option(d, o.value) ++ Behind(o, Q, q))
        /\ Before(hdr, P ** One(o)) = Before(hdr, P) ++ Option(d, o.value)
  <2>1. \E d \in Uint16 :
          /\ d = o.number - Last(0, P) /\ Number(Last(0, P), d) = o.number
          /\ Option(d, o.value) \in Octets
          /\ Image(hdr, P ** (One(o) ** Q), q)
               = Before(hdr, P) ++ (Option(d, o.value) ++ Behind(o, Q, q))
          /\ Before(hdr, P ** One(o)) = Before(hdr, P) ++ Option(d, o.value)
    BY <1>2, OptionIn
  <2> QED BY Zenon, <2>1
<1>4. Behind(o, Q, q) \in Octets
  BY <1>2, OptionIn
<1>5. o.value \in Octets /\ Len(o.value) <= 255
  BY HeldParts
<1>6. Option(d, o.value) \in Octets /\ Size(Option(d, o.value)) > 0
  BY <1>5, OptionShape
<1> DEFINE p == Before(hdr, P)
           f == Option(d, o.value)
           r == Behind(o, Q, q)
<1>7. p \in Octets /\ f \in Octets /\ r \in Octets /\ (p ++ u) ++ s = p ++ (f ++ r)
  BY Zenon, <1>2, <1>3, <1>4, <1>6
<1> HIDE DEF p, f, r
<1>8. p ++ (u ++ s) = p ++ (f ++ r) /\ u ++ s \in Octets /\ f ++ r \in Octets /\ Size(p) = Size(p)
  BY <1>2, <1>7, OctetsAssoc, OctetsCat
<1>9. u ++ s = f ++ r
  BY <1>7, <1>8, Cancel
<1> QED BY Zenon, <1>3, <1>5, <1>6, <1>7, <1>9 DEF f, r, p

-----------------------------------------------------------------------------
(* The round of validate behind the last option.                             *)

(* The bytes end where the next option would begin.                         *)
LEMMA SettledEnd ==
  ASSUME NEW c, NEW s, NEW hdr, NEW pay \in Octets, NEW P \in Lists, NEW R \in Lists,
         Cut(c, s, hdr, P ** R, Trail(pay)), c = Before(hdr, P),
         s = None => R = Nil /\ pay = None, NEW i
  PROVE  Settled(c, s, hdr, P ** R, pay, Stage(i, Count(P), None, Ok, Ok))
<1> DEFINE w == Stage(i, Count(P), None, Ok, Ok)
<1>1. w.num = Count(P) /\ w.payload = None /\ w.ok = Ok /\ w.done = Ok
  BY StageParts
<1> HIDE DEF w
<1>2. None \in Octets /\ pay = None ++ pay /\ P ** Nil = P
  BY Zenon, OctetsNone, ListsNil
<1>3. hdr \in Octets /\ Ascending(0, P ** R)
  BY Zenon DEF Cut
<1>4. Ascending(0, P)
  BY <1>3, AscendingCat
<1>5. c = Image(hdr, P, None)
  <2>1. Image(hdr, P, None) = Before(hdr, P)
    BY <1>3, <1>4, ImageNone
  <2> QED BY Zenon, <2>1
<1> DEFINE os == P ** R
<1>6. os = P ** R /\ (s = None => Count(os) = Count(P))
  BY Zenon, <1>2
<1> HIDE DEF os
<1>7. Settled(c, s, hdr, os, pay, w)
  BY Zenon, <1>1, <1>2, <1>5, <1>6 DEF Settled, Ok
<1> QED BY Zenon, <1>6, <1>7 DEF w

(* The bytes end within an option.                                          *)
LEMMA SettledBroken ==
  ASSUME NEW c, NEW s, s # None, NEW hdr, NEW pay, NEW os, NEW i, NEW n
  PROVE  Settled(c, s, hdr, os, pay, Stage(i, n, None, Refused, Ok))
<1> DEFINE w == Stage(i, n, None, Refused, Ok)
<1>1. w.ok = Refused /\ w.done = Ok
  BY StageParts
<1> HIDE DEF w
<1>2. Settled(c, s, hdr, os, pay, w)
  BY Zenon, <1>1 DEF Settled, Ok, Refused
<1> QED BY Zenon, <1>2 DEF w

(* The payload, or what is left of it, is behind the marker.                *)
LEMMA SettledPayload ==
  ASSUME NEW c, NEW s \in Octets, NEW hdr, NEW pay \in Octets, NEW P \in Lists, Size(pay) > 0,
         NEW q, Cut(c, s, hdr, P ** Nil, q), NEW u \in Octets, c = Before(hdr, P) ++ u,
         NEW v \in Octets, pay = v ++ s, NEW x, x <=> Size(v) > 0, NEW i
  PROVE  Settled(c, s, hdr, P ** Nil, pay, Stage(i, Count(P), v, x, Ok))
<1> DEFINE w == Stage(i, Count(P), v, x, Ok)
<1>1. w.num = Count(P) /\ w.payload = v /\ w.ok = x /\ w.done = Ok
  BY StageParts
<1> HIDE DEF w
<1>2. P ** Nil = P /\ (s = None => pay = v) /\ Nil \in Lists
  BY Zenon, OctetsNone, ListsNil
<1>3. c = Image(hdr, P, u)
  <2>1. Cut(c, s, hdr, P, q)
    BY Zenon, <1>2
  <2>2. hdr \in Octets /\ Ascending(0, P)
    BY Zenon, <2>1 DEF Cut
  <2>3. Image(hdr, P, u) = Before(hdr, P) ++ u
    BY <2>2, ImageSplit
  <2> QED BY Zenon, <2>3
<1>4. s = None => x
  BY Zenon, <1>2
<1> DEFINE os == P ** Nil
<1>6. os = P ** Nil /\ Count(os) = Count(P)
  BY Zenon, <1>2
<1> HIDE DEF os
<1>7. Settled(c, s, hdr, os, pay, w)
  BY Zenon, <1>1, <1>2, <1>3, <1>4, <1>6 DEF Settled, Ok
<1> QED BY Zenon, <1>6, <1>7 DEF w

(* A round of validate behind the last option.                              *)
LEMMA ReadingEnd ==
  ASSUME NEW c, NEW s, NEW hdr, NEW pay \in Octets, NEW P \in Lists, NEW u \in Octets,
         Cut(c, s, hdr, P ** Nil, Trail(pay)), c = Before(hdr, P) ++ u
  PROVE  Settled(c, s, hdr, P ** Nil, pay, Examine(c, Open(Size(Before(hdr, P)), Count(P))))
<1> DEFINE p == Before(hdr, P)
           n == Count(P)
           q == Trail(pay)
<1>1. s \in Octets /\ q \in Octets /\ p \in Octets /\ c = p ++ u
  <2>1. P ** Nil = P
    BY Zenon, ListsNil
  <2>2. Cut(c, s, hdr, P, q)
    BY Zenon, <2>1
  <2>3. s \in Octets /\ q \in Octets /\ hdr \in Octets /\ Ascending(0, P)
    BY Zenon, <2>2 DEF Cut
  <2>4. p \in Octets
    BY <2>3, ImageSplit
  <2> QED BY Zenon, <2>3, <2>4
<1>2. u ++ s = q
  BY RestAtEnd
<1>3. PICK i \in Nat : i = Size(p)
  BY <1>1, OctetsSize
<1>t. /\ pay # None => q = Byte(255) ++ pay /\ Size(pay) > 0
      /\ None \in Octets /\ p ++ None = p /\ None ++ s = s /\ None ++ None = None
  BY Zenon, <1>1, TrailIs, OctetsNone
<1>4. CASE u = None
  <2>1. c = p
    BY Zenon, <1>1, <1>4, <1>t
  <2>2. i >= Len(c)
    <3>1. Len(c) = i
      BY Zenon, <1>3, <2>1 DEF Size
    <3> QED BY SMT, <3>1
  <2>3. Examine(c, Open(i, n)) = Stage(i, n, None, Ok, Ok)
    <3> HIDE DEF n
    <3> QED BY <2>2, Examined
  <2>4. s = None => pay = None
    <3> SUFFICES ASSUME s = None, pay # None PROVE FALSE
      OBVIOUS
    <3>1. Byte(255) ++ pay = None
      BY Zenon, <1>2, <1>4, <1>t
    <3>2. Size(Byte(255) ++ pay) = 1 + Size(pay) /\ Size(pay) \in Nat
      <4>1. 255 \in Nat
        BY SMT
      <4>2. Byte(255) \in Octets /\ Size(Byte(255)) = 1
        BY <4>1, OctetsByte
      <4> HIDE DEF q
      <4> QED BY <4>2, OctetsCat, OctetsSize
    <3>3. Size(None) = 0
      BY OctetsNone
    <3> QED BY SMT, <3>1, <3>2, <3>3
  <2>5. Settled(c, s, hdr, P ** Nil, pay, Stage(i, Count(P), None, Ok, Ok))
    <3>1. Nil \in Lists /\ c = Before(hdr, P) /\ (s = None => Nil = Nil /\ pay = None)
      BY Zenon, <2>1, <2>4, ListsNil
    <3> HIDE DEF p, n, q
    <3> QED BY <3>1, SettledEnd
  <2> QED BY Zenon, <1>3, <2>3, <2>5
<1>5. CASE Size(u) > 0
  <2>1. 255 \in Nat /\ MARKER = 255
    BY SMT DEF MARKER
  <2>2. Byte(255) \in Octets /\ Size(Byte(255)) = 1
    BY <2>1, OctetsByte
  <2> DEFINE m == Byte(255)
  <2>m. m \in Octets /\ Size(m) = 1
    BY <2>2
  <2>3. pay # None
    <3> SUFFICES ASSUME pay = None PROVE FALSE
      OBVIOUS
    <3>1. u ++ s = None
      BY Zenon, <1>2, TrailIs
    <3>2. Size(u ++ s) = Size(u) + Size(s) /\ Size(u) \in Nat /\ Size(s) \in Nat
      BY <1>1, OctetsCat, OctetsSize
    <3>3. Size(None) = 0
      BY OctetsNone
    <3> QED BY SMT, <1>5, <3>1, <3>2, <3>3
  <2>4. m ++ pay = u ++ s /\ Size(pay) > 0
    BY Zenon, <1>2, <1>t, <2>3
  <2> HIDE DEF m, p, n, q
  <2>5. PICK v \in Octets : u = m ++ v /\ pay = v ++ s
    <3>1. Size(m) <= Size(u)
      <4>1. Size(u) \in Nat
        BY OctetsSize
      <4> QED BY SMT, <1>5, <2>m, <4>1
    <3>2. \E v \in Octets : u = m ++ v /\ pay = v ++ s
      BY <1>1, <2>m, <2>4, <3>1, Longer
    <3> QED BY Zenon, <3>2
  <2>6. At(c, i) = MARKER
    <3>1. At(p ++ (Byte(255) ++ v), Size(p)) = 255
      BY <1>1, <2>1, OctetsAt
    <3> QED BY Zenon, <1>1, <1>3, <2>1, <2>5, <3>1 DEF m
  <2>7. p ++ m \in Octets /\ Size(p ++ m) = i + 1 /\ c = (p ++ m) ++ v
    <3>1. p ++ m \in Octets /\ Size(p ++ m) = Size(p) + Size(m)
      BY <1>1, <2>m, OctetsCat
    <3>2. p ++ (m ++ v) = (p ++ m) ++ v
      BY <1>1, <2>m, OctetsAssoc
    <3> QED BY Zenon, <1>1, <1>3, <2>m, <2>5, <3>1, <3>2
  <2>8. SubSeq(c, i + 2, Len(c)) = v
    <3>1. SubSeq((p ++ m) ++ v, Size(p ++ m) + 1, Len((p ++ m) ++ v)) = v
      BY <2>7, EndOf
    <3>2. (i + 1) + 1 = i + 2
      BY SMT
    <3> QED BY Zenon, <2>7, <3>1, <3>2
  <2>9. PICK k \in Nat : k = Size(v) /\ Len(c) = (i + 1) + k
    <3>1. Size((p ++ m) ++ v) = Size(p ++ m) + Size(v) /\ Size(v) \in Nat
      BY <2>7, OctetsCat, OctetsSize
    <3> QED BY Zenon, <2>7, <3>1 DEF Size
  <2>10. ~(i >= Len(c)) /\ (i + 1 < Len(c) <=> k > 0)
    <3>1. ~(i >= (i + 1) + k) /\ (i + 1 < (i + 1) + k <=> k > 0)
      BY SMT
    <3> QED BY Zenon, <2>9, <3>1
  <2>11. Examine(c, Open(i, n)) = Stage(i, n, SubSeq(c, i + 2, Len(c)), i + 1 < Len(c), Ok)
    BY <2>6, <2>10, Examined
  <2>12. PICK x : x = (i + 1 < Len(c))
    OBVIOUS
  <2>13. x <=> Size(v) > 0
    BY Zenon, <2>9, <2>10, <2>12
  <2>14. Settled(c, s, hdr, P ** Nil, pay, Stage(i, Count(P), v, x, Ok))
    BY <1>1, <2>4, <2>5, <2>13, SettledPayload DEF p, q
  <2> QED BY Zenon, <1>3, <2>8, <2>11, <2>12, <2>14 DEF n, p
<1> QED BY <1>4, <1>5, SomeOrNone

-----------------------------------------------------------------------------
(* The round of validate at an option.                                       *)

(* A round of validate at an option: the bytes end before it, in it or      *)
(* behind it.                                                               *)
LEMMA ReadingOption ==
  ASSUME NEW c, NEW s, NEW hdr, NEW pay \in Octets, NEW P \in Lists, NEW o \in Held, NEW Q \in Lists,
         NEW u \in Octets, Cut(c, s, hdr, P ** (One(o) ** Q), Trail(pay)), c = Before(hdr, P) ++ u,
         Count(P) < Size(Before(hdr, P))
  PROVE  \/ Settled(c, s, hdr, P ** (One(o) ** Q), pay,
                    Examine(c, Open(Size(Before(hdr, P)), Count(P))))
         \/ Reading(c, hdr, P ** (One(o) ** Q), Count(P) + 1,
                    Examine(c, Open(Size(Before(hdr, P)), Count(P))))
<1> DEFINE p  == Before(hdr, P)
           n  == Count(P)
           os == P ** (One(o) ** Q)
           q  == Trail(pay)
<1>1. s \in Octets /\ p \in Octets /\ c = p ++ u
  <2>1. hdr \in Octets /\ q \in Octets /\ s \in Octets /\ Ascending(0, os)
    BY Zenon DEF Cut
  <2>2. Before(hdr, P) \in Octets
    BY <2>1, OptionIn
  <2> QED BY Zenon, <2>1, <2>2
<1>2. PICK d \in Uint16 : \E rest \in Octets :
        /\ o.value \in Octets /\ Len(o.value) <= 255
        /\ Option(d, o.value) \in Octets /\ Size(Option(d, o.value)) > 0
        /\ u ++ s = Option(d, o.value) ++ rest
        /\ Before(hdr, P ** One(o)) = Before(hdr, P) ++ Option(d, o.value)
  BY RestAtOption
<1> DEFINE f == Option(d, o.value)
<1>3. PICK rest \in Octets :
        /\ o.value \in Octets /\ Len(o.value) <= 255 /\ f \in Octets /\ Size(f) > 0
        /\ u ++ s = f ++ rest /\ Before(hdr, P ** One(o)) = p ++ f
  BY Zenon, <1>2
<1>f. f = Option(d, o.value)
  OBVIOUS
<1>4. PICK i \in Nat, k \in Nat, l \in Nat :
        i = Size(p) /\ k = Size(f) /\ l = Size(u) /\ n \in Nat /\ n < i /\ k > 0
  <2>1. Size(p) \in Nat /\ Size(f) \in Nat /\ Size(u) \in Nat /\ n \in Nat
    <3> HIDE DEF f, p, n
    <3>1. n \in Nat
      BY ListsCount DEF n
    <3> QED BY <1>1, <1>3, <3>1, OctetsSize
  <2> QED BY Zenon, <1>3, <2>1
<1>o. os = P ** (One(o) ** Q) /\ p = Before(hdr, P) /\ n = Count(P)
  OBVIOUS
<1> HIDE DEF f
<1>5. CASE u = None
  <2>1. c = p /\ f ++ rest = s
    <3>1. p ++ None = p /\ None ++ s = s
      BY Zenon, <1>1, OctetsNone
    <3> QED BY Zenon, <1>1, <1>3, <1>5, <3>1
  <2>2. s # None
    <3>1. Size(f ++ rest) = Size(f) + Size(rest) /\ Size(rest) \in Nat /\ Size(None) = 0
      BY <1>3, OctetsCat, OctetsSize, OctetsNone
    <3>2. Size(f ++ rest) # Size(None)
      BY SMT, <1>4, <3>1
    <3> QED BY Zenon, <2>1, <3>2
  <2>3. Examine(c, Open(i, n)) = Stage(i, n, None, Ok, Ok)
    <3>1. Len(c) = i
      BY Zenon, <1>4, <2>1 DEF Size
    <3>2. i >= Len(c)
      BY SMT, <3>1
    <3> HIDE DEF n
    <3> QED BY <3>2, Examined
  <2>4. Settled(c, s, hdr, os, pay, Stage(i, n, None, Ok, Ok))
    <3> DEFINE R == One(o) ** Q
    <3>1. R \in Lists
      BY ListsOne, ListsCat
    <3>2. Cut(c, s, hdr, P ** R, Trail(pay)) /\ c = Before(hdr, P) /\ (s = None => R = Nil /\ pay = None)
      BY Zenon, <2>1, <2>2
    <3> HIDE DEF R
    <3>3. Settled(c, s, hdr, P ** R, pay, Stage(i, Count(P), None, Ok, Ok))
      BY <3>1, <3>2, SettledEnd
    <3> QED BY Zenon, <3>3 DEF R
  <2> QED BY Zenon, <1>4, <2>3, <2>4
<1>6. CASE Size(u) > 0 /\ l < k
  <2>1. PICK x \in Octets : f = u ++ x /\ s = x ++ rest
    <3>1. Size(u) <= Size(f)
      BY SMT, <1>4, <1>6
    <3>2. \E x \in Octets : f = u ++ x /\ s = x ++ rest
      BY <1>1, <1>3, <3>1, Longer
    <3> QED BY Zenon, <3>2
  <2>2. Size(x) > 0 /\ Size(x) \in Nat
    <3>1. Size(u ++ x) = Size(u) + Size(x) /\ Size(x) \in Nat
      BY OctetsCat, OctetsSize
    <3>2. k = l + Size(x)
      BY Zenon, <1>4, <2>1, <3>1
    <3> QED BY SMT, <1>6, <3>1, <3>2
  <2>3. s # None
    <3>1. Size(x ++ rest) = Size(x) + Size(rest) /\ Size(rest) \in Nat /\ Size(None) = 0
      BY OctetsCat, OctetsSize, OctetsNone
    <3>2. Size(x ++ rest) # Size(None)
      BY SMT, <2>2, <3>1
    <3> QED BY Zenon, <2>1, <3>2
  <2>4. Malformed(c, i) /\ ~(i >= Len(c)) /\ At(c, i) # MARKER
    <3> DEFINE v == o.value
    <3>1. v \in Octets /\ Len(v) <= 255 /\ Option(d, v) = u ++ x
      BY Zenon, <1>3, <1>f, <2>1
    <3> HIDE DEF v, p
    <3>2. /\ Malformed(p ++ u, Size(p)) /\ ~(Size(p) >= Len(p ++ u))
          /\ At(p ++ u, Size(p)) # MARKER
      BY <1>1, <1>6, <2>2, <3>1, OptionCut
    <3> QED BY Zenon, <1>1, <1>4, <3>2
  <2>5. Examine(c, Open(i, n)) = Stage(i, n, None, Refused, Ok)
    <3> HIDE DEF n
    <3> QED BY <2>4, Examined
  <2>6. Settled(c, s, hdr, os, pay, Stage(i, n, None, Refused, Ok))
    <3> HIDE DEF os, n
    <3> QED BY <2>3, SettledBroken
  <2> QED BY Zenon, <1>4, <2>5, <2>6
<1>7. CASE ~(l < k)
  <2>1. PICK v \in Octets : u = f ++ v
    <3>1. Size(f) <= Size(u)
      BY SMT, <1>4, <1>7
    <3>2. \E v \in Octets : u = f ++ v /\ rest = v ++ s
      BY <1>1, <1>3, <3>1, Longer
    <3> QED BY Zenon, <3>2
  <2>2. /\ ~Malformed(c, i) /\ At(c, i) # MARKER /\ ~(i >= Len(c))
        /\ OptionAt(c, i, 0).total = k
    <3> DEFINE x == o.value
    <3>1. x \in Octets /\ Len(x) <= 255 /\ Option(d, x) = f
      BY Zenon, <1>3, <1>f
    <3> HIDE DEF x, p
    <3>2. /\ ~Malformed(p ++ (Option(d, x) ++ v), Size(p))
          /\ OptionAt(p ++ (Option(d, x) ++ v), Size(p), 0).total = Size(Option(d, x))
          /\ At(p ++ (Option(d, x) ++ v), Size(p)) # MARKER
          /\ ~(Size(p) >= Len(p ++ (Option(d, x) ++ v)))
      BY <1>1, <3>1, OptionWhole
    <3>3. c = p ++ (Option(d, x) ++ v)
      BY Zenon, <1>1, <2>1, <3>1
    <3> QED BY Zenon, <1>4, <3>1, <3>2, <3>3
  <2>3. Examine(c, Open(i, n)) = Open(i + k, n + 1)
    <3>1. Examine(c, Open(i, n)) = Open(i + OptionAt(c, i, 0).total, n + 1)
      <4> HIDE DEF n
      <4> QED BY <2>2, Examined
    <3> QED BY Zenon, <2>2, <3>1
  <2>4. Reading(c, hdr, os, n + 1, Open(i + k, n + 1))
    <3> DEFINE N == P ** One(o)
    <3>1. One(o) \in Lists /\ N \in Lists /\ Count(N) = n + 1
      <4>1. One(o) \in Lists /\ Count(One(o)) = 1
        BY ListsOne
      <4>2. P ** One(o) \in Lists /\ Count(P ** One(o)) = Count(P) + Count(One(o))
        BY <4>1, ListsCat
      <4> QED BY Zenon, <4>1, <4>2
    <3>2. os = N ** Q
      BY <3>1, ListsAssoc
    <3>3. Size(Before(hdr, N)) = i + k /\ c = Before(hdr, N) ++ v
      <4> HIDE DEF p
      <4>1. Size(p ++ f) = Size(p) + Size(f) /\ (p ++ f) ++ v = p ++ (f ++ v)
        BY <1>1, <1>3, OctetsCat, OctetsAssoc
      <4> QED BY Zenon, <1>1, <1>3, <1>4, <2>1, <4>1
    <3>4. n + 1 < i + k
      <4> HIDE DEF n
      <4> QED BY SMT, <1>4
    <3>5. v \in Octets
      OBVIOUS
    <3> HIDE DEF N, os
    <3> QED BY Zenon, <3>1, <3>2, <3>3, <3>4, <3>5 DEF Reading
  <2> QED BY Zenon, <1>4, <2>3, <2>4
<1> QED BY Zenon, <1>5, <1>6, <1>7, SomeOrNone

LEMMA ReadingSteps ==
  ASSUME NEW c, NEW s, NEW hdr, NEW os, NEW pay \in Octets, NEW k, NEW w,
         Cut(c, s, hdr, os, Trail(pay)), Reading(c, hdr, os, k, w)
  PROVE  Settled(c, s, hdr, os, pay, Examine(c, w)) \/ Reading(c, hdr, os, k + 1, Examine(c, w))
<1>1. PICK P \in Lists, R \in Lists, u \in Octets :
        /\ os = P ** R /\ k = Count(P) /\ k < Size(Before(hdr, P))
        /\ c = Before(hdr, P) ++ u /\ w = Open(Size(Before(hdr, P)), k)
  BY Zenon DEF Reading
<1>2. CASE R = Nil
  <2>1. Cut(c, s, hdr, P ** Nil, Trail(pay)) /\ c = Before(hdr, P) ++ u
    BY Zenon, <1>1, <1>2
  <2>2. Settled(c, s, hdr, P ** Nil, pay, Examine(c, Open(Size(Before(hdr, P)), Count(P))))
    BY <2>1, ReadingEnd
  <2> QED BY Zenon, <1>1, <1>2, <2>2
<1>3. ASSUME NEW o \in Held, NEW Q \in Lists, R = One(o) ** Q
      PROVE  Settled(c, s, hdr, os, pay, Examine(c, w)) \/ Reading(c, hdr, os, k + 1, Examine(c, w))
  <2>1. /\ Cut(c, s, hdr, P ** (One(o) ** Q), Trail(pay)) /\ c = Before(hdr, P) ++ u
        /\ Count(P) < Size(Before(hdr, P))
    BY Zenon, <1>1, <1>3
  <2>2. \/ Settled(c, s, hdr, P ** (One(o) ** Q), pay,
                   Examine(c, Open(Size(Before(hdr, P)), Count(P))))
        \/ Reading(c, hdr, P ** (One(o) ** Q), Count(P) + 1,
                   Examine(c, Open(Size(Before(hdr, P)), Count(P))))
    BY <2>1, ReadingOption
  <2> QED BY Zenon, <1>1, <1>3, <2>2
<1> QED BY Zenon, <1>2, <1>3, ListsFirst

-----------------------------------------------------------------------------
(* All rounds of validate.                                                   *)

(* One round of the loop of validate.                                       *)
LEMMA CheckKeeps ==
  ASSUME NEW c, NEW s, NEW hdr, NEW os, NEW pay \in Octets, Cut(c, s, hdr, os, Trail(pay)), NEW k, NEW w,
         Settled(c, s, hdr, os, pay, w) \/ Reading(c, hdr, os, k, w)
  PROVE  \/ Settled(c, s, hdr, os, pay, CheckStep(c, w))
         \/ Reading(c, hdr, os, k + 1, CheckStep(c, w))
<1>1. CASE Settled(c, s, hdr, os, pay, w)
  <2>1. w.done
    BY Zenon, <1>1 DEF Settled
  <2>2. CheckStep(c, w) = w
    BY Zenon, <2>1 DEF CheckStep
  <2> QED BY Zenon, <1>1, <2>2
<1>2. CASE Reading(c, hdr, os, k, w)
  <2>1. \E i : w = Open(i, k)
    BY Zenon, <1>2 DEF Reading
  <2>2. PICK i : w = Open(i, k)
    BY <2>1
  <2>3. w.done = Refused
    <3>1. Stage(i, k, None, Refused, Refused).done = Refused
      BY StageParts
    <3> QED BY Zenon, <2>2, <3>1 DEF Open
  <2>4. ~w.done
    BY Zenon, <2>3 DEF Refused
  <2>5. CheckStep(c, w) = Examine(c, w)
    BY Zenon, <2>4 DEF CheckStep
  <2>6. Settled(c, s, hdr, os, pay, Examine(c, w)) \/ Reading(c, hdr, os, k + 1, Examine(c, w))
    BY <1>2, ReadingSteps
  <2> QED BY Zenon, <2>5, <2>6
<1> QED BY Zenon, <1>1, <1>2

(* There are not as many options as bytes.                                  *)
LEMMA ReadingShort ==
  ASSUME NEW c, NEW s, NEW hdr, NEW os, NEW q, Cut(c, s, hdr, os, q), NEW k, NEW w,
         Reading(c, hdr, os, k, w)
  PROVE  k < Len(c)
<1>1. PICK P \in Lists, R \in Lists, u \in Octets :
        os = P ** R /\ k = Count(P) /\ k < Size(Before(hdr, P)) /\ c = Before(hdr, P) ++ u
  BY Zenon DEF Reading
<1>2. hdr \in Octets /\ Ascending(0, os)
  BY Zenon DEF Cut
<1>3. Ascending(0, P)
  BY <1>1, <1>2, AscendingCat
<1>4. Before(hdr, P) \in Octets
  BY <1>2, <1>3, ImageNone
<1> DEFINE p == Before(hdr, P)
<1>5. p \in Octets /\ k < Size(p) /\ c = p ++ u
  BY Zenon, <1>1, <1>4
<1> HIDE DEF p
<1>6. Size(p ++ u) = Size(p) + Size(u) /\ Size(p) \in Nat /\ Size(u) \in Nat
  BY <1>5, OctetsCat, OctetsSize
<1>7. Len(c) = Size(p) + Size(u)
  BY Zenon, <1>5, <1>6 DEF Size
<1>8. k \in Nat
  BY <1>1, ListsCount
<1> QED BY SMT, <1>5, <1>6, <1>7, <1>8

(* validate of what it takes for a datagram.                                *)
LEMMA CheckEnds ==
  ASSUME NEW c, NEW s, NEW hdr, NEW os, NEW pay \in Octets, Cut(c, s, hdr, os, Trail(pay)),
         Reading(c, hdr, os, 0, CheckStart(c))
  PROVE  Settled(c, s, hdr, os, pay, Validate(c))
<1>1. PICK n \in Nat : n = Len(c)
  <2>1. c \in Octets
    BY Zenon DEF Cut
  <2>2. Size(c) \in Nat
    BY <2>1, OctetsSize
  <2> QED BY Zenon, <2>2 DEF Size
<1>2. PICK f : /\ Validate(c) = f[n] /\ f[0] = CheckStart(c)
               /\ \A k \in 0 .. n : k # 0 => f[k] = CheckStep(c, f[k - 1])
  <2>1. Len(c) \in Nat
    BY <1>1
  <2>2. \E f : /\ Validate(c) = f[Len(c)]
                /\ f[0] = CheckStart(c)
                /\ \A k \in 0 .. Len(c) : k # 0 => f[k] = CheckStep(c, f[k - 1])
    BY <2>1, CheckIs
  <2> QED BY Zenon, <1>1, <2>2
<1> DEFINE Good(k) == Settled(c, s, hdr, os, pay, f[k]) \/ Reading(c, hdr, os, k, f[k])
           T == {k \in Nat : k <= n => Good(k)}
<1>3. 0 \in T
  BY Zenon, <1>2
<1>4. ASSUME NEW k \in Nat, k \in T PROVE k + 1 \in T
  <2>1. SUFFICES ASSUME k + 1 <= n PROVE Good(k + 1)
    BY SMT
  <2>2. k <= n /\ k + 1 \in 0 .. n /\ k + 1 # 0 /\ (k + 1) - 1 = k
    BY SMT, <2>1
  <2>3. Settled(c, s, hdr, os, pay, f[k]) \/ Reading(c, hdr, os, k, f[k])
    BY Zenon, <1>4, <2>2
  <2>4. f[k + 1] = CheckStep(c, f[k])
    BY Zenon, <1>2, <2>2
  <2>5. \/ Settled(c, s, hdr, os, pay, CheckStep(c, f[k]))
        \/ Reading(c, hdr, os, k + 1, CheckStep(c, f[k]))
    BY <2>3, CheckKeeps
  <2> QED BY Zenon, <2>4, <2>5
<1> HIDE DEF T
<1>5. \A k \in Nat : k \in T
  BY <1>3, <1>4, Induction
<1>6. Good(n)
  <2>1. n <= n
    BY SMT
  <2> QED BY Zenon, <1>5, <2>1 DEF T
<1>7. ~Reading(c, hdr, os, n, f[n])
  <2> SUFFICES ASSUME Reading(c, hdr, os, n, f[n]) PROVE FALSE
    OBVIOUS
  <2>1. n < Len(c)
    BY ReadingShort
  <2> QED BY SMT, <1>1, <2>1
<1> QED BY Zenon, <1>2, <1>6, <1>7

(* validate of what it does not.                                            *)
LEMMA CheckRefuses ==
  ASSUME NEW c, Len(c) \in Nat, Unsound(c)
  PROVE  ~Validate(c).ok
<1>1. PICK f : /\ Validate(c) = f[Len(c)] /\ f[0] = CheckStart(c)
               /\ \A k \in 0 .. Len(c) : k # 0 => f[k] = CheckStep(c, f[k - 1])
  <2>2. \E f : /\ Validate(c) = f[Len(c)]
                /\ f[0] = CheckStart(c)
                /\ \A k \in 0 .. Len(c) : k # 0 => f[k] = CheckStep(c, f[k - 1])
    BY CheckIs
  <2> QED BY Zenon, <2>2
<1>2. CheckStart(c).done /\ ~CheckStart(c).ok
  BY Zenon DEF CheckStart
<1> DEFINE T == {k \in Nat : k <= Len(c) => f[k] = CheckStart(c)}
<1>3. 0 \in T
  BY Zenon, <1>1
<1>4. ASSUME NEW k \in Nat, k \in T PROVE k + 1 \in T
  <2>1. SUFFICES ASSUME k + 1 <= Len(c) PROVE f[k + 1] = CheckStart(c)
    BY SMT
  <2>2. k <= Len(c) /\ k + 1 \in 0 .. Len(c) /\ k + 1 # 0 /\ (k + 1) - 1 = k
    BY SMT, <2>1
  <2>3. f[k + 1] = CheckStep(c, f[k]) /\ f[k] = CheckStart(c)
    BY Zenon, <1>1, <1>4, <2>2
  <2> QED BY Zenon, <1>2, <2>3 DEF CheckStep
<1> HIDE DEF T
<1>5. \A k \in Nat : k \in T
  BY <1>3, <1>4, Induction
<1>6. f[Len(c)] = CheckStart(c)
  <2>1. Len(c) <= Len(c)
    BY SMT
  <2> QED BY Zenon, <1>5, <2>1 DEF T
<1> QED BY Zenon, <1>1, <1>2, <1>6

-----------------------------------------------------------------------------
(* The header, and what validate returns.                                    *)

(* Where the loop of validate starts, if it is not refused at once.         *)
LEMMA StartIs ==
  ASSUME NEW c, ~Unsound(c)
  PROVE  /\ CheckStart(c) = Open(HDR + TokenLength(c), 0)
         /\ ~(Len(c) < HDR) /\ ~(HDR + TokenLength(c) > Len(c))
<1>1. Unsound(c) = FALSE
  BY SMT DEF Unsound
<1>2. CheckStart(c) = [at |-> HDR + TokenLength(c), num |-> 0, payload |-> << >>, ok |-> FALSE, done |-> FALSE]
  BY Zenon, <1>1 DEF CheckStart
<1>3. CheckStart(c) = Open(HDR + TokenLength(c), 0)
  BY Zenon, <1>2 DEF Open, Stage, None, Refused
<1>4. ~(Len(c) < HDR) /\ ~(HDR + TokenLength(c) > Len(c))
  BY Zenon DEF Unsound
<1> QED BY Zenon, <1>3, <1>4

LEMMA ReadingStart ==
  ASSUME NEW token \in Octets, Size(token) <= 8, NEW c, NEW s, NEW os, NEW q,
         Cut(c, s, Hdr(token), os, q), ~Unsound(c)
  PROVE  Reading(c, Hdr(token), os, 0, CheckStart(c))
<1> DEFINE hdr == Hdr(token)
<1>1. /\ hdr \in Octets /\ Size(hdr) = 4 + Size(token)
      /\ \A x \in Octets : TokenLength(hdr ++ x) = Size(token)
  BY HdrIs
<1>2. /\ c \in Octets /\ s \in Octets /\ q \in Octets /\ os \in Lists /\ Ascending(0, os)
      /\ c ++ s = Image(hdr, os, q)
  BY Zenon DEF Cut
<1>3. /\ CheckStart(c) = Open(HDR + TokenLength(c), 0)
      /\ ~(Len(c) < HDR) /\ ~(HDR + TokenLength(c) > Len(c))
  BY StartIs
<1> DEFINE x == Fields(0, os) ++ q
<1>4. x \in Octets /\ c ++ s = hdr ++ x
  <2>1. Fields(0, os) \in Octets
    BY <1>2, FieldsIn, ZeroIn
  <2>2. Fields(0, os) ++ q \in Octets
    BY <1>2, <2>1, OctetsCat
  <2> QED BY Zenon, <1>2, <2>2 DEF Image
<1> HIDE DEF hdr, x
<1>5. PICK n \in Nat, m \in Nat : n = Size(token) /\ m = Size(c)
  BY <1>2, OctetsSize
<1>6. m > 0
  <2>1. Len(c) = m /\ HDR = 4
    BY Zenon, <1>5 DEF Size, HDR
  <2> QED BY SMT, <1>3, <2>1
<1>7. TokenLength(c) = n
  <2>1. TokenLength(c ++ s) = n
    BY Zenon, <1>1, <1>4, <1>5
  <2>2. Size(c) > 0
    BY Zenon, <1>5, <1>6
  <2>3. At(c ++ s, 0) = At(c, 0)
    BY <1>2, <2>2, HeadKept
  <2> QED BY Zenon, <2>1, <2>3 DEF TokenLength
<1>8. HDR + n = 4 + n
  BY SMT DEF HDR
<1>9. Size(hdr) = 4 + n /\ Size(hdr) <= Size(c)
  <2>1. ~(4 + n > m)
    BY Zenon, <1>3, <1>5, <1>7, <1>8 DEF Size
  <2>2. 4 + n <= m
    BY SMT, <2>1
  <2> QED BY Zenon, <1>1, <1>5, <2>2
<1>10. PICK u \in Octets : c = hdr ++ u
  <2>1. hdr ++ x = c ++ s
    BY Zenon, <1>4
  <2>2. \E v \in Octets : c = hdr ++ v /\ x = v ++ s
    BY <1>1, <1>2, <1>4, <1>9, <2>1, Longer
  <2> QED BY Zenon, <2>2
<1>11. Before(hdr, Nil) = hdr
  <2>1. Fields(0, Nil) = None
    BY Zenon, FieldsStep
  <2> QED BY Zenon, <1>1, <2>1, OctetsNone DEF Before
<1>12. os = Nil ** os /\ Nil \in Lists /\ Count(Nil) = 0
  BY Zenon, <1>2, ListsNil
<1>13. 0 < 4 + n
  BY SMT
<1>14. CheckStart(c) = Open(Size(Before(hdr, Nil)), 0)
  BY Zenon, <1>3, <1>7, <1>8, <1>9, <1>11
<1>15. Reading(c, hdr, os, 0, CheckStart(c))
  BY Zenon, <1>2, <1>9, <1>10, <1>11, <1>12, <1>13, <1>14 DEF Reading
<1> QED BY Zenon, <1>15 DEF hdr

(* validate finds nothing wrong with a header that mbtk_coap.cpp has built. *)
LEMMA WholeSound ==
  ASSUME NEW token \in Octets, Size(token) <= 8, NEW c, NEW os, NEW q, Cut(c, None, Hdr(token), os, q)
  PROVE  ~Unsound(c)
<1> DEFINE hdr == Hdr(token)
           x   == Fields(0, os) ++ q
<1>1. hdr \in Octets /\ Size(hdr) = 4 + Size(token)
  BY HdrIs
<1>2. x \in Octets /\ c = hdr ++ x
  <2>1. c \in Octets /\ q \in Octets /\ os \in Lists /\ Ascending(0, os) /\ c ++ None = Image(hdr, os, q)
    BY Zenon DEF Cut
  <2>2. Fields(0, os) \in Octets
    BY <2>1, FieldsIn, ZeroIn
  <2>3. Fields(0, os) ++ q \in Octets
    BY <2>1, <2>2, OctetsCat
  <2>4. c ++ None = c
    BY Zenon, <2>1, OctetsNone
  <2> QED BY Zenon, <2>1, <2>3, <2>4 DEF Image
<1>3. c \in Seq(Nat) /\ Len(c) >= 4 /\ c[1] = 64 + Len(token) /\ c[2] = 1
  <2> HIDE DEF x
  <2>1. LET b == Hdr(token) ++ x IN
         b \in Seq(Nat) /\ Len(b) >= 4 /\ b[1] = 64 + Len(token) /\ b[2] = 1 /\ b[3] = 1 /\ b[4] = 2
    BY <1>2, HdrBytes
  <2> QED BY Zenon, <1>2, <2>1
<1>4. Len(c) = 4 + Size(token) + Size(x) /\ Size(x) \in Nat
  <2> HIDE DEF x, hdr
  <2>1. Size(hdr ++ x) = Size(hdr) + Size(x) /\ Size(x) \in Nat
    BY <1>1, <1>2, OctetsCat, OctetsSize
  <2> QED BY Zenon, <1>1, <1>2, <2>1 DEF Size
<1> HIDE DEF hdr, x
<1>5. PICK n \in Nat, l \in Nat : n = Size(token) /\ n = Len(token) /\ n <= 8 /\ l = Len(c)
  <2>1. Size(token) \in Nat /\ Len(c) \in Nat
    BY <1>3, OctetsSize
  <2> QED BY Zenon, <2>1 DEF Size
<1>6. PICK m \in Nat : m = Size(x)
  BY <1>4
<1>7. l >= 4 /\ l = 4 + n + m
  BY Zenon, <1>3, <1>4, <1>5, <1>6
<1>8. At(c, 0) = 64 + n /\ At(c, 1) = 1
  <2>1. c[1] = 64 + n /\ c[2] = 1 /\ Len(c) >= 4
    BY Zenon, <1>3, <1>5
  <2> QED BY SMT, <1>3, <2>1 DEF At
<1>9. (64 + n) \div 64 = 1 /\ (64 + n) % 16 = n
  BY SMT, <1>5
<1>10. Version(c) = 1 /\ TokenLength(c) = n /\ Code(c) = 1
  BY Zenon, <1>8, <1>9 DEF Version, TokenLength, Code
<1>11. ValidCode(1)
  BY SMT DEF ValidCode
<1>12. ~(l < 4) /\ ~(n > 8) /\ ~(4 + n > l)
  BY SMT, <1>5, <1>7
<1> QED BY Zenon, <1>5, <1>10, <1>11, <1>12 DEF Unsound, HDR

(* validate of a datagram, or of what is left of one that is cut.           *)
LEMMA Validated ==
  ASSUME NEW token \in Octets, Size(token) <= 8, NEW c, NEW s, NEW os, NEW pay \in Octets,
         Cut(c, s, Hdr(token), os, Trail(pay))
  PROVE  /\ s = None => /\ Validate(c).ok /\ Validate(c).num = Count(os)
                        /\ Validate(c).payload = pay
         /\ Validate(c).ok =>
              /\ Validate(c).payload \in Octets /\ \E z \in Octets : pay = Validate(c).payload ++ z
              /\ \E P \in Lists, R \in Lists, y \in Octets :
                   os = P ** R /\ Validate(c).num = Count(P) /\ c = Image(Hdr(token), P, y)
<1>1. CASE Unsound(c)
  <2>1. Len(c) \in Nat
    <3>1. c \in Octets
      BY Zenon DEF Cut
    <3>2. Size(c) \in Nat
      BY <3>1, OctetsSize
    <3> QED BY Zenon, <3>2 DEF Size
  <2>2. ~Validate(c).ok
    BY <1>1, <2>1, CheckRefuses
  <2>3. s # None
    <3> SUFFICES ASSUME s = None PROVE FALSE
      OBVIOUS
    <3>1. Cut(c, None, Hdr(token), os, Trail(pay))
      BY Zenon
    <3>2. ~Unsound(c)
      BY <3>1, WholeSound
    <3> QED BY <1>1, <3>2
  <2> QED BY Zenon, <2>2, <2>3
<1>2. CASE ~Unsound(c)
  <2>1. Reading(c, Hdr(token), os, 0, CheckStart(c))
    BY <1>2, ReadingStart
  <2>2. Settled(c, s, Hdr(token), os, pay, Validate(c))
    BY <2>1, CheckEnds
  <2> QED BY Zenon, <2>2 DEF Settled
<1> QED BY Zenon, <1>1, <1>2

-----------------------------------------------------------------------------
(* The receiver reads the content.                                           *)

LEMMA BeginningOf ==
  ASSUME NEW S, NEW x \in Seq(S), NEW y \in Seq(S)
  PROVE  IsBeginning(x, x \o y)
<1>1. Len(x) <= Len(x \o y)
  BY SMT
<1>2. x = SubSeq(x \o y, 1, Len(x))
  BY SMT
<1> QED BY Zenon, <1>1, <1>2 DEF IsBeginning

LEMMA Begins ==
  /\ \A v \in Octets, z \in Octets : IsBeginning(v, v ++ z)
  /\ \A P \in Lists, R \in Lists : IsBeginning(P, P ** R)
<1>1. ASSUME NEW v \in Octets, NEW z \in Octets PROVE IsBeginning(v, v ++ z)
  <2>1. v \in Seq(Nat) /\ z \in Seq(Nat)
    BY Zenon DEF Octets
  <2>2. IsBeginning(v, v \o z)
    BY <2>1, BeginningOf
  <2> QED BY Zenon, <2>2 DEF ++
<1>2. ASSUME NEW P \in Lists, NEW R \in Lists PROVE IsBeginning(P, P ** R)
  <2> DEFINE H == Held
  <2>1. P \in Seq(H) /\ R \in Seq(H)
    BY Zenon DEF Lists
  <2> HIDE DEF H
  <2>2. IsBeginning(P, P \o R)
    BY <2>1, BeginningOf
  <2> QED BY Zenon, <2>2 DEF **
<1> QED BY Zenon, <1>1, <1>2

(* A datagram cut behind its first n bytes.                                 *)
LEMMA CutAt ==
  ASSUME NEW b \in Octets, NEW n \in Nat, n <= Len(b)
  PROVE  \E c \in Octets, s \in Octets : b = c ++ s /\ SubSeq(b, 1, n) = c
<1>1. PICK e \in Nat : Size(b) = n + e
  <2>1. Size(b) \in Nat /\ Size(b) = Len(b)
    BY OctetsSize DEF Size
  <2>2. Len(b) - n \in Nat /\ Size(b) = n + (Len(b) - n)
    BY SMT, <2>1
  <2> QED BY Zenon, <2>2
<1>2. PICK c \in Octets, s \in Octets : Size(c) = n /\ b = c ++ s
  <2>1. \E u \in Octets, v \in Octets : Size(u) = n /\ Size(v) = e /\ b = u ++ v
    BY <1>1, OctetsSplit
  <2> QED BY Zenon, <2>1
<1>3. IsBeginning(c, b)
  BY Zenon, <1>2, Begins
<1>4. c = SubSeq(b, 1, n)
  BY Zenon, <1>2, <1>3 DEF IsBeginning, Size
<1> QED BY Zenon, <1>2, <1>4

(* The getters give back the options that were encoded.                     *)
LEMMA OptionsRead ==
  ASSUME NEW hdr, Headed(hdr), NEW P \in Lists, Ascending(0, P), NEW y \in Octets
  PROVE  Options(Image(hdr, P, y), Count(P)) = P
<1>1. hdr \in Octets
  BY Zenon DEF Headed
<1>2. HDR + TokenLength(Image(hdr, P, y)) = Size(hdr)
  BY HeadedImage
<1>3. Walk(Image(hdr, P, y), Count(P))
         = [at |-> Size(Before(hdr, P)), number |-> Last(0, P), options |-> P]
  BY <1>1, <1>2, WalkReads
<1> DEFINE x == Size(Before(hdr, P))
           l == Last(0, P)
<1> HIDE DEF x, l
<1>4. [at |-> x, number |-> l, options |-> P].options = P
  BY SMT
<1> QED BY Zenon, <1>3, <1>4 DEF Options, x, l

(* What validate and the getters make of a datagram, or of what is left of  *)
(* one that is cut.                                                         *)
LEMMA ReceivedIs ==
  ASSUME NEW token \in Octets, Size(token) <= 8, NEW c, NEW s, NEW os, NEW pay \in Octets,
         Cut(c, s, Hdr(token), os, Trail(pay))
  PROVE  /\ s = None => /\ Validate(c).ok /\ Validate(c).payload = pay
                        /\ Options(c, Validate(c).num) = os
         /\ Validate(c).ok => /\ IsBeginning(Options(c, Validate(c).num), os)
                              /\ IsBeginning(Validate(c).payload, pay)
<1> DEFINE hdr == Hdr(token)
           r   == Validate(c)
<1>1. Headed(hdr)
  BY HdrIs
<1>2. /\ s = None => r.ok /\ r.num = Count(os) /\ r.payload = pay
      /\ r.ok => /\ r.payload \in Octets /\ \E z \in Octets : pay = r.payload ++ z
                 /\ \E P \in Lists, R \in Lists, y \in Octets :
                      os = P ** R /\ r.num = Count(P) /\ c = Image(hdr, P, y)
  BY Validated
<1>3. /\ c \in Octets /\ s \in Octets /\ os \in Lists /\ Ascending(0, os)
      /\ Trail(pay) \in Octets /\ c ++ s = Image(hdr, os, Trail(pay))
  BY Zenon DEF Cut
<1> HIDE DEF hdr, r
<1>4. s = None => r.ok /\ r.payload = pay /\ Options(c, r.num) = os
  <2>1. Options(Image(hdr, os, Trail(pay)), Count(os)) = os
    BY <1>1, <1>3, OptionsRead
  <2>2. c ++ None = c
    BY Zenon, <1>3, OctetsNone
  <2> QED BY Zenon, <1>2, <1>3, <2>1, <2>2
<1>5. r.ok => IsBeginning(Options(c, r.num), os) /\ IsBeginning(r.payload, pay)
  <2> SUFFICES ASSUME r.ok PROVE IsBeginning(Options(c, r.num), os) /\ IsBeginning(r.payload, pay)
    OBVIOUS
  <2>1. IsBeginning(r.payload, pay)
    BY Zenon, <1>2, Begins
  <2>2. PICK P \in Lists, R \in Lists, y \in Octets :
          os = P ** R /\ r.num = Count(P) /\ c = Image(hdr, P, y)
    BY Zenon, <1>2
  <2>3. Ascending(0, P)
    <3>1. Ascending(0, P ** R)
      BY Zenon, <1>3, <2>2
    <3> QED BY <3>1, AscendingCat
  <2>4. Options(Image(hdr, P, y), Count(P)) = P
    BY <1>1, <2>3, OptionsRead
  <2>5. IsBeginning(P, P ** R)
    BY Begins
  <2> QED BY Zenon, <2>1, <2>2, <2>4, <2>5
<1> QED BY Zenon, <1>4, <1>5 DEF r

LEMMA Reads == ASSUME IInv PROVE ReceiverReads
<1> SUFFICES ASSUME regular
             PROVE  /\ LET r == Validate(pdu) IN
                       /\ r.ok /\ r.payload = content.payload
                       /\ Options(pdu, r.num) = content.options
                    /\ \A n \in HDR .. Len(pdu) :
                         LET cut == SubSeq(pdu, 1, n)
                             r   == Validate(cut)
                         IN
                         r.ok => /\ IsBeginning(Options(cut, r.num), content.options)
                                 /\ IsBeginning(r.payload, content.payload)
  BY Zenon DEF ReceiverReads, ReadsWhole, CutIsPrefix
<1>1. Stands(pdu, num, payload, content)
  BY Zenon DEF IInv
<1> DEFINE token == content.token
           os    == content.options
           pay   == content.payload
<1>2. Size(token) <= 8
  BY Zenon, <1>1 DEF Stands
<1>3. /\ token \in Octets /\ os \in Lists /\ pay \in Octets /\ Hdr(token) \in Octets
      /\ Trail(pay) \in Octets /\ Ascending(0, os) /\ pdu = Image(Hdr(token), os, Trail(pay))
  <2>1. /\ content \in Contents /\ content.token \in Octets /\ content.options \in Lists /\ content.payload \in Octets
         /\ Headed(Hdr(content.token)) /\ Hdr(content.token) \in Octets /\ Trail(content.payload) \in Octets
         /\ Ascending(0, content.options) /\ num = Count(content.options) /\ num \in Nat
         /\ HDR + TokenLength(pdu) = Size(Hdr(content.token))
         /\ pdu = Image(Hdr(content.token), content.options, Trail(content.payload)) /\ Size(pdu) <= Capacity
         /\ Fitting(Hdr(content.token), content.options, Trail(content.payload), Count(content.options))
    BY <1>1, StandsParts
  <2> QED BY Zenon, <2>1
<1> HIDE DEF token, os, pay
<1>4. pdu \in Octets
  <2>1. Image(Hdr(token), os, Trail(pay)) = Before(Hdr(token), os) ++ Trail(pay) /\ Before(Hdr(token), os) \in Octets
    BY <1>3, ImageSplit
  <2> DEFINE p == Before(Hdr(token), os)
             q == Trail(pay)
  <2>2. p \in Octets /\ q \in Octets /\ pdu = p ++ q
    BY Zenon, <1>3, <2>1
  <2> HIDE DEF p, q
  <2>3. p ++ q \in Octets
    BY <2>2, OctetsCat
  <2> QED BY Zenon, <2>2, <2>3
<1>5. ASSUME NEW c \in Octets, NEW s \in Octets, pdu = c ++ s
      PROVE  Cut(c, s, Hdr(token), os, Trail(pay))
  BY Zenon, <1>3, <1>5 DEF Cut
<1>6. Validate(pdu).ok /\ Validate(pdu).payload = pay /\ Options(pdu, Validate(pdu).num) = os
  <2>1. None \in Octets /\ pdu = pdu ++ None
    BY Zenon, <1>4, OctetsNone
  <2>2. Cut(pdu, None, Hdr(token), os, Trail(pay))
    BY <1>4, <1>5, <2>1
  <2>3. None = None => /\ Validate(pdu).ok /\ Validate(pdu).payload = pay
                       /\ Options(pdu, Validate(pdu).num) = os
    BY <1>2, <1>3, <2>2, ReceivedIs
  <2> QED BY <2>3
<1>7. ASSUME NEW n \in HDR .. Len(pdu), Validate(SubSeq(pdu, 1, n)).ok
      PROVE  /\ IsBeginning(Options(SubSeq(pdu, 1, n), Validate(SubSeq(pdu, 1, n)).num), os)
             /\ IsBeginning(Validate(SubSeq(pdu, 1, n)).payload, pay)
  <2>1. n \in Nat /\ n <= Len(pdu)
    <3>1. Len(pdu) \in Nat
      <4>1. Size(pdu) \in Nat
        BY <1>4, OctetsSize
      <4> QED BY Zenon, <4>1 DEF Size
    <3> QED BY SMT, <3>1 DEF HDR
  <2>2. \E c \in Octets, s \in Octets : pdu = c ++ s /\ SubSeq(pdu, 1, n) = c
    BY <1>4, <2>1, CutAt
  <2>3. PICK c \in Octets, s \in Octets : pdu = c ++ s /\ SubSeq(pdu, 1, n) = c
    BY <2>2
  <2>4. Cut(c, s, Hdr(token), os, Trail(pay))
    BY <1>5, <2>3
  <2>5. Validate(c).ok => /\ IsBeginning(Options(c, Validate(c).num), os)
                          /\ IsBeginning(Validate(c).payload, pay)
    BY <1>2, <1>3, <2>4, ReceivedIs
  <2> QED BY Zenon, <1>7, <2>3, <2>5
<1> QED BY Zenon, <1>6, <1>7 DEF token, os, pay

(* Whatever calls have built a datagram, the server that validates its      *)
(* bytes accepts them and reads the options and the payload that were set;  *)
(* of one that recvfrom cuts short it reads a beginning of both, or rejects *)
(* it: validate takes no part of an option or of a payload for another.     *)
THEOREM ReceiverReadsContent == Spec => []ReceiverReads
<1>1. Init => IInv
  BY InitStands
<1>2. IInv /\ [Next]_vars => IInv'
  BY NextKeeps
<1>3. IInv => ReceiverReads
  BY Reads
<1> QED BY <1>1, <1>2, <1>3, PTL DEF Spec
=============================================================================
