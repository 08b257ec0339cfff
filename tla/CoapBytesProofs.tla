------------------------- MODULE CoapBytesProofs --------------------------
(***************************************************************************)
(* What is written by one side is read by the other, for every number a    *)
(* CoAP datagram can hold, and what addOption makes of the bytes of a      *)
(* datagram, whatever they hold.  Bytes and lists of options are           *)
(* sequences under names of their own, Octets with ++ and Lists with ** :  *)
(* the lemmas about them are all that later proofs know of them.           *)
(***************************************************************************)
EXTENDS CoapPdu, SequenceTheorems, WellFoundedInduction, TLAPS

-----------------------------------------------------------------------------
(* Numbers and the codec.                                                    *)

LEMMA LeastExists ==
  ASSUME NEW S \in SUBSET Nat, S # {} PROVE \E k \in S : \A j \in S : k <= j
<1> DEFINE R == OpToRel(<, Nat)
<1>1. PICK k \in S : \A j \in S : ~(<<j, k>> \in R)
  BY NatLessThanWellFounded, WFMin
<1>2. \A j \in S : ~(j < k)
  BY <1>1 DEF OpToRel
<1> QED
  BY <1>2

LEMMA Induction ==
  ASSUME NEW T, 0 \in T, \A n \in Nat : n \in T => n + 1 \in T PROVE \A n \in Nat : n \in T
<1> DEFINE S == {n \in Nat : n \notin T}
<1>1. S = {}
  <2> SUFFICES ASSUME S # {} PROVE FALSE
    OBVIOUS
  <2>1. PICK k \in S : \A j \in S : k <= j
    BY LeastExists
  <2>2. k \in Nat /\ k # 0
    OBVIOUS
  <2>3. k - 1 \in Nat /\ k - 1 \notin S /\ (k - 1) + 1 = k
    BY <2>1, <2>2
  <2> QED
    BY <2>2, <2>3
<1> QED
  BY <1>1

(* The low byte of a Block value keeps the number's low nibble, the flag    *)
(* and the size apart.                                                      *)
LEMMA LowByte ==
  ASSUME NEW n \in Nat, NEW more \in 0 .. 1, NEW szx \in 0 .. 7
  PROVE  /\ BlockLow(n, more, szx) \in Uint8
         /\ BlockLow(n, more, szx) % 8 = szx
         /\ (BlockLow(n, more, szx) \div 8) % 2 = more
         /\ BlockLow(n, more, szx) \div 16 = n % 16
BY SMT DEF BlockLow, Uint8

(* What coapGetRecvOptionBlock2 makes of two and of three bytes.            *)
LEMMA BlockOfTwo ==
  ASSUME NEW h \in Nat, NEW low \in Nat
  PROVE  Block2(<<h, low>>) = [size |-> low % 8, more |-> (low \div 8) % 2,
                               number |-> h * 16 + (low \div 16)]
BY SMT DEF Block2

LEMMA BlockOfThree ==
  ASSUME NEW h \in Nat, NEW m \in Nat, NEW low \in Nat
  PROVE  Block2(<<h, m, low>>) = [size |-> low % 8, more |-> (low \div 8) % 2,
                                  number |-> h * 4096 + m * 16 + (low \div 16)]
BY SMT DEF Block2

(* A Block number of up to 20 bits (n \div 4096 is a byte) is put together  *)
(* by coapGetRecvOptionBlock2 from the one, two or three bytes that         *)
(* mbtk_coap_option_add has made of it.                                     *)
THEOREM BlockRoundTrip ==
  ASSUME NEW n \in Nat, n \div 4096 < 256, NEW more \in 0 .. 1, NEW szx \in 0 .. 7
  PROVE  Block2(BlockBytes(n, more, szx)) = [size |-> szx, more |-> more, number |-> n]
<1> DEFINE low == BlockLow(n, more, szx)
<1>1. /\ low \in Uint8
      /\ low % 8 = szx
      /\ (low \div 8) % 2 = more
      /\ low \div 16 = n % 16
  BY SMT, LowByte
<1> HIDE DEF low
<1>0. low \in Nat
  BY SMT, <1>1 DEF Uint8
<1>2. CASE n <= 15
  <2>1. BlockBytes(n, more, szx) = <<low>>
    BY SMT, <1>2 DEF BlockBytes, low
  <2>2. n % 16 = n
    BY SMT, <1>2
  <2> QED BY SMT, <1>1, <2>1, <2>2 DEF Block2
<1>3. CASE n > 15 /\ n <= 4095
  <2> DEFINE h == (n \div 16) % 256
  <2>1. BlockBytes(n, more, szx) = <<h, low>>
    BY SMT, <1>3 DEF BlockBytes, low
  <2>2. h \in Nat /\ h * 16 + (n % 16) = n
    BY SMT, <1>3
  <2> HIDE DEF h
  <2>3. Block2(<<h, low>>) = [size |-> low % 8, more |-> (low \div 8) % 2,
                              number |-> h * 16 + (low \div 16)]
    BY SMT, <1>0, <2>2, BlockOfTwo
  <2>4. h * 16 + (low \div 16) = n
    BY SMT, <1>1, <2>2
  <2> QED BY SMT, <1>1, <2>1, <2>3, <2>4
<1>4. CASE n > 4095
  <2> DEFINE h == (n \div 4096) % 256
             m == (n \div 16) % 256
  <2>1. BlockBytes(n, more, szx) = <<h, m, low>>
    BY SMT, <1>4 DEF BlockBytes, low
  <2>2. h \in Nat /\ m \in Nat /\ h * 4096 + m * 16 + (n % 16) = n
    BY SMT, <1>4
  <2> HIDE DEF h, m
  <2>3. Block2(<<h, m, low>>) = [size |-> low % 8, more |-> (low \div 8) % 2,
                                 number |-> h * 4096 + m * 16 + (low \div 16)]
    BY SMT, <1>0, <2>2, BlockOfThree
  <2>4. h * 4096 + m * 16 + (low \div 16) = n
    BY SMT, <1>1, <2>2
  <2> QED BY SMT, <1>1, <2>1, <2>3, <2>4
<1> QED BY SMT, <1>2, <1>3, <1>4

-----------------------------------------------------------------------------
(* A 16 bit number as the provers see it best.                              *)
LEMMA Bounds16 ==
  ASSUME NEW n \in Uint16
  PROVE  n \in Nat /\ n < 65536
BY SMT DEF Uint16

(* The extension bytes of a delta or a length n, and how they are read back *)
(* where they stand between p and v.                                        *)
LEMMA ExtRead ==
  ASSUME NEW n \in Nat, n < 65536, NEW p \in Seq(Nat), NEW v \in Seq(Nat)
  PROVE  /\ Ext(n) \in Seq(Nat)
         /\ Nibble(n) \in 0 .. 14
         /\ Len(Ext(n)) = DeltaBytes(Nibble(n))
         /\ Extended((p \o Ext(n)) \o v, Nibble(n), Len(p)) = n
<1> DEFINE b == (p \o Ext(n)) \o v
<1>1. CASE n < 13
  <2>1. Ext(n) = << >> /\ Nibble(n) = n
    BY SMT, <1>1 DEF Ext, Nibble
  <2>2. Extended(b, Nibble(n), Len(p)) = n
    <3> HIDE DEF b
    <3> QED BY SMT, <1>1, <2>1 DEF Extended
  <2> QED BY SMT, <1>1, <2>1, <2>2 DEF DeltaBytes
<1>2. CASE n >= 13 /\ n < 269
  <2>1. /\ Ext(n) = <<n - 13>> /\ Nibble(n) = 13
        /\ n - 13 \in Uint8
    BY SMT, <1>2 DEF Ext, Nibble, Uint8
  <2>2. At(b, Len(p)) = n - 13
    BY SMT, <2>1 DEF At
  <2>3. Extended(b, Nibble(n), Len(p)) = n
    <3> HIDE DEF b
    <3> QED BY SMT, <2>1, <2>2 DEF Extended
  <2>4. Ext(n) \in Seq(Nat) /\ Len(Ext(n)) = 1
    BY SMT, <2>1 DEF Uint8
  <2> QED BY SMT, <2>1, <2>3, <2>4 DEF DeltaBytes
<1>3. CASE n >= 269
  <2> DEFINE k  == n - 269
             hi == k \div 256
             lo == k % 256
  <2>1. k \in Nat /\ k < 65536 /\ n = k + 269
    BY SMT, <1>3
  <2>2. Ext(n) = <<hi, lo>> /\ Nibble(n) = 14
    BY SMT, <1>3 DEF Ext, Store16, Nibble
  <2> HIDE DEF k
  <2>3. hi \in Uint8 /\ lo \in Uint8 /\ hi * 256 + lo = k
    BY SMT, <2>1 DEF Uint8
  <2> HIDE DEF hi, lo
  <2>4. At(b, Len(p)) = hi /\ At(b, Len(p) + 1) = lo
    BY SMT, <2>2, <2>3 DEF At
  <2>5. Ext(n) \in Seq(Nat) /\ Len(Ext(n)) = 2
    BY SMT, <2>2, <2>3 DEF Uint8
  <2> HIDE DEF b
  <2>6. Load16(b, Len(p)) = k
    BY SMT, <2>3, <2>4 DEF Load16
  <2>7. n % 65536 = n
    BY SMT
  <2>8. Extended(b, Nibble(n), Len(p)) = n
    BY SMT, <2>1, <2>2, <2>6, <2>7 DEF Extended
  <2> QED BY SMT, <2>2, <2>5, <2>8 DEF DeltaBytes, b
<1> QED BY SMT, <1>1, <1>2, <1>3

(* The header byte holds both nibbles.                                      *)
LEMMA HeaderByte ==
  ASSUME NEW d \in 0 .. 14, NEW l \in 0 .. 14
  PROVE  /\ d * 16 + l \in Uint8
         /\ (d * 16 + l) \div 16 = d
         /\ (d * 16 + l) % 16 = l
BY SMT DEF Uint8

(* The first part of a concatenation.                                       *)
LEMMA Concatenated ==
  ASSUME NEW q \in Seq(Nat), NEW e \in Seq(Nat)
  PROVE  /\ q \o e \in Seq(Nat)
         /\ Len(q \o e) = Len(q) + Len(e)
         /\ \A k \in 1 .. Len(q) : (q \o e)[k] = q[k]
BY SMT

LEMMA Assoc ==
  ASSUME NEW p \in Seq(Nat), NEW q \in Seq(Nat), NEW r \in Seq(Nat)
  PROVE  p \o (q \o r) = (p \o q) \o r
<1>1. (p \o q) \o r = p \o (q \o r)
  BY SMT
<1> QED BY <1>1

(* An option that insertOption has written behind any bytes p, whatever v   *)
(* follows, is read back by getOptionDelta and getOptionValueLength with    *)
(* its delta and its length, for all 16 bit values of both.                 *)
THEOREM HeaderRoundTrip ==
  ASSUME NEW delta \in Uint16, NEW len \in Uint16,
         NEW p \in Seq(Nat), NEW v \in Seq(Nat)
  PROVE  LET b == (p \o Header(delta, len)) \o v IN
         /\ OptionDelta(b, Len(p)) = delta
         /\ OptionValueLength(b, Len(p)) = len
<1> DEFINE head == Nibble(delta) * 16 + Nibble(len)
           q    == p \o <<head>>
           r    == q \o Ext(delta)
           w    == Ext(len) \o v
           b    == (p \o Header(delta, len)) \o v
<1>0. delta \in Nat /\ delta < 65536 /\ len \in Nat /\ len < 65536
  BY SMT, Bounds16
<1>1. /\ Nibble(delta) \in 0 .. 14 /\ Nibble(len) \in 0 .. 14
      /\ Ext(delta) \in Seq(Nat) /\ Ext(len) \in Seq(Nat)
      /\ Len(Ext(delta)) = DeltaBytes(Nibble(delta))
  BY SMT, <1>0, ExtRead
<1>2. head \in Uint8 /\ head \div 16 = Nibble(delta) /\ head % 16 = Nibble(len)
  BY <1>1, HeaderByte
<1>3. Header(delta, len) = (<<head>> \o Ext(delta)) \o Ext(len)
  BY DEF Header
<1> HIDE DEF head
<1>4. <<head>> \in Seq(Nat) /\ Len(p) \in Nat
  BY SMT, <1>2 DEF Uint8
<1>5. b = r \o w /\ b = (r \o Ext(len)) \o v
  <2> DEFINE h == <<head>>
             e == Ext(delta)
             f == Ext(len)
  <2>1. h \in Seq(Nat) /\ e \in Seq(Nat) /\ f \in Seq(Nat)
    BY <1>1, <1>4
  <2>2. b = (p \o ((h \o e) \o f)) \o v
    BY <1>3
  <2> HIDE DEF h, e, f, b, q, r, w
  <2>0. h \o e \in Seq(Nat) /\ p \o h \in Seq(Nat)
    BY Zenon, <2>1, Concatenated
  <2>3. p \o ((h \o e) \o f) = (p \o (h \o e)) \o f
    <3> DEFINE he == h \o e
    <3>1. he \in Seq(Nat)
      BY <2>0
    <3> HIDE DEF he
    <3>2. p \o (he \o f) = (p \o he) \o f
      BY Zenon, <2>1, <3>1, Assoc
    <3> QED BY <3>2 DEF he
  <2>4. p \o (h \o e) = (p \o h) \o e
    BY Zenon, <2>1, Assoc
  <2> DEFINE phe == (p \o h) \o e
  <2>5. phe \in Seq(Nat)
    BY Zenon, <2>0, <2>1, Concatenated
  <2>6. b = (phe \o f) \o v
    BY <2>2, <2>3, <2>4
  <2> HIDE DEF phe
  <2>7. (phe \o f) \o v = phe \o (f \o v)
    BY Zenon, <2>1, <2>5, Assoc
  <2> QED BY <2>6, <2>7 DEF h, e, f, phe, q, r, w
<1> HIDE DEF b
<1>6. q \in Seq(Nat) /\ Len(q) = Len(p) + 1 /\ q[Len(p) + 1] = head
  BY SMT, <1>2 DEF Uint8
<1> HIDE DEF q
<1>7. /\ r \in Seq(Nat) /\ w \in Seq(Nat)
      /\ Len(r) = Len(p) + 1 + DeltaBytes(Nibble(delta))
      /\ r[Len(p) + 1] = head
  <2> DEFINE e == Ext(delta)
             f == Ext(len)
  <2>1. e \in Seq(Nat) /\ f \in Seq(Nat) /\ Len(e) = DeltaBytes(Nibble(delta))
    BY <1>1
  <2> HIDE DEF e, f
  <2> HIDE DEF r, w
  <2>2. /\ q \o e \in Seq(Nat)
        /\ Len(q \o e) = Len(q) + Len(e)
        /\ \A k \in 1 .. Len(q) : (q \o e)[k] = q[k]
    BY Zenon, <1>6, <2>1, Concatenated
  <2>3. f \o v \in Seq(Nat)
    BY Zenon, <2>1, Concatenated
  <2>4. Len(p) + 1 \in 1 .. Len(q)
    BY SMT, <1>4, <1>6
  <2> QED BY <1>6, <2>1, <2>2, <2>3, <2>4 DEF e, f, r, w
<1>8. At(b, Len(p)) = head
  <2> HIDE DEF r, w
  <2>1. Len(r) \in Nat /\ DeltaBytes(Nibble(delta)) \in Nat
    BY SMT, <1>7 DEF DeltaBytes
  <2> QED BY SMT, <1>4, <1>5, <1>7, <2>1 DEF At
<1>9. OptionDelta(b, Len(p)) = delta
  <2>1. Extended(b, Nibble(delta), Len(q)) = delta
    <3> HIDE DEF w
    <3>1. Extended((q \o Ext(delta)) \o w, Nibble(delta), Len(q)) = delta
      BY <1>0, <1>6, <1>7, ExtRead
    <3> QED BY <1>5, <3>1 DEF r
  <2>2. Nibble(delta) # 15
    BY SMT, <1>1
  <2> QED BY <1>2, <1>6, <1>8, <2>1, <2>2 DEF OptionDelta
<1>10. OptionValueLength(b, Len(p)) = len
  <2> HIDE DEF r
  <2>1. Extended(b, Nibble(len), Len(r)) = len
    BY SMT, <1>0, <1>5, <1>7, ExtRead
  <2> QED BY <1>2, <1>7, <1>8, <2>1 DEF OptionValueLength
<1> QED BY <1>9, <1>10 DEF b

-----------------------------------------------------------------------------
(* Sequences of bytes, and one option between two of them.                   *)

(* Options as a datagram can hold them.                                     *)
Held == {o \in [number : Uint16, value : Seq(Nat)] : Len(o.value) <= 255}

(* Two sequences of bytes one behind the other.                             *)
LEMMA Cat ==
  ASSUME NEW s \in Seq(Nat), NEW t \in Seq(Nat)
  PROVE  /\ s \o t \in Seq(Nat)
         /\ Len(s \o t) = Len(s) + Len(t) /\ Len(s) \in Nat /\ Len(t) \in Nat
         /\ \A k \in 1 .. Len(s) : (s \o t)[k] = s[k]
         /\ \A k \in 1 .. Len(t) : (s \o t)[Len(s) + k] = t[k]
BY SMT

LEMMA SameSeq ==
  ASSUME NEW s \in Seq(Nat), NEW t \in Seq(Nat), Len(s) = Len(t),
         \A k \in 1 .. Len(s) : s[k] = t[k]
  PROVE  s = t
BY SMT

LEMMA In16 == ASSUME NEW n \in Nat, n < 65536 PROVE n \in Uint16
BY SMT DEF Uint16

LEMMA Single ==
  ASSUME NEW h \in Nat
  PROVE  <<h>> \in Seq(Nat) /\ Len(<<h>>) = 1 /\ <<h>>[1] = h
BY SMT

LEMMA SomeBytes == \E p : p \in Seq(Nat)
<1> DEFINE z == << >>
<1>1. z \in Seq(Nat)
  BY SMT
<1> HIDE DEF z
<1> QED BY Zenon, <1>1

LEMMA ExtShape ==
  ASSUME NEW n \in Nat, n < 65536
  PROVE  /\ Ext(n) \in Seq(Nat) /\ Len(Ext(n)) = ExtraBytes(n)
         /\ ExtraBytes(n) \in 0 .. 2 /\ Nibble(n) \in 0 .. 14
<1>1. PICK p : p \in Seq(Nat)
  BY SomeBytes
<1>2. /\ Ext(n) \in Seq(Nat) /\ Nibble(n) \in 0 .. 14
      /\ Len(Ext(n)) = DeltaBytes(Nibble(n))
  BY <1>1, ExtRead
<1>3. DeltaBytes(Nibble(n)) = ExtraBytes(n) /\ ExtraBytes(n) \in 0 .. 2
  BY SMT DEF DeltaBytes, Nibble, ExtraBytes
<1> QED BY <1>2, <1>3

LEMMA HeaderShape ==
  ASSUME NEW d \in Uint16, NEW n \in Uint16
  PROVE  /\ Header(d, n) \in Seq(Nat)
         /\ Len(Header(d, n)) = 1 + ExtraBytes(d) + ExtraBytes(n)
         /\ Header(d, n)[1] = Nibble(d) * 16 + Nibble(n)
         /\ Nibble(d) * 16 + Nibble(n) \in Nat /\ Nibble(d) * 16 + Nibble(n) <= 238
         /\ (Nibble(d) * 16 + Nibble(n)) % 16 = Nibble(n)
         /\ ExtraBytes(d) \in 0 .. 2 /\ ExtraBytes(n) \in 0 .. 2
<1> DEFINE h == Nibble(d) * 16 + Nibble(n)
           e == Ext(d)
           f == Ext(n)
<1>1. /\ e \in Seq(Nat) /\ Len(e) = ExtraBytes(d) /\ ExtraBytes(d) \in 0 .. 2
      /\ f \in Seq(Nat) /\ Len(f) = ExtraBytes(n) /\ ExtraBytes(n) \in 0 .. 2
      /\ Nibble(d) \in 0 .. 14 /\ Nibble(n) \in 0 .. 14
  BY Bounds16, ExtShape
<1>2. h \in Nat /\ h <= 238 /\ h % 16 = Nibble(n)
  <2>1. PICK x \in 0 .. 14 : x = Nibble(d)
    BY <1>1
  <2>2. PICK y \in 0 .. 14 : y = Nibble(n)
    BY <1>1
  <2>3. x * 16 + y \in Nat /\ x * 16 + y <= 238 /\ ((x * 16 + y) % 16) = y
    BY SMT
  <2> QED BY Zenon, <2>1, <2>2, <2>3
<1>3. Header(d, n) = (<<h>> \o e) \o f
  BY DEF Header
<1> HIDE DEF h, e, f
<1>4. <<h>> \in Seq(Nat) /\ Len(<<h>>) = 1 /\ <<h>>[1] = h
  BY <1>2, Single
<1> DEFINE he == <<h>> \o e
<1>5. he \in Seq(Nat) /\ Len(he) = 1 + Len(e) /\ he[1] = h
  BY SMT, <1>1, <1>4, Cat
<1> HIDE DEF he
<1>6. he \o f \in Seq(Nat) /\ Len(he \o f) = 1 + Len(e) + Len(f) /\ (he \o f)[1] = h
  BY SMT, <1>1, <1>5, Cat
<1> QED BY <1>1, <1>2, <1>3, <1>6 DEF he, h

(* What insertOption writes for a value v.                                  *)
LEMMA ValueShape ==
  ASSUME NEW d \in Uint16, NEW v \in Seq(Nat), Len(v) <= 255
  PROVE  /\ Len(v) \in Uint16
         /\ Header(d, Len(v)) \o v \in Seq(Nat)
         /\ Len(Header(d, Len(v)) \o v) = 1 + ExtraBytes(d) + ExtraBytes(Len(v)) + Len(v)
         /\ ExtraBytes(d) \in 0 .. 2 /\ ExtraBytes(Len(v)) \in 0 .. 2
<1>1. PICK n \in Nat : n = Len(v)
  BY Cat
<1>2. n \in Uint16
  BY <1>1, In16
<1> DEFINE H == Header(d, n)
<1>3. /\ H \in Seq(Nat)
      /\ Len(H) = 1 + ExtraBytes(d) + ExtraBytes(n)
      /\ ExtraBytes(d) \in 0 .. 2 /\ ExtraBytes(n) \in 0 .. 2
  BY <1>2, HeaderShape
<1> HIDE DEF H
<1>4. H \o v \in Seq(Nat) /\ Len(H \o v) = Len(H) + Len(v)
  BY <1>3, Cat
<1>5. H = Header(d, Len(v))
  BY <1>1 DEF H
<1>6. Len(H \o v) = 1 + ExtraBytes(d) + ExtraBytes(n) + Len(v)
  BY <1>3, <1>4
<1> QED BY <1>1, <1>2, <1>3, <1>4, <1>5, <1>6

(* What the getters make of an option behind any bytes p and before any     *)
(* bytes q.                                                                 *)
Inside(p, d, v, q) == (p \o (Header(d, Len(v)) \o v)) \o q
Total(d, v) == 1 + ExtraBytes(d) + ExtraBytes(Len(v)) + Len(v)

(* The number of an option, by the one before and its delta.                *)
Number(prev, d) == (prev + d) % 65536

LEMMA Decode ==
  ASSUME NEW p \in Seq(Nat), NEW q \in Seq(Nat), NEW d \in Uint16, NEW v \in Seq(Nat),
         Len(v) <= 255
  PROVE  /\ At(Inside(p, d, v, q), Len(p)) = Nibble(d) * 16 + Nibble(Len(v))
         /\ OptionDelta(Inside(p, d, v, q), Len(p)) = d
         /\ \A pr : OptionAt(Inside(p, d, v, q), Len(p), pr)
                     = [number |-> Number(pr, d), at |-> Len(p), total |-> Total(d, v), value |-> v]
<1>b. PICK b : b = Inside(p, d, v, q)
  BY Zenon
<1>1. PICK n \in Nat : n = Len(v)
  BY Cat
<1>2. n \in Uint16
  BY <1>1, In16
<1>3. PICK i \in Nat : i = Len(p)
  BY Cat
<1>4. PICK l \in Nat : l = Len(q)
  BY Cat
<1> DEFINE H  == Header(d, n)
           ph == p \o H
           w  == v \o q
           h  == 1 + ExtraBytes(d) + ExtraBytes(n)
<1>5. /\ H \in Seq(Nat) /\ Len(H) = h /\ h \in Nat /\ h > 0
      /\ H[1] = Nibble(d) * 16 + Nibble(n)
      /\ ExtraBytes(d) \in 0 .. 2 /\ ExtraBytes(n) \in 0 .. 2
  <2>1. /\ H \in Seq(Nat) /\ Len(H) = h
        /\ H[1] = Nibble(d) * 16 + Nibble(n)
        /\ ExtraBytes(d) \in 0 .. 2 /\ ExtraBytes(n) \in 0 .. 2
    BY <1>2, HeaderShape
  <2> QED BY <2>1
<1>6. H = Header(d, Len(v))
  BY <1>1
<1> HIDE DEF H, h
<1>7. /\ ph \in Seq(Nat) /\ Len(ph) = i + h /\ ph[i + 1] = H[1]
  <2>1. /\ p \o H \in Seq(Nat) /\ Len(p \o H) = i + h
        /\ \A k \in 1 .. h : (p \o H)[i + k] = H[k]
    BY <1>3, <1>5, Cat
  <2>2. 1 \in 1 .. h
    BY <1>5
  <2> QED BY <2>1, <2>2
<1>8. /\ w \in Seq(Nat) /\ Len(w) = n + l /\ \A k \in 1 .. n : w[k] = v[k]
  BY <1>1, <1>4, Cat
<1>9. b = ph \o w
  <2>1. p \o (H \o v) = ph \o v
    BY <1>5, Assoc
  <2>2. b = (ph \o v) \o q
    BY <1>6, <2>1, <1>b DEF Inside
  <2> HIDE DEF ph
  <2>3. ph \o (v \o q) = (ph \o v) \o q
    BY <1>7, Assoc
  <2> QED BY <2>2, <2>3
<1>10. /\ OptionDelta(b, i) = d /\ OptionValueLength(b, i) = n
  <2> HIDE DEF w
  <2>1. LET bb == (p \o Header(d, n)) \o w IN
         /\ OptionDelta(bb, Len(p)) = d /\ OptionValueLength(bb, Len(p)) = n
    BY <1>2, <1>8, HeaderRoundTrip
  <2> QED BY <1>3, <1>9, <2>1 DEF H
<1> HIDE DEF ph, w
<1>11. /\ b \in Seq(Nat) /\ Len(b) = i + h + n + l
       /\ \A k \in 1 .. i + h : b[k] = ph[k]
       /\ \A k \in 1 .. n + l : b[(i + h) + k] = w[k]
  <2>1. /\ ph \o w \in Seq(Nat) /\ Len(ph \o w) = Len(ph) + Len(w)
        /\ \A k \in 1 .. Len(ph) : (ph \o w)[k] = ph[k]
        /\ \A k \in 1 .. Len(w) : (ph \o w)[Len(ph) + k] = w[k]
    BY <1>7, <1>8, Cat
  <2>2. Len(ph) + Len(w) = i + h + n + l
    BY <1>5, <1>7, <1>8
  <2>3. Len(b) = i + h + n + l
    BY <1>9, <2>1, <2>2
  <2> QED BY Zenon, <1>7, <1>8, <1>9, <2>1, <2>3
<1>12. At(b, i) = H[1]
  <2>1. i < Len(b) /\ i + 1 \in 1 .. i + h
    BY <1>5, <1>11
  <2> QED BY <1>7, <1>11, <2>1 DEF At
<1>13. ASSUME NEW k \in 1 .. n PROVE At(b, i + (h + n) - n + k - 1) = v[k]
  <2>1. i + (h + n) - n + k - 1 < Len(b) /\ (i + (h + n) - n + k - 1) + 1 = (i + h) + k
    BY <1>5, <1>11
  <2>2. At(b, i + (h + n) - n + k - 1) = b[(i + h) + k]
    BY <2>1 DEF At
  <2>3. k \in 1 .. n + l
    OBVIOUS
  <2> QED BY <1>8, <1>11, <2>2, <2>3
<1>14. ASSUME NEW pr PROVE OptionAt(b, i, pr) = [number |-> (pr + d) % 65536, at |-> i,
                                                  total |-> h + n, value |-> v]
  <2> DEFINE val == [k \in 1 .. n |-> At(b, i + (h + n) - n + k - 1)]
  <2>1. OptionAt(b, i, pr) = [number |-> (pr + d) % 65536, at |-> i, total |-> h + n, value |-> val]
    BY <1>10 DEF OptionAt, h
  <2>2. val = v
    <3>1. v \in [1 .. n -> Nat]
      BY <1>1
    <3>2. \A k \in 1 .. n : val[k] = v[k]
      BY <1>13
    <3> HIDE DEF val
    <3>3. val \in [1 .. n -> Nat]
      BY <1>13, <3>1 DEF val
    <3> QED BY <3>1, <3>2, <3>3
  <2> QED BY <2>1, <2>2
<1>15. h + n = Total(d, v)
  BY SMT, <1>1, <1>5 DEF h, Total
<1>16. \A pr : OptionAt(b, i, pr) = [number |-> Number(pr, d), at |-> i, total |-> h + n, value |-> v]
  BY SMT, <1>14 DEF Number
<1>17. At(b, i) = Nibble(d) * 16 + Nibble(n)
  BY <1>5, <1>12
<1>18. OptionDelta(b, i) = d
  BY <1>10
<1> QED BY Zenon, <1>b, <1>1, <1>3, <1>15, <1>16, <1>17, <1>18

-----------------------------------------------------------------------------
(* The editing of bytes in place.                                            *)

LEMMA FnSeq ==
  ASSUME NEW n \in Nat, NEW f \in [1 .. n -> Nat]
  PROVE  f \in Seq(Nat) /\ Len(f) = n
BY SMT

LEMMA ResizeIs ==
  ASSUME NEW b \in Seq(Nat), NEW n \in Nat
  PROVE  /\ Resize(b, n) \in Seq(Nat) /\ Len(Resize(b, n)) = n
         /\ \A k \in 1 .. n : k <= Len(b) => Resize(b, n)[k] = b[k]
<1> DEFINE f == [k \in 1 .. n |-> IF k <= Len(b) THEN b[k] ELSE JUNK]
<1>1. f \in [1 .. n -> Nat]
  <2>1. ASSUME NEW k \in 1 .. n PROVE (IF k <= Len(b) THEN b[k] ELSE JUNK) \in Nat
    <3>1. JUNK \in Nat
      BY DEF JUNK
    <3>2. k <= Len(b) => k \in 1 .. Len(b)
      BY Cat
    <3> QED BY <3>1, <3>2, ElementOfSeq
  <2> QED BY <2>1
<1>2. \A k \in 1 .. n : k <= Len(b) => f[k] = b[k]
  OBVIOUS
<1>3. Resize(b, n) = f
  BY DEF Resize
<1> HIDE DEF f
<1> QED BY <1>1, <1>2, <1>3, FnSeq

LEMMA OverwriteIs ==
  ASSUME NEW b \in Seq(Nat), NEW s \in Seq(Nat), NEW i \in Nat
  PROVE  /\ Overwrite(b, i, s) \in Seq(Nat) /\ Len(Overwrite(b, i, s)) = Len(b)
         /\ \A k \in 1 .. Len(b) :
              /\ k > i /\ k <= i + Len(s) => Overwrite(b, i, s)[k] = s[k - i]
              /\ k <= i \/ k > i + Len(s) => Overwrite(b, i, s)[k] = b[k]
<1> DEFINE f == [k \in 1 .. Len(b) |-> IF k - i \in DOMAIN s THEN s[k - i] ELSE b[k]]
<1>0. PICK n \in Nat : n = Len(b)
  BY Cat
<1>1. PICK m \in Nat : m = Len(s)
  BY Cat
<1>2. DOMAIN s = 1 .. m /\ s \in [1 .. m -> Nat] /\ b \in [1 .. n -> Nat]
  BY <1>0, <1>1
<1>3. f \in [1 .. n -> Nat]
  BY <1>0, <1>2
<1>4. ASSUME NEW k \in 1 .. n
      PROVE  /\ k > i /\ k <= i + m => f[k] = s[k - i]
             /\ k <= i \/ k > i + m => f[k] = b[k]
  <2>1. k > i /\ k <= i + m => k - i \in 1 .. m
    OBVIOUS
  <2>2. k <= i \/ k > i + m => k - i \notin 1 .. m
    OBVIOUS
  <2> QED BY <1>0, <1>2, <2>1, <2>2
<1>5. Overwrite(b, i, s) = f
  BY DEF Overwrite
<1> HIDE DEF f
<1> QED BY <1>0, <1>1, <1>3, <1>4, <1>5, FnSeq

LEMMA ShiftUpIs ==
  ASSUME NEW b \in Seq(Nat), NEW offset \in Nat, NEW amount \in Nat,
         amount + offset <= Len(b)
  PROVE  /\ ShiftUp(b, offset, amount) \in Seq(Nat)
         /\ Len(ShiftUp(b, offset, amount)) = Len(b)
         /\ \A k \in 1 .. Len(b) :
              ShiftUp(b, offset, amount)[k] = IF k > Len(b) - amount THEN b[k - offset] ELSE b[k]
<1> DEFINE f == [k \in 1 .. Len(b) |-> IF k > Len(b) - amount THEN b[k - offset] ELSE b[k]]
<1>0. PICK n \in Nat : n = Len(b)
  BY Cat
<1>1. b \in [1 .. n -> Nat]
  BY <1>0
<1>2. f \in [1 .. n -> Nat]
  <2>1. ASSUME NEW k \in 1 .. n PROVE (IF k > n - amount THEN b[k - offset] ELSE b[k]) \in Nat
    <3>1. k > n - amount => k - offset \in 1 .. n
      BY <1>0
    <3> QED BY <1>1, <3>1
  <2> QED BY <1>0, <2>1
<1>3. ShiftUp(b, offset, amount) = f
  BY DEF ShiftUp
<1>4. \A k \in 1 .. n : f[k] = IF k > n - amount THEN b[k - offset] ELSE b[k]
  BY <1>0
<1> HIDE DEF f
<1> QED BY <1>0, <1>2, <1>3, <1>4, FnSeq

(* Bytes written behind the others.                                         *)
LEMMA Appended ==
  ASSUME NEW b \in Seq(Nat), NEW s \in Seq(Nat), NEW n, n = Len(b) + Len(s)
  PROVE  Overwrite(Resize(b, n), Len(b), s) = b \o s
<1>0. PICK i \in Nat : i = Len(b)
  BY Cat
<1>1. PICK m \in Nat : m = Len(s)
  BY Cat
<1> DEFINE r == Resize(b, n)
           o == Overwrite(r, i, s)
           c == b \o s
<1>2. r \in Seq(Nat) /\ Len(r) = i + m /\ \A k \in 1 .. i : r[k] = b[k]
  <2>1. n \in Nat /\ n = i + m
    BY <1>0, <1>1
  <2>2. r \in Seq(Nat) /\ Len(r) = n /\ \A k \in 1 .. n : k <= Len(b) => r[k] = b[k]
    BY <2>1, ResizeIs
  <2> HIDE DEF r
  <2> QED BY <1>0, <2>1, <2>2
<1> HIDE DEF r
<1>3. /\ o \in Seq(Nat) /\ Len(o) = i + m
      /\ \A k \in 1 .. i + m : /\ k > i => o[k] = s[k - i]
                               /\ k <= i => o[k] = r[k]
  <2>1. /\ o \in Seq(Nat) /\ Len(o) = Len(r)
        /\ \A k \in 1 .. Len(r) :
              /\ k > i /\ k <= i + Len(s) => o[k] = s[k - i]
              /\ k <= i \/ k > i + Len(s) => o[k] = r[k]
    BY <1>2, OverwriteIs
  <2> HIDE DEF o
  <2> QED BY <1>1, <1>2, <2>1
<1>4. /\ c \in Seq(Nat) /\ Len(c) = i + m
      /\ \A k \in 1 .. i : c[k] = b[k]
      /\ \A k \in 1 .. m : c[i + k] = s[k]
  BY <1>0, <1>1, Cat
<1> HIDE DEF o, c
<1>5. ASSUME NEW k \in 1 .. i + m PROVE o[k] = c[k]
  <2>1. CASE k <= i
    <3>1. k \in 1 .. i
      BY <2>1
    <3> QED BY <2>1, <3>1, <1>2, <1>3, <1>4
  <2>2. CASE k > i
    <3>1. k - i \in 1 .. m /\ i + (k - i) = k
      BY <2>2
    <3>2. o[k] = s[k - i]
      BY <2>2, <1>3
    <3>3. c[i + (k - i)] = s[k - i]
      BY <3>1, <1>4
    <3> QED BY <3>1, <3>2, <3>3
  <2> QED BY <2>1, <2>2
<1>6. o = c
  BY <1>3, <1>4, <1>5, SameSeq
<1> QED BY <1>0, <1>6 DEF o, c, r

-----------------------------------------------------------------------------
(* The algebra of bytes: p ++ q.                                             *)

(* Three sequences one behind the other, by their elements.                 *)
LEMMA Cat3 ==
  ASSUME NEW a \in Seq(Nat), NEW s \in Seq(Nat), NEW c \in Seq(Nat)
  PROVE  /\ a \o (s \o c) \in Seq(Nat) /\ Len(a \o (s \o c)) = Len(a) + Len(s) + Len(c)
         /\ \A k \in 1 .. Len(a) : (a \o (s \o c))[k] = a[k]
         /\ \A k \in 1 .. Len(s) : (a \o (s \o c))[Len(a) + k] = s[k]
         /\ \A k \in 1 .. Len(c) : (a \o (s \o c))[Len(a) + Len(s) + k] = c[k]
<1>i. PICK i \in Nat : i = Len(a)
  BY Cat
<1>m. PICK m \in Nat : m = Len(s)
  BY Cat
<1>n. PICK n \in Nat : n = Len(c)
  BY Cat
<1> DEFINE t == s \o c
<1>1. /\ t \in Seq(Nat) /\ Len(t) = m + n
      /\ \A k \in 1 .. m : t[k] = s[k]
      /\ \A k \in 1 .. n : t[m + k] = c[k]
  BY <1>m, <1>n, Cat
<1> HIDE DEF t
<1> DEFINE u == a \o t
<1>2. /\ u \in Seq(Nat) /\ Len(u) = i + (m + n)
      /\ \A k \in 1 .. i : u[k] = a[k]
      /\ \A k \in 1 .. m + n : u[i + k] = t[k]
  <2>1. /\ u \in Seq(Nat) /\ Len(u) = Len(a) + Len(t)
        /\ \A k \in 1 .. Len(a) : u[k] = a[k]
        /\ \A k \in 1 .. Len(t) : u[Len(a) + k] = t[k]
    BY <1>1, Cat
  <2> QED BY Zenon, <1>i, <1>1, <2>1
<1> HIDE DEF u
<1>3. ASSUME NEW k \in 1 .. m PROVE u[i + k] = s[k]
  <2>1. k \in 1 .. m + n
    OBVIOUS
  <2> QED BY Zenon, <1>1, <1>2, <2>1
<1>4. ASSUME NEW k \in 1 .. n PROVE u[i + m + k] = c[k]
  <2>1. PICK j \in 1 .. m + n : j = m + k
    <3>1. m + k \in 1 .. m + n
      OBVIOUS
    <3> QED BY Zenon, <3>1
  <2>2. i + m + k = i + j
    BY <2>1
  <2> QED BY Zenon, <1>1, <1>2, <2>1, <2>2
<1>5. Len(u) = i + m + n
  BY <1>2
<1> QED BY Zenon, <1>i, <1>m, <1>n, <1>2, <1>3, <1>4, <1>5 DEF u, t

(* The elements of x are those of the three parts.                          *)
Parts(x, a, s, c) ==
  /\ Len(x) = Len(a) + Len(s) + Len(c)
  /\ \A k \in 1 .. Len(a) : x[k] = a[k]
  /\ \A k \in 1 .. Len(s) : x[Len(a) + k] = s[k]
  /\ \A k \in 1 .. Len(c) : x[Len(a) + Len(s) + k] = c[k]

LEMMA Same3 ==
  ASSUME NEW a \in Seq(Nat), NEW s \in Seq(Nat), NEW c \in Seq(Nat),
         NEW x \in Seq(Nat), Parts(x, a, s, c)
  PROVE  x = a \o (s \o c)
<1>i. PICK i \in Nat : i = Len(a)
  BY Cat
<1>m. PICK m \in Nat : m = Len(s)
  BY Cat
<1>n. PICK n \in Nat : n = Len(c)
  BY Cat
<1>0. /\ Len(x) = i + m + n
      /\ \A k \in 1 .. i : x[k] = a[k]
      /\ \A k \in 1 .. m : x[i + k] = s[k]
      /\ \A k \in 1 .. n : x[i + m + k] = c[k]
  BY Zenon, <1>i, <1>m, <1>n DEF Parts
<1> DEFINE u == a \o (s \o c)
<1>1. /\ u \in Seq(Nat) /\ Len(u) = i + m + n
      /\ \A k \in 1 .. i : u[k] = a[k]
      /\ \A k \in 1 .. m : u[i + k] = s[k]
      /\ \A k \in 1 .. n : u[i + m + k] = c[k]
  <2>1. /\ u \in Seq(Nat) /\ Len(u) = Len(a) + Len(s) + Len(c)
        /\ \A k \in 1 .. Len(a) : u[k] = a[k]
        /\ \A k \in 1 .. Len(s) : u[Len(a) + k] = s[k]
        /\ \A k \in 1 .. Len(c) : u[Len(a) + Len(s) + k] = c[k]
    BY Cat3
  <2> HIDE DEF u
  <2> QED BY Zenon, <2>1, <1>i, <1>m, <1>n
<1> HIDE DEF u
<1>2. ASSUME NEW k \in 1 .. i + m + n PROVE x[k] = u[k]
  <2>1. CASE k \in 1 .. i
    BY Zenon, <1>0, <1>1, <2>1
  <2>2. ASSUME NEW j \in 1 .. m, k = i + j PROVE x[k] = u[k]
    <3>1. x[i + j] = u[i + j]
      BY Zenon, <1>0, <1>1
    <3> QED BY Zenon, <2>2, <3>1
  <2>3. ASSUME NEW j \in 1 .. n, k = i + m + j PROVE x[k] = u[k]
    <3>1. x[i + m + j] = u[i + m + j]
      BY Zenon, <1>0, <1>1
    <3> QED BY Zenon, <2>3, <3>1
  <2>4. k \in 1 .. i \/ k - i \in 1 .. m \/ k - (i + m) \in 1 .. n
    OBVIOUS
  <2>5. k = i + (k - i) /\ k = i + m + (k - (i + m))
    OBVIOUS
  <2> QED BY Zenon, <2>1, <2>2, <2>3, <2>4, <2>5
<1>3. x = u
  <2>1. /\ Len(x) = Len(u) /\ \A k \in 1 .. Len(x) : x[k] = u[k]
    BY Zenon, <1>0, <1>1, <1>2
  <2> QED BY <1>1, <2>1, SameSeq
<1> QED BY Zenon, <1>3 DEF u

(***************************************************************************)
(* Strings of bytes as an algebra: these names stay unexpanded in what     *)
(* follows, so that a proof about the parts of a datagram only uses the    *)
(* facts below.                                                            *)
(***************************************************************************)
Octets == Seq(Nat)
p ++ q == p \o q
Size(s) == Len(s)
Byte(h) == <<h>>
None == << >>

(* Bytes written over as many others.                                       *)
LEMMA OctetsOver ==
  ASSUME NEW a \in Octets, NEW j \in Octets, NEW s \in Octets, NEW c \in Octets,
         Size(j) = Size(s)
  PROVE  Overwrite(a ++ (j ++ c), Size(a), s) = a ++ (s ++ c)
<1>0. /\ a \in Seq(Nat) /\ j \in Seq(Nat) /\ s \in Seq(Nat) /\ c \in Seq(Nat)
      /\ Len(j) = Len(s)
  BY Zenon DEF Octets, Size
<1>1. PICK i \in Nat : i = Len(a)
  BY <1>0, Cat
<1>2. PICK m \in Nat : m = Len(s)
  BY <1>0, Cat
<1>3. PICK n \in Nat : n = Len(c)
  BY <1>0, Cat
<1>4. m = Len(j)
  BY <1>0, <1>2
<1> DEFINE b == a \o (j \o c)
<1>5. /\ b \in Seq(Nat) /\ Len(b) = i + m + n
      /\ \A k \in 1 .. i : b[k] = a[k]
      /\ \A k \in 1 .. n : b[i + m + k] = c[k]
  <2>1. /\ b \in Seq(Nat) /\ Len(b) = Len(a) + Len(j) + Len(c)
        /\ \A k \in 1 .. Len(a) : b[k] = a[k]
        /\ \A k \in 1 .. Len(j) : b[Len(a) + k] = j[k]
        /\ \A k \in 1 .. Len(c) : b[Len(a) + Len(j) + k] = c[k]
    BY Zenon, <1>0, Cat3
  <2> HIDE DEF b
  <2> QED BY Zenon, <2>1, <1>1, <1>3, <1>4
<1> HIDE DEF b
<1> DEFINE w == Overwrite(b, i, s)
<1>6. /\ w \in Seq(Nat) /\ Len(w) = i + m + n
      /\ \A k \in 1 .. i + m + n :
           /\ k > i /\ k <= i + m => w[k] = s[k - i]
           /\ k <= i \/ k > i + m => w[k] = b[k]
  <2>1. /\ w \in Seq(Nat) /\ Len(w) = Len(b)
        /\ \A k \in 1 .. Len(b) :
              /\ k > i /\ k <= i + Len(s) => w[k] = s[k - i]
              /\ k <= i \/ k > i + Len(s) => w[k] = b[k]
    BY <1>0, <1>5, OverwriteIs
  <2> HIDE DEF w
  <2> QED BY Zenon, <2>1, <1>5, <1>2
<1> HIDE DEF w
<1>7. ASSUME NEW k \in 1 .. i PROVE w[k] = a[k]
  <2>1. k \in 1 .. i + m + n /\ k <= i
    OBVIOUS
  <2> QED BY Zenon, <2>1, <1>5, <1>6
<1>8. ASSUME NEW k \in 1 .. m PROVE w[i + k] = s[k]
  <2>1. i + k \in 1 .. i + m + n /\ i + k > i /\ i + k <= i + m /\ (i + k) - i = k
    OBVIOUS
  <2> QED BY Zenon, <2>1, <1>6
<1>9. ASSUME NEW k \in 1 .. n PROVE w[i + m + k] = c[k]
  <2>1. i + m + k \in 1 .. i + m + n /\ i + m + k > i + m
    OBVIOUS
  <2> QED BY Zenon, <2>1, <1>5, <1>6
<1>10. w = a \o (s \o c)
  <2>1. Parts(w, a, s, c)
    BY Zenon, <1>1, <1>2, <1>3, <1>6, <1>7, <1>8, <1>9 DEF Parts
  <2>2. w \in Seq(Nat)
    BY Zenon, <1>6
  <2> QED BY Zenon, <2>1, <1>0, <2>2, Same3
<1> QED BY Zenon, <1>1, <1>10 DEF w, b, ++, Size

(* Bytes moved up: those before them stay, and between are as many as they  *)
(* were moved by.                                                           *)
LEMMA ShiftCat ==
  ASSUME NEW a \in Seq(Nat), NEW c \in Seq(Nat), NEW g \in Nat
  PROVE  \E j \in Seq(Nat) : /\ Len(j) = g
                             /\ ShiftUp(Resize(a \o c, Len(a \o c) + g), g, Len(c)) = a \o (j \o c)
<1>1. PICK i \in Nat : i = Len(a)
  BY Cat
<1>2. PICK n \in Nat : n = Len(c)
  BY Cat
<1> DEFINE b == a \o c
<1>3. /\ b \in Seq(Nat) /\ Len(b) = i + n
      /\ \A k \in 1 .. i : b[k] = a[k]
      /\ \A k \in 1 .. n : b[i + k] = c[k]
  <2>1. /\ b \in Seq(Nat) /\ Len(b) = Len(a) + Len(c)
        /\ \A k \in 1 .. Len(a) : b[k] = a[k]
        /\ \A k \in 1 .. Len(c) : b[Len(a) + k] = c[k]
    BY Cat
  <2> QED BY Zenon, <1>1, <1>2, <2>1
<1> HIDE DEF b
<1>4. PICK N \in Nat : N = i + n + g
  OBVIOUS
<1> DEFINE r == Resize(b, N)
<1>5. /\ r \in Seq(Nat) /\ Len(r) = N
      /\ \A k \in 1 .. N : k <= i + n => r[k] = b[k]
  <2>1. /\ r \in Seq(Nat) /\ Len(r) = N
        /\ \A k \in 1 .. N : k <= Len(b) => r[k] = b[k]
    BY <1>3, ResizeIs
  <2> QED BY Zenon, <1>3, <2>1
<1>r. r = Resize(b, Len(b) + g)
  BY <1>3, <1>4
<1> HIDE DEF r
<1> DEFINE x == ShiftUp(r, g, n)
<1>6. /\ x \in Seq(Nat) /\ Len(x) = N
      /\ \A k \in 1 .. N : x[k] = IF k > N - n THEN r[k - g] ELSE r[k]
  <2>1. n + g <= Len(r)
    BY <1>4, <1>5
  <2>2. /\ x \in Seq(Nat) /\ Len(x) = Len(r)
        /\ \A k \in 1 .. Len(r) : x[k] = IF k > Len(r) - n THEN r[k - g] ELSE r[k]
    BY <1>5, <2>1, ShiftUpIs
  <2> QED BY Zenon, <1>5, <2>2
<1> HIDE DEF x
<1> DEFINE j == [k \in 1 .. g |-> x[i + k]]
<1>7. /\ j \in Seq(Nat) /\ Len(j) = g /\ \A k \in 1 .. g : j[k] = x[i + k]
  <2>1. ASSUME NEW k \in 1 .. g PROVE x[i + k] \in Nat
    <3>1. i + k \in 1 .. N
      BY <1>4
    <3> QED BY <1>6, <3>1, ElementOfSeq
  <2>2. j \in [1 .. g -> Nat]
    BY <2>1
  <2>3. \A k \in 1 .. g : j[k] = x[i + k]
    OBVIOUS
  <2> HIDE DEF j
  <2> QED BY <2>2, <2>3, FnSeq
<1> HIDE DEF j
<1>8. ASSUME NEW k \in 1 .. i PROVE x[k] = a[k]
  <2>1. k \in 1 .. N /\ ~(k > N - n) /\ k <= i + n
    BY <1>4
  <2> QED BY Zenon, <1>3, <1>5, <1>6, <2>1
<1>9. ASSUME NEW k \in 1 .. n PROVE x[i + g + k] = c[k]
  <2>1. /\ i + g + k \in 1 .. N /\ i + g + k > N - n /\ (i + g + k) - g = i + k
        /\ i + k \in 1 .. N /\ i + k <= i + n
    BY <1>4
  <2> QED BY Zenon, <1>3, <1>5, <1>6, <2>1
<1>10. \A k \in 1 .. g : x[i + k] = j[k]
  BY Zenon, <1>7
<1>11. Len(x) = i + g + n
  BY <1>4, <1>6
<1>12. x = a \o (j \o c)
  <2>1. Parts(x, a, j, c)
    BY Zenon, <1>1, <1>2, <1>7, <1>8, <1>9, <1>10, <1>11 DEF Parts
  <2> QED BY Zenon, <1>6, <1>7, <2>1, Same3
<1>13. x = ShiftUp(Resize(a \o c, Len(a \o c) + g), g, Len(c))
  BY Zenon, <1>2, <1>r DEF x, b
<1> QED BY Zenon, <1>7, <1>12, <1>13

(* A sequence in two parts.                                                 *)
LEMMA Split ==
  ASSUME NEW f \in Nat, NEW e \in Nat, NEW s \in Seq(Nat), Len(s) = f + e
  PROVE  \E u \in Seq(Nat), v \in Seq(Nat) : Len(u) = f /\ Len(v) = e /\ s = u \o v
<1> DEFINE u == [k \in 1 .. f |-> s[k]]
           v == [k \in 1 .. e |-> s[f + k]]
<1>1. u \in Seq(Nat) /\ Len(u) = f /\ \A k \in 1 .. f : u[k] = s[k]
  <2>1. ASSUME NEW k \in 1 .. f PROVE s[k] \in Nat
    <3>1. k \in 1 .. Len(s)
      OBVIOUS
    <3> QED BY <3>1, ElementOfSeq
  <2>2. u \in [1 .. f -> Nat] /\ \A k \in 1 .. f : u[k] = s[k]
    BY <2>1
  <2> HIDE DEF u
  <2> QED BY <2>2, FnSeq
<1>2. v \in Seq(Nat) /\ Len(v) = e /\ \A k \in 1 .. e : v[k] = s[f + k]
  <2>1. ASSUME NEW k \in 1 .. e PROVE s[f + k] \in Nat
    <3>1. f + k \in 1 .. Len(s)
      OBVIOUS
    <3> QED BY <3>1, ElementOfSeq
  <2>2. v \in [1 .. e -> Nat] /\ \A k \in 1 .. e : v[k] = s[f + k]
    BY <2>1
  <2> HIDE DEF v
  <2> QED BY <2>2, FnSeq
<1> HIDE DEF u, v
<1> DEFINE w == u \o v
<1>3. /\ w \in Seq(Nat) /\ Len(w) = f + e
      /\ \A k \in 1 .. f : w[k] = u[k]
      /\ \A k \in 1 .. e : w[f + k] = v[k]
  <2>1. /\ w \in Seq(Nat) /\ Len(w) = Len(u) + Len(v)
        /\ \A k \in 1 .. Len(u) : w[k] = u[k]
        /\ \A k \in 1 .. Len(v) : w[Len(u) + k] = v[k]
    BY <1>1, <1>2, Cat
  <2> QED BY Zenon, <1>1, <1>2, <2>1
<1> HIDE DEF w
<1>4. ASSUME NEW k \in 1 .. f + e PROVE s[k] = w[k]
  <2>1. k \in 1 .. f \/ (k - f \in 1 .. e /\ f + (k - f) = k)
    OBVIOUS
  <2>2. CASE k \in 1 .. f
    BY Zenon, <1>1, <1>3, <2>2
  <2>3. CASE k - f \in 1 .. e /\ f + (k - f) = k
    BY Zenon, <1>2, <1>3, <2>3
  <2> QED BY <2>1, <2>2, <2>3
<1>5. s = w
  BY <1>3, <1>4, SameSeq
<1> QED BY Zenon, <1>1, <1>2, <1>5 DEF w

-----------------------------------------------------------------------------
(* Room made in the middle of the bytes.                                     *)

LEMMA OctetsCat ==
  ASSUME NEW p \in Octets, NEW q \in Octets
  PROVE  p ++ q \in Octets /\ Size(p ++ q) = Size(p) + Size(q)
BY SMT DEF Octets, ++, Size

LEMMA OctetsSize == ASSUME NEW p \in Octets PROVE Size(p) \in Nat
BY SMT DEF Octets, Size

LEMMA OctetsAssoc ==
  ASSUME NEW p \in Octets, NEW q \in Octets, NEW r \in Octets
  PROVE  (p ++ q) ++ r = p ++ (q ++ r)
BY Zenon, Assoc DEF Octets, ++

LEMMA OctetsByte == ASSUME NEW h \in Nat PROVE Byte(h) \in Octets /\ Size(Byte(h)) = 1
BY SMT DEF Octets, Byte, Size

LEMMA OctetsNone ==
  /\ None \in Octets /\ Size(None) = 0
  /\ \A p \in Octets : p ++ None = p /\ None ++ p = p
<1>1. None \in Octets /\ Size(None) = 0
  BY SMT DEF Octets, None, Size
<1>2. ASSUME NEW p \in Seq(Nat) PROVE p \o << >> = p /\ << >> \o p = p
  BY SMT
<1> QED BY Zenon, <1>1, <1>2 DEF Octets, None, ++

LEMMA OctetsSplit ==
  ASSUME NEW f \in Nat, NEW e \in Nat, NEW s \in Octets, Size(s) = f + e
  PROVE  \E u \in Octets, v \in Octets : Size(u) = f /\ Size(v) = e /\ s = u ++ v
BY Zenon, Split DEF Octets, Size, ++

LEMMA OctetsShift ==
  ASSUME NEW a \in Octets, NEW c \in Octets, NEW g \in Nat
  PROVE  \E j \in Octets : /\ Size(j) = g
                           /\ ShiftUp(Resize(a ++ c, Size(a ++ c) + g), g, Size(c)) = a ++ (j ++ c)
BY Zenon, ShiftCat DEF Octets, Size, ++

(* The byte behind others.                                                  *)
LEMMA OctetsAt ==
  ASSUME NEW p \in Octets, NEW h \in Nat, NEW s \in Octets
  PROVE  At(p ++ (Byte(h) ++ s), Size(p)) = h
<1> DEFINE z == <<h>>
<1>0. p \in Seq(Nat) /\ s \in Seq(Nat)
  BY Zenon DEF Octets
<1>1. z \in Seq(Nat) /\ Len(z) = 1 /\ z[1] = h
  BY Single
<1> HIDE DEF z
<1> DEFINE b == p \o (z \o s)
<1>2. /\ Len(b) = Len(p) + Len(z) + Len(s)
      /\ \A k \in 1 .. Len(z) : b[Len(p) + k] = z[k]
  BY <1>0, <1>1, Cat3
<1> HIDE DEF b
<1>i. PICK i \in Nat : i = Len(p)
  BY <1>0, Cat
<1>l. PICK l \in Nat : l = Len(s)
  BY <1>0, Cat
<1>n. PICK n \in Nat : n = Len(z)
  BY <1>1
<1>3. Len(b) = i + n + l /\ \A k \in 1 .. n : b[i + k] = z[k]
  BY Zenon, <1>i, <1>l, <1>n, <1>2
<1>4. n = 1 /\ i < Len(b) /\ 1 \in 1 .. n
  BY <1>1, <1>n, <1>3
<1>5. b[i + 1] = h
  BY Zenon, <1>1, <1>3, <1>4
<1>6. At(b, i) = h
  BY Zenon, <1>4, <1>5 DEF At
<1> QED BY Zenon, <1>i, <1>6 DEF b, z, ++, Byte, Size

(* The space of g bytes before S, and the first byte of S at offset i.      *)
Shifted(A, S, g)      == ShiftUp(Resize(A ++ S, Size(A ++ S) + g), g, Size(S))
HeadMoved(A, S, g, i) == Overwrite(Shifted(A, S, g), i, Byte(At(Shifted(A, S, g), Size(A) + g)))

(* The space for an option of bytes F before the option at offset Size(A),  *)
(* whose header byte hb and bytes X of its delta are followed by R, and its *)
(* new header byte hn with the bytes E of its new delta.                    *)
Fits(F, E, g, X) == Size(F) + Size(E) = g + Size(X)
Room(A, X, R, F, E, hb, hn, g) ==
  /\ At(HeadMoved(A, Byte(hb) ++ (X ++ R), g, Size(A) + Size(F)), Size(A) + Size(F)) = hb
  /\ Overwrite(Overwrite(HeadMoved(A, Byte(hb) ++ (X ++ R), g, Size(A) + Size(F)),
                         Size(A) + Size(F), Byte(hn) ++ E), Size(A), F)
       = A ++ (F ++ (Byte(hn) ++ (E ++ R)))

LEMMA Moved ==
  \A A, X, R, F, E \in Octets : \A hb, hn, g \in Nat : Fits(F, E, g, X) => Room(A, X, R, F, E, hb, hn, g)
<1> SUFFICES ASSUME NEW A \in Octets, NEW X \in Octets, NEW R \in Octets, NEW F \in Octets,
                    NEW E \in Octets, NEW hb \in Nat, NEW hn \in Nat, NEW g \in Nat,
                    Fits(F, E, g, X)
             PROVE  Room(A, X, R, F, E, hb, hn, g)
  BY Zenon
<1>f. Size(F) + Size(E) = g + Size(X)
  BY Zenon DEF Fits
<1> DEFINE S  == Byte(hb) ++ (X ++ R)
           M  == Shifted(A, S, g)
           O1 == HeadMoved(A, S, g, Size(A) + Size(F))
<1>s. S = Byte(hb) ++ (X ++ R)
  OBVIOUS
<1>m. M = ShiftUp(Resize(A ++ S, Size(A ++ S) + g), g, Size(S))
  BY Zenon DEF Shifted
<1>o. O1 = Overwrite(M, Size(A) + Size(F), Byte(At(M, Size(A) + g)))
  BY Zenon DEF HeadMoved
<1> HIDE DEF S, M, O1
<1>a. /\ Byte(hb) \in Octets /\ Size(Byte(hb)) = 1
      /\ Byte(hn) \in Octets /\ Size(Byte(hn)) = 1
  BY SMT, OctetsByte
<1>b. S \in Octets /\ X ++ R \in Octets
  BY SMT, <1>a, <1>s, OctetsCat
<1>1. PICK J \in Octets : Size(J) = g /\ M = A ++ (J ++ S)
  BY SMT, <1>b, <1>m, OctetsShift
<1>2. M = (A ++ J) ++ (Byte(hb) ++ (X ++ R)) /\ Size(A ++ J) = Size(A) + g /\ A ++ J \in Octets
  BY SMT, <1>s, <1>b, <1>1, OctetsAssoc, OctetsCat
<1>3. At(M, Size(A) + g) = hb
  BY SMT, <1>b, <1>2, OctetsAt
<1> DEFINE K == J ++ (Byte(hb) ++ X)
<1>4. K \in Octets /\ Size(K) = Size(F) + (1 + Size(E))
  BY SMT, <1>a, <1>f, <1>1, OctetsCat, OctetsSize
<1>5. M = A ++ (K ++ R)
  BY SMT, <1>s, <1>a, <1>1, OctetsAssoc, OctetsCat
<1>6. Size(F) \in Nat /\ 1 + Size(E) \in Nat /\ Size(E) \in Nat /\ 1 \in Nat
  BY SMT, OctetsSize
<1> HIDE DEF K
<1>7. PICK U \in Octets, V \in Octets : Size(U) = Size(F) /\ Size(V) = 1 + Size(E) /\ K = U ++ V
  BY SMT, <1>4, <1>6, OctetsSplit
<1>8. PICK V1 \in Octets, W \in Octets : Size(V1) = 1 /\ Size(W) = Size(E) /\ V = V1 ++ W
  BY SMT, <1>6, <1>7, OctetsSplit
<1> DEFINE AU == A ++ U
           WR == W ++ R
<1>9. AU \in Octets /\ Size(AU) = Size(A) + Size(F) /\ WR \in Octets
  BY SMT, <1>7, OctetsCat
<1>10. M = AU ++ (V1 ++ WR)
  BY SMT, <1>5, <1>7, <1>8, OctetsAssoc, OctetsCat
<1> HIDE DEF AU, WR
<1>11. O1 = AU ++ (Byte(hb) ++ WR)
  BY SMT, <1>a, <1>o, <1>3, <1>8, <1>9, <1>10, OctetsOver
<1>12. At(O1, Size(A) + Size(F)) = hb
  BY SMT, <1>9, <1>11, OctetsAt
<1>13. O1 = AU ++ ((Byte(hb) ++ W) ++ R)
  BY SMT, <1>a, <1>11, OctetsAssoc DEF WR
<1>14. /\ Byte(hb) ++ W \in Octets /\ Byte(hn) ++ E \in Octets
       /\ Size(Byte(hb) ++ W) = Size(Byte(hn) ++ E)
  BY SMT, <1>a, <1>8, OctetsCat
<1> DEFINE O2 == Overwrite(O1, Size(A) + Size(F), Byte(hn) ++ E)
<1>15. O2 = AU ++ ((Byte(hn) ++ E) ++ R)
  BY SMT, <1>9, <1>13, <1>14, OctetsOver
<1> HIDE DEF O2
<1>16. O2 = A ++ (U ++ (Byte(hn) ++ (E ++ R))) /\ Byte(hn) ++ (E ++ R) \in Octets
  BY SMT, <1>a, <1>15, OctetsAssoc, OctetsCat DEF AU
<1>17. Overwrite(O2, Size(A), F) = A ++ (F ++ (Byte(hn) ++ (E ++ R)))
  BY SMT, <1>7, <1>16, OctetsOver
<1> QED BY Zenon, <1>12, <1>17 DEF O2, O1, S, Room

-----------------------------------------------------------------------------
(* The loops of the class, round by round.                                   *)

(* What one more value makes of a function of 0 .. n.                       *)
Extend(f, n, x) == [k \in 0 .. n + 1 |-> IF k <= n THEN f[k] ELSE x]

LEMMA Count0 ==
  ASSUME NEW n \in Nat
  PROVE  /\ \A k \in 0 .. n + 1 : k = n + 1 \/ k \in 0 .. n
         /\ \A k \in 0 .. n : k # 0 => k - 1 \in 0 .. n
         /\ n + 1 # 0 /\ (n + 1) - 1 = n /\ n \in 0 .. n
BY SMT

(* The loop of AddAll by its rounds.                                        *)
AddSteps(f, n, p, es) == f = [k \in 0 .. n |-> IF k = 0 THEN p ELSE AddTo(f[k - 1], es[k])]

LEMMA AddStepsExist == ASSUME NEW p, NEW es PROVE \A n \in Nat : \E f : AddSteps(f, n, p, es)
<1> DEFINE T == {n \in Nat : \E f : AddSteps(f, n, p, es)}
<1>1. 0 \in T
  <2>1. AddSteps([k \in 0 .. 0 |-> p], 0, p, es)
    BY SMT DEF AddSteps
  <2> QED BY Zenon, <2>1
<1>2. ASSUME NEW n \in Nat, n \in T PROVE n + 1 \in T
  <2>1. PICK f : AddSteps(f, n, p, es)
    BY <1>2
  <2> DEFINE x == AddTo(f[n], es[n + 1])
             g == Extend(f, n, x)
  <2> HIDE DEF x
  <2>2. /\ \A k \in 0 .. n : g[k] = f[k]
        /\ g[n + 1] = x
        /\ g = [k \in 0 .. n + 1 |-> g[k]]
    BY SMT DEF Extend
  <2> HIDE DEF g
  <2>3. \A k \in 0 .. n : f[k] = IF k = 0 THEN p ELSE AddTo(f[k - 1], es[k])
    BY Zenon, <2>1 DEF AddSteps
  <2>4. ASSUME NEW k \in 0 .. n + 1
        PROVE  g[k] = IF k = 0 THEN p ELSE AddTo(g[k - 1], es[k])
    <3>1. CASE k = n + 1
      BY Zenon, <2>2, <3>1, Count0 DEF x
    <3>2. CASE k \in 0 .. n
      BY Zenon, <2>2, <2>3, <3>2, Count0
    <3> QED BY Zenon, Count0, <3>1, <3>2
  <2>5. AddSteps(g, n + 1, p, es)
    BY Zenon, <2>2, <2>4 DEF AddSteps
  <2> QED BY <2>5
<1> HIDE DEF T
<1>3. \A n \in Nat : n \in T
  BY <1>1, <1>2, Induction
<1> QED BY <1>3 DEF T

LEMMA AddIs ==
  ASSUME NEW p, NEW es, Len(es) \in Nat
  PROVE  \E f : /\ AddAll(p, es) = f[Len(es)]
                /\ f[0] = p
                /\ \A k \in 0 .. Len(es) : k # 0 => f[k] = AddTo(f[k - 1], es[k])
<1> DEFINE after[k \in 0 .. Len(es)] == IF k = 0 THEN p ELSE AddTo(after[k - 1], es[k])
<1>1. \E f : f = [k \in 0 .. Len(es) |-> IF k = 0 THEN p ELSE AddTo(f[k - 1], es[k])]
  <2>1. PICK f : AddSteps(f, Len(es), p, es)
    BY Zenon, AddStepsExist
  <2> QED BY Zenon, <2>1 DEF AddSteps
<1>2. after = [k \in 0 .. Len(es) |-> IF k = 0 THEN p ELSE AddTo(after[k - 1], es[k])]
  BY Zenon, <1>1
<1>3. AddAll(p, es) = after[Len(es)]
  BY Zenon DEF AddAll
<1> HIDE DEF after
<1>4. \A k \in 0 .. Len(es) : after[k] = IF k = 0 THEN p ELSE AddTo(after[k - 1], es[k])
  BY Zenon, <1>2
<1>5. 0 \in 0 .. Len(es)
  BY SMT
<1> QED BY Zenon, <1>3, <1>4, <1>5

(* The loop of InOrderAll by its rounds.                                    *)
InOrderSteps(f, n, options, es) == f = [k \in 0 .. n |-> IF k = 0 THEN options ELSE InOrder(f[k - 1], es[k])]

LEMMA InOrderStepsExist == ASSUME NEW options, NEW es PROVE \A n \in Nat : \E f : InOrderSteps(f, n, options, es)
<1> DEFINE T == {n \in Nat : \E f : InOrderSteps(f, n, options, es)}
<1>1. 0 \in T
  <2>1. InOrderSteps([k \in 0 .. 0 |-> options], 0, options, es)
    BY SMT DEF InOrderSteps
  <2> QED BY Zenon, <2>1
<1>2. ASSUME NEW n \in Nat, n \in T PROVE n + 1 \in T
  <2>1. PICK f : InOrderSteps(f, n, options, es)
    BY <1>2
  <2> DEFINE x == InOrder(f[n], es[n + 1])
             g == Extend(f, n, x)
  <2> HIDE DEF x
  <2>2. /\ \A k \in 0 .. n : g[k] = f[k]
        /\ g[n + 1] = x
        /\ g = [k \in 0 .. n + 1 |-> g[k]]
    BY SMT DEF Extend
  <2> HIDE DEF g
  <2>3. \A k \in 0 .. n : f[k] = IF k = 0 THEN options ELSE InOrder(f[k - 1], es[k])
    BY Zenon, <2>1 DEF InOrderSteps
  <2>4. ASSUME NEW k \in 0 .. n + 1
        PROVE  g[k] = IF k = 0 THEN options ELSE InOrder(g[k - 1], es[k])
    <3>1. CASE k = n + 1
      BY Zenon, <2>2, <3>1, Count0 DEF x
    <3>2. CASE k \in 0 .. n
      BY Zenon, <2>2, <2>3, <3>2, Count0
    <3> QED BY Zenon, Count0, <3>1, <3>2
  <2>5. InOrderSteps(g, n + 1, options, es)
    BY Zenon, <2>2, <2>4 DEF InOrderSteps
  <2> QED BY <2>5
<1> HIDE DEF T
<1>3. \A n \in Nat : n \in T
  BY <1>1, <1>2, Induction
<1> QED BY <1>3 DEF T

LEMMA InOrderIs ==
  ASSUME NEW options, NEW es, Len(es) \in Nat
  PROVE  \E f : /\ InOrderAll(options, es) = f[Len(es)]
                /\ f[0] = options
                /\ \A k \in 0 .. Len(es) : k # 0 => f[k] = InOrder(f[k - 1], es[k])
<1> DEFINE after[k \in 0 .. Len(es)] == IF k = 0 THEN options ELSE InOrder(after[k - 1], es[k])
<1>1. \E f : f = [k \in 0 .. Len(es) |-> IF k = 0 THEN options ELSE InOrder(f[k - 1], es[k])]
  <2>1. PICK f : InOrderSteps(f, Len(es), options, es)
    BY Zenon, InOrderStepsExist
  <2> QED BY Zenon, <2>1 DEF InOrderSteps
<1>2. after = [k \in 0 .. Len(es) |-> IF k = 0 THEN options ELSE InOrder(after[k - 1], es[k])]
  BY Zenon, <1>1
<1>3. InOrderAll(options, es) = after[Len(es)]
  BY Zenon DEF InOrderAll
<1> HIDE DEF after
<1>4. \A k \in 0 .. Len(es) : after[k] = IF k = 0 THEN options ELSE InOrder(after[k - 1], es[k])
  BY Zenon, <1>2
<1>5. 0 \in 0 .. Len(es)
  BY SMT
<1> QED BY Zenon, <1>3, <1>4, <1>5

(* The bytes s and those of the k-th option.                                *)
FieldStep(prev, os, s, k) == s \o Field(Last(prev, SubSeq(os, 1, k - 1)), os[k])

(* The bytes of options, one more in every round.                           *)
FieldsSteps(f, n, prev, os) == f = [k \in 0 .. n |-> IF k = 0 THEN << >> ELSE FieldStep(prev, os, f[k - 1], k)]

LEMMA FieldsStepsExist == ASSUME NEW prev, NEW os PROVE \A n \in Nat : \E f : FieldsSteps(f, n, prev, os)
<1> DEFINE T == {n \in Nat : \E f : FieldsSteps(f, n, prev, os)}
<1>1. 0 \in T
  <2>1. FieldsSteps([k \in 0 .. 0 |-> << >>], 0, prev, os)
    BY SMT DEF FieldsSteps
  <2> QED BY Zenon, <2>1
<1>2. ASSUME NEW n \in Nat, n \in T PROVE n + 1 \in T
  <2>1. PICK f : FieldsSteps(f, n, prev, os)
    BY <1>2
  <2> DEFINE x == FieldStep(prev, os, f[n], n + 1)
             g == Extend(f, n, x)
  <2> HIDE DEF x
  <2>2. /\ \A k \in 0 .. n : g[k] = f[k]
        /\ g[n + 1] = x
        /\ g = [k \in 0 .. n + 1 |-> g[k]]
    BY SMT DEF Extend
  <2> HIDE DEF g
  <2>3. \A k \in 0 .. n : f[k] = IF k = 0 THEN << >> ELSE FieldStep(prev, os, f[k - 1], k)
    BY Zenon, <2>1 DEF FieldsSteps
  <2>4. ASSUME NEW k \in 0 .. n + 1
        PROVE  g[k] = IF k = 0 THEN << >> ELSE FieldStep(prev, os, g[k - 1], k)
    <3>1. CASE k = n + 1
      BY Zenon, <2>2, <3>1, Count0 DEF x
    <3>2. CASE k \in 0 .. n
      BY Zenon, <2>2, <2>3, <3>2, Count0
    <3> QED BY Zenon, Count0, <3>1, <3>2
  <2>5. FieldsSteps(g, n + 1, prev, os)
    BY Zenon, <2>2, <2>4 DEF FieldsSteps
  <2> QED BY <2>5
<1> HIDE DEF T
<1>3. \A n \in Nat : n \in T
  BY <1>1, <1>2, Induction
<1> QED BY <1>3 DEF T

LEMMA FieldsIs ==
  ASSUME NEW prev, NEW os, Len(os) \in Nat
  PROVE  \E f : /\ Fields(prev, os) = f[Len(os)]
                /\ f[0] = << >>
                /\ \A k \in 0 .. Len(os) : k # 0 => f[k] = FieldStep(prev, os, f[k - 1], k)
<1> DEFINE enc[k \in 0 .. Len(os)] == IF k = 0 THEN << >> ELSE FieldStep(prev, os, enc[k - 1], k)
<1>1. \E f : f = [k \in 0 .. Len(os) |-> IF k = 0 THEN << >> ELSE FieldStep(prev, os, f[k - 1], k)]
  <2>1. PICK f : FieldsSteps(f, Len(os), prev, os)
    BY Zenon, FieldsStepsExist
  <2> QED BY Zenon, <2>1 DEF FieldsSteps, FieldStep
<1>2. enc = [k \in 0 .. Len(os) |-> IF k = 0 THEN << >> ELSE FieldStep(prev, os, enc[k - 1], k)]
  BY Zenon, <1>1
<1>3. Fields(prev, os) = enc[Len(os)]
  BY Zenon DEF Fields, FieldStep
<1> HIDE DEF enc
<1>4. \A k \in 0 .. Len(os) : enc[k] = IF k = 0 THEN << >> ELSE FieldStep(prev, os, enc[k - 1], k)
  BY Zenon, <1>2 DEF FieldStep
<1>5. 0 \in 0 .. Len(os)
  BY SMT
<1> QED BY Zenon, <1>3, <1>4, <1>5

(* One option more in Walk.                                                 *)
WalkStart(b) == [at |-> HDR + TokenLength(b), number |-> 0, options |-> << >>]
WalkStep(b, w) ==
  LET o == OptionAt(b, w.at, w.number)
  IN [at |-> w.at + o.total, number |-> o.number,
      options |-> Append(w.options, Element(o.number, o.value))]

(* The loop of Walk by its rounds.                                          *)
WalkSteps(f, n, b, m) == f = [k \in 0 .. n |-> IF k = 0 THEN WalkStart(b) ELSE WalkStep(b, f[k - 1])]

LEMMA WalkStepsExist == ASSUME NEW b, NEW m PROVE \A n \in Nat : \E f : WalkSteps(f, n, b, m)
<1> DEFINE T == {n \in Nat : \E f : WalkSteps(f, n, b, m)}
<1>1. 0 \in T
  <2>1. WalkSteps([k \in 0 .. 0 |-> WalkStart(b)], 0, b, m)
    BY SMT DEF WalkSteps
  <2> QED BY Zenon, <2>1
<1>2. ASSUME NEW n \in Nat, n \in T PROVE n + 1 \in T
  <2>1. PICK f : WalkSteps(f, n, b, m)
    BY <1>2
  <2> DEFINE x == WalkStep(b, f[n])
             g == Extend(f, n, x)
  <2> HIDE DEF x
  <2>2. /\ \A k \in 0 .. n : g[k] = f[k]
        /\ g[n + 1] = x
        /\ g = [k \in 0 .. n + 1 |-> g[k]]
    BY SMT DEF Extend
  <2> HIDE DEF g
  <2>3. \A k \in 0 .. n : f[k] = IF k = 0 THEN WalkStart(b) ELSE WalkStep(b, f[k - 1])
    BY Zenon, <2>1 DEF WalkSteps
  <2>4. ASSUME NEW k \in 0 .. n + 1
        PROVE  g[k] = IF k = 0 THEN WalkStart(b) ELSE WalkStep(b, g[k - 1])
    <3>1. CASE k = n + 1
      BY Zenon, <2>2, <3>1, Count0 DEF x
    <3>2. CASE k \in 0 .. n
      BY Zenon, <2>2, <2>3, <3>2, Count0
    <3> QED BY Zenon, Count0, <3>1, <3>2
  <2>5. WalkSteps(g, n + 1, b, m)
    BY Zenon, <2>2, <2>4 DEF WalkSteps
  <2> QED BY <2>5
<1> HIDE DEF T
<1>3. \A n \in Nat : n \in T
  BY <1>1, <1>2, Induction
<1> QED BY <1>3 DEF T

LEMMA WalkIs ==
  ASSUME NEW b, NEW m, m \in Nat
  PROVE  \E f : /\ Walk(b, m) = f[m]
                /\ f[0] = WalkStart(b)
                /\ \A k \in 0 .. m : k # 0 => f[k] = WalkStep(b, f[k - 1])
<1> DEFINE walk[j \in 0 .. m] == IF j = 0 THEN [at |-> HDR + TokenLength(b), number |-> 0, options |-> << >>]
             ELSE LET w == walk[j - 1]
                      o == OptionAt(b, w.at, w.number)
                  IN [at |-> w.at + o.total, number |-> o.number,
                      options |-> Append(w.options, Element(o.number, o.value))]
<1>1. \E f : f = [j \in 0 .. m |-> IF j = 0 THEN [at |-> HDR + TokenLength(b), number |-> 0, options |-> << >>]
             ELSE LET w == f[j - 1]
                      o == OptionAt(b, w.at, w.number)
                  IN [at |-> w.at + o.total, number |-> o.number,
                      options |-> Append(w.options, Element(o.number, o.value))]]
  <2>1. PICK f : WalkSteps(f, m, b, m)
    BY Zenon, WalkStepsExist
  <2> QED BY Zenon, <2>1 DEF WalkSteps, WalkStart, WalkStep
<1>2. walk = [j \in 0 .. m |-> IF j = 0 THEN [at |-> HDR + TokenLength(b), number |-> 0, options |-> << >>]
             ELSE LET w == walk[j - 1]
                      o == OptionAt(b, w.at, w.number)
                  IN [at |-> w.at + o.total, number |-> o.number,
                      options |-> Append(w.options, Element(o.number, o.value))]]
  BY Zenon, <1>1
<1>3. Walk(b, m) = walk[m]
  BY Zenon DEF Walk, WalkStart, WalkStep
<1> HIDE DEF walk
<1>4. \A k \in 0 .. m : walk[k] = IF k = 0 THEN WalkStart(b) ELSE WalkStep(b, walk[k - 1])
  BY Zenon, <1>2 DEF WalkStart, WalkStep
<1>5. 0 \in 0 .. m
  BY SMT
<1> QED BY Zenon, <1>3, <1>4, <1>5

(* One round of findInsertionPosition.                                      *)
FindStart(b) == [at |-> HDR + TokenLength(b), prev |-> 0, done |-> FALSE]
FindStep(b, nr, w) ==
  IF w.done \/ w.at >= Len(b) \/ At(b, w.at) = MARKER THEN w
  ELSE IF OptionAt(b, w.at, w.prev).number > nr THEN [w EXCEPT !.done = TRUE]
  ELSE [w EXCEPT !.at = @ + OptionAt(b, w.at, w.prev).total, !.prev = OptionAt(b, w.at, w.prev).number]

(* The loop of findInsertionPosition by its rounds.                         *)
FindSteps(f, n, p, nr) == f = [k \in 0 .. n |-> IF k = 0 THEN FindStart(p.pdu) ELSE FindStep(p.pdu, nr, f[k - 1])]

LEMMA FindStepsExist == ASSUME NEW p, NEW nr PROVE \A n \in Nat : \E f : FindSteps(f, n, p, nr)
<1> DEFINE T == {n \in Nat : \E f : FindSteps(f, n, p, nr)}
<1>1. 0 \in T
  <2>1. FindSteps([k \in 0 .. 0 |-> FindStart(p.pdu)], 0, p, nr)
    BY SMT DEF FindSteps
  <2> QED BY Zenon, <2>1
<1>2. ASSUME NEW n \in Nat, n \in T PROVE n + 1 \in T
  <2>1. PICK f : FindSteps(f, n, p, nr)
    BY <1>2
  <2> DEFINE x == FindStep(p.pdu, nr, f[n])
             g == Extend(f, n, x)
  <2> HIDE DEF x
  <2>2. /\ \A k \in 0 .. n : g[k] = f[k]
        /\ g[n + 1] = x
        /\ g = [k \in 0 .. n + 1 |-> g[k]]
    BY SMT DEF Extend
  <2> HIDE DEF g
  <2>3. \A k \in 0 .. n : f[k] = IF k = 0 THEN FindStart(p.pdu) ELSE FindStep(p.pdu, nr, f[k - 1])
    BY Zenon, <2>1 DEF FindSteps
  <2>4. ASSUME NEW k \in 0 .. n + 1
        PROVE  g[k] = IF k = 0 THEN FindStart(p.pdu) ELSE FindStep(p.pdu, nr, g[k - 1])
    <3>1. CASE k = n + 1
      BY Zenon, <2>2, <3>1, Count0 DEF x
    <3>2. CASE k \in 0 .. n
      BY Zenon, <2>2, <2>3, <3>2, Count0
    <3> QED BY Zenon, Count0, <3>1, <3>2
  <2>5. FindSteps(g, n + 1, p, nr)
    BY Zenon, <2>2, <2>4 DEF FindSteps
  <2> QED BY <2>5
<1> HIDE DEF T
<1>3. \A n \in Nat : n \in T
  BY <1>1, <1>2, Induction
<1> QED BY <1>3 DEF T

LEMMA FindIs ==
  ASSUME NEW p, NEW nr, p.num + 1 \in Nat
  PROVE  \E f : /\ InsertionPosition(p, nr) =
                     IF nr >= p.max \/ Len(p.pdu) = HDR + TokenLength(p.pdu)
                     THEN [at |-> Len(p.pdu), prev |-> p.max, done |-> TRUE]
                     ELSE f[p.num + 1]
                /\ f[0] = FindStart(p.pdu)
                /\ \A k \in 0 .. p.num + 1 : k # 0 => f[k] = FindStep(p.pdu, nr, f[k - 1])
<1> DEFINE loop[j \in 0 .. p.num + 1] == IF j = 0 THEN FindStart(p.pdu) ELSE FindStep(p.pdu, nr, loop[j - 1])
<1>1. \E f : f = [j \in 0 .. p.num + 1 |-> IF j = 0 THEN FindStart(p.pdu) ELSE FindStep(p.pdu, nr, f[j - 1])]
  <2>1. PICK f : FindSteps(f, p.num + 1, p, nr)
    BY Zenon, FindStepsExist
  <2> QED BY Zenon, <2>1 DEF FindSteps, FindStart, FindStep
<1>2. loop = [j \in 0 .. p.num + 1 |-> IF j = 0 THEN FindStart(p.pdu) ELSE FindStep(p.pdu, nr, loop[j - 1])]
  BY Zenon, <1>1
<1>3. InsertionPosition(p, nr) =
                     IF nr >= p.max \/ Len(p.pdu) = HDR + TokenLength(p.pdu)
                     THEN [at |-> Len(p.pdu), prev |-> p.max, done |-> TRUE]
                     ELSE loop[p.num + 1]
  BY Zenon DEF InsertionPosition, FindStart, FindStep
<1> HIDE DEF loop
<1>4. \A k \in 0 .. p.num + 1 : loop[k] = IF k = 0 THEN FindStart(p.pdu) ELSE FindStep(p.pdu, nr, loop[k - 1])
  BY Zenon, <1>2 DEF FindStart, FindStep
<1>5. 0 \in 0 .. p.num + 1
  BY SMT
<1> QED BY Zenon, <1>3, <1>4, <1>5

-----------------------------------------------------------------------------
(* The algebra of options: P ** Q.                                           *)

(***************************************************************************)
(* Lists of options, in the same way.                                      *)
(***************************************************************************)
Lists == Seq(Held)
P ** Q == P \o Q
One(o) == <<o>>
Nil == << >>
Count(P) == Len(P)

LEMMA ListsCat ==
  ASSUME NEW P \in Lists, NEW Q \in Lists
  PROVE  P ** Q \in Lists /\ Count(P ** Q) = Count(P) + Count(Q)
<1> DEFINE H == Held
<1> HIDE DEF H
<1>1. ASSUME NEW s \in Seq(H), NEW t \in Seq(H) PROVE s \o t \in Seq(H) /\ Len(s \o t) = Len(s) + Len(t)
  BY SMT
<1> QED BY Zenon, <1>1 DEF Lists, **, Count, H

LEMMA ListsCount == ASSUME NEW P \in Lists PROVE Count(P) \in Nat
<1> DEFINE H == Held
<1> HIDE DEF H
<1>1. ASSUME NEW s \in Seq(H) PROVE Len(s) \in Nat
  BY SMT
<1> QED BY Zenon, <1>1 DEF Lists, Count, H

LEMMA ListsAssoc ==
  ASSUME NEW P \in Lists, NEW Q \in Lists, NEW R \in Lists
  PROVE  (P ** Q) ** R = P ** (Q ** R)
<1> DEFINE H == Held
<1> HIDE DEF H
<1>1. ASSUME NEW s \in Seq(H), NEW t \in Seq(H), NEW u \in Seq(H) PROVE (s \o t) \o u = s \o (t \o u)
  BY SMT
<1> QED BY Zenon, <1>1 DEF Lists, **, H

LEMMA ListsOne ==
  ASSUME NEW o \in Held
  PROVE  One(o) \in Lists /\ Count(One(o)) = 1 /\ \A P \in Lists : Append(P, o) = P ** One(o)
<1> DEFINE H == Held
<1>0. o \in H
  OBVIOUS
<1> HIDE DEF H
<1>1. <<o>> \in Seq(H) /\ Len(<<o>>) = 1
  BY SMT, <1>0
<1>2. ASSUME NEW s \in Seq(H) PROVE Append(s, o) = s \o <<o>>
  BY SMT, <1>0
<1> QED BY Zenon, <1>1, <1>2 DEF Lists, Count, One, **, H

LEMMA ListsNil ==
  /\ Nil \in Lists /\ Count(Nil) = 0
  /\ \A P \in Lists : P ** Nil = P /\ Nil ** P = P /\ (Count(P) = 0 => P = Nil)
<1> DEFINE H == Held
<1> HIDE DEF H
<1>1. << >> \in Seq(H) /\ Len(<< >>) = 0
  BY SMT
<1>2. ASSUME NEW s \in Seq(H) PROVE s \o << >> = s /\ << >> \o s = s /\ (Len(s) = 0 => s = << >>)
  BY SMT
<1> QED BY Zenon, <1>1, <1>2 DEF Lists, Count, Nil, **, H

(* The elements of a concatenation.                                         *)
LEMMA ListsElement ==
  ASSUME NEW P \in Lists, NEW o \in Held
  PROVE  /\ (P ** One(o))[Count(P) + 1] = o
         /\ \A k \in 1 .. Count(P) : (P ** One(o))[k] = P[k]
         /\ \A k \in 1 .. Count(P) + 1 : SubSeq(P ** One(o), 1, k - 1) = SubSeq(P, 1, k - 1)
         /\ SubSeq(P, 1, Count(P)) = P
         /\ P ** One(o) # << >>
<1> DEFINE H == Held
<1>0. o \in H /\ P \in Seq(H)
  BY DEF Lists
<1> HIDE DEF H
<1> DEFINE s == P \o <<o>>
<1>1. PICK n \in Nat : n = Len(P)
  BY SMT, <1>0
<1>2. /\ s \in Seq(H) /\ Len(s) = n + 1 /\ s[n + 1] = o
      /\ \A k \in 1 .. n : s[k] = P[k]
  BY SMT, <1>0, <1>1
<1> HIDE DEF s
<1>3. ASSUME NEW k \in 1 .. n + 1 PROVE SubSeq(s, 1, k - 1) = SubSeq(P, 1, k - 1)
  <2>1. SubSeq(s, 1, k - 1) = [i \in 1 .. (k - 1) |-> s[i]]
    BY SMT, <1>2
  <2>2. SubSeq(P, 1, k - 1) = [i \in 1 .. (k - 1) |-> P[i]]
    BY SMT, <1>0, <1>1
  <2>3. \A i \in 1 .. (k - 1) : s[i] = P[i]
    BY SMT, <1>2
  <2> QED BY Zenon, <2>1, <2>2, <2>3
<1>4. SubSeq(P, 1, n) = P
  BY SMT, <1>0, <1>1
<1>5. s # << >>
  BY SMT, <1>2
<1> QED BY Zenon, <1>1, <1>2, <1>3, <1>4, <1>5 DEF s, Count, **, One

(* The last option, and the ones before it.                                 *)
LEMMA ListsLast ==
  ASSUME NEW P \in Lists, NEW j \in Nat, Count(P) = j + 1
  PROVE  \E F \in Lists, o \in Held : P = F ** One(o) /\ Count(F) = j
<1> DEFINE H == Held
           F == [k \in 1 .. j |-> P[k]]
           o == P[j + 1]
<1>0. P \in Seq(H) /\ Len(P) = j + 1
  BY DEF Lists, Count
<1> HIDE DEF H
<1>1. o \in H
  BY SMT, <1>0
<1>2. F \in Seq(H) /\ Len(F) = j /\ \A k \in 1 .. j : F[k] = P[k]
  <2>1. ASSUME NEW k \in 1 .. j PROVE P[k] \in H
    BY SMT, <1>0
  <2>2. F \in [1 .. j -> H] /\ \A k \in 1 .. j : F[k] = P[k]
    BY SMT, <2>1
  <2> HIDE DEF F
  <2> QED BY SMT, <2>2
<1> HIDE DEF F
<1>3. P = F \o <<o>>
  <2> HIDE DEF o
  <2> DEFINE s == F \o <<o>>
  <2>1. /\ s \in Seq(H) /\ Len(s) = j + 1 /\ s[j + 1] = o
        /\ \A k \in 1 .. j : s[k] = F[k]
    BY SMT, <1>1, <1>2
  <2> HIDE DEF s
  <2>2. ASSUME NEW k \in 1 .. j + 1 PROVE s[k] = P[k]
    <3>1. CASE k \in 1 .. j
      BY Zenon, <3>1, <2>1, <1>2
    <3>2. CASE k = j + 1
      BY Zenon, <3>2, <2>1 DEF o
    <3>3. k \in 1 .. j \/ k = j + 1
      BY SMT
    <3> QED BY Zenon, <3>1, <3>2, <3>3
  <2>3. s = P
    BY SMT, <2>1, <2>2, <1>0
  <2> QED BY Zenon, <2>3 DEF s
<1> QED BY Zenon, <1>1, <1>2, <1>3 DEF Lists, Count, One, **, H

-----------------------------------------------------------------------------
(* Options in ascending order, and their bytes.                              *)

-----------------------------------------------------------------------------
LEMMA LastOf ==
  ASSUME NEW prev
  PROVE  /\ Last(prev, Nil) = prev
         /\ \A P \in Lists, o \in Held : Last(prev, P ** One(o)) = o.number
<1>1. Last(prev, Nil) = prev
  BY Zenon DEF Last, Nil
<1>2. ASSUME NEW P \in Lists, NEW o \in Held PROVE Last(prev, P ** One(o)) = o.number
  <2>1. Count(P ** One(o)) = Count(P) + 1
    BY SMT, ListsCat, ListsOne
  <2>2. (P ** One(o))[Count(P) + 1] = o /\ P ** One(o) # << >>
    BY ListsElement
  <2> QED BY Zenon, <2>1, <2>2 DEF Last, Count
<1> QED BY Zenon, <1>1, <1>2

(* An option number is not below the one before, prev for the first.        *)
Ascending(prev, os) == \A k \in 1 .. Len(os) : Last(prev, SubSeq(os, 1, k - 1)) <= os[k].number

LEMMA AscendingStep ==
  ASSUME NEW prev
  PROVE  /\ Ascending(prev, Nil)
         /\ \A P \in Lists, o \in Held :
              Ascending(prev, P ** One(o)) <=> Ascending(prev, P) /\ Last(prev, P) <= o.number
<1>1. Ascending(prev, Nil)
  BY SMT DEF Ascending, Nil
<1>2. ASSUME NEW P \in Lists, NEW o \in Held
      PROVE Ascending(prev, P ** One(o)) <=> Ascending(prev, P) /\ Last(prev, P) <= o.number
  <2> DEFINE s == P ** One(o)
  <2>n. PICK n \in Nat : n = Count(P)
    BY ListsCount
  <2>1. Len(s) = n + 1
    <3>1. Count(s) = Count(P) + 1
      BY SMT, ListsCat, ListsOne
    <3> QED BY Zenon, <2>n, <3>1 DEF Count
  <2>2. /\ s[n + 1] = o
        /\ \A k \in 1 .. n : s[k] = P[k]
        /\ \A k \in 1 .. n + 1 : SubSeq(s, 1, k - 1) = SubSeq(P, 1, k - 1)
        /\ SubSeq(P, 1, n) = P
    BY Zenon, <2>n, ListsElement
  <2> HIDE DEF s
  <2>3. /\ \A k \in 1 .. n : k \in 1 .. n + 1
        /\ n + 1 \in 1 .. n + 1 /\ (n + 1) - 1 = n
        /\ \A k \in 1 .. n + 1 : k = n + 1 \/ k \in 1 .. n
    BY SMT
  <2>4. Len(P) = n
    BY Zenon, <2>n DEF Count
  <2>5. ASSUME Ascending(prev, s) PROVE Ascending(prev, P) /\ Last(prev, P) <= o.number
    <3>1. \A k \in 1 .. n + 1 : Last(prev, SubSeq(s, 1, k - 1)) <= s[k].number
      BY Zenon, <2>5, <2>1 DEF Ascending
    <3>2. Last(prev, P) <= o.number
      BY Zenon, <3>1, <2>2, <2>3
    <3>3. ASSUME NEW k \in 1 .. n PROVE Last(prev, SubSeq(P, 1, k - 1)) <= P[k].number
      <4>1. k \in 1 .. n + 1
        BY Zenon, <2>3
      <4> QED BY Zenon, <4>1, <3>1, <2>2
    <3> QED BY Zenon, <3>2, <3>3, <2>4 DEF Ascending
  <2>6. ASSUME Ascending(prev, P), Last(prev, P) <= o.number PROVE Ascending(prev, s)
    <3>1. \A k \in 1 .. n : Last(prev, SubSeq(P, 1, k - 1)) <= P[k].number
      BY Zenon, <2>6, <2>4 DEF Ascending
    <3>2. ASSUME NEW k \in 1 .. n + 1 PROVE Last(prev, SubSeq(s, 1, k - 1)) <= s[k].number
      <4>1. CASE k = n + 1
        <5>1. SubSeq(s, 1, k - 1) = P
          BY Zenon, <4>1, <2>2, <2>3
        <5> QED BY Zenon, <4>1, <5>1, <2>2, <2>6
      <4>2. CASE k \in 1 .. n
        BY Zenon, <4>2, <3>1, <2>2
      <4> QED BY Zenon, <4>1, <4>2, <2>3
    <3> QED BY Zenon, <3>2, <2>1 DEF Ascending
  <2> QED BY Zenon, <2>5, <2>6 DEF s
<1> QED BY Zenon, <1>1, <1>2

LEMMA FieldsStep ==
  ASSUME NEW prev
  PROVE  /\ Fields(prev, Nil) = None
         /\ \A P \in Lists, o \in Held :
              Fields(prev, P ** One(o)) = Fields(prev, P) ++ Field(Last(prev, P), o)
<1>1. Fields(prev, Nil) = None
  <2>0. Len(Nil) = 0 /\ 0 \in Nat
    BY SMT DEF Nil
  <2>1. PICK f : Fields(prev, Nil) = f[Len(Nil)] /\ f[0] = << >>
    BY Zenon, <2>0, FieldsIs
  <2> QED BY Zenon, <2>0, <2>1 DEF None
<1>2. ASSUME NEW P \in Lists, NEW o \in Held
      PROVE Fields(prev, P ** One(o)) = Fields(prev, P) ++ Field(Last(prev, P), o)
  <2> DEFINE s == P ** One(o)
  <2>n. PICK n \in Nat : n = Count(P)
    BY ListsCount
  <2>1. Len(s) = n + 1 /\ n + 1 \in Nat
    <3>1. Count(s) = Count(P) + 1
      BY SMT, ListsCat, ListsOne
    <3>2. n + 1 \in Nat
      BY SMT
    <3> QED BY Zenon, <2>n, <3>1, <3>2 DEF Count
  <2>2. /\ s[n + 1] = o
        /\ \A k \in 1 .. n : s[k] = P[k]
        /\ \A k \in 1 .. n + 1 : SubSeq(s, 1, k - 1) = SubSeq(P, 1, k - 1)
        /\ SubSeq(P, 1, n) = P
    BY Zenon, <2>n, ListsElement
  <2> HIDE DEF s
  <2>4. Len(P) = n
    BY Zenon, <2>n DEF Count
  <2>5. PICK f : /\ Fields(prev, s) = f[n + 1]
                 /\ f[0] = << >>
                 /\ \A k \in 0 .. n + 1 : k # 0 => f[k] = FieldStep(prev, s, f[k - 1], k)
    <3>1. \E f : /\ Fields(prev, s) = f[Len(s)]
                 /\ f[0] = << >>
                 /\ \A k \in 0 .. Len(s) : k # 0 => f[k] = FieldStep(prev, s, f[k - 1], k)
      BY Zenon, <2>1, FieldsIs
    <3> QED BY Zenon, <3>1, <2>1
  <2>6. PICK g : /\ Fields(prev, P) = g[n]
                 /\ g[0] = << >>
                 /\ \A k \in 0 .. n : k # 0 => g[k] = FieldStep(prev, P, g[k - 1], k)
    <3>1. \E i : /\ Fields(prev, P) = i[Len(P)]
                 /\ i[0] = << >>
                 /\ \A k \in 0 .. Len(P) : k # 0 => i[k] = FieldStep(prev, P, i[k - 1], k)
      <4>1. Len(P) \in Nat
        BY Zenon, <2>4
      <4> QED BY <4>1, FieldsIs
    <3> QED BY Zenon, <3>1, <2>4
  <2> DEFINE T == {k \in Nat : k <= n => f[k] = g[k]}
  <2>7. 0 \in T
    BY <2>5, <2>6
  <2>8. ASSUME NEW k \in Nat, k \in T PROVE k + 1 \in T
    <3>1. SUFFICES ASSUME k + 1 <= n PROVE f[k + 1] = g[k + 1]
      BY SMT
    <3>2. /\ k + 1 \in 0 .. n + 1 /\ k + 1 \in 0 .. n /\ k + 1 # 0 /\ (k + 1) - 1 = k
          /\ k + 1 \in 1 .. n + 1 /\ k + 1 \in 1 .. n
      BY SMT, <3>1
    <3>3. f[k] = g[k]
      BY SMT, <2>8, <3>1
    <3> HIDE DEF T
    <3>4. f[k + 1] = FieldStep(prev, s, f[k], k + 1) /\ g[k + 1] = FieldStep(prev, P, g[k], k + 1)
      BY Zenon, <2>5, <2>6, <3>2
    <3>5. SubSeq(s, 1, (k + 1) - 1) = SubSeq(P, 1, (k + 1) - 1) /\ s[k + 1] = P[k + 1]
      BY Zenon, <2>2, <3>2
    <3> QED BY Zenon, <3>3, <3>4, <3>5 DEF FieldStep
  <2> HIDE DEF T
  <2>9. \A k \in Nat : k \in T
    BY <2>7, <2>8, Induction
  <2>10. f[n] = g[n]
    BY <2>9 DEF T
  <2>11. n + 1 \in 0 .. n + 1 /\ n + 1 # 0 /\ (n + 1) - 1 = n /\ n + 1 \in 1 .. n + 1
    BY SMT
  <2>12. f[n + 1] = FieldStep(prev, s, f[n], n + 1)
    BY Zenon, <2>5, <2>11
  <2>13. SubSeq(s, 1, (n + 1) - 1) = P
    BY Zenon, <2>2, <2>11
  <2> QED BY Zenon, <2>2, <2>5, <2>6, <2>10, <2>12, <2>13 DEF FieldStep, s, ++
<1> QED BY Zenon, <1>1, <1>2

-----------------------------------------------------------------------------
(* One option and its header.                                                *)

(* A number held in 16 bits is kept by a difference and its sum.            *)
LEMMA Difference ==
  ASSUME NEW a \in Uint16, NEW b \in Uint16, a <= b
  PROVE  /\ b - a \in Uint16 /\ (b - a) % 65536 = b - a
         /\ Number(a, b - a) = b
         /\ a \in Nat /\ b \in Nat
BY SMT DEF Uint16, Number

LEMMA HeldParts ==
  ASSUME NEW o \in Held
  PROVE  /\ o.number \in Uint16 /\ o.number \in Nat
         /\ o.value \in Octets /\ Len(o.value) <= 255
         /\ Element(o.number, o.value) = o
<1>1. o.number \in Uint16 /\ o.value \in Seq(Nat) /\ Len(o.value) <= 255 /\ Element(o.number, o.value) = o
  BY SMT DEF Held, Element
<1>2. o.number \in Nat
  BY <1>1, Bounds16
<1> QED BY Zenon, <1>1, <1>2 DEF Octets

(* What insertOption writes for a delta and a value.                        *)
Option(d, v)  == Header(d, Len(v)) \o v
Rest(v)       == Ext(Len(v)) \o v
TopByte(d, v) == Nibble(d) * 16 + Nibble(Len(v))
Extra(d)      == Ext(d)

LEMMA OptionShape ==
  ASSUME NEW d \in Uint16, NEW v \in Octets, Len(v) <= 255
  PROVE  /\ Option(d, v) \in Octets
         /\ Size(Option(d, v)) = 1 + ExtraBytes(d) + ExtraBytes(Len(v)) + Len(v)
         /\ Size(Option(d, v)) > 0
<1>0. v \in Seq(Nat)
  BY Zenon DEF Octets
<1>1. /\ Header(d, Len(v)) \o v \in Seq(Nat)
      /\ Len(Header(d, Len(v)) \o v) = 1 + ExtraBytes(d) + ExtraBytes(Len(v)) + Len(v)
      /\ ExtraBytes(d) \in 0 .. 2 /\ ExtraBytes(Len(v)) \in 0 .. 2
  BY <1>0, ValueShape
<1>2. Len(v) \in Nat
  BY <1>0, Cat
<1>3. 1 + ExtraBytes(d) + ExtraBytes(Len(v)) + Len(v) > 0
  BY SMT, <1>1, <1>2
<1> QED BY Zenon, <1>1, <1>3 DEF Option, Octets, Size

(* The same, header byte and delta apart.                                   *)
LEMMA OptionParts ==
  ASSUME NEW d \in Uint16, NEW v \in Octets, Len(v) <= 255
  PROVE  /\ Option(d, v) = Byte(TopByte(d, v)) ++ (Extra(d) ++ Rest(v))
         /\ TopByte(d, v) \in Nat /\ TopByte(d, v) % 16 = Nibble(Len(v))
         /\ Extra(d) \in Octets /\ Size(Extra(d)) = ExtraBytes(d)
         /\ ExtraBytes(d) \in Nat
         /\ Rest(v) \in Octets
<1>0. v \in Seq(Nat)
  BY Zenon DEF Octets
<1>1. PICK n \in Nat : n = Len(v)
  BY <1>0, Cat
<1>2. n \in Uint16
  BY <1>1, In16
<1> DEFINE h == Nibble(d) * 16 + Nibble(n)
<1>3. h \in Nat /\ h % 16 = Nibble(n)
  BY <1>2, HeaderShape
<1> HIDE DEF h
<1> DEFINE z == <<h>>
           x == Ext(d)
           y == Ext(n)
<1>4. z \in Seq(Nat)
  BY <1>3, Single
<1>5. x \in Seq(Nat) /\ Len(x) = ExtraBytes(d) /\ ExtraBytes(d) \in 0 .. 2
  BY Bounds16, ExtShape
<1>6. y \in Seq(Nat)
  BY <1>2, Bounds16, ExtShape
<1>7. Header(d, n) = (z \o x) \o y
  BY DEF Header, h
<1> HIDE DEF z, x, y
<1>8. ((z \o x) \o y) \o v = z \o (x \o (y \o v)) /\ y \o v \in Seq(Nat)
  <2>1. y \o v \in Seq(Nat) /\ z \o x \in Seq(Nat)
    BY <1>0, <1>4, <1>5, <1>6, Concatenated
  <2>2. z \o (x \o (y \o v)) = (z \o x) \o (y \o v)
    BY <1>4, <1>5, <2>1, Assoc
  <2>3. (z \o x) \o (y \o v) = ((z \o x) \o y) \o v
    BY <1>0, <1>6, <2>1, Assoc
  <2> QED BY Zenon, <2>1, <2>2, <2>3
<1>9. ExtraBytes(d) \in Nat
  BY SMT, <1>5
<1>10. TopByte(d, v) = h
  BY Zenon, <1>1 DEF TopByte, h
<1>11. Rest(v) = y \o v /\ Extra(d) = x
  BY Zenon, <1>1 DEF Rest, y, Extra, x
<1>12. Option(d, v) = Byte(h) ++ (x ++ (y \o v))
  BY Zenon, <1>1, <1>7, <1>8 DEF Option, Byte, ++, z
<1> QED BY Zenon, <1>1, <1>3, <1>5, <1>8, <1>9, <1>10, <1>11, <1>12 DEF Octets, Size

(* What the getters make of an option between any bytes p and q.            *)
LEMMA OptionReads ==
  ASSUME NEW p \in Octets, NEW q \in Octets, NEW d \in Uint16, NEW v \in Octets, Len(v) <= 255
  PROVE  /\ At(p ++ (Option(d, v) ++ q), Size(p)) # MARKER
         /\ OptionDelta(p ++ (Option(d, v) ++ q), Size(p)) = d
         /\ \A pr : OptionAt(p ++ (Option(d, v) ++ q), Size(p), pr)
                     = [number |-> Number(pr, d), at |-> Size(p),
                        total |-> Size(Option(d, v)), value |-> v]
<1>0. p \in Seq(Nat) /\ q \in Seq(Nat) /\ v \in Seq(Nat)
  BY Zenon DEF Octets
<1>1. /\ At(Inside(p, d, v, q), Len(p)) = Nibble(d) * 16 + Nibble(Len(v))
      /\ OptionDelta(Inside(p, d, v, q), Len(p)) = d
      /\ \A pr : OptionAt(Inside(p, d, v, q), Len(p), pr)
                  = [number |-> Number(pr, d), at |-> Len(p), total |-> Total(d, v), value |-> v]
  BY <1>0, Decode
<1>2. Nibble(d) * 16 + Nibble(Len(v)) # MARKER
  <2>1. Len(v) \in Uint16
    BY <1>0, ValueShape
  <2>2. Nibble(d) * 16 + Nibble(Len(v)) <= 238 /\ Nibble(d) * 16 + Nibble(Len(v)) \in Nat
    BY <2>1, HeaderShape
  <2> QED BY SMT, <2>2 DEF MARKER
<1>4. Size(Option(d, v)) = Total(d, v)
  BY OptionShape DEF Total
<1>8. Inside(p, d, v, q) = p ++ (Option(d, v) ++ q)
  <2>1. (p ++ Option(d, v)) ++ q = p ++ (Option(d, v) ++ q)
    BY OptionShape, OctetsAssoc
  <2> QED BY Zenon, <2>1 DEF ++, Option, Inside
<1> QED BY Zenon, <1>1, <1>2, <1>4, <1>8 DEF Size

(* insertOption behind the last byte.                                       *)
LEMMA OptionAppended ==
  ASSUME NEW b \in Octets, NEW d \in Uint16, NEW v \in Octets, Len(v) <= 255
  PROVE  InsertOption(Resize(b, Size(b) + Size(Option(d, v))), Size(b), d, v) = b ++ Option(d, v)
<1>0. b \in Seq(Nat) /\ Option(d, v) \in Seq(Nat)
  BY Zenon, OptionShape DEF Octets
<1> DEFINE s == Option(d, v)
           n == Len(b) + Len(s)
<1>1. s \in Seq(Nat)
  BY Zenon, <1>0
<1> HIDE DEF s
<1>2. Overwrite(Resize(b, n), Len(b), s) = b \o s
  BY <1>0, <1>1, Appended
<1> QED BY Zenon, <1>2 DEF InsertOption, s, Option, Size, ++

-----------------------------------------------------------------------------
(* An inserted option and the delta behind it.                               *)

(* A new option always takes more bytes than the next one's delta gives up. *)
LEMMA Grows ==
  ASSUME NEW d \in Uint16, NEW next \in Uint16, d + next \in Uint16
  PROVE  ExtraBytes(d + next) <= 1 + ExtraBytes(d) + ExtraBytes(next)
BY SMT DEF Uint16, ExtraBytes

(* MakeRoom in the terms of Moved, for an option of f bytes.                *)
LEMMA RoomIs ==
  ASSUME NEW A \in Octets, NEW S \in Octets, NEW f \in Nat, NEW g \in Nat,
         NEW delta, NEW next, NEW xn \in Nat, NEW en \in Nat,
         xn = ExtraBytes(delta), en = ExtraBytes(next), g = f + (en - xn)
  PROVE  MakeRoom(A ++ S, Size(A), f, delta, next)
           = Overwrite(HeadMoved(A, S, g, Size(A) + f), Size(A) + f,
                       Byte(Nibble(next) * 16 + (At(HeadMoved(A, S, g, Size(A) + f), Size(A) + f) % 16))
                         ++ Ext(next))
<1>0. f + (ExtraBytes(next) - ExtraBytes(delta)) = g
  OBVIOUS
<1> DEFINE room(b, i, h, sh) ==
             Overwrite(Overwrite(sh, h, <<At(sh, i + g)>>), h,
                       <<Nibble(next) * 16 + (At(Overwrite(sh, h, <<At(sh, i + g)>>), h) % 16)>> \o Ext(next))
<1>b. ASSUME NEW b, NEW i
      PROVE MakeRoom(b, i, f, delta, next)
              = room(b, i, i + (g - (ExtraBytes(next) - ExtraBytes(delta))),
                     ShiftUp(Resize(b, Len(b) + g), g, Len(b) - i))
  BY Zenon, <1>0 DEF MakeRoom, SetOptionDelta
<1> HIDE DEF room
<1>1. PICK a \in Nat : a = Size(A)
  BY OctetsSize
<1>2. PICK s \in Nat : s = Size(S)
  BY OctetsSize
<1>3. Size(A ++ S) = a + s
  BY Zenon, <1>1, <1>2, OctetsCat
<1>4. (a + s) - a = s /\ a + (g - (en - xn)) = a + f
  BY SMT
<1>5. MakeRoom(A ++ S, a, f, delta, next)
        = room(A ++ S, a, a + f, ShiftUp(Resize(A ++ S, Size(A ++ S) + g), g, s))
  BY Zenon, <1>b, <1>3, <1>4 DEF Size
<1>6. MakeRoom(A ++ S, a, f, delta, next) = room(A ++ S, a, a + f, Shifted(A, S, g))
  BY Zenon, <1>2, <1>5 DEF Shifted
<1> QED BY Zenon, <1>1, <1>6 DEF HeadMoved, room, Byte, ++

(* addOption before another option: the new one is written before it and    *)
(* the next one, its delta reduced, behind, and nothing else changes.       *)
LEMMA OptionInserted ==
  ASSUME NEW p \in Octets, NEW q \in Octets,
         NEW d \in Uint16, NEW next \in Uint16, d + next \in Uint16,
         NEW v \in Octets, Len(v) <= 255, NEW w \in Octets, Len(w) <= 255
  PROVE  InsertOption(MakeRoom(p ++ (Option(d + next, w) ++ q), Size(p), Size(Option(d, v)), d + next, next),
                      Size(p), d, v)
           = p ++ (Option(d, v) ++ (Option(next, w) ++ q))
<1> DEFINE nd == d + next
<1>0. nd \in Uint16
  OBVIOUS
<1>g. ExtraBytes(nd) <= 1 + ExtraBytes(d) + ExtraBytes(next)
  BY Grows
<1> HIDE DEF nd
<1>1. PICK hb \in Nat, X \in Octets, W \in Octets, xn \in Nat :
        /\ Option(nd, w) = Byte(hb) ++ (X ++ W)
        /\ hb % 16 = Nibble(Len(w)) /\ W = Rest(w)
        /\ Size(X) = xn /\ xn = ExtraBytes(nd)
  <2>1. /\ Option(nd, w) = Byte(TopByte(nd, w)) ++ (Extra(nd) ++ Rest(w))
        /\ TopByte(nd, w) \in Nat /\ TopByte(nd, w) % 16 = Nibble(Len(w))
        /\ Extra(nd) \in Octets /\ Size(Extra(nd)) = ExtraBytes(nd)
        /\ ExtraBytes(nd) \in Nat
        /\ Rest(w) \in Octets
    BY <1>0, OptionParts
  <2> QED BY Zenon, <2>1
<1>2. PICK hn \in Nat, E \in Octets, en \in Nat :
        /\ Option(next, w) = Byte(hn) ++ (E ++ W)
        /\ hn = Nibble(next) * 16 + Nibble(Len(w)) /\ E = Ext(next)
        /\ Size(E) = en /\ en = ExtraBytes(next)
  BY <1>1, OptionParts DEF TopByte, Extra
<1>3. PICK F \in Octets, f \in Nat : /\ F = Option(d, v) /\ Size(F) = f
                                     /\ f = 1 + ExtraBytes(d) + ExtraBytes(Len(v)) + Len(v)
  BY OptionShape, OctetsSize
<1>4. xn <= f + en
  <2>1. PICK dn \in Nat : dn = ExtraBytes(d)
    BY OptionParts
  <2>2. v \in Seq(Nat)
    BY Zenon DEF Octets
  <2>3. PICK l \in Nat : l = Len(v)
    BY <2>2, Cat
  <2>4. PICK ln \in Nat : ln = ExtraBytes(Len(v))
    <3>1. ExtraBytes(Len(v)) \in 0 .. 2
      BY <2>2, ValueShape
    <3> QED BY <3>1
  <2>5. xn <= 1 + dn + en /\ f = 1 + dn + ln + l
    BY Zenon, <1>g, <1>1, <1>2, <1>3, <2>1, <2>3, <2>4
  <2> QED BY SMT, <2>5
<1>5. PICK g \in Nat : g = f + (en - xn)
  <2>1. f + (en - xn) \in Nat
    BY SMT, <1>4
  <2> QED BY Zenon, <2>1
<1>6. Size(F) + Size(E) = g + Size(X)
  <2>1. f + en = g + xn
    BY SMT, <1>5
  <2> QED BY Zenon, <1>1, <1>2, <1>3, <2>1
<1>7. W ++ q \in Octets /\ Byte(hb) \in Octets /\ Byte(hn) \in Octets
  BY SMT, OctetsCat, OctetsByte
<1>8. Option(nd, w) ++ q = Byte(hb) ++ (X ++ (W ++ q)) /\ Option(nd, w) ++ q \in Octets
  <2> DEFINE Z == Byte(hb)
             O == Option(nd, w)
  <2>1. Z \in Octets /\ O = Z ++ (X ++ W)
    BY <1>1, <1>7
  <2> HIDE DEF Z, O
  <2>2. O ++ q = Z ++ (X ++ (W ++ q)) /\ O ++ q \in Octets
    BY SMT, <2>1, OctetsCat, OctetsAssoc
  <2> QED BY Zenon, <2>2 DEF O, Z
<1>9. Option(next, w) ++ q = Byte(hn) ++ (E ++ (W ++ q))
  <2> DEFINE Z == Byte(hn)
             O == Option(next, w)
  <2>1. Z \in Octets /\ O = Z ++ (E ++ W)
    BY <1>2, <1>7
  <2> HIDE DEF Z, O
  <2>2. O ++ q = Z ++ (E ++ (W ++ q))
    BY SMT, <2>1, OctetsCat, OctetsAssoc
  <2> QED BY Zenon, <2>2 DEF O, Z
<1> DEFINE R == W ++ q
           S == Option(nd, w) ++ q
           O1 == HeadMoved(p, S, g, Size(p) + f)
<1>10. /\ At(O1, Size(p) + f) = hb
       /\ Overwrite(Overwrite(O1, Size(p) + f, Byte(hn) ++ E), Size(p), F)
              = p ++ (F ++ (Byte(hn) ++ (E ++ R)))
  <2>1. R \in Octets
    BY <1>7
  <2> HIDE DEF R, S, O1
  <2>2. /\ At(HeadMoved(p, Byte(hb) ++ (X ++ R), g, Size(p) + Size(F)), Size(p) + Size(F)) = hb
        /\ Overwrite(Overwrite(HeadMoved(p, Byte(hb) ++ (X ++ R), g, Size(p) + Size(F)),
                               Size(p) + Size(F), Byte(hn) ++ E), Size(p), F)
              = p ++ (F ++ (Byte(hn) ++ (E ++ R)))
    <3>1. Fits(F, E, g, X)
      BY Zenon, <1>6 DEF Fits
    <3>2. Room(p, X, R, F, E, hb, hn, g)
      BY Zenon, <2>1, <3>1, Moved
    <3> QED BY Zenon, <3>2 DEF Room
  <2>3. S = Byte(hb) ++ (X ++ R)
    BY Zenon, <1>8 DEF R, S
  <2> QED BY Zenon, <1>3, <2>2, <2>3 DEF O1
<1>11. MakeRoom(p ++ S, Size(p), f, nd, next)
         = Overwrite(O1, Size(p) + f, Byte(Nibble(next) * 16 + (At(O1, Size(p) + f) % 16)) ++ Ext(next))
  <2> HIDE DEF S
  <2>1. S \in Octets
    BY Zenon, <1>8 DEF S
  <2>2. xn = ExtraBytes(nd) /\ en = ExtraBytes(next)
    BY Zenon, <1>1, <1>2
  <2> QED BY <1>5, <2>1, <2>2, RoomIs
<1> HIDE DEF O1, S
<1>12. MakeRoom(p ++ S, Size(p), f, nd, next) = Overwrite(O1, Size(p) + f, Byte(hn) ++ E)
  BY Zenon, <1>1, <1>2, <1>10, <1>11
<1>13. InsertOption(MakeRoom(p ++ S, Size(p), f, nd, next), Size(p), d, v)
         = p ++ (F ++ (Byte(hn) ++ (E ++ R)))
  BY Zenon, <1>3, <1>10, <1>12 DEF InsertOption, Option
<1> QED BY Zenon, <1>3, <1>9, <1>13 DEF nd, S

-----------------------------------------------------------------------------
(* The place of an option in the list.                                       *)

(* Induction over lists that grow at their end.                             *)
LEMMA ListInduction ==
  ASSUME NEW T, Nil \in T, \A P \in Lists, o \in Held : P \in T => P ** One(o) \in T
  PROVE  \A P \in Lists : P \in T
<1> DEFINE U == {n \in Nat : \A P \in Lists : Count(P) = n => P \in T}
<1>1. 0 \in U
  BY Zenon, ListsNil
<1>2. ASSUME NEW n \in Nat, n \in U PROVE n + 1 \in U
  <2>1. ASSUME NEW P \in Lists, Count(P) = n + 1 PROVE P \in T
    <3>1. PICK F \in Lists, o \in Held : P = F ** One(o) /\ Count(F) = n
      BY <2>1, ListsLast
    <3> QED BY Zenon, <1>2, <3>1
  <2>2. n + 1 \in Nat
    BY SMT
  <2> QED BY Zenon, <2>1, <2>2
<1> HIDE DEF U
<1>3. \A n \in Nat : n \in U
  BY <1>1, <1>2, Induction
<1> QED BY Zenon, <1>3, ListsCount DEF U

LEMMA LastCat ==
  ASSUME NEW prev, NEW P \in Lists
  PROVE  \A Q \in Lists : Last(prev, P ** Q) = Last(Last(prev, P), Q)
<1> DEFINE T == {Q \in Lists : Last(prev, P ** Q) = Last(Last(prev, P), Q)}
<1>1. Nil \in T
  BY Zenon, LastOf, ListsNil
<1>2. ASSUME NEW Q \in Lists, NEW o \in Held, Q \in T PROVE Q ** One(o) \in T
  <2>1. P ** (Q ** One(o)) = (P ** Q) ** One(o) /\ Q ** One(o) \in Lists /\ P ** Q \in Lists
    BY ListsOne, ListsCat, ListsAssoc
  <2>2. Last(prev, (P ** Q) ** One(o)) = o.number
    BY Zenon, <2>1, LastOf
  <2>3. Last(Last(prev, P), Q ** One(o)) = o.number
    BY Zenon, LastOf
  <2> QED BY Zenon, <2>1, <2>2, <2>3
<1> HIDE DEF T
<1>3. \A Q \in Lists : Q \in T
  BY <1>1, <1>2, ListInduction
<1> QED BY <1>3 DEF T

LEMMA LastIn ==
  ASSUME NEW prev \in Uint16
  PROVE  \A P \in Lists : Last(prev, P) \in Uint16
<1> DEFINE T == {P \in Lists : Last(prev, P) \in Uint16}
<1>1. Nil \in T
  BY Zenon, LastOf, ListsNil
<1>2. ASSUME NEW P \in Lists, NEW o \in Held, P \in T PROVE P ** One(o) \in T
  <2>1. o.number \in Uint16 /\ P ** One(o) \in Lists
    BY HeldParts, ListsOne, ListsCat
  <2> QED BY Zenon, <2>1, LastOf
<1> HIDE DEF T
<1>3. \A P \in Lists : P \in T
  BY <1>1, <1>2, ListInduction
<1> QED BY <1>3 DEF T

LEMMA AscendingCat ==
  ASSUME NEW prev, NEW P \in Lists
  PROVE  \A Q \in Lists : Ascending(prev, P ** Q) <=> Ascending(prev, P) /\ Ascending(Last(prev, P), Q)
<1> DEFINE A(Q) == Ascending(prev, P ** Q) <=> Ascending(prev, P) /\ Ascending(Last(prev, P), Q)
           T == {Q \in Lists : A(Q)}
<1>1. Nil \in T
  BY Zenon, AscendingStep, ListsNil
<1>2. ASSUME NEW Q \in Lists, NEW o \in Held, Q \in T PROVE Q ** One(o) \in T
  <2>1. P ** (Q ** One(o)) = (P ** Q) ** One(o) /\ Q ** One(o) \in Lists /\ P ** Q \in Lists
    BY ListsOne, ListsCat, ListsAssoc
  <2>2. Last(prev, P ** Q) = Last(Last(prev, P), Q)
    BY LastCat
  <2>3. Ascending(prev, (P ** Q) ** One(o)) <=> Ascending(prev, P ** Q) /\ Last(prev, P ** Q) <= o.number
    BY Zenon, <2>1, AscendingStep
  <2>4. Ascending(Last(prev, P), Q ** One(o))
          <=> Ascending(Last(prev, P), Q) /\ Last(Last(prev, P), Q) <= o.number
    BY Zenon, AscendingStep
  <2> QED BY Zenon, <1>2, <2>1, <2>2, <2>3, <2>4
<1> HIDE DEF T
<1>3. \A Q \in Lists : Q \in T
  BY <1>1, <1>2, ListInduction
<1> QED BY <1>3 DEF T

(* The bytes of an option.                                                  *)
LEMMA FieldIs ==
  ASSUME NEW prev \in Uint16, NEW o \in Held, prev <= o.number
  PROVE  \E d \in Uint16 : /\ d = o.number - prev /\ Number(prev, d) = o.number
                           /\ Field(prev, o) = Option(d, o.value)
                           /\ Field(prev, o) \in Octets
<1>1. o.number \in Uint16 /\ o.value \in Octets /\ Len(o.value) <= 255
  BY HeldParts
<1>2. o.number - prev \in Uint16 /\ Number(prev, o.number - prev) = o.number
  BY <1>1, Difference
<1> DEFINE d == o.number - prev
<1>3. d \in Uint16 /\ Number(prev, d) = o.number
  BY <1>2
<1>4. Field(prev, o) = Option(d, o.value)
  BY Zenon DEF Field, Option
<1> HIDE DEF d
<1>5. Option(d, o.value) \in Octets
  BY <1>1, <1>3, OptionShape
<1> QED BY Zenon, <1>3, <1>4, <1>5 DEF d

LEMMA FieldsIn ==
  ASSUME NEW prev \in Uint16
  PROVE  \A P \in Lists : Ascending(prev, P) => Fields(prev, P) \in Octets
<1> DEFINE T == {P \in Lists : Ascending(prev, P) => Fields(prev, P) \in Octets}
<1>1. Nil \in T
  BY Zenon, FieldsStep, ListsNil, OctetsNone
<1>2. ASSUME NEW P \in Lists, NEW o \in Held, P \in T PROVE P ** One(o) \in T
  <2>1. P ** One(o) \in Lists
    BY ListsOne, ListsCat
  <2>2. ASSUME Ascending(prev, P ** One(o)) PROVE Fields(prev, P ** One(o)) \in Octets
    <3>1. Ascending(prev, P) /\ Last(prev, P) <= o.number
      BY Zenon, <2>2, AscendingStep
    <3>2. Last(prev, P) \in Uint16
      BY LastIn
    <3>3. Field(Last(prev, P), o) \in Octets
      BY <3>1, <3>2, FieldIs
    <3>4. Fields(prev, P) \in Octets
      BY Zenon, <1>2, <3>1
    <3>5. Fields(prev, P) ++ Field(Last(prev, P), o) \in Octets
      BY <3>3, <3>4, OctetsCat
    <3> QED BY Zenon, <3>5, FieldsStep
  <2> QED BY Zenon, <2>1, <2>2
<1> HIDE DEF T
<1>3. \A P \in Lists : P \in T
  BY <1>1, <1>2, ListInduction
<1> QED BY <1>3 DEF T

LEMMA FieldsCat ==
  ASSUME NEW prev \in Uint16, NEW P \in Lists
  PROVE  \A Q \in Lists : Ascending(prev, P ** Q)
           => Fields(prev, P ** Q) = Fields(prev, P) ++ Fields(Last(prev, P), Q)
<1> DEFINE T == {Q \in Lists : Ascending(prev, P ** Q)
                   => Fields(prev, P ** Q) = Fields(prev, P) ++ Fields(Last(prev, P), Q)}
<1>1. Nil \in T
  <2>1. Ascending(prev, P) => Fields(prev, P) = Fields(prev, P) ++ None
    BY Zenon, FieldsIn, OctetsNone
  <2> QED BY Zenon, <2>1, FieldsStep, ListsNil
<1>2. ASSUME NEW Q \in Lists, NEW o \in Held, Q \in T PROVE Q ** One(o) \in T
  <2>1. P ** (Q ** One(o)) = (P ** Q) ** One(o) /\ Q ** One(o) \in Lists /\ P ** Q \in Lists
    BY ListsOne, ListsCat, ListsAssoc
  <2>2. ASSUME Ascending(prev, P ** (Q ** One(o)))
        PROVE  Fields(prev, P ** (Q ** One(o))) = Fields(prev, P) ++ Fields(Last(prev, P), Q ** One(o))
    <3>1. Ascending(prev, P ** Q) /\ Last(prev, P ** Q) <= o.number
      BY Zenon, <2>1, <2>2, AscendingStep
    <3>2. Ascending(prev, P) /\ Ascending(Last(prev, P), Q)
      BY Zenon, <3>1, AscendingCat
    <3>3. Last(prev, P) \in Uint16 /\ Last(prev, P ** Q) \in Uint16
      BY <2>1, LastIn
    <3>4. Field(Last(prev, P ** Q), o) \in Octets
      BY <3>1, <3>3, FieldIs
    <3>5. Fields(prev, P) \in Octets /\ Fields(Last(prev, P), Q) \in Octets
      BY Zenon, <3>2, <3>3, FieldsIn
    <3>6. (Fields(prev, P) ++ Fields(Last(prev, P), Q)) ++ Field(Last(prev, P ** Q), o)
            = Fields(prev, P) ++ (Fields(Last(prev, P), Q) ++ Field(Last(prev, P ** Q), o))
      BY <3>4, <3>5, OctetsAssoc
    <3>7. Fields(prev, (P ** Q) ** One(o)) = Fields(prev, P ** Q) ++ Field(Last(prev, P ** Q), o)
      BY Zenon, <2>1, FieldsStep
    <3>8. Fields(prev, P ** Q) = Fields(prev, P) ++ Fields(Last(prev, P), Q)
      BY Zenon, <1>2, <3>1
    <3>9. Fields(Last(prev, P), Q ** One(o)) = Fields(Last(prev, P), Q) ++ Field(Last(prev, P ** Q), o)
      <4>1. Last(prev, P ** Q) = Last(Last(prev, P), Q)
        BY LastCat
      <4> QED BY Zenon, <4>1, FieldsStep
    <3> QED BY Zenon, <2>1, <3>6, <3>7, <3>8, <3>9
  <2> QED BY Zenon, <2>1, <2>2
<1> HIDE DEF T
<1>3. \A Q \in Lists : Q \in T
  BY <1>1, <1>2, ListInduction
<1> QED BY <1>3 DEF T

(* Of one option.                                                           *)
LEMMA OneOption ==
  ASSUME NEW prev \in Uint16, NEW o \in Held, NEW Q \in Lists
  PROVE  /\ Fields(prev, One(o)) = None ++ Field(prev, o)
         /\ Ascending(prev, One(o)) <=> prev <= o.number
         /\ Last(prev, One(o)) = o.number
         /\ Ascending(prev, One(o) ** Q) <=> prev <= o.number /\ Ascending(o.number, Q)
         /\ Ascending(prev, One(o) ** Q) => Fields(prev, One(o) ** Q) = Field(prev, o) ++ Fields(o.number, Q)
<1>1. Nil ** One(o) = One(o) /\ One(o) \in Lists /\ Nil \in Lists
  BY Zenon, ListsNil, ListsOne
<1>n. Last(prev, Nil) = prev /\ Fields(prev, Nil) = None /\ Ascending(prev, Nil)
  BY Zenon, FieldsStep, LastOf, AscendingStep
<1>2. Fields(prev, One(o)) = None ++ Field(prev, o)
  <2>1. Fields(prev, Nil ** One(o)) = Fields(prev, Nil) ++ Field(Last(prev, Nil), o)
    BY Zenon, <1>1, FieldsStep
  <2> QED BY Zenon, <1>1, <1>n, <2>1
<1>3. Ascending(prev, One(o)) <=> prev <= o.number
  <2>1. Ascending(prev, Nil ** One(o)) <=> Ascending(prev, Nil) /\ Last(prev, Nil) <= o.number
    BY Zenon, <1>1, AscendingStep
  <2> QED BY Zenon, <1>1, <1>n, <2>1
<1>4. Last(prev, One(o)) = o.number
  <2>1. Last(prev, Nil ** One(o)) = o.number
    BY Zenon, <1>1, LastOf
  <2> QED BY Zenon, <1>1, <2>1
<1>5. Ascending(prev, One(o) ** Q) <=> prev <= o.number /\ Ascending(o.number, Q)
  <2>1. Ascending(prev, One(o) ** Q) <=> Ascending(prev, One(o)) /\ Ascending(Last(prev, One(o)), Q)
    BY Zenon, <1>1, AscendingCat
  <2> QED BY Zenon, <1>3, <1>4, <2>1
<1>6. ASSUME Ascending(prev, One(o) ** Q)
      PROVE  Fields(prev, One(o) ** Q) = Field(prev, o) ++ Fields(o.number, Q)
  <2>1. Field(prev, o) \in Octets
    BY <1>5, <1>6, FieldIs
  <2>2. None ++ Field(prev, o) = Field(prev, o)
    BY Zenon, <2>1, OctetsNone
  <2>3. Fields(prev, One(o) ** Q) = Fields(prev, One(o)) ++ Fields(Last(prev, One(o)), Q)
    BY Zenon, <1>1, <1>6, FieldsCat
  <2> QED BY Zenon, <1>2, <1>4, <2>2, <2>3
<1> QED BY Zenon, <1>2, <1>3, <1>4, <1>5, <1>6

-----------------------------------------------------------------------------
(* A datagram around one option.                                             *)

LEMMA ZeroIn == 0 \in Uint16
BY SMT DEF Uint16

(* An option of a datagram, between what is before it and what is behind.   *)
Before(hdr, P)   == hdr ++ Fields(0, P)
Behind(o, Q, q)  == Fields(o.number, Q) ++ q
Image(hdr, os, q) == hdr ++ (Fields(0, os) ++ q)

LEMMA OptionIn ==
  ASSUME NEW hdr \in Octets, NEW q \in Octets, NEW P \in Lists, NEW o \in Held, NEW Q \in Lists,
         Ascending(0, P ** (One(o) ** Q))
  PROVE  /\ Before(hdr, P) \in Octets /\ Behind(o, Q, q) \in Octets
         /\ Last(0, P) \in Uint16 /\ Last(0, P) <= o.number
         /\ \E d \in Uint16 :
              /\ d = o.number - Last(0, P) /\ Number(Last(0, P), d) = o.number
              /\ Option(d, o.value) \in Octets
              /\ Image(hdr, P ** (One(o) ** Q), q)
                   = Before(hdr, P) ++ (Option(d, o.value) ++ Behind(o, Q, q))
              /\ Before(hdr, P ** One(o)) = Before(hdr, P) ++ Option(d, o.value)
<1>1. One(o) ** Q \in Lists /\ One(o) \in Lists /\ P ** One(o) \in Lists
  BY ListsOne, ListsCat
<1>2. Ascending(0, P) /\ Ascending(Last(0, P), One(o) ** Q)
  BY Zenon, <1>1, AscendingCat
<1>3. Last(0, P) \in Uint16
  BY ZeroIn, LastIn
<1>4. Last(0, P) <= o.number /\ Ascending(o.number, Q)
  BY Zenon, <1>2, <1>3, OneOption
<1>5. o.number \in Uint16
  BY HeldParts
<1>6. PICK d \in Uint16 : /\ d = o.number - Last(0, P) /\ Number(Last(0, P), d) = o.number
                          /\ Field(Last(0, P), o) = Option(d, o.value)
                          /\ Field(Last(0, P), o) \in Octets
  BY <1>3, <1>4, FieldIs
<1> DEFINE A == Fields(0, P)
           B == Fields(o.number, Q)
           F == Option(d, o.value)
<1>7. A \in Octets /\ B \in Octets /\ F \in Octets
  BY Zenon, <1>2, <1>4, <1>5, <1>6, ZeroIn, FieldsIn
<1>8. Fields(0, P ** (One(o) ** Q)) = A ++ (F ++ B)
  <2>1. Fields(0, P ** (One(o) ** Q)) = Fields(0, P) ++ Fields(Last(0, P), One(o) ** Q)
    BY Zenon, <1>1, ZeroIn, FieldsCat
  <2>2. Fields(Last(0, P), One(o) ** Q) = Field(Last(0, P), o) ++ Fields(o.number, Q)
    BY Zenon, <1>2, <1>3, OneOption
  <2> QED BY Zenon, <1>6, <2>1, <2>2
<1>9. Fields(0, P ** One(o)) = A ++ F
  BY Zenon, <1>6, FieldsStep
<1> HIDE DEF A, B, F
<1>10. /\ hdr ++ A \in Octets /\ B ++ q \in Octets
       /\ hdr ++ ((A ++ (F ++ B)) ++ q) = (hdr ++ A) ++ (F ++ (B ++ q))
       /\ hdr ++ (A ++ F) = (hdr ++ A) ++ F
  BY SMT, <1>7, OctetsCat, OctetsAssoc
<1> QED BY Zenon, <1>3, <1>4, <1>6, <1>7, <1>8, <1>9, <1>10 DEF Before, Behind, Image, A, B, F

(* The getters read the options of a datagram one by one.                   *)
LEMMA WalkReads ==
  ASSUME NEW hdr \in Octets, NEW q \in Octets, NEW os \in Lists, Ascending(0, os),
         HDR + TokenLength(Image(hdr, os, q)) = Size(hdr)
  PROVE  Walk(Image(hdr, os, q), Count(os))
           = [at |-> Size(Before(hdr, os)), number |-> Last(0, os), options |-> os]
<1> DEFINE b == Image(hdr, os, q)
<1>b. b = Image(hdr, os, q) /\ HDR + TokenLength(b) = Size(hdr)
  OBVIOUS
<1> HIDE DEF b
<1> DEFINE W(P) == [at |-> Size(Before(hdr, P)), number |-> Last(0, P), options |-> P]
<1>0. Count(os) \in Nat
  BY ListsCount
<1>1. PICK f : /\ Walk(b, Count(os)) = f[Count(os)]
               /\ f[0] = WalkStart(b)
               /\ \A k \in 0 .. Count(os) : k # 0 => f[k] = WalkStep(b, f[k - 1])
  <2> HIDE DEF W
  <2> QED BY <1>0, WalkIs
<1> DEFINE T == {P \in Lists : \A Q \in Lists : os = P ** Q => f[Count(P)] = W(P)}
<1>2. Nil \in T
  <2>1. Before(hdr, Nil) = hdr
    BY Zenon, FieldsStep, OctetsNone DEF Before
  <2>2. Last(0, Nil) = 0 /\ Count(Nil) = 0 /\ Nil \in Lists
    BY Zenon, LastOf, ListsNil
  <2>3. f[0] = W(Nil)
    BY Zenon, <1>b, <1>1, <2>1, <2>2 DEF WalkStart, Nil
  <2> HIDE DEF W
  <2> QED BY Zenon, <2>2, <2>3
<1>3. ASSUME NEW P \in Lists, NEW o \in Held, P \in T PROVE P ** One(o) \in T
  <2>1. ASSUME NEW Q \in Lists, os = (P ** One(o)) ** Q PROVE f[Count(P ** One(o))] = W(P ** One(o))
    <3>1. os = P ** (One(o) ** Q) /\ One(o) ** Q \in Lists
      BY <2>1, ListsAssoc, ListsCat, ListsOne
    <3>2. f[Count(P)] = W(P)
      BY Zenon, <1>3, <3>1
    <3>3. PICK d \in Uint16 :
              /\ Number(Last(0, P), d) = o.number
              /\ Option(d, o.value) \in Octets
              /\ Image(hdr, P ** (One(o) ** Q), q)
                   = Before(hdr, P) ++ (Option(d, o.value) ++ Behind(o, Q, q))
              /\ Before(hdr, P ** One(o)) = Before(hdr, P) ++ Option(d, o.value)
              /\ Before(hdr, P) \in Octets /\ Behind(o, Q, q) \in Octets
      <4>1. Ascending(0, P ** (One(o) ** Q))
        BY Zenon, <3>1
      <4> HIDE DEF T, W
      <4>2. /\ Before(hdr, P) \in Octets /\ Behind(o, Q, q) \in Octets
            /\ \E d \in Uint16 :
                 /\ d = o.number - Last(0, P) /\ Number(Last(0, P), d) = o.number
                 /\ Option(d, o.value) \in Octets
                 /\ Image(hdr, P ** (One(o) ** Q), q)
                      = Before(hdr, P) ++ (Option(d, o.value) ++ Behind(o, Q, q))
                 /\ Before(hdr, P ** One(o)) = Before(hdr, P) ++ Option(d, o.value)
        BY <4>1, OptionIn
      <4> QED BY Zenon, <4>2
    <3>4. o.value \in Octets /\ Len(o.value) <= 255 /\ Element(o.number, o.value) = o
      BY HeldParts
    <3>5. OptionAt(b, Size(Before(hdr, P)), Last(0, P))
            = [number |-> o.number, at |-> Size(Before(hdr, P)),
               total |-> Size(Option(d, o.value)), value |-> o.value]
      <4> DEFINE p == Before(hdr, P)
                 r == Behind(o, Q, q)
                 v == o.value
                 pr == Last(0, P)
      <4>1. p \in Octets /\ r \in Octets /\ v \in Octets /\ Len(v) <= 255
        BY <3>3, <3>4
      <4>2. b = p ++ (Option(d, v) ++ r) /\ Number(pr, d) = o.number
        BY Zenon, <1>b, <3>1, <3>3
      <4> HIDE DEF p, r, v, pr
      <4>3. \A x : OptionAt(p ++ (Option(d, v) ++ r), Size(p), x)
                     = [number |-> Number(x, d), at |-> Size(p), total |-> Size(Option(d, v)), value |-> v]
        BY <4>1, OptionReads
      <4>4. OptionAt(b, Size(p), pr)
                     = [number |-> o.number, at |-> Size(p), total |-> Size(Option(d, v)), value |-> v]
        BY Zenon, <4>2, <4>3
      <4> QED BY Zenon, <4>4 DEF p, v, pr
    <3>6. Size(Before(hdr, P ** One(o))) = Size(Before(hdr, P)) + Size(Option(d, o.value))
      <4>1. Size(Before(hdr, P) ++ Option(d, o.value)) = Size(Before(hdr, P)) + Size(Option(d, o.value))
        BY <3>3, OctetsCat
      <4> QED BY Zenon, <3>3, <4>1
    <3>7. Last(0, P ** One(o)) = o.number /\ Append(P, o) = P ** One(o)
      BY Zenon, LastOf, ListsOne
    <3>8. WalkStep(b, W(P)) = W(P ** One(o))
      <4>1. WalkStep(b, W(P))
              = [at |-> Size(Before(hdr, P)) + OptionAt(b, Size(Before(hdr, P)), Last(0, P)).total,
                 number |-> OptionAt(b, Size(Before(hdr, P)), Last(0, P)).number,
                 options |-> Append(P, Element(OptionAt(b, Size(Before(hdr, P)), Last(0, P)).number,
                                               OptionAt(b, Size(Before(hdr, P)), Last(0, P)).value))]
        BY Zenon DEF WalkStep
      <4> DEFINE a == OptionAt(b, Size(Before(hdr, P)), Last(0, P))
      <4>2. a.number = o.number /\ a.total = Size(Option(d, o.value)) /\ a.value = o.value
        <5>1. a = [number |-> o.number, at |-> Size(Before(hdr, P)),
                   total |-> Size(Option(d, o.value)), value |-> o.value]
          BY Zenon, <3>5
        <5> HIDE DEF a, W, T
        <5> QED BY SMT, <5>1
      <4>3. WalkStep(b, W(P)) = [at |-> Size(Before(hdr, P)) + a.total, number |-> a.number,
                                 options |-> Append(P, Element(a.number, a.value))]
        BY Zenon, <4>1
      <4> HIDE DEF a
      <4>4. Element(a.number, a.value) = o
        BY Zenon, <3>4, <4>2
      <4> QED BY Zenon, <3>6, <3>7, <4>2, <4>3, <4>4
    <3>9. PICK n \in Nat : n = Count(P)
      BY ListsCount
    <3>10. Count(P ** One(o)) = n + 1 /\ n + 1 \in 0 .. Count(os) /\ n + 1 # 0 /\ (n + 1) - 1 = n
      <4>1. Count(P ** One(o)) = n + 1 /\ P ** One(o) \in Lists
        BY SMT, <3>9, ListsCat, ListsOne
      <4>2. PICK m \in Nat : m = Count(Q)
        BY ListsCount
      <4>3. Count(os) = (n + 1) + m
        BY Zenon, <2>1, <4>1, <4>2, ListsCat
      <4> QED BY SMT, <4>1, <4>3
    <3> HIDE DEF W
    <3> QED BY Zenon, <1>1, <3>2, <3>8, <3>9, <3>10
  <2> HIDE DEF W
  <2>2. P ** One(o) \in Lists
    BY ListsCat, ListsOne
  <2> QED BY Zenon, <2>1, <2>2
<1> HIDE DEF T, W
<1>4. \A P \in Lists : P \in T
  BY <1>2, <1>3, ListInduction
<1>5. os = os ** Nil /\ Nil \in Lists
  BY Zenon, ListsNil
<1>6. f[Count(os)] = W(os)
  BY Zenon, <1>4, <1>5 DEF T
<1> QED BY Zenon, <1>1, <1>6 DEF W, b

-----------------------------------------------------------------------------
(* The walks over a datagram: to an option and to its end.                   *)

LEMMA ListsPieces ==
  ASSUME NEW P \in Lists, NEW o \in Held, NEW Q \in Lists
  PROVE  /\ \A k \in 1 .. Count(P) : (P ** (One(o) ** Q))[k] = P[k]
         /\ (P ** (One(o) ** Q))[Count(P) + 1] = o
         /\ SubSeq(P ** (One(o) ** Q), 1, Count(P)) = P
         /\ SubSeq(P ** (One(o) ** Q), Count(P) + 1, Len(P ** (One(o) ** Q))) = One(o) ** Q
         /\ Len(P ** (One(o) ** Q)) = Count(P) + 1 + Count(Q)
<1> DEFINE H == Held
<1>0. o \in H /\ P \in Seq(H) /\ Q \in Seq(H)
  BY DEF Lists
<1> HIDE DEF H
<1>p. PICK n \in Nat : n = Len(P)
  BY SMT, <1>0
<1>q. PICK m \in Nat : m = Len(Q)
  BY SMT, <1>0
<1> DEFINE R == <<o>> \o Q
           s == P \o R
<1>1. R \in Seq(H) /\ Len(R) = 1 + m /\ R[1] = o
  BY SMT, <1>0, <1>q
<1> HIDE DEF R
<1>2. /\ s \in Seq(H) /\ Len(s) = n + (1 + m)
      /\ \A k \in 1 .. n : s[k] = P[k]
      /\ \A k \in 1 .. 1 + m : s[n + k] = R[k]
  BY SMT, <1>0, <1>1, <1>p
<1> HIDE DEF s
<1>3. s[n + 1] = o
  BY SMT, <1>1, <1>2
<1>4. SubSeq(s, 1, n) = P
  <2>1. SubSeq(s, 1, n) = [i \in 1 .. n |-> s[i]]
    BY SMT, <1>2
  <2>2. P = [i \in 1 .. n |-> P[i]]
    BY SMT, <1>0, <1>p
  <2> QED BY Zenon, <1>2, <2>1, <2>2
<1>5. SubSeq(s, n + 1, Len(s)) = R
  <2>1. SubSeq(s, n + 1, Len(s)) \in Seq(H) /\ Len(SubSeq(s, n + 1, Len(s))) = 1 + m
        /\ \A i \in 1 .. 1 + m : SubSeq(s, n + 1, Len(s))[i] = s[n + i]
    BY SMT, <1>2
  <2> DEFINE u == SubSeq(s, n + 1, Len(s))
  <2>2. u \in Seq(H) /\ Len(u) = 1 + m /\ \A i \in 1 .. 1 + m : u[i] = R[i]
    BY Zenon, <1>2, <2>1
  <2> HIDE DEF u
  <2>3. u = R
    BY SMT, <1>1, <2>2
  <2> QED BY Zenon, <2>3 DEF u
<1>6. Len(s) = n + 1 + m
  BY SMT, <1>2
<1> QED BY Zenon, <1>p, <1>q, <1>2, <1>3, <1>4, <1>5, <1>6 DEF s, R, Count, **, One

LEMMA ListsWhole ==
  ASSUME NEW P \in Lists
  PROVE  SubSeq(P, 1, Count(P)) = P /\ SubSeq(P, Count(P) + 1, Len(P)) = << >>
<1> DEFINE H == Held
<1>0. P \in Seq(H)
  BY DEF Lists
<1> HIDE DEF H
<1>1. SubSeq(P, 1, Len(P)) = P /\ SubSeq(P, Len(P) + 1, Len(P)) = << >>
  BY SMT, <1>0
<1> QED BY Zenon, <1>1 DEF Count

(* No option has a greater number than the last one.                        *)
LEMMA Below ==
  \A P \in Lists : Ascending(0, P) => \A k \in 1 .. Count(P) : P[k].number \in Nat /\ P[k].number <= Last(0, P)
<1> DEFINE T == {P \in Lists : Ascending(0, P) => \A k \in 1 .. Count(P) :
                                 P[k].number \in Nat /\ P[k].number <= Last(0, P)}
<1>1. Nil \in T
  <2>1. Count(Nil) = 0 /\ Nil \in Lists
    BY ListsNil
  <2>2. 1 .. 0 = {}
    BY SMT
  <2> QED BY Zenon, <2>1, <2>2
<1>2. ASSUME NEW P \in Lists, NEW o \in Held, P \in T PROVE P ** One(o) \in T
  <2>1. P ** One(o) \in Lists /\ Last(0, P ** One(o)) = o.number
    BY ListsOne, ListsCat, LastOf
  <2>n. PICK n \in Nat : n = Count(P)
    BY ListsCount
  <2>2. Count(P ** One(o)) = n + 1
    BY SMT, <2>n, ListsOne, ListsCat
  <2>3. /\ (P ** One(o))[n + 1] = o
        /\ \A k \in 1 .. n : (P ** One(o))[k] = P[k]
    BY Zenon, <2>n, ListsElement
  <2>4. o.number \in Nat
    BY HeldParts
  <2>5. ASSUME Ascending(0, P ** One(o)), NEW k \in 1 .. n + 1
        PROVE  (P ** One(o))[k].number \in Nat /\ (P ** One(o))[k].number <= o.number
    <3>1. Ascending(0, P) /\ Last(0, P) <= o.number
      BY Zenon, <2>5, AscendingStep
    <3>2. CASE k \in 1 .. n
      <4>1. P[k].number \in Nat /\ P[k].number <= Last(0, P)
        BY Zenon, <1>2, <2>n, <3>1, <3>2
      <4>2. Last(0, P) \in Nat
        BY ZeroIn, LastIn, Bounds16
      <4> DEFINE x == P[k].number
                 y == Last(0, P)
      <4>3. x \in Nat /\ y \in Nat /\ x <= y /\ y <= o.number
        BY Zenon, <3>1, <4>1, <4>2
      <4> HIDE DEF x, y, T
      <4>4. x <= o.number
        BY SMT, <2>4, <4>3
      <4> QED BY Zenon, <2>3, <3>2, <4>1, <4>4 DEF x
    <3>3. CASE k = n + 1
      <4>1. o.number <= o.number
        BY SMT, <2>4
      <4> QED BY Zenon, <2>3, <2>4, <3>3, <4>1
    <3>4. k \in 1 .. n \/ k = n + 1
      BY SMT
    <3> QED BY Zenon, <3>2, <3>3, <3>4
  <2> QED BY Zenon, <2>1, <2>2, <2>5
<1> HIDE DEF T
<1>3. \A P \in Lists : P \in T
  BY <1>1, <1>2, ListInduction
<1> QED BY <1>3 DEF T

(* A list in order has a place for every number.                            *)
LEMMA PlaceExists ==
  ASSUME NEW n \in Uint16
  PROVE  \A os \in Lists : Ascending(0, os) =>
           \/ Last(0, os) <= n
           \/ \E P \in Lists, o \in Held, Q \in Lists :
                os = P ** (One(o) ** Q) /\ Last(0, P) <= n /\ o.number > n
<1> DEFINE C(os) == \/ Last(0, os) <= n
                    \/ \E P \in Lists, o \in Held, Q \in Lists :
                         os = P ** (One(o) ** Q) /\ Last(0, P) <= n /\ o.number > n
           T == {os \in Lists : Ascending(0, os) => C(os)}
<1>0. n \in Nat
  BY Bounds16
<1>1. Nil \in T
  <2>1. 0 <= n
    BY SMT, <1>0
  <2> QED BY Zenon, <2>1, LastOf, ListsNil
<1>2. ASSUME NEW F \in Lists, NEW e \in Held, F \in T PROVE F ** One(e) \in T
  <2>1. F ** One(e) \in Lists /\ Last(0, F ** One(e)) = e.number
    BY ListsOne, ListsCat, LastOf
  <2>2. ASSUME Ascending(0, F ** One(e)) PROVE C(F ** One(e))
    <3>1. C(F)
      BY Zenon, <1>2, <2>2, AscendingStep
    <3>2. CASE Last(0, F) <= n
      <4>1. e.number <= n \/ e.number > n
        BY SMT, <1>0, HeldParts
      <4>2. F ** One(e) = F ** (One(e) ** Nil) /\ Nil \in Lists
        BY Zenon, ListsNil, ListsOne
      <4> QED BY Zenon, <2>1, <3>2, <4>1, <4>2
    <3>3. ASSUME NEW P \in Lists, NEW o \in Held, NEW Q \in Lists,
                 F = P ** (One(o) ** Q), Last(0, P) <= n, o.number > n
          PROVE  C(F ** One(e))
      <4> HIDE DEF T
      <4>1. F ** One(e) = P ** (One(o) ** (Q ** One(e))) /\ Q ** One(e) \in Lists
        <5>1. (P ** (One(o) ** Q)) ** One(e) = P ** (One(o) ** (Q ** One(e))) /\ Q ** One(e) \in Lists
          BY ListsOne, ListsCat, ListsAssoc
        <5> QED BY Zenon, <3>3, <5>1
      <4> QED BY Zenon, <3>3, <4>1
    <3> QED BY Zenon, <3>1, <3>2, <3>3
  <2> QED BY Zenon, <2>1, <2>2
<1> HIDE DEF T
<1>3. \A os \in Lists : os \in T
  BY <1>1, <1>2, ListInduction
<1> QED BY Zenon, <1>3 DEF T

(* Where InOrder puts an option.                                            *)
LEMMA InOrderBetween ==
  ASSUME NEW P \in Lists, NEW o \in Held, NEW Q \in Lists, NEW e \in Held,
         Ascending(0, P ** (One(o) ** Q)), Last(0, P) <= e.number, o.number > e.number
  PROVE  InOrder(P ** (One(o) ** Q), e) = P ** (One(e) ** (One(o) ** Q))
<1> DEFINE os == P ** (One(o) ** Q)
           behind == {k \in DOMAIN os : os[k].number > e.number}
<1>n. PICK n \in Nat : n = Count(P)
  BY ListsCount
<1>m. PICK m \in Nat : m = Count(Q)
  BY ListsCount
<1>1. /\ \A k \in 1 .. n : os[k] = P[k]
      /\ os[n + 1] = o
      /\ SubSeq(os, 1, n) = P
      /\ SubSeq(os, n + 1, Len(os)) = One(o) ** Q
      /\ Len(os) = n + 1 + m
  <2>1. /\ \A k \in 1 .. Count(P) : os[k] = P[k]
        /\ os[Count(P) + 1] = o
        /\ SubSeq(os, 1, Count(P)) = P
        /\ SubSeq(os, Count(P) + 1, Len(os)) = One(o) ** Q
        /\ Len(os) = Count(P) + 1 + Count(Q)
    BY ListsPieces
  <2> HIDE DEF os
  <2> QED BY Zenon, <1>n, <1>m, <2>1
<1>2. One(o) ** Q \in Lists /\ One(e) \in Lists /\ os \in Lists
  BY ListsOne, ListsCat
<1>3. Ascending(0, P)
  BY Zenon, <1>2, AscendingCat
<1>4. \A k \in 1 .. n : P[k].number \in Nat /\ P[k].number <= Last(0, P)
  BY Zenon, <1>n, <1>3, Below
<1>5. Last(0, P) \in Nat /\ e.number \in Nat /\ o.number \in Nat
  BY ZeroIn, LastIn, Bounds16, HeldParts
<1>d. DOMAIN os = 1 .. Len(os)
  <2> DEFINE H == Held
  <2>1. os \in Seq(H)
    BY <1>2 DEF Lists
  <2> HIDE DEF H, os
  <2> QED BY SMT, <2>1
<1> HIDE DEF os
<1>6. \A k \in 1 .. n : k \notin behind
  <2> SUFFICES ASSUME NEW k \in 1 .. n PROVE ~(os[k].number > e.number)
    BY Zenon
  <2> DEFINE x == P[k].number
             y == Last(0, P)
             z == e.number
  <2>1. x \in Nat /\ y \in Nat /\ z \in Nat /\ x <= y /\ y <= z
    BY Zenon, <1>4, <1>5
  <2> HIDE DEF x, y, z, behind
  <2>2. ~(x > z)
    BY SMT, <2>1
  <2> QED BY Zenon, <1>1, <2>2 DEF x, z
<1>7. n + 1 \in behind
  <2>1. n + 1 \in 1 .. n + 1 + m
    BY SMT
  <2> QED BY Zenon, <1>1, <1>d, <2>1
<1>8. \A j \in behind : n + 1 <= j
  <2> SUFFICES ASSUME NEW j \in behind PROVE n + 1 <= j
    BY Zenon
  <2>1. j \in 1 .. Len(os) /\ j \notin 1 .. n
    BY Zenon, <1>d, <1>6
  <2> HIDE DEF behind
  <2> QED BY SMT, <1>1, <2>1
<1>9. behind # {}
  BY Zenon, <1>7
<1> DEFINE least == CHOOSE k \in behind : \A j \in behind : k <= j
<1>10. least = n + 1
  <2>1. least \in behind /\ \A j \in behind : least <= j
    BY Zenon, <1>7, <1>8
  <2>2. least \in 1 .. Len(os)
    BY Zenon, <1>d, <2>1
  <2>3. least <= n + 1 /\ n + 1 <= least
    BY Zenon, <1>7, <1>8, <2>1
  <2> HIDE DEF least, behind
  <2> QED BY SMT, <1>1, <2>2, <2>3
<1>11. InOrder(os, e) = (SubSeq(os, 1, least - 1) \o <<e>>) \o SubSeq(os, least, Len(os))
  BY Zenon, <1>9 DEF InOrder
<1> HIDE DEF least, behind
<1>12. (n + 1) - 1 = n
  BY SMT
<1>13. InOrder(os, e) = (P ** One(e)) ** (One(o) ** Q)
  BY Zenon, <1>1, <1>10, <1>11, <1>12 DEF **, One
<1>14. (P ** One(e)) ** (One(o) ** Q) = P ** (One(e) ** (One(o) ** Q))
  BY <1>2, ListsAssoc
<1> QED BY Zenon, <1>13, <1>14 DEF os

LEMMA InOrderEnd ==
  ASSUME NEW P \in Lists, NEW e \in Held, Ascending(0, P), Last(0, P) <= e.number
  PROVE  InOrder(P, e) = P ** One(e)
<1> DEFINE behind == {k \in DOMAIN P : P[k].number > e.number}
<1>n. PICK n \in Nat : n = Count(P)
  BY ListsCount
<1>4. \A k \in 1 .. n : P[k].number \in Nat /\ P[k].number <= Last(0, P)
  BY Zenon, <1>n, Below
<1>5. Last(0, P) \in Nat /\ e.number \in Nat
  BY ZeroIn, LastIn, Bounds16, HeldParts
<1>d. DOMAIN P = 1 .. n
  <2> DEFINE H == Held
  <2>1. P \in Seq(H)
    BY DEF Lists
  <2> HIDE DEF H
  <2>2. DOMAIN P = 1 .. Len(P)
    BY SMT, <2>1
  <2> QED BY Zenon, <1>n, <2>2 DEF Count
<1>6. behind = {}
  <2>1. ASSUME NEW k \in 1 .. n PROVE ~(P[k].number > e.number)
    <3> DEFINE x == P[k].number
               y == Last(0, P)
               z == e.number
    <3>1. x \in Nat /\ y \in Nat /\ z \in Nat /\ x <= y /\ y <= z
      BY Zenon, <1>4, <1>5
    <3> HIDE DEF x, y, z, behind
    <3>2. ~(x > z)
      BY SMT, <3>1
    <3> QED BY Zenon, <3>2 DEF x, z
  <2> QED BY Zenon, <1>d, <2>1
<1>11. InOrder(P, e) = (SubSeq(P, 1, (Len(P) + 1) - 1) \o <<e>>) \o SubSeq(P, Len(P) + 1, Len(P))
  BY Zenon, <1>6 DEF InOrder
<1>12. (n + 1) - 1 = n
  BY SMT
<1>13. SubSeq(P, 1, n) = P /\ SubSeq(P, n + 1, Len(P)) = << >> /\ Len(P) = n
  BY Zenon, <1>n, ListsWhole DEF Count
<1>14. InOrder(P, e) = (P ** One(e)) ** Nil
  BY Zenon, <1>11, <1>12, <1>13 DEF **, One, Nil
<1>15. P ** One(e) \in Lists
  BY ListsOne, ListsCat
<1> QED BY Zenon, <1>14, <1>15, ListsNil

-----------------------------------------------------------------------------
(* What the bytes of an option say, wherever it stands.                      *)

LEMMA LastGrows ==
  ASSUME NEW P \in Lists
  PROVE  \A R \in Lists : Ascending(0, P ** R) => Last(0, P) <= Last(0, P ** R)
<1> DEFINE T == {R \in Lists : Ascending(0, P ** R) => Last(0, P) <= Last(0, P ** R)}
<1>1. Nil \in T
  <2>1. Last(0, P) <= Last(0, P)
    <3>1. Last(0, P) \in Nat
      BY ZeroIn, LastIn, Bounds16
    <3> DEFINE x == Last(0, P)
    <3>2. x \in Nat
      BY <3>1
    <3> HIDE DEF x, T
    <3>3. x <= x
      BY SMT, <3>2
    <3> QED BY Zenon, <3>3 DEF x
  <2> QED BY Zenon, <2>1, ListsNil
<1>2. ASSUME NEW R \in Lists, NEW o \in Held, R \in T PROVE R ** One(o) \in T
  <2>1. P ** (R ** One(o)) = (P ** R) ** One(o) /\ R ** One(o) \in Lists /\ P ** R \in Lists
    BY ListsOne, ListsCat, ListsAssoc
  <2>2. ASSUME Ascending(0, P ** (R ** One(o))) PROVE Last(0, P) <= Last(0, P ** (R ** One(o)))
    <3>1. Ascending(0, P ** R) /\ Last(0, P ** R) <= o.number
      BY Zenon, <2>1, <2>2, AscendingStep
    <3> DEFINE x == Last(0, P)
               y == Last(0, P ** R)
               z == o.number
    <3>2. x \in Nat /\ y \in Nat /\ z \in Nat
      BY <2>1, ZeroIn, LastIn, Bounds16, HeldParts
    <3>3. x <= y /\ y <= z
      BY Zenon, <1>2, <3>1
    <3>4. Last(0, P ** (R ** One(o))) = z
      <4>1. Last(0, (P ** R) ** One(o)) = o.number
        BY <2>1, LastOf
      <4> QED BY Zenon, <2>1, <4>1
    <3> HIDE DEF x, y, z, T
    <3>5. x <= z
      BY SMT, <3>2, <3>3
    <3> QED BY Zenon, <3>4, <3>5 DEF x
  <2> QED BY Zenon, <2>1, <2>2
<1> HIDE DEF T
<1>3. \A R \in Lists : R \in T
  BY <1>1, <1>2, ListInduction
<1> QED BY <1>3 DEF T

(* What the getters make of an option o of t bytes, at offset i behind one  *)
(* of number pr.                                                            *)
ReadsAs(b, i, pr, o, t) ==
  /\ t > 0 /\ ~(i >= Len(b)) /\ At(b, i) # MARKER
  /\ OptionDelta(b, i) = o.number - pr
  /\ OptionAt(b, i, pr) = [number |-> o.number, at |-> i, total |-> t, value |-> o.value]

LEMMA OptionHere ==
  ASSUME NEW hdr \in Octets, NEW q \in Octets, NEW P \in Lists, NEW o \in Held, NEW Q \in Lists,
         Ascending(0, P ** (One(o) ** Q))
  PROVE  /\ Size(Before(hdr, P)) \in Nat
         /\ \E t \in Nat :
              /\ Size(Before(hdr, P ** One(o))) = Size(Before(hdr, P)) + t
              /\ ReadsAs(Image(hdr, P ** (One(o) ** Q), q), Size(Before(hdr, P)), Last(0, P), o, t)
<1> DEFINE p == Before(hdr, P)
           r == Behind(o, Q, q)
           v == o.value
           pr == Last(0, P)
           b == Image(hdr, P ** (One(o) ** Q), q)
<1>0. o.value \in Octets /\ Len(o.value) <= 255
  BY HeldParts
<1>a. /\ Before(hdr, P) \in Octets /\ Behind(o, Q, q) \in Octets
      /\ \E d \in Uint16 :
           /\ d = o.number - Last(0, P) /\ Number(Last(0, P), d) = o.number
           /\ Option(d, o.value) \in Octets
           /\ Image(hdr, P ** (One(o) ** Q), q)
                = Before(hdr, P) ++ (Option(d, o.value) ++ Behind(o, Q, q))
           /\ Before(hdr, P ** One(o)) = Before(hdr, P) ++ Option(d, o.value)
  BY OptionIn
<1>1. p \in Octets /\ r \in Octets /\ v \in Octets /\ Len(v) <= 255
  BY Zenon, <1>a, <1>0
<1>2. PICK d \in Uint16 : /\ d = o.number - pr /\ Number(pr, d) = o.number
                          /\ Option(d, v) \in Octets
                          /\ b = p ++ (Option(d, v) ++ r)
                          /\ Before(hdr, P ** One(o)) = p ++ Option(d, v)
  BY Zenon, <1>a
<1>b. b = Image(hdr, P ** (One(o) ** Q), q) /\ pr = Last(0, P) /\ v = o.value /\ p = Before(hdr, P)
  OBVIOUS
<1> HIDE DEF p, r, v, pr, b
<1>3. /\ At(p ++ (Option(d, v) ++ r), Size(p)) # MARKER
      /\ OptionDelta(p ++ (Option(d, v) ++ r), Size(p)) = d
      /\ \A x : OptionAt(p ++ (Option(d, v) ++ r), Size(p), x)
                     = [number |-> Number(x, d), at |-> Size(p), total |-> Size(Option(d, v)), value |-> v]
  BY <1>1, OptionReads
<1>4. PICK t \in Nat, i \in Nat, s \in Nat : t = Size(Option(d, v)) /\ i = Size(p) /\ s = Size(r)
  BY <1>1, <1>2, OctetsSize
<1>5. t > 0
  <2>1. Size(Option(d, v)) > 0
    BY <1>1, OptionShape
  <2> QED BY Zenon, <1>4, <2>1
<1>6. Size(b) = i + (t + s) /\ Size(Before(hdr, P ** One(o))) = i + t
  <2>1. /\ Size(p ++ (Option(d, v) ++ r)) = Size(p) + (Size(Option(d, v)) + Size(r))
        /\ Size(p ++ Option(d, v)) = Size(p) + Size(Option(d, v))
    <3>1. Option(d, v) ++ r \in Octets /\ Size(Option(d, v) ++ r) = Size(Option(d, v)) + Size(r)
      BY <1>1, <1>2, OctetsCat
    <3>2. Size(p ++ (Option(d, v) ++ r)) = Size(p) + Size(Option(d, v) ++ r)
      BY <1>1, <3>1, OctetsCat
    <3>3. Size(p ++ Option(d, v)) = Size(p) + Size(Option(d, v))
      BY <1>1, <1>2, OctetsCat
    <3> QED BY Zenon, <3>1, <3>2, <3>3
  <2> QED BY Zenon, <1>2, <1>4, <2>1
<1>7. ~(i >= Len(b))
  <2>1. ~(i >= i + (t + s))
    BY SMT, <1>5
  <2> QED BY Zenon, <1>6, <2>1 DEF Size
<1>8. /\ At(b, i) # MARKER /\ OptionDelta(b, i) = o.number - pr
      /\ OptionAt(b, i, pr) = [number |-> o.number, at |-> i, total |-> t, value |-> v]
  BY Zenon, <1>2, <1>3, <1>4
<1>9. ReadsAs(b, i, pr, o, t)
  BY Zenon, <1>b, <1>5, <1>7, <1>8 DEF ReadsAs
<1> QED BY Zenon, <1>b, <1>4, <1>6, <1>9

LEMMA Replaced ==
  ASSUME NEW w, NEW u, NEW n, DOMAIN w = {"at", "prev", "done"}
  PROVE [w EXCEPT !.at = u, !.prev = n] = [at |-> u, prev |-> n, done |-> w.done]
<1> DEFINE e == [w EXCEPT !.at = u, !.prev = n]
<1>3. e = [k \in DOMAIN w |-> IF k = "prev" THEN n ELSE IF k = "at" THEN u ELSE w[k]]
  BY Zenon
<1>4. e = [k \in {"at", "prev", "done"} |-> IF k = "prev" THEN n ELSE IF k = "at" THEN u ELSE w[k]]
  BY Zenon, <1>3
<1> HIDE DEF e
<1>5. e.at = u /\ e.prev = n /\ e.done = w.done
  BY <1>4
<1>6. e = [at |-> u, prev |-> n, done |-> w.done]
  BY <1>4, <1>5
<1> QED BY <1>6 DEF e

LEMMA Stopped ==
  \A a, p \in Nat : \A x, y \in BOOLEAN :
     [[at |-> a, prev |-> p, done |-> x] EXCEPT !.done = y] = [at |-> a, prev |-> p, done |-> y]
BY SMT

LEMMA FindStepIs ==
  ASSUME NEW b, NEW nr, NEW i \in Nat, NEW pr \in Nat, NEW o \in Held, NEW t \in Nat,
         ReadsAs(b, i, pr, o, t)
  PROVE  FindStep(b, nr, [at |-> i, prev |-> pr, done |-> FALSE])
           = IF o.number > nr THEN [at |-> i, prev |-> pr, done |-> TRUE]
                              ELSE [at |-> i + t, prev |-> o.number, done |-> FALSE]
<1> DEFINE w == [at |-> i, prev |-> pr, done |-> FALSE]
           a == OptionAt(b, i, pr)
           u == i + t
           n == o.number
<1>0. u \in Nat /\ n \in Nat
  BY SMT, HeldParts
<1>1. a = [number |-> n, at |-> i, total |-> t, value |-> o.value]
  BY Zenon DEF ReadsAs
<1>2. ~(i >= Len(b)) /\ At(b, i) # MARKER
  BY Zenon DEF ReadsAs
<1>3. w.at = i /\ w.prev = pr /\ w.done = FALSE
      /\ [w EXCEPT !.done = TRUE] = [at |-> i, prev |-> pr, done |-> TRUE]
      /\ [w EXCEPT !.at = u, !.prev = n] = [at |-> u, prev |-> n, done |-> FALSE]
  <2> HIDE DEF u, n, a
  <2>1. w.at = i /\ w.prev = pr
    BY SMT
  <2>2. w.done = FALSE
    BY Zenon
  <2>3. [w EXCEPT !.done = TRUE] = [at |-> i, prev |-> pr, done |-> TRUE]
    BY Zenon, Stopped
  <2>4. [w EXCEPT !.at = u, !.prev = n] = [at |-> u, prev |-> n, done |-> FALSE]
    <3>1. DOMAIN w = {"at", "prev", "done"}
      BY Zenon
    <3> HIDE DEF w
    <3>2. [w EXCEPT !.at = u, !.prev = n] = [at |-> u, prev |-> n, done |-> w.done]
      BY <3>1, Replaced
    <3> QED BY Zenon, <2>2, <3>2
  <2> QED BY Zenon, <2>1, <2>2, <2>3, <2>4
<1> HIDE DEF a
<1>4. a.number = n /\ a.total = t
  BY SMT, <1>1
<1> HIDE DEF w, n
<1>5. FindStep(b, nr, w) = IF a.number > nr THEN [w EXCEPT !.done = TRUE]
                           ELSE [w EXCEPT !.at = @ + a.total, !.prev = a.number]
  BY Zenon, <1>2, <1>3 DEF FindStep, a
<1>6. [w EXCEPT !.at = @ + a.total, !.prev = a.number] = [w EXCEPT !.at = u, !.prev = n]
  BY Zenon, <1>3, <1>4
<1> QED BY Zenon, <1>3, <1>4, <1>5, <1>6 DEF w, n, u

(* What a CoapPDU object keeps of the datagram of the options os.           *)
Keeps(p, hdr, os, q) ==
  /\ p.pdu = Image(hdr, os, q)
  /\ HDR + TokenLength(p.pdu) = Size(hdr)
  /\ p.num = Count(os) /\ p.max = Last(0, os)
  /\ Ascending(0, os)

(* findInsertionPosition stops before the first option with a greater       *)
(* number.                                                                  *)
LEMMA FindReads ==
  ASSUME NEW hdr \in Octets, NEW q \in Octets, NEW P \in Lists, NEW o \in Held, NEW Q \in Lists,
         NEW p, Keeps(p, hdr, P ** (One(o) ** Q), q),
         NEW nr \in Uint16, Last(0, P) <= nr, o.number > nr
  PROVE  InsertionPosition(p, nr) = [at |-> Size(Before(hdr, P)), prev |-> Last(0, P), done |-> TRUE]
<1> DEFINE os == P ** (One(o) ** Q)
           b == p.pdu
           W(F, x) == [at |-> Size(Before(hdr, F)), prev |-> Last(0, F), done |-> x]
<1>0. One(o) ** Q \in Lists /\ os \in Lists
  BY ListsCat, ListsOne
<1>os. os = P ** (One(o) ** Q) /\ Ascending(0, os) /\ b = Image(hdr, os, q) /\ p.num = Count(os)
       /\ p.max = Last(0, os) /\ HDR + TokenLength(b) = Size(hdr)
  BY Zenon DEF Keeps
<1> HIDE DEF b, os, W
<1>n. PICK n \in Nat : n = Count(P)
  BY ListsCount
<1>m. PICK m \in Nat : m = Count(Q)
  BY ListsCount
<1>1. Count(os) = n + (1 + m)
  <2>1. Count(One(o) ** Q) = 1 + m
    <3>1. One(o) \in Lists /\ Count(One(o)) = 1
      BY ListsOne
    <3> QED BY Zenon, <1>m, <3>1, ListsCat
  <2> QED BY Zenon, <1>os, <1>0, <1>n, <2>1, ListsCat
<1>2. Ascending(0, P) /\ nr \in Nat /\ o.number \in Nat /\ Last(0, P) \in Nat /\ Last(0, os) \in Nat
  BY <1>0, <1>os, AscendingCat, ZeroIn, LastIn, Bounds16, HeldParts
<1>3. ~(nr >= p.max)
  <2>1. os = (P ** One(o)) ** Q /\ P ** One(o) \in Lists /\ Last(0, P ** One(o)) = o.number
    <3>1. (P ** One(o)) ** Q = P ** (One(o) ** Q) /\ P ** One(o) \in Lists /\ Last(0, P ** One(o)) = o.number
      <4>1. One(o) \in Lists
        BY ListsOne
      <4>2. (P ** One(o)) ** Q = P ** (One(o) ** Q) /\ P ** One(o) \in Lists
        BY <4>1, ListsAssoc, ListsCat
      <4> QED BY Zenon, <4>2, LastOf
    <3> QED BY Zenon, <1>os, <3>1
  <2>2. o.number <= Last(0, os)
    BY Zenon, <1>os, <2>1, LastGrows
  <2> DEFINE x == o.number
             y == Last(0, os)
  <2>3. x \in Nat /\ y \in Nat /\ x <= y /\ x > nr /\ p.max = y
    BY Zenon, <1>os, <1>2, <2>2
  <2> HIDE DEF x, y, os, b
  <2> QED BY SMT, <1>2, <2>3
<1>4. Len(b) # HDR + TokenLength(b)
  <2>1. PICK i \in Nat : i = Size(Before(hdr, P)) /\ ~(i >= Len(b))
    <3>1. /\ Size(Before(hdr, P)) \in Nat
          /\ \E t \in Nat :
               /\ Size(Before(hdr, P ** One(o))) = Size(Before(hdr, P)) + t
               /\ ReadsAs(Image(hdr, P ** (One(o) ** Q), q), Size(Before(hdr, P)), Last(0, P), o, t)
      <4>1. Ascending(0, P ** (One(o) ** Q))
        BY <1>os
      <4> QED BY <4>1, OptionHere
    <3> QED BY Zenon, <1>os, <3>1 DEF ReadsAs
  <2>2. PICK h \in Nat, s \in Nat : h = Size(hdr) /\ s = Size(Fields(0, P))
    BY <1>2, FieldsIn, ZeroIn, OctetsSize
  <2>3. i = h + s
    <3>1. Fields(0, P) \in Octets
      BY Zenon, <1>2, FieldsIn, ZeroIn
    <3> QED BY Zenon, <2>1, <2>2, <3>1, OctetsCat DEF Before
  <2>4. i >= h
    BY SMT, <2>3
  <2> QED BY Zenon, <1>os, <2>1, <2>2, <2>4
<1>5. PICK f : /\ InsertionPosition(p, nr) = f[Count(os) + 1]
               /\ f[0] = FindStart(b)
               /\ \A k \in 0 .. Count(os) + 1 : k # 0 => f[k] = FindStep(b, nr, f[k - 1])
  <2>1. p.num + 1 \in Nat
    <3>1. (n + (1 + m)) + 1 \in Nat
      BY SMT
    <3> QED BY Zenon, <1>os, <1>1, <3>1
  <2>2. \E f : /\ InsertionPosition(p, nr) =
                     (IF nr >= p.max \/ Len(p.pdu) = HDR + TokenLength(p.pdu)
                     THEN [at |-> Len(p.pdu), prev |-> p.max, done |-> TRUE]
                     ELSE f[p.num + 1])
                /\ f[0] = FindStart(p.pdu)
                /\ \A k \in 0 .. p.num + 1 : k # 0 => f[k] = FindStep(p.pdu, nr, f[k - 1])
    BY <2>1, FindIs
  <2>3. p.num = Count(os) /\ ~(nr >= p.max \/ Len(p.pdu) = HDR + TokenLength(p.pdu)) /\ p.pdu = b
    BY Zenon, <1>os, <1>3, <1>4 DEF b
  <2> QED BY Zenon, <2>2, <2>3
<1> USE DEF W
<1> DEFINE T == {F \in Lists : \A R \in Lists : P = F ** R => f[Count(F)] = W(F, FALSE)}
<1>6. Nil \in T
  <2>1. Before(hdr, Nil) = hdr
    BY Zenon, FieldsStep, OctetsNone DEF Before
  <2>2. Last(0, Nil) = 0 /\ Count(Nil) = 0 /\ Nil \in Lists
    BY Zenon, LastOf, ListsNil
  <2>3. f[0] = W(Nil, FALSE)
    BY Zenon, <1>os, <1>5, <2>1, <2>2 DEF FindStart
  <2> HIDE DEF W
  <2> QED BY Zenon, <2>2, <2>3
<1>step. ASSUME NEW F \in Lists, NEW x \in Held, NEW S \in Lists, os = F ** (One(x) ** S)
         PROVE  FindStep(b, nr, W(F, FALSE))
                  = IF x.number > nr THEN W(F, TRUE) ELSE W(F ** One(x), FALSE)
  <2>1. PICK i \in Nat, t \in Nat, pr \in Nat :
           /\ i = Size(Before(hdr, F)) /\ pr = Last(0, F)
           /\ i + t = Size(Before(hdr, F ** One(x)))
           /\ ReadsAs(b, i, pr, x, t)
    <3>1. Ascending(0, F ** (One(x) ** S)) /\ b = Image(hdr, F ** (One(x) ** S), q)
      BY Zenon, <1>os, <1>step
    <3> HIDE DEF W, T
    <3>2. /\ Size(Before(hdr, F)) \in Nat
          /\ \E t \in Nat :
               /\ Size(Before(hdr, F ** One(x))) = Size(Before(hdr, F)) + t
               /\ ReadsAs(Image(hdr, F ** (One(x) ** S), q), Size(Before(hdr, F)), Last(0, F), x, t)
      BY <3>1, OptionHere
    <3>3. Last(0, F) \in Nat
      BY ZeroIn, LastIn, Bounds16
    <3> QED BY Zenon, <3>1, <3>2, <3>3
  <2>2. W(F, FALSE) = [at |-> i, prev |-> pr, done |-> FALSE]
    BY Zenon, <2>1
  <2>3. Last(0, F ** One(x)) = x.number
    BY LastOf
  <2>4. W(F ** One(x), FALSE) = [at |-> i + t, prev |-> x.number, done |-> FALSE]
    BY Zenon, <2>1, <2>3
  <2>5. W(F, TRUE) = [at |-> i, prev |-> pr, done |-> TRUE]
    BY Zenon, <2>1
  <2> HIDE DEF W, T
  <2>7. FindStep(b, nr, [at |-> i, prev |-> pr, done |-> FALSE])
           = IF x.number > nr THEN [at |-> i, prev |-> pr, done |-> TRUE]
                              ELSE [at |-> i + t, prev |-> x.number, done |-> FALSE]
    BY <2>1, FindStepIs
  <2> QED BY Zenon, <2>2, <2>4, <2>5, <2>7
<1>7. ASSUME NEW F \in Lists, NEW x \in Held, F \in T PROVE F ** One(x) \in T
  <2>1. ASSUME NEW R \in Lists, P = (F ** One(x)) ** R PROVE f[Count(F ** One(x))] = W(F ** One(x), FALSE)
    <3> DEFINE S == R ** (One(o) ** Q)
    <3>0. F ** One(x) \in Lists /\ One(x) ** R \in Lists /\ S \in Lists
      BY <1>0, ListsCat, ListsOne
    <3>1. P = F ** (One(x) ** R)
      BY <2>1, ListsAssoc, ListsOne
    <3>2. os = F ** (One(x) ** S)
      <4> HIDE DEF W, T
      <4>1. ((F ** One(x)) ** R) ** (One(o) ** Q) = F ** (One(x) ** S)
        <5> DEFINE Y == One(o) ** Q
                   X == One(x)
        <5>1. Y \in Lists /\ X \in Lists
          BY <1>0, ListsOne
        <5> HIDE DEF X, Y
        <5>2. ((F ** X) ** R) ** Y = F ** (X ** (R ** Y))
          BY SMT, <5>1, ListsAssoc, ListsCat
        <5> QED BY Zenon, <5>2 DEF S, X, Y
      <4> QED BY Zenon, <1>os, <2>1, <4>1
    <3> HIDE DEF S
    <3>3. f[Count(F)] = W(F, FALSE)
      BY Zenon, <1>7, <3>0, <3>1
    <3>4. ~(x.number > nr)
      <4>1. Last(0, F ** One(x)) = x.number
        BY LastOf
      <4>2. x.number <= Last(0, P)
        BY Zenon, <1>2, <2>1, <3>0, <4>1, LastGrows
      <4> DEFINE y == x.number
                 z == Last(0, P)
      <4>3. y \in Nat /\ z \in Nat /\ y <= z /\ z <= nr
        BY Zenon, <1>2, <4>2, HeldParts
      <4> HIDE DEF y, z, W, T
      <4>4. ~(y > nr)
        BY SMT, <1>2, <4>3
      <4> QED BY Zenon, <4>4 DEF y
    <3>5. FindStep(b, nr, W(F, FALSE)) = W(F ** One(x), FALSE)
      <4> HIDE DEF W, T
      <4> QED BY Zenon, <1>step, <3>0, <3>2, <3>4
    <3>9. PICK k \in Nat : k = Count(F)
      BY ListsCount
    <3>10. Count(F ** One(x)) = k + 1 /\ k + 1 \in 0 .. Count(os) + 1 /\ k + 1 # 0 /\ (k + 1) - 1 = k
      <4>1. Count(F ** One(x)) = k + 1
        <5>1. One(x) \in Lists /\ Count(One(x)) = 1
          BY ListsOne
        <5> HIDE DEF W, T
        <5>2. Count(F ** One(x)) = Count(F) + Count(One(x))
          BY <5>1, ListsCat
        <5> QED BY Zenon, <3>9, <5>1, <5>2
      <4>2. PICK j \in Nat : j = Count(R)
        BY ListsCount
      <4>3. n = (k + 1) + j
        <5>1. Count((F ** One(x)) ** R) = Count(F ** One(x)) + Count(R)
          BY <3>0, ListsCat
        <5> QED BY Zenon, <1>n, <2>1, <4>1, <4>2, <5>1
      <4> HIDE DEF W, T
      <4> QED BY SMT, <1>1, <4>1, <4>3
    <3> HIDE DEF W
    <3> QED BY Zenon, <1>5, <3>3, <3>5, <3>9, <3>10
  <2> HIDE DEF W
  <2>2. F ** One(x) \in Lists
    BY ListsCat, ListsOne
  <2> QED BY Zenon, <2>1, <2>2
<1> HIDE DEF T, W
<1>8. \A F \in Lists : F \in T
  BY <1>6, <1>7, ListInduction
<1>9. f[n] = W(P, FALSE)
  <2>1. P = P ** Nil /\ Nil \in Lists
    BY Zenon, ListsNil
  <2> QED BY Zenon, <1>8, <1>n, <2>1 DEF T
<1>10. FindStep(b, nr, W(P, FALSE)) = W(P, TRUE)
  BY Zenon, <1>os, <1>step
<1> DEFINE U == {k \in Nat : k >= n + 1 /\ k <= Count(os) + 1 => f[k] = W(P, TRUE)}
<1>11. 0 \in U
  <2>1. ~(0 >= n + 1) /\ 0 \in Nat
    BY SMT
  <2> QED BY Zenon, <2>1
<1>12. ASSUME NEW k \in Nat, k \in U PROVE k + 1 \in U
  <2>0. k + 1 \in Nat
    BY SMT
  <2>1. ASSUME k + 1 >= n + 1, k + 1 <= Count(os) + 1 PROVE f[k + 1] = W(P, TRUE)
    <3>1. k + 1 \in 0 .. Count(os) + 1 /\ k + 1 # 0 /\ (k + 1) - 1 = k
      BY SMT, <1>1, <2>1
    <3>2. k = n \/ (k >= n + 1 /\ k <= Count(os) + 1)
      BY SMT, <1>1, <2>1
    <3>3. f[k + 1] = FindStep(b, nr, f[k])
      BY Zenon, <1>5, <3>1
    <3>4. FindStep(b, nr, W(P, TRUE)) = W(P, TRUE)
      BY Zenon DEF FindStep, W
    <3> QED BY Zenon, <1>9, <1>10, <1>12, <3>2, <3>3, <3>4
  <2> QED BY Zenon, <2>0, <2>1
<1> HIDE DEF U
<1>13. \A k \in Nat : k \in U
  BY <1>11, <1>12, Induction
<1>14. Count(os) + 1 \in Nat /\ Count(os) + 1 >= n + 1 /\ Count(os) + 1 <= Count(os) + 1
  BY SMT, <1>1
<1>15. f[Count(os) + 1] = W(P, TRUE)
  BY Zenon, <1>13, <1>14 DEF U
<1> QED BY Zenon, <1>5, <1>15 DEF W

-----------------------------------------------------------------------------
(* A CoapPDU object.                                                         *)

(* A CoapPDU object.                                                        *)
Object(b, n, m, k) == [pdu |-> b, num |-> n, max |-> m, ok |-> k]

LEMMA ObjectParts ==
  ASSUME NEW b, NEW n, NEW m, NEW k
  PROVE  /\ DOMAIN Object(b, n, m, k) = {"pdu", "num", "max", "ok"}
         /\ Object(b, n, m, k).pdu = b /\ Object(b, n, m, k).num = n /\ Object(b, n, m, k).max = m
         /\ Object(b, n, m, k).ok = k
BY Zenon DEF Object

LEMMA ObjectIs ==
  ASSUME NEW e, NEW x, NEW y, NEW z, NEW u,
         DOMAIN e = {"pdu", "num", "max", "ok"} /\ e = [i \in DOMAIN e |-> e[i]],
         e.pdu = z /\ e.num = y /\ e.max = x /\ e.ok = u
  PROVE  e = Object(z, y, x, u)
BY DEF Object

(* The object with some of its fields changed.                              *)
Recorded(p, x, y)    == [p EXCEPT !.max = x, !.ok = y]
Failed(p, y)         == [p EXCEPT !.ok = y]
Grown(p, x, y, z) == [p EXCEPT !.max = x, !.num = y, !.pdu = z]
Widened(p, y, z)   == [p EXCEPT !.num = y, !.pdu = z]
Rebuilt(p, z)         == [p EXCEPT !.pdu = z]

LEMMA ObjectChanged ==
  ASSUME NEW b, NEW n, NEW m, NEW k
  PROVE  /\ \A x, y : Recorded(Object(b, n, m, k), x, y) = Object(b, n, x, y)
         /\ \A y : Failed(Object(b, n, m, k), y) = Object(b, n, m, y)
         /\ \A x, y, z : Grown(Object(b, n, m, k), x, y, z) = Object(z, y, x, k)
         /\ \A y, z : Widened(Object(b, n, m, k), y, z) = Object(z, y, m, k)
         /\ \A z : Rebuilt(Object(b, n, m, k), z) = Object(z, n, m, k)
<1> DEFINE w == Object(b, n, m, k)
<1>1. /\ DOMAIN w = {"pdu", "num", "max", "ok"}
      /\ w.pdu = b /\ w.num = n /\ w.max = m /\ w.ok = k
  BY ObjectParts
<1> HIDE DEF w
<1>2. ASSUME NEW x, NEW y PROVE Recorded(w, x, y) = Object(b, n, x, y)
  <2> DEFINE e == Recorded(w, x, y)
  <2>1. e = [i \in DOMAIN w |-> IF i = "ok" THEN y ELSE IF i = "max" THEN x ELSE w[i]]
    BY Zenon DEF Recorded, Failed, Grown, Widened, Rebuilt
  <2> HIDE DEF e
  <2>2. DOMAIN e = {"pdu", "num", "max", "ok"} /\ e = [i \in DOMAIN e |-> e[i]]
    BY SMT, <1>1, <2>1
  <2>3. e.pdu = b /\ e.num = n /\ e.max = x /\ e.ok = y
    BY <1>1, <2>1
  <2>4. e = Object(b, n, x, y)
    BY <2>2, <2>3, ObjectIs
  <2> QED BY Zenon, <2>4 DEF e
<1>3. ASSUME NEW y PROVE Failed(w, y) = Object(b, n, m, y)
  <2> DEFINE e == Failed(w, y)
  <2>1. e = [i \in DOMAIN w |-> IF i = "ok" THEN y ELSE w[i]]
    BY Zenon DEF Recorded, Failed, Grown, Widened, Rebuilt
  <2> HIDE DEF e
  <2>2. DOMAIN e = {"pdu", "num", "max", "ok"} /\ e = [i \in DOMAIN e |-> e[i]]
    BY SMT, <1>1, <2>1
  <2>3. e.pdu = b /\ e.num = n /\ e.max = m /\ e.ok = y
    BY <1>1, <2>1
  <2>4. e = Object(b, n, m, y)
    BY <2>2, <2>3, ObjectIs
  <2> QED BY Zenon, <2>4 DEF e
<1>4. ASSUME NEW x, NEW y, NEW z PROVE Grown(w, x, y, z) = Object(z, y, x, k)
  <2> DEFINE e == Grown(w, x, y, z)
  <2>1. e = [i \in DOMAIN w |-> IF i = "pdu" THEN z ELSE IF i = "num" THEN y ELSE IF i = "max" THEN x ELSE w[i]]
    BY Zenon DEF Recorded, Failed, Grown, Widened, Rebuilt
  <2> HIDE DEF e
  <2>2. DOMAIN e = {"pdu", "num", "max", "ok"} /\ e = [i \in DOMAIN e |-> e[i]]
    BY SMT, <1>1, <2>1
  <2>3. e.pdu = z /\ e.num = y /\ e.max = x /\ e.ok = k
    BY <1>1, <2>1
  <2>4. e = Object(z, y, x, k)
    BY <2>2, <2>3, ObjectIs
  <2> QED BY Zenon, <2>4 DEF e
<1>5. ASSUME NEW y, NEW z PROVE Widened(w, y, z) = Object(z, y, m, k)
  <2> DEFINE e == Widened(w, y, z)
  <2>1. e = [i \in DOMAIN w |-> IF i = "pdu" THEN z ELSE IF i = "num" THEN y ELSE w[i]]
    BY Zenon DEF Recorded, Failed, Grown, Widened, Rebuilt
  <2> HIDE DEF e
  <2>2. DOMAIN e = {"pdu", "num", "max", "ok"} /\ e = [i \in DOMAIN e |-> e[i]]
    BY SMT, <1>1, <2>1
  <2>3. e.pdu = z /\ e.num = y /\ e.max = m /\ e.ok = k
    BY <1>1, <2>1
  <2>4. e = Object(z, y, m, k)
    BY <2>2, <2>3, ObjectIs
  <2> QED BY Zenon, <2>4 DEF e
<1>6. ASSUME NEW z PROVE Rebuilt(w, z) = Object(z, n, m, k)
  <2> DEFINE e == Rebuilt(w, z)
  <2>1. e = [i \in DOMAIN w |-> IF i = "pdu" THEN z ELSE w[i]]
    BY Zenon DEF Recorded, Failed, Grown, Widened, Rebuilt
  <2> HIDE DEF e
  <2>2. DOMAIN e = {"pdu", "num", "max", "ok"} /\ e = [i \in DOMAIN e |-> e[i]]
    BY SMT, <1>1, <2>1
  <2>3. e.pdu = z /\ e.num = n /\ e.max = m /\ e.ok = k
    BY <1>1, <2>1
  <2>4. e = Object(z, n, m, k)
    BY <2>2, <2>3, ObjectIs
  <2> QED BY Zenon, <2>4 DEF e
<1> QED BY Zenon, <1>2, <1>3, <1>4, <1>5, <1>6 DEF w

-----------------------------------------------------------------------------
(* addOption, case by case.                                                  *)

(* The outcomes of addOption, and differences kept in 16 bits.              *)
Ok       == TRUE
Refused  == FALSE
Mod16(x) == x % 65536

LEMMA Difference16 ==
  ASSUME NEW a \in Uint16, NEW b \in Uint16, a <= b
  PROVE  b - a \in Uint16 /\ Mod16(b - a) = b - a
BY Difference DEF Mod16

Appending(p, n, v, delta) ==
  LET size == Len(p.pdu) + (1 + ExtraBytes(delta) + ExtraBytes(Len(v)) + Len(v))
  IN IF size > Capacity THEN Recorded(p, n, Refused)
     ELSE Grown(p, n, p.num + 1, InsertOption(Resize(p.pdu, size), Len(p.pdu), delta, v))

LEMMA AppendIs ==
  ASSUME NEW p, NEW n, NEW v, NEW prev
  PROVE  AppendOption(p, n, v, prev) = Appending(p, n, v, Mod16(n - prev))
BY SMT DEF AppendOption, Appending, Mod16, Recorded, Grown, Refused

Inserting(p, n, v, at, delta, nextDelta, next) ==
  LET length == 1 + ExtraBytes(delta) + ExtraBytes(Len(v)) + Len(v)
  IN IF Len(p.pdu) + length + (ExtraBytes(next) - ExtraBytes(nextDelta)) > Capacity
     THEN Failed(p, Refused)
     ELSE Widened(p, p.num + 1,
                    InsertOption(MakeRoom(p.pdu, at, length, nextDelta, next), at, delta, v))

LEMMA InsertIs ==
  ASSUME NEW p, NEW n, NEW v, NEW pos
  PROVE  InsertBefore(p, n, v, pos)
           = Inserting(p, n, v, pos.at, n - pos.prev, OptionDelta(p.pdu, pos.at),
                       Mod16(pos.prev + (OptionDelta(p.pdu, pos.at) - n)))
BY SMT DEF InsertBefore, Inserting, Mod16, Failed, Widened, Refused

(* Options as they are asked for: the length of the value is not bounded.   *)
Offered == [number : Uint16, value : Octets]

LEMMA OfferedParts ==
  ASSUME NEW e \in Offered
  PROVE  /\ e.number \in Uint16 /\ e.number \in Nat /\ e.value \in Octets /\ Len(e.value) \in Nat
         /\ (Len(e.value) <= 255 => e \in Held)
<1>1. e.number \in Uint16 /\ e.value \in Octets /\ e = [number |-> e.number, value |-> e.value]
  BY DEF Offered
<1>2. Len(e.value) \in Nat
  BY Zenon, <1>1, OctetsSize DEF Size
<1>3. e.number \in Nat
  BY <1>1, Bounds16
<1>4. ASSUME Len(e.value) <= 255 PROVE e \in Held
  <2>1. e \in [number : Uint16, value : Seq(Nat)]
    BY <1>1 DEF Octets
  <2> QED BY Zenon, <1>4, <2>1 DEF Held
<1> QED BY Zenon, <1>1, <1>2, <1>3, <1>4

(* The bytes that an option of this difference and length of value takes.   *)
Takes(d, l) == 1 + ExtraBytes(d) + ExtraBytes(l) + l

LEMMA TakesIn ==
  ASSUME NEW d \in Uint16, NEW l \in Nat
  PROVE  ExtraBytes(d) \in Nat /\ ExtraBytes(l) \in Nat /\ Takes(d, l) \in Nat /\ Takes(d, l) > l
<1>1. PICK x \in Nat : x = ExtraBytes(d)
  BY SMT DEF ExtraBytes
<1>2. PICK y \in Nat : y = ExtraBytes(l)
  BY SMT DEF ExtraBytes
<1>3. 1 + x + y + l \in Nat /\ 1 + x + y + l > l
  BY SMT
<1> QED BY Zenon, <1>1, <1>2, <1>3 DEF Takes

LEMMA ImageNone ==
  ASSUME NEW hdr \in Octets, NEW os \in Lists, Ascending(0, os)
  PROVE  Image(hdr, os, None) = Before(hdr, os) /\ Before(hdr, os) \in Octets
<1>1. Fields(0, os) \in Octets
  BY Zenon, FieldsIn, ZeroIn
<1>2. hdr ++ Fields(0, os) \in Octets
  BY <1>1, OctetsCat
<1> QED BY Zenon, <1>1, <1>2, OctetsNone DEF Image, Before

(* addOption at the end.                                                    *)
LEMMA AddEnd ==
  ASSUME NEW hdr \in Octets, NEW os \in Lists, Ascending(0, os),
         NEW e \in Offered, Last(0, os) <= e.number, NEW n, NEW m
  PROVE  LET p == Object(Before(hdr, os), n, m, Ok)
             r == AppendOption(p, e.number, e.value, Last(0, os))
         IN \/ r = Object(Before(hdr, os), n, e.number, Refused)
            \/ /\ e \in Held
               /\ r = Object(Before(hdr, os ** One(e)), n + 1, e.number, Ok)
               /\ Size(Before(hdr, os ** One(e))) <= Capacity
<1> DEFINE b == Before(hdr, os)
           v == e.value
           pr == Last(0, os)
<1>0. b \in Octets /\ v \in Octets /\ pr \in Uint16 /\ e.number \in Uint16 /\ Len(v) \in Nat
  BY ImageNone, OfferedParts, LastIn, ZeroIn
<1>1. PICK d \in Uint16 : d = e.number - pr /\ Mod16(e.number - pr) = d
  BY <1>0, Difference16
<1>b. b = Before(hdr, os) /\ v = e.value /\ pr = Last(0, os)
  OBVIOUS
<1> HIDE DEF b, v, pr
<1>2. PICK l \in Nat : l = Len(v)
  BY <1>0
<1>3. PICK s \in Nat : s = Size(b)
  BY <1>0, OctetsSize
<1>4. PICK t \in Nat : t = Takes(d, l) /\ t > l
  BY TakesIn
<1> DEFINE p == Object(b, n, m, Ok)
<1>5. p.pdu = b /\ p.num = n
  BY ObjectParts
<1>6. AppendOption(p, e.number, v, pr)
        = IF s + t > Capacity THEN Recorded(p, e.number, Refused)
          ELSE Grown(p, e.number, n + 1, InsertOption(Resize(b, s + t), s, d, v))
  <2> HIDE DEF p
  <2>1. AppendOption(p, e.number, v, pr) = Appending(p, e.number, v, d)
    BY Zenon, <1>1, AppendIs
  <2>2. Len(p.pdu) + (1 + ExtraBytes(d) + ExtraBytes(Len(v)) + Len(v)) = s + t /\ Len(p.pdu) = s
    BY Zenon, <1>2, <1>3, <1>4, <1>5 DEF Takes, Size
  <2> QED BY Zenon, <1>5, <2>1, <2>2 DEF Appending
<1>7. CASE s + t > Capacity
  <2>1. AppendOption(p, e.number, v, pr) = Object(b, n, e.number, Refused)
    <3>1. Recorded(p, e.number, Refused) = Object(b, n, e.number, Refused)
      BY ObjectChanged
    <3> HIDE DEF p
    <3> QED BY Zenon, <1>6, <1>7, <3>1
  <2> QED BY Zenon, <1>b, <2>1
<1>8. CASE ~(s + t > Capacity)
  <2>1. l <= 255 /\ s + t <= Capacity
    BY SMT, <1>4, <1>8, CoapBytesAssumption
  <2>2. e \in Held
    BY Zenon, <1>b, <1>2, <2>1, OfferedParts
  <2>3. t = Size(Option(d, v)) /\ Option(d, v) \in Octets
    <3>1. Len(v) <= 255
      BY Zenon, <1>2, <2>1
    <3>2. Size(Option(d, v)) = 1 + ExtraBytes(d) + ExtraBytes(Len(v)) + Len(v) /\ Option(d, v) \in Octets
      BY <1>0, <3>1, OptionShape
    <3> QED BY Zenon, <1>2, <1>4, <3>2 DEF Takes
  <2>4. InsertOption(Resize(b, Size(b) + Size(Option(d, v))), Size(b), d, v) = b ++ Option(d, v)
    <3>1. Len(v) <= 255
      BY Zenon, <1>2, <2>1
    <3> QED BY <1>0, <3>1, OptionAppended
  <2>5. Before(hdr, os ** One(e)) = b ++ Option(d, v)
    <3>1. One(e) ** Nil = One(e) /\ One(e) \in Lists /\ Nil \in Lists
      BY Zenon, <2>2, ListsOne, ListsNil
    <3>2. Ascending(0, os ** (One(e) ** Nil))
      BY Zenon, <2>2, <3>1, AscendingStep
    <3>3. \E dd \in Uint16 : /\ dd = e.number - Last(0, os)
                             /\ Before(hdr, os ** One(e)) = Before(hdr, os) ++ Option(dd, e.value)
      <4>1. \E dd \in Uint16 :
              /\ dd = e.number - Last(0, os) /\ Number(Last(0, os), dd) = e.number
              /\ Option(dd, e.value) \in Octets
              /\ Image(hdr, os ** (One(e) ** Nil), None)
                   = Before(hdr, os) ++ (Option(dd, e.value) ++ Behind(e, Nil, None))
              /\ Before(hdr, os ** One(e)) = Before(hdr, os) ++ Option(dd, e.value)
        BY <2>2, <3>1, <3>2, OctetsNone, OptionIn
      <4> QED BY Zenon, <4>1
    <3> QED BY Zenon, <1>b, <1>1, <3>3
  <2>6. Size(Before(hdr, os ** One(e))) = s + t
    <3>1. Size(b ++ Option(d, v)) = Size(b) + Size(Option(d, v))
      BY <1>0, <2>3, OctetsCat
    <3> QED BY Zenon, <1>3, <2>3, <2>5, <3>1
  <2>7. InsertOption(Resize(b, s + t), s, d, v) = Before(hdr, os ** One(e))
    BY Zenon, <1>3, <2>3, <2>4, <2>5
  <2>8. AppendOption(p, e.number, v, pr) = Object(Before(hdr, os ** One(e)), n + 1, e.number, Ok)
    <3> DEFINE N == InsertOption(Resize(b, s + t), s, d, v)
    <3>1. Grown(p, e.number, n + 1, N) = Object(N, n + 1, e.number, Ok)
      <4> HIDE DEF N
      <4> QED BY ObjectChanged
    <3> HIDE DEF p
    <3> QED BY Zenon, <1>6, <1>8, <2>7, <3>1
  <2> QED BY Zenon, <1>b, <2>1, <2>2, <2>6, <2>8
<1> QED BY Zenon, <1>7, <1>8

(* addOption between the options P and the option o.                        *)
LEMMA AddBetween ==
  ASSUME NEW hdr \in Octets, NEW q \in Octets, NEW P \in Lists, NEW o \in Held, NEW Q \in Lists,
         Ascending(0, P ** (One(o) ** Q)),
         NEW e \in Offered, Last(0, P) <= e.number, o.number > e.number, NEW n, NEW m
  PROVE  LET p == Object(Image(hdr, P ** (One(o) ** Q), q), n, m, Ok)
             r == InsertBefore(p, e.number, e.value,
                     [at |-> Size(Before(hdr, P)), prev |-> Last(0, P), done |-> TRUE])
         IN \/ r = Object(Image(hdr, P ** (One(o) ** Q), q), n, m, Refused)
            \/ /\ e \in Held
               /\ r = Object(Image(hdr, P ** (One(e) ** (One(o) ** Q)), q), n + 1, m, Ok)
               /\ Size(Image(hdr, P ** (One(e) ** (One(o) ** Q)), q)) <= Capacity
               /\ Ascending(0, P ** (One(e) ** (One(o) ** Q)))
<1> DEFINE b == Image(hdr, P ** (One(o) ** Q), q)
           v == e.value
           w == o.value
           pr == Last(0, P)
           A == Before(hdr, P)
           R == Behind(o, Q, q)
<1>0. /\ v \in Octets /\ Len(v) \in Nat /\ e.number \in Uint16 /\ e.number \in Nat
      /\ w \in Octets /\ Len(w) <= 255 /\ o.number \in Uint16 /\ o.number \in Nat
      /\ pr \in Uint16 /\ pr \in Nat
  BY OfferedParts, HeldParts, LastIn, ZeroIn, Bounds16
<1>a. One(o) ** Q \in Lists
  BY ListsOne, ListsCat
<1>asc. Ascending(0, P) /\ pr <= o.number /\ Ascending(o.number, Q)
  <2>1. Ascending(0, P) /\ Ascending(pr, One(o) ** Q)
    BY Zenon, <1>a, AscendingCat
  <2> QED BY Zenon, <1>0, <2>1, OneOption
<1>1. PICK nd \in Uint16 : /\ nd = o.number - pr
                           /\ A \in Octets /\ R \in Octets
                           /\ b = A ++ (Option(nd, w) ++ R)
                           /\ Option(nd, w) \in Octets
  <2>1. /\ Before(hdr, P) \in Octets /\ Behind(o, Q, q) \in Octets
        /\ \E d \in Uint16 :
              /\ d = o.number - Last(0, P) /\ Number(Last(0, P), d) = o.number
              /\ Option(d, o.value) \in Octets
              /\ Image(hdr, P ** (One(o) ** Q), q)
                   = Before(hdr, P) ++ (Option(d, o.value) ++ Behind(o, Q, q))
              /\ Before(hdr, P ** One(o)) = Before(hdr, P) ++ Option(d, o.value)
    BY OptionIn
  <2> QED BY Zenon, <2>1
<1>2. PICK i \in Nat : i = Size(A) /\ OptionDelta(b, i) = nd
  <2>1. /\ Size(Before(hdr, P)) \in Nat
        /\ \E t \in Nat :
              /\ Size(Before(hdr, P ** One(o))) = Size(Before(hdr, P)) + t
              /\ ReadsAs(Image(hdr, P ** (One(o) ** Q), q), Size(Before(hdr, P)), Last(0, P), o, t)
    BY OptionHere
  <2> QED BY Zenon, <1>1, <2>1 DEF ReadsAs
<1>b. /\ b = Image(hdr, P ** (One(o) ** Q), q) /\ v = e.value /\ w = o.value /\ pr = Last(0, P)
      /\ A = Before(hdr, P) /\ R = Behind(o, Q, q)
  OBVIOUS
<1>c. pr <= e.number /\ o.number > e.number
  OBVIOUS
<1> HIDE DEF b, v, w, pr, A, R
<1>3. PICK d \in Uint16 : d = e.number - pr
  BY <1>0, <1>c, Difference
<1>4. PICK next \in Uint16 : next = o.number - e.number /\ Mod16(o.number - e.number) = next
  <2>1. e.number <= o.number
    BY SMT, <1>0, <1>c
  <2>2. o.number - e.number \in Uint16 /\ Mod16(o.number - e.number) = o.number - e.number
    BY <1>0, <2>1, Difference16
  <2> QED BY Zenon, <2>2
<1>5. nd = d + next /\ pr + (nd - e.number) = o.number - e.number
  <2> DEFINE x == o.number
             y == e.number
  <2>1. x \in Nat /\ y \in Nat /\ pr \in Nat /\ nd = x - pr /\ d = y - pr /\ next = x - y
    BY Zenon, <1>0, <1>1, <1>3, <1>4
  <2> HIDE DEF x, y
  <2>2. nd = d + next /\ pr + (nd - y) = x - y
    BY SMT, <2>1
  <2> QED BY Zenon, <2>2 DEF x, y
<1>6. PICK l \in Nat, t \in Nat : l = Len(v) /\ t = Takes(d, l) /\ t > l
  BY <1>0, TakesIn
<1>7. PICK s \in Nat : s = Size(b)
  <2>1. b \in Octets
    BY <1>1, OctetsCat
  <2> QED BY <2>1, OctetsSize
<1>8. PICK en \in Nat, xn \in Nat, dn \in Nat, ln \in Nat :
         /\ en = ExtraBytes(next) /\ xn = ExtraBytes(nd) /\ dn = ExtraBytes(d) /\ ln = ExtraBytes(l)
  BY <1>6, TakesIn
<1>9. xn <= 1 + dn + en /\ t = 1 + dn + ln + l
  <2>1. ExtraBytes(d + next) <= 1 + ExtraBytes(d) + ExtraBytes(next)
    <3>1. d + next \in Uint16
      BY Zenon, <1>5
    <3> QED BY <3>1, Grows
  <2> QED BY Zenon, <1>5, <1>6, <1>8, <2>1 DEF Takes
<1> DEFINE p == Object(b, n, m, Ok)
           pos == [at |-> i, prev |-> pr, done |-> TRUE]
<1>10. p.pdu = b /\ p.num = n /\ pos.at = i /\ pos.prev = pr
  <2>1. p.pdu = b /\ p.num = n
    BY ObjectParts
  <2>2. pos.at = i /\ pos.prev = pr
    BY SMT
  <2> QED BY Zenon, <2>1, <2>2
<1>11. InsertBefore(p, e.number, v, pos)
         = IF s + t + (en - xn) > Capacity THEN Failed(p, Refused)
           ELSE Widened(p, n + 1, InsertOption(MakeRoom(b, i, t, nd, next), i, d, v))
  <2> HIDE DEF p, pos
  <2>1. /\ e.number - pr = d /\ 1 + ExtraBytes(d) + ExtraBytes(Len(v)) + Len(v) = t
        /\ OptionDelta(b, i) = nd /\ Mod16(pr + (nd - e.number)) = next
        /\ Len(b) = s /\ ExtraBytes(next) = en /\ ExtraBytes(nd) = xn
    BY Zenon, <1>2, <1>3, <1>4, <1>5, <1>6, <1>7, <1>8 DEF Takes, Size
  <2>2. InsertBefore(p, e.number, v, pos) = Inserting(p, e.number, v, i, d, nd, next)
    <3>1. InsertBefore(p, e.number, v, pos)
            = Inserting(p, e.number, v, pos.at, e.number - pos.prev, OptionDelta(p.pdu, pos.at),
                        Mod16(pos.prev + (OptionDelta(p.pdu, pos.at) - e.number)))
      BY InsertIs
    <3> QED BY Zenon, <1>10, <2>1, <3>1
  <2> QED BY Zenon, <1>10, <2>1, <2>2 DEF Inserting
<1>12. CASE s + t + (en - xn) > Capacity
  <2>1. InsertBefore(p, e.number, v, pos) = Object(b, n, m, Refused)
    <3>1. Failed(p, Refused) = Object(b, n, m, Refused)
      BY ObjectChanged
    <3> HIDE DEF p
    <3> QED BY Zenon, <1>11, <1>12, <3>1
  <2> QED BY Zenon, <1>b, <1>2, <2>1
<1>13. CASE ~(s + t + (en - xn) > Capacity)
  <2>1. l <= 255 /\ s + t + (en - xn) <= Capacity
    BY SMT, <1>6, <1>9, <1>13, CoapBytesAssumption
  <2>2. e \in Held /\ Len(v) <= 255
    BY Zenon, <1>b, <1>6, <2>1, OfferedParts
  <2>3. t = Size(Option(d, v)) /\ Option(d, v) \in Octets
    <3>2. Size(Option(d, v)) = 1 + ExtraBytes(d) + ExtraBytes(Len(v)) + Len(v) /\ Option(d, v) \in Octets
      BY <1>0, <2>2, OptionShape
    <3> QED BY Zenon, <1>6, <3>2 DEF Takes
  <2>4. InsertOption(MakeRoom(b, i, t, nd, next), i, d, v) = A ++ (Option(d, v) ++ (Option(next, w) ++ R))
    <3>1. d + next \in Uint16
      BY Zenon, <1>5
    <3>2. InsertOption(MakeRoom(A ++ (Option(d + next, w) ++ R), Size(A), Size(Option(d, v)), d + next, next),
                      Size(A), d, v)
           = A ++ (Option(d, v) ++ (Option(next, w) ++ R))
      BY <1>0, <1>1, <2>2, <3>1, OptionInserted
    <3> QED BY Zenon, <1>1, <1>2, <1>5, <2>3, <3>2
  <2> DEFINE N == P ** (One(e) ** (One(o) ** Q))
  <2>5. Ascending(0, N)
    <3>1. Ascending(e.number, One(o) ** Q)
      <4>1. e.number <= o.number
        BY SMT, <1>0, <1>c
      <4> QED BY Zenon, <1>0, <1>asc, <4>1, OneOption
    <3>2. Ascending(pr, One(e) ** (One(o) ** Q))
      BY Zenon, <1>0, <1>a, <1>c, <2>2, <3>1, OneOption
    <3>3. One(e) ** (One(o) ** Q) \in Lists
      BY <1>a, <2>2, ListsOne, ListsCat
    <3> QED BY Zenon, <1>b, <1>asc, <3>2, <3>3, AscendingCat
  <2>6. Image(hdr, N, q) = A ++ (Option(d, v) ++ Behind(e, One(o) ** Q, q))
    <3>1. \E dd \in Uint16 :
              /\ dd = e.number - Last(0, P) /\ Number(Last(0, P), dd) = e.number
              /\ Option(dd, e.value) \in Octets
              /\ Image(hdr, P ** (One(e) ** (One(o) ** Q)), q)
                   = Before(hdr, P) ++ (Option(dd, e.value) ++ Behind(e, One(o) ** Q, q))
              /\ Before(hdr, P ** One(e)) = Before(hdr, P) ++ Option(dd, e.value)
      BY <1>a, <2>2, <2>5, OptionIn
    <3> QED BY Zenon, <1>b, <1>3, <3>1
  <2>7. Behind(e, One(o) ** Q, q) = Option(next, w) ++ R /\ Option(next, w) \in Octets
    <3>0. e.number <= o.number
      BY SMT, <1>0, <1>c
    <3>1. Ascending(e.number, One(o) ** Q)
      BY Zenon, <1>0, <1>asc, <3>0, OneOption
    <3>2. Fields(e.number, One(o) ** Q) = Field(e.number, o) ++ Fields(o.number, Q)
      BY Zenon, <1>0, <3>1, OneOption
    <3>3. \E dd \in Uint16 : /\ dd = o.number - e.number /\ Number(e.number, dd) = o.number
                             /\ Field(e.number, o) = Option(dd, o.value)
                             /\ Field(e.number, o) \in Octets
      BY <1>0, <3>0, FieldIs
    <3>4. Field(e.number, o) = Option(next, w) /\ Option(next, w) \in Octets
      BY Zenon, <1>b, <1>4, <3>3
    <3>5. Fields(o.number, Q) \in Octets
      BY Zenon, <1>0, <1>asc, FieldsIn
    <3>6. (Option(next, w) ++ Fields(o.number, Q)) ++ q = Option(next, w) ++ (Fields(o.number, Q) ++ q)
      BY <3>4, <3>5, OctetsAssoc
    <3> QED BY Zenon, <1>b, <3>2, <3>4, <3>6 DEF Behind
  <2>8. Size(Image(hdr, N, q)) = s + t + (en - xn)
    <3> DEFINE O1 == Option(d, v)
               O2 == Option(next, w)
               O3 == Option(nd, w)
               u == ExtraBytes(Len(w)) + Len(w)
    <3>1. O1 \in Octets /\ O2 \in Octets /\ O3 \in Octets
      BY <1>1, <2>3, <2>7
    <3>2. Size(O2) = 1 + ExtraBytes(next) + ExtraBytes(Len(w)) + Len(w)
          /\ Size(O3) = 1 + ExtraBytes(nd) + ExtraBytes(Len(w)) + Len(w)
      BY <1>0, OptionShape
    <3>w. PICK x \in Nat, y \in Nat : x = ExtraBytes(Len(w)) /\ y = Len(w)
      <4>1. Len(w) \in Nat
        BY Zenon, <1>0, OctetsSize DEF Size
      <4> QED BY <1>0, <4>1, TakesIn, ZeroIn
    <3>3. PICK a \in Nat, r \in Nat : a = Size(A) /\ r = Size(R)
      BY <1>1, OctetsSize
    <3>4. Size(O2) = 1 + en + x + y /\ Size(O3) = 1 + xn + x + y
      BY Zenon, <1>8, <3>2, <3>w
    <3> HIDE DEF O1, O2, O3
    <3>5. s = a + ((1 + xn + x + y) + r)
      <4>1. O3 ++ R \in Octets /\ Size(O3 ++ R) = Size(O3) + Size(R)
        BY <1>1, <3>1, OctetsCat
      <4>2. Size(A ++ (O3 ++ R)) = Size(A) + Size(O3 ++ R)
        BY <1>1, <4>1, OctetsCat
      <4> QED BY Zenon, <1>1, <1>7, <3>3, <3>4, <4>1, <4>2 DEF O3
    <3>6. Size(A ++ (O1 ++ (O2 ++ R))) = a + (t + ((1 + en + x + y) + r))
      <4>1. O2 ++ R \in Octets /\ Size(O2 ++ R) = Size(O2) + Size(R)
        BY <1>1, <3>1, OctetsCat
      <4>2. O1 ++ (O2 ++ R) \in Octets /\ Size(O1 ++ (O2 ++ R)) = Size(O1) + Size(O2 ++ R)
        BY <3>1, <4>1, OctetsCat
      <4>3. Size(A ++ (O1 ++ (O2 ++ R))) = Size(A) + Size(O1 ++ (O2 ++ R))
        BY <1>1, <4>2, OctetsCat
      <4>4. Size(O1) = t
        BY Zenon, <2>3 DEF O1
      <4> QED BY Zenon, <3>3, <3>4, <4>1, <4>2, <4>3, <4>4
    <3>7. a + (t + ((1 + en + x + y) + r)) = s + t + (en - xn)
      BY SMT, <3>5
    <3> QED BY Zenon, <2>6, <2>7, <3>6, <3>7 DEF O1, O2
  <2>9. InsertBefore(p, e.number, v, pos) = Object(Image(hdr, N, q), n + 1, m, Ok)
    <3> HIDE DEF N
    <3>1. InsertOption(MakeRoom(b, i, t, nd, next), i, d, v) = Image(hdr, N, q)
      BY Zenon, <2>4, <2>6, <2>7
    <3> DEFINE B == InsertOption(MakeRoom(b, i, t, nd, next), i, d, v)
    <3>2. Widened(p, n + 1, B) = Object(B, n + 1, m, Ok)
      <4> HIDE DEF B
      <4> QED BY ObjectChanged
    <3> HIDE DEF p
    <3> QED BY Zenon, <1>11, <1>13, <3>1, <3>2
  <2> QED BY Zenon, <1>b, <1>2, <2>1, <2>2, <2>5, <2>8, <2>9
<1> QED BY Zenon, <1>12, <1>13

-----------------------------------------------------------------------------
(* addOption on the datagram of a list.                                      *)

(* The token's length is in the header, whatever follows.                   *)
LEMMA HeadKept ==
  ASSUME NEW hdr \in Octets, Size(hdr) > 0
  PROVE  \A x \in Octets : At(hdr ++ x, 0) = At(hdr, 0) /\ At(hdr, 0) \in Nat
<1> SUFFICES ASSUME NEW x \in Octets PROVE At(hdr ++ x, 0) = At(hdr, 0) /\ At(hdr, 0) \in Nat
  OBVIOUS
<1>0. hdr \in Seq(Nat) /\ x \in Seq(Nat) /\ Len(hdr) > 0
  BY Zenon DEF Octets, Size
<1>1. At(hdr \o x, 0) = At(hdr, 0) /\ At(hdr, 0) \in Nat
  BY SMT, <1>0 DEF At
<1> QED BY Zenon, <1>1 DEF ++

(* A header whose length agrees with the length of the token it says.       *)
Headed(hdr) == hdr \in Octets /\ Size(hdr) > 0 /\ HDR + TokenLength(hdr) = Size(hdr)

LEMMA HeadedImage ==
  ASSUME NEW hdr, Headed(hdr), NEW q \in Octets, NEW os \in Lists, Ascending(0, os)
  PROVE  HDR + TokenLength(Image(hdr, os, q)) = Size(hdr)
<1>1. hdr \in Octets /\ Size(hdr) > 0 /\ HDR + TokenLength(hdr) = Size(hdr)
  BY Zenon DEF Headed
<1>2. Fields(0, os) ++ q \in Octets
  <2>1. Fields(0, os) \in Octets
    BY Zenon, FieldsIn, ZeroIn
  <2> QED BY <2>1, OctetsCat
<1>3. At(hdr ++ (Fields(0, os) ++ q), 0) = At(hdr, 0)
  BY <1>1, <1>2, HeadKept
<1> QED BY Zenon, <1>1, <1>3 DEF TokenLength, Image

LEMMA AddToIs ==
  ASSUME NEW b, NEW n, NEW m, NEW e
  PROVE  LET p == Object(b, n, m, Ok)
             pos == InsertionPosition(p, e.number)
         IN AddTo(p, e) = IF pos.at = Len(b) THEN AppendOption(p, e.number, e.value, pos.prev)
                          ELSE InsertBefore(p, e.number, e.value, pos)
<1> DEFINE p == Object(b, n, m, Ok)
<1>1. p.pdu = b /\ p.ok = Ok
  BY ObjectParts
<1> HIDE DEF p
<1>2. ~p.ok <=> FALSE
  BY Zenon, <1>1 DEF Ok
<1>3. AddTo(p, e) = IF InsertionPosition(p, e.number).at = Len(b)
                    THEN AppendOption(p, e.number, e.value, InsertionPosition(p, e.number).prev)
                    ELSE InsertBefore(p, e.number, e.value, InsertionPosition(p, e.number))
  BY Zenon, <1>1, <1>2 DEF AddTo
<1> QED BY Zenon, <1>3 DEF p

(* The end of the datagram is where an option goes that no other is behind. *)
LEMMA FindEnd ==
  ASSUME NEW p, NEW nr, nr >= p.max
  PROVE  InsertionPosition(p, nr).at = Len(p.pdu) /\ InsertionPosition(p, nr).prev = p.max
<1>1. InsertionPosition(p, nr) = [at |-> Len(p.pdu), prev |-> p.max, done |-> TRUE]
  BY Zenon DEF InsertionPosition
<1> DEFINE a == Len(p.pdu)
           m == p.max
           r == InsertionPosition(p, nr)
<1>2. r = [at |-> a, prev |-> m, done |-> TRUE]
  BY Zenon, <1>1
<1> HIDE DEF a, m, r
<1>3. r.at = a /\ r.prev = m
  BY SMT, <1>2
<1> QED BY Zenon, <1>3 DEF a, m, r

(* The outcomes of addOption for an option e.                               *)
Added(hdr, os, q, e, r) ==
  \/ \E m : r = Object(Image(hdr, os, q), Count(os), m, Refused)
  \/ /\ e \in Held
     /\ InOrder(os, e) \in Lists /\ Ascending(0, InOrder(os, e))
     /\ Count(InOrder(os, e)) = Count(os) + 1
     /\ r = Object(Image(hdr, InOrder(os, e), q), Count(os) + 1, Last(0, InOrder(os, e)), Ok)
     /\ Size(Image(hdr, InOrder(os, e), q)) <= Capacity
     /\ q = None \/ Last(0, InOrder(os, e)) = Last(0, os)

LEMMA AddToEnd ==
  ASSUME NEW hdr, Headed(hdr), NEW os \in Lists, Ascending(0, os), NEW e \in Offered,
         Last(0, os) <= e.number
  PROVE  Added(hdr, os, None, e, AddTo(Object(Image(hdr, os, None), Count(os), Last(0, os), Ok), e))
<1> DEFINE b == Image(hdr, os, None)
           p == Object(b, Count(os), Last(0, os), Ok)
           r == AddTo(p, e)
<1>0. hdr \in Octets
  BY Zenon DEF Headed
<1>1. b = Before(hdr, os)
  BY <1>0, ImageNone
<1>2. e.number >= Last(0, os)
  <2> DEFINE x == e.number
             y == Last(0, os)
  <2>1. x \in Nat /\ y \in Nat /\ y <= x
    BY OfferedParts, LastIn, ZeroIn, Bounds16
  <2> HIDE DEF x, y
  <2>2. x >= y
    BY SMT, <2>1
  <2> QED BY Zenon, <2>2 DEF x, y
<1>3. p.pdu = b /\ p.max = Last(0, os)
  BY ObjectParts
<1>4. r = AppendOption(p, e.number, e.value, Last(0, os))
  <2>1. r = IF InsertionPosition(p, e.number).at = Len(b)
            THEN AppendOption(p, e.number, e.value, InsertionPosition(p, e.number).prev)
            ELSE InsertBefore(p, e.number, e.value, InsertionPosition(p, e.number))
    BY AddToIs
  <2> HIDE DEF p, r
  <2>2. InsertionPosition(p, e.number).at = Len(b) /\ InsertionPosition(p, e.number).prev = Last(0, os)
    <3>1. e.number >= p.max
      BY Zenon, <1>2, <1>3
    <3>2. InsertionPosition(p, e.number).at = Len(p.pdu) /\ InsertionPosition(p, e.number).prev = p.max
      BY <3>1, FindEnd
    <3> QED BY Zenon, <1>3, <3>2
  <2> QED BY Zenon, <2>1, <2>2
<1>5. \/ r = Object(Before(hdr, os), Count(os), e.number, Refused)
      \/ /\ e \in Held
         /\ r = Object(Before(hdr, os ** One(e)), Count(os) + 1, e.number, Ok)
         /\ Size(Before(hdr, os ** One(e))) <= Capacity
  <2>1. LET pp == Object(Before(hdr, os), Count(os), Last(0, os), Ok)
            rr == AppendOption(pp, e.number, e.value, Last(0, os))
        IN \/ rr = Object(Before(hdr, os), Count(os), e.number, Refused)
           \/ /\ e \in Held
              /\ rr = Object(Before(hdr, os ** One(e)), Count(os) + 1, e.number, Ok)
              /\ Size(Before(hdr, os ** One(e))) <= Capacity
    BY <1>0, AddEnd
  <2> HIDE DEF r
  <2> QED BY Zenon, <1>1, <1>4, <2>1
<1> HIDE DEF r
<1>6. CASE r = Object(Before(hdr, os), Count(os), e.number, Refused)
  BY Zenon, <1>1, <1>6 DEF Added, r
<1>7. CASE /\ e \in Held
           /\ r = Object(Before(hdr, os ** One(e)), Count(os) + 1, e.number, Ok)
           /\ Size(Before(hdr, os ** One(e))) <= Capacity
  <2>1. InOrder(os, e) = os ** One(e)
    BY <1>7, InOrderEnd
  <2>2. os ** One(e) \in Lists /\ Count(os ** One(e)) = Count(os) + 1 /\ Last(0, os ** One(e)) = e.number
    <3>1. One(e) \in Lists /\ Count(One(e)) = 1
      BY <1>7, ListsOne
    <3>2. os ** One(e) \in Lists /\ Count(os ** One(e)) = Count(os) + Count(One(e))
      BY <3>1, ListsCat
    <3>3. Last(0, os ** One(e)) = e.number
      BY <1>7, LastOf
    <3> QED BY Zenon, <3>1, <3>2, <3>3
  <2>3. Ascending(0, os ** One(e))
    BY Zenon, <1>7, AscendingStep
  <2>4. Image(hdr, os ** One(e), None) = Before(hdr, os ** One(e))
    BY <1>0, <2>2, <2>3, ImageNone
  <2> QED BY Zenon, <1>7, <2>1, <2>2, <2>3, <2>4 DEF Added, r
<1> QED BY Zenon, <1>5, <1>6, <1>7

LEMMA AddToBetween ==
  ASSUME NEW hdr, Headed(hdr), NEW q \in Octets,
         NEW P \in Lists, NEW o \in Held, NEW Q \in Lists, Ascending(0, P ** (One(o) ** Q)),
         NEW e \in Offered, Last(0, P) <= e.number, o.number > e.number
  PROVE  Added(hdr, P ** (One(o) ** Q), q, e,
               AddTo(Object(Image(hdr, P ** (One(o) ** Q), q), Count(P ** (One(o) ** Q)),
                            Last(0, P ** (One(o) ** Q)), Ok), e))
<1> DEFINE os == P ** (One(o) ** Q)
           N == P ** (One(e) ** (One(o) ** Q))
           b == Image(hdr, os, q)
           p == Object(b, Count(os), Last(0, os), Ok)
           r == AddTo(p, e)
           pos == [at |-> Size(Before(hdr, P)), prev |-> Last(0, P), done |-> TRUE]
<1>0. hdr \in Octets /\ One(o) ** Q \in Lists /\ os \in Lists /\ e.number \in Uint16
  BY ListsOne, ListsCat, OfferedParts DEF Headed
<1>1. Keeps(p, hdr, os, q)
  <2>1. HDR + TokenLength(b) = Size(hdr)
    BY <1>0, HeadedImage
  <2>2. p.pdu = b /\ p.num = Count(os) /\ p.max = Last(0, os)
    BY ObjectParts
  <2> HIDE DEF p
  <2> QED BY Zenon, <2>1, <2>2 DEF Keeps
<1>2. InsertionPosition(p, e.number) = pos
  <2> HIDE DEF p
  <2>1. Keeps(p, hdr, P ** (One(o) ** Q), q)
    BY <1>1
  <2>2. e.number \in Uint16 /\ hdr \in Octets
    BY <1>0
  <2>3. InsertionPosition(p, e.number) = [at |-> Size(Before(hdr, P)), prev |-> Last(0, P), done |-> TRUE]
    <3> DEFINE x == e.number
    <3>1. x \in Uint16 /\ Last(0, P) <= x /\ o.number > x
      BY Zenon, <2>2
    <3> HIDE DEF x, os, N, b, r, pos
    <3>2. InsertionPosition(p, x) = [at |-> Size(Before(hdr, P)), prev |-> Last(0, P), done |-> TRUE]
      BY <2>1, <2>2, <3>1, FindReads
    <3> QED BY Zenon, <3>2 DEF x
  <2> QED BY Zenon, <2>3
<1>3. pos.at = Size(Before(hdr, P)) /\ ~(Size(Before(hdr, P)) >= Len(b)) /\ Size(Before(hdr, P)) \in Nat
  <2>1. /\ Size(Before(hdr, P)) \in Nat
        /\ \E t \in Nat :
              /\ Size(Before(hdr, P ** One(o))) = Size(Before(hdr, P)) + t
              /\ ReadsAs(Image(hdr, P ** (One(o) ** Q), q), Size(Before(hdr, P)), Last(0, P), o, t)
    BY <1>0, OptionHere
  <2> QED BY Zenon, <2>1 DEF ReadsAs
<1>4. pos.at # Len(b)
  <2>1. PICK i \in Nat : i = Size(Before(hdr, P))
    BY Zenon, <1>3
  <2>2. i >= i
    BY SMT
  <2> QED BY Zenon, <1>3, <2>1, <2>2
<1>5. r = InsertBefore(p, e.number, e.value, pos)
  <2>1. r = IF InsertionPosition(p, e.number).at = Len(b)
            THEN AppendOption(p, e.number, e.value, InsertionPosition(p, e.number).prev)
            ELSE InsertBefore(p, e.number, e.value, InsertionPosition(p, e.number))
    BY AddToIs
  <2> HIDE DEF p, r, pos
  <2> QED BY Zenon, <1>2, <1>4, <2>1
<1>6. \/ r = Object(b, Count(os), Last(0, os), Refused)
      \/ /\ e \in Held
         /\ r = Object(Image(hdr, N, q), Count(os) + 1, Last(0, os), Ok)
         /\ Size(Image(hdr, N, q)) <= Capacity
         /\ Ascending(0, N)
  <2>1. LET pp == Object(Image(hdr, P ** (One(o) ** Q), q), Count(os), Last(0, os), Ok)
            rr == InsertBefore(pp, e.number, e.value,
                     [at |-> Size(Before(hdr, P)), prev |-> Last(0, P), done |-> TRUE])
        IN \/ rr = Object(Image(hdr, P ** (One(o) ** Q), q), Count(os), Last(0, os), Refused)
           \/ /\ e \in Held
              /\ rr = Object(Image(hdr, P ** (One(e) ** (One(o) ** Q)), q), Count(os) + 1, Last(0, os), Ok)
              /\ Size(Image(hdr, P ** (One(e) ** (One(o) ** Q)), q)) <= Capacity
              /\ Ascending(0, P ** (One(e) ** (One(o) ** Q)))
    BY <1>0, AddBetween
  <2> HIDE DEF r
  <2> QED BY Zenon, <1>5, <2>1
<1> HIDE DEF r
<1>7. CASE r = Object(b, Count(os), Last(0, os), Refused)
  BY Zenon, <1>7 DEF Added, r
<1>8. CASE /\ e \in Held
           /\ r = Object(Image(hdr, N, q), Count(os) + 1, Last(0, os), Ok)
           /\ Size(Image(hdr, N, q)) <= Capacity
           /\ Ascending(0, N)
  <2>1. InOrder(os, e) = N
    BY <1>8, InOrderBetween
  <2>2. One(e) \in Lists /\ Count(One(e)) = 1 /\ One(e) ** (One(o) ** Q) \in Lists
    BY <1>0, <1>8, ListsOne, ListsCat
  <2>3. N \in Lists
    BY <2>2, ListsCat
  <2>4. Count(N) = Count(os) + 1
    <3>1. PICK i \in Nat, j \in Nat : i = Count(P) /\ j = Count(One(o) ** Q)
      BY <1>0, ListsCount
    <3>2. Count(os) = i + j
      BY Zenon, <1>0, <3>1, ListsCat
    <3>3. Count(One(e) ** (One(o) ** Q)) = 1 + j
      <4>1. Count(One(e) ** (One(o) ** Q)) = Count(One(e)) + Count(One(o) ** Q)
        BY <1>0, <2>2, ListsCat
      <4> QED BY Zenon, <2>2, <3>1, <4>1
    <3>4. Count(N) = i + (1 + j)
      BY Zenon, <2>2, <3>1, <3>3, ListsCat
    <3>5. i + (1 + j) = (i + j) + 1
      BY SMT
    <3> QED BY Zenon, <3>2, <3>4, <3>5
  <2>5. Last(0, N) = Last(0, os)
    <3>1. Last(0, os) = Last(Last(0, P), One(o) ** Q)
      BY <1>0, LastCat
    <3>2. Last(0, N) = Last(Last(0, P), One(e) ** (One(o) ** Q))
      BY <2>2, LastCat
    <3>3. Last(Last(0, P), One(e) ** (One(o) ** Q)) = Last(Last(Last(0, P), One(e)), One(o) ** Q)
      BY <1>0, <2>2, LastCat
    <3>4. \A y : Last(y, One(o) ** Q) = Last(Last(y, One(o)), Q)
      BY ListsOne, LastCat
    <3>5. \A y : Last(y, One(o)) = o.number
      <4> SUFFICES ASSUME NEW y PROVE Last(y, One(o)) = o.number
        BY Zenon
      <4>1. Nil ** One(o) = One(o) /\ Nil \in Lists
        BY Zenon, ListsNil, ListsOne
      <4>2. Last(y, Nil ** One(o)) = o.number
        BY <4>1, LastOf
      <4> QED BY Zenon, <4>1, <4>2
    <3> QED BY Zenon, <3>1, <3>2, <3>3, <3>4, <3>5
  <2> HIDE DEF N
  <2> QED BY Zenon, <1>8, <2>1, <2>3, <2>4, <2>5 DEF Added, r
<1> QED BY Zenon, <1>6, <1>7, <1>8

(* One call of addOption.                                                   *)
LEMMA AddKeeps ==
  ASSUME NEW hdr, Headed(hdr), NEW q \in Octets, NEW os \in Lists, Ascending(0, os),
         NEW e \in Offered, q = None \/ ~(Last(0, os) <= e.number)
  PROVE  Added(hdr, os, q, e, AddTo(Object(Image(hdr, os, q), Count(os), Last(0, os), Ok), e))
<1>0. e.number \in Uint16
  BY OfferedParts
<1>1. \/ Last(0, os) <= e.number
      \/ \E P \in Lists, o \in Held, Q \in Lists :
           os = P ** (One(o) ** Q) /\ Last(0, P) <= e.number /\ o.number > e.number
  BY <1>0, PlaceExists
<1>2. CASE Last(0, os) <= e.number
  <2>1. q = None
    BY Zenon, <1>2
  <2>2. Added(hdr, os, None, e, AddTo(Object(Image(hdr, os, None), Count(os), Last(0, os), Ok), e))
    BY <1>2, AddToEnd
  <2> QED BY Zenon, <2>1, <2>2
<1>3. ASSUME NEW P \in Lists, NEW o \in Held, NEW Q \in Lists,
             os = P ** (One(o) ** Q), Last(0, P) <= e.number, o.number > e.number
      PROVE  Added(hdr, os, q, e, AddTo(Object(Image(hdr, os, q), Count(os), Last(0, os), Ok), e))
  <2>1. Ascending(0, P ** (One(o) ** Q))
    BY Zenon, <1>3
  <2>2. Added(hdr, P ** (One(o) ** Q), q, e,
               AddTo(Object(Image(hdr, P ** (One(o) ** Q), q), Count(P ** (One(o) ** Q)),
                            Last(0, P ** (One(o) ** Q)), Ok), e))
    BY <1>3, <2>1, AddToBetween
  <2> QED BY Zenon, <1>3, <2>2
<1> QED BY Zenon, <1>1, <1>2, <1>3

-----------------------------------------------------------------------------
(* Several calls of addOption.                                               *)

(* The beginnings of a sequence.                                            *)
LEMMA Beginnings ==
  ASSUME NEW S, NEW es \in Seq(S)
  PROVE  /\ Len(es) \in Nat /\ SubSeq(es, 1, Len(es)) = es /\ DOMAIN es = 1 .. Len(es)
         /\ \A k \in 0 .. Len(es) : /\ SubSeq(es, 1, k) \in Seq(S)
                                    /\ Len(SubSeq(es, 1, k)) = k
                                    /\ \A j \in 1 .. k : SubSeq(es, 1, k)[j] = es[j]
         /\ \A k \in 1 .. Len(es) : es[k] \in S
BY SMT

LEMMA InOrderBeginnings ==
  ASSUME NEW S, NEW es \in Seq(S), NEW os
  PROVE  \E g : /\ g[0] = os
                /\ \A k \in 0 .. Len(es) : k # 0 => g[k] = InOrder(g[k - 1], es[k])
                /\ \A k \in 0 .. Len(es) : InOrderAll(os, SubSeq(es, 1, k)) = g[k]
                /\ InOrderAll(os, es) = g[Len(es)]
<1>n. PICK n \in Nat : n = Len(es)
  BY Beginnings
<1>0. /\ SubSeq(es, 1, n) = es
      /\ \A k \in 0 .. n : Len(SubSeq(es, 1, k)) = k /\ \A j \in 1 .. k : SubSeq(es, 1, k)[j] = es[j]
  <2>1. /\ SubSeq(es, 1, Len(es)) = es
        /\ \A k \in 0 .. Len(es) : /\ SubSeq(es, 1, k) \in Seq(S)
                                   /\ Len(SubSeq(es, 1, k)) = k
                                   /\ \A j \in 1 .. k : SubSeq(es, 1, k)[j] = es[j]
    BY Beginnings
  <2> QED BY Zenon, <1>n, <2>1
<1>1. PICK g : /\ InOrderAll(os, es) = g[n] /\ g[0] = os
               /\ \A k \in 0 .. n : k # 0 => g[k] = InOrder(g[k - 1], es[k])
  <2>1. Len(es) \in Nat
    BY Zenon, <1>n
  <2>2. \E f : /\ InOrderAll(os, es) = f[Len(es)]
               /\ f[0] = os
               /\ \A k \in 0 .. Len(es) : k # 0 => f[k] = InOrder(f[k - 1], es[k])
    BY <2>1, InOrderIs
  <2> QED BY Zenon, <1>n, <2>2
<1>2. ASSUME NEW k \in 0 .. n PROVE InOrderAll(os, SubSeq(es, 1, k)) = g[k]
  <2> DEFINE s == SubSeq(es, 1, k)
  <2>0. k \in Nat /\ k <= n
    BY SMT
  <2>1. Len(s) = k /\ \A j \in 1 .. k : s[j] = es[j]
    BY Zenon, <1>0
  <2> HIDE DEF s
  <2>2. PICK f : /\ InOrderAll(os, s) = f[k] /\ f[0] = os
                 /\ \A j \in 0 .. k : j # 0 => f[j] = InOrder(f[j - 1], s[j])
    <3>1. Len(s) \in Nat
      BY Zenon, <2>0, <2>1
    <3>2. \E f : /\ InOrderAll(os, s) = f[Len(s)]
                 /\ f[0] = os
                 /\ \A j \in 0 .. Len(s) : j # 0 => f[j] = InOrder(f[j - 1], s[j])
      BY <3>1, InOrderIs
    <3> QED BY Zenon, <2>1, <3>2
  <2> DEFINE T == {j \in Nat : j <= k => f[j] = g[j]}
  <2>3. 0 \in T
    BY Zenon, <1>1, <2>2
  <2>4. ASSUME NEW j \in Nat, j \in T PROVE j + 1 \in T
    <3>0. j + 1 \in Nat
      BY SMT
    <3>1. ASSUME j + 1 <= k PROVE f[j + 1] = g[j + 1]
      <4>1. /\ j <= k /\ j + 1 \in 0 .. k /\ j + 1 \in 0 .. n /\ j + 1 \in 1 .. k
            /\ j + 1 # 0 /\ (j + 1) - 1 = j
        BY SMT, <2>0, <3>1
      <4>2. f[j + 1] = InOrder(f[j], s[j + 1])
        BY Zenon, <2>2, <4>1
      <4>3. g[j + 1] = InOrder(g[j], es[j + 1])
        BY Zenon, <1>1, <4>1
      <4> QED BY Zenon, <2>1, <2>4, <4>1, <4>2, <4>3
    <3> QED BY Zenon, <3>0, <3>1
  <2> HIDE DEF T
  <2>5. \A j \in Nat : j \in T
    BY <2>3, <2>4, Induction
  <2>6. k <= k
    BY SMT, <2>0
  <2> QED BY Zenon, <2>0, <2>2, <2>5, <2>6 DEF T, s
<1> QED BY Zenon, <1>n, <1>1, <1>2

LEMMA AddToRefused ==
  ASSUME NEW b, NEW n, NEW m, NEW e
  PROVE  AddTo(Object(b, n, m, Refused), e) = Object(b, n, m, Refused)
<1> DEFINE p == Object(b, n, m, Refused)
<1>1. p.ok = Refused
  BY ObjectParts
<1> HIDE DEF p
<1>2. ~p.ok
  BY Zenon, <1>1 DEF Refused
<1>3. AddTo(p, e) = p
  BY Zenon, <1>2 DEF AddTo
<1> QED BY Zenon, <1>3 DEF p

(* A list of n options in order that fits into the buffer.                  *)
Fitting(hdr, N, q, n) ==
  N \in Lists /\ Ascending(0, N) /\ Count(N) = n /\ Size(Image(hdr, N, q)) <= Capacity

(* What calls of addOption make of the datagram, c of them before the first *)
(* that is refused.                                                         *)
AddedAll(hdr, os, q, es, r) ==
  \E c \in 0 .. Len(es) : \E m :
    /\ Fitting(hdr, InOrderAll(os, SubSeq(es, 1, c)), q, Count(os) + c)
    /\ \/ r = Object(Image(hdr, InOrderAll(os, SubSeq(es, 1, c)), q), Count(os) + c, m, Refused)
       \/ /\ c = Len(es)
          /\ InOrderAll(os, es) = InOrderAll(os, SubSeq(es, 1, c))
          /\ m = Last(0, InOrderAll(os, es))
          /\ r = Object(Image(hdr, InOrderAll(os, es), q), Count(os) + c, m, Ok)

LEMMA AddAllKeeps ==
  ASSUME NEW hdr, Headed(hdr), NEW q \in Octets, NEW os, Fitting(hdr, os, q, Count(os)),
         NEW es \in Seq(Offered),
         q = None \/ \A k \in 1 .. Len(es) : ~(Last(0, os) <= es[k].number)
  PROVE  AddedAll(hdr, os, q, es, AddAll(Object(Image(hdr, os, q), Count(os), Last(0, os), Ok), es))
<1> DEFINE p == Object(Image(hdr, os, q), Count(os), Last(0, os), Ok)
           l == Count(os)
<1>n. PICK n \in Nat : n = Len(es)
  BY Beginnings
<1>0. l \in Nat /\ os \in Lists /\ Ascending(0, os) /\ Size(Image(hdr, os, q)) <= Capacity
  BY ListsCount DEF Fitting
<1>e. \A k \in 1 .. n : es[k] \in Offered
  <2>1. \A k \in 1 .. Len(es) : es[k] \in Offered
    <3> DEFINE S == Offered
    <3> HIDE DEF S
    <3>1. es \in Seq(S)
      BY DEF S
    <3>2. \A k \in 1 .. Len(es) : es[k] \in S
      BY <3>1, Beginnings
    <3> QED BY <3>2 DEF S
  <2> QED BY Zenon, <1>n, <2>1
<1>q. q = None \/ \A k \in 1 .. n : ~(Last(0, os) <= es[k].number)
  BY Zenon, <1>n
<1>1. PICK g : /\ g[0] = os
               /\ \A k \in 0 .. n : k # 0 => g[k] = InOrder(g[k - 1], es[k])
               /\ \A k \in 0 .. n : InOrderAll(os, SubSeq(es, 1, k)) = g[k]
               /\ InOrderAll(os, es) = g[n]
  <2>1. \E g : /\ g[0] = os
               /\ \A k \in 0 .. Len(es) : k # 0 => g[k] = InOrder(g[k - 1], es[k])
               /\ \A k \in 0 .. Len(es) : InOrderAll(os, SubSeq(es, 1, k)) = g[k]
               /\ InOrderAll(os, es) = g[Len(es)]
    BY InOrderBeginnings
  <2> QED BY Zenon, <1>n, <2>1
<1> HIDE DEF p, l
<1>2. PICK f : /\ AddAll(p, es) = f[n] /\ f[0] = p
               /\ \A k \in 0 .. n : k # 0 => f[k] = AddTo(f[k - 1], es[k])
  <2>1. Len(es) \in Nat
    BY Zenon, <1>n
  <2>2. \E f : /\ AddAll(p, es) = f[Len(es)]
               /\ f[0] = p
               /\ \A k \in 0 .. Len(es) : k # 0 => f[k] = AddTo(f[k - 1], es[k])
    BY <2>1, AddIs
  <2> QED BY Zenon, <1>n, <2>2
<1> DEFINE Alive(k) == /\ f[k] = Object(Image(hdr, g[k], q), l + k, Last(0, g[k]), Ok)
                       /\ Fitting(hdr, g[k], q, l + k)
                       /\ q = None \/ Last(0, g[k]) = Last(0, os)
           Dead(k)  == \E c \in 0 .. n : \E m : /\ f[k] = Object(Image(hdr, g[c], q), l + c, m, Refused)
                                            /\ Fitting(hdr, g[c], q, l + c)
           T == {k \in Nat : k <= n => Alive(k) \/ Dead(k)}
<1>3. 0 \in T
  <2>1. l + 0 = l /\ 0 \in Nat
    BY SMT, <1>0
  <2> HIDE DEF Dead
  <2> QED BY Zenon, <1>0, <1>1, <1>2, <2>1 DEF p, l, Fitting
<1>4. ASSUME NEW k \in Nat, k \in T PROVE k + 1 \in T
  <2>0. k + 1 \in Nat
    BY SMT
  <2>1. ASSUME k + 1 <= n PROVE Alive(k + 1) \/ Dead(k + 1)
    <3>1. /\ k <= n /\ k \in 0 .. n /\ k + 1 \in 0 .. n /\ k + 1 \in 1 .. n
          /\ k + 1 # 0 /\ (k + 1) - 1 = k
      BY SMT, <2>1
    <3>2. g[k + 1] = InOrder(g[k], es[k + 1]) /\ f[k + 1] = AddTo(f[k], es[k + 1])
      BY Zenon, <1>1, <1>2, <3>1
    <3>3. Alive(k) \/ Dead(k)
      <4> HIDE DEF Alive, Dead
      <4> QED BY Zenon, <1>4, <3>1
    <3>4. CASE Dead(k)
      <4>0. PICK c \in 0 .. n : \E m : /\ f[k] = Object(Image(hdr, g[c], q), l + c, m, Refused)
                                       /\ Fitting(hdr, g[c], q, l + c)
        BY Zenon, <3>4
      <4>1. PICK m : /\ f[k] = Object(Image(hdr, g[c], q), l + c, m, Refused)
                     /\ Fitting(hdr, g[c], q, l + c)
        BY Zenon, <4>0
      <4>2. f[k + 1] = f[k]
        BY Zenon, <3>2, <4>1, AddToRefused
      <4>3. Dead(k + 1)
        BY Zenon, <4>1, <4>2
      <4> HIDE DEF Alive, Dead
      <4> QED BY Zenon, <4>3
    <3>5. CASE Alive(k)
      <4> DEFINE G == g[k]
                 e == es[k + 1]
      <4>0. l + (k + 1) = (l + k) + 1
        BY SMT, <1>0
      <4>1. /\ f[k] = Object(Image(hdr, G, q), Count(G), Last(0, G), Ok)
            /\ G \in Lists /\ Ascending(0, G) /\ Count(G) = l + k
            /\ Size(Image(hdr, G, q)) <= Capacity
            /\ e \in Offered
            /\ Fitting(hdr, G, q, l + k)
            /\ q = None \/ Last(0, G) = Last(0, os)
        <5> HIDE DEF Dead, T
        <5> QED BY Zenon, <1>e, <3>1, <3>5 DEF Fitting
      <4>2. q = None \/ ~(Last(0, G) <= e.number)
        BY Zenon, <1>q, <3>1, <4>1
      <4>3. /\ g[k + 1] = InOrder(G, e) /\ f[k + 1] = AddTo(f[k], e)
        BY Zenon, <3>2
      <4>x. G = g[k]
        OBVIOUS
      <4> HIDE DEF G, e, Alive, Dead, T
      <4>4. Added(hdr, G, q, e, AddTo(Object(Image(hdr, G, q), Count(G), Last(0, G), Ok), e))
        BY <4>1, <4>2, AddKeeps
      <4>5. Added(hdr, G, q, e, f[k + 1])
        BY Zenon, <4>1, <4>3, <4>4
      <4>6. CASE \E m : f[k + 1] = Object(Image(hdr, G, q), Count(G), m, Refused)
        <5>1. Dead(k + 1)
          BY Zenon, <3>1, <4>1, <4>6, <4>x DEF Dead
        <5> QED BY Zenon, <5>1
      <4>7. CASE /\ e \in Held
                 /\ InOrder(G, e) \in Lists /\ Ascending(0, InOrder(G, e))
                 /\ Count(InOrder(G, e)) = Count(G) + 1
                 /\ f[k + 1] = Object(Image(hdr, InOrder(G, e), q), Count(G) + 1, Last(0, InOrder(G, e)), Ok)
                 /\ Size(Image(hdr, InOrder(G, e), q)) <= Capacity
                 /\ q = None \/ Last(0, InOrder(G, e)) = Last(0, G)
        <5>1. Alive(k + 1)
          BY Zenon, <4>0, <4>1, <4>3, <4>7 DEF Alive, Fitting
        <5> QED BY Zenon, <5>1
      <4> QED BY Zenon, <4>5, <4>6, <4>7 DEF Added
    <3> HIDE DEF Alive, Dead
    <3> QED BY Zenon, <3>3, <3>4, <3>5
  <2> HIDE DEF Alive, Dead
  <2> QED BY Zenon, <2>0, <2>1
<1> HIDE DEF T
<1>5. \A k \in Nat : k \in T
  <2> HIDE DEF Alive, Dead
  <2> QED BY <1>3, <1>4, Induction
<1>6. n <= n /\ n \in 0 .. n
  BY SMT
<1>7. Alive(n) \/ Dead(n)
  <2> HIDE DEF Alive, Dead
  <2> QED BY Zenon, <1>5, <1>6 DEF T
<1>8. CASE Dead(n)
  <2>0. PICK c \in 0 .. n : \E m : /\ f[n] = Object(Image(hdr, g[c], q), l + c, m, Refused)
                                   /\ Fitting(hdr, g[c], q, l + c)
    BY Zenon, <1>8
  <2>1. PICK m : /\ f[n] = Object(Image(hdr, g[c], q), l + c, m, Refused)
                 /\ Fitting(hdr, g[c], q, l + c)
    BY Zenon, <2>0
  <2> HIDE DEF Alive, Dead
  <2>2. InOrderAll(os, SubSeq(es, 1, c)) = g[c] /\ c \in 0 .. Len(es)
    BY Zenon, <1>n, <1>1
  <2>3. AddedAll(hdr, os, q, es, AddAll(p, es))
    BY Zenon, <1>2, <2>1, <2>2 DEF AddedAll, l
  <2> QED BY Zenon, <2>3 DEF p
<1>9. CASE Alive(n)
  <2>1. /\ f[n] = Object(Image(hdr, g[n], q), l + n, Last(0, g[n]), Ok)
        /\ Fitting(hdr, g[n], q, l + n)
    BY Zenon, <1>9
  <2> HIDE DEF Alive, Dead
  <2>2. InOrderAll(os, SubSeq(es, 1, n)) = g[n] /\ n \in 0 .. Len(es) /\ n = Len(es) /\ InOrderAll(os, es) = g[n]
    BY Zenon, <1>n, <1>1, <1>6
  <2>3. AddedAll(hdr, os, q, es, AddAll(p, es))
    BY Zenon, <1>2, <2>1, <2>2 DEF AddedAll, l
  <2> QED BY Zenon, <2>3 DEF p
<1> HIDE DEF Alive, Dead
<1> QED BY Zenon, <1>7, <1>8, <1>9
=============================================================================
