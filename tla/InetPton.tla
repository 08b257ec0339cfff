------------------------------ MODULE InetPton ------------------------------
(***************************************************************************)
(* The address parser of lib/m_sock.c: inet_pton4 and inet_pton6.  A text  *)
(* is typed character by character, and after each character it is parsed  *)
(* as an address of both families.                                         *)
(***************************************************************************)
EXTENDS Integers, Sequences, FiniteSets, SequencesExt

CONSTANTS
  Starts,       (* texts to begin with                                        *)
  Keys,         (* characters typed after them                                *)
  MaxTyped      (* bound: characters typed                                    *)

ASSUME InetAssumption == MaxTyped \in Nat

INADDRSZ  == 4
IN6ADDRSZ == 16

VARIABLES
  addr,        (* the text                                                    *)
  typed,       (* characters typed                                            *)
  four, six    (* dst after inet_pton4 and inet_pton6: <<>> is untouched      *)

inetVars == <<addr, typed, four, six>>

DigitOf == [c \in {"0", "1", "2", "9"} |-> IF c = "0" THEN 0 ELSE IF c = "1" THEN 1 ELSE IF c = "2" THEN 2 ELSE 9]
XDigitOf == DigitOf @@ [c \in {"f", "F"} |-> 15]
Digit(c)  == c \in DOMAIN DigitOf
XDigit(c) == c \in DOMAIN XDigitOf

-----------------------------------------------------------------------------
(* inet_pton4: tmp up to tp, saw_digit and octets after the first k          *)
(* characters; ok is FALSE once it has returned 0.                           *)
Octet(p, c) ==
  LET new == Last(p.tmp) * 10 + DigitOf[c] IN
  IF new > 255 \/ (~p.saw /\ p.octets = 4) THEN [p EXCEPT !.ok = FALSE]
  ELSE [p EXCEPT !.tmp[Len(p.tmp)] = new, !.saw = TRUE, !.octets = IF p.saw THEN @ ELSE @ + 1]

Dot(p) ==
  IF ~p.saw \/ p.octets = 4 THEN [p EXCEPT !.ok = FALSE]
  ELSE [p EXCEPT !.tmp = Append(@, 0), !.saw = FALSE]

Step4(p, c) ==
  IF ~p.ok THEN p
  ELSE IF Digit(c) THEN Octet(p, c)
  ELSE IF c = "." THEN Dot(p)
  ELSE [p EXCEPT !.ok = FALSE]

Start4 == [tmp |-> <<0>>, saw |-> FALSE, octets |-> 0, ok |-> TRUE]

Pton4(s) ==
  LET after[k \in 0 .. Len(s)] == IF k = 0 THEN Start4 ELSE Step4(after[k - 1], s[k])
      p == after[Len(s)]
  IN IF p.ok /\ p.octets = 4 THEN p.tmp ELSE <<>>

-----------------------------------------------------------------------------
(* inet_pton6: tmp up to tp, colonp (-1 for NULL), saw_xdigit, val and       *)
(* curtok after the first k characters.                                      *)
Refuse(p)  == [p EXCEPT !.ok = FALSE]
Word(p)    == <<p.val \div 256, p.val % 256>>
Room(p, n) == Len(p.tmp) + n <= IN6ADDRSZ

XDigitStep(p, c) ==
  LET val == p.val * 16 + XDigitOf[c] IN
  IF val > 65535 THEN Refuse(p) ELSE [p EXCEPT !.val = val, !.saw = TRUE]

ColonStep(p, k) ==
  LET q == [p EXCEPT !.curtok = k] IN
  IF ~p.saw THEN (IF p.colonp # -1 THEN Refuse(p) ELSE [q EXCEPT !.colonp = Len(p.tmp)])
  ELSE IF ~Room(p, 2) THEN Refuse(p)
  ELSE [q EXCEPT !.tmp = @ \o Word(p), !.saw = FALSE, !.val = 0]

(* A dot: the whole token is an address of four bytes, and the last.         *)
DotStep(p, s) ==
  LET quad == Pton4(SubSeq(s, p.curtok + 1, Len(s))) IN
  IF Room(p, INADDRSZ) /\ quad # <<>> THEN [p EXCEPT !.tmp = @ \o quad, !.saw = FALSE, !.over = TRUE]
  ELSE Refuse(p)

(* Mutant: what follows the gap stays where it is.                           *)
ShiftedNot(tmp, colonp) == [i \in 1 .. IN6ADDRSZ |-> IF i <= Len(tmp) THEN tmp[i] ELSE 0]

(* The shift by hand at the end: what follows the gap moves to the end of    *)
(* tmp byte by byte, and the place it came from is cleared, also when that   *)
(* is the same place.                                                        *)
MoveByte(t, from, to) == [t EXCEPT ![to] = t[from], ![from] = 0]

Shifted(tmp, colonp) ==
  LET n   == Len(tmp) - colonp
      all == [i \in 1 .. IN6ADDRSZ |-> IF i <= Len(tmp) THEN tmp[i] ELSE 0]
      after[i \in 0 .. n] ==
        IF i = 0 THEN all ELSE MoveByte(after[i - 1], colonp + n - i + 1, IN6ADDRSZ - i + 1)
  IN after[n]

Step6(p, s, k) ==
  IF ~p.ok \/ p.over THEN p
  ELSE IF XDigit(s[k]) THEN XDigitStep(p, s[k])
  ELSE IF s[k] = ":" THEN ColonStep(p, k)
  ELSE IF s[k] = "." THEN DotStep(p, s)
  ELSE Refuse(p)

(* A leading colon is skipped, and must be followed by another.              *)
Start6(skipped, s) ==
  [tmp |-> <<>>, colonp |-> -1, saw |-> FALSE, val |-> 0, curtok |-> 0, over |-> FALSE,
   ok |-> skipped => (s # <<>> /\ s[1] = ":")]

Pton6(src) ==
  LET skipped == src # <<>> /\ src[1] = ":"
      s       == IF skipped THEN Tail(src) ELSE src
      after[k \in 0 .. Len(s)] == IF k = 0 THEN Start6(skipped, s) ELSE Step6(after[k - 1], s, k)
      p       == after[Len(s)]
      tmp     == IF p.saw THEN p.tmp \o Word(p) ELSE p.tmp
  IN IF ~p.ok \/ (p.saw /\ ~Room(p, 2)) THEN <<>>
     ELSE IF p.colonp # -1 THEN Shifted(tmp, p.colonp)
     ELSE IF Len(tmp) = IN6ADDRSZ THEN tmp ELSE <<>>

-----------------------------------------------------------------------------
InetInit == addr \in Starts /\ typed = 0 /\ four = Pton4(addr) /\ six = Pton6(addr)

(* sock_inet_pton with AF_INET and AF_INET6.                                 *)
Type(c) ==
  /\ typed < MaxTyped /\ typed' = typed + 1
  /\ addr' = Append(addr, c)
  /\ four' = Pton4(addr') /\ six' = Pton6(addr')

InetNext == \E c \in Keys : Type(c)

-----------------------------------------------------------------------------
(* The reference: the fields of a text between colons or dots.              *)
Fields(s, sep) ==
  LET ends    == {i \in 1 .. Len(s) : s[i] = sep} \cup {Len(s) + 1}
      next(i) == CHOOSE j \in ends : j >= i /\ \A k \in ends : k >= i => j <= k
      from[i \in Nat] == <<SubSeq(s, i, next(i) - 1)>> \o (IF next(i) > Len(s) THEN <<>> ELSE from[next(i) + 1])
  IN from[1]

Value(f, base) == FoldLeft(LAMBDA v, c : v * base + XDigitOf[c], 0, f)

IsOctet(f) == f # <<>> /\ Len(f) < 9 /\ (\A k \in DOMAIN f : Digit(f[k])) /\ Value(f, 10) <= 255
IsWord(f)  == f # <<>> /\ Len(f) < 7 /\ (\A k \in DOMAIN f : XDigit(f[k])) /\ Value(f, 16) <= 65535

IsQuad(s)  == Len(Fields(s, ".")) = 4 /\ \A k \in 1 .. 4 : IsOctet(Fields(s, ".")[k])
QuadOf(s)  == [k \in 1 .. 4 |-> Value(Fields(s, ".")[k], 10)]

(* The bytes that fields stand for; the last field may be four octets.      *)
FieldOk(fs, k)    == IsWord(fs[k]) \/ (k = Len(fs) /\ IsQuad(fs[k]))
FieldBytes(fs, k) == IF IsWord(fs[k]) THEN <<Value(fs[k], 16) \div 256, Value(fs[k], 16) % 256>> ELSE QuadOf(fs[k])
BytesOf(fs)       == FlattenSeq([k \in DOMAIN fs |-> FieldBytes(fs, k)])

(* A text in two parts around a "::", of which either may be empty.         *)
Gaps(s)     == {i \in 1 .. Len(s) - 1 : s[i] = ":" /\ s[i + 1] = ":"}
Part(s)     == IF s = <<>> THEN <<>> ELSE Fields(s, ":")
Before(s,i) == Part(SubSeq(s, 1, i - 1))
After(s, i) == Part(SubSeq(s, i + 2, Len(s)))
PartsOk(s, i) == /\ \A k \in DOMAIN Before(s, i) : IsWord(Before(s, i)[k])
                 /\ \A k \in DOMAIN After(s, i) : FieldOk(After(s, i), k)
GapBytes(s, i) == Len(BytesOf(Before(s, i))) + Len(BytesOf(After(s, i)))
Zeros(n)    == [k \in 1 .. n |-> 0]

(* inet_pton4 accepts four octets with dots between them and nothing else,  *)
(* and gives their values.                                                  *)
Pton4Exact == four = IF IsQuad(addr) THEN QuadOf(addr) ELSE <<>>

(* inet_pton6 reads every address written in full, or with one "::" in      *)
(* place of at least one word, also with four octets at the end.  Nothing   *)
(* is said of a "::" in an address of eight words: the notice above the     *)
(* code calls it ignored, but the shift clears the words that follow it.    *)
Pton6Reads ==
  LET fs == Fields(addr, ":") IN
  /\ Gaps(addr) = {} /\ (\A k \in DOMAIN fs : FieldOk(fs, k)) /\ Len(BytesOf(fs)) = IN6ADDRSZ =>
       six = BytesOf(fs)
  /\ \A i \in Gaps(addr) : PartsOk(addr, i) /\ GapBytes(addr, i) < IN6ADDRSZ =>
       six = BytesOf(Before(addr, i)) \o Zeros(IN6ADDRSZ - GapBytes(addr, i)) \o BytesOf(After(addr, i))

(* Both address parsers of m_sock.c give the address that is written.       *)
PtonExact == Pton4Exact /\ Pton6Reads
=============================================================================
