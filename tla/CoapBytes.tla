----------------------------- MODULE CoapBytes -----------------------------
(***************************************************************************)
(* A CoAP datagram as bytes: how class CoapPDU of                          *)
(* C_Cpp/cdemo/coap/mbtk_coap.cpp finds, inserts and renumbers options in  *)
(* place, keeps the fields of the header apart and validates what came     *)
(* over the network.                                                       *)
(***************************************************************************)
EXTENDS CoapCodec, CoapUri

CONSTANT Capacity   (* _bufferLength                                          *)

ASSUME CoapBytesAssumption == Capacity \in 4 .. 255

HDR    == 4
MARKER == 255
JUNK   == 238     (* what an allocation leaves in new bytes                   *)
BLOCK2 == 23

-----------------------------------------------------------------------------
(***************************************************************************)
(* The header: version, type and token length share the first byte, then   *)
(* come the code and the message id.                                       *)
(***************************************************************************)
CONFIRMABLE     == 0
NON_CONFIRMABLE == 16
ACKNOWLEDGEMENT == 32
RESET           == 48

(* What reset leaves: a header of zeros.                                    *)
ZeroHeader == <<0, 0, 0, 0>>

(* A version over 3 is refused.                                             *)
SetVersion(b, v) == IF v > 3 THEN b ELSE [b EXCEPT ![1] = v * 64 + (@ % 64)]
Version(b)       == At(b, 0) \div 64

SetType(b, t) == [b EXCEPT ![1] = (@ \div 64) * 64 + t + (@ % 16)]
Type(b)       == ((At(b, 0) \div 16) % 4) * 16

(* A length over 8 is refused.                                              *)
SetTokenLength(b, n) == IF n > 8 THEN b ELSE [b EXCEPT ![1] = (@ \div 16) * 16 + n]
TokenLength(b)       == At(b, 0) % 16

(* getTokenPointer, and the bytes there.                                    *)
Token(b) == SubSeq(b, HDR + 1, HDR + TokenLength(b))

(* setToken once the space is there: what is behind the token moves up or   *)
(* down by the difference of the lengths.                                   *)
WithToken(b, token) ==
  LET rest == SubSeq(b, HDR + TokenLength(b) + 1, Len(b))
  IN SubSeq(SetTokenLength(b, Len(token)), 1, HDR) \o token \o rest

SetCode(b, code) == [b EXCEPT ![2] = code]
Code(b)          == At(b, 1)

SetMessageID(b, id) == SubSeq(b, 1, 2) \o Store16(id) \o SubSeq(b, HDR + 1, Len(b))
MessageID(b)        == Load16(b, 2)

(* The codes validate lets pass: methods, 2.01 to 2.05, 2.31, 4.00 to 4.06, *)
(* 4.12, 4.13, 4.15 and 5.00 to 5.05.                                       *)
ValidCode(code) ==
  code \in 0 .. 31 \cup 65 .. 69 \cup {95} \cup 128 .. 134 \cup {140, 141, 143} \cup 160 .. 165

UNDEFINED_CODE == 255

(* httpStatusToCode: 1 to 4 stand for the methods; the others keep their    *)
(* hundreds as the class and the rest as the detail.                        *)
StatusToCode(s) ==
  IF s \in 1 .. 4 THEN s
  ELSE IF s \in 201 .. 205 \cup 400 .. 406 \cup {412, 413, 415} \cup 500 .. 505
    THEN (s \div 100) * 32 + (s % 100)
  ELSE UNDEFINED_CODE

-----------------------------------------------------------------------------
(***************************************************************************)
(* Reading options.                                                        *)
(***************************************************************************)
OptionAt(b, i, prev) ==
  LET d == OptionDelta(b, i)
      n == OptionValueLength(b, i)
      total == 1 + ExtraBytes(d) + ExtraBytes(n) + n
  IN
  [number |-> (prev + d) % 65536, at |-> i, total |-> total,
   value |-> [k \in 1 .. n |-> At(b, i + total - n + k - 1)]]

(* The first k options and the place and number where they end.             *)
Walk(b, k) ==
  LET walk[j \in 0 .. k] ==
        IF j = 0 THEN [at |-> HDR + TokenLength(b), number |-> 0, options |-> << >>]
        ELSE LET w == walk[j - 1]
                 o == OptionAt(b, w.at, w.number)
             IN [at |-> w.at + o.total, number |-> o.number,
                 options |-> Append(w.options, Element(o.number, o.value))]
  IN walk[k]

(* getOptions                                                               *)
Options(b, n) == Walk(b, n).options

(* getOptionValueById: the last option of that number.                      *)
OptionValueById(options, n) ==
  LET found == {k \in DOMAIN options : options[k].number = n}
  IN IF found = {} THEN << >> ELSE options[Sets!Max(found)].value

(* validate: no option can begin like this or is as long as this one.       *)
Malformed(b, i) ==
  LET head == At(b, i) IN
  \/ head \div 16 = 15 \/ head % 16 = 15
  \/ ExtraBytes(head \div 16) + ExtraBytes(head % 16) > Len(b) - i - 1
  \/ i + OptionAt(b, i, 0).total > Len(b)

(* One round of the loop of validate: the end of the datagram, a payload,   *)
(* something wrong, or one more option.                                     *)
Examine(b, w) ==
  IF w.at >= Len(b) THEN [w EXCEPT !.done = TRUE, !.ok = TRUE]
  ELSE IF At(b, w.at) = MARKER
    THEN [w EXCEPT !.done = TRUE, !.ok = w.at + 1 < Len(b), !.payload = SubSeq(b, w.at + 2, Len(b))]
  ELSE IF Malformed(b, w.at) THEN [w EXCEPT !.done = TRUE]
  ELSE [w EXCEPT !.num = @ + 1, !.at = @ + OptionAt(b, @, 0).total]

(* validate                                                                 *)
Validate(b) ==
  LET first   == HDR + TokenLength(b)
      invalid == \/ Len(b) < HDR \/ Version(b) # 1
                 \/ TokenLength(b) > 8 \/ first > Len(b) \/ ~ValidCode(Code(b))
      loop[j \in 0 .. Len(b)] ==
        IF j = 0 THEN [at |-> first, num |-> 0, payload |-> << >>, ok |-> FALSE, done |-> invalid]
        ELSE LET w == loop[j - 1] IN IF w.done THEN w ELSE Examine(b, w)
  IN loop[Len(b)]

-----------------------------------------------------------------------------
(***************************************************************************)
(* Editing in place.                                                       *)
(***************************************************************************)

(* realloc, or the use of more of an external buffer.                       *)
Resize(b, n) == [k \in 1 .. n |-> IF k <= Len(b) THEN b[k] ELSE JUNK]

(* shiftPDUUp: the last bytes move to the end from offset below it.         *)
ShiftUp(b, offset, amount) ==
  [k \in 1 .. Len(b) |-> IF k > Len(b) - amount THEN b[k - offset] ELSE b[k]]

Overwrite(b, i, s) == [k \in 1 .. Len(b) |-> IF k - i \in DOMAIN s THEN s[k - i] ELSE b[k]]

(* insertOption; a value of 269 bytes or more would be copied in part.      *)
InsertOption(b, i, delta, v) == Overwrite(b, i, Header(delta, Len(v)) \o v)

(* setOptionDelta: the length nibble of the header is kept.                 *)
SetOptionDelta(b, i, delta) ==
  Overwrite(b, i, <<Nibble(delta) * 16 + (At(b, i) % 16)>> \o Ext(delta))

(* findInsertionPosition: the end for the biggest number so far, otherwise  *)
(* before the first option with a bigger one.                               *)
InsertionPosition(p, n) ==
  LET b == p.pdu
      step(w, o) == IF o.number > n THEN [w EXCEPT !.done = TRUE]
                    ELSE [w EXCEPT !.at = @ + o.total, !.prev = o.number]
      loop[j \in 0 .. p.num + 1] ==
        IF j = 0 THEN [at |-> HDR + TokenLength(b), prev |-> 0, done |-> FALSE]
        ELSE LET w == loop[j - 1] IN
             IF w.done \/ w.at >= Len(b) \/ At(b, w.at) = MARKER THEN w
             ELSE step(w, OptionAt(b, w.at, w.prev))
  IN
  IF n >= p.max \/ Len(b) = HDR + TokenLength(b)
  THEN [at |-> Len(b), prev |-> p.max, done |-> TRUE]
  ELSE loop[p.num + 1]

(* addOption at the end of the datagram.  The biggest number is recorded    *)
(* before the space is checked.                                             *)
AppendOption(p, n, v, prev) ==
  LET delta  == (n - prev) % 65536
      length == 1 + ExtraBytes(delta) + ExtraBytes(Len(v)) + Len(v)
      size   == Len(p.pdu) + length
  IN
  IF size > Capacity THEN [p EXCEPT !.max = n, !.ok = FALSE]
  ELSE [p EXCEPT !.max = n, !.num = @ + 1,
                 !.pdu = InsertOption(Resize(@, size), Len(@), delta, v)]

(* Mutant: the header of the next option is not moved when its delta needs  *)
(* fewer bytes.                                                             *)
MakeRoomUnmoved(b, i, length, delta, next) ==
  LET grow == length + ExtraBytes(next) - ExtraBytes(delta)
  IN SetOptionDelta(ShiftUp(Resize(b, Len(b) + grow), grow, Len(b) - i), i + grow, next)

(* addOption before another option: space is made for the new option and    *)
(* for the change of the next one's delta, whose header moves up when the   *)
(* delta takes fewer bytes than before.                                     *)
MakeRoom(b, i, length, delta, next) ==
  LET adjust == ExtraBytes(next) - ExtraBytes(delta)
      grow   == length + adjust
      moved  == ShiftUp(Resize(b, Len(b) + grow), grow, Len(b) - i)
      header == i + grow - adjust
  IN SetOptionDelta(Overwrite(moved, header, <<At(moved, i + grow)>>), header, next)

InsertBefore(p, n, v, pos) ==
  LET delta     == n - pos.prev
      length    == 1 + ExtraBytes(delta) + ExtraBytes(Len(v)) + Len(v)
      nextDelta == OptionDelta(p.pdu, pos.at)
      next      == (pos.prev + nextDelta - n) % 65536
      size      == Len(p.pdu) + length + ExtraBytes(next) - ExtraBytes(nextDelta)
  IN
  IF size > Capacity THEN [p EXCEPT !.ok = FALSE]
  ELSE [p EXCEPT !.num = @ + 1,
                 !.pdu = InsertOption(MakeRoom(@, pos.at, length, nextDelta, next), pos.at, delta, v)]

(* addOption                                                                *)
AddTo(p, o) ==
  LET pos == InsertionPosition(p, o.number) IN
  IF ~p.ok THEN p
  ELSE IF pos.at = Len(p.pdu) THEN AppendOption(p, o.number, o.value, pos.prev)
  ELSE InsertBefore(p, o.number, o.value, pos)

(* One call for each of the elements es; after one that fails no other is   *)
(* made.                                                                    *)
AddAll(p, es) ==
  LET after[k \in 0 .. Len(es)] == IF k = 0 THEN p ELSE AddTo(after[k - 1], es[k])
  IN after[Len(es)]
=============================================================================
