------------------------------ MODULE CoapPdu ------------------------------
(***************************************************************************)
(* One CoAP datagram under construction, and its reading by the receiver:  *)
(* class CoapPDU of C_Cpp/cdemo/coap/mbtk_coap.cpp.  The datagram is kept  *)
(* as bytes only; options are found, inserted and renumbered in place.     *)
(* What the datagram should hold is kept beside it as a record.  The class *)
(* is modelled over an external buffer; one that allocates its memory      *)
(* differs in that Capacity is what the allocator grants.                  *)
(***************************************************************************)
EXTENDS CoapBytes

CONSTANTS
  Numbers,      (* option numbers added                                       *)
  Lens,         (* lengths of their values                                    *)
  Blocks,       (* block numbers asked for                                    *)
  TokenLens,    (* lengths of tokens, 0 (refused) included                    *)
  PayloadLens,  (* lengths of payloads, 0 (refused) included                  *)
  Uris,         (* pairs of a path and a query, both sequences of words       *)
  MaxOps        (* bound: operations between two resets                       *)

(* A path and a query of words without separators; no query without a path. *)
(* A query of one character is left out: setURI ends before the last        *)
(* character of the string.                                                 *)
Readable(u) ==
  /\ \A i \in 1 .. 2 : /\ u[i] \in Seq(Seq(Nat \ {Slash, Quest, Amp}))
                      /\ \A k \in DOMAIN u[i] : u[i][k] # << >>
  /\ u[1] = << >> => u[2] = << >>
  /\ Len(u[2]) = 1 => Len(u[2][1]) > 1

ASSUME CoapPduAssumption ==
  /\ Numbers \subseteq Uint16 /\ Lens \subseteq 0 .. 268
  /\ Blocks \subseteq Nat /\ \A u \in Uris : Readable(u)
  /\ TokenLens \subseteq 0 .. 8 /\ PayloadLens \subseteq Nat
  /\ MaxOps \in Nat

VARIABLES
  pdu,      (* the bytes, _pduLength of them                                  *)
  num,      (* _numOptions                                                    *)
  max,      (* _maxAddedOptionNumber                                          *)
  payload,  (* _payloadPointer as an offset, 0 for NULL, and _payloadLength   *)
  content,  (* the token, options and payload that the calls have asked for   *)
  regular,  (* no call yet that the in-place editing does not provide for:    *)
            (* an option behind the payload or after one that did not fit at  *)
            (* the end, a payload after its token or options have moved it    *)
  ops       (* operations since the last reset                                *)

vars == <<pdu, num, max, payload, content, regular, ops>>

NoPayload == [at |-> 0, len |-> 0]
Empty     == [token |-> << >>, options |-> << >>, payload |-> << >>, uri |-> << >>,
              block |-> -1]

(* reset, and the header that mbtk_coap_coap_send sets at once: version 1,  *)
(* confirmable, GET, message id 258.                                        *)
Cleared == SetMessageID(SetCode(SetType(SetVersion(ZeroHeader, 1), CONFIRMABLE), 1), 258)

Init ==
  /\ pdu = Cleared /\ num = 0 /\ max = 0 /\ payload = NoPayload
  /\ content = Empty /\ regular = TRUE /\ ops = 0

Reset ==
  /\ ops > 0
  /\ pdu' = Cleared /\ num' = 0 /\ max' = 0 /\ payload' = NoPayload
  /\ content' = Empty /\ regular' = TRUE /\ ops' = 0

-----------------------------------------------------------------------------
(* The options asked for, in the order a reader expects: by number, and     *)
(* options of one number in the order of the calls.                         *)
InOrder(options, o) ==
  LET behind == {k \in DOMAIN options : options[k].number > o.number}
      at     == IF behind = {} THEN Len(options) + 1
                ELSE CHOOSE k \in behind : \A j \in behind : k <= j
  IN SubSeq(options, 1, at - 1) \o <<o>> \o SubSeq(options, at, Len(options))

InOrderAll(options, es) ==
  LET after[k \in 0 .. Len(es)] == IF k = 0 THEN options ELSE InOrder(after[k - 1], es[k])
  IN after[Len(es)]

Operation == /\ regular
             /\ ops < MaxOps
             /\ ops' = ops + 1

(* Calls of addOption for the elements es, up to the first that fails.      *)
Add(es, wanted) ==
  \E p \in {AddAll([pdu |-> pdu, num |-> num, max |-> max, ok |-> TRUE], es)} :
    /\ pdu' = p.pdu /\ num' = p.num /\ max' = p.max
    /\ regular' = \/ p.num = num
                   \/ /\ max = Walk(pdu, num).number
                      /\ payload = NoPayload \/ \A k \in DOMAIN es : es[k].number < max
    /\ content' = IF p.ok THEN wanted
                  ELSE [content EXCEPT !.options =
                          InOrderAll(@, SubSeq(es, 1, p.num - num))]
    /\ UNCHANGED payload

AddOption(n, len) ==
  LET o == Element(n, [k \in 1 .. len |-> 253 + ops]) IN
  /\ Operation
  /\ Add(<<o>>, [content EXCEPT !.options = InOrder(@, o)])

(* The Block2 option of a request, as mbtk_coap_option_add adds it.         *)
AddBlock(n) ==
  LET o == Element(BLOCK2, BlockBytes(n, 0, 2)) IN
  /\ Operation
  /\ Add(<<o>>, [content EXCEPT !.options = InOrder(@, o), !.block = n])

(* The URI a path and a query are written as, and the options it stands     *)
(* for: setURI's comment names them.                                        *)
Segments(u) ==
  [k \in DOMAIN u[1] |-> <<Slash>> \o u[1][k]]
    \o [k \in DOMAIN u[2] |-> <<IF k = 1 THEN Quest ELSE Amp>> \o u[2][k]]

Written(u) ==
  LET text[k \in 0 .. Len(Segments(u))] ==
        IF k = 0 THEN << >> ELSE text[k - 1] \o Segments(u)[k]
  IN IF u[1] = << >> THEN <<Slash>> ELSE text[Len(Segments(u))]

Named(u) == IF u[1] = << >> THEN <<Element(URI_PATH, <<Slash>>)>>
            ELSE [k \in DOMAIN u[1] |-> Element(URI_PATH, u[1][k])]
                   \o [k \in DOMAIN u[2] |-> Element(URI_QUERY, u[2][k])]

SetURI(u) ==
  /\ Operation
  /\ Add(SetURIElements(Written(u)),
         [content EXCEPT !.options = InOrderAll(@, Named(u)),
                         !.uri = IF @ = << >> THEN u ELSE @])

(* setToken.  The pointer to a payload is not adjusted.                     *)
SetToken(n) ==
  LET old   == TokenLength(pdu)
      token == [k \in 1 .. n |-> 240 + ops]
      size  == Len(pdu) - old + n
  IN
  /\ Operation
  /\ \/ /\ n = 0 \/ (n > old /\ size > Capacity)
        /\ UNCHANGED <<pdu, content>>
     \/ /\ n > 0 /\ ~(n > old /\ size > Capacity)
        /\ pdu' = WithToken(pdu, token)
        /\ content' = [content EXCEPT !.token = token]
  /\ UNCHANGED <<num, max, payload, regular>>

(* mallocPayload: a marker and the payload behind the options, or a payload *)
(* of another length in the place of the first one.                         *)
Space(b, n) == Resize(b, Len(b) + n - payload.len + (IF payload.len = 0 THEN 1 ELSE 0))

SetPayload(n) ==
  LET at    == IF payload.at = 0 THEN Len(pdu) + 1 ELSE payload.at
      bytes == [k \in 1 .. n |-> 250 + ops]
      b     == Space(pdu, n)
  IN
  /\ Operation
  /\ \/ /\ n = 0 \/ Len(b) > Capacity
        /\ UNCHANGED <<pdu, payload, content, regular>>
     \/ /\ n > 0 /\ Len(b) <= Capacity
        /\ pdu' = Overwrite(IF payload.at = 0 THEN Overwrite(b, at - 1, <<MARKER>>) ELSE b, at, bytes)
        /\ payload' = [at |-> at, len |-> n]
        /\ content' = [content EXCEPT !.payload = bytes]
        /\ regular' = (payload.at \in {0, Len(pdu) - payload.len})
  /\ UNCHANGED <<num, max>>

Next ==
  \/ Reset
  \/ \E n \in Numbers, l \in Lens : AddOption(n, l)
  \/ \E n \in Blocks : AddBlock(n)
  \/ \E u \in Uris : SetURI(u)
  \/ \E n \in TokenLens : SetToken(n)
  \/ \E n \in PayloadLens : SetPayload(n)

Spec == Init /\ [][Next]_vars

-----------------------------------------------------------------------------
(* The bytes of one option behind an option of number prev.                 *)
Field(prev, o) == Header(o.number - prev, Len(o.value)) \o o.value

(* The number of the last option, prev if there is none.                    *)
Last(prev, os) == IF os = << >> THEN prev ELSE os[Len(os)].number

(* The bytes of options behind one of number prev: every one has the        *)
(* difference of its number to the one before.                              *)
Fields(prev, os) ==
  LET enc[k \in 0 .. Len(os)] ==
        IF k = 0 THEN << >>
        ELSE enc[k - 1] \o Field(Last(prev, SubSeq(os, 1, k - 1)), os[k])
  IN enc[Len(os)]

(* The datagram that stands for a content: the token, the options, the      *)
(* marker and the payload.                                                  *)
Encode(c) ==
  <<64 + Len(c.token), 1, 1, 2>> \o c.token \o Fields(0, c.options)
    \o (IF c.payload = << >> THEN << >> ELSE <<MARKER>> \o c.payload)

(* Whatever the order of the calls, the bytes are those of the content:     *)
(* options land in order, the deltas behind an inserted one are rewritten,  *)
(* a token set late moves the options, a payload may be set again, and a    *)
(* call that finds the buffer too small changes nothing.                    *)
BytesAreContent == regular => pdu = Encode(content) /\ Len(pdu) <= Capacity

(* The receiver, which only has the bytes, accepts the datagram and reads   *)
(* the options and the payload that were put in.                            *)
ReadsWhole ==
  regular => LET r == Validate(pdu) IN
             /\ r.ok /\ r.payload = content.payload
             /\ Options(pdu, r.num) = content.options

IsBeginning(s, t) == Len(s) <= Len(t) /\ s = SubSeq(t, 1, Len(s))

(* A datagram cut short, as recvfrom does with a long one, is rejected or   *)
(* read as a beginning of what was sent: no option is made up.              *)
CutIsPrefix ==
  regular => \A n \in HDR .. Len(pdu) :
               LET cut == SubSeq(pdu, 1, n)
                   r   == Validate(cut)
               IN
               r.ok => /\ IsBeginning(Options(cut, r.num), content.options)
                       /\ IsBeginning(r.payload, content.payload)

(* What the receiver gets of a datagram, all of it or a beginning, it reads *)
(* as what was sent.                                                        *)
ReceiverReads == ReadsWhole /\ CutIsPrefix

(* The block a request asked for last is the one the server reads.          *)
BlockReadsBack ==
  regular /\ content.block # -1 =>
    Block2(OptionValueById(Options(pdu, num), BLOCK2))
      = [size |-> 2, more |-> 0, number |-> content.block]

(* getURI gives back the URI that setURI was given, if it is the only one.  *)
UriReadsBack ==
  regular /\ content.uri # << >>
  /\ Len(SelectSeq(content.options, LAMBDA o : o.number \in {URI_PATH, URI_QUERY}))
       = Len(Named(content.uri))
    => GetURI(Options(pdu, num), 128) = Written(content.uri)

(* The values that take more than copying, blocks and URIs, come back from  *)
(* the bytes as they were given.                                            *)
ValuesReadBack == BlockReadsBack /\ UriReadsBack
=============================================================================
