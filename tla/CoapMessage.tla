---------------------------- MODULE CoapMessage ----------------------------
(***************************************************************************)
(* A request of the CoAP client from its settings to the answer: the       *)
(* package that mbtk_coap_base.c fills call by call, the datagram that     *)
(* mbtk_coap_coap_send makes of it through mbtk_coap_api.cpp, what the     *)
(* receiver's getters give of it and the acknowledgement it sends.  The    *)
(* list of packages and the loss of datagrams are in CoapClient; here one  *)
(* package goes to one peer that runs the same receiving code.             *)
(***************************************************************************)
EXTENDS CoapBytes, FiniteSets
LOCAL INSTANCE TLC
LOCAL INSTANCE Functions

CONSTANTS
  Types,       (* message types set                                           *)
  Statuses,    (* statuses coapHttpStatusToCode is asked for, methods too     *)
  Ids,         (* message ids                                                 *)
  Tokens,      (* tokens set                                                  *)
  Settings,    (* options set: [type, value], as in mbtk_coap_option_s        *)
  Payloads,    (* payloads set                                                *)
  MaxSets      (* bound: calls that set a part of one package                 *)

ASSUME CoapMessageAssumption ==
  /\ Types \subseteq {CONFIRMABLE, NON_CONFIRMABLE, ACKNOWLEDGEMENT, RESET}
  /\ Ids \subseteq Uint16 /\ MaxSets \in Nat
  /\ \A t \in Tokens : Len(t) <= 8

OBSERVE        == 6
CONTENT_FORMAT == 12
MAX_AGE        == 14
BLOCK1         == 27

POST    == 2
PUT     == 3
CHANGED == 68

VARIABLES
  coap,   (* the package, version 0 before it is in use                       *)
  packet, (* the datagram last sent for it, << >> for none                    *)
  recv,   (* what the peer has read of it: g_CoapRecvPointer's fields         *)
  ack,    (* the acknowledgement the peer has sent                            *)
  sets    (* calls made on the package                                        *)

messageVars == <<coap, packet, recv, ack, sets>>

Nothing == [ok |-> FALSE]

NoPackage == [version |-> 0, type |-> 0, code |-> 0, id |-> 0, token |-> << >>,
              options |-> << >>, payload |-> << >>]

MessageInit == coap = NoPackage /\ packet = << >> /\ recv = Nothing /\ ack = << >> /\ sets = 0

-----------------------------------------------------------------------------
(***************************************************************************)
(* Filling the package.                                                    *)
(***************************************************************************)

(* mbtk_coap_list_item_init: confirmable and empty, as memset leaves it.    *)
ItemInit(id) ==
  /\ coap = NoPackage
  /\ coap' = [NoPackage EXCEPT !.version = 1, !.id = id]
  /\ UNCHANGED <<packet, recv, ack, sets>>

Set == /\ coap # NoPackage /\ packet = << >>
       /\ sets < MaxSets
       /\ sets' = sets + 1
       /\ UNCHANGED <<packet, recv, ack>>

SetPackageType(t)  == Set /\ coap' = [coap EXCEPT !.type = t]
SetPackageCode(s)  == Set /\ coap' = [coap EXCEPT !.code = StatusToCode(s)]
SetPackageToken(t) == Set /\ coap' = [coap EXCEPT !.token = t]
SetPackagePayload(d) == Set /\ coap' = [coap EXCEPT !.payload = d]

(* Mutant: an option that is there already is not looked for.               *)
WithOptionAgain(options, o) == <<o>> \o options

(* mbtk_coap_set_option: the value of an option that is there is replaced,  *)
(* a new one goes to the front.                                             *)
WithOption(options, o) ==
  IF \E k \in DOMAIN options : options[k].type = o.type
  THEN [k \in DOMAIN options |-> IF options[k].type = o.type THEN o ELSE options[k]]
  ELSE <<o>> \o options

SetPackageOption(o) == Set /\ coap' = [coap EXCEPT !.options = WithOption(@, o)]

-----------------------------------------------------------------------------
(***************************************************************************)
(* Sending it.                                                             *)
(***************************************************************************)

(* setContentFormat: no byte for 0, one byte for every other format.        *)
FormatBytes(format) == IF format = 0 THEN << >> ELSE <<format % 256>>

(* mbtk_coap_option_add: the options one setting is sent as.  Numbers are   *)
(* cut to a byte; the types it does not name are not sent at all.           *)
Elements(o) ==
  IF o.type \in {BLOCK2, BLOCK1}
    THEN <<Element(o.type, BlockBytes(o.value.number, o.value.more, o.value.size))>>
  ELSE IF o.type \in {MAX_AGE, OBSERVE} THEN <<Element(o.type, <<o.value % 256>>)>>
  ELSE IF o.type = URI_QUERY THEN <<Element(o.type, o.value)>>
  ELSE IF o.type = URI_PATH THEN SetURIElements(o.value)
  ELSE IF o.type = CONTENT_FORMAT THEN <<Element(o.type, FormatBytes(o.value))>>
  ELSE << >>

(* A datagram that has just been made or reset.                             *)
Fresh == [pdu |-> ZeroHeader, num |-> 0, max |-> 0, ok |-> TRUE]

(* coapSetVersion, coapSetType, coapSetCode, coapSetMessageID and, unless   *)
(* there is none, coapSetToken.                                             *)
WithHeader(d, p) ==
  LET header == SetMessageID(SetCode(SetType(SetVersion(d.pdu, p.version), p.type), p.code), p.id)
  IN [d EXCEPT !.pdu = IF p.token = << >> THEN header ELSE WithToken(header, p.token)]

(* coapSetPayload, unless there is none.                                    *)
WithPayload(b, payload) == IF payload = << >> THEN b ELSE b \o <<MARKER>> \o payload

(* The order of the calls that mbtk_coap_coap_send makes: header, token,    *)
(* options and payload.                                                     *)
Datagram(p) ==
  LET sent[k \in 0 .. Len(p.options)] ==
        IF k = 0 THEN WithHeader(Fresh, p)
        ELSE AddAll([sent[k - 1] EXCEPT !.ok = TRUE], Elements(p.options[k]))
  IN WithPayload(sent[Len(p.options)].pdu, p.payload)

(* mbtk_coap_coap_send                                                      *)
Send ==
  /\ coap # NoPackage /\ packet = << >>
  /\ packet' = Datagram(coap)
  /\ UNCHANGED <<coap, recv, ack, sets>>

-----------------------------------------------------------------------------
(***************************************************************************)
(* Reading it.                                                             *)
(***************************************************************************)

(* coapCreateRecv and the getters that mbtk_coap_recv_resolve calls.        *)
Received(b) ==
  LET r == Validate(b) IN
  IF ~r.ok THEN Nothing
  ELSE [ok |-> TRUE, version |-> Version(b), type |-> Type(b), code |-> Code(b),
        id |-> MessageID(b), token |-> Token(b), payload |-> r.payload,
        options |-> Options(b, r.num)]

(* coapGetRecvOptionUriPath and its kind: the value, empty for none.        *)
StringOption(options, n) == OptionValueById(options, n)

(* atoi of the bytes as they are: a single byte is the digit it spells, and *)
(* 0 when it spells none.                                                   *)
Atoi(byte) == IF byte \in 48 .. 57 THEN byte - 48 ELSE 0

(* coapGetRecvOptionObserve and its kind: whether there is a value, and the *)
(* number its text stands for.                                              *)
NumberOption(options, n) ==
  LET v == OptionValueById(options, n)
  IN IF v = << >> THEN [found |-> FALSE, value |-> 0] ELSE [found |-> TRUE, value |-> Atoi(v[1])]

(* coapGetRecvOptionBlock1: unlike that of Block2 it takes size, flag and   *)
(* the low bits of the number from the first byte, and shifts none of them. *)
Block1(v) ==
  LET low == (v[1] \div 16) * 16 IN
  [number |-> CASE Len(v) = 1 -> low
                [] Len(v) = 2 -> v[2] * 256 + low
                [] OTHER      -> v[3] * 65536 + v[2] * 256 + low,
   more |-> (v[1] % 16) - (v[1] % 8), size |-> v[1] % 8]

(* mbtk_coap_send_ack                                                       *)
AckCode(code) == IF code \in {POST, PUT} THEN CHANGED ELSE 0

(* Mutant: the token of the request is not put into the answer.             *)
AckNoToken(r) ==
  Datagram([NoPackage EXCEPT !.version = 1, !.type = ACKNOWLEDGEMENT, !.id = r.id,
                             !.code = AckCode(r.code)])

Ack(r) ==
  Datagram([NoPackage EXCEPT !.version = 1, !.type = ACKNOWLEDGEMENT, !.id = r.id,
                             !.code = AckCode(r.code), !.token = r.token])

(* mbtk_coap_recv_resolve at the peer: only a confirmable message is        *)
(* answered.                                                                *)
Resolve ==
  /\ packet # << >> /\ recv = Nothing
  /\ \E r \in {Received(packet)} :
       /\ recv' = r
       /\ ack' = IF r.ok /\ r.type = CONFIRMABLE THEN Ack(r) ELSE << >>
  /\ UNCHANGED <<coap, packet, sets>>

(* mbtk_coap_list_del: the package is freed and the next one made.          *)
Free ==
  /\ recv # Nothing
  /\ coap' = NoPackage /\ packet' = << >> /\ recv' = Nothing /\ ack' = << >> /\ sets' = 0

MessageNext ==
  \/ \E id \in Ids : ItemInit(id)
  \/ \E t \in Types : SetPackageType(t)
  \/ \E s \in Statuses : SetPackageCode(s)
  \/ \E t \in Tokens : SetPackageToken(t)
  \/ \E o \in Settings : SetPackageOption(o)
  \/ \E d \in Payloads : SetPackagePayload(d)
  \/ Send
  \/ Resolve
  \/ Free

-----------------------------------------------------------------------------
(* The same settings made in ascending order of the options' numbers.       *)
Canonical(p) ==
  [p EXCEPT !.options = SortSeq(@, LAMBDA x, y : x.type < y.type)]

IsQuery(e) == e.number = URI_QUERY

(* The settings that are sent as a query or with one: a URI_QUERY, and a    *)
(* URI_PATH with a '?' in it.                                               *)
QuerySettings(p) ==
  {k \in DOMAIN p.options : \E j \in DOMAIN Elements(p.options[k]) : IsQuery(Elements(p.options[k])[j])}

(* Two lists of options that differ at most in the order of the queries.    *)
SameButQueryOrder(x, y) ==
  /\ SelectSeq(x, LAMBDA e : ~IsQuery(e)) = SelectSeq(y, LAMBDA e : ~IsQuery(e))
  /\ Len(x) = Len(y) /\ Range(x) = Range(y)

(* The datagram depends on the settings and not on the order of the calls   *)
(* that made them: the list of options is in the order of the calls, newest *)
(* first, and addOption puts each one in its place.  Only a URI_PATH with a *)
(* query beside a URI_QUERY depends on it: the queries of the setting made  *)
(* last come first, and nothing else of the datagram changes.               *)
OrderDoesNotMatter ==
  packet # << >> =>
    \E canonical \in {Datagram(Canonical(coap))} :
      IF Cardinality(QuerySettings(coap)) <= 1 THEN packet = canonical
      ELSE Received(packet).ok =>
             SameButQueryOrder(Received(packet).options, Received(canonical).options)

(* What is before the '?' of a URI.                                         *)
PathPart(u) ==
  LET q == Hits(u, 1, Quest) IN IF q = {} THEN u ELSE SubSeq(u, 1, Sets!Min(q) - 1)

(* What the API gives the receiving application of one setting o that is    *)
(* sent.  The bytes of a number are the number, but the getters of numbers  *)
(* read those bytes as text and give the number itself only for 0; the one  *)
(* of Block2 gives the block, the one of Block1 only a first block with     *)
(* nothing behind it.  A path comes back with its own query unless a        *)
(* URI_QUERY is set too: then both queries are there.                       *)
SettingRead(o, options) ==
  LET value == StringOption(options, o.type)
      asked == \E k \in DOMAIN coap.options : coap.options[k].type = URI_QUERY
  IN
  /\ \A j \in DOMAIN Elements(o) : Elements(o)[j] \in Range(options)
  /\ o.type \in {MAX_AGE, OBSERVE, CONTENT_FORMAT} /\ o.value < 256 =>
       /\ (IF value = << >> THEN 0 ELSE value[1]) = o.value
       /\ NumberOption(options, o.type) = [found |-> TRUE, value |-> o.value]
            <=> o.value = 0 /\ o.type # CONTENT_FORMAT
  /\ o.type = BLOCK2 => Block2(value) = o.value
  /\ o.type = BLOCK1 => Block1(value) = o.value <=> o.value.number = 0 /\ o.value.more = 0
  /\ o.type = URI_QUERY /\ Cardinality(QuerySettings(coap)) = 1 => value = o.value
  /\ o.type = URI_PATH =>
       IF asked THEN GetURI(SelectSeq(options, LAMBDA e : e.number = URI_PATH), 128) = PathPart(o.value)
       ELSE GetURI(options, 128) = o.value

(* The peer accepts what is sent and reads the settings back: the header,   *)
(* the token, the payload, every setting that is sent at all, and nothing   *)
(* that was not set.                                                        *)
SettingsRead ==
  recv.ok =>
    /\ recv.version = 1 /\ recv.type = coap.type /\ recv.code = coap.code
    /\ recv.id = coap.id /\ recv.token = coap.token /\ recv.payload = coap.payload
    /\ \A k \in DOMAIN coap.options :
         Elements(coap.options[k]) # << >> => SettingRead(coap.options[k], recv.options)
    /\ \A j \in DOMAIN recv.options :
         \E k \in DOMAIN coap.options : recv.options[j] \in Range(Elements(coap.options[k]))

(* Every code that httpStatusToCode knows passes the peer's validate.       *)
KnownCodesAccepted ==
  packet # << >> /\ coap.code # UNDEFINED_CODE => Received(packet).ok

(* The settings of a package reach the peer, whatever the order of the      *)
(* calls that made them and whatever was set twice.                         *)
PeerReadsSettings == OrderDoesNotMatter /\ KnownCodesAccepted /\ SettingsRead

(* The acknowledgement is found again by the client, which looks for the    *)
(* package by the message id alone, and carries the token of the request.   *)
AckAnswersRequest ==
  ack # << >> =>
    \E a \in {Received(ack)} :
      /\ a.ok /\ a.type = ACKNOWLEDGEMENT /\ a.id = coap.id /\ a.token = coap.token
      /\ (a.code = CHANGED) = (coap.code \in {POST, PUT})
      /\ coap.type = CONFIRMABLE
=============================================================================
