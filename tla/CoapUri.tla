------------------------------ MODULE CoapUri ------------------------------
(***************************************************************************)
(* A URI and the options it is broken into: CoapPDU::setURI and getURI of  *)
(* C_Cpp/cdemo/coap/mbtk_coap.cpp.  A URI is a sequence of characters.     *)
(***************************************************************************)
EXTENDS Integers, Sequences
Sets == INSTANCE FiniteSetsExt

URI_PATH  == 11
URI_QUERY == 15
Slash == 47
Quest == 63
Amp   == 38

Element(n, v) == [number |-> n, value |-> v]

(* strchr from a position: the positions of c there and behind.             *)
Hits(u, i, c) == {j \in i .. Len(u) : u[j] = c}

(* Mutant: the loop stops at a last segment of one character.               *)
EndsSegmentEarly(u, i) == i + 1 >= Len(u)

(* The loop stops at the end of the string and before its last character.   *)
AtEnd(u, i) == i >= Len(u)

(* One round of the loop of setURI: the next element, and where it ends.    *)
Round(u, st) ==
  LET s == IF u[st.at] = st.split THEN st.at + 1 ELSE st.at
      more  == Hits(u, s, st.split)
      query == Hits(u, s, Quest)
      e == IF more # {} THEN Sets!Min(more) ELSE IF query # {} THEN Sets!Min(query) ELSE Len(u) + 1
      triggered == more = {} /\ query # {}
  IN
  [elements |-> Append(st.elements, Element(st.type, SubSeq(u, s, e - 1))),
   at    |-> IF triggered THEN e + 1 ELSE e,
   split |-> IF triggered THEN Amp ELSE st.split,
   type  |-> IF triggered THEN URI_QUERY ELSE st.type]

(* setURI: the options in the order they are added.  Every round takes a    *)
(* character at least.                                                      *)
SetURIElements(u) ==
  LET start == [elements |-> << >>, at |-> 1, split |-> Slash, type |-> URI_PATH]
      rounds[k \in 0 .. Len(u)] ==
        IF k = 0 THEN start
        ELSE LET st == rounds[k - 1] IN IF AtEnd(u, st.at) THEN st ELSE Round(u, st)
  IN
  IF Len(u) = 1 THEN <<Element(URI_PATH, u)>> ELSE rounds[Len(u)].elements

(* getURI with room for dstlen characters: << >> is a failure.              *)
Join(st, o) ==
  LET first == o.number = URI_QUERY /\ ~st.query
      dst   == IF first THEN [st.dst EXCEPT ![Len(st.dst)] = Quest] ELSE st.dst
      query == st.query \/ o.number = URI_QUERY
  IN
  IF st.stop \/ o.number \notin {URI_PATH, URI_QUERY} THEN st
  ELSE IF o.value = <<Slash>> /\ st.left >= 1 THEN [st EXCEPT !.dst = Append(dst, 0), !.stop = TRUE]
  ELSE IF Len(o.value) >= st.left THEN [st EXCEPT !.dst = << >>, !.stop = TRUE]
  ELSE [dst |-> Append(dst \o o.value, IF query THEN Amp ELSE Slash),
        left |-> st.left - Len(o.value) - 1, query |-> query, stop |-> FALSE]

GetURI(options, dstlen) ==
  LET start == [dst |-> <<Slash>>, left |-> dstlen - 2, query |-> FALSE, stop |-> FALSE]
      joined[k \in 0 .. Len(options)] ==
        IF k = 0 THEN start ELSE Join(joined[k - 1], options[k])
      dst == joined[Len(options)].dst
  IN
  IF options = << >> THEN << >> ELSE SubSeq(dst, 1, Len(dst) - 1)
=============================================================================
