------------------------------ MODULE MString ------------------------------
(***************************************************************************)
(* The string functions of lib/m_string.c.  A string is a sequence of      *)
(* characters, NULL the value Null.  A program calls one function after    *)
(* the other on a text and a pattern.                                      *)
(***************************************************************************)
EXTENDS Integers, Sequences, FiniteSets, SequencesExt

CONSTANTS
  Texts,        (* the texts, none of them longer than a few characters       *)
  Patterns,     (* patterns, prefixes, separators and replacements            *)
  MaxIndex      (* bound: indices and buffer sizes given to str_substring     *)

ASSUME MStringAssumption == MaxIndex \in Nat

VARIABLES
  text, pattern,
  out          (* the last call: the function, the text it was given, result  *)

strVars == <<text, pattern, out>>

Null   == [null |-> TRUE]
Str(s) == [null |-> FALSE, str |-> s]
Drop(s, n) == SubSeq(s, n + 1, Len(s))

StrInit == text \in Texts /\ pattern \in Patterns /\ out = [fn |-> "none"]

(* A call; the program takes its result before the next.                    *)
Idle == out.fn = "none"
Take == ~Idle /\ out' = [fn |-> "none"] /\ UNCHANGED <<text, pattern>>

Returns(fn, val) == Idle /\ out' = [fn |-> fn, of |-> text, val |-> val] /\ UNCHANGED <<text, pattern>>

-----------------------------------------------------------------------------
(* strstr, and str_indexof: -1 for no occurrence.                            *)
OccursAt(s, p, i) == SubSeq(s, i + 1, i + Len(p)) = p
IndexOf(s, p) ==
  LET at == {i \in 0 .. Len(s) - Len(p) : OccursAt(s, p, i)}
  IN IF at = {} THEN -1 ELSE CHOOSE i \in at : \A j \in at : i <= j

StartsWith(s, p) == Len(s) >= Len(p) /\ IndexOf(s, p) = 0

EndsWith(s, p) == Len(s) >= Len(p) /\ IndexOf(Drop(s, Len(s) - Len(p)), p) = 0

StrIndexOf  == Returns("indexof", IndexOf(text, pattern))
StrContains == Returns("contains", IndexOf(text, pattern) # -1)
StrAffixes  == \/ Returns("startwith", StartsWith(text, pattern))
               \/ Returns("endwith", EndsWith(text, pattern))

(* str_tolower and str_toupper measure the destination before they write to  *)
(* it: what a new buffer holds decides whether they return NULL.             *)
LowerChar(c) == IF c = "A" THEN "a" ELSE IF c = "B" THEN "b" ELSE c
UpperChar(c) == IF c = "a" THEN "A" ELSE IF c = "b" THEN "B" ELSE c
Lower(s) == [i \in 1 .. Len(s) |-> LowerChar(s[i])]
Upper(s) == [i \in 1 .. Len(s) |-> UpperChar(s[i])]

StrCase == \E fits \in BOOLEAN :
             \/ Returns("tolower", IF fits THEN Str(Lower(text)) ELSE Null)
             \/ Returns("toupper", IF fits THEN Str(Upper(text)) ELSE Null)

(* str_startwith_ignorecase lowers both into new buffers; NULL is no prefix. *)
StrStartsIgnoreCase ==
  \E fits \in BOOLEAN :
    Returns("ignorecase", Len(text) >= Len(pattern) /\ fits /\ StartsWith(Lower(text), Lower(pattern)))

-----------------------------------------------------------------------------
(* str_substring with a buffer of len bytes.                                 *)
Substring(s, begin, end, len) ==
  IF begin >= end \/ begin >= Len(s) \/ end - begin + 1 > len THEN Null
  ELSE Str(SubSeq(s, begin + 1, IF end > Len(s) THEN Len(s) ELSE end))

StrSubstring(begin, end, len) ==
  /\ Idle
  /\ out' = [fn |-> "substring", of |-> text, val |-> Substring(text, begin, end, len),
             begin |-> begin, end |-> end, len |-> len]
  /\ UNCHANGED <<text, pattern>>

-----------------------------------------------------------------------------
(***************************************************************************)
(* The loop that str_contains_count, str_replace and str_split_by_string   *)
(* have in common: the places where p is found, each search beginning      *)
(* after the last.                                                         *)
(***************************************************************************)
(* Mutant: the next search begins one character after the last.              *)
HitsOverlap(s, p) ==
  LET from[pos \in Nat] ==
        IF pos < Len(s) /\ IndexOf(Drop(s, pos), p) > -1
        THEN LET hit == pos + IndexOf(Drop(s, pos), p) IN <<hit>> \o from[hit + 1]
        ELSE <<>>
  IN from[0]

Hits(s, p) ==
  LET from[pos \in Nat] ==
        IF pos < Len(s) /\ IndexOf(Drop(s, pos), p) > -1
        THEN LET hit == pos + IndexOf(Drop(s, pos), p) IN <<hit>> \o from[hit + Len(p)]
        ELSE <<>>
  IN from[0]

Count(s, p) == IF s = <<>> \/ p = <<>> THEN 0 ELSE Len(Hits(s, p))

(* The pieces before each hit, and the rest.                                 *)
Pieces(s, p) ==
  LET h == Hits(s, p)
      start(k) == IF k = 1 THEN 0 ELSE h[k - 1] + Len(p)
  IN [k \in 1 .. Len(h) + 1 |-> SubSeq(s, start(k) + 1, IF k <= Len(h) THEN h[k] ELSE Len(s))]

(* NULL without a hit.                                                       *)
Split(s, p) == IF Count(s, p) = 0 THEN Null ELSE Str(Pieces(s, p))

(* The empty string when there is nothing to search or to search for; the    *)
(* rest is copied up to a length computed beforehand.                        *)
Replace(s, p, r) ==
  IF s = <<>> \/ p = <<>> THEN <<>>
  ELSE LET h      == Hits(s, p)
           length == Len(s) + (Len(r) - Len(p)) * Count(s, p)
           copied == FlattenSeq([k \in 1 .. Len(h) |-> Pieces(s, p)[k] \o r])
           old    == IF h = <<>> THEN 0 ELSE Last(h) + Len(p)
       IN copied \o SubSeq(s, old + 1, old + length - Len(copied))

StrCount      == Returns("count", Count(text, pattern))
StrSplit      == Returns("split", Split(text, pattern))

(* str_replace never looks at len, the size it is given of its destination:  *)
(* a longer result is written past the end, and then anything may follow.    *)
Overrun == [null |-> FALSE, overrun |-> TRUE]

StrReplace(r, len) ==
  LET result == Replace(text, pattern, r) IN
  /\ Idle
  /\ out' = [fn |-> "replace", of |-> text, by |-> r, len |-> len,
             val |-> IF result # <<>> /\ Len(result) + 1 > len THEN Overrun ELSE Str(result)]
  /\ UNCHANGED <<text, pattern>>

-----------------------------------------------------------------------------
Blank(c) == c = " "

(* str_trim: blanks are cut at the end, then skipped at the start.  A text   *)
(* of nothing but blanks is searched past its beginning.                     *)
Trim(s) ==
  LET kept == {i \in 1 .. Len(s) : ~Blank(s[i])}
      last == CHOOSE i \in kept : \A j \in kept : j <= i
      first == CHOOSE i \in kept : \A j \in kept : i <= j
  IN IF kept = {} THEN <<>> ELSE SubSeq(s, first, last)

(* strtok: separators are skipped, then the token goes up to the next one.   *)
Tokens(s, set) ==
  LET ends == {i \in 1 .. Len(s) : s[i] \in set} \cup {Len(s) + 1}
      next(i) == CHOOSE j \in ends : j >= i /\ \A k \in ends : k >= i => j <= k
      from[i \in Nat] == IF i > Len(s) THEN <<>>
                         ELSE IF s[i] \in set THEN from[i + 1]
                         ELSE <<SubSeq(s, i, next(i) - 1)>> \o from[next(i) + 1]
  IN from[1]

(* What strtok leaves of the string it takes apart: a zero byte after the    *)
(* first token.                                                              *)
AfterTokens(s, set) ==
  LET starts == {i \in 1 .. Len(s) : s[i] \notin set}
      first  == CHOOSE i \in starts : \A j \in starts : i <= j
      ends   == {i \in 1 .. Len(s) : i > first /\ s[i] \in set}
  IN IF starts = {} THEN s ELSE IF ends = {} THEN s
     ELSE SubSeq(s, 1, (CHOOSE i \in ends : \A j \in ends : i <= j) - 1)

StrTrim == Returns("trim", Trim(text))

(* str_split_by_char counts the tokens in the text itself, then takes a copy *)
(* apart.                                                                    *)
StrSplitByChar ==
  /\ Idle
  /\ out' = [fn |-> "tokens", of |-> text, val |-> Tokens(text, ToSet(pattern))]
  /\ text' = AfterTokens(text, ToSet(pattern))
  /\ UNCHANGED pattern

StrNext ==
  \/ StrIndexOf \/ StrContains \/ StrAffixes \/ StrCase \/ StrStartsIgnoreCase
  \/ \E begin, end, len \in 0 .. MaxIndex : StrSubstring(begin, end, len)
  \/ StrCount \/ StrSplit
  \/ \E r \in Patterns, len \in {MaxIndex, 3 * MaxIndex} : StrReplace(r, len)
  \/ StrTrim \/ StrSplitByChar \/ Take

-----------------------------------------------------------------------------
Joined(pieces, p) == FlattenSeq([k \in DOMAIN pieces |-> IF k = 1 THEN pieces[k] ELSE p \o pieces[k]])

(* Split finds the separators from left to right and without overlap: put   *)
(* together with the separator the pieces give the text, no piece holds it, *)
(* and there is one more than str_contains_count counts, which is what the  *)
(* array was allocated for.  Empty pieces at the end are pieces, as in the  *)
(* example that m_string.h gives for "o"; its sentence that they are left   *)
(* out is not what its example shows, nor what the code does.  Replace      *)
(* gives the same pieces around the replacement, of the length computed     *)
(* beforehand, and writes no more than its destination holds if the caller  *)
(* gave it one for that length.                                             *)
SplitExact ==
  /\ out.fn = "split" /\ ~out.val.null =>
       /\ Joined(out.val.str, pattern) = out.of
       /\ Len(out.val.str) = Count(out.of, pattern) + 1
       /\ \A k \in DOMAIN out.val.str :
            IndexOf(out.val.str[k] \o (IF k < Len(out.val.str) THEN pattern ELSE <<>>), pattern)
              \in {-1, Len(out.val.str[k])}
  /\ out.fn = "replace" /\ out.of # <<>> /\ pattern # <<>> =>
       LET length == Len(out.of) + Count(out.of, pattern) * (Len(out.by) - Len(pattern)) IN
       out.len > length =>
         /\ out.val = Str(Joined(Pieces(out.of, pattern), out.by))
         /\ Len(out.val.str) = length
         /\ IndexOf(out.of, pattern) = -1 => out.val.str = out.of

(* A prefix, a suffix and a place are what they are said to be, for the     *)
(* empty pattern too; without regard to case a "yes" is always right (a     *)
(* "no" may be due to what the new buffer held).                            *)
AffixesExact ==
  LET n == Len(pattern) IN
  /\ out.fn = "startwith" => (out.val <=> n <= Len(out.of) /\ SubSeq(out.of, 1, n) = pattern)
  /\ out.fn = "endwith"   => (out.val <=> n <= Len(out.of) /\ Drop(out.of, Len(out.of) - n) = pattern)
  /\ out.fn = "ignorecase" => (out.val => Lower(SubSeq(out.of, 1, n)) = Lower(pattern))
  /\ out.fn = "contains"  => (out.val <=> \E k \in 0 .. Len(out.of) : StartsWith(Drop(out.of, k), pattern))

(* What str_substring writes, with its zero byte, fits the buffer, and is   *)
(* the text from begin up to end or to the end of the text.                 *)
SubstringFits ==
  out.fn = "substring" /\ ~out.val.null =>
    /\ Len(out.val.str) + 1 <= out.len
    /\ \A i \in 1 .. Len(out.val.str) : out.val.str[i] = out.of[out.begin + i]
    /\ out.begin + Len(out.val.str) \in {out.end, Len(out.of)}

(* The tokens are the runs of characters between separators, none of them   *)
(* empty, in order and complete: what lies outside them is separators only. *)
TokensExact ==
  out.fn = "tokens" =>
    /\ FlattenSeq(out.val) = SelectSeq(out.of, LAMBDA c : c \notin ToSet(pattern))
    /\ \A k \in DOMAIN out.val : out.val[k] # <<>>
    /\ Len(out.val) = Cardinality({i \in 1 .. Len(out.of) :
         out.of[i] \notin ToSet(pattern) /\ (i = 1 \/ out.of[i - 1] \in ToSet(pattern))})

(* Searching, cutting, splitting and replacing in m_string.c do what they   *)
(* are named for, with texts and patterns that are empty, overlap or meet   *)
(* the end, and what they write fits the memory for it: str_replace, which  *)
(* ignores the size it is given, only where the caller has seen to that.    *)
StringsExact == SplitExact /\ AffixesExact /\ SubstringFits /\ TokensExact
=============================================================================
