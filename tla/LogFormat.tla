------------------------------ MODULE LogFormat ------------------------------
(***************************************************************************)
(* logger_format::explain (src/src/manager/logger.cpp): the parser that    *)
(* turns a pattern such as "%C-%T-%(fl)" into the list of items a log line *)
(* is made of.  A step per turn of its loops.  Positions count from 0, as  *)
(* in the code; the position behind the last character holds the null, and *)
(* what is behind that is not part of the string.                          *)
(***************************************************************************)
EXTENDS Naturals, Sequences, SequencesExt

CONSTANTS
  Patterns,    (* the patterns to explain: sequences of characters         *)
  Letters,     (* the characters that isalpha() accepts                    *)
  Known        (* the letters maps has an item for                         *)

VARIABLES
  m_pattern,
  pc,          (* the loop it is in                                        *)
  i, j,        (* where the current group begins, and where it is read     *)
  unlegal,     (* the characters outside of groups                         *)
  temp_str,    (* the part of the group that is closed                     *)
  effect_str,  (* the commands of the group                                *)
  match,       (* is no parenthesis open?                                  *)
  begin,       (* where the open parenthesis is, plus one                  *)
  m_items      (* the items made: a command, or "error"                    *)

vars == <<m_pattern, pc, i, j, unlegal, temp_str, effect_str, match, begin, m_items>>

Init ==
  /\ m_pattern \in Patterns
  /\ pc = "outer" /\ i = 0 /\ j = 0
  /\ unlegal = <<>> /\ temp_str = <<>> /\ effect_str = <<>>
  /\ match = TRUE /\ begin = 0
  /\ m_items = <<>>

size == Len(m_pattern)

CharAt(k) == IF k < size THEN m_pattern[k + 1] ELSE "null"

substr(from, count) == SubSeq(m_pattern, from + 1, from + count)

Separates(c) == c \notin Letters \union {"(", ")"}

(* while(i<m_pattern.size())                                               *)
Outer ==
  /\ pc = "outer"
  /\ pc' = IF i < size THEN "skip" ELSE "done"
  /\ UNCHANGED <<m_pattern, i, j, unlegal, temp_str, effect_str, match, begin, m_items>>

(* while(m_pattern[i] != '%'), which does not ask where the string ends.   *)
Skip ==
  /\ pc = "skip" /\ i <= size /\ CharAt(i) # "%"
  /\ unlegal' = Append(unlegal, CharAt(i))
  /\ i' = i + 1
  /\ UNCHANGED <<m_pattern, pc, j, temp_str, effect_str, match, begin, m_items>>

OpenGroup ==
  /\ pc = "skip" /\ CharAt(i) = "%"
  /\ j' = i + 1
  /\ effect_str' = <<>> /\ temp_str' = <<>> /\ match' = TRUE
  /\ pc' = "scan"
  /\ UNCHANGED <<m_pattern, i, unlegal, begin, m_items>>

(* Mutant: the separator is left for the next group.                       *)
SeparatorLeft ==
  /\ pc = "scan" /\ j < size /\ Separates(CharAt(j))
  /\ temp_str' = temp_str \o substr(i + 1, j - i - 1)
  /\ pc' = "settle"
  /\ UNCHANGED <<m_pattern, i, j, unlegal, effect_str, match, begin, m_items>>

(* A separator ends the group, inside of parentheses too.                  *)
Separator ==
  /\ pc = "scan" /\ j < size /\ Separates(CharAt(j))
  /\ temp_str' = temp_str \o substr(i + 1, j - i - 1)
  /\ j' = j + 1 /\ pc' = "settle"
  /\ UNCHANGED <<m_pattern, i, unlegal, effect_str, match, begin, m_items>>

(* The last character of the pattern closes a group without parentheses.   *)
Character ==
  /\ pc = "scan" /\ j < size /\ match /\ ~Separates(CharAt(j))
  /\ LET opens == CharAt(j) = "("
         last == j = size - 1 /\ effect_str = <<>>
     IN /\ match' = ~opens
        /\ temp_str' = IF opens THEN temp_str \o substr(i + 1, j - i - 1) ELSE temp_str
        /\ begin' = IF opens THEN j + 1 ELSE begin
        /\ effect_str' = IF last THEN substr(i + 1, size - i - 1) ELSE effect_str
  /\ j' = j + 1
  /\ UNCHANGED <<m_pattern, pc, i, unlegal, m_items>>

(* Mutant: the position is only advanced behind the closing parenthesis.   *)
InParenthesesStuck ==
  /\ pc = "scan" /\ j < size /\ ~match /\ ~Separates(CharAt(j))
  /\ CharAt(j) = ")"
  /\ temp_str' = temp_str \o substr(begin, j - begin)
  /\ match' = TRUE /\ pc' = "settle" /\ j' = j + 1
  /\ UNCHANGED <<m_pattern, i, unlegal, effect_str, begin, m_items>>

InParentheses ==
  /\ pc = "scan" /\ j < size /\ ~match /\ ~Separates(CharAt(j))
  /\ LET closes == CharAt(j) = ")" IN
     /\ temp_str' = IF closes THEN temp_str \o substr(begin, j - begin) ELSE temp_str
     /\ match' = closes
     /\ pc' = IF closes THEN "settle" ELSE pc
  /\ j' = j + 1
  /\ UNCHANGED <<m_pattern, i, unlegal, effect_str, begin, m_items>>

EndOfPattern ==
  /\ pc = "scan" /\ j >= size
  /\ pc' = "settle"
  /\ UNCHANGED <<m_pattern, i, j, unlegal, temp_str, effect_str, match, begin, m_items>>

Errors(str) == [k \in DOMAIN str |-> "error"]

Item(c) == IF c \in Known THEN c ELSE "error"

Items(str) == [k \in DOMAIN str |-> Item(str[k])]

(* What the group's commands are: those closed before the end of the       *)
(* pattern, and what the last character has closed.                        *)
Effect == IF j # size /\ match THEN effect_str \o temp_str ELSE effect_str

(* An open parenthesis, or characters outside of groups, end the parse     *)
(* with one error item for each such character.                            *)
GiveUp ==
  /\ pc = "settle" /\ (~match \/ unlegal # <<>>)
  /\ m_items' = m_items \o Errors(unlegal) \o (IF match THEN <<>> ELSE Errors(temp_str))
  /\ unlegal' = <<>>
  /\ pc' = "done"
  /\ UNCHANGED <<m_pattern, i, j, temp_str, effect_str, match, begin>>

CloseGroup ==
  /\ pc = "settle" /\ match /\ unlegal = <<>>
  /\ m_items' = m_items \o Items(Effect)
  /\ effect_str' = <<>> /\ i' = j
  /\ pc' = "outer"
  /\ UNCHANGED <<m_pattern, j, unlegal, temp_str, match, begin>>

Next ==
  \/ Outer \/ Skip \/ OpenGroup
  \/ Separator \/ Character \/ InParentheses \/ EndOfPattern
  \/ GiveUp \/ CloseGroup

Spec == Init /\ [][Next]_vars /\ WF_vars(Next)

-----------------------------------------------------------------------------
(* Properties                                                              *)

(* Where in the pattern each of some items is found: from left to right,   *)
(* and none of them where another one is.                                  *)
LeftToRight(place) == \A k, l \in DOMAIN place : k < l => place[k] < place[l]

(* However broken the pattern, explain() makes its items from left to      *)
(* right and none of them twice.                                           *)
InOrder ==
  LET commands == {k \in DOMAIN m_items : m_items[k] \in Known} IN
  \E place \in [commands -> DOMAIN m_pattern] :
    /\ LeftToRight(place)
    /\ \A k \in commands : m_items[k] = m_pattern[place[k]]

(* explain() ends, or has run out of the string.                           *)
Terminates == <>(pc = "done" \/ i > size)

LetterPlaces == {k \in DOMAIN m_pattern : m_pattern[k] \in Letters}

(* The places of all letters of the pattern, in their order.               *)
LetterByLetter(place) ==
  /\ LeftToRight(place)
  /\ {place[k] : k \in DOMAIN place} = LetterPlaces

(* Groups of letters, each behind a % of its own, with a separator between *)
(* them: the patterns the loggers are built with.                          *)
Plain(p) ==
  /\ p # <<>>
  /\ p[Len(p)] \in Letters
  /\ \A k \in DOMAIN p : /\ p[k] \notin {"(", ")"}
                         /\ p[k] = "%" <=> k = 1 \/ p[k - 1] \notin Letters \union {"%"}

(* A plain pattern that has been read has all its items, in their order.   *)
EverythingRead ==
  pc = "done" /\ Plain(m_pattern) =>
    \E place \in [DOMAIN m_items -> LetterPlaces] :
      /\ LetterByLetter(place)
      /\ \A k \in DOMAIN m_items : m_items[k] = Item(m_pattern[place[k]])

=============================================================================
