------------------------------ MODULE MCLogger ------------------------------
(* Constants for model-checking Logger.  a and b are commands, a that for  *)
(* the message; x is a letter that is none, and - separates.               *)
EXTENDS Logger

CONSTANTS t1, s1, s2, s3, file

OneThread == {t1}

ThreeStatements == {s1, s2, s3}

ConsoleAndFile == {console, file}

(* The last two days of a month, and the first of the next and of the one  *)
(* after it: nothing need be logged on the days in between.                *)
Months == <<1, 1, 2, 3>>

MonthDays == <<30, 31, 1, 1>>

Alphabet == {"a", "b", "x"}

Commanding == {"a", "b"}

Strings(chars, n) == UNION {[1..k -> chars] : k \in 0..n}

AnyPatterns == Strings(Alphabet \union {"%", "(", ")", "-"}, 5)

(* Longer ones, which are plain: a % in the beginning and behind each      *)
(* separator, and a letter at the end.                                     *)
LongerPatterns ==
  {p \in Strings(Alphabet \union {"%", "-"}, 7) :
     /\ p # <<>> /\ p[Len(p)] \in Alphabet
     /\ \A k \in DOMAIN p : p[k] = "%" <=> k = 1 \/ p[k - 1] = "-"}

AllPatterns == AnyPatterns \union LongerPatterns

(* Two groups, the message in the second.                                  *)
UsedPatterns == {<<"%", "b", "-", "%", "a">>}

=============================================================================
