---------------------------- MODULE MCLocalTime ----------------------------
(* Constants for model-checking LocalTime: days of 3 hours, months of 3    *)
(* days, a week of 5 days, and an offset of 2 hours.                       *)
EXTENDS LocalTime

CONSTANTS t1, t2

TwoThreads == {t1, t2}

TwoMonths == <<3, 3>>

=============================================================================
