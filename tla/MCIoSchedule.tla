---------------------------- MODULE MCIoSchedule ----------------------------
(* Constants for model-checking IoSchedule.                                *)
EXTENDS IoSchedule

CONSTANTS w1, w2, t1, cyclic, once

TwoWorkers == {w1, w2}

OneTask == {t1}

BothTimers == {cyclic, once}

OneCyclic == {cyclic}

FirstIsPinned == [i \in Items |-> IF i = t1 THEN w1 ELSE AnyThread]

EitherTag == {"null", "pipe"}

=============================================================================
