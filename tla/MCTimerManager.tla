--------------------------- MODULE MCTimerManager ---------------------------
(* Constants for model-checking TimerManager.                              *)
EXTENDS TimerManager, TLC

CONSTANTS once, later, cyclic, w1, w2

ThreeTimers == {once, later, cyclic}

TwoWorkers == {w1, w2}

OneCyclic == {cyclic}

(* Two timers that can fall due together, and one that can overtake them.  *)
Delays == once :> 2 @@ later :> 2 @@ cyclic :> 1

=============================================================================
