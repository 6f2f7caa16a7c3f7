----------------------------- MODULE MCSchedule -----------------------------
(* Constants for model-checking Schedule: the runs choose the clients.     *)
EXTENDS Schedule, TLC

CONSTANTS w1, w2, t1, t2, t3

TwoWorkers == {w1, w2}

TwoTasks == {t1, t2}

ThreeTasks == {t1, t2, t3}

OneIsPinned == {AnyThread, w1}

AnyOnly == {AnyThread}

EitherEnd == {"init", "terminate"}

NeverTerminates == {"init"}

Disciplined == {}

Eager == {"eager"}

NotEager == ClientHabits \ {"eager"}

(* Tasks are interchangeable; so are the threads that no task is bound to. *)
Symmetry == Permutations(Tasks)

SymmetryUnpinned == Permutations(Tasks) \cup Permutations(Workers)

=============================================================================
