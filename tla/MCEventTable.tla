---------------------------- MODULE MCEventTable ----------------------------
(* Constants for model-checking EventTable.                                *)
EXTENDS EventTable, TLC

CONSTANTS w1, w2, w3, r1, r2, r3

ThreeWorkers == {w1, w2, w3}

AllRegs == {r1, r2, r3}

(* Three events of one descriptor: a callback and a coroutine that read,   *)
(* and a callback that writes.                                             *)
OneFd == {1}

AtOne == [r \in Regs |-> 1]

ReadReadWrite == [r \in Regs |-> IF r = r3 THEN "WRITE" ELSE "READ"]

TwoCallbacks == {r1, r3}

(* The event to write is registered on a thread of the pool.               *)
TwoOfThree == {r1, r2}

(* A descriptor of the table, and the number behind its last one.          *)
AndTheNext == {1, 2}

Symmetry == Permutations(Workers)

=============================================================================
