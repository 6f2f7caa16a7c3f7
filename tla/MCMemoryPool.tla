---------------------------- MODULE MCMemoryPool ----------------------------
(* Constants for model-checking MemoryPool: nodes of 2 bytes, 2 at a time, *)
(* 4 lists, so that 8 is the last small size; blocks of 10.                *)
EXTENDS MemoryPool

CONSTANTS t1, t2

TwoThreads == {t1, t2}

OneThread == {t1}

(* Two sizes of different lists, and a large one.                          *)
SmallAndBig == {2, 3, 9}

=============================================================================
