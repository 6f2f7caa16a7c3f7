--------------------------- MODULE MCFileManager ---------------------------
(* Constants for model-checking FileManager.                               *)
EXTENDS FileManager, TLC

CONSTANTS t1, t2, f1, f2

TwoThreads == {t1, t2}

FiveCalls == t1 :> 3 @@ t2 :> 2

TwoFiles == {f1, f2}

(* The table has room for one of the two, and which one makes no           *)
(* difference.                                                             *)
NoneOrOne == {{}, {f1}}

=============================================================================
