----------------------------- MODULE MCSockets -----------------------------
(* Constants for model-checking Sockets.                                   *)
EXTENDS Sockets, TLC

CONSTANTS u1, u2, c1

TwoUsers == {u1, u2}

(* By a number of the other, each comes to connect Sockets of any kind.    *)
AllKinds == u1 :> {"noblock", "udp"} @@ u2 :> {"block"}

OneClient == {c1}

=============================================================================
