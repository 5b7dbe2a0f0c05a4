--------------------------- MODULE MCGateControl ---------------------------
(* Instances of GateControl for TLC.                                       *)
EXTENDS GateControl, TLC

CONSTANTS q1, q2, t1, t2, host, broker

MCExpiresAt == [a \in Auths |-> 1]
MCSymmetry == Permutations(Threads)
=============================================================================
