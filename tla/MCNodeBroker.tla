---------------------------- MODULE MCNodeBroker ----------------------------
(* Instances of NodeBroker for TLC.                                        *)
EXTENDS NodeBroker

CONSTANTS p1, p2, t1, t2, t3, l1, l2, e1, e2, e3, e4

\* Two threads of one process and one of another.
MCProcessOf == [t \in Threads |-> IF t = t3 THEN p2 ELSE p1]

\* e1 and e2 are the same lease, signed again for longer; e4 is for another node.
MCLeaseOf == [e \in Envelopes |-> IF e \in {e1, e2} THEN l1 ELSE l2]
MCIssuedAt == [e \in Envelopes |-> IF e = e1 THEN 0 ELSE 1]
MCExpiresAt == [e \in Envelopes |-> IF e = e2 THEN 3 ELSE 2]
=============================================================================
