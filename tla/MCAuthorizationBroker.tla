----------------------- MODULE MCAuthorizationBroker -----------------------
(* Instances of AuthorizationBroker for TLC.                               *)
EXTENDS AuthorizationBroker

CONSTANTS a1, b1, b2, o1

\* The authorization is current at two readings of the clock.
MCExpiresAt == [a \in Auths |-> 2]
=============================================================================
