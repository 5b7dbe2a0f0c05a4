------------------------------ MODULE SingleUse ------------------------------
(***************************************************************************)
(* What the authorization store and its brokers promise together, with no  *)
(* processes, tables or faults in it: an authorization can be withdrawn    *)
(* until somebody takes it, whoever takes it may act on the target once    *)
(* and only before the record is settled, and the settled record tells     *)
(* whether the target was affected.                                        *)
(***************************************************************************)
EXTENDS Naturals

CONSTANT Auths

VARIABLES
    record,     \* what is durably known of the authorization
    acts,       \* how often the target was called for it
    affected    \* whether the target was affected

vars == <<record, acts, affected>>

Records == {"none", "available", "withdrawn", "taken", "doubt", "used", "unused"}

Init ==
    /\ record = [a \in Auths |-> "none"]
    /\ acts = [a \in Auths |-> 0]
    /\ affected = [a \in Auths |-> FALSE]

Move(a, from, to) ==
    /\ record[a] = from
    /\ record' = [record EXCEPT ![a] = to]
    /\ UNCHANGED <<acts, affected>>

Issue(a) == Move(a, "none", "available")

\* Cancelled, revoked in bulk, or found expired.
Withdraw(S) ==
    /\ \A a \in S : record[a] = "available"
    /\ record' = [a \in Auths |-> IF a \in S THEN "withdrawn" ELSE record[a]]
    /\ UNCHANGED <<acts, affected>>

Take(a) == Move(a, "available", "taken")

Act(a) ==
    /\ record[a] = "taken"
    /\ acts[a] = 0
    /\ acts' = [acts EXCEPT ![a] = 1]
    /\ \E e \in BOOLEAN : affected' = [affected EXCEPT ![a] = e]
    /\ UNCHANGED record

SettleUnused(a) == acts[a] = 0 /\ Move(a, "taken", "unused")
SettleUsed(a) == affected[a] /\ Move(a, "taken", "used")
Doubt(a) == Move(a, "taken", "doubt")
Resolve(a) == Move(a, "doubt", IF affected[a] THEN "used" ELSE "unused")

Next ==
    \/ \E S \in SUBSET Auths : Withdraw(S)
    \/ \E a \in Auths :
         \/ Issue(a)
         \/ Take(a)
         \/ Act(a)
         \/ SettleUnused(a)
         \/ SettleUsed(a)
         \/ Doubt(a)
         \/ Resolve(a)

Spec == Init /\ [][Next]_vars
=============================================================================
