------------------------- MODULE AuthorizationBroker -------------------------
(***************************************************************************)
(* Brokers consuming host-stored authorizations (AuthorizationBroker of    *)
(* authorization.py), composed with the store they share, the coordinator  *)
(* that issues and cancels, and the operator's command line                *)
(* (authorization_admin.py).  consume_id is a sequence of steps; between   *)
(* any two of them other processes act, the clock advances, the            *)
(* authorization is revoked, a store write fails, or the broker dies.      *)
(***************************************************************************)
EXTENDS AuthorizationStore

CONSTANTS
    Brokers,            \* broker processes, one consume_id at a time each
    Admins,             \* coordinator and operator processes
    Genuine,            \* tokens whose signature, issuer, audience, hashes,
                        \* requester, action and target all match
    MaxClock,           \* bound on the clock
    CoordinatorWrites,  \* states the coordinator writes into the ledger's
                        \* row of a tracked request, at moments of its own
    OperatorConfirms    \* operators confirm abandonment and outcomes as told

ASSUME BrokerAssumption ==
    /\ Brokers \intersect Admins = {}
    /\ Clients = Brokers \union Admins
    /\ Genuine \subseteq Auths
    /\ MaxClock \in Nat
    /\ CoordinatorWrites \subseteq RequestStates
    /\ OperatorConfirms \in BOOLEAN

VARIABLES
    pc,         \* where each broker is in consume_id
    job,        \* the authorization it was asked to consume
    now,        \* the time it passes to begin_consumption
    live,       \* tokens with execution_enabled and no simulation_only
    clock,
    revoked,    \* what the revocation checker answers
    calls,      \* times spec["execute"] was called, per authorization
    effect,     \* whether the target was affected
    barred,     \* history: expired before a broker's last reading of the clock,
                \* or revoked before its last revocation check answered
    orphaned    \* history: a broker's attempt was lost or could not be recorded

brokerVars == <<pc, job, now>>
worldVars == <<live, clock, revoked>>
effectVars == <<calls, effect>>
historyVars == <<barred, orphaned>>
vars == <<storeVars, brokerVars, worldVars, effectVars, historyVars>>

\* From the reservation to the CAS that settles the record.
Working == {"rechecking", "rechecked", "reasking", "rejected", "cleared",
            "dispatched", "returned", "raised"}
Steps == {"idle", "fetched", "asking", "verified", "stamped", "settled"} \union Working

TypeOK ==
    /\ StoreTypeOK
    /\ pc \in [Brokers -> Steps]
    /\ job \in [Brokers -> Auths]
    /\ now \in [Brokers -> Nat]
    /\ live \subseteq Auths
    /\ clock \in Nat
    /\ revoked \subseteq Auths
    /\ calls \in [Auths -> Nat]
    /\ effect \in [Auths -> BOOLEAN]
    /\ barred \subseteq Auths
    /\ orphaned \subseteq Auths

Init ==
    /\ StoreInit
    /\ pc = [b \in Brokers |-> "idle"]
    /\ job = [b \in Brokers |-> CHOOSE a \in Auths : TRUE]
    /\ now = [b \in Brokers |-> 0]
    /\ live \in SUBSET Auths
    /\ clock = 0
    /\ revoked = {}
    /\ calls = [a \in Auths |-> 0]
    /\ effect = [a \in Auths |-> FALSE]
    /\ barred = {}
    /\ orphaned = {}

Goto(b, step) == pc' = [pc EXCEPT ![b] = step]
WorkingOn(b, a) == pc[b] \in Working /\ job[b] = a
Orphan(b) == orphaned' = orphaned \union {job[b]}

-----------------------------------------------------------------------------
(* consume_id, up to the reservation.                                      *)

\* store.get: an authorization that is not there is refused at once.
Fetch(b, a) ==
    /\ pc[b] = "idle"
    /\ row[a] # "none"
    /\ Goto(b, "fetched")
    /\ job' = [job EXCEPT ![b] = a]
    /\ UNCHANGED <<storeVars, now, worldVars, effectVars, historyVars>>

\* _verify_active reads the clock and verifies the token, then asks the
\* host's revocation checker, which takes its time.  The checker answers as of
\* one moment of its call.
Timely(a) == a \in Genuine /\ clock < ExpiresAt[a]

VerifyFirst(b) ==
    /\ pc[b] = "fetched"
    /\ Timely(job[b])
    /\ Goto(b, "asking")
    /\ UNCHANGED <<storeVars, job, now, worldVars, effectVars, historyVars>>

AskFirst(b) ==
    /\ pc[b] = "asking"
    /\ job[b] \notin revoked
    /\ Goto(b, "verified")
    /\ UNCHANGED <<storeVars, job, now, worldVars, effectVars, historyVars>>

\* Refused before the reservation: nothing is written.  The checker may also
\* be unavailable, so a token that is not revoked can be refused.
Refuse(b) ==
    /\ \/ pc[b] = "fetched" /\ ~Timely(job[b])
       \/ pc[b] = "asking"
    /\ Goto(b, "idle")
    /\ UNCHANGED <<storeVars, job, now, worldVars, effectVars, historyVars>>

\* int(self.clock()) is evaluated before begin_consumption waits for the
\* store's lock and for SQLite's write lock.
Stamp(b) ==
    /\ pc[b] = "verified"
    /\ Goto(b, "stamped")
    /\ now' = [now EXCEPT ![b] = clock]
    /\ UNCHANGED <<storeVars, job, worldVars, effectVars, historyVars>>

BeginConsumption(b) ==
    /\ pc[b] = "stamped"
    /\ \/ Reserve(job[b], now[b]) /\ Goto(b, "rechecking")
       \/ ExpireUnconsumed(job[b], now[b]) /\ Goto(b, "idle")
    /\ UNCHANGED <<job, now, worldVars, effectVars, historyVars>>

\* No longer issued, or the transaction failed and was rolled back.
BeginFails(b) ==
    /\ pc[b] = "stamped"
    /\ Goto(b, "idle")
    /\ UNCHANGED <<storeVars, job, now, worldVars, effectVars, historyVars>>

-----------------------------------------------------------------------------
(* The attempt.                                                            *)

Recheck(b) ==
    /\ pc[b] = "rechecking"
    /\ Goto(b, "rechecked") \/ Goto(b, "rejected")
    /\ UNCHANGED <<storeVars, job, now, worldVars, effectVars, historyVars>>

\* Mutant of VerifySecond: the token is not verified again after the recheck.
TrustFirstVerification(b) ==
    /\ pc[b] = "rechecked"
    /\ Goto(b, "cleared")
    /\ UNCHANGED <<storeVars, job, now, worldVars, effectVars, historyVars>>

VerifySecond(b) ==
    /\ pc[b] = "rechecked"
    /\ Goto(b, IF Timely(job[b]) THEN "reasking" ELSE "rejected")
    /\ UNCHANGED <<storeVars, job, now, worldVars, effectVars, historyVars>>

AskSecond(b) ==
    /\ pc[b] = "reasking"
    /\ \/ job[b] \notin revoked /\ Goto(b, "cleared")
       \/ Goto(b, "rejected")
    /\ UNCHANGED <<storeVars, job, now, worldVars, effectVars, historyVars>>

\* Mutant of FailPreDispatch: the rejection is raised and not recorded.
RaisePreDispatch(b) ==
    /\ pc[b] = "rejected"
    /\ Goto(b, "idle")
    /\ UNCHANGED <<storeVars, job, now, worldVars, effectVars, historyVars>>

\* The pre-dispatch handler: complete(failed), whose AuthorizationError is
\* swallowed.
FailPreDispatch(b) ==
    /\ pc[b] = "rejected"
    /\ \/ Complete(b, job[b], "failed") /\ Goto(b, "settled")
       \/ row[job[b]] # "executing" /\ Goto(b, "idle") /\ UNCHANGED storeVars
    /\ UNCHANGED <<job, now, worldVars, effectVars, historyVars>>

Simulate(b) ==
    /\ pc[b] = "cleared"
    /\ job[b] \notin live
    /\ \/ Complete(b, job[b], "simulated") /\ Goto(b, "settled")
       \/ row[job[b]] # "executing" /\ Goto(b, "idle") /\ UNCHANGED storeVars
    /\ UNCHANGED <<job, now, worldVars, effectVars, historyVars>>

\* spec["execute"] is called; whether the target is affected shows later.
Dispatch(b) ==
    /\ pc[b] = "cleared"
    /\ job[b] \in live
    /\ Goto(b, "dispatched")
    /\ calls' = [calls EXCEPT ![job[b]] = @ + 1]
    /\ \E e \in BOOLEAN : effect' = [effect EXCEPT ![job[b]] = @ \/ e]
    /\ UNCHANGED <<storeVars, job, now, worldVars, historyVars>>

\* Mutant of TargetAnswers: a lost answer is waited for without a timeout.
TargetAnswersOrHangs(b) ==
    /\ pc[b] = "dispatched"
    /\ effect[job[b]]
    /\ Goto(b, "returned")
    /\ UNCHANGED <<storeVars, job, now, worldVars, effectVars, historyVars>>

\* A dict is returned for an affected target; a lost or malformed answer
\* raises whatever happened.
TargetAnswers(b) ==
    /\ pc[b] = "dispatched"
    /\ \/ effect[job[b]] /\ Goto(b, "returned")
       \/ Goto(b, "raised")
    /\ UNCHANGED <<storeVars, job, now, worldVars, effectVars, historyVars>>

\* complete(executed), inside the try: a conflict raises.
CompleteExecuted(b) ==
    /\ pc[b] = "returned"
    /\ \/ Complete(b, job[b], "executed") /\ Goto(b, "settled")
       \/ row[job[b]] # "executing" /\ Goto(b, "raised") /\ UNCHANGED storeVars
    /\ UNCHANGED <<job, now, worldVars, effectVars, historyVars>>

\* Mutant of MarkOutcomeUnknown: a lost answer is recorded as a failure.
MarkOutcomeFailed(b) ==
    /\ pc[b] = "raised"
    /\ \/ Complete(b, job[b], "failed") /\ Goto(b, "settled")
       \/ row[job[b]] # "executing" /\ Goto(b, "idle") /\ UNCHANGED storeVars
    /\ UNCHANGED <<job, now, worldVars, effectVars, historyVars>>

\* The post-dispatch handler: every exception of mark_unknown is swallowed.
MarkOutcomeUnknown(b) ==
    /\ pc[b] = "raised"
    /\ \/ MarkUnknown(b, job[b]) /\ Goto(b, "settled")
       \/ row[job[b]] # "executing" /\ Goto(b, "idle") /\ UNCHANGED storeVars
    /\ UNCHANGED <<job, now, worldVars, effectVars, historyVars>>

\* The rest of complete or mark_unknown: the projection, then the answer.
Settle(b) ==
    /\ pc[b] = "settled"
    /\ WriteSnapshot(b) \/ WriteRequest(b)
    /\ IF pend'[b] = NoWrite THEN Goto(b, "idle") ELSE UNCHANGED pc
    /\ UNCHANGED <<job, now, worldVars, effectVars, historyVars>>

-----------------------------------------------------------------------------
(* Failures.                                                               *)

\* The guarded UPDATE itself fails, or the receipt (which holds what the
\* recheck or the target returned) cannot be encoded for it: after a failed complete(executed) the
\* post-dispatch handler still runs, otherwise the row stays executing.
WriteFails(b) ==
    /\ pc[b] \in {"rejected", "cleared", "returned", "raised"}
    /\ pc[b] = "cleared" => job[b] \notin live
    /\ IF pc[b] = "returned"
         THEN Goto(b, "raised") /\ UNCHANGED historyVars
         ELSE Goto(b, "idle") /\ Orphan(b) /\ UNCHANGED barred
    /\ UNCHANGED <<storeVars, job, now, worldVars, effectVars>>

\* A projection write fails after the record was settled.
ProjectionFails(b) ==
    /\ pc[b] = "settled"
    /\ AbandonWrite(b)
    /\ Goto(b, IF pend[b].state = "executed" THEN "raised" ELSE "idle")
    /\ Orphan(b)
    /\ UNCHANGED <<job, now, worldVars, effectVars, barred>>

\* The broker process dies and is restarted.
Crash(b) ==
    /\ pc[b] # "idle"
    /\ Goto(b, "idle")
    /\ AbandonWrite(b)
    /\ IF pc[b] \in Working \union {"settled"} THEN Orphan(b) ELSE UNCHANGED orphaned
    /\ UNCHANGED <<job, now, worldVars, effectVars, barred>>

-----------------------------------------------------------------------------
(* Coordinator and operator processes.                                     *)

Issue(c, a) ==
    /\ RecordIssued(c, a)
    /\ UNCHANGED <<brokerVars, worldVars, effectVars, historyVars>>

CancelAuthorization(c, a) ==
    /\ Cancel(c, a)
    /\ UNCHANGED <<brokerVars, worldVars, effectVars, historyVars>>

RevokeIssued(c) ==
    /\ RevokeAllIssued(c)
    /\ UNCHANGED <<brokerVars, worldVars, effectVars, historyVars>>

\* recover-interrupted takes the operator's word that the attempt is abandoned.
Recover(c, a) ==
    /\ OperatorConfirms => \A b \in Brokers : ~WorkingOn(b, a)
    /\ RecoverInterrupted(c, a)
    /\ UNCHANGED <<brokerVars, worldVars, effectVars, historyVars>>

\* reconcile takes the operator's word for the downstream outcome.
ReconcileOutcome(c, a) ==
    /\ \E outcome \in {"executed", "failed"} :
         /\ OperatorConfirms => (outcome = "executed" <=> effect[a])
         /\ Reconcile(c, a, outcome)
    /\ UNCHANGED <<brokerVars, worldVars, effectVars, historyVars>>

\* The controller records what its caller or its engine said, over whatever
\* the row holds by then (GateControl models which of its calls write what).
CoordinatorRecords(a) ==
    /\ a \in Tracked
    /\ \E s \in CoordinatorWrites : request' = [request EXCEPT ![a] = s]
    /\ UNCHANGED <<row, snapshot, pend, brokerVars, worldVars, effectVars, historyVars>>

AdminProjects(c) ==
    /\ WriteSnapshot(c) \/ WriteRequest(c)
    /\ UNCHANGED <<brokerVars, worldVars, effectVars, historyVars>>

AdminDies(c) ==
    /\ ~Free(c)
    /\ AbandonWrite(c)
    /\ orphaned' = orphaned \union {pend[c].auth}
    /\ UNCHANGED <<brokerVars, worldVars, effectVars, barred>>

-----------------------------------------------------------------------------
(* The world.                                                              *)

\* No broker has passed, or can still use, the second check of the token's
\* expiry (Untimed) or the second answer of the revocation checker (Uncleared).
Uncleared(a) ==
    /\ calls[a] = 0
    /\ \A b \in Brokers : ~(pc[b] = "cleared" /\ job[b] = a)

Untimed(a) == Uncleared(a) /\ \A b \in Brokers : ~(pc[b] = "reasking" /\ job[b] = a)

Revoke(a) ==
    /\ a \notin revoked
    /\ revoked' = revoked \union {a}
    /\ barred' = IF Uncleared(a) THEN barred \union {a} ELSE barred
    /\ UNCHANGED <<storeVars, brokerVars, live, clock, effectVars, orphaned>>

Tick ==
    /\ clock < MaxClock
    /\ clock' = clock + 1
    /\ barred' = barred \union {a \in Auths : clock' >= ExpiresAt[a] /\ Untimed(a)}
    /\ UNCHANGED <<storeVars, brokerVars, live, revoked, effectVars, orphaned>>

-----------------------------------------------------------------------------

\* One broker's own progress: no failure and no new job.
BrokerStep(b) ==
    \/ VerifyFirst(b)
    \/ AskFirst(b)
    \/ Refuse(b)
    \/ Stamp(b)
    \/ BeginConsumption(b)
    \/ BeginFails(b)
    \/ Recheck(b)
    \/ VerifySecond(b)
    \/ AskSecond(b)
    \/ FailPreDispatch(b)
    \/ Simulate(b)
    \/ Dispatch(b)
    \/ TargetAnswers(b)
    \/ CompleteExecuted(b)
    \/ MarkOutcomeUnknown(b)
    \/ Settle(b)

BrokerFault(b) == WriteFails(b) \/ ProjectionFails(b) \/ Crash(b)

AdminStep(c) ==
    \/ \E a \in Auths :
         \/ Issue(c, a)
         \/ CancelAuthorization(c, a)
         \/ Recover(c, a)
         \/ ReconcileOutcome(c, a)
         \/ CoordinatorRecords(a)
    \/ RevokeIssued(c)
    \/ AdminProjects(c)
    \/ AdminDies(c)

Next ==
    \/ \E b \in Brokers :
         \/ \E a \in Auths : Fetch(b, a)
         \/ BrokerStep(b)
         \/ BrokerFault(b)
    \/ \E c \in Admins : AdminStep(c)
    \/ \E a \in Auths : Revoke(a)
    \/ Tick

Spec == Init /\ [][Next]_vars

\* A running broker thread is scheduled, and the host's revocation checker,
\* recheck and target call return or raise in the end: an assumption on the
\* host, since consume_id sets them no timeout.  Nothing is assumed of
\* operators, of the clock, or of failures.
FairSpec == Spec /\ \A b \in Brokers : WF_vars(BrokerStep(b))

-----------------------------------------------------------------------------
(* Properties.                                                             *)

\* The target is called at most once for an authorization, whatever crashes,
\* failed writes, recoveries and reconciliations happen (consume_id's "single
\* attempt"; begin_consumption's guard is the only way in).
SingleCall == \A a \in Auths : calls[a] <= 1

\* A requester or operator who sees an authorization cancelled, expired or
\* simulated can rely on the target not having been called, now or later.
WithdrawnNeverCalled ==
    \A a \in Auths : row[a] \in {"issued", "cancelled", "expired", "simulated"} => calls[a] = 0

\* An authorization that is revoked before a broker's second revocation check
\* answers, or that expires before its second verification reads the clock, is
\* never dispatched, even when that happens during a slow recheck or while
\* begin_consumption waits with a stale time stamp.  (One that expires while
\* that second revocation check runs is still dispatched.)
BarredNeverCalled == \A a \in barred : calls[a] = 0

\* A final record tells the truth about the target (with operators who
\* confirm what the command line asks them to confirm).
TruthfulRecord ==
    \A a \in Auths :
        /\ row[a] = "executed" => effect[a]
        /\ row[a] \in {"failed", "simulated"} => ~effect[a]

\* The snapshot retained in the authorization's own row, from which the
\* controller repairs a ledger that lost the authorization, never contradicts
\* the target once it is final, however late the projections of cancel,
\* complete, mark_unknown and reconcile are written and whatever the
\* coordinator writes into the ledger's row they read: withdrawn or simulated
\* means no call, executed or failed tells what happened.
RetainedViewTruthful ==
    \A a \in Auths :
        /\ snapshot[a] \in {"cancelled", "expired", "simulated"} => calls[a] = 0
        /\ snapshot[a] = "executed" => effect[a]
        /\ snapshot[a] = "failed" => ~effect[a]

\* An executing record that no broker works on is the trace of a crash or of
\* a failed write: consume_id itself leaves none behind.
NoSilentOrphan ==
    \A a \in Auths : row[a] = "executing" => a \in orphaned \/ \E b \in Brokers : WorkingOn(b, a)

\* Every attempt reaches a record an operator can act on: it is settled, or
\* it is an orphan that recover-interrupted can take.
AttemptsSettle == \A a \in Auths : row[a] = "executing" ~> row[a] # "executing" \/ a \in orphaned

\* SEMANTIC_GATE_IMPLEMENTATION_GUIDE.md: "Every state mutation is a
\* conditional compare-and-set under a write transaction", and "Projection
\* updates the authorization's retained request snapshot and, when sharing a
\* database, the `requests` row ... before commit".  Then, with no write under
\* way and none ever lost, the ledger shows every tracked authorization's state.
ProjectionAgreesAtRest ==
    (\A c \in Clients : Free(c)) /\ orphaned = {} =>
        \A a \in Tracked : row[a] # "none" => request[a] = PublicState(row[a])

\* The abstract promise, under the refinement mapping that reads the store's
\* state as what is known of an authorization.
RecordOf(state) ==
    CASE state = "issued" -> "available"
      [] state \in {"cancelled", "expired"} -> "withdrawn"
      [] state = "executing" -> "taken"
      [] state = "unknown" -> "doubt"
      [] state = "executed" -> "used"
      [] state \in {"failed", "simulated"} -> "unused"
      [] OTHER -> "none"

Abstract == INSTANCE SingleUse WITH
    record <- [a \in Auths |-> RecordOf(row[a])],
    acts <- calls,
    affected <- effect

\* Brokers, operators and the store together implement SingleUse: each of
\* their steps is one of its steps or changes nothing it can see.
ImplementsSingleUse == Abstract!Spec
=============================================================================
