----------------------------- MODULE GateEngine -----------------------------
(***************************************************************************)
(* GatewayEngine (engine.py): requests that walk through the gates of one  *)
(* workflow.  Every public operation holds one re-entrant lock, so the     *)
(* engine is a stack of activations of which only the topmost moves; tool, *)
(* notifier, target and verifier callbacks run under the lock and may call *)
(* the engine again.  Brokers and the operator reach the authorization     *)
(* store without that lock, at any moment, and the clock does not stop.    *)
(***************************************************************************)
EXTENDS WorkflowPolicy, Sequences

CONSTANTS
    Requests,           \* request identities: requester and idempotency key
    EvidenceIds,        \* ids an approval evidence document may carry
    NotificationIds,    \* ids a notifier may report
    Reentrant,          \* kinds of callback that call the engine again
    Authority,          \* the host configured what the execute gate needs
    Rehearsals,         \* requests of an action that has the same gates but
                        \* simulation_only in its execute gate
    MaxClock,           \* bound on the clock
    Horizon             \* bound on the expiry a document carries

CallbackKinds == {"tool", "notify", "execute", "verify"}

ASSUME EngineAssumption ==
    /\ Reentrant \subseteq CallbackKinds
    /\ Authority \in BOOLEAN
    /\ Rehearsals \subseteq Requests
    /\ MaxClock \in Nat
    /\ Horizon \in Nat

VARIABLES
    state,              \* request -> its public state, "none" before it exists
    control,            \* request -> effective_control
    status,             \* request -> gate -> status
    evidence,           \* request -> approval documents its gates recorded
    notices,            \* request -> [gate, id] its notify gates recorded
    stack,              \* requests whose activation holds the lock, newest first
    mode,               \* request -> what its activation is doing
    pos,                \* request -> the gate its activation is at, 0 before
    offered,            \* request -> the document the verifier is looking at
    consumedApprovals,  \* _consumed_approval_ids
    consumedNotices,    \* _consumed_notification_ids
    grant,              \* request -> its row in the authorization store
    issuedAt, expiresAt,\* request -> time bounds of its authorization
    targetCalls,        \* request -> times the target tool was called
    clock

requestVars == <<state, status>>
lockVars == <<stack, mode, pos>>
evidenceVars == <<evidence, offered, consumedApprovals>>
noticeVars == <<notices, consumedNotices>>
grantVars == <<grant, issuedAt, expiresAt>>
vars == <<requestVars, control, lockVars, evidenceVars, noticeVars, grantVars,
          targetCalls, clock>>

TERMINAL == {"blocked", "cancelled", "simulated", "executed", "failed"}

SATISFIED == {"passed", "simulated", "approved"}
States == TERMINAL \union {"none", "processing", "waiting_for_approval", "authorized"}
Statuses == SATISFIED \union {"pending", "waiting", "blocked", "failed", "authorized"}
Callback == {"call", "verify"}
Modes == Callback \union {"idle", "run", "issue"}
Grants == {"none", "issued", "taken", "cancelled", "expired"}

Documents == [id : EvidenceIds, request : Requests, gate : Gates,
              expires_at : 0..Horizon, assurance : Controls]

TypeOK ==
    /\ state \in [Requests -> States]
    /\ control \in [Requests -> Controls]
    /\ status \in [Requests -> [Gates -> Statuses]]
    /\ evidence \in [Requests -> SUBSET Documents]
    /\ notices \in [Requests -> SUBSET [gate : Gates, id : NotificationIds]]
    /\ stack \in Seq(Requests)
    /\ mode \in [Requests -> Modes]
    /\ pos \in [Requests -> 0..GateCount]
    /\ offered \in [Requests -> SUBSET Documents]
    /\ consumedApprovals \subseteq EvidenceIds
    /\ consumedNotices \subseteq NotificationIds
    /\ grant \in [Requests -> Grants]
    /\ issuedAt \in [Requests -> Nat]
    /\ expiresAt \in [Requests -> Nat]
    /\ targetCalls \in [Requests -> Nat]
    /\ clock \in Nat

Init ==
    /\ state = [r \in Requests |-> "none"]
    /\ control = [r \in Requests |-> PolicyControl]
    /\ status = [r \in Requests |-> [g \in Gates |-> "pending"]]
    /\ evidence = [r \in Requests |-> {}]
    /\ notices = [r \in Requests |-> {}]
    /\ stack = <<>>
    /\ mode = [r \in Requests |-> "idle"]
    /\ pos = [r \in Requests |-> 0]
    /\ offered = [r \in Requests |-> {}]
    /\ consumedApprovals = {}
    /\ consumedNotices = {}
    /\ grant = [r \in Requests |-> "none"]
    /\ issuedAt = [r \in Requests |-> 0]
    /\ expiresAt = [r \in Requests |-> 0]
    /\ targetCalls = [r \in Requests |-> 0]
    /\ clock = 0

-----------------------------------------------------------------------------
(* The lock and the activations.                                           *)

Top(r) == stack # <<>> /\ Head(stack) = r
CallbackOf(r) == IF mode[r] = "verify" THEN "verify" ELSE Kind[pos[r]]

\* A caller gets in when the lock is free, or from a callback of its holder.
MayEnter ==
    stack # <<>> =>
        mode[Head(stack)] \in Callback /\ CallbackOf(Head(stack)) \in Reentrant

Enter(r, m, g) ==
    /\ stack' = <<r>> \o stack
    /\ mode' = [mode EXCEPT ![r] = m]
    /\ pos' = [pos EXCEPT ![r] = g]

Goto(r, m, g) ==
    /\ mode' = [mode EXCEPT ![r] = m]
    /\ pos' = [pos EXCEPT ![r] = g]
    /\ UNCHANGED stack

\* The operation returns, or raises, to its caller.
Leave(r) ==
    /\ stack' = Tail(stack)
    /\ mode' = [mode EXCEPT ![r] = "idle"]
    /\ pos' = [pos EXCEPT ![r] = 0]

Becomes(r, s) == state' = [state EXCEPT ![r] = s]
Mark(r, g, s) == status' = [status EXCEPT ![r][g] = s]
Pass(r, g, s) == Mark(r, g, s) /\ Goto(r, "run", g) /\ UNCHANGED state
Stop(r, g, s, public) == Mark(r, g, s) /\ Becomes(r, public) /\ Leave(r)

\* _block, and the branches that fail a gate: the request ends there.
Block(r, g) == Stop(r, g, "blocked", "blocked")
Fail(r, g) == Stop(r, g, "failed", "failed")

\* _block marks the gate, copies the evidence and then sets the state.  The
\* copy refuses a read result that is at the limits of a JSON value before it
\* is wrapped into evidence: the exception leaves the operation in between.
BlockRaises(r, g) == Mark(r, g, "blocked") /\ Leave(r) /\ UNCHANGED state

-----------------------------------------------------------------------------
(* request_action.  A key that is already known returns the stored request *)
(* and changes nothing, whatever else is going on.                         *)

RequestAction(r, minimum) ==
    /\ MayEnter
    /\ state[r] = "none"
    /\ Becomes(r, "processing")
    /\ control' = [control EXCEPT ![r] = EffectiveControl(minimum)]
    /\ Enter(r, "run", 0)
    /\ UNCHANGED <<status, evidenceVars, noticeVars, grantVars, targetCalls, clock>>

-----------------------------------------------------------------------------
(* _advance: passes over the gates in definition order.  The state is read *)
(* between passes only, so a pass goes on even if it were changed.         *)

\* Mutant of Ready: one satisfied requirement is enough.
ReadyAfterAny(r) ==
    {g \in Gates : /\ status[r][g] = "pending"
                   /\ Requires[g] # {} =>
                        \E h \in Requires[g] : status[r][h] \in SATISFIED}

Ready(r) ==
    {g \in Gates : /\ status[r][g] = "pending"
                   /\ \A h \in Requires[g] : status[r][h] \in SATISFIED}

Running(r) == Top(r) /\ mode[r] = "run"
Upcoming(r) == {g \in Ready(r) : g > pos[r]}
At(r, g) == Running(r) /\ g \in Upcoming(r) /\ \A h \in Upcoming(r) : g <= h

\* The pass is over.  Another one follows if there is a gate to run; if there
\* is none the operation returns, or raises "gate graph made no progress".
EndPass(r) ==
    /\ Running(r)
    /\ Upcoming(r) = {}
    /\ IF state[r] = "processing" /\ Ready(r) # {} THEN Goto(r, "run", 0) ELSE Leave(r)
    /\ UNCHANGED <<requestVars, control, evidenceVars, noticeVars, grantVars,
                   targetCalls, clock>>

PassSchema(r, g) ==
    /\ At(r, g) /\ Kind[g] = "schema"
    /\ Pass(r, g, "passed")
    /\ UNCHANGED <<control, evidenceVars, noticeVars, grantVars, targetCalls, clock>>

\* What a condition on the request's own gates finds among their evidence.
ReadKept(r) == \E g \in Gates : Kind[g] = "tool" /\ status[r][g] = "passed"

\* Mutant of EvaluateCondition: a condition that holds is not marked passed.
EvaluateWithoutMark(r, g) ==
    /\ At(r, g) /\ Kind[g] = "condition"
    /\ \/ Goto(r, "run", g) /\ UNCHANGED requestVars
       \/ Block(r, g)
       \/ ReadKept(r) /\ BlockRaises(r, g)
    /\ UNCHANGED <<control, evidenceVars, noticeVars, grantVars, targetCalls, clock>>

\* A path that is unavailable blocks like a comparison that fails.
EvaluateCondition(r, g) ==
    /\ At(r, g) /\ Kind[g] = "condition"
    /\ \/ Pass(r, g, "passed")
       \/ Block(r, g)
       \/ ReadKept(r) /\ BlockRaises(r, g)
    /\ UNCHANGED <<control, evidenceVars, noticeVars, grantVars, targetCalls, clock>>

CallOut(r, g) ==
    /\ At(r, g) /\ Kind[g] \in {"tool", "notify"}
    /\ Goto(r, "call", g)
    /\ UNCHANGED <<requestVars, control, evidenceVars, noticeVars, grantVars,
                   targetCalls, clock>>

\* The host's callback for a gate of kind k is about to return.
Returning(r, k) == Top(r) /\ mode[r] = "call" /\ Kind[pos[r]] = k

ToolReturns(r) ==
    /\ Returning(r, "tool")
    /\ \/ Pass(r, pos[r], "passed")
       \/ Block(r, pos[r])
       \/ BlockRaises(r, pos[r])
       \/ Fail(r, pos[r])
    /\ UNCHANGED <<control, evidenceVars, noticeVars, grantVars, targetCalls, clock>>

\* Mutants of NotifierReturns: an id that was used before is accepted; the
\* gate takes its status from the event.
NotifierReturnsAnyId(r) ==
    /\ Returning(r, "notify")
    /\ \E id \in NotificationIds, delivered \in BOOLEAN :
         /\ Enforcing => delivered
         /\ consumedNotices' = consumedNotices \union {id}
         /\ notices' = [notices EXCEPT ![r] = @ \union {[gate |-> pos[r], id |-> id]}]
         /\ Pass(r, pos[r], IF delivered THEN "passed" ELSE "simulated")
    /\ UNCHANGED <<control, evidenceVars, grantVars, targetCalls, clock>>

NotifierMarksDelivered(r) ==
    /\ Returning(r, "notify")
    /\ \E id \in NotificationIds \ consumedNotices :
         /\ consumedNotices' = consumedNotices \union {id}
         /\ notices' = [notices EXCEPT ![r] = @ \union {[gate |-> pos[r], id |-> id]}]
         /\ Pass(r, pos[r], "delivered")
    /\ UNCHANGED <<control, evidenceVars, grantVars, targetCalls, clock>>

\* The event is bound to the request and to the gate, and its id is new.
NotifierReturns(r) ==
    /\ Returning(r, "notify")
    /\ \E id \in NotificationIds \ consumedNotices, delivered \in BOOLEAN :
         /\ Enforcing => delivered
         /\ consumedNotices' = consumedNotices \union {id}
         /\ notices' = [notices EXCEPT ![r] = @ \union {[gate |-> pos[r], id |-> id]}]
         /\ Pass(r, pos[r], IF delivered THEN "passed" ELSE "simulated")
    /\ UNCHANGED <<control, evidenceVars, grantVars, targetCalls, clock>>

\* It raised, or the event is misbound, reused or undelivered.
NotifierUnusable(r) ==
    /\ Returning(r, "notify")
    /\ Block(r, pos[r]) \/ Fail(r, pos[r])
    /\ UNCHANGED <<control, evidenceVars, noticeVars, grantVars, targetCalls, clock>>

\* Mutant of AskApproval: the pass goes on after the gate.
AskApprovalAndGoOn(r, g) ==
    /\ At(r, g) /\ Kind[g] = "approval"
    /\ Mark(r, g, "waiting")
    /\ Becomes(r, "waiting_for_approval")
    /\ Goto(r, "run", g)
    /\ UNCHANGED <<control, evidenceVars, noticeVars, grantVars, targetCalls, clock>>

AskApproval(r, g) ==
    /\ At(r, g) /\ Kind[g] = "approval"
    /\ Stop(r, g, "waiting", "waiting_for_approval")
    /\ UNCHANGED <<control, evidenceVars, noticeVars, grantVars, targetCalls, clock>>

-----------------------------------------------------------------------------
(* The execute gate.                                                       *)

PathEvidence(r) == {d \in evidence[r] : d.gate \in Approvals}
Stale(r) == \E d \in PathEvidence(r) : d.expires_at <= clock
AtExecute(r, g) == At(r, g) /\ Kind[g] = "execute"

BlockStale(r, g) ==
    /\ AtExecute(r, g)
    /\ Stale(r)
    /\ Block(r, g)
    /\ UNCHANGED <<control, evidenceVars, noticeVars, grantVars, targetCalls, clock>>

\* Version 2 needs an authority and a store, a live target its authority.
Simulated(r) ==
    Version = 1 /\ (SimulationOnly \/ r \in Rehearsals \/ ~ExecutionEnabled)

FailWithoutAuthority(r, g) ==
    /\ AtExecute(r, g)
    /\ ~Stale(r) /\ ~Simulated(r) /\ ~Authority
    /\ Fail(r, g)
    /\ UNCHANGED <<control, evidenceVars, noticeVars, grantVars, targetCalls, clock>>

Simulate(r, g) ==
    /\ AtExecute(r, g)
    /\ ~Stale(r) /\ Simulated(r)
    /\ Stop(r, g, "simulated", "simulated")
    /\ UNCHANGED <<control, evidenceVars, noticeVars, grantVars, targetCalls, clock>>

CallTarget(r, g) ==
    /\ AtExecute(r, g)
    /\ ~Stale(r) /\ ~Simulated(r) /\ Authority /\ Version = 1
    /\ Goto(r, "call", g)
    /\ targetCalls' = [targetCalls EXCEPT ![r] = @ + 1]
    /\ UNCHANGED <<requestVars, control, evidenceVars, noticeVars, grantVars, clock>>

TargetReturns(r) ==
    /\ Returning(r, "execute")
    /\ Stop(r, pos[r], "passed", "executed") \/ Fail(r, pos[r])
    /\ UNCHANGED <<control, evidenceVars, noticeVars, grantVars, targetCalls, clock>>

\* The clock is read again for issued_at once the approvals are found current.
ApprovalsCurrent(r, g) ==
    /\ AtExecute(r, g)
    /\ ~Stale(r) /\ Authority /\ Version = 2
    /\ Goto(r, "issue", g)
    /\ UNCHANGED <<requestVars, control, evidenceVars, noticeVars, grantVars,
                   targetCalls, clock>>

\* Mutant of Lifetimes: the authorization's own lifetime, uncapped.
OwnLifetime(r) == {clock + AuthorizationTtl}

\* The authorization's own lifetime, capped by every approval it rests on: the
\* earliest of these times.
Lifetimes(r) ==
    LET bounds == {clock + AuthorizationTtl} \union
                  {d.expires_at : d \in PathEvidence(r)}
    IN {t \in bounds : \A u \in bounds : t <= u}

Issuing(r) == Top(r) /\ mode[r] = "issue"

\* The authority refuses a token that does not expire after it is issued.
RecordIssued(r) ==
    /\ \E t \in Lifetimes(r) :
         /\ clock < t
         /\ expiresAt' = [expiresAt EXCEPT ![r] = t]
    /\ issuedAt' = [issuedAt EXCEPT ![r] = clock]
    /\ grant' = [grant EXCEPT ![r] = "issued"]

IssueAuthorization(r) ==
    /\ Issuing(r)
    /\ RecordIssued(r)
    /\ Stop(r, pos[r], "authorized", "authorized")
    /\ UNCHANGED <<control, evidenceVars, noticeVars, targetCalls, clock>>

\* issue or record_issued raises.  record_issued reads the row back after its
\* commit, so the row may be there although the request fails.
IssueFails(r) ==
    /\ Issuing(r)
    /\ RecordIssued(r) \/ UNCHANGED grantVars
    /\ Fail(r, pos[r])
    /\ UNCHANGED <<control, evidenceVars, noticeVars, targetCalls, clock>>

-----------------------------------------------------------------------------
(* ingest_trusted_approval: every check of the document, then the verifier *)
(* with the lock held, then the document is consumed.                      *)

Waiting(r) == state[r] = "waiting_for_approval"

\* Mutant of Acceptable: any assurance will do.
AcceptAnyAssurance(r, d) ==
    /\ d.id \notin consumedApprovals
    /\ d.request = r
    /\ status[r][d.gate] = "waiting"
    /\ clock < d.expires_at
    /\ d.expires_at <= clock + EffectiveTtl(control[r], d.gate)

Acceptable(r, d) ==
    /\ d.id \notin consumedApprovals
    /\ d.request = r
    /\ status[r][d.gate] = "waiting"
    /\ clock < d.expires_at
    /\ d.expires_at <= clock + EffectiveTtl(control[r], d.gate)
    /\ Rank[d.assurance] >= Rank[control[r]]

\* Mutant of IngestApproval: the request is processing before the verifier ran.
IngestBeforeVerified(r, d) ==
    /\ MayEnter
    /\ mode[r] \notin Callback
    /\ Waiting(r)
    /\ Acceptable(r, d)
    /\ Becomes(r, "processing")
    /\ Enter(r, "verify", d.gate)
    /\ offered' = [offered EXCEPT ![r] = {d}]
    /\ UNCHANGED <<status, control, evidence, consumedApprovals, noticeVars,
                   grantVars, targetCalls, clock>>

IngestApproval(r, d) ==
    /\ MayEnter
    /\ mode[r] \notin Callback
    /\ Waiting(r)
    /\ Acceptable(r, d)
    /\ Enter(r, "verify", d.gate)
    /\ offered' = [offered EXCEPT ![r] = {d}]
    /\ UNCHANGED <<requestVars, control, evidence, consumedApprovals, noticeVars,
                   grantVars, targetCalls, clock>>

Verifying(r) == Top(r) /\ mode[r] = "verify"

VerifierRejects(r) ==
    /\ Verifying(r)
    /\ Leave(r)
    /\ offered' = [offered EXCEPT ![r] = {}]
    /\ UNCHANGED <<requestVars, control, evidence, consumedApprovals, noticeVars,
                   grantVars, targetCalls, clock>>

\* Mutant of VerifierAccepts: the evidence id is not consumed.
AcceptWithoutConsuming(r) ==
    /\ Verifying(r)
    /\ evidence' = [evidence EXCEPT ![r] = @ \union offered[r]]
    /\ offered' = [offered EXCEPT ![r] = {}]
    /\ Mark(r, pos[r], "approved")
    /\ Becomes(r, "processing")
    /\ Goto(r, "run", 0)
    /\ UNCHANGED <<control, consumedApprovals, noticeVars, grantVars, targetCalls,
                   clock>>

VerifierAccepts(r) ==
    /\ Verifying(r)
    /\ consumedApprovals' = consumedApprovals \union {d.id : d \in offered[r]}
    /\ evidence' = [evidence EXCEPT ![r] = @ \union offered[r]]
    /\ offered' = [offered EXCEPT ![r] = {}]
    /\ Mark(r, pos[r], "approved")
    /\ Becomes(r, "processing")
    /\ Goto(r, "run", 0)
    /\ UNCHANGED <<control, noticeVars, grantVars, targetCalls, clock>>

-----------------------------------------------------------------------------
(* cancel_request.  An authorization is cancelled in the store first; the  *)
(* store refuses one that was taken or has been found expired.             *)

\* Mutants of CancelRequest: the store's refusal is swallowed; a callback may
\* cancel the request that made the call.
CancelAnyway(r) ==
    /\ MayEnter
    /\ mode[r] \notin Callback
    /\ state[r] \notin TERMINAL \union {"none"}
    /\ grant' = [grant EXCEPT ![r] = IF @ = "issued" THEN "cancelled" ELSE @]
    /\ Becomes(r, "cancelled")
    /\ UNCHANGED <<status, control, lockVars, evidenceVars, noticeVars, issuedAt,
                   expiresAt, targetCalls, clock>>

CancelDuringCallback(r) ==
    /\ MayEnter
    /\ state[r] \notin TERMINAL \union {"none"}
    /\ \/ state[r] # "authorized" /\ UNCHANGED grant
       \/ /\ state[r] = "authorized"
          /\ grant[r] \in {"issued", "cancelled"}
          /\ grant' = [grant EXCEPT ![r] = "cancelled"]
    /\ Becomes(r, "cancelled")
    /\ UNCHANGED <<status, control, lockVars, evidenceVars, noticeVars, issuedAt,
                   expiresAt, targetCalls, clock>>

CancelRequest(r) ==
    /\ MayEnter
    /\ mode[r] \notin Callback
    /\ state[r] \notin TERMINAL \union {"none"}
    /\ \/ state[r] # "authorized" /\ UNCHANGED grant
       \/ /\ state[r] = "authorized"
          /\ grant[r] \in {"issued", "cancelled"}
          /\ grant' = [grant EXCEPT ![r] = "cancelled"]
    /\ Becomes(r, "cancelled")
    /\ UNCHANGED <<status, control, lockVars, evidenceVars, noticeVars, issuedAt,
                   expiresAt, targetCalls, clock>>

\* The store's UPDATE is done when its projection raises: the row is cancelled
\* and the caller is told that it could not be.
CancelRaises(r) ==
    /\ MayEnter
    /\ mode[r] \notin Callback
    /\ state[r] = "authorized" /\ grant[r] = "issued"
    /\ grant' = [grant EXCEPT ![r] = "cancelled"]
    /\ UNCHANGED <<requestVars, control, lockVars, evidenceVars, noticeVars,
                   issuedAt, expiresAt, targetCalls, clock>>

-----------------------------------------------------------------------------
(* Other processes and the clock, at any moment.                           *)

\* A broker's begin_consumption; it compares the expiry with an older clock.
Take(r) ==
    /\ grant[r] = "issued"
    /\ grant' = [grant EXCEPT ![r] = "taken"]
    /\ UNCHANGED <<requestVars, control, lockVars, evidenceVars, noticeVars,
                   issuedAt, expiresAt, targetCalls, clock>>

FindExpired(r) ==
    /\ grant[r] = "issued" /\ expiresAt[r] <= clock
    /\ grant' = [grant EXCEPT ![r] = "expired"]
    /\ UNCHANGED <<requestVars, control, lockVars, evidenceVars, noticeVars,
                   issuedAt, expiresAt, targetCalls, clock>>

RevokeAllIssued ==
    /\ \E r \in Requests : grant[r] = "issued"
    /\ grant' = [r \in Requests |-> IF grant[r] = "issued" THEN "cancelled" ELSE grant[r]]
    /\ UNCHANGED <<requestVars, control, lockVars, evidenceVars, noticeVars,
                   issuedAt, expiresAt, targetCalls, clock>>

Tick ==
    /\ clock < MaxClock
    /\ clock' = clock + 1
    /\ UNCHANGED <<requestVars, control, lockVars, evidenceVars, noticeVars,
                   grantVars, targetCalls>>

-----------------------------------------------------------------------------
\* A callback that the host answers.
CallbackReturns(r) ==
    \/ ToolReturns(r)
    \/ NotifierReturns(r)
    \/ NotifierUnusable(r)
    \/ TargetReturns(r)
    \/ VerifierRejects(r)
    \/ VerifierAccepts(r)

\* The engine's own next step in the topmost activation.
Advance(r) ==
    \/ EndPass(r)
    \/ IssueAuthorization(r)
    \/ IssueFails(r)
    \/ \E g \in Gates :
         \/ PassSchema(r, g)
         \/ EvaluateCondition(r, g)
         \/ CallOut(r, g)
         \/ AskApproval(r, g)
         \/ BlockStale(r, g)
         \/ FailWithoutAuthority(r, g)
         \/ Simulate(r, g)
         \/ CallTarget(r, g)
         \/ ApprovalsCurrent(r, g)

Operation(r) ==
    \/ \E minimum \in Controls \union {"policy"} : RequestAction(r, minimum)
    \/ \E d \in Documents : IngestApproval(r, d)
    \/ CancelRequest(r)
    \/ CancelRaises(r)

Elsewhere(r) == Take(r) \/ FindExpired(r)

Next ==
    \/ \E r \in Requests :
         Operation(r) \/ Advance(r) \/ CallbackReturns(r) \/ Elsewhere(r)
    \/ RevokeAllIssued
    \/ Tick

Spec == Init /\ [][Next]_vars

\* The thread that holds the lock runs, and every callback returns in the end,
\* however often it calls the engine first.
FairSpec ==
    /\ Spec
    /\ \A r \in Requests : WF_vars(Advance(r)) /\ SF_vars(CallbackReturns(r))

-----------------------------------------------------------------------------
(* Properties.                                                             *)

\* A gate is not touched before everything it waits for, however indirectly,
\* is satisfied, whatever callbacks did in between: no step of _advance and no
\* nested operation lets a request skip a gate (engine.py, _advance).
GatesInOrder ==
    \A r \in Requests, g \in Gates :
        status[r][g] # "pending" =>
            \A h \in Ancestors[g] : status[r][h] \in SATISFIED

Released(r) ==
    \/ state[r] \in {"authorized", "simulated", "executed"}
    \/ grant[r] # "none"
    \/ targetCalls[r] > 0

\* What lets a request act was approved at every approval gate on the way, with
\* the assurance its requester or the policy asked for, after a notification,
\* and rechecked after each approval.
ReleaseHonoursPolicy ==
    \A r \in Requests : Released(r) =>
        /\ \A a \in Approvals : \E d \in evidence[r] :
              d.gate = a /\ d.request = r /\ Rank[d.assurance] >= Rank[control[r]]
        /\ \E n \in Ancestors[Execute] :
              Kind[n] = "notify" /\ status[r][n] \in {"passed", "simulated"}
        /\ ExecutionEnabled => \A a \in Approvals :
              \E t \in Rechecks \intersect Ancestors[Execute] :
                 a \in Ancestors[t] /\ status[r][t] = "passed"

\* An authorization has a lifetime, and outlives none of the approvals it
\* rests on, although time passes between the approvals, the check that they
\* are current and the issue.
AuthorizationWithinApprovals ==
    \A r \in Requests : grant[r] # "none" =>
        /\ issuedAt[r] < expiresAt[r]
        /\ \A d \in PathEvidence(r) : expiresAt[r] <= d.expires_at

\* One evidence id approves one gate of one request.  The id is looked up
\* before the verifier runs and recorded after it.
EvidenceSingleUse ==
    \A r, s \in Requests : \A d \in evidence[r], e \in evidence[s] :
        d.id = e.id => d = e /\ r = s

\* One notification id satisfies one gate of one request, although notifiers
\* may start other requests.
NoticeSingleUse ==
    \A r, s \in Requests : \A m \in notices[r], n \in notices[s] :
        m.id = n.id => m = n /\ r = s

\* Nothing happens to a request that has ended: no gate moves, no target is
\* called, no other state appears, even when it ends inside a callback.
TerminalFinal ==
    [][\A r \in Requests : state[r] \in TERMINAL =>
          <<state[r], status[r], targetCalls[r]>>' =
          <<state[r], status[r], targetCalls[r]>>]_vars

\* A request that reads cancelled has no authorization a broker took or could
\* still take.
CancelledNeverTaken ==
    \A r \in Requests : state[r] = "cancelled" => grant[r] \in {"none", "cancelled"}

\* The target is called at most once for a request, and the request then says
\* so: it cannot end as blocked, cancelled or simulated.
OutcomeReported ==
    \A r \in Requests :
        /\ targetCalls[r] <= 1
        /\ targetCalls[r] = 1 =>
              \/ state[r] \in {"executed", "failed"}
              \/ state[r] = "processing" /\ mode[r] = "call"

\* No operation leaves its request in processing for want of a gate to run
\* ("gate graph made no progress" is never raised), or because a callback was
\* rejected, raised or called back.  What does leave it there, for only
\* cancel_request to end, is a gate that blocks on a read result it cannot
\* keep as evidence (engine.py, _block).
NoneAbandoned ==
    \A r \in Requests : state[r] = "processing" /\ mode[r] = "idle" =>
        \E g \in Gates : Kind[g] \in {"tool", "condition"} /\ status[r][g] = "blocked"

\* A request stops at one gate, and its state says how: a request that waits
\* has the single waiting gate that ingest_trusted_approval looks for, one
\* that ended early the single gate it ended at, and one that was released
\* has left no gate behind that stopped it.
StoppedAt(r) == {g \in Gates : status[r][g] \in {"waiting", "blocked", "failed"}}

OneGateStops ==
    \A r \in Requests :
        /\ Waiting(r) =>
              \E g \in Gates : StoppedAt(r) = {g} /\ status[r][g] = "waiting"
        /\ state[r] \in {"blocked", "failed"} =>
              \E g \in Gates : StoppedAt(r) = {g} /\ status[r][g] = state[r]
        /\ state[r] \in {"authorized", "simulated", "executed"} => StoppedAt(r) = {}

\* The engine's lock is free again and again: no activation runs forever.
LockReleased == stack # <<>> ~> stack = <<>>
=============================================================================
