---------------------- MODULE AuthorizationBrokerProofs ----------------------
(* Proofs about AuthorizationBroker, for every value of its constants.     *)
EXTENDS AuthorizationBroker, TLAPS

-----------------------------------------------------------------------------
(* Type correctness.                                                       *)

LEMMA PublicStateType == ASSUME NEW s \in RowStates PROVE PublicState(s) \in PublicStates
  BY DEF RowStates, PublicStates, PublicState

LEMMA TypeInit == Init => TypeOK
  <1> USE StoreAssumption, BrokerAssumption
  <1> SUFFICES ASSUME Init PROVE TypeOK
    OBVIOUS
  <1>1. StoreTypeOK
    BY DEF Init, StoreInit, StoreTypeOK, RequestStates
  <1>2. (CHOOSE a \in Auths : TRUE) \in Auths
    OBVIOUS
  <1>3. QED
    BY <1>1, <1>2 DEF Init, TypeOK, Steps

\* A projection inside a transaction leaves both snapshots well typed.
LEMMA ProjectAllType ==
  ASSUME StoreTypeOK, NEW S \in SUBSET Auths, NEW s \in RowStates, ProjectAll(S, s)
  PROVE  /\ snapshot' \in [Auths -> PublicStates \union {"none"}]
         /\ request' \in [Auths -> RequestStates \union {"absent"}]
  BY PublicStateType DEF StoreTypeOK, ProjectAll, RequestStates

LEMMA TransitionType ==
  ASSUME StoreTypeOK, NEW c \in Clients, NEW a \in Auths,
         NEW from, NEW to \in RowStates, Transition(c, a, from, to)
  PROVE  StoreTypeOK'
  BY DEF StoreTypeOK, Transition, PendingWrites

LEMMA WriteType ==
  ASSUME StoreTypeOK, NEW c \in Clients,
         WriteSnapshot(c) \/ WriteRequest(c) \/ AbandonWrite(c)
  PROVE  StoreTypeOK'
  <1> DEFINE w == pend[c]
  <1>1. CASE WriteSnapshot(c)
    <2>1. w \in PendingWrites
      BY <1>1 DEF StoreTypeOK, WriteSnapshot, NoWrite
    <2>2. [w EXCEPT !.step = "request"] \in PendingWrites
      BY <2>1 DEF PendingWrites
    <2>3. PublicState(w.state) \in PublicStates /\ w.auth \in Auths
      BY <2>1, PublicStateType DEF PendingWrites
    <2>4. pend' \in [Clients -> PendingWrites \union {NoWrite}]
      BY <1>1, <2>2 DEF StoreTypeOK, WriteSnapshot
    <2>5. snapshot' \in [Auths -> PublicStates \union {"none"}]
      BY <1>1, <2>3 DEF StoreTypeOK, WriteSnapshot
    <2>6. QED
      BY <1>1, <2>4, <2>5 DEF StoreTypeOK, WriteSnapshot
  <1>2. CASE WriteRequest(c)
    <2>1. w \in PendingWrites
      BY <1>2 DEF StoreTypeOK, WriteRequest, NoWrite
    <2>2. PublicState(w.state) \in PublicStates /\ w.auth \in Auths
      BY <2>1, PublicStateType DEF PendingWrites
    <2>3. QED
      BY <1>2, <2>2 DEF StoreTypeOK, WriteRequest, RequestStates
  <1>3. CASE AbandonWrite(c)
    BY <1>3 DEF StoreTypeOK, AbandonWrite
  <1>4. QED
    BY <1>1, <1>2, <1>3

LEMMA StoreOperationType ==
  ASSUME StoreTypeOK, NEW c \in Clients, NEW a \in Auths,
         \/ RecordIssued(c, a)
         \/ RevokeAllIssued(c)
         \/ \E n \in Nat : Reserve(a, n) \/ ExpireUnconsumed(a, n)
  PROVE  StoreTypeOK'
  <1>1. CASE InsertIssued(a)
    BY <1>1 DEF InsertIssued, StoreTypeOK, RowStates, PublicStates, RequestStates
  <1>2. CASE ReplayIssued(a)
    <2>1. row[a] \in RowStates
      BY <1>2 DEF ReplayIssued, StoreTypeOK
    <2>2. QED
      BY <1>2, <2>1, ProjectAllType DEF ReplayIssued, StoreTypeOK
  <1>3. CASE RevokeAllIssued(c)
    <2> DEFINE revoked_ == {x \in Auths : row[x] = "issued"}
    <2>1. ProjectAll(revoked_, "cancelled")
      BY <1>3 DEF RevokeAllIssued
    <2>2. "cancelled" \in RowStates /\ revoked_ \in SUBSET Auths
      BY DEF RowStates
    <2>3. row' \in [Auths -> RowStates \union {"none"}]
      BY <1>3, <2>2 DEF RevokeAllIssued, StoreTypeOK
    <2>4. QED
      BY <1>3, <2>1, <2>2, <2>3, ProjectAllType DEF RevokeAllIssued, StoreTypeOK
  <1>4. CASE \E n \in Nat : Reserve(a, n)
    BY <1>4, ProjectAllType DEF Reserve, StoreTypeOK, RowStates
  <1>5. CASE \E n \in Nat : ExpireUnconsumed(a, n)
    BY <1>5, ProjectAllType DEF ExpireUnconsumed, StoreTypeOK, RowStates
  <1>6. QED
    BY <1>1, <1>2, <1>3, <1>4, <1>5 DEF RecordIssued

\* The store stays well typed whichever operation a step runs.
LEMMA StoreTypeStep == ASSUME TypeOK, [Next]_vars PROVE StoreTypeOK'
  <1> USE BrokerAssumption
  <1> USE DEF TypeOK
  <1>0. {"failed", "simulated", "executed", "unknown", "cancelled"} \subseteq RowStates
    BY DEF RowStates
  <1>1. CASE UNCHANGED storeVars
    BY <1>1 DEF storeVars, StoreTypeOK
  <1>2. ASSUME NEW b \in Brokers, BeginConsumption(b) PROVE StoreTypeOK'
    BY <1>2, StoreOperationType DEF BeginConsumption
  <1>3. ASSUME NEW b \in Brokers,
               FailPreDispatch(b) \/ Simulate(b) \/ CompleteExecuted(b) \/ MarkOutcomeUnknown(b)
        PROVE  StoreTypeOK'
    BY <1>0, <1>1, <1>3, TransitionType
       DEF FailPreDispatch, Simulate, CompleteExecuted, MarkOutcomeUnknown, Complete, MarkUnknown
  <1>4. ASSUME NEW b \in Brokers, Settle(b) \/ ProjectionFails(b) \/ Crash(b) PROVE StoreTypeOK'
    BY <1>4, WriteType DEF Settle, ProjectionFails, Crash
  <1>5. ASSUME NEW c \in Admins, AdminStep(c) PROVE StoreTypeOK'
    <2>1. ASSUME NEW a \in Auths, Issue(c, a) PROVE StoreTypeOK'
      BY <2>1, StoreOperationType DEF Issue
    <2>2. ASSUME NEW a \in Auths,
                 CancelAuthorization(c, a) \/ Recover(c, a) \/ ReconcileOutcome(c, a)
          PROVE  StoreTypeOK'
      BY <1>0, <2>2, TransitionType
         DEF CancelAuthorization, Cancel, Recover, RecoverInterrupted, ReconcileOutcome, Reconcile
    <2>3. CASE RevokeIssued(c)
      BY <2>3, StoreAssumption, StoreOperationType DEF RevokeIssued
    <2>4. CASE AdminProjects(c) \/ AdminDies(c)
      BY <2>4, WriteType DEF AdminProjects, AdminDies
    <2>5. ASSUME NEW a \in Auths, CoordinatorRecords(a) PROVE StoreTypeOK'
      BY <2>5 DEF CoordinatorRecords, StoreTypeOK
    <2>6. QED
      BY <1>5, <2>1, <2>2, <2>3, <2>4, <2>5 DEF AdminStep
  <1>6. ASSUME NEW b \in Brokers, NEW a \in Auths, Fetch(b, a) PROVE StoreTypeOK'
    BY <1>1, <1>6 DEF Fetch
  <1>7. ASSUME NEW b \in Brokers, BrokerStep(b) \/ BrokerFault(b) PROVE StoreTypeOK'
    BY <1>1, <1>2, <1>3, <1>4, <1>7
       DEF BrokerStep, BrokerFault, VerifyFirst, AskFirst, Refuse, Stamp, BeginFails, Recheck,
           VerifySecond, AskSecond, Dispatch, TargetAnswers, WriteFails
  <1>8. CASE Tick \/ \E a \in Auths : Revoke(a)
    BY <1>1, <1>8 DEF Tick, Revoke
  <1>9. CASE UNCHANGED vars
    BY <1>1, <1>9 DEF vars
  <1>10. QED
    BY <1>5, <1>6, <1>7, <1>8, <1>9 DEF Next

LEMMA ProcessTypeStep ==
  ASSUME TypeOK, [Next]_vars
  PROVE  /\ pc' \in [Brokers -> Steps]
         /\ job' \in [Brokers -> Auths]
         /\ now' \in [Brokers -> Nat]
         /\ live' \subseteq Auths
         /\ clock' \in Nat
         /\ revoked' \subseteq Auths
         /\ calls' \in [Auths -> Nat]
         /\ effect' \in [Auths -> BOOLEAN]
         /\ barred' \subseteq Auths
         /\ orphaned' \subseteq Auths
  <1> DEFINE Typed == /\ pc' \in [Brokers -> Steps]
                      /\ job' \in [Brokers -> Auths]
                      /\ now' \in [Brokers -> Nat]
                      /\ live' \subseteq Auths
                      /\ clock' \in Nat
                      /\ revoked' \subseteq Auths
                      /\ calls' \in [Auths -> Nat]
                      /\ effect' \in [Auths -> BOOLEAN]
                      /\ barred' \subseteq Auths
                      /\ orphaned' \subseteq Auths
  <1> SUFFICES Typed
    OBVIOUS
  <1> USE DEF TypeOK, Steps, Working, brokerVars, worldVars, effectVars, historyVars
  <1>1. ASSUME NEW b \in Brokers, NEW a \in Auths, Fetch(b, a) PROVE Typed
    BY <1>1 DEF Fetch, Goto
  <1>2. ASSUME NEW b \in Brokers, BrokerStep(b) PROVE Typed
    <2>1. CASE \/ VerifyFirst(b) \/ AskFirst(b) \/ Refuse(b) \/ Stamp(b)
               \/ BeginConsumption(b) \/ BeginFails(b)
      BY <2>1 DEF VerifyFirst, AskFirst, Refuse, Stamp, BeginConsumption, BeginFails, Goto
    <2>2. CASE Recheck(b) \/ VerifySecond(b) \/ AskSecond(b) \/ FailPreDispatch(b) \/ Simulate(b)
      BY <2>2 DEF Recheck, VerifySecond, AskSecond, FailPreDispatch, Simulate, Goto
    <2>3. CASE Dispatch(b)
      BY <2>3 DEF Dispatch, Goto
    <2>4. CASE TargetAnswers(b) \/ CompleteExecuted(b) \/ MarkOutcomeUnknown(b) \/ Settle(b)
      BY <2>4 DEF TargetAnswers, CompleteExecuted, MarkOutcomeUnknown, Settle, Goto
    <2>5. QED
      BY <1>2, <2>1, <2>2, <2>3, <2>4 DEF BrokerStep
  <1>3. ASSUME NEW b \in Brokers, BrokerFault(b) PROVE Typed
    BY <1>3 DEF BrokerFault, WriteFails, ProjectionFails, Crash, Goto, Orphan
  <1>4. ASSUME NEW c \in Admins, AdminStep(c) PROVE Typed
    <2>1. CASE AdminDies(c)
      <3>1. pend[c] \in PendingWrites
        BY <2>1, BrokerAssumption DEF AdminDies, Free, StoreTypeOK
      <3>2. QED
        BY <2>1, <3>1 DEF AdminDies, PendingWrites
    <2>2. QED
      BY <1>4, <2>1
         DEF AdminStep, Issue, CancelAuthorization, Recover, ReconcileOutcome, CoordinatorRecords, RevokeIssued,
             AdminProjects
  <1>5. CASE \E a \in Auths : Revoke(a)
    BY <1>5 DEF Revoke
  <1>6. CASE Tick
    BY <1>6 DEF Tick
  <1>7. CASE UNCHANGED vars
    BY <1>7 DEF vars
  <1>8. QED
    BY <1>1, <1>2, <1>3, <1>4, <1>5, <1>6, <1>7 DEF Next

\* Every reachable state is well typed.
THEOREM TypeCorrect == Spec => []TypeOK
  <1>1. Init => TypeOK
    BY TypeInit
  <1>2. TypeOK /\ [Next]_vars => TypeOK'
    BY StoreTypeStep, ProcessTypeStep DEF TypeOK
  <1>3. QED
    BY <1>1, <1>2, PTL DEF Spec

-----------------------------------------------------------------------------
(* One attempt, one call.  A call is made by a broker that is inside the   *)
(* attempt, and a row that can still be reserved has no broker inside; the *)
(* invariant says so, and that no two brokers are inside the same attempt. *)

Untouched == {"none", "issued", "cancelled", "expired"}

\* Inside an attempt: from the reservation to the end of the projection.
Engaged(b) == pc[b] \in Working \union {"settled"}

\* A settled broker still owes the projection of its own record.
OwesProjection(b) == pend[b] \in PendingWrites /\ pend[b].auth = job[b]

AttemptInv ==
    /\ \A a \in Auths : row[a] \in Untouched => calls[a] = 0
    /\ \A b \in Brokers : Engaged(b) => row[job[b]] \notin Untouched
    /\ \A b, other \in Brokers :
         Engaged(b) /\ Engaged(other) /\ job[b] = job[other] => b = other
    /\ \A b \in Brokers :
         pc[b] \in {"rechecking", "rechecked", "reasking", "rejected", "cleared"} => calls[job[b]] = 0
    /\ \A b \in Brokers : pc[b] = "settled" => OwesProjection(b)
    /\ \A a \in Auths : a \notin live => calls[a] = 0
    /\ \A a \in Auths : row[a] = "simulated" => a \notin live
    /\ \A a \in Auths : calls[a] <= 1

LEMMA AttemptInit == Init => AttemptInv
  BY DEF Init, StoreInit, AttemptInv, Engaged, Working, OwesProjection, Untouched

\* Steps that change neither rows, calls nor a broker's place in its attempt.
LEMMA AttemptFrame ==
  ASSUME TypeOK, AttemptInv, UNCHANGED <<row, pend, pc, job, calls, live>>
  PROVE  AttemptInv'
  BY DEF AttemptInv, Engaged, OwesProjection

\* Steps of a broker outside or inside the attempt that write nothing.
LEMMA AttemptMove ==
  ASSUME TypeOK, AttemptInv, NEW b \in Brokers, NEW step \in Steps,
         Goto(b, step), UNCHANGED <<row, pend, job, calls, live>>,
         Engaged(b) \/ step \notin Working \union {"settled"},
         step # "settled",
         step \in {"rechecking", "rechecked", "reasking", "rejected", "cleared"} => calls[job[b]] = 0
  PROVE  AttemptInv'
  BY DEF AttemptInv, Engaged, OwesProjection, Goto, TypeOK

\* A settled attempt: the row leaves "executing" and the broker owes the
\* projection.
LEMMA AttemptSettles ==
  ASSUME TypeOK, AttemptInv, NEW b \in Brokers, Engaged(b),
         NEW to \in RowStates \ Untouched,
         Transition(b, job[b], "executing", to), Goto(b, "settled"),
         UNCHANGED <<job, calls, live>>,
         to = "simulated" => job[b] \notin live
  PROVE  AttemptInv'
  <1> USE BrokerAssumption
  <1>1. OwesProjection(b)'
    BY DEF OwesProjection, Transition, PendingWrites, TypeOK, StoreTypeOK
  <1>2. \A other \in Brokers \ {b} : OwesProjection(other)' <=> OwesProjection(other)
    BY DEF OwesProjection, Transition, TypeOK, StoreTypeOK
  <1>3. \A other \in Brokers : Engaged(other)' <=> Engaged(other)
    BY DEF Engaged, Goto, TypeOK
  <1>4. /\ \A a \in Auths : row'[a] = IF a = job[b] THEN to ELSE row[a]
        /\ \A other \in Brokers : pc'[other] = IF other = b THEN "settled" ELSE pc[other]
        /\ row[job[b]] = "executing"
    BY DEF Goto, Transition, TypeOK, StoreTypeOK
  <1>5. QED
    BY <1>1, <1>2, <1>3, <1>4 DEF AttemptInv, Untouched, TypeOK

\* Steps of the coordinator and of the operator's command line: no call, no
\* broker moves, and no row an attempt holds becomes untouched again.
LEMMA AttemptAdmin ==
  ASSUME TypeOK, AttemptInv, UNCHANGED <<pc, job, calls, live>>,
         \A b \in Brokers : pend'[b] = pend[b],
         \A a \in Auths : \/ row'[a] = row[a]
                          \/ row[a] \in Untouched /\ row'[a] \in Untouched
                          \/ row[a] \notin Untouched /\ row'[a] \notin Untouched \union {"simulated"}
  PROVE  AttemptInv'
  <1>1. \A b \in Brokers : (Engaged(b)' <=> Engaged(b)) /\ (OwesProjection(b)' <=> OwesProjection(b))
    BY DEF Engaged, OwesProjection
  <1>2. QED
    BY <1>1 DEF AttemptInv, Untouched, TypeOK

LEMMA AttemptReserve ==
  ASSUME TypeOK, AttemptInv, NEW b \in Brokers, BeginConsumption(b)
  PROVE  AttemptInv'
  <1> USE DEF TypeOK, StoreTypeOK
  <1>1. CASE Reserve(job[b], now[b]) /\ Goto(b, "rechecking")
    <2>1. row[job[b]] \in Untouched /\ calls[job[b]] = 0
      BY <1>1 DEF Reserve, Untouched, AttemptInv
    <2>2. \A other \in Brokers : Engaged(other)' <=> (other = b \/ Engaged(other))
      BY <1>1 DEF Engaged, Working, Goto
    <2>3. \A other \in Brokers : Engaged(other) => job[other] # job[b]
      BY <2>1 DEF AttemptInv
    <2>4. /\ \A a \in Auths : row'[a] = IF a = job[b] THEN "executing" ELSE row[a]
          /\ \A other \in Brokers : pc'[other] = IF other = b THEN "rechecking" ELSE pc[other]
          /\ UNCHANGED <<job, pend, calls, live>>
      BY <1>1 DEF Reserve, Goto, BeginConsumption, effectVars, worldVars
    <2>5. QED
      BY <2>1, <2>2, <2>3, <2>4 DEF AttemptInv, OwesProjection, Untouched
  <1>2. CASE ExpireUnconsumed(job[b], now[b]) /\ Goto(b, "idle")
    <2>1. pc[b] = "stamped"
      BY DEF BeginConsumption
    <2>2. \A other \in Brokers : Engaged(other)' <=> Engaged(other)
      BY <1>2, <2>1 DEF Engaged, Working, Goto
    <2>3. /\ \A a \in Auths : row'[a] = IF a = job[b] THEN "expired" ELSE row[a]
          /\ \A other \in Brokers : pc'[other] = IF other = b THEN "idle" ELSE pc[other]
          /\ UNCHANGED <<job, pend, calls, live>>
          /\ row[job[b]] = "issued"
      BY <1>2 DEF ExpireUnconsumed, Goto, BeginConsumption, effectVars, worldVars
    <2>4. QED
      BY <2>2, <2>3 DEF AttemptInv, OwesProjection, Untouched
  <1>3. QED
    BY <1>1, <1>2 DEF BeginConsumption

LEMMA AttemptDispatch ==
  ASSUME TypeOK, AttemptInv, NEW b \in Brokers, Dispatch(b)
  PROVE  AttemptInv'
  <1> USE DEF TypeOK
  <1>1. /\ pc[b] = "cleared"
        /\ Engaged(b)
        /\ job[b] \in live
        /\ calls[job[b]] = 0
    BY DEF Dispatch, AttemptInv, Engaged, Working
  <1>2. \A other \in Brokers : Engaged(other)' <=> Engaged(other)
    BY <1>1 DEF Dispatch, Engaged, Working, Goto
  <1>3. /\ \A a \in Auths : calls'[a] = IF a = job[b] THEN 1 ELSE calls[a]
        /\ \A other \in Brokers : pc'[other] = IF other = b THEN "dispatched" ELSE pc[other]
        /\ UNCHANGED <<row, job, pend, live>>
    BY <1>1 DEF Dispatch, Goto, storeVars, worldVars
  <1>4. \A other \in Brokers : Engaged(other) /\ job[other] = job[b] => other = b
    BY <1>1 DEF AttemptInv
  <1>5. \A other \in Brokers :
          pc[other] \in {"rechecking", "rechecked", "reasking", "rejected", "cleared"} => Engaged(other)
    BY DEF Engaged, Working
  <1>6. QED
    BY <1>1, <1>2, <1>3, <1>4, <1>5 DEF AttemptInv, OwesProjection

LEMMA AttemptBrokerStep ==
  ASSUME TypeOK, AttemptInv, NEW b \in Brokers, BrokerStep(b)
  PROVE  AttemptInv'
  <1> USE BrokerAssumption DEF Steps, Working
  <1>1. CASE VerifyFirst(b) \/ AskFirst(b) \/ Refuse(b) \/ Stamp(b) \/ BeginFails(b)
    BY <1>1, AttemptMove
       DEF VerifyFirst, AskFirst, Refuse, Stamp, BeginFails, storeVars, effectVars, worldVars
  <1>2. CASE BeginConsumption(b)
    BY <1>2, AttemptReserve
  <1>3. CASE Recheck(b) \/ VerifySecond(b) \/ AskSecond(b)
    <2>1. Engaged(b) /\ calls[job[b]] = 0
      BY <1>3 DEF Recheck, VerifySecond, AskSecond, Engaged, AttemptInv
    <2>2. QED
      BY <1>3, <2>1, AttemptMove DEF Recheck, VerifySecond, AskSecond, storeVars, effectVars, worldVars
  <1>4. CASE FailPreDispatch(b) \/ Simulate(b) \/ CompleteExecuted(b) \/ MarkOutcomeUnknown(b)
    <2>1. Engaged(b) /\ UNCHANGED <<job, calls, live>>
      BY <1>4 DEF FailPreDispatch, Simulate, CompleteExecuted, MarkOutcomeUnknown, Engaged,
                  effectVars, worldVars
    <2>2. CASE UNCHANGED storeVars /\ (Goto(b, "idle") \/ Goto(b, "raised"))
      BY <2>1, <2>2, AttemptMove DEF storeVars
    <2>3. CASE \E to \in RowStates \ Untouched :
                 /\ Transition(b, job[b], "executing", to)
                 /\ Goto(b, "settled")
                 /\ to = "simulated" => job[b] \notin live
      BY <2>1, <2>3, AttemptSettles
    <2>4. QED
      BY <1>4, <2>2, <2>3
         DEF FailPreDispatch, Simulate, CompleteExecuted, MarkOutcomeUnknown, Complete,
             MarkUnknown, RowStates, Untouched
  <1>5. CASE Dispatch(b)
    BY <1>5, AttemptDispatch
  <1>6. CASE TargetAnswers(b)
    BY <1>6, AttemptMove DEF TargetAnswers, Engaged, storeVars, effectVars, worldVars
  <1>7. CASE Settle(b)
    <2>1. OwesProjection(b)
      BY <1>7 DEF Settle, AttemptInv
    <2>2. /\ \A other \in Brokers : other # b => pend'[other] = pend[other]
          /\ UNCHANGED <<row, job, calls, live>>
      BY <1>7 DEF Settle, WriteSnapshot, WriteRequest, TypeOK, StoreTypeOK, effectVars, worldVars
    <2>3. CASE pend'[b] = NoWrite /\ Goto(b, "idle")
      BY <1>7, <2>2, <2>3 DEF Settle, AttemptInv, Engaged, OwesProjection, Goto, TypeOK
    <2>4. CASE pend'[b] # NoWrite /\ UNCHANGED pc
      <3>1. pend'[b] = [pend[b] EXCEPT !.step = "request"]
        BY <1>7, <2>4 DEF Settle, WriteSnapshot, WriteRequest, TypeOK, StoreTypeOK
      <3>2. OwesProjection(b)'
        BY <2>1, <2>2, <3>1 DEF OwesProjection, PendingWrites
      <3>3. QED
        BY <2>2, <2>4, <3>2 DEF AttemptInv, Engaged, OwesProjection
    <2>5. QED
      BY <1>7, <2>3, <2>4 DEF Settle
  <1>8. QED
    BY <1>1, <1>2, <1>3, <1>4, <1>5, <1>6, <1>7 DEF BrokerStep

\* Failures let a broker out of its attempt, or leave it in the handler that
\* makes no call.
LEMMA AttemptFault ==
  ASSUME TypeOK, AttemptInv, NEW b \in Brokers, BrokerFault(b)
  PROVE  AttemptInv'
  <1> USE BrokerAssumption DEF Steps, Working
  <1>1. CASE WriteFails(b)
    BY <1>1, AttemptMove DEF WriteFails, Engaged, storeVars, effectVars, worldVars
  <1>2. CASE ProjectionFails(b) \/ Crash(b)
    <2>1. /\ \A other \in Brokers : other # b => pend'[other] = pend[other]
          /\ UNCHANGED <<row, job, calls, live>>
          /\ Engaged(b)' => Engaged(b) /\ pc'[b] = "raised"
          /\ \A other \in Brokers : other # b => pc'[other] = pc[other]
          /\ pc'[b] \in {"idle", "raised"}
      BY <1>2
         DEF ProjectionFails, Crash, AbandonWrite, Goto, Engaged, TypeOK, StoreTypeOK, effectVars, worldVars
    <2>2. QED
      BY <2>1 DEF AttemptInv, Engaged, OwesProjection
  <1>3. QED
    BY <1>1, <1>2 DEF BrokerFault

LEMMA AttemptAdminStep ==
  ASSUME TypeOK, AttemptInv, NEW c \in Admins, AdminStep(c)
  PROVE  AttemptInv'
  <1> USE BrokerAssumption DEF TypeOK, StoreTypeOK, brokerVars, effectVars
  <1>1. UNCHANGED <<pc, job, calls, live>>
    BY DEF AdminStep, Issue, CancelAuthorization, Recover, ReconcileOutcome,
           CoordinatorRecords, RevokeIssued, AdminProjects, AdminDies, worldVars
  <1>2. ASSUME NEW b \in Brokers PROVE pend'[b] = pend[b]
    BY DEF AdminStep, Issue, RecordIssued, InsertIssued, ReplayIssued, CancelAuthorization,
           Cancel, Recover, RecoverInterrupted, ReconcileOutcome, Reconcile, Transition,
           RevokeIssued, RevokeAllIssued, AdminProjects, WriteSnapshot, WriteRequest,
           AdminDies, AbandonWrite, CoordinatorRecords
  <1>3. ASSUME NEW a \in Auths
        PROVE  \/ row'[a] = row[a]
               \/ row[a] \in Untouched /\ row'[a] \in Untouched
               \/ row[a] \notin Untouched /\ row'[a] \notin Untouched \union {"simulated"}
    <2>1. CASE \E x \in Auths : Issue(c, x)
      BY <2>1 DEF Issue, RecordIssued, InsertIssued, ReplayIssued, Untouched
    <2>2. CASE \E x \in Auths : CancelAuthorization(c, x)
      BY <2>2 DEF CancelAuthorization, Cancel, Transition, Untouched
    <2>3. CASE \E x \in Auths : Recover(c, x) \/ ReconcileOutcome(c, x)
      BY <2>3 DEF Recover, RecoverInterrupted, ReconcileOutcome, Reconcile, Transition, Untouched
    <2>4. CASE RevokeIssued(c)
      BY <2>4 DEF RevokeIssued, RevokeAllIssued, Untouched
    <2>5. CASE AdminProjects(c) \/ AdminDies(c) \/ \E x \in Auths : CoordinatorRecords(x)
      BY <2>5 DEF AdminProjects, WriteSnapshot, WriteRequest, AdminDies, AbandonWrite, CoordinatorRecords
    <2>6. QED
      BY <2>1, <2>2, <2>3, <2>4, <2>5 DEF AdminStep
  <1>4. QED
    BY <1>1, <1>2, <1>3, AttemptAdmin

LEMMA AttemptStep == TypeOK /\ AttemptInv /\ [Next]_vars => AttemptInv'
  <1> SUFFICES ASSUME TypeOK, AttemptInv, [Next]_vars PROVE AttemptInv'
    OBVIOUS
  <1>1. ASSUME NEW b \in Brokers, NEW a \in Auths, Fetch(b, a) PROVE AttemptInv'
    BY <1>1 DEF Fetch, Goto, AttemptInv, Engaged, Working, OwesProjection, TypeOK, storeVars,
                effectVars, worldVars
  <1>2. ASSUME NEW a \in Auths, Revoke(a) PROVE AttemptInv'
    BY <1>2, AttemptFrame DEF Revoke, storeVars, brokerVars, effectVars
  <1>3. CASE Tick
    BY <1>3, AttemptFrame DEF Tick, storeVars, brokerVars, effectVars
  <1>4. CASE UNCHANGED vars
    BY <1>4, AttemptFrame DEF vars, storeVars, brokerVars, effectVars, worldVars
  <1>5. QED
    BY <1>1, <1>2, <1>3, <1>4, AttemptBrokerStep, AttemptFault, AttemptAdminStep DEF Next

\* The attempt invariant holds whatever operators confirm.
THEOREM AttemptInvariant == Spec => [](TypeOK /\ AttemptInv)
  <1>1. Init => TypeOK /\ AttemptInv
    BY TypeInit, AttemptInit
  <1>2. TypeOK /\ AttemptInv /\ [Next]_vars => (TypeOK /\ AttemptInv)'
    BY AttemptStep, StoreTypeStep, ProcessTypeStep DEF TypeOK
  <1>3. QED
    BY <1>1, <1>2, PTL DEF Spec

\* At most one call per authorization: consume_id's single attempt.
THEOREM SingleCallHolds == Spec => []SingleCall
  <1>1. AttemptInv => SingleCall
    BY DEF AttemptInv, SingleCall
  <1>2. QED
    BY <1>1, AttemptInvariant, PTL

\* An authorization that shows as cancelled, expired or simulated was not and
\* will not be used.
THEOREM WithdrawnNeverCalledHolds == Spec => []WithdrawnNeverCalled
  <1>1. AttemptInv => WithdrawnNeverCalled
    BY DEF AttemptInv, WithdrawnNeverCalled, Untouched
  <1>2. QED
    BY <1>1, AttemptInvariant, PTL

-----------------------------------------------------------------------------
(* What is revoked or expires before its last check stays uncalled.       *)

BarredInv ==
    \A a \in barred : \/ a \in revoked /\ Uncleared(a)
                      \/ clock >= ExpiresAt[a] /\ Untimed(a)

\* A barred authorization stays so: the clock and the revocations only grow,
\* no call is made for it, and no broker passes for it the check it is barred
\* from.
LEMMA BarredStep == TypeOK /\ BarredInv /\ [Next]_vars => BarredInv'
  <1> SUFFICES ASSUME TypeOK, BarredInv, [Next]_vars PROVE BarredInv'
    OBVIOUS
  <1> USE DEF TypeOK, BarredInv, Uncleared, Untimed, brokerVars, worldVars, effectVars, historyVars
  <1>1. ASSUME NEW b \in Brokers, NEW a \in Auths, Fetch(b, a) PROVE BarredInv'
    BY <1>1 DEF Fetch, Goto
  <1>2. ASSUME NEW b \in Brokers, BrokerStep(b) PROVE BarredInv'
    <2>1. CASE \/ VerifyFirst(b) \/ AskFirst(b) \/ Refuse(b) \/ Stamp(b)
               \/ BeginConsumption(b) \/ BeginFails(b)
      BY <2>1 DEF VerifyFirst, AskFirst, Refuse, Stamp, BeginConsumption, BeginFails, Goto
    <2>2. CASE Recheck(b) \/ FailPreDispatch(b) \/ Simulate(b)
      BY <2>2 DEF Recheck, FailPreDispatch, Simulate, Goto
    <2>3. CASE VerifySecond(b)
      <3>1. clock >= ExpiresAt[job[b]] => ~Timely(job[b])
        <4>1. job[b] \in Auths /\ ExpiresAt[job[b]] \in Nat /\ clock \in Nat
          BY StoreAssumption
        <4>2. QED
          BY <4>1 DEF Timely
      <3>2. QED
        BY <2>3, <3>1 DEF VerifySecond, Goto
    <2>4. CASE AskSecond(b)
      BY <2>4 DEF AskSecond, Goto
    <2>5. CASE Dispatch(b)
      BY <2>5 DEF Dispatch, Goto
    <2>6. CASE TargetAnswers(b) \/ CompleteExecuted(b) \/ MarkOutcomeUnknown(b) \/ Settle(b)
      BY <2>6 DEF TargetAnswers, CompleteExecuted, MarkOutcomeUnknown, Settle, Goto
    <2>7. QED
      BY <1>2, <2>1, <2>2, <2>3, <2>4, <2>5, <2>6 DEF BrokerStep
  <1>3. ASSUME NEW b \in Brokers, BrokerFault(b) PROVE BarredInv'
    BY <1>3 DEF BrokerFault, WriteFails, ProjectionFails, Crash, Goto
  <1>4. ASSUME NEW c \in Admins, AdminStep(c) PROVE BarredInv'
    BY <1>4 DEF AdminStep, Issue, CancelAuthorization, Recover, ReconcileOutcome,
                CoordinatorRecords, RevokeIssued, AdminProjects, AdminDies
  <1>5. ASSUME NEW a \in Auths, Revoke(a) PROVE BarredInv'
    BY <1>5 DEF Revoke
  <1>6. CASE Tick
    <2>1. \A a \in Auths : ExpiresAt[a] \in Nat
      BY StoreAssumption
    <2>2. QED
      BY <1>6, <2>1 DEF Tick
  <1>7. CASE UNCHANGED vars
    BY <1>7 DEF vars
  <1>8. QED
    BY <1>1, <1>2, <1>3, <1>4, <1>5, <1>6, <1>7 DEF Next

\* Revoked before the second revocation check answered, or expired before the
\* second verification read the clock: never dispatched.
THEOREM BarredNeverCalledHolds == Spec => []BarredNeverCalled
  <1>1. Init => BarredInv
    BY DEF Init, BarredInv
  <1>2. BarredInv => BarredNeverCalled
    BY DEF BarredInv, BarredNeverCalled, Uncleared, Untimed
  <1>3. QED
    BY <1>1, <1>2, BarredStep, TypeCorrect, PTL DEF Spec

-----------------------------------------------------------------------------
(* Records tell the truth, with operators who confirm what they are asked. *)

TruthInv ==
    /\ \A a \in Auths : calls[a] = 0 => ~effect[a]
    /\ \A b \in Brokers :
         pc[b] \in Working =>
           \/ row[job[b]] = "executing"
           \/ pc[b] = "raised" /\ row[job[b]] = "executed"
    /\ \A b \in Brokers : pc[b] = "returned" => effect[job[b]]
    /\ \A b \in Brokers :
         pc[b] = "settled" /\ pend[b].state = "executed" => row[job[b]] = "executed"
    /\ TruthfulRecord

LEMMA TruthInit == Init => TruthInv
  BY DEF Init, StoreInit, TruthInv, TruthfulRecord, Working

\* A broker's step inside or outside its attempt that keeps the rows.
LEMMA TruthMove ==
  ASSUME TypeOK, TruthInv, NEW b \in Brokers, NEW step \in Steps,
         Goto(b, step), UNCHANGED <<row, pend, job, calls, effect>>,
         step # "settled",
         step \in Working => pc[b] \in Working /\ pc[b] # "raised",
         step = "returned" => effect[job[b]]
  PROVE  TruthInv'
  BY DEF TruthInv, TruthfulRecord, Working, Goto, TypeOK

\* The record is settled with an outcome the target agrees with.
LEMMA TruthSettles ==
  ASSUME TypeOK, AttemptInv, TruthInv, NEW b \in Brokers, pc[b] \in Working,
         NEW to \in {"failed", "simulated", "executed", "unknown"},
         Transition(b, job[b], "executing", to), Goto(b, "settled"),
         UNCHANGED <<job, calls, effect>>,
         to = "executed" => effect[job[b]],
         to \in {"failed", "simulated"} => ~effect[job[b]]
  PROVE  TruthInv'
  <1> USE BrokerAssumption DEF TypeOK, StoreTypeOK
  <1>1. /\ \A a \in Auths : row'[a] = IF a = job[b] THEN to ELSE row[a]
        /\ \A other \in Brokers : pc'[other] = IF other = b THEN "settled" ELSE pc[other]
        /\ row[job[b]] = "executing"
        /\ \A other \in Brokers : other # b => pend'[other] = pend[other]
        /\ pend'[b].state = to
    BY DEF Goto, Transition
  <1>2. \A other \in Brokers : pc[other] \in Working /\ job[other] = job[b] => other = b
    BY DEF AttemptInv, Engaged
  <1>3. QED
    BY <1>1, <1>2 DEF TruthInv, TruthfulRecord, Working

LEMMA TruthBrokerStep ==
  ASSUME TypeOK, AttemptInv, TruthInv, NEW b \in Brokers, BrokerStep(b)
  PROVE  TruthInv'
  <1> USE BrokerAssumption DEF Steps
  <1>1. CASE VerifyFirst(b) \/ AskFirst(b) \/ Refuse(b) \/ Stamp(b) \/ BeginFails(b)
    BY <1>1, TruthMove
       DEF VerifyFirst, AskFirst, Refuse, Stamp, BeginFails, storeVars, effectVars, Working
  <1>2. CASE BeginConsumption(b)
    <2>1. \/ row[job[b]] = "issued" /\ row'= [row EXCEPT ![job[b]] = "executing"]
             /\ Goto(b, "rechecking")
          \/ row[job[b]] = "issued" /\ row'= [row EXCEPT ![job[b]] = "expired"]
             /\ Goto(b, "idle")
      BY <1>2 DEF BeginConsumption, Reserve, ExpireUnconsumed
    <2>2. UNCHANGED <<pend, job, calls, effect>>
      BY <1>2 DEF BeginConsumption, Reserve, ExpireUnconsumed, effectVars
    <2>3. QED
      BY <2>1, <2>2 DEF TruthInv, TruthfulRecord, Working, Goto, TypeOK, StoreTypeOK
  <1>3. CASE Recheck(b) \/ VerifySecond(b) \/ AskSecond(b)
    BY <1>3, TruthMove DEF Recheck, VerifySecond, AskSecond, storeVars, effectVars, Working
  <1>4. CASE FailPreDispatch(b) \/ Simulate(b)
    <2>1. pc[b] \in Working /\ ~effect[job[b]]
      BY <1>4 DEF FailPreDispatch, Simulate, Working, AttemptInv, TruthInv, TypeOK
    <2>2. CASE UNCHANGED storeVars /\ Goto(b, "idle")
      BY <1>4, <2>2, TruthMove DEF FailPreDispatch, Simulate, storeVars, effectVars, Working
    <2>3. CASE \E to \in {"failed", "simulated"} :
                 Transition(b, job[b], "executing", to) /\ Goto(b, "settled")
      BY <1>4, <2>1, <2>3, TruthSettles DEF FailPreDispatch, Simulate, effectVars
    <2>4. QED
      BY <1>4, <2>2, <2>3 DEF FailPreDispatch, Simulate, Complete
  <1>5. CASE Dispatch(b)
    <2>1. row[job[b]] = "executing"
      BY <1>5 DEF Dispatch, TruthInv, Working
    <2>2. /\ \A a \in Auths : a # job[b] => effect'[a] = effect[a] /\ calls'[a] = calls[a]
          /\ calls'[job[b]] = calls[job[b]] + 1
          /\ UNCHANGED <<row, pend, job>>
          /\ \A a \in Auths : effect[a] => effect'[a]
      BY <1>5 DEF Dispatch, storeVars, TypeOK
    <2>3. \A other \in Brokers : pc'[other] = IF other = b THEN "dispatched" ELSE pc[other]
      BY <1>5 DEF Dispatch, Goto, TypeOK
    <2>4. QED
      BY <2>1, <2>2, <2>3 DEF TruthInv, TruthfulRecord, Working, TypeOK
  <1>6. CASE TargetAnswers(b)
    BY <1>6, TruthMove DEF TargetAnswers, storeVars, effectVars, Working
  <1>7. CASE CompleteExecuted(b) \/ MarkOutcomeUnknown(b)
    <2>1. pc[b] \in Working /\ (pc[b] = "returned" => effect[job[b]])
      BY <1>7 DEF CompleteExecuted, MarkOutcomeUnknown, Working, TruthInv
    <2>2. CASE /\ UNCHANGED storeVars
               /\ Goto(b, "idle") \/ (pc[b] = "returned" /\ Goto(b, "raised"))
      BY <1>7, <2>2, TruthMove
         DEF CompleteExecuted, MarkOutcomeUnknown, storeVars, effectVars, Working
    <2>3. CASE \E to \in {"executed", "unknown"} :
                 /\ Transition(b, job[b], "executing", to)
                 /\ Goto(b, "settled")
                 /\ to = "executed" => pc[b] = "returned"
      BY <1>7, <2>1, <2>3, TruthSettles DEF CompleteExecuted, MarkOutcomeUnknown, effectVars
    <2>4. CASE CompleteExecuted(b)
      BY <2>2, <2>3, <2>4 DEF CompleteExecuted, Complete
    <2>5. CASE MarkOutcomeUnknown(b)
      BY <2>2, <2>3, <2>5 DEF MarkOutcomeUnknown, MarkUnknown
    <2>6. QED
      BY <1>7, <2>4, <2>5
  <1>8. CASE Settle(b)
    <2>1. /\ \A other \in Brokers : other # b => pend'[other] = pend[other]
          /\ UNCHANGED <<row, job, calls, effect>>
          /\ pend'[b] = NoWrite \/ pend'[b] = [pend[b] EXCEPT !.step = "request"]
      BY <1>8 DEF Settle, WriteSnapshot, WriteRequest, TypeOK, StoreTypeOK, effectVars
    <2>2. OwesProjection(b)
      BY <1>8 DEF Settle, AttemptInv
    <2>3. CASE pend'[b] = NoWrite /\ Goto(b, "idle")
      BY <1>8, <2>1, <2>3 DEF TruthInv, TruthfulRecord, Working, Goto, TypeOK
    <2>4. CASE pend'[b] # NoWrite /\ UNCHANGED pc
      <3>1. pend'[b].state = pend[b].state
        BY <2>1, <2>2, <2>4 DEF OwesProjection, PendingWrites
      <3>2. QED
        BY <2>1, <2>4, <3>1 DEF TruthInv, TruthfulRecord, Working
    <2>5. QED
      BY <1>8, <2>3, <2>4 DEF Settle
  <1>9. QED
    BY <1>1, <1>2, <1>3, <1>4, <1>5, <1>6, <1>7, <1>8 DEF BrokerStep

LEMMA TruthFault ==
  ASSUME TypeOK, AttemptInv, TruthInv, NEW b \in Brokers, BrokerFault(b)
  PROVE  TruthInv'
  <1> USE BrokerAssumption DEF Steps
  <1>1. CASE WriteFails(b)
    BY <1>1, TruthMove DEF WriteFails, storeVars, effectVars, Working
  <1>2. CASE ProjectionFails(b) \/ Crash(b)
    <2>1. /\ \A other \in Brokers : other # b => pend'[other] = pend[other] /\ pc'[other] = pc[other]
          /\ UNCHANGED <<row, job, calls, effect>>
          /\ \/ pc'[b] = "idle"
             \/ pc'[b] = "raised" /\ pc[b] = "settled" /\ pend[b].state = "executed"
      BY <1>2 DEF ProjectionFails, Crash, AbandonWrite, Goto, TypeOK, StoreTypeOK, effectVars
    <2>2. QED
      BY <2>1 DEF TruthInv, TruthfulRecord, Working
  <1>3. QED
    BY <1>1, <1>2 DEF BrokerFault

LEMMA TruthAdminStep ==
  ASSUME OperatorConfirms, TypeOK, TruthInv, NEW c \in Admins, AdminStep(c)
  PROVE  TruthInv'
  <1> USE BrokerAssumption DEF TypeOK, StoreTypeOK, brokerVars, effectVars
  <1>1. UNCHANGED <<pc, job, calls, effect>>
    BY DEF AdminStep, Issue, CancelAuthorization, Recover, ReconcileOutcome,
           CoordinatorRecords, RevokeIssued, AdminProjects, AdminDies
  <1>2. ASSUME NEW b \in Brokers PROVE pend'[b] = pend[b]
    BY DEF AdminStep, Issue, RecordIssued, InsertIssued, ReplayIssued, CancelAuthorization,
           Cancel, Recover, RecoverInterrupted, ReconcileOutcome, Reconcile, Transition,
           RevokeIssued, RevokeAllIssued, AdminProjects, WriteSnapshot, WriteRequest,
           AdminDies, AbandonWrite, CoordinatorRecords
  <1>3. ASSUME NEW a \in Auths
        PROVE  \/ row'[a] = row[a]
               \/ row[a] \in {"none", "issued"} /\ row'[a] \in {"issued", "cancelled"}
               \/ /\ row[a] = "executing" /\ row'[a] = "unknown"
                  /\ \A b \in Brokers : ~WorkingOn(b, a)
               \/ row[a] = "unknown" /\ row'[a] = IF effect[a] THEN "executed" ELSE "failed"
    <2>1. CASE \E x \in Auths : Issue(c, x)
      BY <2>1 DEF Issue, RecordIssued, InsertIssued, ReplayIssued
    <2>2. CASE \E x \in Auths : CancelAuthorization(c, x)
      BY <2>2 DEF CancelAuthorization, Cancel, Transition
    <2>3. CASE \E x \in Auths : Recover(c, x)
      BY <2>3 DEF Recover, RecoverInterrupted, Transition
    <2>4. CASE \E x \in Auths : ReconcileOutcome(c, x)
      BY <2>4 DEF ReconcileOutcome, Reconcile, Transition
    <2>5. CASE RevokeIssued(c)
      BY <2>5 DEF RevokeIssued, RevokeAllIssued
    <2>6. CASE AdminProjects(c) \/ AdminDies(c) \/ \E x \in Auths : CoordinatorRecords(x)
      BY <2>6 DEF AdminProjects, WriteSnapshot, WriteRequest, AdminDies, AbandonWrite, CoordinatorRecords
    <2>7. QED
      BY <2>1, <2>2, <2>3, <2>4, <2>5, <2>6 DEF AdminStep
  <1>4. QED
    BY <1>1, <1>2, <1>3 DEF TruthInv, TruthfulRecord, WorkingOn

LEMMA TruthStep ==
  ASSUME OperatorConfirms, TypeOK, AttemptInv, TruthInv, [Next]_vars
  PROVE  TruthInv'
  <1> USE DEF storeVars, brokerVars, effectVars
  <1>1. ASSUME NEW b \in Brokers, NEW a \in Auths, Fetch(b, a) PROVE TruthInv'
    BY <1>1 DEF Fetch, Goto, TruthInv, TruthfulRecord, Working, TypeOK
  <1>2. CASE Tick \/ \E a \in Auths : Revoke(a)
    BY <1>2 DEF Tick, Revoke, TruthInv, TruthfulRecord
  <1>3. CASE UNCHANGED vars
    BY <1>3 DEF vars, TruthInv, TruthfulRecord
  <1>4. QED
    BY <1>1, <1>2, <1>3, TruthBrokerStep, TruthFault, TruthAdminStep DEF Next

\* Final records tell whether the target was affected.
THEOREM TruthfulRecordHolds ==
  ASSUME OperatorConfirms
  PROVE  Spec => []TruthfulRecord
  <1>1. Init => TruthInv
    BY TruthInit
  <1>2. TypeOK /\ AttemptInv /\ TruthInv /\ [Next]_vars => TruthInv'
    BY TruthStep
  <1>3. TruthInv => TruthfulRecord
    BY DEF TruthInv
  <1>4. QED
    BY <1>1, <1>2, <1>3, AttemptInvariant, PTL DEF Spec

-----------------------------------------------------------------------------
(* An attempt that nobody works on has left its trace.                     *)

\* A broker leaves its attempt only with the record settled by somebody, or
\* through a fault that is on record.
LEMMA OrphanBrokerStep ==
  ASSUME TypeOK, NoSilentOrphan, NEW b \in Brokers, BrokerStep(b)
  PROVE  NoSilentOrphan'
  <1> USE BrokerAssumption
      DEF TypeOK, StoreTypeOK, NoSilentOrphan, WorkingOn, Working, Goto, storeVars, historyVars
  <1>1. CASE VerifyFirst(b) \/ AskFirst(b) \/ Refuse(b) \/ Stamp(b) \/ BeginFails(b)
    BY <1>1 DEF VerifyFirst, AskFirst, Refuse, Stamp, BeginFails
  <1>2. CASE BeginConsumption(b)
    BY <1>2 DEF BeginConsumption, Reserve, ExpireUnconsumed
  <1>3. CASE Recheck(b) \/ VerifySecond(b) \/ AskSecond(b) \/ TargetAnswers(b)
    BY <1>3 DEF Recheck, VerifySecond, AskSecond, TargetAnswers
  <1>4. CASE FailPreDispatch(b) \/ Simulate(b)
    BY <1>4 DEF FailPreDispatch, Simulate, Complete, Transition
  <1>5. CASE CompleteExecuted(b) \/ MarkOutcomeUnknown(b)
    BY <1>5 DEF CompleteExecuted, MarkOutcomeUnknown, Complete, MarkUnknown, Transition
  <1>6. CASE Dispatch(b)
    BY <1>6 DEF Dispatch
  <1>7. CASE Settle(b)
    BY <1>7 DEF Settle, WriteSnapshot, WriteRequest
  <1>8. QED
    BY <1>1, <1>2, <1>3, <1>4, <1>5, <1>6, <1>7 DEF BrokerStep

LEMMA OrphanStep == TypeOK /\ NoSilentOrphan /\ [Next]_vars => NoSilentOrphan'
  <1> SUFFICES ASSUME TypeOK, NoSilentOrphan, [Next]_vars PROVE NoSilentOrphan'
    OBVIOUS
  <1> USE DEF TypeOK, StoreTypeOK, NoSilentOrphan, WorkingOn, storeVars, brokerVars, historyVars
  <1>1. ASSUME NEW b \in Brokers, NEW a \in Auths, Fetch(b, a) PROVE NoSilentOrphan'
    BY <1>1 DEF Fetch, Goto, Working
  <1>2. ASSUME NEW b \in Brokers, BrokerFault(b) PROVE NoSilentOrphan'
    BY <1>2 DEF BrokerFault, WriteFails, ProjectionFails, Crash, AbandonWrite, Goto, Orphan,
                Working
  <1>3. ASSUME NEW c \in Admins, AdminStep(c) PROVE NoSilentOrphan'
    <2>1. UNCHANGED <<pc, job>> /\ orphaned \subseteq orphaned'
      BY <1>3 DEF AdminStep, Issue, CancelAuthorization, Recover, ReconcileOutcome,
                  CoordinatorRecords, RevokeIssued, AdminProjects, AdminDies
    <2>2. ASSUME NEW a \in Auths, row'[a] = "executing" PROVE row[a] = "executing"
      <3>1. CASE \E x \in Auths : Issue(c, x)
        BY <2>2, <3>1 DEF Issue, RecordIssued, InsertIssued, ReplayIssued
      <3>2. CASE \E x \in Auths : CancelAuthorization(c, x) \/ Recover(c, x)
        BY <2>2, <3>2 DEF CancelAuthorization, Cancel, Recover, RecoverInterrupted, Transition
      <3>3. CASE \E x \in Auths : ReconcileOutcome(c, x)
        BY <2>2, <3>3 DEF ReconcileOutcome, Reconcile, Transition
      <3>4. CASE RevokeIssued(c)
        BY <2>2, <3>4 DEF RevokeIssued, RevokeAllIssued
      <3>5. CASE AdminProjects(c) \/ AdminDies(c) \/ \E x \in Auths : CoordinatorRecords(x)
        BY <2>2, <3>5 DEF AdminProjects, WriteSnapshot, WriteRequest, AdminDies, AbandonWrite, CoordinatorRecords
      <3>6. QED
        BY <1>3, <3>1, <3>2, <3>3, <3>4, <3>5 DEF AdminStep
    <2>3. QED
      BY <2>1, <2>2
  <1>4. CASE Tick \/ \E a \in Auths : Revoke(a)
    BY <1>4 DEF Tick, Revoke
  <1>5. CASE UNCHANGED vars
    BY <1>5 DEF vars
  <1>6. QED
    BY <1>1, <1>2, <1>3, <1>4, <1>5, OrphanBrokerStep DEF Next

\* Whatever operators confirm, a record that is executing without a broker at
\* work is the trace of a fault.
THEOREM NoSilentOrphanHolds == Spec => []NoSilentOrphan
  <1>1. Init => NoSilentOrphan
    BY DEF Init, StoreInit, NoSilentOrphan
  <1>2. QED
    BY <1>1, OrphanStep, TypeCorrect, PTL DEF Spec

-----------------------------------------------------------------------------
(* What the retained snapshot shows.  Projections arrive late or never, so *)
(* the row may be ahead of what is shown; but a final state is never left. *)

Final == {"executed", "failed", "simulated", "cancelled", "expired"}

ViewInv ==
    /\ \A a \in Auths : snapshot[a] \in Final => row[a] = snapshot[a]
    /\ \A c \in Clients :
         ~Free(c) /\ pend[c].state \in Final => row[pend[c].auth] = pend[c].state

\* What a projected state is shown as.
LEMMA ShownAs ==
  ASSUME NEW s \in RowStates
  PROVE  /\ PublicState(s) \in Final <=> s \in Final
         /\ s \in Final => PublicState(s) = s
  BY DEF RowStates, PublicState, Final

\* The held projections are of authorizations, in states of the store.
LEMMA PendingType ==
  ASSUME StoreTypeOK, NEW c \in Clients, ~Free(c)
  PROVE  pend[c].auth \in Auths /\ pend[c].state \in RowStates
  BY DEF StoreTypeOK, Free, PendingWrites

LEMMA ViewInit == Init => ViewInv
  BY DEF Init, StoreInit, ViewInv, Free, Final

\* A transaction that moves the rows of S from one state to another, or keeps
\* them, and projects the new state.
LEMMA ViewProjectAll ==
  ASSUME StoreTypeOK, ViewInv, NEW S \in SUBSET Auths, NEW s \in RowStates,
         ProjectAll(S, s), UNCHANGED pend,
         \A a \in S : row'[a] = s /\ (row[a] = s \/ row[a] \notin Final),
         \A a \in Auths \ S : row'[a] = row[a]
  PROVE  ViewInv'
  <1> USE DEF StoreTypeOK
  <1>1. ASSUME NEW a \in Auths, snapshot'[a] \in Final PROVE row'[a] = snapshot'[a]
    <2>1. CASE snapshot'[a] = PublicState(s) /\ a \in S
      BY <1>1, <2>1, ShownAs
    <2>2. CASE snapshot'[a] = snapshot[a]
      BY <1>1, <2>2 DEF ViewInv
    <2>3. QED
      BY <2>1, <2>2 DEF ProjectAll
  <1>2. ASSUME NEW c \in Clients, ~Free(c)', pend'[c].state \in Final
        PROVE  row'[pend'[c].auth] = pend'[c].state
    BY <1>2, PendingType DEF ViewInv, Free
  <1>3. QED
    BY <1>1, <1>2 DEF ViewInv

\* The guarded UPDATE of a row that is not final, or already where it goes.
LEMMA ViewTransition ==
  ASSUME StoreTypeOK, ViewInv, NEW c \in Clients, NEW a \in Auths, NEW from, NEW to,
         Transition(c, a, from, to), from = to \/ from \notin Final
  PROVE  ViewInv'
  <1>1. /\ \A x \in Auths : row'[x] = IF x = a THEN to ELSE row[x]
        /\ \A d \in Clients : d # c => pend'[d] = pend[d]
        /\ pend'[c].state = to /\ pend'[c].auth = a
        /\ UNCHANGED snapshot
        /\ row[a] = from
    BY DEF Transition, StoreTypeOK
  <1>2. QED
    BY <1>1, PendingType DEF ViewInv, Free

\* The rest of a projection, or its loss.
LEMMA ViewWrite ==
  ASSUME StoreTypeOK, ViewInv, NEW c \in Clients,
         WriteSnapshot(c) \/ WriteRequest(c) \/ AbandonWrite(c)
  PROVE  ViewInv'
  <1> USE DEF StoreTypeOK
  <1>1. /\ UNCHANGED row
        /\ \A d \in Clients : d # c => pend'[d] = pend[d]
    BY DEF WriteSnapshot, WriteRequest, AbandonWrite
  <1>2. ~Free(c)' => ~Free(c) /\ pend'[c].state = pend[c].state /\ pend'[c].auth = pend[c].auth
    <2>1. CASE WriteSnapshot(c)
      <3>1. pend[c] \in PendingWrites
        BY <2>1 DEF WriteSnapshot, NoWrite
      <3>2. pend'[c] = NoWrite \/ pend'[c] = [pend[c] EXCEPT !.step = "request"]
        BY <2>1 DEF WriteSnapshot
      <3>3. pend[c] # NoWrite
        BY <2>1 DEF WriteSnapshot, NoWrite
      <3>4. QED
        BY <3>1, <3>2, <3>3 DEF Free, PendingWrites
    <2>2. QED
      BY <2>1 DEF WriteRequest, AbandonWrite, Free
  <1>3. CASE WriteSnapshot(c) /\ ~UNCHANGED snapshot
    <2>1. ~Free(c)
      BY <1>3 DEF WriteSnapshot, Free, NoWrite
    <2>2. \A x \in Auths : snapshot'[x] = IF x = pend[c].auth THEN PublicState(pend[c].state)
                                          ELSE snapshot[x]
      BY <1>3 DEF WriteSnapshot
    <2>3. /\ pend[c].state \in RowStates
          /\ pend[c].state \in Final => row[pend[c].auth] = pend[c].state
      BY <2>1, PendingType DEF ViewInv
    <2>4. ASSUME NEW a \in Auths, snapshot'[a] \in Final PROVE row'[a] = snapshot'[a]
      BY <1>1, <2>2, <2>3, <2>4, ShownAs DEF ViewInv
    <2>5. QED
      BY <1>1, <1>2, <2>4 DEF ViewInv, Free
  <1>4. CASE UNCHANGED snapshot
    BY <1>1, <1>2, <1>4 DEF ViewInv, Free
  <1>5. QED
    BY <1>3, <1>4 DEF WriteRequest, AbandonWrite

LEMMA ViewOperation ==
  ASSUME StoreTypeOK, ViewInv, NEW c \in Clients, NEW a \in Auths,
         \/ RecordIssued(c, a)
         \/ RevokeAllIssued(c)
         \/ \E n \in Nat : Reserve(a, n) \/ ExpireUnconsumed(a, n)
  PROVE  ViewInv'
  <1> USE DEF StoreTypeOK
  <1>1. CASE InsertIssued(a)
    <2>1. /\ row[a] = "none"
          /\ \A x \in Auths : row'[x] = IF x = a THEN "issued" ELSE row[x]
          /\ \A x \in Auths : snapshot'[x] = IF x = a THEN "authorized" ELSE snapshot[x]
          /\ UNCHANGED pend
      BY <1>1 DEF InsertIssued
    <2>2. QED
      BY <2>1, PendingType DEF ViewInv, Free, Final
  <1>2. CASE ReplayIssued(a)
    <2>1. /\ row[a] \in RowStates
          /\ ProjectAll({a}, row[a])
          /\ UNCHANGED <<row, pend>>
      BY <1>2 DEF ReplayIssued
    <2>2. QED
      BY <2>1, ViewProjectAll
  <1>3. CASE RevokeAllIssued(c)
    <2> DEFINE S == {x \in Auths : row[x] = "issued"}
    <2>1. /\ ProjectAll(S, "cancelled")
          /\ S \in SUBSET Auths /\ "cancelled" \in RowStates
          /\ \A x \in S : row'[x] = "cancelled" /\ row[x] = "issued"
          /\ \A x \in Auths \ S : row'[x] = row[x]
          /\ UNCHANGED pend
      BY <1>3 DEF RevokeAllIssued, RowStates
    <2> HIDE DEF S
    <2>2. QED
      BY <2>1, ViewProjectAll DEF Final
  <1>4. CASE \E n \in Nat : Reserve(a, n) \/ ExpireUnconsumed(a, n)
    <2>1. PICK s \in {"executing", "expired"} :
            /\ row[a] = "issued"
            /\ row' = [row EXCEPT ![a] = s]
            /\ ProjectAll({a}, s)
            /\ UNCHANGED pend
      BY <1>4 DEF Reserve, ExpireUnconsumed
    <2>2. s \in RowStates /\ {a} \in SUBSET Auths
      BY DEF RowStates
    <2>3. QED
      BY <2>1, <2>2, ViewProjectAll DEF Final
  <1>5. QED
    BY <1>1, <1>2, <1>3, <1>4 DEF RecordIssued

LEMMA ViewStep == TypeOK /\ ViewInv /\ [Next]_vars => ViewInv'
  <1> SUFFICES ASSUME TypeOK, ViewInv, [Next]_vars PROVE ViewInv'
    OBVIOUS
  <1> USE BrokerAssumption DEF TypeOK
  <1>1. CASE UNCHANGED storeVars
    BY <1>1 DEF storeVars, ViewInv, Free
  <1>2. ASSUME NEW b \in Brokers, BeginConsumption(b) PROVE ViewInv'
    BY <1>2, ViewOperation DEF BeginConsumption
  <1>3. ASSUME NEW b \in Brokers,
               FailPreDispatch(b) \/ Simulate(b) \/ CompleteExecuted(b) \/ MarkOutcomeUnknown(b)
        PROVE  ViewInv'
    <2>1. CASE \E to \in {"failed", "simulated", "executed", "unknown"} :
                 Transition(b, job[b], "executing", to)
      BY <2>1, ViewTransition DEF Final
    <2>2. QED
      BY <1>1, <1>3, <2>1
         DEF FailPreDispatch, Simulate, CompleteExecuted, MarkOutcomeUnknown, Complete, MarkUnknown
  <1>4. ASSUME NEW b \in Brokers, Settle(b) \/ ProjectionFails(b) \/ Crash(b) PROVE ViewInv'
    BY <1>4, ViewWrite DEF Settle, ProjectionFails, Crash
  <1>5. ASSUME NEW c \in Admins, AdminStep(c) PROVE ViewInv'
    <2>1. ASSUME NEW a \in Auths, Issue(c, a) PROVE ViewInv'
      BY <2>1, ViewOperation DEF Issue
    <2>2. ASSUME NEW a \in Auths, CancelAuthorization(c, a) PROVE ViewInv'
      BY <2>2, ViewTransition DEF CancelAuthorization, Cancel, Final
    <2>3. ASSUME NEW a \in Auths, Recover(c, a) PROVE ViewInv'
      BY <2>3, ViewTransition DEF Recover, RecoverInterrupted, Final
    <2>4. ASSUME NEW a \in Auths, ReconcileOutcome(c, a) PROVE ViewInv'
      BY <2>4, ViewTransition DEF ReconcileOutcome, Reconcile, Final
    <2>5. CASE RevokeIssued(c)
      BY <2>5, StoreAssumption, ViewOperation DEF RevokeIssued
    <2>6. CASE AdminProjects(c) \/ AdminDies(c)
      BY <2>6, ViewWrite DEF AdminProjects, AdminDies
    <2>7. ASSUME NEW a \in Auths, CoordinatorRecords(a) PROVE ViewInv'
      BY <2>7 DEF CoordinatorRecords, ViewInv, Free
    <2>8. QED
      BY <1>5, <2>1, <2>2, <2>3, <2>4, <2>5, <2>6, <2>7 DEF AdminStep
  <1>6. ASSUME NEW b \in Brokers, NEW a \in Auths, Fetch(b, a) PROVE ViewInv'
    BY <1>1, <1>6 DEF Fetch
  <1>7. ASSUME NEW b \in Brokers, BrokerStep(b) \/ BrokerFault(b) PROVE ViewInv'
    BY <1>1, <1>2, <1>3, <1>4, <1>7
       DEF BrokerStep, BrokerFault, VerifyFirst, AskFirst, Refuse, Stamp, BeginFails, Recheck,
           VerifySecond, AskSecond, Dispatch, TargetAnswers, WriteFails
  <1>8. CASE Tick \/ \E a \in Auths : Revoke(a)
    BY <1>1, <1>8 DEF Tick, Revoke
  <1>9. CASE UNCHANGED vars
    BY <1>1, <1>9 DEF vars
  <1>10. QED
    BY <1>5, <1>6, <1>7, <1>8, <1>9 DEF Next

\* With operators who confirm what they are asked, the retained snapshot never
\* contradicts what happened to the target, whatever the coordinator writes
\* into the ledger.
THEOREM RetainedViewTruthfulHolds ==
  ASSUME OperatorConfirms
  PROVE  Spec => []RetainedViewTruthful
  <1>1. Init => TruthInv /\ ViewInv
    BY TruthInit, ViewInit
  <1>2. TypeOK /\ AttemptInv /\ TruthInv /\ ViewInv /\ [Next]_vars => TruthInv' /\ ViewInv'
    BY TruthStep, ViewStep
  <1>3. AttemptInv /\ TruthInv /\ ViewInv => RetainedViewTruthful
    <2> SUFFICES ASSUME AttemptInv, TruthInv, ViewInv, NEW a \in Auths
                 PROVE  /\ snapshot[a] \in {"cancelled", "expired", "simulated"} => calls[a] = 0
                        /\ snapshot[a] = "executed" => effect[a]
                        /\ snapshot[a] = "failed" => ~effect[a]
      BY DEF RetainedViewTruthful
    <2>1. /\ row[a] \in {"cancelled", "expired", "simulated"} => calls[a] = 0
          /\ row[a] = "executed" => effect[a]
          /\ row[a] = "failed" => ~effect[a]
      BY DEF AttemptInv, TruthInv, TruthfulRecord, Untouched
    <2>2. snapshot[a] \in Final => row[a] = snapshot[a]
      BY DEF ViewInv
    <2>3. QED
      BY <2>1, <2>2 DEF Final
  <1>4. QED
    BY <1>1, <1>2, <1>3, AttemptInvariant, PTL DEF Spec

-----------------------------------------------------------------------------
(* Refinement: the store and its brokers implement SingleUse.              *)

\* What each of the store's states tells of an authorization.
LEMMA RecordTable ==
  /\ RecordOf("none") = "none"
  /\ RecordOf("issued") = "available"
  /\ RecordOf("executing") = "taken"
  /\ RecordOf("unknown") = "doubt"
  /\ RecordOf("executed") = "used"
  /\ RecordOf("failed") = "unused" /\ RecordOf("simulated") = "unused"
  /\ RecordOf("cancelled") = "withdrawn" /\ RecordOf("expired") = "withdrawn"
  BY DEF RecordOf

\* One row changes, no call is made.
LEMMA RowMove ==
  ASSUME TypeOK, NEW a \in Auths, NEW to,
         row' = [row EXCEPT ![a] = to], UNCHANGED <<calls, effect>>
  PROVE  Abstract!Move(a, RecordOf(row[a]), RecordOf(to))
  BY DEF TypeOK, StoreTypeOK, Abstract!Move

LEMMA InvisibleStep ==
  ASSUME UNCHANGED <<row, calls, effect>> PROVE UNCHANGED Abstract!vars
  BY DEF Abstract!vars

\* Issued rows become cancelled or expired.
LEMMA WithdrawStep ==
  ASSUME TypeOK, NEW S \in SUBSET Auths, NEW to \in {"cancelled", "expired"},
         \A a \in S : row[a] = "issued",
         row' = [a \in Auths |-> IF a \in S THEN to ELSE row[a]],
         UNCHANGED <<calls, effect>>
  PROVE  Abstract!Next
  <1>1. Abstract!Withdraw(S)
    BY RecordTable DEF Abstract!Withdraw
  <1>2. QED
    BY <1>1 DEF Abstract!Next

LEMMA BrokerRefines ==
  ASSUME TypeOK, AttemptInv, TruthInv, NEW b \in Brokers, BrokerStep(b)
  PROVE  Abstract!Next \/ UNCHANGED Abstract!vars
  <1> USE BrokerAssumption DEF TypeOK, StoreTypeOK, effectVars, storeVars
  <1>1. CASE \/ VerifyFirst(b) \/ AskFirst(b) \/ Refuse(b) \/ Stamp(b) \/ BeginFails(b) \/ Recheck(b)
             \/ VerifySecond(b) \/ AskSecond(b) \/ TargetAnswers(b)
    BY <1>1, InvisibleStep
       DEF VerifyFirst, AskFirst, Refuse, Stamp, BeginFails, Recheck, VerifySecond, AskSecond, TargetAnswers
  <1>2. CASE BeginConsumption(b)
    <2>1. CASE Reserve(job[b], now[b])
      <3>0. /\ row[job[b]] = "issued"
            /\ row' = [row EXCEPT ![job[b]] = "executing"]
            /\ UNCHANGED <<calls, effect>>
        BY <1>2, <2>1 DEF BeginConsumption, Reserve
      <3>1. Abstract!Move(job[b], RecordOf(row[job[b]]), RecordOf("executing"))
        BY <3>0, RowMove
      <3>2. Abstract!Take(job[b])
        BY <3>0, <3>1, RecordTable DEF Abstract!Take
      <3>3. QED
        BY <3>2 DEF Abstract!Next
    <2>2. CASE ExpireUnconsumed(job[b], now[b])
      <3>0. /\ row[job[b]] = "issued"
            /\ row' = [row EXCEPT ![job[b]] = "expired"]
            /\ UNCHANGED <<calls, effect>>
        BY <1>2, <2>2 DEF BeginConsumption, ExpireUnconsumed
      <3>1. row' = [a \in Auths |-> IF a \in {job[b]} THEN "expired" ELSE row[a]]
        BY <3>0
      <3>2. {job[b]} \in SUBSET Auths /\ \A a \in {job[b]} : row[a] = "issued"
        BY <3>0
      <3>3. QED
        BY <3>0, <3>1, <3>2, WithdrawStep
    <2>3. QED
      BY <1>2, <2>1, <2>2 DEF BeginConsumption
  <1>3. CASE FailPreDispatch(b) \/ Simulate(b)
    <2>1. calls[job[b]] = 0
      BY <1>3 DEF FailPreDispatch, Simulate, AttemptInv
    <2>2. CASE UNCHANGED storeVars
      BY <1>3, <2>2, InvisibleStep DEF FailPreDispatch, Simulate
    <2>3. CASE Complete(b, job[b], "failed") \/ Complete(b, job[b], "simulated")
      <3>1. Abstract!SettleUnused(job[b])
        BY <1>3, <2>1, <2>3, RowMove, RecordTable
           DEF FailPreDispatch, Simulate, Complete, Transition, Abstract!SettleUnused
      <3>2. QED
        BY <3>1 DEF Abstract!Next
    <2>4. QED
      BY <1>3, <2>2, <2>3 DEF FailPreDispatch, Simulate
  <1>4. CASE Dispatch(b)
    <2>1. /\ row[job[b]] = "executing"
          /\ calls[job[b]] = 0
          /\ ~effect[job[b]]
      BY <1>4 DEF Dispatch, TruthInv, AttemptInv, Working
    <2>2. calls' = [calls EXCEPT ![job[b]] = 1] /\ UNCHANGED row
      BY <1>4, <2>1 DEF Dispatch
    <2>3. \E e \in BOOLEAN : effect' = [effect EXCEPT ![job[b]] = e]
      <3>1. PICK e \in BOOLEAN : effect' = [effect EXCEPT ![job[b]] = @ \/ e]
        BY <1>4 DEF Dispatch
      <3>2. (effect[job[b]] \/ e) = e
        BY <2>1
      <3>3. effect' = [effect EXCEPT ![job[b]] = e]
        BY <3>1, <3>2
      <3>4. QED
        BY <3>3
    <2>4. Abstract!Act(job[b])
      BY <2>1, <2>2, <2>3, RecordTable DEF Abstract!Act
    <2>5. QED
      BY <2>4 DEF Abstract!Next
  <1>5. CASE CompleteExecuted(b)
    <2>1. CASE UNCHANGED storeVars
      BY <1>5, <2>1, InvisibleStep DEF CompleteExecuted
    <2>2. CASE Complete(b, job[b], "executed")
      <3>0. /\ row[job[b]] = "executing"
            /\ row' = [row EXCEPT ![job[b]] = "executed"]
            /\ UNCHANGED <<calls, effect>>
            /\ effect[job[b]]
        BY <1>5, <2>2 DEF CompleteExecuted, Complete, Transition, TruthInv
      <3>1. Abstract!Move(job[b], RecordOf(row[job[b]]), RecordOf("executed"))
        BY <3>0, RowMove
      <3>2. Abstract!SettleUsed(job[b])
        BY <3>0, <3>1, RecordTable DEF Abstract!SettleUsed
      <3>3. QED
        BY <3>2 DEF Abstract!Next
    <2>3. QED
      BY <1>5, <2>1, <2>2 DEF CompleteExecuted
  <1>6. CASE MarkOutcomeUnknown(b)
    <2>1. CASE UNCHANGED storeVars
      BY <1>6, <2>1, InvisibleStep DEF MarkOutcomeUnknown
    <2>2. CASE MarkUnknown(b, job[b])
      <3>0. /\ row[job[b]] = "executing"
            /\ row' = [row EXCEPT ![job[b]] = "unknown"]
            /\ UNCHANGED <<calls, effect>>
        BY <1>6, <2>2 DEF MarkOutcomeUnknown, MarkUnknown, Transition
      <3>1. Abstract!Move(job[b], RecordOf(row[job[b]]), RecordOf("unknown"))
        BY <3>0, RowMove
      <3>2. Abstract!Doubt(job[b])
        BY <3>0, <3>1, RecordTable DEF Abstract!Doubt
      <3>3. QED
        BY <3>2 DEF Abstract!Next
    <2>3. QED
      BY <1>6, <2>1, <2>2 DEF MarkOutcomeUnknown
  <1>7. CASE Settle(b)
    BY <1>7, InvisibleStep DEF Settle, WriteSnapshot, WriteRequest
  <1>8. QED
    BY <1>1, <1>2, <1>3, <1>4, <1>5, <1>6, <1>7 DEF BrokerStep

LEMMA AdminRefines ==
  ASSUME OperatorConfirms, TypeOK, NEW c \in Admins, AdminStep(c)
  PROVE  Abstract!Next \/ UNCHANGED Abstract!vars
  <1> USE DEF TypeOK, StoreTypeOK, effectVars
  <1>1. ASSUME NEW a \in Auths, Issue(c, a)
        PROVE  Abstract!Next \/ UNCHANGED Abstract!vars
    <2>1. CASE InsertIssued(a)
      <3>1. Abstract!Issue(a)
        BY <1>1, <2>1, RowMove, RecordTable DEF Issue, InsertIssued, Abstract!Issue
      <3>2. QED
        BY <3>1 DEF Abstract!Next
    <2>2. CASE ReplayIssued(a)
      BY <1>1, <2>2, InvisibleStep DEF Issue, ReplayIssued
    <2>3. QED
      BY <1>1, <2>1, <2>2 DEF Issue, RecordIssued
  <1>2. ASSUME NEW a \in Auths, CancelAuthorization(c, a)
        PROVE  Abstract!Next \/ UNCHANGED Abstract!vars
    <2>1. row' = [row EXCEPT ![a] = "cancelled"] /\ UNCHANGED <<calls, effect>>
      BY <1>2 DEF CancelAuthorization, Cancel, Transition
    <2>2. CASE row[a] = "issued"
      <3>1. row' = [x \in Auths |-> IF x \in {a} THEN "cancelled" ELSE row[x]]
        <4>1. row = [x \in Auths |-> row[x]]
          OBVIOUS
        <4> HIDE DEF TypeOK, StoreTypeOK
        <4>2. QED
          BY <2>1, <4>1
      <3>2. QED
        BY <2>1, <2>2, <3>1, WithdrawStep, ZenonT(20)
    <2>3. CASE row[a] = "cancelled"
      <3>1. UNCHANGED row
        BY <2>1, <2>3
      <3>2. QED
        BY <2>1, <3>1, InvisibleStep
    <2>4. QED
      BY <1>2, <2>2, <2>3 DEF CancelAuthorization, Cancel, Transition
  <1>3. ASSUME NEW a \in Auths, Recover(c, a)
        PROVE  Abstract!Next \/ UNCHANGED Abstract!vars
    <2>1. Abstract!Doubt(a)
      BY <1>3, RowMove, RecordTable DEF Recover, RecoverInterrupted, Transition, Abstract!Doubt
    <2>2. QED
      BY <2>1 DEF Abstract!Next
  <1>4. ASSUME NEW a \in Auths, ReconcileOutcome(c, a)
        PROVE  Abstract!Next \/ UNCHANGED Abstract!vars
    <2>1. PICK outcome \in {"executed", "failed"} :
            (outcome = "executed" <=> effect[a]) /\ Reconcile(c, a, outcome)
      BY <1>4 DEF ReconcileOutcome
    <2>2. RecordOf(outcome) = IF effect[a] THEN "used" ELSE "unused"
      BY <2>1, RecordTable
    <2>3. /\ row[a] = "unknown"
          /\ row' = [row EXCEPT ![a] = outcome]
          /\ UNCHANGED <<calls, effect>>
      BY <1>4, <2>1 DEF ReconcileOutcome, Reconcile, Transition
    <2>4. Abstract!Move(a, RecordOf(row[a]), RecordOf(outcome))
      BY <2>3, RowMove
    <2>5. Abstract!Resolve(a)
      BY <2>2, <2>3, <2>4, RecordTable DEF Abstract!Resolve
    <2>6. QED
      BY <2>5 DEF Abstract!Next
  <1>5. CASE RevokeIssued(c)
    <2> DEFINE S == {a \in Auths : row[a] = "issued"}
    <2>1. /\ row' = [a \in Auths |-> IF a \in S THEN "cancelled" ELSE row[a]]
          /\ UNCHANGED <<calls, effect>>
      BY <1>5 DEF RevokeIssued, RevokeAllIssued
    <2>2. S \in SUBSET Auths /\ \A a \in S : row[a] = "issued"
      OBVIOUS
    <2> HIDE DEF S
    <2>3. QED
      BY <2>1, <2>2, WithdrawStep
  <1>6. CASE AdminProjects(c) \/ AdminDies(c) \/ \E x \in Auths : CoordinatorRecords(x)
    BY <1>6, InvisibleStep
       DEF AdminProjects, WriteSnapshot, WriteRequest, AdminDies, AbandonWrite, CoordinatorRecords
  <1>7. QED
    BY <1>1, <1>2, <1>3, <1>4, <1>5, <1>6 DEF AdminStep

LEMMA StepRefines ==
  ASSUME OperatorConfirms, TypeOK, AttemptInv, TruthInv, [Next]_vars
  PROVE  [Abstract!Next]_(Abstract!vars)
  <1> USE DEF storeVars, effectVars
  <1>1. ASSUME NEW b \in Brokers, (\E a \in Auths : Fetch(b, a)) \/ BrokerFault(b)
        PROVE  UNCHANGED Abstract!vars
    BY <1>1, InvisibleStep
       DEF Fetch, BrokerFault, WriteFails, ProjectionFails, Crash, AbandonWrite
  <1>2. CASE Tick \/ \E a \in Auths : Revoke(a)
    BY <1>2, InvisibleStep DEF Tick, Revoke
  <1>3. CASE UNCHANGED vars
    BY <1>3, InvisibleStep DEF vars
  <1>4. QED
    BY <1>1, <1>2, <1>3, BrokerRefines, AdminRefines DEF Next

\* With operators who confirm what they are asked to confirm, every behaviour
\* of brokers, operators and store is one of SingleUse.
THEOREM ImplementsSingleUseHolds ==
  ASSUME OperatorConfirms
  PROVE  Spec => ImplementsSingleUse
  <1>1. Init => Abstract!Init
    BY RecordTable DEF Init, StoreInit, Abstract!Init
  <1>2. Init => TruthInv
    BY TruthInit
  <1>3. TypeOK /\ AttemptInv /\ TruthInv /\ [Next]_vars => TruthInv'
    BY TruthStep
  <1>4. TypeOK /\ AttemptInv /\ TruthInv /\ [Next]_vars => [Abstract!Next]_(Abstract!vars)
    BY StepRefines
  <1>5. QED
    BY <1>1, <1>2, <1>3, <1>4, AttemptInvariant, PTL DEF Spec, ImplementsSingleUse, Abstract!Spec
=============================================================================
