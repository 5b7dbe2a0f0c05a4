---------------------------- MODULE GateControl ----------------------------
(***************************************************************************)
(* The coordinator's controller (GateControl of controller.py) with the    *)
(* ledger it writes (storage.py) and the engine it calls, beside other     *)
(* processes that use the authorization store of the same database.  The   *)
(* HTTP server runs every call in a thread of its own, and a call is       *)
(* several steps: it reads a snapshot of the request from the ledger,      *)
(* calls the engine or the store, and writes a snapshot back.  So is an    *)
(* approval: the coordinator (coordinator.py), or the bridge for signed    *)
(* decisions (approvals.py), asks the engine which gate waits and calls it *)
(* again with evidence for that gate.  The process may die between any two *)
(* steps; the engine's requests and the evidence it has used die with it,  *)
(* the ledger, its controls and the store do not.                          *)
(***************************************************************************)
EXTENDS AuthorizationStore

CONSTANTS
    Threads,        \* worker threads of the coordinator's HTTP server
    Coordinator,    \* the coordinator's connection to the store
    Outside,        \* connections of brokers and of the operator
    ApprovalGates   \* approval gates in the workflow of a request

ASSUME ControlAssumption ==
    /\ Coordinator \notin Outside
    /\ Clients = Outside \union {Coordinator}
    /\ Tracked = {}
    /\ ApprovalGates \in Nat \ {0}
    /\ \A a \in Auths : ExpiresAt[a] = 1

\* An authorization of Auths belongs to one request and is named after it;
\* the request belongs to one idempotency key, and one decision is signed for
\* it.  In the ledger's snapshot of a
\* request, request[r] is its state when the snapshot names the authorization,
\* else it is "unbound", and unboundState[r] is the state.
VARIABLES
    unboundState,   \* request -> state in a snapshot without authorization
    binding,        \* request -> its row of request_idempotency
    engine,         \* request -> its state in the engine, "absent" if unknown
    gatesLeft,      \* request -> approvals the engine still waits for
    decisionsUsed,  \* requests whose signed decision the engine has consumed
    created,        \* request -> times the engine created it
    held,           \* requests the controls refuse: paused, domain, principal
    job,            \* thread -> the call it is serving
    withdrawn,      \* history: a caller was told it is cancelled or denied
    endorsed        \* history: request -> the approvals that passed a gate,
                    \* until it is authorized

ledgerVars == <<unboundState, binding>>
engineVars == <<engine, gatesLeft, decisionsUsed, created>>
history == <<withdrawn, endorsed>>
vars == <<storeVars, ledgerVars, engineVars, held, job, history>>

UnboundStates == {"processing", "waiting_for_approval", "blocked", "cancelled", "denied"}
Snapshots ==
    [bound : {TRUE}, state : PublicStates \union {"denied"}] \union
    [bound : {FALSE}, state : UnboundStates]
Seen == Snapshots \union {[bound |-> FALSE, state |-> "absent"]}

\* An approval is for the gate that was seen waiting, which is the one with
\* that many approvals left.  A host's approval has an identifier of its own.
Gates == 1..ApprovalGates
Approvals == [gate : Gates, signed : BOOLEAN]

Idle == [step |-> "idle"]
Jobs ==
    {Idle} \union
    [step : {"reserve", "create"}, req : Auths] \union
    [step : {"approve"}, req : Auths, approval : Approvals] \union
    [step : {"insert", "record", "answer"}, req : Auths, write : Snapshots] \union
    [step : {"withdraw", "storing", "revoking"}, req : Auths, to : {"cancelled", "denied"},
     seen : Seen] \union
    [step : {"fetch"}, req : Auths, seen : Snapshots] \union
    [step : {"repair"}, req : Auths, seen : Snapshots, write : Snapshots]

TypeOK ==
    /\ row \in [Auths -> RowStates \union {"none"}]
    /\ snapshot \in [Auths -> PublicStates \union {"none"}]
    /\ request \in [Auths -> RequestStates \union {"absent"}]
    /\ pend \in [Clients -> PendingWrites \union {NoWrite}]
    /\ unboundState \in [Auths -> UnboundStates]
    /\ binding \in [Auths -> {"none", "reserved", "complete"}]
    /\ engine \in [Auths -> {"absent", "processing", "waiting_for_approval", "authorized",
                             "cancelled", "blocked"}]
    /\ gatesLeft \in [Auths -> Gates]
    /\ decisionsUsed \subseteq Auths
    /\ created \in [Auths -> Nat]
    /\ held \subseteq Auths
    /\ job \in [Threads -> Jobs]
    /\ withdrawn \subseteq Auths
    /\ endorsed \in [Auths -> SUBSET Approvals]

Init ==
    /\ StoreInit
    /\ unboundState = [r \in Auths |-> "waiting_for_approval"]
    /\ binding = [r \in Auths |-> "none"]
    /\ engine = [r \in Auths |-> "absent"]
    /\ gatesLeft = [r \in Auths |-> ApprovalGates]
    /\ decisionsUsed = {}
    /\ created = [r \in Auths |-> 0]
    /\ held = {}
    /\ job = [t \in Threads |-> Idle]
    /\ withdrawn = {}
    /\ endorsed = [r \in Auths |-> {}]

-----------------------------------------------------------------------------
(* Snapshots and locks.                                                    *)

Unbound(s) == [bound |-> FALSE, state |-> s]
Bound(s) == [bound |-> TRUE, state |-> s]

\* Ledger.get_request.
Shown(r) ==
    CASE request[r] = "absent"  -> Unbound("absent")
      [] request[r] = "unbound" -> Unbound(unboundState[r])
      [] OTHER                  -> Bound(request[r])

\* The write of record_request and of its siblings: the row's new snapshot.
WriteShown(r, s) ==
    /\ request' = [request EXCEPT ![r] = IF s.bound THEN s.state ELSE "unbound"]
    /\ unboundState' = [unboundState EXCEPT ![r] = IF s.bound THEN @ ELSE s.state]

Serving(t, step) == job[t].step = step
Proceed(t, j) == job' = [job EXCEPT ![t] = j]
Return(t) == Proceed(t, Idle)
Answer(t, r) ==
    /\ Return(t)
    /\ withdrawn' = withdrawn \union {r}
    /\ UNCHANGED endorsed

\* A thread in cancel_request holds the engine's lock while the store works.
EngineFree == \A t \in Threads : ~Serving(t, "revoking")

-----------------------------------------------------------------------------
(* request_action: read the controls, reserve the key, call the engine,    *)
(* record the request.                                                     *)

\* Mutant of Admit: a key nobody has used yet is let in.
AdmitFirstUse(t, r) ==
    /\ Serving(t, "idle")
    /\ r \notin held \/ binding[r] = "none"
    /\ Proceed(t, [step |-> "reserve", req |-> r])
    /\ UNCHANGED <<storeVars, ledgerVars, engineVars, held, history>>

\* _allowed, the only time the call reads the controls.
Admit(t, r) ==
    /\ Serving(t, "idle")
    /\ r \notin held
    /\ Proceed(t, [step |-> "reserve", req |-> r])
    /\ UNCHANGED <<storeVars, ledgerVars, engineVars, held, history>>

\* Mutant of ReserveKey: a reservation nobody completed may be taken again.
ReserveAgain(t) ==
    LET r == job[t].req IN
    /\ Serving(t, "reserve")
    /\ IF binding[r] # "complete"
         THEN /\ binding' = [binding EXCEPT ![r] = "reserved"]
              /\ Proceed(t, [step |-> "create", req |-> r])
         ELSE Return(t) /\ UNCHANGED binding
    /\ UNCHANGED <<storeVars, unboundState, engineVars, held, history>>

\* reserve_idempotency.  A key that is reserved, complete, or bound to another
\* fingerprint starts nothing: the call raises or returns what is recorded.
ReserveKey(t) ==
    LET r == job[t].req IN
    /\ Serving(t, "reserve")
    /\ IF binding[r] = "none"
         THEN /\ binding' = [binding EXCEPT ![r] = "reserved"]
              /\ Proceed(t, [step |-> "create", req |-> r])
         ELSE Return(t) /\ UNCHANGED binding
    /\ UNCHANGED <<storeVars, unboundState, engineVars, held, history>>

\* The engine runs the gates up to the first approval, or blocks; a request
\* it knows it only returns.
CreateRequest(t) ==
    LET r == job[t].req IN
    /\ Serving(t, "create")
    /\ EngineFree
    /\ \E s \in {"waiting_for_approval", "blocked"} :
         /\ engine' = [engine EXCEPT ![r] = IF @ = "absent" THEN s ELSE @]
         /\ Proceed(t, [step |-> "insert", req |-> r,
                        write |-> IF engine'[r] = "authorized" THEN Bound("authorized")
                                  ELSE Unbound(engine'[r])])
    /\ created' = [created EXCEPT ![r] = IF engine[r] = "absent" THEN @ + 1 ELSE @]
    /\ UNCHANGED <<storeVars, ledgerVars, gatesLeft, decisionsUsed, held, history>>

\* The engine raises: before it has created the request; out of one of its
\* gates, which leaves it in "processing"; or when it reads the request back,
\* evidence and all, to return it.  The reservation stays.
CreateFails(t) ==
    LET r == job[t].req IN
    /\ Serving(t, "create")
    /\ \/ UNCHANGED <<engine, created>>
       \/ /\ EngineFree /\ engine[r] = "absent"
          /\ \E s \in {"processing", "waiting_for_approval", "blocked"} :
               engine' = [engine EXCEPT ![r] = s]
          /\ created' = [created EXCEPT ![r] = @ + 1]
    /\ Return(t)
    /\ UNCHANGED <<storeVars, ledgerVars, gatesLeft, decisionsUsed, held, history>>

\* Mutant of InsertRequest: the binding is completed whether or not the
\* request could be inserted, and without it.
CompleteWithoutRequest(t) ==
    LET r == job[t].req IN
    /\ Serving(t, "insert")
    /\ binding' = [binding EXCEPT ![r] = "complete"]
    /\ Return(t)
    /\ UNCHANGED <<row, snapshot, pend, request, unboundState, engineVars, held, history>>

\* complete_reserved_request, one transaction.  It inserts: if an approval
\* recorded the request first it raises, and the reservation stays.
InsertRequest(t) ==
    LET r == job[t].req IN
    /\ Serving(t, "insert")
    /\ IF request[r] = "absent" /\ binding[r] = "reserved"
         THEN /\ WriteShown(r, job[t].write)
              /\ binding' = [binding EXCEPT ![r] = "complete"]
         ELSE UNCHANGED <<request, ledgerVars>>
    /\ Return(t)
    /\ UNCHANGED <<row, snapshot, pend, engineVars, held, history>>

-----------------------------------------------------------------------------
(* Approvals: the controller's, which records what the engine returned, and *)
(* the signed approval bridge's, which does not.                           *)

\* approve_request sees which gate waits.  The bridge has verified the signed
\* decision by then, against what never changes about a request.
ChooseGate(t, r, signed) ==
    /\ Serving(t, "idle")
    /\ EngineFree
    /\ engine[r] = "waiting_for_approval"
    /\ Proceed(t, [step |-> "approve", req |-> r,
                   approval |-> [gate |-> gatesLeft[r], signed |-> signed]])
    /\ UNCHANGED <<storeVars, ledgerVars, engineVars, held, history>>

\* The engine passes one gate and returns the snapshot s.  The last gate
\* issues the authorization, whose record_issued may raise after its commit;
\* any gate after the approval may block, or raise.
PassGate(r, s) ==
    /\ engine' = [engine EXCEPT ![r] = s.state]
    /\ \/ /\ s = Unbound("waiting_for_approval") /\ gatesLeft[r] > 1
          /\ gatesLeft' = [gatesLeft EXCEPT ![r] = @ - 1]
          /\ UNCHANGED storeVars
       \/ /\ s \in {Unbound("blocked"), Unbound("processing")}
          /\ UNCHANGED <<gatesLeft, storeVars>>
       \/ /\ s \in {Bound("authorized"), Unbound("blocked")} /\ gatesLeft[r] = 1
          /\ Free(Coordinator) /\ InsertIssued(r)
          /\ UNCHANGED gatesLeft

\* Mutant of Fresh: the gate in the evidence need not be the one that waits.
FreshDecision(r, approval) ==
    /\ engine[r] = "waiting_for_approval"
    /\ approval.signed => r \notin decisionsUsed

\* What ingest_trusted_approval checks of the request and the evidence.
Fresh(r, approval) ==
    /\ engine[r] = "waiting_for_approval"
    /\ approval.signed => r \notin decisionsUsed
    /\ approval.gate = gatesLeft[r]

\* The bridge records nothing; the controller records what the engine returns,
\* unless the engine raises out of a gate or on reading the request back.
IngestApproval(t) ==
    LET r == job[t].req
        approval == job[t].approval
    IN
    /\ Serving(t, "approve")
    /\ EngineFree
    /\ Fresh(r, approval)
    /\ \E s \in Snapshots :
         /\ PassGate(r, s)
         /\ \/ (approval.signed \/ ~s.bound) /\ Return(t)
            \/ /\ ~approval.signed /\ s.state # "processing"
               /\ Proceed(t, [step |-> "record", req |-> r, write |-> s])
    /\ decisionsUsed' = IF approval.signed THEN decisionsUsed \union {r} ELSE decisionsUsed
    /\ endorsed' = [endorsed EXCEPT ![r] =
                       IF row'[r] = "none" THEN @ \union {approval} ELSE {}]
    /\ UNCHANGED <<ledgerVars, created, held, withdrawn>>

\* The engine refuses the evidence, which may also have expired on the way.
RejectApproval(t) ==
    /\ Serving(t, "approve")
    /\ EngineFree
    /\ Return(t)
    /\ UNCHANGED <<storeVars, ledgerVars, engineVars, held, history>>

RecordApproved(t) ==
    /\ Serving(t, "record")
    /\ WriteShown(job[t].req, job[t].write)
    /\ Return(t)
    /\ UNCHANGED <<row, snapshot, pend, binding, engineVars, held, history>>

-----------------------------------------------------------------------------
(* cancel and deny.  Both first read the ledger; what they read decides    *)
(* whether they call the store or the engine.                              *)

\* A request that reads cancelled is cancelled once more by repeating it.
ReadToWithdraw(t, r, to) ==
    /\ Serving(t, "idle")
    /\ to = "denied" => request[r] # "absent"
    /\ IF to = "cancelled" /\ Shown(r).state = "cancelled"
         THEN Answer(t, r)
         ELSE /\ Proceed(t, [step |-> "withdraw", req |-> r, to |-> to, seen |-> Shown(r)])
              /\ UNCHANGED history
    /\ UNCHANGED <<storeVars, ledgerVars, engineVars, held>>

Withdrawing(t) == Serving(t, "withdraw")
SawAuthorized(t) == job[t].seen = Bound("authorized")
Cancellable(r) == engine[r] \in {"processing", "waiting_for_approval"}
Refused(r) == Free(Coordinator) /\ row[r] \notin {"issued", "cancelled"}

CancelInStore(t) ==
    /\ Withdrawing(t) /\ SawAuthorized(t)
    /\ Cancel(Coordinator, job[t].req)
    /\ Proceed(t, [job[t] EXCEPT !.step = "storing"])
    /\ UNCHANGED <<ledgerVars, engineVars, held, history>>

StoreRefuses(t) ==
    /\ Withdrawing(t) /\ SawAuthorized(t)
    /\ Refused(job[t].req)
    /\ Return(t)
    /\ UNCHANGED <<storeVars, ledgerVars, engineVars, held, history>>

\* Mutant of GiveUp: cancel swallows every exception, as deny does.
GiveUpNever(t) ==
    Proceed(t, [step |-> "answer", req |-> job[t].req,
                write |-> [job[t].seen EXCEPT !.state = job[t].to]])

\* The exception of the engine's cancel_request.  deny swallows it; cancel
\* swallows it if the request had not ended when it was read.
GiveUp(t) ==
    IF job[t].to = "denied" \/ job[t].seen.state \in {"processing", "waiting_for_approval"}
      THEN Proceed(t, [step |-> "answer", req |-> job[t].req,
                       write |-> [job[t].seen EXCEPT !.state = job[t].to]])
      ELSE Return(t)

\* Mutant of CancelInEngine: the ledger is enough.
CancelInLedgerOnly(t) ==
    LET r == job[t].req IN
    /\ Withdrawing(t) /\ ~SawAuthorized(t)
    /\ EngineFree
    /\ Cancellable(r)
    /\ Proceed(t, [step |-> "answer", req |-> r, write |-> Unbound(job[t].to)])
    /\ UNCHANGED <<storeVars, ledgerVars, engineVars, held, history>>

\* The engine's cancel_request, without an authorization, which may raise when
\* it reads the request back, and with one.
CancelInEngine(t) ==
    LET r == job[t].req IN
    /\ Withdrawing(t) /\ ~SawAuthorized(t)
    /\ EngineFree
    /\ Cancellable(r)
    /\ engine' = [engine EXCEPT ![r] = "cancelled"]
    /\ GiveUp(t) \/ Proceed(t, [step |-> "answer", req |-> r, write |-> Unbound(job[t].to)])
    /\ UNCHANGED <<storeVars, ledgerVars, gatesLeft, decisionsUsed, created, held, history>>

RevokeInEngine(t) ==
    /\ Withdrawing(t) /\ ~SawAuthorized(t)
    /\ EngineFree
    /\ engine[job[t].req] = "authorized"
    /\ Cancel(Coordinator, job[t].req)
    /\ Proceed(t, [job[t] EXCEPT !.step = "revoking"])
    /\ UNCHANGED <<ledgerVars, engineVars, held, history>>

\* The rest of the store's cancel; then the call goes on with its snapshot.
FinishCancel(t) ==
    LET r == job[t].req IN
    /\ job[t].step \in {"storing", "revoking"}
    /\ WriteSnapshot(Coordinator) \/ WriteRequest(Coordinator)
    /\ IF pend'[Coordinator] # NoWrite
         THEN UNCHANGED <<engine, job>>
         ELSE /\ engine' = [engine EXCEPT ![r] =
                              IF Serving(t, "revoking") THEN "cancelled" ELSE @]
              /\ Proceed(t, [step |-> "answer", req |-> r, write |-> Bound(job[t].to)])
    /\ UNCHANGED <<ledgerVars, gatesLeft, decisionsUsed, created, held, history>>

\* The engine does not know the request, it has ended, or its authorization
\* is not cancellable.
EngineRefuses(t) ==
    LET r == job[t].req IN
    /\ Withdrawing(t) /\ ~SawAuthorized(t)
    /\ EngineFree
    /\ ~Cancellable(r)
    /\ engine[r] = "authorized" => Refused(r)
    /\ GiveUp(t)
    /\ UNCHANGED <<storeVars, ledgerVars, engineVars, held, history>>

\* A projection write of the store's cancel raises.
CancelBreaks(t) ==
    /\ job[t].step \in {"storing", "revoking"}
    /\ AbandonWrite(Coordinator)
    /\ IF Serving(t, "revoking") THEN GiveUp(t) ELSE Return(t)
    /\ UNCHANGED <<ledgerVars, engineVars, held, history>>

RecordWithdrawn(t) ==
    /\ Serving(t, "answer")
    /\ WriteShown(job[t].req, job[t].write)
    /\ Answer(t, job[t].req)
    /\ UNCHANGED <<row, snapshot, pend, binding, engineVars, held>>

-----------------------------------------------------------------------------
(* get_request and list_requests: _sync_authorization.                     *)

ReadRequest(t, r) ==
    /\ Serving(t, "idle")
    /\ request[r] # "absent"
    /\ Proceed(t, [step |-> "fetch", req |-> r, seen |-> Shown(r)])
    /\ UNCHANGED <<storeVars, ledgerVars, engineVars, held, history>>

\* A snapshot that names its authorization is given that authorization's
\* state; one that does not is replaced by the snapshot the store retained.
Repaired(r, seen) == IF seen.bound THEN Bound(PublicState(row[r])) ELSE Bound(snapshot[r])

FetchRecord(t) ==
    LET r == job[t].req
        seen == job[t].seen
    IN
    /\ Serving(t, "fetch")
    /\ Free(Coordinator)
    /\ IF row[r] = "none" \/ Repaired(r, seen) = seen
         THEN Return(t)
         ELSE Proceed(t, [step |-> "repair", req |-> r, seen |-> seen,
                          write |-> Repaired(r, seen)])
    /\ UNCHANGED <<storeVars, ledgerVars, engineVars, held, history>>

\* Mutant of RepairShown: the repair is an unconditional UPDATE.
RepairAnyway(t) ==
    /\ Serving(t, "repair")
    /\ WriteShown(job[t].req, job[t].write)
    /\ Return(t)
    /\ UNCHANGED <<row, snapshot, pend, binding, engineVars, held, history>>

\* compare_and_swap_request.
RepairShown(t) ==
    LET r == job[t].req IN
    /\ Serving(t, "repair")
    /\ IF Shown(r) = job[t].seen
         THEN WriteShown(r, job[t].write)
         ELSE UNCHANGED <<request, unboundState>>
    /\ Return(t)
    /\ UNCHANGED <<row, snapshot, pend, binding, engineVars, held, history>>

-----------------------------------------------------------------------------
(* set_control: an administrator pauses everything or some domains, revokes *)
(* principals, or lifts it.                                                *)

SetControl ==
    /\ \E refused \in SUBSET Auths : held' = refused
    /\ UNCHANGED <<storeVars, ledgerVars, engineVars, job, history>>

-----------------------------------------------------------------------------
(* The coordinator dies and starts again: httpd.main opens the database    *)
(* and sweeps nothing.  Approvals not yet made into an authorization lapse. *)

Restart ==
    /\ engine' = [r \in Auths |-> "absent"]
    /\ gatesLeft' = [r \in Auths |-> ApprovalGates]
    /\ decisionsUsed' = {}
    /\ job' = [t \in Threads |-> Idle]
    /\ AbandonWrite(Coordinator)
    /\ endorsed' = [r \in Auths |-> {}]
    /\ UNCHANGED <<ledgerVars, created, held, withdrawn>>

-----------------------------------------------------------------------------
(* Other processes on the store.  Their own state is AuthorizationBroker's *)
(* business; here they may do what the store lets them do.                 *)

OutsideStep(c, a) ==
    \/ Reserve(a, 0) /\ Free(c)
    \/ ExpireUnconsumed(a, 1) /\ Free(c)
    \/ \E outcome \in {"executed", "failed", "simulated"} : Complete(c, a, outcome)
    \/ MarkUnknown(c, a)
    \/ RecoverInterrupted(c, a)
    \/ \E outcome \in {"executed", "failed"} : Reconcile(c, a, outcome)

OutsideWrites(c) ==
    \/ RevokeAllIssued(c)
    \/ WriteSnapshot(c)
    \/ WriteRequest(c)
    \/ AbandonWrite(c)

Others(c) ==
    /\ (\E a \in Auths : OutsideStep(c, a)) \/ OutsideWrites(c)
    /\ UNCHANGED <<ledgerVars, engineVars, held, job, history>>

-----------------------------------------------------------------------------
Call(t, r) ==
    \/ Admit(t, r)
    \/ \E signed \in BOOLEAN : ChooseGate(t, r, signed)
    \/ ReadRequest(t, r)
    \/ \E to \in {"cancelled", "denied"} : ReadToWithdraw(t, r, to)

Serve(t) ==
    \/ ReserveKey(t)
    \/ CreateRequest(t)
    \/ CreateFails(t)
    \/ InsertRequest(t)
    \/ IngestApproval(t)
    \/ RejectApproval(t)
    \/ RecordApproved(t)
    \/ CancelInStore(t)
    \/ StoreRefuses(t)
    \/ CancelInEngine(t)
    \/ RevokeInEngine(t)
    \/ FinishCancel(t)
    \/ EngineRefuses(t)
    \/ CancelBreaks(t)
    \/ RecordWithdrawn(t)
    \/ FetchRecord(t)
    \/ RepairShown(t)

Next ==
    \/ \E t \in Threads : Serve(t) \/ \E r \in Auths : Call(t, r)
    \/ SetControl
    \/ \E c \in Outside : Others(c)
    \/ Restart

Spec == Init /\ [][Next]_vars

-----------------------------------------------------------------------------
(* Properties.                                                             *)

\* A key leads the engine to create its request at most once, however often
\* and from however many threads it is sent, and although the engine forgets
\* its own bindings when it dies (controller.py, request_action).
OneCreation == \A r \in Auths : created[r] <= 1

\* A complete binding names a request the ledger has: a replay never ends in
\* "idempotency binding references a missing request".
BindingHasRequest == \A r \in Auths : binding[r] = "complete" => request[r] # "absent"

\* A caller who was told that a request is cancelled or denied before it was
\* authorized can rely on it: no approval under way, and no approval after a
\* restart, authorizes it any more.
WithdrawnNeverIssued ==
    [][\A r \in withdrawn : row[r] = "none" => row'[r] = "none"]_vars

\* While the controls refuse a request, and once the calls let in before have
\* ended, the engine is not led to create it, by a new call, by a retry of one
\* that failed, or by a replay after a restart (controller.py, _allowed, read
\* once at the head of a call of many steps).
Stopped(r) ==
    /\ r \in held
    /\ \A t \in Threads : job[t].step \in {"reserve", "create"} => job[t].req # r
PauseHolds ==
    [][\A r \in Auths : Stopped(r) /\ r \in held' =>
          Stopped(r)' /\ created'[r] = created[r]]_vars

\* An authorization rests on an approval for each gate, given by someone who
\* saw that gate waiting, and no two of them are one signed decision, though
\* the gate is chosen in one call of the engine and passed in another, with
\* other approvals, retries of the same one and restarts between
\* (coordinator.py, approve_request; engine.py, ingest_trusted_approval).
EveryGateApproved ==
    [][\A t \in Threads : Serving(t, "approve") =>
          LET r == job[t].req
              approvals == endorsed[r] \union {job[t].approval}
          IN
          row[r] = "none" /\ row'[r] # "none" /\ job'[t] # job[t] =>
             /\ {approval.gate : approval \in approvals} = Gates
             /\ \A e, f \in approvals : e.signed /\ f.signed => e = f]_vars

\* What the ledger shows of an authorization did happen to it, although
\* approvals, cancellations, repairs and projections write snapshots they
\* read or were given earlier.  (A denial may stand over any of them.)
Reached(shown) ==
    CASE shown = "authorized"      -> RowStates
      [] shown = "consuming"       -> {"executing", "unknown", "executed", "failed",
                                       "simulated"}
      [] shown = "outcome_unknown" -> {"unknown", "executed", "failed"}
      [] OTHER                     -> {shown}

LedgerTruthful ==
    \A r \in Auths : request[r] \in PublicStates => row[r] \in Reached(request[r])

\* A read that repairs the ledger never replaces the outcome of an
\* authorization: an old reader loses against a newer writer
\* (compare_and_swap_request).
Outcomes == {"executed", "failed", "simulated", "expired"}
RepairKeepsOutcome ==
    [][\A t \in Threads, r \in Auths :
          Serving(t, "repair") /\ job[t].req = r /\ job'[t] = Idle /\ request[r] \in Outcomes
             => request'[r] = request[r]]_vars

\* SEMANTIC_GATE_IMPLEMENTATION_GUIDE.md on cancellation against consumption:
\* "The loser receives a non-cancellable/non-consumable error and MUST NOT
\* project its requested state."  Then nobody is told that a request is
\* cancelled or denied when a broker has won.
LoserIsTold ==
    [][\A r \in withdrawn' \ withdrawn :
          row[r] \notin {"executing", "unknown", "executed", "failed", "simulated"}]_vars

\* SEMANTIC_GATE_IMPLEMENTATION_GUIDE.md: "Cancelling an issued authorization
\* must first transition the durable authorization from issued to cancelled".
\* Then no broker takes the authorization of a request whose requester or
\* administrator was told that it is withdrawn.
WithdrawnNeverTaken ==
    [][\A r \in withdrawn : row[r] = "issued" => row'[r] # "executing"]_vars
=============================================================================
