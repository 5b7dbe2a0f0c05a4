# Semantic Gate in TLA+

Semantic Gate lets an agent *ask* for an action and keeps the authority to
perform it elsewhere.  A request walks through the gates of a policy workflow
(schema, condition, tool, notify, approval, execute).  In version 2 the last
gate does not perform the action: it issues a signed, expiring authorization,
stores it in SQLite, and a broker process consumes it once, calling a
downstream MCP server through the adapter host.  An older path signs leases,
which a node's broker executes once.  This directory holds the specifications
of these protocols, the TLC runs that check them and the theorems TLAPS checks
about them.

All paths below are under `src/src/semantic_gate/` unless they say otherwise.

## The system

| Component | State it keeps | Operations |
|---|---|---|
| Gate engine (`engine.py`) | requests with their gate statuses, effective workflows, idempotency bindings, consumed evidence and notification ids, active callbacks; all in memory, under one re-entrant lock | `request_action`, `ingest_trusted_approval`, `cancel_request`, reads |
| Policy loader (`engine.py`) | none | `load_policy`, `_effective_workflow`, `_ancestors`, `_reject_cycles` |
| Tool registry, notifier, verifier (`engine.py`, host) | registered callables | called by the engine with its lock held |
| Authorization store (`authorization.py`) | table `authorizations`: state, snapshot of the request, receipt | `record_issued`, `begin_consumption`, `complete`, `cancel`, `mark_unknown`, `recover_interrupted`, `reconcile`, `revoke_all_issued` |
| Authorization broker (`authorization.py`) | none of its own between calls | `consume_id` |
| Operator's command line (`authorization_admin.py`) | none | list, revoke-issued, recover-interrupted, reconcile |
| Controller (`controller.py`) | none of its own | `request_action`, `approve`, `cancel`, `deny`, `get_request`, `list_requests`, `observe`, `set_control` |
| Ledger (`storage.py`) | tables `requests`, `request_idempotency`, `observations`, `audit`, `controls` | reserve and complete a key, record, compare and swap, observe, prune |
| Coordinator backend (`coordinator.py`) | the engine and a host key | builds evidence for `approve_request` |
| Approval transport (`approvals.py`) | roster of public keys | verifies a signed decision and hands it to the backend |
| HTTP server (`httpd.py`, `server.py`) | sessions | one thread per call into the controller |
| MCP server (`mcp.py`) | lifecycle of a session | the engine's operations as tools |
| Downstream client, adapter host (`downstream_mcp.py`, `adapter_host.py`) | child process, response queue, next id | `call_tool`, start, close |
| Node broker, plugins (`broker.py`, `plugins.py`, `recipe_plugin.py`) | table `consumed` of lease ids | `precheck`, `execute` (legacy) |
| Tokens, credentials, catalog, SDK (`auth.py`, `credentials.py`, `catalog.py`, `client.py`) | a file of credentials | pure functions and I/O |

How they interact.  The coordinator process holds the engine, the controller,
the ledger and one connection to the store; every HTTP call has its own
thread.  Brokers and the operator's command line are other processes with
connections to the same database file.  The engine calls host code (tools,
notifier, verifier, target) while it holds its lock, and that code may call
the engine again from the same thread.  The store copies ("projects") the
state of an authorization into the ledger's `requests` row; the controller
reads that row, decides, calls the engine or the store, and writes a whole
snapshot back.  A human's approval is two calls of the engine: which gate waits,
then the evidence for it.  The reads of a workflow and the target calls of a
broker go through the adapter host, whose clients are shared by threads; each
client owns a child process and a thread that reads its answers into a queue.

What is hard in it:

- brokers, the coordinator and the operator race on one row, with a time stamp
  that is read before the write lock is taken;
- the store's transitions after `begin_consumption` do not run in a
  transaction, so the row, its snapshot and the ledger's row change one by one;
- a token is verified against the clock, then the host's revocation checker is
  asked, so a token can expire while it is asked; the coordinator writes the
  ledger's row whatever the store projected there;
- a target may be affected although its answer, or the record of it, is lost;
- callbacks run under the engine's lock and re-enter it; a gate that blocks may
  raise on the evidence it copies, half done;
- approvals expire while others are awaited; the clock is read more than once;
- a controller's call is read, decide, act, write back, with other threads and
  processes in between, and the process may die anywhere while the database
  stays;
- a call of a downstream server may time out and be answered later, into a queue
  that the next call, or another thread's, reads;
- a server or a start of several servers fails in the middle, and a host is
  closed while calls are under way; the write of a request has no timeout;
- a lease is consumed before it runs and after it was found valid, in threads
  and processes that die.

What makes each part correct:

- *store and broker*: one call of the target per authorization; withdrawn means
  never called; final records, and the snapshots retained with them, are true; nothing
  is left executing in silence;
- *engine*: gates in dependency order; nothing released that was not approved,
  notified and rechecked as the policy says; ids used once; ended means ended;
  a request stops at one gate; what leaves one in "processing" is known; the lock
  becomes free;
- *controller and ledger*: one key, one request; what the ledger shows happened;
  every gate has its own approval; a pause holds; who is told "withdrawn" can
  rely on it;
- *host, client and MCP server*: a call returns the answer to itself, and no more
  is claimed than is known; no child process is left behind; tools wait for the
  handshake; every start and close ends, and every call that its server does not
  leave waiting in a write;
- *node broker*: a lease runs once, for the caller who gets its result.

The hazards behind these properties are listed, each at its line, in
`PROJECT.json`.

## Modules

| Module | What it models |
|---|---|
| `AuthorizationStore` | the store's state and one operator per operation, with the commits of each |
| `AuthorizationBroker` | `consume_id` step by step, composed with the store, the operator and the world (clock, revocation, faults) |
| `SingleUse` | the abstract promise of store and brokers together |
| `WorkflowPolicy` | a workflow as `load_policy` accepts it, and `minimum_control` |
| `GateEngine` | the engine as a stack of activations over that workflow, with callbacks, brokers, operator and clock |
| `GateControl` | the controller's threads over the ledger, the store and an abstract engine, with approvals in two calls, controls and restarts |
| `McpServer` | server processes: `serve_binary` and `process_message` over the lines of a pipe |
| `AdapterHost` | the adapter host and its clients over `McpServer`, or an agent in their place |
| `NodeBroker` | the brokers of one node with their replay store and the recipe plugin |
| `MCAuthorizationBroker`, `MCGateEngine`, `MCGateControl`, `MCAdapterHost`, `MCNodeBroker` | values and symmetry for TLC |
| `AuthorizationBrokerProofs`, `GateEngineProofs`, `GateControlProofs`, `AdapterHostProofs`, `NodeBrokerProofs`, `SingleUseProofs` | the theorems |

`AuthorizationBroker` and `GateControl` both extend `AuthorizationStore`, so one
reading of the store serves the two processes that use it.  `AuthorizationBroker`
and `NodeBroker` both implement `SingleUse`: leases keep the promise that
authorizations keep, with a table of consumed ids in place of a state machine.

### AuthorizationStore and AuthorizationBroker

`row` is `authorizations.state`, `snapshot` the state in the retained
`request_snapshot_json`, `request` the state in the ledger's `requests` row, and
`pend[c]` what connection `c` has still to write.  Connections are opened with
`isolation_level=None`.  The three operations that issue `BEGIN IMMEDIATE`
(`RecordIssued`, `RevokeAllIssued`, and `Reserve` or `ExpireUnconsumed` for
`begin_consumption`) are one step.  The others enter `with self.lock, self.db`,
which opens no transaction on such a connection; they are `Transition` (the
guarded UPDATE), then `WriteSnapshot`, then `WriteRequest`.  `AbandonWrite` is a
statement that fails or a process that dies in between.

`AuthorizationBroker` gives every broker a program counter through
`consume_id`: `Fetch`, `VerifyFirst` and `AskFirst` (the two halves of
`_verify_active`: the clock and the token, then the host's revocation checker) or
`Refuse`, `Stamp` (the clock is read), `BeginConsumption` or `BeginFails`, `Recheck`,
`VerifySecond` and `AskSecond`, `FailPreDispatch`, `Simulate`, `Dispatch`,
`TargetAnswers`, `CompleteExecuted`, `MarkOutcomeUnknown`, `Settle` (the projection).
`WriteFails`, `ProjectionFails` and `Crash` are its faults; a receipt that cannot be
encoded, such as one with a recheck that is no strict JSON, is a `WriteFails`.
`CoordinatorRecords` is the controller's unconditional write of the ledger's row,
with any of `CoordinatorWrites` at any time; which of the controller's calls writes
what is `GateControl`'s business.  The token's signature and bindings are the verdict `Genuine`; `live` says
which tokens were signed with execution enabled and not as simulations, and
`effect` says whether the target was affected, which a lost answer hides from
the broker.  `barred` and `orphaned` are history variables: an authorization is
barred if it was revoked before the second revocation check answered, or expired
before the second verification read the clock.  One that expires while that
check runs is dispatched, by the code and by the model.

### WorkflowPolicy and GateEngine

Gates are numbers in definition order.  `Loadable` is what `load_policy` demands
of the graph and the mode; it is the assumption of every theorem about the
engine.  `Ancestors` is the closure that `_ancestors` walks.

Because every public operation holds one re-entrant lock, the engine is a
`stack` of activations of which the topmost moves.  An activation runs the gate
loop (`mode` "run" at gate `pos`), waits for a callback ("call"), for the
verifier ("verify"), or is between its two readings of the clock ("issue").
`_block` marks its gate and then copies the gate's evidence, which may exceed the
limits of JSON values once a read's result is wrapped; `BlockRaises` is the exception
that escapes then and leaves the request in "processing".  `MayEnter` says who gets in: anybody when the stack is empty, or the callback
that is running when `Reentrant` lets it.  A request's identity is its requester
and idempotency key; a key the engine knows changes nothing.  `grant` is the
engine's view of the store's row, which `Take`, `FindExpired` and
`RevokeAllIssued` change at any moment without the lock.  In version 2 a
simulation-only action is issued an authorization like any other, marked as a
simulation for the broker; in version 1 the engine ends it as "simulated" itself.

### GateControl

A thread's `job` is what it holds in local variables between two steps.  The
ledger's snapshot of a request is `request[r]` when it names the authorization,
else "unbound" with its state in `unboundState[r]`; `binding` is the row of
`request_idempotency`; `held` is what the rows of `controls` refuse.  The engine is
reduced to `engine`, `gatesLeft` and `decisionsUsed`: its inner life is
`GateEngine`'s business.  It may raise after it created, advanced or cancelled a
request (out of a gate, or while it copies the request for the answer), which
leaves the request in "processing" or where it was taken, with the ledger not told.

`request_action` is `Admit` (the controls are read), `ReserveKey`, `CreateRequest`
or `CreateFails`, `InsertRequest`.  An approval is `ChooseGate` (the engine says
which gate waits), then `IngestApproval` or `RejectApproval`, then, for the
controller's but not for a signed one, `RecordApproved`.  Evidence names the gate
that was seen; a signed decision has an id of its own for the engine's memory, a
host's approval a fresh one.  `cancel` and `deny` are one chain of steps that
differ in `to` and in what `GiveUp` swallows.  `get_request` is `ReadRequest`,
`FetchRecord`, `RepairShown`.  `Restart` forgets the engine and the threads and
sweeps nothing, as `httpd.main` does.  What other processes may do to the store is
`OutsideStep` and `OutsideWrites`, without the broker's own discipline.
`withdrawn` and `endorsed` are history variables.

### McpServer and AdapterHost

A line in a pipe is what `process_message` tells apart: readable or not, a request
or a notification, its method, whether its parameters are accepted.  The
server's actions are the branches of that function; `DiesInTool` and `Dies` are
the process's end.  A failure of a tool stands for both of its error codes.

`AdapterHost` adds the host's one starter thread and a thread per call.  A call is
`TakeUp` and `Count` (the two halves of `request_id=self.next_id;
self.next_id+=1`), `Send`, `SendFails` or first `SendBlocks` (the pipe has no room
for the whole line), then `GetsResult`, `GetsRejected` or `TimesOut`.  Any write of a
call may block, so the model needs no size of lines and pipes; a write that has
begun ends when the server has read enough or is dead.  The reader thread moves lines from the pipe to the queue, which gives
its head to whichever thread waits.  `AtomicIds` says whether the interpreter may
switch threads between the two halves: CPython up to 3.9 may do so between any
two bytecodes, from 3.10 on it looks at the switch only at calls and at the end
of a loop.  A target's exceptions are reported as an unknown outcome, even those
of a host that was not started; a read's are raised.

Coarser than the code: two threads' writes to one pipe are not interleaved
within a line, although the pipe promises that only for short ones; closing a
client's pipe and its queue are one step, `Reap`; and `Thread.start` in a client's
constructor, which runs after the server is started and outside the `try` that
would close it, does not fail.

### NodeBroker

A `job` is a thread's place in `execute`: validated (`Present`), `Precheck`,
`Consume` or `Replayed`, `Run` or `NotRunnable`, `Return`.  Envelopes are what the
authority may sign; several may carry one lease id.  `runnable` is the recipe's
executable, which comes and goes.  `Crash` ends the threads of a process and
keeps the replay store.

## Runs

Every passing run ends without an error and every property of it has a mutant:
an operator that changes one definition the way a plausible bug would and that
breaks the property in that run.

| Run | Instance | Question |
|---|---|---|
| `broker_safety` | 1 authorization, live or simulation-only, 2 brokers, 1 process that is coordinator and confirming operator, clock 0..2; fairness | is the target called once, are records and retained snapshots truthful, is `SingleUse` implemented, whatever fails; is every attempt settled or left to recover-interrupted |
| `broker_projection` | the same, no writes of the coordinator | *violated*: finding 1 |
| `engine_authorizes` | version 2; two approvals behind one notification, recheck, execute gate defined first; 2 requests, 4 evidence ids, clock 0..2, expiries 0..4; tool and notifier re-enter | the engine's safety |
| `engine_executes` | version 1, all six kinds of gate, live target beside a simulation-only action; notifier, verifier and target re-enter; fairness | is the target called once and reported, does the engine's lock become free |
| `engine_unequipped` | version 2, simulation-only, no authority in the host; the tool re-enters | does a request stop at one gate and say so |
| `engine_reentrant_verifier` | verifier re-enters | *violated*: finding 2 |
| `control_safety` | 1 request with 2 approvals, 2 threads, 1 outside process | one creation, none while refused, an approval for each gate, truthful ledger, repairs, withdrawals |
| `control_loser` | 1 approval | *violated*: finding 3 |
| `control_withdrawn` | 2 approvals | *violated*: finding 4 |
| `mcp_session` | 1 or 2 downstreams, a read and a target call on the client started last; or an agent with 4 lines; fairness | answers, reports, orphans, handshake, does everything end that does not wait for a server to read |
| `mcp_shared_client` | the same, `AtomicIds` false | *violated*: finding 5 |
| `node_broker` | 2 processes with 2 and 1 threads, 2 leases in 4 envelopes, clock 0..3 | one run, own results, lapsed leases, `SingleUse` |

Why the bounds are enough.  An authorization's row is touched by at most two
processes at a time in any of the races: two brokers, or one and the operator;
a third would repeat one of them.  The clock passes an expiry while a call is
under way in each of its steps.  In the engine two requests are what it takes to
reuse an id; two approvals are what it takes to let one expire, or be followed
by a callback, while the other is awaited.  In the controller every hazard is
between two calls on one request, or one call and a restart or an outside step;
requests share nothing there, so one is enough.  A client's queue and counter
need two threads to be shared, and a partial start needs a second server; an
agent's four lines reach a tool and have one to spare for a line out of place.
In the node a lease needs a rival in its own process, one in another, and a
second envelope that outlives the first.  What more operators, authorizations or
unconfirmed recoveries could do to the broker is left to the theorems, which
need no bound: the proved properties do not
depend on any of these bounds.

Bounds: `MaxClock`, `Horizon` (the expiry a document may carry), the finite sets
of ids, and in `GateControl` that an authorization expires at 1 while outside
processes know the times 0 and 1, `MaxLines` (lines of an agent), `MaxTime`, and that
every call of `AdapterHost` is made once and every server process is started at
most once.  Symmetry is used over processes, requests and
ids in safety runs only, never where liveness is checked.  The engine's runs
switch the deadlock check off: requests and ids are finite and a run of them
really ends; so does the one of `AdapterHost`, whose calls end and whose servers
may be gone.  The others keep it.

In `broker_safety` `CoordinatorWrites` is a snapshot that does not name the authorization and one that
does: `project` only asks whether the row names it.

The safety runs of the engine keep verifiers from entering it (`Reentrant`);
`engine_reentrant_verifier` is the run about those that do.

Fairness.  `AuthorizationBroker!FairSpec` lets a running broker thread run (weak
fairness of its own steps): the code has no wait in it but SQLite's bounded busy
timeout and the host's callbacks, which are assumed to return or raise in the
end, since `consume_id` sets them no timeout.  Nothing is assumed of operators, and
faults need not stop.  `GateEngine!FairSpec` lets the lock's holder run, and has
every callback return in the end however often it enters the engine first
(strong fairness of the return, since a nested activation disables it for a
while); that callbacks return is again an assumption on the host.
`AdapterHost!FairSpec` lets the host's own threads run.  The queue's wait has a
timeout and so have those of `close`, which kills in the end; the write of a
request has none.  So `GoesOn`, the fair steps of a call, have it begin to write
and say nothing of the end of the write: the call waits there as long as its
server neither reads nor dies, and `EverythingEnds` claims only that it ends when
the host is closed, by the server's death.  (The guide, at line 1164, has the client
"enforce the configured timeout"; the code does so for the answer only.)  The
starter's two lines are short and alone in their pipe, and are written at once.
Nothing is assumed of servers, which may hang in a tool or never read, and nothing
of the reader.

## Findings

Each is a run whose property states what a document of the repository says and
which TLC finds violated.

1. `broker_projection` (`authorization.py:295`): the guide has every mutation and
   its projection in one write transaction; these five operations open none.  A
   slow projection of `mark_unknown` lands after the operator's reconciliation
   and the ledger keeps showing `outcome_unknown`.  (`_sync_authorization` repairs
   that row when it is next read through the controller.)
2. `engine_reentrant_verifier` (`engine.py:848`): an evidence id is looked up
   before the verifier runs and recorded after it.  A verifier that calls the
   engine can have one id accepted for two requests.  With verifiers that do not
   re-enter the property is proved.
3. `control_loser` (`controller.py:204`): `deny` swallows the refusal of a
   cancellation that lost against a broker and answers and records "denied".
4. `control_withdrawn` (`controller.py:170`, `:204`): when the ledger's snapshot does
   not name the authorization that exists, a withdrawal is answered as done while
   the authorization stays issued, and a broker takes it.
5. `mcp_shared_client` (`downstream_mcp.py:50`): the guide has the client "bind every
   response ID".  Two threads that share a client may take one id on CPython 3.9,
   which the package supports and its CI tests, and one then returns the other's
   result.  With ids taken in one step the property holds (`mcp_session`).

The guide also has the client "terminate its direct child on close or failure";
after a timeout of a call the child lives until the host is closed, and the late
answer makes every later call of that client fail on its id.  No run claims
anything about that: it costs availability, not honesty.  Nor is a request that `_block` leaves in
"processing" a finding: no document says that there is none, and `cancel_request`
ends it.

Findings 3 and 4 were reproduced with the repository's own classes: deny after
`begin_consumption`; and cancel after a restart, when a signed approval reached
the engine before the controller's insert.

## What is proved

TLAPS checks the following for every value of the constants that satisfies the
named assumptions (`StoreAssumption`, `BrokerAssumption`; `PolicyAssumption`,
`EngineAssumption`; `ControlAssumption`; `HostAssumption`; `NodeAssumption`).

*Broker* (`AuthorizationBrokerProofs`).  `SingleCall` is not inductive: it does not
say that a broker inside an attempt is alone there.  `AttemptInv` adds that a row
that can still be reserved has no calls and no broker inside its attempt, that
no two brokers are inside the same one, that a broker before its dispatch has
made no call, and that a settled broker owes only its own projection.  From it
follow `SingleCallHolds` and `WithdrawnNeverCalledHolds`, without any assumption on
operators.  `BarredNeverCalledHolds` adds that no broker is cleared for a barred
authorization, and none has its second verification behind it if the authorization
is barred because it expired, `NoSilentOrphanHolds` that a row which begins to execute has its
broker, who leaves it settled or orphaned.  `TruthfulRecordHolds` and `ImplementsSingleUseHolds` assume
`OperatorConfirms`: `TruthInv` relates `effect` to where the broker is and to what
an operator may enter.  `RetainedViewTruthfulHolds` assumes the same: `ViewInv` says
that a final state in the retained snapshot is the row's, and so is one that a
connection has still to write.  The ledger's own row is not covered: the
controller writes it too, and `GateControl` says what it shows.  The refinement is proved action by action: every step is
a step of `SingleUse` under `RecordOf`, or changes nothing it can see.

*Engine* (`GateEngineProofs`).  `EngineInv` is proved for every loadable workflow and
any set of requests.  Its parts: an activation outside a callback is the topmost
(`LockInv`); a request that is processing has an activation, or a gate whose
block raised, one approval gate waits while the request waits, one gate stopped a
request that ended early, and a callback's gate is ready (`Course`); whatever was touched had its requirements met (`Ordered`); what the
statuses and the recorded documents stand for (`ByKind`, `EvidenceInv`); and what
was given out (`ReleaseInv`, `GrantInv`, `TargetInv`, `LifetimeInv`).  From it follow
`GatesInOrder` (over the closure of requirements, by the least closed set),
`ReleaseHonoursPolicy` (with the graph rules of `Loadable`),
`AuthorizationWithinApprovals`, `CancelledNeverTaken`, `OutcomeReported`,
`NoneAbandoned` (some pending gate is ready, by acyclicity), `OneGateStops` and
`TerminalFinal`.
`NoticeSingleUseHolds` and `EvidenceSingleUseHolds` have invariants of their own; the
latter assumes that verifiers do not enter the engine, which finding 2 shows to
be needed.

*Controller* (`GateControlProofs`).  All eight properties of `control_safety` are
proved, for any number of threads, requests, approval gates and other processes.
What the ledger shows is written from snapshots that are read, handed from the
engine or kept in local variables, so `LedgerTruthful` alone is not inductive:
`ControlInvariant` says that every snapshot that names an authorization, wherever
it is held (in `request`, in the store's retained one, in a connection's pending
projection, in a thread's job) is one that the row has reached, and that the row
only goes forward.  `OneCreation`, `BindingHasRequest` and `PauseHolds` rest on the
key: a key that is not reserved has no thread creating for it, a reserved one at
most one, and an inserted request stays.  `WithdrawnNeverIssued` rests on what is
"over": a request that was withdrawn without an authorization is ended or forgotten
in the engine, and no thread can create it again.  `EveryGateApproved` keeps, with
`endorsed`, which gates the approvals since the last restart have passed and which
of them was the signed one.

*Host, client and MCP server* (`AdapterHostProofs`).  With the types goes
`StarterInv`: what the host holds when its one starter is where it is, and that
nobody acts for the host in an agent's session.  `HandshakeFirstHolds` relates
what the server remembers to what it heard.  `NoOrphanChildHolds` needs
`ChildrenKept`: a server that runs is being started or closed, or is a client the
host has still to close.  `AnswersOwnHolds` and `OutcomeHonestHolds` rest on what
is on its way.  A request that is sent or waiting has an id below `next_id` that no
other request of that client has (`IdInv`), and every line of a pipe and item of a
queue with that id is that request or its answer (`FitsInv`), so an answer that is
late, or in the hands of another thread, is either one's own or refused.  A call
that was not written has no line and no run, and a written one has at most one line
or one run (`CallsHonest`, `LinesHonest`), so an answer with a result comes from a
run (`RepliesHonest`).  Both assume `AtomicIds`, without which `IdInv` is false
(finding 5); `RunsAtMostOnce` states what holds of the effects without it.

*Node broker* (`NodeBrokerProofs`).  A thread that may still run a lease is the only
one, its id is on record and the lease has not run; from this `LeaseOnceHolds`,
`ResultIsOwnHolds`, `LapsedStaysUnrunHolds` and the refinement
`NodeImplementsSingleUse` follow.

*The promise* (`SingleUseProofs`).  What an implementation of `SingleUse` inherits:
`PromiseKeptHolds` (one act at most, none for what was withdrawn, a settled record
that tells whether the target was affected) and `OverIsFinalHolds` (what is
withdrawn or settled is neither acted on nor rewritten).  Without these the two
refinements would say that store and node agree with a specification, and not
that the specification is worth agreeing with.

Only model-checked: the liveness properties `AttemptsSettle`, `LockReleased` and
`EverythingEnds`, since TLAPS does not treat fairness here.  Every other property
of a passing run is proved.

## What is not modelled

Cryptography and canonical JSON (their verdicts are sets), schema and field
validation, the validation of adapter and plugin configurations, HTTP routing,
sessions and rendering, the catalog, credentials and the SDK client.  Receipts,
audit rows, consumers and update times are data no property here speaks of.
Observations (`observe`, `record_observation` and its pruning) are a log beside the
gate: nothing reads them to decide.  `expire_unresolved` has no caller outside the
tests, and a test demands that `httpd` does not call it.  `PROJECT.json` lists every
component with its status.

## Plan

In order of what matters most; what is done is described above.

1. the engine with the real store in place of `grant`, and `GateControl`'s abstract
   engine as a refinement of `GateEngine`;
2. observations: deduplication by event id against pruning at the limit;
3. pure operators against reference definitions: `_json_equal`, `_compare`, the
   depth-first `_reject_cycles` and `_ancestors` against `Acyclic` and `Ancestors`.
