------------------------------ MODULE NodeBroker ------------------------------
(***************************************************************************)
(* The brokers of one node (broker.py) with its plugin (plugins.py,        *)
(* recipe_plugin.py): processes whose threads execute signed leases and    *)
(* share one durable replay store.  An envelope is what the authority      *)
(* signs; a lease id may be signed more than once, for instance with a     *)
(* later expiry.  A process may die between any two steps of its threads.  *)
(***************************************************************************)
EXTENDS Naturals

CONSTANTS
    Processes,      \* broker processes of the node
    Threads,        \* their threads
    ProcessOf,      \* thread -> its process
    Leases,         \* lease ids
    Envelopes,      \* the envelopes that may ever be signed
    LeaseOf,        \* envelope -> its lease_id
    Addressed,      \* envelopes that name this node, its plugin and one of its actions
    IssuedAt,       \* envelope -> issued_at
    ExpiresAt,      \* envelope -> expires_at
    MaxTime         \* bound of the clock

ASSUME NodeAssumption ==
    /\ ProcessOf \in [Threads -> Processes]
    /\ LeaseOf \in [Envelopes -> Leases]
    /\ Addressed \subseteq Envelopes
    /\ IssuedAt \in [Envelopes -> Nat]
    /\ ExpiresAt \in [Envelopes -> Nat]
    /\ MaxTime \in Nat

VARIABLES
    clock,
    signed,     \* envelopes the authority has signed
    runnable,   \* the recipe's executable is there and may be executed
    consumed,   \* lease ids in the replay store
    job,        \* thread -> the call of execute it serves
    runs,       \* lease -> how often the recipe was run for it
    effect,     \* lease -> the recipe did what it is for
    results     \* envelopes whose caller got a result

worldVars == <<clock, signed, runnable>>
runVars == <<runs, effect>>
vars == <<worldVars, consumed, job, runVars, results>>

Idle == [step |-> "idle"]
Jobs ==
    {Idle} \union
    [step : {"precheck", "consume", "execute"}, env : Envelopes] \union
    [step : {"running"}, env : Envelopes, succeeds : BOOLEAN]

TypeOK ==
    /\ clock \in 0..MaxTime
    /\ signed \subseteq Envelopes
    /\ runnable \in BOOLEAN
    /\ consumed \subseteq Leases
    /\ job \in [Threads -> Jobs]
    /\ runs \in [Leases -> Nat]
    /\ effect \in [Leases -> BOOLEAN]
    /\ results \subseteq Envelopes

Init ==
    /\ clock = 0
    /\ signed = {}
    /\ runnable \in BOOLEAN
    /\ consumed = {}
    /\ job = [t \in Threads |-> Idle]
    /\ runs = [l \in Leases |-> 0]
    /\ effect = [l \in Leases |-> FALSE]
    /\ results = {}

-----------------------------------------------------------------------------
Serving(t, step) == job[t].step = step
Lease(t) == LeaseOf[job[t].env]
Proceed(t, step) == job' = [job EXCEPT ![t].step = step]
Ends(t) == job' = [job EXCEPT ![t] = Idle]

\* HMACLeaseAuthority.issue.
Issue(e) ==
    /\ signed' = signed \union {e}
    /\ UNCHANGED <<clock, runnable, consumed, job, runVars, results>>

\* Mutant of Valid: expires_at is taken as the last valid second.
ValidThrough(e) ==
    e \in signed \intersect Addressed /\ IssuedAt[e] <= clock /\ clock <= ExpiresAt[e]

\* _validate: anything else is refused before the plugin is asked.
Valid(e) == e \in signed \intersect Addressed /\ IssuedAt[e] <= clock /\ clock < ExpiresAt[e]

Present(t, e) ==
    /\ Serving(t, "idle")
    /\ Valid(e)
    /\ job' = [job EXCEPT ![t] = [step |-> "precheck", env |-> e]]
    /\ UNCHANGED <<worldVars, consumed, runVars, results>>

\* The plugin's precheck, and its answer.
Precheck(t) ==
    /\ Serving(t, "precheck")
    /\ IF runnable THEN Proceed(t, "consume") ELSE Ends(t)
    /\ UNCHANGED <<worldVars, consumed, runVars, results>>

\* Mutant of Consume: the id is looked up first and put on record afterwards.
ConsumeLookedUp(t) ==
    /\ Serving(t, "consume")
    /\ Lease(t) \notin consumed
    /\ Proceed(t, "execute")
    /\ UNCHANGED <<worldVars, consumed, runVars, results>>

\* Mutant of Consume: the failed insertion is not an error.
ConsumeOrIgnore(t) ==
    /\ Serving(t, "consume")
    /\ consumed' = consumed \union {Lease(t)}
    /\ IF Lease(t) \in consumed
         THEN Ends(t) /\ results' = results \union {job[t].env}
         ELSE Proceed(t, "execute") /\ UNCHANGED results
    /\ UNCHANGED <<worldVars, runVars>>

\* SQLiteReplayStore.consume: inserts the id, whatever the time is by now.
Consume(t) ==
    /\ Serving(t, "consume")
    /\ Lease(t) \notin consumed
    /\ consumed' = consumed \union {Lease(t)}
    /\ Proceed(t, "execute")
    /\ UNCHANGED <<worldVars, runVars, results>>

Replayed(t) ==
    /\ Serving(t, "consume")
    /\ Lease(t) \in consumed
    /\ Ends(t)
    /\ UNCHANGED <<worldVars, consumed, runVars, results>>

\* The recipe is run.  It may have its effect and fail or run out of time all
\* the same; if it succeeds it had its effect.
Run(t) ==
    /\ Serving(t, "execute")
    /\ runnable
    /\ runs' = [runs EXCEPT ![Lease(t)] = @ + 1]
    /\ \E done, succeeds \in BOOLEAN :
         /\ succeeds => done
         /\ effect' = [effect EXCEPT ![Lease(t)] = done]
         /\ job' = [job EXCEPT ![t] = [step |-> "running", env |-> @.env, succeeds |-> succeeds]]
    /\ UNCHANGED <<worldVars, consumed, results>>

\* The executable is gone since the precheck: the lease is spent for nothing.
NotRunnable(t) ==
    /\ Serving(t, "execute")
    /\ ~runnable
    /\ Ends(t)
    /\ UNCHANGED <<worldVars, consumed, runVars, results>>

Return(t) ==
    /\ Serving(t, "running")
    /\ results' = IF job[t].succeeds THEN results \union {job[t].env} ELSE results
    /\ Ends(t)
    /\ UNCHANGED <<worldVars, consumed, runVars>>

\* Mutant of Crash: the consumed ids are only in memory.
CrashForgets(p) ==
    /\ job' = [t \in Threads |-> IF ProcessOf[t] = p THEN Idle ELSE job[t]]
    /\ consumed' = {}
    /\ UNCHANGED <<worldVars, runVars, results>>

\* The process dies and is started again; the replay store stays.
Crash(p) ==
    /\ job' = [t \in Threads |-> IF ProcessOf[t] = p THEN Idle ELSE job[t]]
    /\ UNCHANGED <<worldVars, consumed, runVars, results>>

Tick ==
    /\ clock < MaxTime
    /\ clock' = clock + 1
    /\ UNCHANGED <<signed, runnable, consumed, job, runVars, results>>

\* Somebody installs or removes the executable.
Change ==
    /\ runnable' = ~runnable
    /\ UNCHANGED <<clock, signed, consumed, job, runVars, results>>

ThreadStep(t) ==
    \/ Precheck(t)
    \/ Consume(t)
    \/ Replayed(t)
    \/ Run(t)
    \/ NotRunnable(t)
    \/ Return(t)

Next ==
    \/ \E t \in Threads : ThreadStep(t) \/ \E e \in Envelopes : Present(t, e)
    \/ \E e \in Envelopes : Issue(e)
    \/ \E p \in Processes : Crash(p)
    \/ Tick
    \/ Change

Spec == Init /\ [][Next]_vars

-----------------------------------------------------------------------------
(* Properties.                                                             *)

\* A lease leads to one run of its recipe at most, whatever threads and
\* processes present it, however often it is signed and whenever they die
\* (NodeBroker.execute: the id is on record before the plugin is called).
LeaseOnce == \A l \in Leases : runs[l] <= 1

\* A caller who gets a result holds the result of a run of its own envelope:
\* it happened, and nobody else got a result for the same lease
\* (NodeBroker.execute raises on a replay instead of answering).
ResultIsOwn ==
    \A e \in results :
        /\ effect[LeaseOf[e]]
        /\ \A f \in results : LeaseOf[f] = LeaseOf[e] => f = e

\* A lease that has expired before it ran and that no call holds stays as it
\* is: no call that comes later runs it.  (A call that was let in before the
\* expiry may run it afterwards: precheck and consumption take their time.)
Holds(t, l) == job[t] # Idle /\ Lease(t) = l
Lapsed(l) ==
    /\ \A e \in Envelopes : LeaseOf[e] = l => ExpiresAt[e] <= clock
    /\ \A t \in Threads : ~Holds(t, l)
    /\ runs[l] = 0

LapsedStaysUnrun == [][\A l \in Leases : Lapsed(l) => Lapsed(l)']_vars

\* The abstract promise: a signed lease is available until its id is on
\* record, and whoever put it there may act once.
Abstract == INSTANCE SingleUse WITH
    Auths <- Leases,
    record <- [l \in Leases |-> IF l \in consumed THEN "taken"
                                ELSE IF \E e \in signed : LeaseOf[e] = l THEN "available"
                                ELSE "none"],
    acts <- runs,
    affected <- effect

\* Leases keep the same promise as authorizations: every step of the node is
\* a step of SingleUse or one it does not see.
ImplementsSingleUse == Abstract!Spec
=============================================================================
