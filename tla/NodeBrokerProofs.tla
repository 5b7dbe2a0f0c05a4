-------------------------- MODULE NodeBrokerProofs --------------------------
(***************************************************************************)
(* Proofs about NodeBroker, for any number of processes, threads, leases   *)
(* and envelopes: an invariant with what is true of a lease while a thread *)
(* holds its consumption, the three invariants of the run as its           *)
(* consequences, and the refinement of SingleUse.                          *)
(***************************************************************************)
EXTENDS NodeBroker, TLAPS

Spending(t) == job[t].step \in {"execute", "running"}

\* A thread only holds an envelope that was signed.
HeldSigned == \A t \in Threads : job[t] # Idle => job[t].env \in signed

\* An id on record is the id of a signed envelope.
ConsumedSigned == \A l \in consumed : \E e \in signed : LeaseOf[e] = l

\* The thread whose insertion succeeded is the only one that acts on a lease.
SpenderAlone ==
    \A t, u \in Threads : Spending(t) /\ Spending(u) /\ Lease(t) = Lease(u) => t = u

\* What has happened when a thread is about to run a recipe, or has run it.
SpendingState ==
    \A t \in Threads :
        /\ Spending(t) => Lease(t) \in consumed
        /\ Serving(t, "execute") => runs[Lease(t)] = 0
        /\ Serving(t, "running") => runs[Lease(t)] = 1
        /\ Serving(t, "running") /\ job[t].succeeds => effect[Lease(t)]

\* A recipe is run for a lease on record, and at most once.
RunsRecorded == \A l \in Leases : runs[l] # 0 => runs[l] = 1 /\ l \in consumed

\* Who got a result was the last to hold the lease.
ResultsSettled ==
    \A e \in results :
        /\ runs[LeaseOf[e]] = 1
        /\ effect[LeaseOf[e]]
        /\ \A t \in Threads : Spending(t) => Lease(t) # LeaseOf[e]

ResultsAlone == \A e, f \in results : LeaseOf[e] = LeaseOf[f] => e = f

IInv ==
    /\ TypeOK
    /\ HeldSigned
    /\ ConsumedSigned
    /\ SpenderAlone
    /\ SpendingState
    /\ RunsRecorded
    /\ ResultsSettled
    /\ ResultsAlone

-----------------------------------------------------------------------------
LEMMA InitInvariant ==
  ASSUME NodeAssumption, Init
  PROVE  IInv
BY DEF NodeAssumption, Init, IInv, TypeOK, HeldSigned, ConsumedSigned, SpenderAlone,
       SpendingState, RunsRecorded, ResultsSettled, ResultsAlone, Spending, Serving, Idle,
       Jobs

\* The type of a held job.
LEMMA JobType ==
  ASSUME NodeAssumption, TypeOK, NEW t \in Threads, job[t] # Idle
  PROVE  /\ job[t].env \in Envelopes
         /\ Lease(t) \in Leases
         /\ Serving(t, "running") => job[t].succeeds \in BOOLEAN
BY DEF NodeAssumption, TypeOK, Jobs, Lease, Idle, Serving

\* A job that goes on has its new step and its envelope.
LEMMA ProceedMoves ==
  ASSUME TypeOK, NEW t \in Threads, NEW step \in {"precheck", "consume", "execute"},
         job[t].step \in {"precheck", "consume", "execute"}, Proceed(t, step)
  PROVE  /\ job' \in [Threads -> Jobs]
         /\ job'[t].step = step /\ job'[t].env = job[t].env /\ job'[t] # Idle
         /\ \A u \in Threads : u # t => job'[u] = job[u]
<1> DEFINE j == [job[t] EXCEPT !.step = step]
<1>1. job[t] \in [step : {"precheck", "consume", "execute"}, env : Envelopes]
  BY DEF TypeOK, Jobs, Idle
<1>2. /\ j \in [step : {"precheck", "consume", "execute"}, env : Envelopes]
      /\ j.step = step /\ j.env = job[t].env
  BY <1>1
<1>3. j \in Jobs /\ j # Idle
  BY <1>2 DEF Jobs, Idle
<1>4. job' = [job EXCEPT ![t] = j]
  BY DEF Proceed
<1> HIDE DEF j
<1>5. QED
  BY <1>2, <1>3, <1>4 DEF TypeOK

\* A step at which no thread comes to act on a lease: threads may take up signed
\* envelopes, go on before the consumption, and end.
LEMMA QuietStep ==
  ASSUME IInv, TypeOK', UNCHANGED <<consumed, runVars, results>>, signed \subseteq signed',
         \A t \in Threads :
            \/ job'[t] = job[t]
            \/ job'[t] = Idle
            \/ job'[t].env \in signed' /\ job'[t].step \in {"precheck", "consume"}
  PROVE  IInv'
<1>1. UNCHANGED <<consumed, runs, effect, results>>
  BY DEF runVars
<1>2. \A t \in Threads : job'[t].step \in {"execute", "running"} => job'[t] = job[t]
  BY DEF Idle
<1>3. HeldSigned'
  BY DEF IInv, HeldSigned
<1>4. ConsumedSigned'
  BY <1>1 DEF IInv, ConsumedSigned
<1>5. SpenderAlone' /\ SpendingState'
  BY <1>1, <1>2 DEF IInv, SpenderAlone, SpendingState, Spending, Serving, Lease
<1>6. RunsRecorded'
  BY <1>1 DEF IInv, RunsRecorded
<1>7. ResultsSettled' /\ ResultsAlone'
  BY <1>1, <1>2 DEF IInv, ResultsSettled, ResultsAlone, Spending, Lease
<1>8. QED
  BY <1>3, <1>4, <1>5, <1>6, <1>7 DEF IInv

LEMMA ConsumeInvariant ==
  ASSUME NodeAssumption, IInv, NEW t \in Threads, Consume(t)
  PROVE  IInv'
<1> USE DEF IInv
<1>1. /\ job[t] # Idle /\ job[t].step = "consume"
      /\ Lease(t) \in Leases /\ Lease(t) \notin consumed
      /\ consumed' = consumed \union {Lease(t)}
      /\ UNCHANGED <<clock, signed, runnable, runs, effect, results>>
  BY JobType DEF Consume, Serving, Idle, worldVars, runVars
<1>2. /\ job' \in [Threads -> Jobs]
      /\ job'[t].step = "execute" /\ job'[t].env = job[t].env
      /\ \A u \in Threads : u # t => job'[u] = job[u]
  BY <1>1, ProceedMoves DEF Consume
<1>3. TypeOK'
  BY <1>1, <1>2 DEF TypeOK
<1>4. HeldSigned'
  BY <1>1, <1>2 DEF HeldSigned
<1>5. ConsumedSigned'
  BY <1>1 DEF ConsumedSigned, HeldSigned, Lease
<1>6. \A u \in Threads : Lease(u)' = Lease(u)
  BY <1>2 DEF Lease
<1>7. \A u \in Threads : Spending(u) => Lease(u) # Lease(t)
  BY <1>1 DEF SpendingState
<1>8. SpenderAlone'
  BY <1>2, <1>6, <1>7 DEF SpenderAlone, Spending
<1>9. runs[Lease(t)] = 0
  BY <1>1 DEF RunsRecorded
<1>10. SpendingState'
  BY <1>1, <1>2, <1>6, <1>9 DEF SpendingState, Spending, Serving
<1>11. RunsRecorded'
  BY <1>1 DEF RunsRecorded
<1>12. ResultsSettled' /\ ResultsAlone'
  <2>1. \A e \in results : Lease(t) # LeaseOf[e]
    BY <1>9 DEF ResultsSettled
  <2>2. QED
    BY <1>1, <1>2, <1>6, <2>1 DEF ResultsSettled, ResultsAlone, Spending
<1>13. QED
  BY <1>3, <1>4, <1>5, <1>8, <1>10, <1>11, <1>12

LEMMA RunInvariant ==
  ASSUME NodeAssumption, IInv, NEW t \in Threads, Run(t)
  PROVE  IInv'
<1> USE DEF IInv
<1>1. /\ job[t] # Idle /\ job[t].env \in Envelopes /\ Lease(t) \in Leases
      /\ Spending(t) /\ Lease(t) \in consumed /\ runs[Lease(t)] = 0
      /\ UNCHANGED <<clock, signed, runnable, consumed, results>>
  BY JobType DEF Run, Serving, Idle, Spending, SpendingState, worldVars
<1>2. PICK done \in BOOLEAN, succeeds \in BOOLEAN :
        /\ succeeds => done
        /\ effect' = [effect EXCEPT ![Lease(t)] = done]
        /\ job' = [job EXCEPT ![t] = [step |-> "running", env |-> job[t].env,
                                     succeeds |-> succeeds]]
  BY DEF Run
<1>3. runs' = [runs EXCEPT ![Lease(t)] = 1]
  <2>1. runs' = [runs EXCEPT ![Lease(t)] = runs[Lease(t)] + 1]
    BY DEF Run
  <2>2. QED
    BY <1>1, <2>1
<1>4. /\ job'[t].step = "running" /\ job'[t].env = job[t].env /\ job'[t].succeeds = succeeds
      /\ \A u \in Threads : u # t => job'[u] = job[u]
      /\ \A u \in Threads : Lease(u)' = Lease(u)
  BY <1>2 DEF TypeOK, Lease
<1>5. TypeOK'
  <2>1. [step |-> "running", env |-> job[t].env, succeeds |-> succeeds] \in Jobs
    BY <1>1 DEF Jobs
  <2>2. job' \in [Threads -> Jobs]
    BY <1>2, <2>1 DEF TypeOK
  <2>3. runs' \in [Leases -> Nat] /\ effect' \in [Leases -> BOOLEAN]
    BY <1>2, <1>3 DEF TypeOK
  <2>4. QED
    BY <1>1, <2>2, <2>3 DEF TypeOK
<1>6. HeldSigned' /\ ConsumedSigned'
  BY <1>1, <1>4 DEF HeldSigned, ConsumedSigned
<1>7. \A u \in Threads : u # t /\ Spending(u) => Lease(u) # Lease(t)
  BY <1>1 DEF SpenderAlone
<1>8. SpenderAlone'
  BY <1>4, <1>7 DEF SpenderAlone, Spending
<1>9. /\ runs'[Lease(t)] = 1 /\ effect'[Lease(t)] = done
      /\ \A l \in Leases : l # Lease(t) => runs'[l] = runs[l] /\ effect'[l] = effect[l]
  BY <1>1, <1>2, <1>3 DEF TypeOK
<1>10. SpendingState'
  <2>1. ASSUME NEW u \in Threads, u # t, Spending(u)
        PROVE  Lease(u) \in Leases /\ Lease(u) # Lease(t)
    BY <1>7, <2>1, JobType DEF Spending, Idle
  <2>2. QED
    BY <1>1, <1>2, <1>4, <1>9, <2>1 DEF SpendingState, Spending, Serving
<1>11. RunsRecorded'
  BY <1>1, <1>9 DEF RunsRecorded
<1>12. ResultsSettled' /\ ResultsAlone'
  <2>1. \A e \in results : LeaseOf[e] \in Leases /\ Lease(t) # LeaseOf[e]
    BY <1>1 DEF ResultsSettled, TypeOK, NodeAssumption
  <2>2. QED
    BY <1>1, <1>4, <1>9, <2>1 DEF ResultsSettled, ResultsAlone, Spending
<1>13. QED
  BY <1>5, <1>6, <1>8, <1>10, <1>11, <1>12

LEMMA ReturnInvariant ==
  ASSUME NodeAssumption, IInv, NEW t \in Threads, Return(t)
  PROVE  IInv'
<1> USE DEF IInv
<1>1. /\ job[t] # Idle /\ job[t].env \in Envelopes /\ Spending(t)
      /\ Serving(t, "running") /\ job[t].succeeds \in BOOLEAN
      /\ UNCHANGED <<clock, signed, runnable, consumed, runs, effect>>
  BY JobType DEF Return, Serving, Idle, Spending, worldVars, runVars
<1>2. /\ job' \in [Threads -> Jobs] /\ job'[t] = Idle
      /\ \A u \in Threads : u # t => job'[u] = job[u]
  BY DEF Return, Ends, TypeOK, Jobs
<1>3. \A u \in Threads : job'[u] # Idle => u # t /\ job'[u] = job[u]
  BY <1>2
<1>4. \A u \in Threads : Spending(u)' => u # t /\ job'[u] = job[u] /\ Spending(u)
  BY <1>2 DEF Spending, Idle
<1>5. \/ results' = results \union {job[t].env} /\ job[t].succeeds
      \/ results' = results
  BY DEF Return
<1>6. TypeOK'
  BY <1>1, <1>2, <1>5 DEF TypeOK
<1>7. HeldSigned' /\ ConsumedSigned' /\ RunsRecorded'
  BY <1>1, <1>3 DEF HeldSigned, ConsumedSigned, RunsRecorded
<1>8. SpenderAlone'
  BY <1>4 DEF SpenderAlone, Lease
<1>9. SpendingState'
  BY <1>1, <1>4 DEF SpendingState, Serving, Spending, Lease
<1>10. ResultsSettled'
  <2>1. \A u \in Threads : Spending(u)' => Lease(u)' # Lease(t) /\ Lease(u)' = Lease(u)
    BY <1>1, <1>4 DEF SpenderAlone, Lease
  <2>2. job[t].succeeds => runs[Lease(t)] = 1 /\ effect[Lease(t)]
    BY <1>1 DEF SpendingState
  <2>3. QED
    BY <1>1, <1>4, <1>5, <2>1, <2>2 DEF ResultsSettled, Lease
<1>11. ResultsAlone'
  <2>1. \A e \in results : LeaseOf[e] # Lease(t)
    BY <1>1 DEF ResultsSettled
  <2>2. QED
    BY <1>5, <2>1 DEF ResultsAlone, Lease
<1>12. QED
  BY <1>6, <1>7, <1>8, <1>9, <1>10, <1>11

LEMMA NextInvariant ==
  ASSUME NodeAssumption, IInv, Next
  PROVE  IInv'
<1> USE NodeAssumption
<1>0. TypeOK /\ HeldSigned
  BY DEF IInv
<1>1. ASSUME NEW t \in Threads, NEW e \in Envelopes, Present(t, e) PROVE IInv'
  <2>1. /\ e \in signed /\ UNCHANGED <<clock, signed, runnable, consumed, runVars, results>>
        /\ job' = [job EXCEPT ![t] = [step |-> "precheck", env |-> e]]
    BY <1>1 DEF Present, Valid, worldVars
  <2>2. [step |-> "precheck", env |-> e] \in Jobs
    BY DEF Jobs
  <2>3. TypeOK'
    BY <1>0, <2>1, <2>2 DEF TypeOK, runVars
  <2>4. QED
    BY <1>0, <2>1, <2>3, QuietStep DEF TypeOK
<1>2. ASSUME NEW t \in Threads, Ends(t),
             UNCHANGED <<worldVars, consumed, runVars, results>>
      PROVE  IInv'
  <2>1. TypeOK'
    BY <1>0, <1>2 DEF Ends, TypeOK, Jobs, worldVars, runVars
  <2>2. QED
    BY <1>0, <1>2, <2>1, QuietStep DEF Ends, TypeOK, worldVars
<1>3. ASSUME NEW t \in Threads, Precheck(t) PROVE IInv'
  <2>1. CASE runnable
    <3>1. Proceed(t, "consume") /\ job[t].step = "precheck"
      BY <1>3, <2>1 DEF Precheck, Serving
    <3>2. /\ job' \in [Threads -> Jobs]
          /\ job'[t].step = "consume" /\ job'[t].env = job[t].env
          /\ \A u \in Threads : u # t => job'[u] = job[u]
      BY <1>0, <3>1, ProceedMoves
    <3>3. job[t].env \in signed
      BY <1>0, <3>1 DEF HeldSigned, Idle
    <3>4. UNCHANGED <<clock, signed, runnable, consumed, runVars, results>>
      BY <1>3 DEF Precheck, worldVars
    <3>5. TypeOK'
      BY <1>0, <3>2, <3>4 DEF TypeOK, runVars
    <3>6. QED
      BY <3>2, <3>3, <3>4, <3>5, QuietStep
  <2>2. CASE ~runnable
    BY <1>2, <1>3, <2>2 DEF Precheck
  <2>3. QED
    BY <2>1, <2>2
<1>4. ASSUME NEW t \in Threads, Replayed(t) \/ NotRunnable(t) PROVE IInv'
  BY <1>2, <1>4 DEF Replayed, NotRunnable
<1>5. ASSUME NEW p \in Processes, Crash(p) PROVE IInv'
  <2>1. /\ job' = [t \in Threads |-> IF ProcessOf[t] = p THEN Idle ELSE job[t]]
        /\ UNCHANGED <<clock, signed, runnable, consumed, runVars, results>>
    BY <1>5 DEF Crash, worldVars
  <2>2. TypeOK'
    BY <1>0, <2>1 DEF TypeOK, Jobs, runVars
  <2>3. QED
    BY <1>0, <2>1, <2>2, QuietStep
<1>6. ASSUME UNCHANGED <<consumed, job, runVars, results>>, signed \subseteq signed', TypeOK'
      PROVE  IInv'
  BY <1>6, QuietStep
<1>7. ASSUME NEW e \in Envelopes, Issue(e) PROVE IInv'
  BY <1>0, <1>6, <1>7 DEF Issue, TypeOK, runVars
<1>8. CASE Tick
  BY <1>0, <1>6, <1>8 DEF Tick, TypeOK, NodeAssumption, runVars
<1>9. CASE Change
  <2>1. runnable' \in BOOLEAN
    BY <1>9 DEF Change
  <2>2. QED
    BY <1>0, <1>6, <1>9, <2>1 DEF Change, TypeOK, runVars
<1>10. QED
  BY <1>1, <1>3, <1>4, <1>5, <1>7, <1>8, <1>9, ConsumeInvariant, RunInvariant,
     ReturnInvariant DEF Next, ThreadStep

LEMMA StutterInvariant ==
  ASSUME IInv, UNCHANGED vars
  PROVE  IInv'
<1>1. TypeOK'
  BY DEF IInv, TypeOK, vars, worldVars, runVars
<1>2. QED
  BY <1>1, QuietStep DEF vars, worldVars

LEMMA NodeInvariant ==
  ASSUME NodeAssumption
  PROVE  Spec => []IInv
BY InitInvariant, NextInvariant, StutterInvariant, PTL DEF Spec

-----------------------------------------------------------------------------
(* The invariants of the run.                                              *)

\* Every variable keeps its type.
THEOREM NodeTyping ==
  ASSUME NodeAssumption
  PROVE  Spec => []TypeOK
<1>1. IInv => TypeOK
  BY DEF IInv
<1>2. QED
  BY <1>1, NodeInvariant, PTL

\* A lease's recipe runs at most once, for any number of threads, processes,
\* crashes and signatures of the same id.
THEOREM LeaseOnceHolds ==
  ASSUME NodeAssumption
  PROVE  Spec => []LeaseOnce
<1>1. IInv => LeaseOnce
  BY DEF IInv, TypeOK, RunsRecorded, LeaseOnce
<1>2. QED
  BY <1>1, NodeInvariant, PTL

\* A result is told to one caller, and only of a run that succeeded.
THEOREM ResultIsOwnHolds ==
  ASSUME NodeAssumption
  PROVE  Spec => []ResultIsOwn
<1>1. IInv => ResultIsOwn
  BY DEF IInv, ResultsSettled, ResultsAlone, ResultIsOwn
<1>2. QED
  BY <1>1, NodeInvariant, PTL

-----------------------------------------------------------------------------
(* Leases that expired before they ran.                                    *)

LEMMA NextLapsed ==
  ASSUME NodeAssumption, IInv, [Next]_vars, NEW l \in Leases, Lapsed(l)
  PROVE  Lapsed(l)'
<1> USE NodeAssumption
<1> USE DEF IInv
<1>1. \A t \in Threads : job[t] # Idle => Lease(t) # l
  BY DEF Lapsed, Holds
<1>2. ASSUME clock' \in Nat, clock <= clock', runs'[l] = 0,
             \A t \in Threads : job'[t] # Idle => LeaseOf[job'[t].env] # l
      PROVE  Lapsed(l)'
  BY <1>2 DEF Lapsed, Holds, Lease, TypeOK, NodeAssumption
<1>3. ASSUME NEW t \in Threads, NEW e \in Envelopes, Present(t, e) PROVE Lapsed(l)'
  <2>1. LeaseOf[e] # l
    BY <1>3 DEF Present, Valid, Lapsed, TypeOK, NodeAssumption
  <2>2. QED
    BY <1>1, <1>2, <1>3, <2>1 DEF Present, Lapsed, Lease, Idle, TypeOK, worldVars, runVars
<1>4. ASSUME NEW t \in Threads, Precheck(t) \/ Consume(t) PROVE Lapsed(l)'
  BY <1>1, <1>2, <1>4 DEF Precheck, Consume, Serving, Proceed, Ends, Lapsed, Lease, Idle, Jobs,
     TypeOK, worldVars, runVars
<1>5. ASSUME NEW t \in Threads, Replayed(t) \/ NotRunnable(t) \/ Return(t) PROVE Lapsed(l)'
  BY <1>1, <1>2, <1>5 DEF Replayed, NotRunnable, Return, Ends, Lapsed, Lease, Idle, TypeOK,
     worldVars, runVars
<1>6. ASSUME NEW t \in Threads, Run(t) PROVE Lapsed(l)'
  BY <1>1, <1>2, <1>6, JobType DEF Run, Serving, Lapsed, Lease, Idle, TypeOK, worldVars, runVars
<1>7. ASSUME NEW p \in Processes, Crash(p) PROVE Lapsed(l)'
  BY <1>1, <1>2, <1>7 DEF Crash, Lapsed, Lease, Idle, TypeOK, worldVars, runVars
<1>8. ASSUME (\E e \in Envelopes : Issue(e)) \/ Tick \/ Change \/ UNCHANGED vars
      PROVE  Lapsed(l)'
  BY <1>1, <1>2, <1>8 DEF Issue, Tick, Change, Lapsed, Lease, TypeOK, vars, worldVars, runVars
<1>9. QED
  BY <1>3, <1>4, <1>5, <1>6, <1>7, <1>8 DEF Next, ThreadStep

\* A lease that has expired before it ran, with no call holding it, never runs.
THEOREM LapsedStaysUnrunHolds ==
  ASSUME NodeAssumption
  PROVE  Spec => LapsedStaysUnrun
<1>1. IInv /\ [Next]_vars => [\A l \in Leases : Lapsed(l) => Lapsed(l)']_vars
  BY NextLapsed
<1>2. QED
  BY <1>1, NodeInvariant, PTL DEF Spec, LapsedStaysUnrun

-----------------------------------------------------------------------------
(* Refinement: the node implements SingleUse.                              *)

LEMMA InvisibleStep ==
  ASSUME UNCHANGED <<signed, consumed, runVars>>
  PROVE  UNCHANGED Abstract!vars
BY DEF Abstract!vars, runVars

LEMMA IssueRefines ==
  ASSUME NodeAssumption, TypeOK, NEW e \in Envelopes, Issue(e)
  PROVE  Abstract!Next \/ UNCHANGED Abstract!vars
<1> USE NodeAssumption
<1> DEFINE id == LeaseOf[e]
<1>0. /\ id \in Leases
      /\ signed' = signed \union {e}
      /\ UNCHANGED <<consumed, runs, effect>>
  BY DEF Issue, runVars, NodeAssumption
<1>1. CASE id \in consumed \/ \E f \in signed : LeaseOf[f] = id
  BY <1>0, <1>1 DEF Abstract!vars
<1>2. CASE id \notin consumed /\ \A f \in signed : LeaseOf[f] # id
  <2>1. Abstract!Issue(id)
    BY <1>0, <1>2 DEF Abstract!Issue, Abstract!Move
  <2>2. QED
    BY <1>0, <2>1 DEF Abstract!Next
<1>3. QED
  BY <1>1, <1>2

LEMMA ConsumeRefines ==
  ASSUME NodeAssumption, IInv, NEW t \in Threads, Consume(t)
  PROVE  Abstract!Next
<1>1. job[t] # Idle
  BY DEF Consume, Serving, Idle
<1>2. PICK id \in Leases : id = Lease(t)
  BY <1>1, JobType DEF IInv
<1>3. /\ id \notin consumed
      /\ consumed' = consumed \union {id}
      /\ UNCHANGED <<signed, runs, effect>>
  BY <1>2 DEF Consume, worldVars, runVars
<1>4. \E e \in signed : LeaseOf[e] = id
  BY <1>1, <1>2 DEF IInv, HeldSigned, Lease
<1>5. Abstract!Take(id)
  BY <1>2, <1>3, <1>4 DEF Abstract!Take, Abstract!Move
<1>6. QED
  BY <1>2, <1>5 DEF Abstract!Next

LEMMA RunRefines ==
  ASSUME NodeAssumption, IInv, NEW t \in Threads, Run(t)
  PROVE  Abstract!Next
<1>1. job[t] # Idle /\ Spending(t)
  BY DEF Run, Serving, Idle, Spending
<1>2. PICK id \in Leases : id = Lease(t)
  BY <1>1, JobType DEF IInv
<1>3. id \in consumed /\ runs[id] = 0
  BY <1>1, <1>2 DEF Run, IInv, SpendingState
<1>4. runs' = [runs EXCEPT ![id] = 1] /\ UNCHANGED <<signed, consumed>>
  <2>1. runs' = [runs EXCEPT ![id] = runs[id] + 1]
    BY <1>2 DEF Run
  <2>2. UNCHANGED <<signed, consumed>>
    BY DEF Run, worldVars
  <2>3. runs[id] + 1 = 1
    BY <1>3
  <2>4. QED
    BY <2>1, <2>2, <2>3
<1>5. \E done \in BOOLEAN : effect' = [effect EXCEPT ![id] = done]
  BY <1>2 DEF Run
<1>6. Abstract!Act(id)
  BY <1>2, <1>3, <1>4, <1>5 DEF Abstract!Act
<1>7. QED
  BY <1>2, <1>6 DEF Abstract!Next

LEMMA StepRefines ==
  ASSUME NodeAssumption, IInv, [Next]_vars
  PROVE  [Abstract!Next]_(Abstract!vars)
<1>1. ASSUME NEW t \in Threads, ThreadStep(t) \/ \E e \in Envelopes : Present(t, e)
      PROVE  Abstract!Next \/ UNCHANGED Abstract!vars
  BY <1>1, NodeAssumption, InvisibleStep, ConsumeRefines, RunRefines
     DEF ThreadStep, Present, Precheck, Replayed, NotRunnable, Return, worldVars
<1>2. ASSUME NEW p \in Processes, Crash(p) PROVE UNCHANGED Abstract!vars
  BY <1>2, InvisibleStep DEF Crash, worldVars
<1>3. CASE Tick \/ Change \/ UNCHANGED vars
  BY <1>3, InvisibleStep DEF Tick, Change, vars, worldVars
<1>4. QED
  BY <1>1, <1>2, <1>3, NodeAssumption, IssueRefines DEF Next, IInv

\* The node keeps the promise of SingleUse for its leases, as the store and
\* its brokers do for authorizations.
THEOREM NodeImplementsSingleUse ==
  ASSUME NodeAssumption
  PROVE  Spec => ImplementsSingleUse
<1>1. Init => Abstract!Init
  BY DEF Init, Abstract!Init
<1>2. IInv /\ [Next]_vars => [Abstract!Next]_(Abstract!vars)
  BY StepRefines
<1>3. QED
  BY <1>1, <1>2, NodeInvariant, PTL DEF Spec, ImplementsSingleUse, Abstract!Spec
=============================================================================
