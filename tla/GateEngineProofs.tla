--------------------------- MODULE GateEngineProofs ---------------------------
(* Proofs about GateEngine, for every workflow load_policy accepts and     *)
(* every number of requests, whichever callbacks call the engine again.    *)
EXTENDS GateEngine, TLAPS

-----------------------------------------------------------------------------
(* The inductive invariant, in parts.  All but LockInv and the two about   *)
(* consumed ids speak of one request.                                      *)

\* An activation that is not inside a callback is the topmost one.
LockInv == \A r \in Requests : mode[r] \in {"run", "issue"} => Top(r)

\* A callback and an issue happen at a gate.
AtGates == \A r \in Requests : mode[r] \in {"call", "issue", "verify"} => pos[r] \in Gates

TypeInv == TypeOK /\ AtGates

\* While a request is processing, its gates are satisfied or untouched.
OnCourse(r) ==
    /\ \A g \in Gates : status[r][g] \in SATISFIED \union {"pending"}
    /\ status[r][Execute] = "pending"

\* Only this gate is neither satisfied nor untouched.
StopsAt(r, g, s) ==
    /\ status[r][g] = s
    /\ \A h \in Gates \ {g} : status[r][h] \in SATISFIED \union {"pending"}

\* While it waits, one approval gate waits and the others are on course.
WaitsAt(r, w) ==
    /\ Kind[w] = "approval"
    /\ StopsAt(r, w, "waiting")
    /\ status[r][Execute] = "pending"

\* It was left in processing by a gate that could not keep its evidence.
StuckAt(r, b) == Kind[b] \in {"tool", "condition"} /\ StopsAt(r, b, "blocked")

\* Where a request stands when no activation of it runs.
Outcome(r) ==
    /\ Waiting(r) => \E w \in Gates : WaitsAt(r, w)
    /\ state[r] \in {"blocked", "failed"} => \E g \in Gates : StopsAt(r, g, state[r])
    /\ state[r] \in {"authorized", "simulated", "executed"} =>
          \A g \in Gates : status[r][g] \in SATISFIED \union {"pending", "authorized"}

\* A request is processing while an activation of it runs, or stuck; a callback
\* for a gate is made, and an authorization issued, when the gate is ready.
Course(r) ==
    /\ mode[r] \in {"run", "call", "issue"} => state[r] = "processing" /\ OnCourse(r)
    /\ state[r] = "processing" /\ mode[r] = "idle" => \E b \in Gates : StuckAt(r, b)
    /\ mode[r] = "verify" => Waiting(r) /\ status[r][pos[r]] = "waiting"
    /\ state[r] = "none" => \A g \in Gates : status[r][g] = "pending"
    /\ Outcome(r)
    /\ mode[r] \in {"call", "issue"} => pos[r] \in Ready(r)
    /\ mode[r] = "call" => Kind[pos[r]] \in {"tool", "notify", "execute"}
    /\ mode[r] = "issue" => pos[r] = Execute

\* A gate that was touched had its own requirements satisfied.
Ordered(r) ==
    \A g \in Gates : status[r][g] # "pending" =>
        \A h \in Requires[g] : status[r][h] \in SATISFIED

\* How a gate of each kind is satisfied.
ByKind(r) ==
    \A g \in Gates :
        /\ status[r][g] = "approved" => Kind[g] = "approval"
        /\ status[r][g] = "passed" => Kind[g] # "approval"
        /\ status[r][g] = "simulated" => Kind[g] \in {"notify", "execute"}

\* Nothing is released before the requirements of the execute gate are met.
Cleared(r) == \A h \in Requires[Execute] : status[r][h] \in SATISFIED
ReleaseInv(r) == Released(r) => Cleared(r)

GrantInv(r) ==
    /\ grant[r] # "none" => state[r] \in {"authorized", "failed", "cancelled"}
    /\ state[r] = "cancelled" => grant[r] \in {"none", "cancelled"}

TargetInv(r) ==
    /\ targetCalls[r] \in {0, 1}
    /\ targetCalls[r] = 1 =>
          \/ state[r] \in {"executed", "failed"}
          \/ state[r] = "processing" /\ mode[r] = "call" /\ pos[r] = Execute

\* A document that is good for this gate of this request.
Suits(r, d) == d.request = r /\ Rank[d.assurance] >= Rank[control[r]]

EvidenceInv(r) ==
    /\ state[r] = "none" => evidence[r] = {}
    /\ \A d \in evidence[r] : Suits(r, d) /\ status[r][d.gate] = "approved"
    /\ \A g \in Gates : status[r][g] = "approved" => \E d \in evidence[r] : d.gate = g
    /\ mode[r] = "verify" =>
          \E d \in Documents : offered[r] = {d} /\ d.gate = pos[r] /\ Suits(r, d)

LifetimeInv(r) ==
    grant[r] # "none" =>
        /\ issuedAt[r] < expiresAt[r]
        /\ \A d \in PathEvidence(r) : expiresAt[r] <= d.expires_at

RequestInv(r) ==
    /\ Course(r)
    /\ Ordered(r)
    /\ ByKind(r)
    /\ ReleaseInv(r)
    /\ GrantInv(r)
    /\ TargetInv(r)
    /\ EvidenceInv(r)
    /\ LifetimeInv(r)

EngineInv == TypeInv /\ LockInv /\ \A r \in Requests : RequestInv(r)

\* What was recorded was consumed, and a notice was consumed once.
NoticeInv ==
    /\ \A r \in Requests : \A n \in notices[r] : n.id \in consumedNotices
    /\ NoticeSingleUse

\* If verifiers do not call the engine, the one that runs is the topmost, and
\* the document it looks at has not been consumed.
EvidenceUseInv ==
    /\ \A r \in Requests : \A d \in evidence[r] : d.id \in consumedApprovals
    /\ \A r \in Requests : mode[r] = "verify" =>
          Top(r) /\ \A d \in offered[r] : d.id \notin consumedApprovals
    /\ EvidenceSingleUse

-----------------------------------------------------------------------------
(* The policy.                                                             *)

LEMMA ExecuteIsAGate ==
  /\ Execute \in Gates
  /\ Kind[Execute] = "execute"
  /\ \A g \in Gates : Kind[g] = "execute" => g = Execute
  <1>1. PICK e \in OfKind("execute") : OfKind("execute") = {e}
    BY PolicyAssumption DEF Loadable
  <1>2. e \in Gates /\ Kind[e] = "execute"
    BY <1>1 DEF OfKind
  <1>3. \A g \in Gates : Kind[g] = "execute" <=> g = e
    BY <1>1 DEF OfKind
  <1>4. Execute = e
    BY <1>2, <1>3 DEF Execute
  <1>5. QED
    BY <1>2, <1>3, <1>4

LEMMA GatesAreNumbers == Gates \subseteq 0..GateCount /\ Gates \subseteq Nat
  BY PolicyAssumption DEF WorkflowShape, Gates

\* If what a gate requires lies in a closed set, so does all it waits for.
LEMMA AncestorsInClosed ==
  ASSUME NEW g \in Gates, NEW S \in SUBSET Gates, Closed(S), Requires[g] \subseteq S
  PROVE  Ancestors[g] \subseteq S
  BY DEF Ancestors

-----------------------------------------------------------------------------
(* Type correctness.                                                       *)

LEMMA LockTypes ==
  ASSUME TypeOK, NEW r \in Requests, NEW m \in Modes, NEW g \in 0..GateCount
  PROVE  /\ Enter(r, m, g) \/ Goto(r, m, g) \/ (Top(r) /\ Leave(r)) =>
              /\ stack' \in Seq(Requests)
              /\ mode' \in [Requests -> Modes]
              /\ pos' \in [Requests -> 0..GateCount]
  <1>1. CASE Enter(r, m, g)
    <2>1. <<r>> \in Seq(Requests) /\ stack \in Seq(Requests)
      BY DEF TypeOK
    <2>2. <<r>> \o stack \in Seq(Requests)
      BY <2>1
    <2>3. QED
      BY <1>1, <2>2 DEF TypeOK, Enter
  <1>2. CASE Goto(r, m, g)
    BY <1>2 DEF TypeOK, Goto
  <1>3. CASE Top(r) /\ Leave(r)
    <2>1. Tail(stack) \in Seq(Requests)
      BY <1>3 DEF TypeOK, Top
    <2>2. "idle" \in Modes /\ 0 \in 0..GateCount
      BY PolicyAssumption DEF Modes, WorkflowShape
    <2>3. QED
      BY <1>3, <2>1, <2>2 DEF TypeOK, Leave
  <1>4. QED
    BY <1>1, <1>2, <1>3

LEMMA BecomesType ==
  ASSUME TypeOK, NEW r \in Requests, NEW s \in States, Becomes(r, s)
  PROVE  state' \in [Requests -> States]
  BY DEF TypeOK, Becomes

LEMMA MarkType ==
  ASSUME TypeOK, NEW r \in Requests, NEW g \in Gates, NEW s \in Statuses, Mark(r, g, s)
  PROVE  status' \in [Requests -> [Gates -> Statuses]]
  <1>1. status[r] \in [Gates -> Statuses]
    BY DEF TypeOK
  <1>2. [status[r] EXCEPT ![g] = s] \in [Gates -> Statuses]
    BY <1>1
  <1>3. status' = [status EXCEPT ![r] = [status[r] EXCEPT ![g] = s]]
    BY DEF Mark
  <1>4. QED
    BY <1>2, <1>3 DEF TypeOK

LEMMA PassType ==
  ASSUME TypeOK, NEW r \in Requests, NEW g \in Gates, NEW s \in Statuses, Pass(r, g, s)
  PROVE  /\ state' \in [Requests -> States]
         /\ status' \in [Requests -> [Gates -> Statuses]]
         /\ stack' \in Seq(Requests)
         /\ mode' \in [Requests -> Modes]
         /\ pos' \in [Requests -> 0..GateCount]
  <1>1. "run" \in Modes /\ g \in 0..GateCount
    BY GatesAreNumbers DEF Modes
  <1>2. Mark(r, g, s) /\ Goto(r, "run", g) /\ UNCHANGED state
    BY DEF Pass
  <1>3. QED
    BY <1>1, <1>2, MarkType, LockTypes DEF TypeOK

LEMMA StopType ==
  ASSUME TypeOK, NEW r \in Requests, NEW g \in Gates, NEW s \in Statuses,
         NEW public \in States, Top(r), Stop(r, g, s, public)
  PROVE  /\ state' \in [Requests -> States]
         /\ status' \in [Requests -> [Gates -> Statuses]]
         /\ stack' \in Seq(Requests)
         /\ mode' \in [Requests -> Modes]
         /\ pos' \in [Requests -> 0..GateCount]
  <1>1. "run" \in Modes /\ g \in 0..GateCount
    BY GatesAreNumbers DEF Modes
  <1>2. Mark(r, g, s) /\ Becomes(r, public) /\ Leave(r)
    BY DEF Stop
  <1>3. QED
    BY <1>1, <1>2, MarkType, BecomesType, LockTypes DEF TypeOK

LEMMA BlockRaisesType ==
  ASSUME TypeOK, NEW r \in Requests, NEW g \in Gates, Top(r), BlockRaises(r, g)
  PROVE  /\ state' \in [Requests -> States]
         /\ status' \in [Requests -> [Gates -> Statuses]]
         /\ stack' \in Seq(Requests)
         /\ mode' \in [Requests -> Modes]
         /\ pos' \in [Requests -> 0..GateCount]
  <1>1. "run" \in Modes /\ g \in 0..GateCount /\ "blocked" \in Statuses
    BY GatesAreNumbers DEF Modes, Statuses
  <1>2. Mark(r, g, "blocked") /\ Leave(r) /\ UNCHANGED state
    BY DEF BlockRaises
  <1>3. QED
    BY <1>1, <1>2, MarkType, LockTypes DEF TypeOK

LEMMA TypeInit == Init => TypeInv
  <1> SUFFICES ASSUME Init PROVE TypeInv
    OBVIOUS
  <1>1. PolicyControl \in Controls
    BY DEF PolicyControl, Controls
  <1>2. 0 \in 0..GateCount
    BY PolicyAssumption DEF WorkflowShape
  <1>3. <<>> \in Seq(Requests)
    OBVIOUS
  <1>4. TypeOK
    BY <1>1, <1>2, <1>3 DEF Init, TypeOK, States, Statuses, Modes, Grants
  <1>5. QED
    BY <1>4 DEF Init, TypeInv, AtGates

LEMMA TypeAdvance ==
  ASSUME TypeInv, NEW r \in Requests, Advance(r) PROVE TypeInv'
  <1> USE DEF TypeInv
  <1>1. CASE EndPass(r)
    <2>1. "run" \in Modes /\ 0 \in 0..GateCount /\ Top(r)
      BY <1>1, PolicyAssumption DEF Modes, WorkflowShape, EndPass, Running
    <2>2. /\ stack' \in Seq(Requests)
          /\ mode' \in [Requests -> Modes]
          /\ pos' \in [Requests -> 0..GateCount]
      BY <1>1, <2>1, LockTypes DEF EndPass
    <2>3. AtGates'
      BY <1>1 DEF EndPass, Goto, Leave, AtGates, TypeOK
    <2>4. QED
      BY <1>1, <2>2, <2>3 DEF EndPass, TypeOK, requestVars, evidenceVars,
         noticeVars, grantVars
  <1>2. CASE IssueAuthorization(r) \/ IssueFails(r)
    <2>1. pos[r] \in Gates /\ Top(r)
      BY <1>2 DEF IssueAuthorization, IssueFails, Issuing, AtGates
    <2>2. {"authorized", "failed"} \subseteq States /\ {"authorized", "failed"} \subseteq Statuses
      BY DEF States, Statuses, TERMINAL
    <2>3. /\ state' \in [Requests -> States]
          /\ status' \in [Requests -> [Gates -> Statuses]]
          /\ stack' \in Seq(Requests)
          /\ mode' \in [Requests -> Modes]
          /\ pos' \in [Requests -> 0..GateCount]
      BY <1>2, <2>1, <2>2, StopType DEF IssueAuthorization, IssueFails, Fail
    <2>4. AtGates'
      BY <1>2 DEF IssueAuthorization, IssueFails, Fail, Stop, Leave, AtGates, TypeOK
    <2>5. Lifetimes(r) \subseteq Nat
      BY PolicyAssumption DEF Lifetimes, PathEvidence, TypeOK, Documents, WorkflowShape
    <2>6. /\ grant' \in [Requests -> Grants]
          /\ issuedAt' \in [Requests -> Nat]
          /\ expiresAt' \in [Requests -> Nat]
      <3>1. /\ grant \in [Requests -> Grants] /\ clock \in Nat
            /\ issuedAt \in [Requests -> Nat] /\ expiresAt \in [Requests -> Nat]
        BY DEF TypeOK
      <3>2. CASE UNCHANGED grantVars
        BY <3>1, <3>2 DEF grantVars
      <3>3. CASE RecordIssued(r)
        BY <2>5, <3>1, <3>3 DEF RecordIssued, Grants
      <3>4. QED
        BY <1>2, <3>2, <3>3 DEF IssueAuthorization, IssueFails
    <2>7. QED
      BY <1>2, <2>3, <2>4, <2>6 DEF IssueAuthorization, IssueFails, TypeOK,
         evidenceVars, noticeVars
  <1>3. ASSUME NEW g \in Gates,
               PassSchema(r, g) \/ EvaluateCondition(r, g)
        PROVE  TypeInv'
    <2>1. Top(r) /\ "passed" \in Statuses /\ "blocked" \in Statuses /\ "blocked" \in States
      BY <1>3 DEF PassSchema, EvaluateCondition, At, Running, Statuses, SATISFIED,
         States, TERMINAL
    <2>2. /\ state' \in [Requests -> States]
          /\ status' \in [Requests -> [Gates -> Statuses]]
          /\ stack' \in Seq(Requests)
          /\ mode' \in [Requests -> Modes]
          /\ pos' \in [Requests -> 0..GateCount]
      BY <1>3, <2>1, PassType, StopType, BlockRaisesType DEF PassSchema,
         EvaluateCondition, Block
    <2>3. AtGates'
      BY <1>3 DEF PassSchema, EvaluateCondition, Block, BlockRaises, Pass, Stop, Goto,
         Leave, AtGates, TypeOK
    <2>4. QED
      BY <1>3, <2>2, <2>3 DEF PassSchema, EvaluateCondition, TypeOK, evidenceVars,
         noticeVars, grantVars
  <1>4. ASSUME NEW g \in Gates,
               CallOut(r, g) \/ CallTarget(r, g) \/ ApprovalsCurrent(r, g)
        PROVE  TypeInv'
    <2>1. "call" \in Modes /\ "issue" \in Modes /\ g \in 0..GateCount
      BY GatesAreNumbers DEF Modes, Callback
    <2>2. /\ stack' \in Seq(Requests)
          /\ mode' \in [Requests -> Modes]
          /\ pos' \in [Requests -> 0..GateCount]
      BY <1>4, <2>1, LockTypes DEF CallOut, CallTarget, ApprovalsCurrent
    <2>3. AtGates'
      BY <1>4 DEF CallOut, CallTarget, ApprovalsCurrent, Goto, AtGates, TypeOK
    <2>4. targetCalls' \in [Requests -> Nat]
      BY <1>4 DEF CallOut, CallTarget, ApprovalsCurrent, TypeOK
    <2>5. QED
      BY <1>4, <2>2, <2>3, <2>4 DEF CallOut, CallTarget, ApprovalsCurrent, TypeOK,
         requestVars, evidenceVars, noticeVars, grantVars
  <1>5. ASSUME NEW g \in Gates,
               \/ AskApproval(r, g)
               \/ BlockStale(r, g)
               \/ FailWithoutAuthority(r, g)
               \/ Simulate(r, g)
        PROVE  TypeInv'
    <2>1. Top(r)
      BY <1>5 DEF AskApproval, BlockStale, FailWithoutAuthority, Simulate, AtExecute,
         At, Running
    <2>2. /\ {"waiting", "blocked", "failed", "simulated"} \subseteq Statuses
          /\ {"waiting_for_approval", "blocked", "failed", "simulated"} \subseteq States
      BY DEF Statuses, SATISFIED, States, TERMINAL
    <2>3. /\ state' \in [Requests -> States]
          /\ status' \in [Requests -> [Gates -> Statuses]]
          /\ stack' \in Seq(Requests)
          /\ mode' \in [Requests -> Modes]
          /\ pos' \in [Requests -> 0..GateCount]
      BY <1>5, <2>1, <2>2, StopType DEF AskApproval, BlockStale, FailWithoutAuthority,
         Simulate, Block, Fail
    <2>4. AtGates'
      BY <1>5 DEF AskApproval, BlockStale, FailWithoutAuthority, Simulate, Block, Fail,
         Stop, Leave, AtGates, TypeOK
    <2>5. QED
      BY <1>5, <2>3, <2>4 DEF AskApproval, BlockStale, FailWithoutAuthority, Simulate,
         TypeOK, evidenceVars, noticeVars, grantVars
  <1>6. QED
    BY <1>1, <1>2, <1>3, <1>4, <1>5 DEF Advance

LEMMA TypeCallback ==
  ASSUME TypeInv, NEW r \in Requests, CallbackReturns(r) PROVE TypeInv'
  <1> USE DEF TypeInv
  <1> DEFINE g == pos[r]
  <1>1. g \in Gates /\ Top(r)
    BY DEF CallbackReturns, ToolReturns, NotifierReturns, NotifierUnusable,
       TargetReturns, VerifierRejects, VerifierAccepts, Returning, Verifying, AtGates
  <1>2. /\ {"passed", "simulated", "approved", "blocked", "failed"} \subseteq Statuses
        /\ {"processing", "executed", "blocked", "failed"} \subseteq States
    BY DEF Statuses, SATISFIED, States, TERMINAL
  <1>3. CASE ToolReturns(r) \/ NotifierUnusable(r) \/ TargetReturns(r)
    <2>1. /\ state' \in [Requests -> States]
          /\ status' \in [Requests -> [Gates -> Statuses]]
          /\ stack' \in Seq(Requests)
          /\ mode' \in [Requests -> Modes]
          /\ pos' \in [Requests -> 0..GateCount]
      BY <1>1, <1>2, <1>3, PassType, StopType, BlockRaisesType DEF ToolReturns,
         NotifierUnusable, TargetReturns, Block, Fail
    <2>2. AtGates'
      BY <1>3 DEF ToolReturns, NotifierUnusable, TargetReturns, Block, BlockRaises, Fail,
         Pass, Stop, Goto, Leave, AtGates, TypeOK
    <2>3. QED
      BY <1>3, <2>1, <2>2 DEF ToolReturns, NotifierUnusable, TargetReturns, TypeOK,
         evidenceVars, noticeVars, grantVars
  <1>4. CASE NotifierReturns(r)
    <2>1. PICK id \in NotificationIds, s \in {"passed", "simulated"} :
             /\ consumedNotices' = consumedNotices \union {id}
             /\ notices' = [notices EXCEPT ![r] = @ \union {[gate |-> g, id |-> id]}]
             /\ Pass(r, g, s)
      BY <1>4 DEF NotifierReturns
    <2>2. /\ state' \in [Requests -> States]
          /\ status' \in [Requests -> [Gates -> Statuses]]
          /\ stack' \in Seq(Requests)
          /\ mode' \in [Requests -> Modes]
          /\ pos' \in [Requests -> 0..GateCount]
      BY <1>1, <1>2, <2>1, PassType
    <2>3. [gate |-> g, id |-> id] \in [gate : Gates, id : NotificationIds]
      BY <1>1
    <2>4. /\ consumedNotices' \subseteq NotificationIds
          /\ notices' \in [Requests -> SUBSET [gate : Gates, id : NotificationIds]]
      BY <2>1, <2>3 DEF TypeOK
    <2>5. AtGates'
      BY <2>1 DEF Pass, Goto, AtGates, TypeOK
    <2>6. QED
      BY <1>4, <2>2, <2>4, <2>5 DEF NotifierReturns, TypeOK, evidenceVars, grantVars
  <1>5. CASE VerifierRejects(r)
    <2>1. "run" \in Modes /\ 0 \in 0..GateCount
      BY PolicyAssumption DEF Modes, WorkflowShape
    <2>2. /\ stack' \in Seq(Requests)
          /\ mode' \in [Requests -> Modes]
          /\ pos' \in [Requests -> 0..GateCount]
      BY <1>1, <1>5, <2>1, LockTypes DEF VerifierRejects
    <2>3. AtGates'
      BY <1>5 DEF VerifierRejects, Leave, AtGates, TypeOK
    <2>4. offered' \in [Requests -> SUBSET Documents]
      BY <1>5 DEF VerifierRejects, TypeOK
    <2>5. QED
      BY <1>5, <2>2, <2>3, <2>4 DEF VerifierRejects, TypeOK, requestVars, noticeVars,
         grantVars
  <1>6. CASE VerifierAccepts(r)
    <2>1. "run" \in Modes /\ 0 \in 0..GateCount
      BY PolicyAssumption DEF Modes, WorkflowShape
    <2>2. /\ stack' \in Seq(Requests)
          /\ mode' \in [Requests -> Modes]
          /\ pos' \in [Requests -> 0..GateCount]
      BY <1>1, <1>6, <2>1, LockTypes DEF VerifierAccepts
    <2>3. /\ state' \in [Requests -> States]
          /\ status' \in [Requests -> [Gates -> Statuses]]
      BY <1>1, <1>2, <1>6, BecomesType, MarkType DEF VerifierAccepts
    <2>4. AtGates'
      BY <1>6 DEF VerifierAccepts, Goto, AtGates, TypeOK
    <2>5. /\ offered' \in [Requests -> SUBSET Documents]
          /\ evidence' \in [Requests -> SUBSET Documents]
      BY <1>6 DEF VerifierAccepts, TypeOK
    <2>6. consumedApprovals' \subseteq EvidenceIds
      BY <1>6 DEF VerifierAccepts, TypeOK, Documents
    <2>7. QED
      BY <1>6, <2>2, <2>3, <2>4, <2>5, <2>6 DEF VerifierAccepts, TypeOK, noticeVars,
         grantVars
  <1>7. QED
    BY <1>3, <1>4, <1>5, <1>6 DEF CallbackReturns

LEMMA TypeOperation ==
  ASSUME TypeInv, NEW r \in Requests, Operation(r) PROVE TypeInv'
  <1> USE DEF TypeInv
  <1>1. ASSUME NEW minimum, RequestAction(r, minimum) PROVE TypeInv'
    <2>1. "run" \in Modes /\ 0 \in 0..GateCount
      BY PolicyAssumption DEF Modes, WorkflowShape
    <2>2. /\ stack' \in Seq(Requests)
          /\ mode' \in [Requests -> Modes]
          /\ pos' \in [Requests -> 0..GateCount]
      BY <1>1, <2>1, LockTypes DEF RequestAction
    <2>3. state' \in [Requests -> States]
      BY <1>1, BecomesType DEF RequestAction, States
    <2>4. EffectiveControl(minimum) \in Controls
      BY DEF EffectiveControl, PolicyControl, Controls
    <2>5. control' \in [Requests -> Controls]
      BY <1>1, <2>4 DEF RequestAction, TypeOK
    <2>6. AtGates'
      BY <1>1 DEF RequestAction, Enter, AtGates, TypeOK
    <2>7. QED
      BY <1>1, <2>2, <2>3, <2>5, <2>6 DEF RequestAction, TypeOK, evidenceVars,
         noticeVars, grantVars
  <1>2. ASSUME NEW d \in Documents, IngestApproval(r, d) PROVE TypeInv'
    <2>1. "verify" \in Modes /\ d.gate \in Gates /\ d.gate \in 0..GateCount
      BY GatesAreNumbers DEF Modes, Callback, Documents
    <2>2. /\ stack' \in Seq(Requests)
          /\ mode' \in [Requests -> Modes]
          /\ pos' \in [Requests -> 0..GateCount]
      BY <1>2, <2>1, LockTypes DEF IngestApproval
    <2>3. offered' \in [Requests -> SUBSET Documents]
      BY <1>2 DEF IngestApproval, TypeOK
    <2>4. AtGates'
      BY <1>2, <2>1 DEF IngestApproval, Enter, AtGates, TypeOK
    <2>5. QED
      BY <1>2, <2>2, <2>3, <2>4 DEF IngestApproval, TypeOK, requestVars, noticeVars,
         grantVars
  <1>3. CASE CancelRequest(r) \/ CancelRaises(r)
    <2>1. state' \in [Requests -> States]
      BY <1>3, BecomesType DEF CancelRequest, CancelRaises, requestVars, States,
         TERMINAL, TypeOK
    <2>2. grant' \in [Requests -> Grants]
      BY <1>3 DEF CancelRequest, CancelRaises, TypeOK, Grants
    <2>3. QED
      BY <1>3, <2>1, <2>2 DEF CancelRequest, CancelRaises, AtGates, TypeOK, requestVars,
         lockVars, evidenceVars, noticeVars
  <1>4. QED
    BY <1>1, <1>2, <1>3 DEF Operation

\* Brokers, the operator and the clock leave everything of the engine alone.
EngineUntouched ==
    UNCHANGED <<requestVars, control, lockVars, evidenceVars, noticeVars, targetCalls>>

LEMMA TypeOutside ==
  ASSUME TypeInv,
         \/ \E r \in Requests : Elsewhere(r)
         \/ RevokeAllIssued
         \/ Tick
  PROVE  TypeInv' /\ EngineUntouched /\ UNCHANGED <<issuedAt, expiresAt>>
  <1>1. EngineUntouched /\ UNCHANGED <<issuedAt, expiresAt>>
    BY DEF EngineUntouched, Elsewhere, Take, FindExpired, RevokeAllIssued, Tick, grantVars
  <1>2. grant' \in [Requests -> Grants]
    BY DEF Elsewhere, Take, FindExpired, RevokeAllIssued, Tick, grantVars, TypeInv,
       TypeOK, Grants
  <1>3. clock' \in Nat
    BY DEF Elsewhere, Take, FindExpired, RevokeAllIssued, Tick, TypeInv, TypeOK
  <1>4. QED
    BY <1>1, <1>2, <1>3 DEF TypeInv, TypeOK, AtGates, EngineUntouched, requestVars,
       lockVars, evidenceVars, noticeVars

LEMMA TypeStep == TypeInv /\ [Next]_vars => TypeInv'
  <1>1. CASE UNCHANGED vars
    BY <1>1 DEF TypeInv, TypeOK, AtGates, vars, requestVars, lockVars, evidenceVars,
       noticeVars, grantVars
  <1>2. QED
    BY <1>1, TypeAdvance, TypeCallback, TypeOperation, TypeOutside DEF Next

\* The variables of the engine stay within their types.
THEOREM TypeCorrect == Spec => []TypeOK
  <1>1. TypeInv => TypeOK
    BY DEF TypeInv
  <1>2. QED
    BY <1>1, TypeInit, TypeStep, PTL DEF Spec

-----------------------------------------------------------------------------
(* The lock.                                                               *)

EngineStep(r) == Operation(r) \/ Advance(r) \/ CallbackReturns(r)

\* What a step does to the lock and to the activation of its request.
LockMove(r) ==
    \/ MayEnter /\ \E m \in Modes, g \in 0..GateCount : Enter(r, m, g)
    \/ Top(r) /\ \E m \in Modes, g \in 0..GateCount : Goto(r, m, g)
    \/ Top(r) /\ Leave(r)
    \/ UNCHANGED lockVars

LEMMA EngineStepLock ==
  ASSUME TypeInv, NEW r \in Requests, EngineStep(r)
  PROVE  LockMove(r)
  <1> USE GatesAreNumbers DEF LockMove
  <1>1. Modes = {"call", "verify", "idle", "run", "issue"} /\ 0 \in 0..GateCount
    BY PolicyAssumption DEF Modes, Callback, WorkflowShape
  <1>2. CASE Operation(r)
    <2>1. ASSUME NEW minimum, RequestAction(r, minimum) PROVE LockMove(r)
      BY <1>1, <2>1 DEF RequestAction
    <2>2. ASSUME NEW d \in Documents, IngestApproval(r, d) PROVE LockMove(r)
      <3>1. d.gate \in 0..GateCount
        BY DEF Documents
      <3>2. QED
        BY <1>1, <2>2, <3>1 DEF IngestApproval
    <2>3. CASE CancelRequest(r) \/ CancelRaises(r)
      BY <2>3 DEF CancelRequest, CancelRaises
    <2>4. QED
      BY <1>2, <2>1, <2>2, <2>3 DEF Operation
  <1>3. CASE Advance(r)
    <2>1. CASE EndPass(r)
      BY <1>1, <2>1 DEF EndPass, Running
    <2>2. CASE IssueAuthorization(r) \/ IssueFails(r)
      BY <2>2 DEF IssueAuthorization, IssueFails, Issuing, Fail, Stop
    <2>3. ASSUME NEW g \in Gates,
                 \/ PassSchema(r, g) \/ EvaluateCondition(r, g)
                 \/ CallOut(r, g) \/ CallTarget(r, g) \/ ApprovalsCurrent(r, g)
          PROVE  LockMove(r)
      <3>1. Top(r) /\ g \in 0..GateCount
        BY <2>3 DEF PassSchema, EvaluateCondition, CallOut, CallTarget,
           ApprovalsCurrent, AtExecute, At, Running
      <3>2. (\E m \in Modes : Goto(r, m, g)) \/ Leave(r)
        BY <1>1, <2>3 DEF PassSchema, EvaluateCondition, CallOut, CallTarget,
           ApprovalsCurrent, Pass, Block, BlockRaises, Stop
      <3>3. QED
        BY <3>1, <3>2
    <2>4. ASSUME NEW g \in Gates,
                 \/ AskApproval(r, g) \/ BlockStale(r, g)
                 \/ FailWithoutAuthority(r, g) \/ Simulate(r, g)
          PROVE  LockMove(r)
      BY <2>4 DEF AskApproval, BlockStale, FailWithoutAuthority, Simulate, AtExecute,
         At, Running, Block, Fail, Stop
    <2>5. QED
      BY <1>3, <2>1, <2>2, <2>3, <2>4 DEF Advance
  <1>4. CASE CallbackReturns(r)
    <2>1. Top(r) /\ pos[r] \in 0..GateCount
      BY <1>4 DEF CallbackReturns, ToolReturns, NotifierReturns, NotifierUnusable,
         TargetReturns, VerifierRejects, VerifierAccepts, Returning, Verifying,
         TypeInv, TypeOK
    <2>2. (\E m \in Modes, g \in 0..GateCount : Goto(r, m, g)) \/ Leave(r)
      BY <1>1, <1>4, <2>1 DEF CallbackReturns, ToolReturns, NotifierReturns,
         NotifierUnusable, TargetReturns, VerifierRejects, VerifierAccepts, Pass, Block,
         BlockRaises, Fail, Stop
    <2>3. QED
      BY <2>1, <2>2
  <1>5. QED
    BY <1>2, <1>3, <1>4 DEF EngineStep

LEMMA LockMoveInv ==
  ASSUME TypeInv, LockInv, NEW r \in Requests, LockMove(r)
  PROVE  LockInv'
  <1> USE DEF TypeInv, TypeOK
  <1> SUFFICES ASSUME NEW s \in Requests, mode'[s] \in {"run", "issue"}
               PROVE  stack' # <<>> /\ Head(stack') = s
    BY DEF LockInv, Top
  <1>1. ASSUME NEW m \in Modes, NEW g \in 0..GateCount, MayEnter, Enter(r, m, g)
        PROVE  stack' # <<>> /\ Head(stack') = s
    <2>1. stack' = <<r>> \o stack /\ stack \in Seq(Requests)
      BY <1>1 DEF Enter
    <2>2. stack' # <<>> /\ Head(stack') = r
      BY <2>1
    <2>3. s = r
      BY <1>1 DEF LockInv, Top, MayEnter, Callback, Enter
    <2>4. QED
      BY <2>2, <2>3
  <1>2. ASSUME NEW m \in Modes, NEW g \in 0..GateCount, Top(r), Goto(r, m, g)
        PROVE  stack' # <<>> /\ Head(stack') = s
    BY <1>2 DEF LockInv, Top, Goto
  <1>3. CASE Top(r) /\ Leave(r)
    BY <1>3 DEF LockInv, Top, Leave
  <1>4. CASE UNCHANGED lockVars
    BY <1>4 DEF LockInv, Top, lockVars
  <1>5. QED
    BY <1>1, <1>2, <1>3, <1>4 DEF LockMove

\* A request that a caller may start to work on is at rest.
LEMMA AtRestOutsideCallback ==
  ASSUME TypeInv, LockInv, NEW r \in Requests, MayEnter, mode[r] \notin Callback
  PROVE  mode[r] = "idle"
  BY DEF TypeInv, TypeOK, LockInv, MayEnter, Top, Callback, Modes

-----------------------------------------------------------------------------
(* Requests other than the one that steps.                                 *)

Kept(s) ==
    /\ state'[s] = state[s]
    /\ control'[s] = control[s]
    /\ status'[s] = status[s]
    /\ evidence'[s] = evidence[s]
    /\ notices'[s] = notices[s]
    /\ mode'[s] = mode[s]
    /\ pos'[s] = pos[s]
    /\ offered'[s] = offered[s]
    /\ grant'[s] = grant[s]
    /\ issuedAt'[s] = issuedAt[s]
    /\ expiresAt'[s] = expiresAt[s]
    /\ targetCalls'[s] = targetCalls[s]

LEMMA OthersKept ==
  ASSUME TypeInv, NEW r \in Requests, EngineStep(r), NEW s \in Requests \ {r}
  PROVE  Kept(s)
  <1> USE DEF TypeInv, TypeOK
  <1>1. mode'[s] = mode[s] /\ pos'[s] = pos[s]
    BY EngineStepLock DEF LockMove, Enter, Goto, Leave, lockVars
  <1>2. CASE Operation(r)
    BY <1>1, <1>2 DEF Operation, RequestAction, IngestApproval, CancelRequest,
       CancelRaises, Becomes, Kept, requestVars, evidenceVars, noticeVars, grantVars
  <1>3. CASE Advance(r)
    BY <1>1, <1>3 DEF Advance, EndPass, IssueAuthorization, IssueFails,
       RecordIssued, PassSchema, EvaluateCondition, CallOut, AskApproval, BlockStale,
       FailWithoutAuthority, Simulate, CallTarget, ApprovalsCurrent, Pass, Block,
       BlockRaises, Fail, Stop, Mark, Becomes, Kept, requestVars, evidenceVars, noticeVars,
       grantVars
  <1>4. CASE CallbackReturns(r)
    BY <1>1, <1>4 DEF CallbackReturns, ToolReturns, NotifierReturns, NotifierUnusable,
       TargetReturns, VerifierRejects, VerifierAccepts, Pass, Block, BlockRaises, Fail,
       Stop, Mark, Becomes, Kept, requestVars, evidenceVars, noticeVars, grantVars
  <1>5. QED
    BY <1>2, <1>3, <1>4 DEF EngineStep

LEMMA KeptInv ==
  ASSUME TypeInv, NEW s \in Requests, RequestInv(s), Kept(s)
  PROVE  RequestInv(s)'
  <1> USE DEF Kept
  <1>1. Course(s)'
    BY DEF RequestInv, Course, OnCourse, Outcome, Waiting, WaitsAt, StuckAt, StopsAt, Ready
  <1>2. Ordered(s)' /\ ByKind(s)'
    BY DEF RequestInv, Ordered, ByKind
  <1>3. ReleaseInv(s)' /\ GrantInv(s)' /\ TargetInv(s)'
    BY DEF RequestInv, ReleaseInv, Released, Cleared, GrantInv, TargetInv
  <1>4. EvidenceInv(s)'
    BY DEF RequestInv, EvidenceInv, Suits
  <1>5. LifetimeInv(s)'
    BY DEF RequestInv, LifetimeInv, PathEvidence
  <1>6. QED
    BY <1>1, <1>2, <1>3, <1>4, <1>5 DEF RequestInv

-----------------------------------------------------------------------------
(* The request that steps.                                                 *)

\* While a request is processing there is a gate to run: of the gates still
\* pending, among them the execute gate, one waits for none of the others.
LEMMA SomeGateReady ==
  ASSUME NEW r \in Requests, OnCourse(r)
  PROVE  Ready(r) # {}
  <1> DEFINE S == {g \in Gates : status[r][g] = "pending"}
  <1>1. S \in SUBSET Gates /\ S # {}
    BY ExecuteIsAGate DEF OnCourse
  <1>2. PICK g \in S : Requires[g] \intersect S = {}
    BY <1>1, PolicyAssumption DEF Loadable, Acyclic
  <1>3. Requires[g] \subseteq Gates
    BY PolicyAssumption DEF WorkflowShape
  <1>4. \A h \in Requires[g] : status[r][h] \in SATISFIED
    BY <1>2, <1>3 DEF OnCourse
  <1>5. QED
    BY <1>2, <1>4 DEF Ready

\* Marking a gate whose requirements are met, and that met nobody's before.
LEMMA MarkOrdered ==
  ASSUME TypeInv, NEW r \in Requests, Ordered(r), NEW g \in Gates, NEW s \in Statuses,
         status[r][g] \notin SATISFIED,
         \A h \in Requires[g] : status[r][h] \in SATISFIED,
         Mark(r, g, s)
  PROVE  /\ status'[r] = [status[r] EXCEPT ![g] = s]
         /\ status'[r][g] = s
         /\ \A h \in Gates \ {g} : status'[r][h] = status[r][h]
         /\ \A h \in Gates : status[r][h] \in SATISFIED => status'[r][h] = status[r][h]
         /\ Ordered(r)'
  <1>1. /\ status'[r] = [status[r] EXCEPT ![g] = s]
        /\ status[r] \in [Gates -> Statuses]
    BY DEF TypeInv, TypeOK, Mark
  <1>2. /\ status'[r][g] = s
        /\ \A h \in Gates \ {g} : status'[r][h] = status[r][h]
    BY <1>1
  <1>3. \A h \in Gates : status[r][h] \in SATISFIED => status'[r][h] = status[r][h]
    BY <1>2
  <1>4. \A h \in Gates : Requires[h] \subseteq Gates
    BY PolicyAssumption DEF WorkflowShape
  <1>5. Ordered(r)'
    BY <1>2, <1>3, <1>4 DEF Ordered
  <1>6. QED
    BY <1>1, <1>2, <1>3, <1>5

\* Everything of r that a gate's outcome leaves alone.
Rest(r) ==
    /\ control'[r] = control[r]
    /\ evidence'[r] = evidence[r]
    /\ offered'[r] = offered[r]
    /\ grant'[r] = grant[r]
    /\ issuedAt'[r] = issuedAt[r]
    /\ expiresAt'[r] = expiresAt[r]
    /\ targetCalls'[r] = targetCalls[r]

\* A ready gate other than approval and execute is satisfied.
LEMMA PassInv ==
  ASSUME TypeInv, NEW r \in Requests, RequestInv(r), mode[r] \in {"run", "call"},
         NEW g \in Ready(r), Kind[g] \notin {"approval", "execute"},
         mode[r] = "call" => pos[r] = g,
         NEW s \in {"passed", "simulated"}, s = "simulated" => Kind[g] = "notify",
         Pass(r, g, s), Rest(r)
  PROVE  RequestInv(r)'
  <1> USE ExecuteIsAGate DEF RequestInv
  <1>1. g \in Gates /\ g # Execute /\ s \in Statuses /\ s \in SATISFIED
    BY DEF Ready, Statuses, SATISFIED
  <1>2. /\ status[r][g] = "pending" /\ status[r][g] \notin SATISFIED
        /\ \A h \in Requires[g] : status[r][h] \in SATISFIED
        /\ Mark(r, g, s)
    BY DEF Ready, Pass, SATISFIED
  <1>3. /\ status'[r][g] = s
        /\ \A h \in Gates \ {g} : status'[r][h] = status[r][h]
        /\ \A h \in Gates : status[r][h] \in SATISFIED => status'[r][h] = status[r][h]
        /\ Ordered(r)'
    <2>1. Ordered(r)
      OBVIOUS
    <2> HIDE DEF RequestInv
    <2>2. QED
      BY <1>1, <1>2, <2>1, MarkOrdered, ZenonT(20)
  <1>4. state[r] = "processing" /\ state'[r] = "processing" /\ mode'[r] = "run"
    BY DEF Course, Pass, Goto, TypeInv, TypeOK
  <1>5. Course(r)'
    <2>1. OnCourse(r)'
      BY <1>1, <1>3 DEF Course, OnCourse
    <2>2. QED
      BY <1>4, <2>1 DEF Course, Outcome, Waiting
  <1>6. ByKind(r)'
    BY <1>1, <1>3 DEF ByKind
  <1>7. targetCalls[r] = 0
    BY <1>1, <1>4 DEF TargetInv
  <1>8. grant[r] = "none"
    BY <1>4 DEF GrantInv
  <1>9. ReleaseInv(r)' /\ GrantInv(r)' /\ TargetInv(r)' /\ LifetimeInv(r)'
    BY <1>4, <1>7, <1>8 DEF Rest, ReleaseInv, Released, GrantInv, TargetInv, LifetimeInv
  <1>10. EvidenceInv(r)'
    <2>1. \A d \in evidence[r] : d.gate \in Gates
      BY DEF TypeInv, TypeOK, Documents
    <2>2. \A d \in evidence'[r] : Suits(r, d)' /\ status'[r][d.gate] = "approved"
      BY <1>3, <2>1 DEF EvidenceInv, Rest, Suits, SATISFIED
    <2>3. \A h \in Gates : status'[r][h] = "approved" => \E d \in evidence'[r] : d.gate = h
      BY <1>1, <1>3 DEF EvidenceInv, Rest
    <2>4. QED
      BY <1>4, <2>2, <2>3 DEF EvidenceInv
  <1>11. QED
    BY <1>3, <1>5, <1>6, <1>9, <1>10

\* The gate gets its last status, and the operation leaves the request so.
Ends(r, g, s, public) == Mark(r, g, s) /\ Leave(r) /\ state'[r] = public

LEMMA StopEnds ==
  ASSUME TypeInv, NEW r \in Requests, NEW g, NEW s, NEW public, Stop(r, g, s, public)
  PROVE  Ends(r, g, s, public)
  BY DEF Ends, Stop, Becomes, TypeInv, TypeOK

\* The ways in which a gate ends a request without an authorization.
Ending(r, g, s, public) ==
    /\ targetCalls[r] = 1 => g = Execute
    /\ \/ s = "blocked" /\ public = "blocked" /\ targetCalls[r] = 0
       \/ /\ s = "blocked" /\ public = "processing" /\ targetCalls[r] = 0
          /\ Kind[g] \in {"tool", "condition"}
       \/ s = "failed" /\ public = "failed"
       \/ s = "simulated" /\ public = "simulated" /\ g = Execute /\ targetCalls[r] = 0
       \/ s = "passed" /\ public = "executed" /\ g = Execute

\* A ready gate ends the request, or leaves it stuck, without an authorization.
LEMMA EndInv ==
  ASSUME TypeInv, NEW r \in Requests, RequestInv(r), mode[r] \in {"run", "call", "issue"},
         NEW g \in Ready(r), NEW s, NEW public,
         Ending(r, g, s, public), Ends(r, g, s, public), Rest(r)
  PROVE  RequestInv(r)'
  <1> USE ExecuteIsAGate DEF RequestInv
  <1>1. g \in Gates /\ s \in Statuses /\ s # "approved" /\ s # "waiting" /\ s # "pending"
    BY DEF Ending, Ready, Statuses, SATISFIED
  <1>2. /\ status[r][g] = "pending" /\ status[r][g] \notin SATISFIED
        /\ \A h \in Requires[g] : status[r][h] \in SATISFIED
        /\ Mark(r, g, s)
    BY DEF Ready, Ends, SATISFIED
  <1>3. /\ status'[r][g] = s
        /\ \A h \in Gates \ {g} : status'[r][h] = status[r][h]
        /\ \A h \in Gates : status[r][h] \in SATISFIED => status'[r][h] = status[r][h]
        /\ Ordered(r)'
    <2>1. g \in Gates /\ s \in Statuses /\ Ordered(r)
      BY <1>1
    <2> HIDE DEF RequestInv
    <2>2. QED
      BY <1>2, <2>1, MarkOrdered, ZenonT(20)
  <1>4. state[r] = "processing" /\ state'[r] = public /\ mode'[r] = "idle"
    BY DEF Course, Ends, Leave, TypeInv, TypeOK
  <1>5. Course(r)'
    <2>1. StopsAt(r, g, s)'
      BY <1>1, <1>3 DEF StopsAt, Course, OnCourse
    <2>2. s \in SATISFIED => \A h \in Gates : status'[r][h] \in SATISFIED \union {"pending"}
      BY <1>3, <2>1 DEF StopsAt
    <2>3. Outcome(r)'
      BY <1>1, <1>4, <2>1, <2>2 DEF Ending, Outcome, Waiting, SATISFIED
    <2>4. public = "processing" => StuckAt(r, g)'
      BY <2>1 DEF Ending, StuckAt
    <2>5. QED
      BY <1>1, <1>4, <2>3, <2>4 DEF Ending, Course, Waiting
  <1>6. ByKind(r)'
    BY <1>1, <1>3 DEF Ending, ByKind
  <1>7. grant[r] = "none"
    BY <1>4 DEF GrantInv
  <1>8. GrantInv(r)' /\ TargetInv(r)' /\ LifetimeInv(r)'
    BY <1>4, <1>7 DEF Ending, Rest, GrantInv, TargetInv, LifetimeInv
  <1>9. ReleaseInv(r)'
    <2>1. ASSUME Released(r)' PROVE g = Execute
      BY <1>4, <1>7, <2>1 DEF Ending, Released, Rest, TargetInv
    <2>2. Requires[Execute] \subseteq Gates
      BY PolicyAssumption DEF WorkflowShape
    <2>3. g = Execute => Cleared(r)'
      BY <1>2, <1>3, <2>2 DEF Cleared
    <2>4. QED
      BY <2>1, <2>3 DEF ReleaseInv
  <1>10. EvidenceInv(r)'
    <2>1. \A d \in evidence[r] : d.gate \in Gates
      BY DEF TypeInv, TypeOK, Documents
    <2>2. \A d \in evidence'[r] : Suits(r, d)' /\ status'[r][d.gate] = "approved"
      BY <1>3, <2>1 DEF EvidenceInv, Rest, Suits, SATISFIED
    <2>3. \A h \in Gates : status'[r][h] = "approved" => \E d \in evidence'[r] : d.gate = h
      BY <1>1, <1>3 DEF EvidenceInv, Rest
    <2>4. QED
      BY <1>4, <2>2, <2>3 DEF Ending, EvidenceInv
  <1>11. QED
    BY <1>3, <1>5, <1>6, <1>8, <1>9, <1>10

\* A ready approval gate starts to wait.
LEMMA AskInv ==
  ASSUME TypeInv, NEW r \in Requests, RequestInv(r), mode[r] = "run",
         NEW g \in Ready(r), Kind[g] = "approval",
         Stop(r, g, "waiting", "waiting_for_approval"), Rest(r)
  PROVE  RequestInv(r)'
  <1> USE ExecuteIsAGate DEF RequestInv
  <1>1. g \in Gates /\ g # Execute /\ "waiting" \in Statuses
    BY DEF Ready, Statuses
  <1>2. /\ status[r][g] = "pending" /\ status[r][g] \notin SATISFIED
        /\ \A h \in Requires[g] : status[r][h] \in SATISFIED
        /\ Mark(r, g, "waiting")
    BY DEF Ready, Stop, SATISFIED
  <1>3. /\ status'[r][g] = "waiting"
        /\ \A h \in Gates \ {g} : status'[r][h] = status[r][h]
        /\ \A h \in Gates : status[r][h] \in SATISFIED => status'[r][h] = status[r][h]
        /\ Ordered(r)'
    <2>1. Ordered(r)
      OBVIOUS
    <2> HIDE DEF RequestInv
    <2>2. QED
      BY <1>1, <1>2, <2>1, MarkOrdered, ZenonT(20)
  <1>4. state'[r] = "waiting_for_approval" /\ mode'[r] = "idle"
    BY DEF Stop, Becomes, Leave, TypeInv, TypeOK
  <1>5. Course(r)'
    <2>1. state[r] = "processing"
      BY DEF Course
    <2>2. WaitsAt(r, g)'
      BY <1>1, <1>3, <2>1 DEF WaitsAt, StopsAt, Course, OnCourse
    <2>3. QED
      BY <1>1, <1>4, <2>2 DEF Course, Outcome
  <1>6. ByKind(r)'
    BY <1>1, <1>3 DEF ByKind
  <1>7. targetCalls[r] = 0 /\ grant[r] = "none"
    BY DEF TargetInv, GrantInv, Course
  <1>8. ReleaseInv(r)' /\ GrantInv(r)' /\ TargetInv(r)' /\ LifetimeInv(r)'
    BY <1>4, <1>7 DEF Rest, ReleaseInv, Released, GrantInv, TargetInv, LifetimeInv
  <1>9. EvidenceInv(r)'
    <2>1. \A d \in evidence[r] : d.gate \in Gates
      BY DEF TypeInv, TypeOK, Documents
    <2>2. \A d \in evidence'[r] : Suits(r, d)' /\ status'[r][d.gate] = "approved"
      BY <1>3, <2>1 DEF EvidenceInv, Rest, Suits, SATISFIED
    <2>3. \A h \in Gates : status'[r][h] = "approved" => \E d \in evidence'[r] : d.gate = h
      BY <1>1, <1>3 DEF EvidenceInv, Rest
    <2>4. QED
      BY <1>4, <2>2, <2>3 DEF EvidenceInv
  <1>10. QED
    BY <1>3, <1>5, <1>6, <1>8, <1>9

\* The activation moves on and no gate changes.
LEMMA MoveInv ==
  ASSUME TypeInv, NEW r \in Requests, RequestInv(r), mode[r] = "run",
         NEW m \in {"run", "call", "issue"}, NEW g \in 0..GateCount,
         Goto(r, m, g), UNCHANGED requestVars,
         m # "run" => g \in Ready(r),
         m = "call" => Kind[g] \in {"tool", "notify", "execute"},
         m = "issue" => g = Execute,
         control'[r] = control[r], evidence'[r] = evidence[r],
         offered'[r] = offered[r], grant'[r] = grant[r],
         \/ targetCalls'[r] = targetCalls[r]
         \/ targetCalls'[r] = targetCalls[r] + 1 /\ m = "call" /\ g = Execute
  PROVE  RequestInv(r)'
  <1> USE DEF RequestInv
  <1>1. /\ state[r] = "processing" /\ state'[r] = "processing"
        /\ mode'[r] = m /\ pos'[r] = g
        /\ status' = status
    BY DEF Course, Goto, requestVars, TypeInv, TypeOK
  <1>2. Course(r)'
    <2>1. Ready(r)' = Ready(r)
      BY <1>1 DEF Ready
    <2>2. OnCourse(r)'
      BY <1>1 DEF Course, OnCourse
    <2>3. QED
      BY <1>1, <2>1, <2>2 DEF Course, Outcome, Waiting
  <1>3. Ordered(r)' /\ ByKind(r)'
    BY <1>1 DEF Ordered, ByKind
  <1>4. targetCalls[r] = 0 /\ grant[r] = "none"
    BY <1>1 DEF TargetInv, GrantInv
  <1>5. GrantInv(r)' /\ TargetInv(r)' /\ LifetimeInv(r)'
    BY <1>1, <1>4 DEF GrantInv, TargetInv, LifetimeInv
  <1>6. ReleaseInv(r)'
    <2>1. Released(r)' => g \in Ready(r) /\ g = Execute
      BY <1>1, <1>4 DEF Released
    <2>2. QED
      BY <1>1, <2>1 DEF ReleaseInv, Cleared, Ready
  <1>7. EvidenceInv(r)'
    BY <1>1 DEF EvidenceInv, Suits
  <1>8. QED
    BY <1>2, <1>3, <1>5, <1>6, <1>7

LEMMA IssueInv ==
  ASSUME TypeInv, NEW r \in Requests, RequestInv(r),
         IssueAuthorization(r) \/ IssueFails(r)
  PROVE  RequestInv(r)'
  <1> USE ExecuteIsAGate DEF RequestInv
  <1>1. /\ mode[r] = "issue" /\ pos[r] = Execute /\ Execute \in Ready(r)
        /\ state[r] = "processing" /\ targetCalls[r] = 0 /\ grant[r] = "none"
    BY DEF IssueAuthorization, IssueFails, Issuing, Course, TargetInv, GrantInv
  <1>2. CASE UNCHANGED grantVars
    <2>1. Fail(r, Execute) /\ Rest(r)
      BY <1>1, <1>2 DEF IssueAuthorization, IssueFails, RecordIssued, Rest, grantVars,
         evidenceVars, TypeInv, TypeOK
    <2>2. QED
      BY <1>1, <2>1, StopEnds, EndInv DEF Ending, Fail
  <1>3. CASE RecordIssued(r)
    <2>1. PICK s \in {"authorized", "failed"} : Stop(r, Execute, s, s)
      BY <1>1 DEF IssueAuthorization, IssueFails, Fail
    <2>2. control'[r] = control[r] /\ evidence'[r] = evidence[r] /\ targetCalls'[r] = 0
      BY <1>1 DEF IssueAuthorization, IssueFails, evidenceVars
    <2>3. s \in Statuses /\ Mark(r, Execute, s)
      BY <2>1 DEF Stop, Statuses
    <2>4. /\ status[r][Execute] = "pending" /\ status[r][Execute] \notin SATISFIED
          /\ \A h \in Requires[Execute] : status[r][h] \in SATISFIED
      BY <1>1 DEF Ready, SATISFIED
    <2>5. /\ status'[r][Execute] = s
          /\ \A h \in Gates \ {Execute} : status'[r][h] = status[r][h]
          /\ \A h \in Gates : status[r][h] \in SATISFIED => status'[r][h] = status[r][h]
          /\ Ordered(r)'
      <3>1. Ordered(r)
        OBVIOUS
      <3> HIDE DEF RequestInv
      <3>2. QED
        BY <2>3, <2>4, <3>1, MarkOrdered, ZenonT(20)
    <2>6. state'[r] = s /\ mode'[r] = "idle" /\ grant'[r] = "issued"
      BY <1>3, <2>1 DEF Stop, Becomes, Leave, RecordIssued, TypeInv, TypeOK
    <2>7. Course(r)' /\ ByKind(r)' /\ GrantInv(r)' /\ TargetInv(r)'
      <3>1. StopsAt(r, Execute, s)'
        BY <1>1, <2>5 DEF StopsAt, Course, OnCourse
      <3>2. Course(r)'
        BY <2>6, <3>1 DEF Course, Outcome, Waiting, StopsAt
      <3>3. QED
        BY <2>2, <2>5, <2>6, <3>2 DEF ByKind, GrantInv, TargetInv
    <2>8. ReleaseInv(r)'
      <3>1. Requires[Execute] \subseteq Gates
        BY PolicyAssumption DEF WorkflowShape
      <3>2. QED
        BY <2>4, <2>5, <3>1 DEF ReleaseInv, Cleared
    <2>9. LifetimeInv(r)'
      <3>1. PICK t \in Lifetimes(r) : clock < t /\ expiresAt'[r] = t /\ issuedAt'[r] = clock
        BY <1>3 DEF RecordIssued, TypeInv, TypeOK
      <3>2. \A d \in PathEvidence(r) : t <= d.expires_at
        BY <3>1 DEF Lifetimes
      <3>3. PathEvidence(r)' = PathEvidence(r)
        BY <2>2 DEF PathEvidence
      <3>4. QED
        BY <3>1, <3>2, <3>3 DEF LifetimeInv
    <2>10. EvidenceInv(r)'
      <3>1. \A d \in evidence[r] : d.gate \in Gates
        BY DEF TypeInv, TypeOK, Documents
      <3>2. \A d \in evidence'[r] : Suits(r, d)' /\ status'[r][d.gate] = "approved"
        BY <2>2, <2>5, <3>1 DEF EvidenceInv, Suits, SATISFIED
      <3>3. \A h \in Gates : status'[r][h] = "approved" => \E d \in evidence'[r] : d.gate = h
        BY <2>2, <2>5 DEF EvidenceInv
      <3>4. QED
        BY <2>6, <3>2, <3>3 DEF EvidenceInv
    <2>11. QED
      BY <2>5, <2>7, <2>8, <2>9, <2>10
  <1>4. QED
    BY <1>2, <1>3 DEF IssueAuthorization, IssueFails

\* The verifier accepts: the waiting gate is approved by the offered document.
LEMMA AcceptInv ==
  ASSUME TypeInv, NEW r \in Requests, RequestInv(r), VerifierAccepts(r)
  PROVE  RequestInv(r)'
  <1> USE ExecuteIsAGate DEF RequestInv
  <1> DEFINE g == pos[r]
  <1>1. /\ mode[r] = "verify" /\ Waiting(r) /\ status[r][g] = "waiting" /\ g \in Gates
        /\ state'[r] = "processing" /\ mode'[r] = "run"
        /\ control'[r] = control[r] /\ grant'[r] = grant[r]
        /\ targetCalls'[r] = targetCalls[r]
        /\ Mark(r, g, "approved")
    BY DEF VerifierAccepts, Verifying, Becomes, Goto, Course, AtGates, grantVars, TypeInv,
       TypeOK
  <1>2. PICK w \in Gates : WaitsAt(r, w)
    BY <1>1 DEF Course, Outcome
  <1>3. g = w
    BY <1>1, <1>2 DEF WaitsAt, StopsAt, SATISFIED
  <1>4. /\ Kind[g] = "approval" /\ g # Execute /\ "approved" \in Statuses
        /\ status[r][g] \notin SATISFIED
        /\ \A h \in Requires[g] : status[r][h] \in SATISFIED
    BY <1>1, <1>2, <1>3 DEF WaitsAt, Ordered, SATISFIED, Statuses
  <1>5. /\ status'[r][g] = "approved"
        /\ \A h \in Gates \ {g} : status'[r][h] = status[r][h]
        /\ \A h \in Gates : status[r][h] \in SATISFIED => status'[r][h] = status[r][h]
        /\ Ordered(r)'
    <2>1. Ordered(r)
      OBVIOUS
    <2> HIDE DEF RequestInv
    <2>2. QED
      BY <1>1, <1>4, <2>1, MarkOrdered, ZenonT(20)
  <1>6. Course(r)'
    <2>1. OnCourse(r)'
      BY <1>2, <1>3, <1>4, <1>5 DEF OnCourse, WaitsAt, StopsAt, SATISFIED
    <2>2. QED
      BY <1>1, <2>1 DEF Course, Outcome, Waiting
  <1>7. ByKind(r)'
    BY <1>4, <1>5 DEF ByKind
  <1>8. targetCalls[r] = 0 /\ grant[r] = "none"
    BY <1>1 DEF TargetInv, GrantInv, Waiting
  <1>9. ReleaseInv(r)' /\ GrantInv(r)' /\ TargetInv(r)' /\ LifetimeInv(r)'
    BY <1>1, <1>8 DEF ReleaseInv, Released, GrantInv, TargetInv, LifetimeInv
  <1>10. EvidenceInv(r)'
    <2>1. PICK d \in Documents : offered[r] = {d} /\ d.gate = g /\ Suits(r, d)
      BY <1>1 DEF EvidenceInv
    <2>2. evidence'[r] = evidence[r] \union {d}
      BY <2>1 DEF VerifierAccepts, TypeInv, TypeOK
    <2>3. \A e \in evidence[r] : e.gate \in Gates
      BY DEF TypeInv, TypeOK, Documents
    <2>4. \A e \in evidence'[r] : Suits(r, e)' /\ status'[r][e.gate] = "approved"
      BY <1>1, <1>5, <2>1, <2>2, <2>3 DEF EvidenceInv, Suits, SATISFIED
    <2>5. \A h \in Gates : status'[r][h] = "approved" => \E e \in evidence'[r] : e.gate = h
      BY <1>5, <2>1, <2>2 DEF EvidenceInv
    <2>6. QED
      BY <1>1, <2>4, <2>5 DEF EvidenceInv
  <1>11. QED
    BY <1>5, <1>6, <1>7, <1>9, <1>10

\* The verifier rejects: the request goes on waiting.
LEMMA RejectInv ==
  ASSUME TypeInv, NEW r \in Requests, RequestInv(r), VerifierRejects(r)
  PROVE  RequestInv(r)'
  <1> USE DEF RequestInv
  <1>1. /\ mode[r] = "verify" /\ mode'[r] = "idle" /\ Waiting(r)
        /\ state'[r] = state[r] /\ status'[r] = status[r] /\ control'[r] = control[r]
        /\ evidence'[r] = evidence[r] /\ grant'[r] = grant[r]
        /\ issuedAt'[r] = issuedAt[r] /\ expiresAt'[r] = expiresAt[r]
        /\ targetCalls'[r] = targetCalls[r]
    BY DEF VerifierRejects, Verifying, Leave, Course, requestVars, grantVars, TypeInv,
       TypeOK
  <1>2. Course(r)'
    BY <1>1 DEF Course, Outcome, Waiting, WaitsAt, StopsAt
  <1>3. Ordered(r)' /\ ByKind(r)'
    BY <1>1 DEF Ordered, ByKind
  <1>4. ReleaseInv(r)' /\ GrantInv(r)' /\ TargetInv(r)' /\ LifetimeInv(r)'
    BY <1>1 DEF ReleaseInv, Released, Cleared, GrantInv, TargetInv, LifetimeInv,
       PathEvidence, Waiting
  <1>5. EvidenceInv(r)'
    BY <1>1 DEF EvidenceInv, Suits
  <1>6. QED
    BY <1>2, <1>3, <1>4, <1>5

LEMMA CallbackInv ==
  ASSUME TypeInv, NEW r \in Requests, RequestInv(r), CallbackReturns(r)
  PROVE  RequestInv(r)'
  <1> USE ExecuteIsAGate
  <1>1. CASE ToolReturns(r) \/ NotifierReturns(r) \/ NotifierUnusable(r) \/ TargetReturns(r)
    <2> DEFINE g == pos[r]
    <2>1. /\ mode[r] = "call" /\ state[r] = "processing" /\ g \in Ready(r) /\ g \in Gates
          /\ (targetCalls[r] = 1 => g = Execute) /\ targetCalls[r] \in {0, 1}
      BY <1>1 DEF ToolReturns, NotifierReturns, NotifierUnusable, TargetReturns,
         Returning, RequestInv, Course, TargetInv, Ready
    <2>2. Rest(r)
      BY <1>1 DEF ToolReturns, NotifierReturns, NotifierUnusable, TargetReturns, Rest,
         evidenceVars, grantVars
    <2>3. CASE ToolReturns(r)
      <3>1. Kind[g] = "tool" /\ targetCalls[r] = 0
        BY <2>1, <2>3 DEF ToolReturns, Returning
      <3>2. CASE Pass(r, g, "passed")
        BY <2>1, <2>2, <3>1, <3>2, PassInv
      <3>3. CASE Block(r, g) \/ Fail(r, g)
        BY <2>1, <2>2, <3>1, <3>3, StopEnds, EndInv DEF Ending, Block, Fail
      <3>4. CASE BlockRaises(r, g)
        <4>1. Ends(r, g, "blocked", "processing")
          BY <2>1, <3>4 DEF BlockRaises, Ends
        <4>2. QED
          BY <2>1, <2>2, <3>1, <4>1, EndInv DEF Ending
      <3>5. QED
        BY <2>3, <3>2, <3>3, <3>4 DEF ToolReturns
    <2>4. CASE NotifierReturns(r)
      <3>1. Kind[g] = "notify"
        BY <2>4 DEF NotifierReturns, Returning
      <3>2. PICK s \in {"passed", "simulated"} : Pass(r, g, s)
        BY <2>4 DEF NotifierReturns
      <3>3. QED
        BY <2>1, <2>2, <3>1, <3>2, PassInv
    <2>5. CASE NotifierUnusable(r)
      <3>1. Kind[g] = "notify" /\ targetCalls[r] = 0
        BY <2>1, <2>5 DEF NotifierUnusable, Returning
      <3>2. Block(r, g) \/ Fail(r, g)
        BY <2>5 DEF NotifierUnusable
      <3>3. QED
        BY <2>1, <2>2, <3>1, <3>2, StopEnds, EndInv DEF Ending, Block, Fail
    <2>6. CASE TargetReturns(r)
      <3>1. g = Execute
        BY <2>1, <2>6 DEF TargetReturns, Returning
      <3>2. Stop(r, g, "passed", "executed") \/ Fail(r, g)
        BY <2>6 DEF TargetReturns
      <3>3. QED
        BY <2>1, <2>2, <3>1, <3>2, StopEnds, EndInv DEF Ending, Fail
    <2>7. QED
      BY <1>1, <2>3, <2>4, <2>5, <2>6
  <1>2. QED
    BY <1>1, AcceptInv, RejectInv DEF CallbackReturns

LEMMA AdvanceInv ==
  ASSUME TypeInv, NEW r \in Requests, RequestInv(r), Advance(r)
  PROVE  RequestInv(r)'
  <1> USE ExecuteIsAGate
  <1>1. CASE EndPass(r)
    <2>1. mode[r] = "run" /\ state[r] = "processing" /\ OnCourse(r)
      BY <1>1 DEF EndPass, Running, RequestInv, Course
    <2>2. Goto(r, "run", 0) /\ 0 \in 0..GateCount
      BY <1>1, <2>1, SomeGateReady, PolicyAssumption DEF EndPass, WorkflowShape
    <2>3. QED
      BY <1>1, <2>1, <2>2, MoveInv DEF EndPass, evidenceVars, grantVars
  <1>2. ASSUME NEW g \in Gates,
               \/ PassSchema(r, g) \/ EvaluateCondition(r, g) \/ CallOut(r, g)
               \/ AskApproval(r, g) \/ BlockStale(r, g) \/ FailWithoutAuthority(r, g)
               \/ Simulate(r, g) \/ CallTarget(r, g) \/ ApprovalsCurrent(r, g)
        PROVE  RequestInv(r)'
    <2>1. At(r, g)
      BY <1>2 DEF PassSchema, EvaluateCondition, CallOut, AskApproval, BlockStale,
         FailWithoutAuthority, Simulate, CallTarget, ApprovalsCurrent, AtExecute
    <2>2. mode[r] = "run" /\ g \in Ready(r) /\ g \in 0..GateCount
      BY <2>1, GatesAreNumbers DEF At, Running, Upcoming
    <2>3. state[r] = "processing" /\ targetCalls[r] = 0
      BY <2>2 DEF RequestInv, Course, TargetInv
    <2>4. CASE PassSchema(r, g) \/ EvaluateCondition(r, g)
      <3>1. Rest(r) /\ Kind[g] \notin {"approval", "execute"}
        BY <2>4 DEF PassSchema, EvaluateCondition, Rest, evidenceVars, grantVars
      <3>2. CASE Pass(r, g, "passed")
        BY <2>2, <2>3, <3>1, <3>2, PassInv
      <3>3. CASE Block(r, g)
        BY <2>2, <2>3, <3>1, <3>3, StopEnds, EndInv DEF Ending, Block
      <3>4. CASE Kind[g] = "condition" /\ BlockRaises(r, g)
        <4>1. Ends(r, g, "blocked", "processing")
          BY <2>3, <3>4 DEF BlockRaises, Ends
        <4>2. QED
          BY <2>2, <2>3, <3>1, <3>4, <4>1, EndInv DEF Ending
      <3>5. QED
        BY <2>4, <3>2, <3>3, <3>4 DEF PassSchema, EvaluateCondition
    <2>5. CASE CallOut(r, g)
      BY <2>2, <2>5, MoveInv DEF CallOut, evidenceVars, grantVars
    <2>6. CASE AskApproval(r, g)
      <3>1. Rest(r) /\ Kind[g] = "approval"
        BY <2>6 DEF AskApproval, Rest, evidenceVars, grantVars
      <3>2. QED
        BY <2>2, <2>6, <3>1, AskInv DEF AskApproval
    <2>7. CASE BlockStale(r, g) \/ FailWithoutAuthority(r, g) \/ Simulate(r, g)
      <3>1. Rest(r) /\ g = Execute
        BY <2>7 DEF BlockStale, FailWithoutAuthority, Simulate, AtExecute, Rest,
           evidenceVars, grantVars
      <3>2. Block(r, g) \/ Fail(r, g) \/ Stop(r, g, "simulated", "simulated")
        BY <2>7 DEF BlockStale, FailWithoutAuthority, Simulate
      <3>3. QED
        BY <2>2, <2>3, <3>1, <3>2, StopEnds, EndInv DEF Ending, Block, Fail
    <2>8. CASE CallTarget(r, g)
      <3>1. /\ Kind[g] = "execute" /\ Goto(r, "call", g) /\ UNCHANGED requestVars
            /\ control'[r] = control[r] /\ evidence'[r] = evidence[r]
            /\ offered'[r] = offered[r] /\ grant'[r] = grant[r]
            /\ targetCalls'[r] = targetCalls[r] + 1
        BY <2>8 DEF CallTarget, AtExecute, evidenceVars, grantVars, TypeInv, TypeOK
      <3>2. QED
        BY <2>2, <3>1, MoveInv
    <2>9. CASE ApprovalsCurrent(r, g)
      <3>1. /\ Kind[g] = "execute" /\ Goto(r, "issue", g) /\ UNCHANGED requestVars
            /\ control'[r] = control[r] /\ evidence'[r] = evidence[r]
            /\ offered'[r] = offered[r] /\ grant'[r] = grant[r]
            /\ targetCalls'[r] = targetCalls[r]
        BY <2>9 DEF ApprovalsCurrent, AtExecute, evidenceVars, grantVars
      <3>2. QED
        BY <2>2, <3>1, MoveInv
    <2>10. QED
      BY <1>2, <2>4, <2>5, <2>6, <2>7, <2>8, <2>9
  <1>3. QED
    BY <1>1, <1>2, IssueInv DEF Advance

LEMMA OperationInv ==
  ASSUME TypeInv, LockInv, NEW r \in Requests, RequestInv(r), Operation(r)
  PROVE  RequestInv(r)'
  <1> USE ExecuteIsAGate DEF RequestInv
  <1>1. ASSUME NEW minimum, RequestAction(r, minimum) PROVE RequestInv(r)'
    <2>1. /\ state[r] = "none" /\ state'[r] = "processing" /\ mode'[r] = "run"
          /\ status'[r] = status[r] /\ evidence'[r] = evidence[r]
          /\ grant'[r] = grant[r] /\ targetCalls'[r] = targetCalls[r]
      BY <1>1 DEF RequestAction, Becomes, Enter, evidenceVars, grantVars, TypeInv, TypeOK
    <2>2. /\ evidence[r] = {} /\ grant[r] = "none" /\ targetCalls[r] = 0
          /\ \A g \in Gates : status[r][g] = "pending"
      BY <2>1 DEF EvidenceInv, GrantInv, TargetInv, Course
    <2>3. Course(r)'
      BY <2>1, <2>2 DEF Course, OnCourse, Outcome, Waiting
    <2>4. Ordered(r)' /\ ByKind(r)'
      BY <2>1, <2>2 DEF Ordered, ByKind
    <2>5. ReleaseInv(r)' /\ GrantInv(r)' /\ TargetInv(r)' /\ LifetimeInv(r)'
      BY <2>1, <2>2 DEF ReleaseInv, Released, GrantInv, TargetInv, LifetimeInv
    <2>6. EvidenceInv(r)'
      BY <2>1, <2>2 DEF EvidenceInv
    <2>7. QED
      BY <2>3, <2>4, <2>5, <2>6
  <1>2. ASSUME NEW d \in Documents, IngestApproval(r, d) PROVE RequestInv(r)'
    <2>1. mode[r] = "idle"
      BY <1>2, AtRestOutsideCallback DEF IngestApproval
    <2>2. /\ mode'[r] = "verify" /\ pos'[r] = d.gate /\ offered'[r] = {d}
          /\ Waiting(r) /\ Acceptable(r, d)
          /\ state'[r] = state[r] /\ status'[r] = status[r] /\ control'[r] = control[r]
          /\ evidence'[r] = evidence[r] /\ grant'[r] = grant[r]
          /\ issuedAt'[r] = issuedAt[r] /\ expiresAt'[r] = expiresAt[r]
          /\ targetCalls'[r] = targetCalls[r]
      BY <1>2 DEF IngestApproval, Enter, requestVars, grantVars, TypeInv, TypeOK
    <2>3. Course(r)'
      BY <2>1, <2>2 DEF Course, Outcome, Waiting, WaitsAt, StopsAt, Acceptable
    <2>4. Ordered(r)' /\ ByKind(r)'
      BY <2>2 DEF Ordered, ByKind
    <2>5. ReleaseInv(r)' /\ GrantInv(r)' /\ TargetInv(r)' /\ LifetimeInv(r)'
      BY <2>1, <2>2 DEF ReleaseInv, Released, Cleared, GrantInv, TargetInv, LifetimeInv,
         PathEvidence
    <2>6. EvidenceInv(r)'
      BY <2>2 DEF EvidenceInv, Suits, Acceptable, Waiting
    <2>7. QED
      BY <2>3, <2>4, <2>5, <2>6
  <1>3. CASE CancelRequest(r)
    <2>1. mode[r] = "idle"
      BY <1>3, AtRestOutsideCallback DEF CancelRequest
    <2>2. /\ state[r] \notin TERMINAL \union {"none"} /\ state'[r] = "cancelled"
          /\ mode'[r] = "idle" /\ status'[r] = status[r] /\ control'[r] = control[r]
          /\ evidence'[r] = evidence[r] /\ targetCalls'[r] = targetCalls[r]
          /\ issuedAt'[r] = issuedAt[r] /\ expiresAt'[r] = expiresAt[r]
          /\ \/ state[r] # "authorized" /\ grant'[r] = grant[r]
             \/ grant[r] \in {"issued", "cancelled"} /\ grant'[r] = "cancelled"
      BY <1>3, <2>1 DEF CancelRequest, Becomes, lockVars, evidenceVars, TypeInv, TypeOK
    <2>3. state[r] # "authorized" => grant[r] = "none"
      BY <2>2 DEF GrantInv, TERMINAL
    <2>4. targetCalls[r] = 0
      BY <2>1, <2>2 DEF TargetInv, TERMINAL
    <2>5. Course(r)' /\ Ordered(r)' /\ ByKind(r)'
      BY <2>2 DEF Course, Outcome, Waiting, Ordered, ByKind
    <2>6. GrantInv(r)' /\ TargetInv(r)'
      BY <2>2, <2>3, <2>4 DEF GrantInv, TargetInv
    <2>7. ReleaseInv(r)' /\ LifetimeInv(r)'
      BY <2>2, <2>3, <2>4 DEF ReleaseInv, Released, Cleared, LifetimeInv, PathEvidence
    <2>8. EvidenceInv(r)'
      BY <2>2 DEF EvidenceInv, Suits
    <2>9. QED
      BY <2>5, <2>6, <2>7, <2>8
  <1>4. CASE CancelRaises(r)
    <2>1. /\ state[r] = "authorized" /\ state'[r] = state[r] /\ status'[r] = status[r]
          /\ grant[r] = "issued" /\ grant'[r] = "cancelled"
          /\ mode'[r] = mode[r] /\ pos'[r] = pos[r] /\ control'[r] = control[r]
          /\ evidence'[r] = evidence[r] /\ offered'[r] = offered[r]
          /\ targetCalls'[r] = targetCalls[r]
          /\ issuedAt'[r] = issuedAt[r] /\ expiresAt'[r] = expiresAt[r]
      BY <1>4 DEF CancelRaises, lockVars, requestVars, evidenceVars, TypeInv, TypeOK
    <2>2. Course(r)' /\ Ordered(r)' /\ ByKind(r)'
      BY <2>1 DEF Course, Outcome, Waiting, Ordered, ByKind
    <2>3. ReleaseInv(r)' /\ GrantInv(r)' /\ TargetInv(r)' /\ LifetimeInv(r)'
      BY <2>1 DEF ReleaseInv, Released, Cleared, GrantInv, TargetInv, LifetimeInv,
         PathEvidence
    <2>4. EvidenceInv(r)'
      BY <2>1 DEF EvidenceInv, Suits
    <2>5. QED
      BY <2>2, <2>3, <2>4
  <1>5. QED
    BY <1>1, <1>2, <1>3, <1>4 DEF Operation

\* Brokers and the operator only end what the engine issued.
LEMMA OutsideInv ==
  ASSUME TypeInv, NEW s \in Requests, RequestInv(s),
         \/ \E r \in Requests : Elsewhere(r)
         \/ RevokeAllIssued
         \/ Tick
  PROVE  RequestInv(s)'
  <1> USE DEF RequestInv
  <1>1. EngineUntouched /\ UNCHANGED <<issuedAt, expiresAt>>
    BY TypeOutside
  <1>2. grant'[s] = grant[s] \/ (grant[s] = "issued" /\ grant'[s] # "none")
    BY DEF Elsewhere, Take, FindExpired, RevokeAllIssued, Tick, grantVars, TypeInv, TypeOK
  <1>3. Course(s)' /\ Ordered(s)' /\ ByKind(s)'
    BY <1>1 DEF EngineUntouched, requestVars, lockVars, Course, OnCourse, Outcome, Waiting,
       WaitsAt, StuckAt, StopsAt, Ready, Ordered, ByKind
  <1>4. ReleaseInv(s)' /\ TargetInv(s)'
    BY <1>1, <1>2 DEF EngineUntouched, requestVars, lockVars, ReleaseInv, Released,
       Cleared, TargetInv
  <1>5. GrantInv(s)'
    BY <1>1, <1>2 DEF EngineUntouched, requestVars, GrantInv
  <1>6. LifetimeInv(s)'
    BY <1>1, <1>2 DEF EngineUntouched, evidenceVars, LifetimeInv, PathEvidence
  <1>7. EvidenceInv(s)'
    BY <1>1 DEF EngineUntouched, requestVars, lockVars, evidenceVars, EvidenceInv, Suits
  <1>8. QED
    BY <1>3, <1>4, <1>5, <1>6, <1>7

-----------------------------------------------------------------------------
(* The invariant.                                                          *)

LEMMA EngineInvInit == Init => EngineInv
  <1> SUFFICES ASSUME Init PROVE EngineInv
    OBVIOUS
  <1>1. TypeInv
    BY TypeInit
  <1>2. LockInv
    BY DEF Init, LockInv
  <1>3. ASSUME NEW r \in Requests PROVE RequestInv(r)
    <2>1. Course(r) /\ Ordered(r) /\ ByKind(r)
      BY DEF Init, Course, OnCourse, Outcome, Waiting, Ordered, ByKind
    <2>2. ReleaseInv(r) /\ GrantInv(r) /\ TargetInv(r) /\ EvidenceInv(r) /\ LifetimeInv(r)
      BY DEF Init, ReleaseInv, Released, GrantInv, TargetInv, EvidenceInv, LifetimeInv
    <2>3. QED
      BY <2>1, <2>2 DEF RequestInv
  <1>4. QED
    BY <1>1, <1>2, <1>3 DEF EngineInv

LEMMA NextCases ==
  ASSUME [Next]_vars
  PROVE  \/ \E r \in Requests : EngineStep(r)
         \/ (\E r \in Requests : Elsewhere(r)) \/ RevokeAllIssued \/ Tick
         \/ UNCHANGED vars
  BY DEF Next, EngineStep

LEMMA EngineInvStep == EngineInv /\ [Next]_vars => EngineInv'
  <1> SUFFICES ASSUME EngineInv, [Next]_vars PROVE EngineInv'
    OBVIOUS
  <1>1. TypeInv /\ LockInv /\ \A s \in Requests : RequestInv(s)
    BY DEF EngineInv
  <1>2. TypeInv'
    BY <1>1, TypeStep
  <1>3. ASSUME NEW r \in Requests, EngineStep(r)
        PROVE  LockInv' /\ \A s \in Requests : RequestInv(s)'
    <2>1. LockInv'
      BY <1>1, <1>3, EngineStepLock, LockMoveInv
    <2>2. RequestInv(r)'
      BY <1>1, <1>3, OperationInv, AdvanceInv, CallbackInv DEF EngineStep
    <2>3. ASSUME NEW s \in Requests \ {r} PROVE RequestInv(s)'
      BY <1>1, <1>3, OthersKept, KeptInv
    <2>4. QED
      BY <2>1, <2>2, <2>3
  <1>4. CASE (\E r \in Requests : Elsewhere(r)) \/ RevokeAllIssued \/ Tick
    <2>1. EngineUntouched
      BY <1>1, <1>4, TypeOutside
    <2>2. LockInv'
      BY <1>1, <2>1 DEF EngineUntouched, lockVars, LockInv, Top
    <2>3. \A s \in Requests : RequestInv(s)'
      BY <1>1, <1>4, OutsideInv
    <2>4. QED
      BY <1>2, <2>2, <2>3 DEF EngineInv
  <1>5. CASE UNCHANGED vars
    <2>1. LockInv'
      BY <1>1, <1>5 DEF vars, lockVars, LockInv, Top
    <2>2. \A s \in Requests : Kept(s)
      BY <1>5 DEF vars, requestVars, lockVars, evidenceVars, noticeVars, grantVars, Kept
    <2>3. \A s \in Requests : RequestInv(s)'
      BY <1>1, <2>2, KeptInv
    <2>4. QED
      BY <1>2, <2>1, <2>3 DEF EngineInv
  <1>6. QED
    BY <1>2, <1>3, <1>4, <1>5, NextCases DEF EngineInv

\* The parts of the invariant hold in every reachable state.
THEOREM EngineInvariant == Spec => []EngineInv
  BY EngineInvInit, EngineInvStep, PTL DEF Spec

-----------------------------------------------------------------------------
(* What the invariant says of the workflow.                                *)

\* The satisfied gates of a request are closed under Requires, so that a gate
\* whose own requirements are satisfied has all its ancestors satisfied.
LEMMA SatisfiedAncestors ==
  ASSUME NEW r \in Requests, Ordered(r), NEW g \in Gates,
         \A h \in Requires[g] : status[r][h] \in SATISFIED
  PROVE  \A h \in Ancestors[g] : status[r][h] \in SATISFIED
  <1> DEFINE S == {h \in Gates : status[r][h] \in SATISFIED}
  <1>1. \A h \in Gates : Requires[h] \subseteq Gates
    BY PolicyAssumption DEF WorkflowShape
  <1>2. Closed(S)
    BY <1>1 DEF Closed, Ordered, SATISFIED
  <1>3. Requires[g] \subseteq S
    BY <1>1
  <1>4. Ancestors[g] \subseteq S
    BY <1>2, <1>3, AncestorsInClosed
  <1>5. QED
    BY <1>4

LEMMA InOrder == EngineInv => GatesInOrder
  BY SatisfiedAncestors DEF EngineInv, RequestInv, Ordered, GatesInOrder

LEMMA ReleasePolicy == EngineInv => ReleaseHonoursPolicy
  <1> SUFFICES ASSUME EngineInv, NEW r \in Requests, Released(r)
      PROVE  /\ \A a \in Approvals : \E d \in evidence[r] :
                   d.gate = a /\ d.request = r /\ Rank[d.assurance] >= Rank[control[r]]
             /\ \E n \in Ancestors[Execute] :
                   Kind[n] = "notify" /\ status[r][n] \in {"passed", "simulated"}
             /\ ExecutionEnabled => \A a \in Approvals :
                   \E t \in Rechecks \intersect Ancestors[Execute] :
                      a \in Ancestors[t] /\ status[r][t] = "passed"
    BY DEF ReleaseHonoursPolicy
  <1> USE ExecuteIsAGate
  <1>1. Ordered(r) /\ ByKind(r) /\ Cleared(r) /\ EvidenceInv(r)
    BY DEF EngineInv, RequestInv, ReleaseInv
  <1>2. \A h \in Ancestors[Execute] : status[r][h] \in SATISFIED /\ h \in Gates
    BY <1>1, SatisfiedAncestors DEF Cleared, Ancestors
  <1>3. ASSUME NEW a \in Approvals
        PROVE  \E d \in evidence[r] :
                  d.gate = a /\ d.request = r /\ Rank[d.assurance] >= Rank[control[r]]
    <2>1. status[r][a] = "approved" /\ a \in Gates
      BY <1>1, <1>2 DEF Approvals, ByKind, SATISFIED
    <2>2. QED
      BY <1>1, <2>1 DEF EvidenceInv, Suits
  <1>4. \E n \in Ancestors[Execute] :
           Kind[n] = "notify" /\ status[r][n] \in {"passed", "simulated"}
    <2>1. PICK n \in Ancestors[Execute] : Kind[n] = "notify"
      BY PolicyAssumption DEF Loadable
    <2>2. QED
      BY <1>1, <1>2, <2>1 DEF ByKind, SATISFIED
  <1>5. ASSUME ExecutionEnabled, NEW a \in Approvals
        PROVE  \E t \in Rechecks \intersect Ancestors[Execute] :
                  a \in Ancestors[t] /\ status[r][t] = "passed"
    <2>1. PICK t \in Rechecks \intersect Ancestors[Execute] : a \in Ancestors[t]
      BY <1>5, PolicyAssumption DEF Loadable
    <2>2. Kind[t] = "tool"
      BY PolicyAssumption DEF WorkflowShape, OfKind
    <2>3. QED
      BY <1>1, <1>2, <2>1, <2>2 DEF ByKind, SATISFIED
  <1>6. QED
    BY <1>3, <1>4, <1>5

\* No gate is touched before all its ancestors are satisfied.
THEOREM GatesInOrderHolds == Spec => []GatesInOrder
  BY EngineInvariant, InOrder, PTL

\* What lets a request act was approved, notified and rechecked as the policy
\* and the requester's control demand.
THEOREM ReleaseHonoursPolicyHolds == Spec => []ReleaseHonoursPolicy
  BY EngineInvariant, ReleasePolicy, PTL

\* An authorization never outlives an approval it rests on.
THEOREM AuthorizationWithinApprovalsHolds == Spec => []AuthorizationWithinApprovals
  <1>1. EngineInv => AuthorizationWithinApprovals
    BY DEF EngineInv, RequestInv, LifetimeInv, AuthorizationWithinApprovals
  <1>2. QED
    BY <1>1, EngineInvariant, PTL

\* A cancelled request has no authorization that was taken or could be.
THEOREM CancelledNeverTakenHolds == Spec => []CancelledNeverTaken
  <1>1. EngineInv => CancelledNeverTaken
    BY DEF EngineInv, RequestInv, GrantInv, CancelledNeverTaken
  <1>2. QED
    BY <1>1, EngineInvariant, PTL

\* The target is called at most once, and the request's state owns up to it.
THEOREM OutcomeReportedHolds == Spec => []OutcomeReported
  <1>1. EngineInv => OutcomeReported
    BY DEF EngineInv, RequestInv, TargetInv, OutcomeReported
  <1>2. QED
    BY <1>1, EngineInvariant, PTL

\* An operation leaves its request in processing only if a gate that blocked
\* could not keep its evidence.
THEOREM NoneAbandonedHolds == Spec => []NoneAbandoned
  <1>1. EngineInv => NoneAbandoned
    BY DEF EngineInv, RequestInv, Course, StuckAt, StopsAt, NoneAbandoned
  <1>2. QED
    BY <1>1, EngineInvariant, PTL

\* A request is stopped by one gate, the one its state speaks of.
THEOREM OneGateStopsHolds == Spec => []OneGateStops
  <1>1. ASSUME NEW r \in Requests, NEW g \in Gates, NEW s \in {"waiting", "blocked", "failed"},
               StopsAt(r, g, s)
        PROVE  StoppedAt(r) = {g}
    BY <1>1 DEF StopsAt, StoppedAt, SATISFIED
  <1>2. EngineInv => OneGateStops
    <2> SUFFICES ASSUME EngineInv, NEW r \in Requests
        PROVE  /\ Waiting(r) =>
                     \E g \in Gates : StoppedAt(r) = {g} /\ status[r][g] = "waiting"
               /\ state[r] \in {"blocked", "failed"} =>
                     \E g \in Gates : StoppedAt(r) = {g} /\ status[r][g] = state[r]
               /\ state[r] \in {"authorized", "simulated", "executed"} =>
                     StoppedAt(r) = {}
      BY DEF OneGateStops
    <2>1. Outcome(r)
      BY DEF EngineInv, RequestInv, Course
    <2>2. ASSUME Waiting(r)
          PROVE  \E g \in Gates : StoppedAt(r) = {g} /\ status[r][g] = "waiting"
      <3>1. PICK w \in Gates : StopsAt(r, w, "waiting")
        BY <2>1, <2>2 DEF Outcome, WaitsAt
      <3>2. QED
        BY <1>1, <3>1 DEF StopsAt
    <2>3. ASSUME state[r] \in {"blocked", "failed"}
          PROVE  \E g \in Gates : StoppedAt(r) = {g} /\ status[r][g] = state[r]
      <3>1. PICK g \in Gates : StopsAt(r, g, state[r])
        BY <2>1, <2>3 DEF Outcome
      <3>2. QED
        BY <1>1, <2>3, <3>1 DEF StopsAt
    <2>4. state[r] \in {"authorized", "simulated", "executed"} => StoppedAt(r) = {}
      BY <2>1 DEF Outcome, StoppedAt, SATISFIED
    <2>5. QED
      BY <2>2, <2>3, <2>4
  <1>3. QED
    BY <1>2, EngineInvariant, PTL

-----------------------------------------------------------------------------
(* Ended requests.                                                         *)

LEMMA EndedAtRest ==
  ASSUME EngineInv, NEW r \in Requests, state[r] \in TERMINAL
  PROVE  mode[r] = "idle"
  <1>1. Course(r) /\ mode[r] \in Modes
    BY DEF EngineInv, TypeInv, TypeOK, RequestInv
  <1>2. state[r] # "processing" /\ ~Waiting(r)
    BY DEF TERMINAL, Waiting
  <1>3. mode[r] \notin {"run", "call", "issue"} /\ mode[r] # "verify"
    BY <1>1, <1>2 DEF Course
  <1>4. QED
    BY <1>1, <1>3 DEF Modes, Callback

LEMMA EndedStays ==
  ASSUME EngineInv, [Next]_vars, NEW r \in Requests, state[r] \in TERMINAL
  PROVE  <<state[r], status[r], targetCalls[r]>>' = <<state[r], status[r], targetCalls[r]>>
  <1>1. TypeInv
    BY DEF EngineInv
  <1>2. ~Advance(r) /\ ~CallbackReturns(r)
    BY EndedAtRest DEF Advance, EndPass, PassSchema, EvaluateCondition, CallOut,
       AskApproval, BlockStale, FailWithoutAuthority, Simulate, CallTarget,
       ApprovalsCurrent, AtExecute, At, Running, IssueAuthorization, IssueFails, Issuing,
       CallbackReturns, ToolReturns, NotifierReturns, NotifierUnusable, TargetReturns,
       Returning, VerifierRejects, VerifierAccepts, Verifying
  <1>3. ~Operation(r)
    BY DEF Operation, RequestAction, IngestApproval, Waiting, CancelRequest, CancelRaises,
       TERMINAL
  <1>4. ASSUME NEW s \in Requests, EngineStep(s)
        PROVE  /\ state'[r] = state[r] /\ status'[r] = status[r]
               /\ targetCalls'[r] = targetCalls[r]
    <2>1. s # r
      BY <1>2, <1>3, <1>4 DEF EngineStep
    <2>2. Kept(r)
      BY <1>1, <1>4, <2>1, OthersKept
    <2>3. QED
      BY <2>2 DEF Kept
  <1>5. CASE (\E s \in Requests : Elsewhere(s)) \/ RevokeAllIssued \/ Tick
    BY <1>1, <1>5, TypeOutside DEF EngineUntouched, requestVars
  <1>6. CASE UNCHANGED vars
    BY <1>6 DEF vars, requestVars
  <1>7. QED
    BY <1>4, <1>5, <1>6, NextCases

\* Whatever happens, a request that has ended stays as it ended.
THEOREM TerminalFinalHolds == Spec => TerminalFinal
  <1>1. EngineInv /\ [Next]_vars =>
          [\A r \in Requests : state[r] \in TERMINAL =>
              <<state[r], status[r], targetCalls[r]>>' =
              <<state[r], status[r], targetCalls[r]>>]_vars
    BY EndedStays
  <1>2. QED
    BY <1>1, EngineInvariant, PTL DEF Spec, TerminalFinal

-----------------------------------------------------------------------------
(* Ids are consumed once.                                                  *)

LEMMA NoticeStep ==
  ASSUME TypeInv, NoticeInv, [Next]_vars PROVE NoticeInv'
  <1>1. CASE UNCHANGED noticeVars
    BY <1>1 DEF noticeVars, NoticeInv, NoticeSingleUse
  <1>2. ASSUME NEW r \in Requests, NotifierReturns(r) PROVE NoticeInv'
    <2>1. PICK id \in NotificationIds \ consumedNotices :
             /\ consumedNotices' = consumedNotices \union {id}
             /\ notices' = [notices EXCEPT ![r] = @ \union {[gate |-> pos[r], id |-> id]}]
      BY <1>2 DEF NotifierReturns
    <2> DEFINE new == [gate |-> pos[r], id |-> id]
    <2>2. /\ notices'[r] = notices[r] \union {new}
          /\ \A s \in Requests \ {r} : notices'[s] = notices[s]
      BY <2>1 DEF TypeInv, TypeOK
    <2>3. \A s \in Requests : \A n \in notices[s] : n.id # new.id
      BY DEF NoticeInv
    <2>4. \A s \in Requests : \A n \in notices'[s] : n.id \in consumedNotices'
      BY <2>1, <2>2 DEF NoticeInv
    <2>5. NoticeSingleUse'
      BY <2>2, <2>3 DEF NoticeInv, NoticeSingleUse
    <2>6. QED
      BY <2>4, <2>5 DEF NoticeInv
  <1>3. (\E r \in Requests : NotifierReturns(r)) \/ UNCHANGED noticeVars
    BY DEF Next, Operation, RequestAction, IngestApproval, CancelRequest, CancelRaises,
       Advance, EndPass, PassSchema, EvaluateCondition, CallOut, AskApproval, BlockStale,
       FailWithoutAuthority, Simulate, CallTarget, ApprovalsCurrent, IssueAuthorization,
       IssueFails, CallbackReturns, ToolReturns, NotifierUnusable, TargetReturns,
       VerifierRejects, VerifierAccepts, Elsewhere, Take, FindExpired, RevokeAllIssued,
       Tick, vars
  <1>4. QED
    BY <1>1, <1>2, <1>3

\* One notification id satisfies one notify gate, re-entrant notifiers or not.
THEOREM NoticeSingleUseHolds == Spec => []NoticeSingleUse
  <1>1. Init => NoticeInv
    BY DEF Init, NoticeInv, NoticeSingleUse
  <1>2. TypeInv /\ NoticeInv /\ [Next]_vars => NoticeInv'
    BY NoticeStep
  <1>3. NoticeInv => NoticeSingleUse
    BY DEF NoticeInv
  <1>4. EngineInv => TypeInv
    BY DEF EngineInv
  <1>5. QED
    BY <1>1, <1>2, <1>3, <1>4, EngineInvariant, PTL DEF Spec

\* With verifiers that leave the engine alone, the one that runs is topmost.
VerifierOnTop == \A r \in Requests : mode[r] = "verify" => Top(r)

LEMMA VerifierStaysOnTop ==
  ASSUME TypeInv, VerifierOnTop, "verify" \notin Reentrant,
         NEW r \in Requests, LockMove(r)
  PROVE  VerifierOnTop'
  <1> USE DEF TypeInv, TypeOK
  <1> SUFFICES ASSUME NEW s \in Requests, mode'[s] = "verify"
               PROVE  stack' # <<>> /\ Head(stack') = s
    BY DEF VerifierOnTop, Top
  <1>1. ASSUME NEW m \in Modes, NEW g \in 0..GateCount, MayEnter, Enter(r, m, g)
        PROVE  stack' # <<>> /\ Head(stack') = s
    <2>1. stack' = <<r>> \o stack /\ stack \in Seq(Requests)
      BY <1>1 DEF Enter
    <2>2. stack' # <<>> /\ Head(stack') = r
      BY <2>1
    <2>3. s = r
      BY <1>1 DEF VerifierOnTop, Top, MayEnter, CallbackOf, Enter
    <2>4. QED
      BY <2>2, <2>3
  <1>2. ASSUME NEW m \in Modes, NEW g \in 0..GateCount, Top(r), Goto(r, m, g)
        PROVE  stack' # <<>> /\ Head(stack') = s
    BY <1>2 DEF VerifierOnTop, Top, Goto
  <1>3. CASE Top(r) /\ Leave(r)
    BY <1>3 DEF VerifierOnTop, Top, Leave
  <1>4. CASE UNCHANGED lockVars
    BY <1>4 DEF VerifierOnTop, Top, lockVars
  <1>5. QED
    BY <1>1, <1>2, <1>3, <1>4 DEF LockMove

\* A step that records no evidence leaves the offered documents unconsumed.
LEMMA EvidenceKept ==
  ASSUME EvidenceUseInv, UNCHANGED <<evidence, consumedApprovals>>, VerifierOnTop',
         \A s \in Requests : mode'[s] = "verify" =>
            mode[s] = "verify" /\ offered'[s] = offered[s]
  PROVE  EvidenceUseInv'
  BY DEF EvidenceUseInv, EvidenceSingleUse, VerifierOnTop

LEMMA EvidenceUseStep ==
  ASSUME EngineInv, EvidenceUseInv, "verify" \notin Reentrant, [Next]_vars
  PROVE  EvidenceUseInv'
  <1> USE DEF EngineInv
  <1>1. VerifierOnTop
    BY DEF EvidenceUseInv, VerifierOnTop
  <1>2. VerifierOnTop'
    <2>1. ASSUME NEW r \in Requests, EngineStep(r) PROVE VerifierOnTop'
      BY <1>1, <2>1, EngineStepLock, VerifierStaysOnTop
    <2>2. CASE (\E r \in Requests : Elsewhere(r)) \/ RevokeAllIssued \/ Tick
      BY <1>1, <2>2, TypeOutside DEF EngineUntouched, lockVars, VerifierOnTop, Top
    <2>3. CASE UNCHANGED vars
      BY <1>1, <2>3 DEF vars, lockVars, VerifierOnTop, Top
    <2>4. QED
      BY <2>1, <2>2, <2>3, NextCases
  <1>3. ASSUME NEW r \in Requests, VerifierAccepts(r) PROVE EvidenceUseInv'
    <2>1. mode[r] = "verify" /\ Top(r) /\ \A s \in Requests : mode'[s] # "verify"
      BY <1>1, <1>3 DEF VerifierAccepts, Verifying, Goto, VerifierOnTop, Top, TypeInv,
         TypeOK
    <2>2. PICK d \in Documents : offered[r] = {d}
      BY <2>1 DEF RequestInv, EvidenceInv
    <2>3. d.id \notin consumedApprovals
      BY <2>1, <2>2 DEF EvidenceUseInv
    <2>4. /\ evidence'[r] = evidence[r] \union {d}
          /\ \A s \in Requests \ {r} : evidence'[s] = evidence[s]
          /\ consumedApprovals' = consumedApprovals \union {d.id}
      BY <1>3, <2>2 DEF VerifierAccepts, TypeInv, TypeOK
    <2>5. \A s \in Requests : \A e \in evidence[s] : e.id # d.id
      BY <2>3 DEF EvidenceUseInv
    <2>6. \A s \in Requests : \A e \in evidence'[s] : e.id \in consumedApprovals'
      BY <2>4 DEF EvidenceUseInv
    <2>7. EvidenceSingleUse'
      BY <2>4, <2>5 DEF EvidenceUseInv, EvidenceSingleUse
    <2>8. QED
      BY <2>1, <2>6, <2>7 DEF EvidenceUseInv
  <1>4. ASSUME NEW r \in Requests, NEW d \in Documents, IngestApproval(r, d)
        PROVE  EvidenceUseInv'
    <2>1. UNCHANGED <<evidence, consumedApprovals>> /\ d.id \notin consumedApprovals
      BY <1>4 DEF IngestApproval, Acceptable
    <2>2. /\ offered'[r] = {d}
          /\ \A s \in Requests \ {r} : mode'[s] = mode[s] /\ offered'[s] = offered[s]
      BY <1>4 DEF IngestApproval, Enter, TypeInv, TypeOK
    <2>3. QED
      BY <1>2, <2>1, <2>2 DEF EvidenceUseInv, EvidenceSingleUse, VerifierOnTop
  <1>5. ASSUME NEW r \in Requests, VerifierRejects(r) PROVE EvidenceUseInv'
    <2>1. UNCHANGED <<evidence, consumedApprovals>>
      BY <1>5 DEF VerifierRejects
    <2>2. \A s \in Requests : mode'[s] = "verify" =>
             mode[s] = "verify" /\ offered'[s] = offered[s]
      BY <1>5 DEF VerifierRejects, Leave, TypeInv, TypeOK
    <2>3. QED
      BY <1>2, <2>1, <2>2, EvidenceKept
  <1>6. CASE UNCHANGED evidenceVars /\ \A s \in Requests : mode'[s] = "verify" => mode[s] = "verify"
    BY <1>2, <1>6, EvidenceKept DEF evidenceVars
  <1>7. \/ \E r \in Requests : \/ VerifierAccepts(r)
                               \/ VerifierRejects(r)
                               \/ \E d \in Documents : IngestApproval(r, d)
        \/ /\ UNCHANGED evidenceVars
           /\ \A s \in Requests : mode'[s] = "verify" => mode[s] = "verify"
    <2> USE DEF TypeInv, TypeOK
    <2>1. ASSUME NEW r \in Requests, Advance(r)
          PROVE  /\ UNCHANGED evidenceVars
                 /\ \A s \in Requests : mode'[s] = "verify" => mode[s] = "verify"
      BY <2>1 DEF Advance, EndPass, PassSchema, EvaluateCondition, CallOut, AskApproval,
         BlockStale, FailWithoutAuthority, Simulate, CallTarget, ApprovalsCurrent,
         IssueAuthorization, IssueFails, Pass, Block, BlockRaises, Fail, Stop, Goto, Leave
    <2>2. ASSUME NEW r \in Requests,
                 \/ ToolReturns(r) \/ NotifierReturns(r)
                 \/ NotifierUnusable(r) \/ TargetReturns(r)
          PROVE  /\ UNCHANGED evidenceVars
                 /\ \A s \in Requests : mode'[s] = "verify" => mode[s] = "verify"
      BY <2>2 DEF ToolReturns, NotifierReturns, NotifierUnusable, TargetReturns, Pass,
         Block, BlockRaises, Fail, Stop, Goto, Leave
    <2>3. ASSUME NEW r \in Requests, NEW minimum,
                 RequestAction(r, minimum) \/ CancelRequest(r) \/ CancelRaises(r)
          PROVE  /\ UNCHANGED evidenceVars
                 /\ \A s \in Requests : mode'[s] = "verify" => mode[s] = "verify"
      BY <2>3 DEF RequestAction, CancelRequest, CancelRaises, Enter, lockVars
    <2>4. CASE (\E r \in Requests : Elsewhere(r)) \/ RevokeAllIssued \/ Tick \/ UNCHANGED vars
      BY <2>4, TypeOutside DEF EngineUntouched, lockVars, vars
    <2>5. QED
      BY <2>1, <2>2, <2>3, <2>4, NextCases DEF EngineStep, Operation, CallbackReturns
  <1>8. QED
    BY <1>3, <1>4, <1>5, <1>6, <1>7

\* If verifiers do not call the engine, one evidence id approves one gate of
\* one request, for any number of requests and whatever tools and notifiers do.
THEOREM EvidenceSingleUseHolds ==
  ASSUME "verify" \notin Reentrant
  PROVE  Spec => []EvidenceSingleUse
  <1>1. Init => EvidenceUseInv
    BY DEF Init, EvidenceUseInv, EvidenceSingleUse
  <1>2. EngineInv /\ EvidenceUseInv /\ [Next]_vars => EvidenceUseInv'
    BY EvidenceUseStep
  <1>3. EvidenceUseInv => EvidenceSingleUse
    BY DEF EvidenceUseInv
  <1>4. QED
    BY <1>1, <1>2, <1>3, EngineInvariant, PTL DEF Spec
===============================================================================
