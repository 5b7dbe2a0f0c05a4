-------------------------- MODULE GateControlProofs --------------------------
(* Proofs about GateControl, for every value of its constants.             *)
EXTENDS GateControl, TLAPS

-----------------------------------------------------------------------------
(* What is known of the store and of the snapshots threads carry.          *)

Truthful(rows, r, s) == s \in PublicStates => rows[r] \in Reached(s)

StoreInv ==
    /\ row \in [Auths -> RowStates \union {"none"}]
    /\ snapshot \in [Auths -> PublicStates \union {"none"}]
    /\ request \in [Auths -> PublicStates \union {"absent", "unbound", "denied"}]
    /\ pend \in [Clients -> PendingWrites \union {NoWrite}]
    /\ \A r \in Auths :
         /\ Truthful(row, r, snapshot[r]) /\ Truthful(row, r, request[r])
         /\ row[r] # "none" => snapshot[r] # "none"
    /\ \A c \in Clients : pend[c] # NoWrite =>
         row[pend[c].auth] \in Reached(PublicState(pend[c].state))

\* A call in progress carries only snapshots that are still true, and never
\* repairs what shows an outcome.
Sound(rows, j) ==
    /\ j \in Jobs
    /\ j.step \in {"insert", "record", "answer", "repair"} /\ j.write.bound =>
         Truthful(rows, j.req, j.write.state)
    /\ j.step \in {"withdraw", "fetch", "repair"} /\ j.seen.bound =>
         Truthful(rows, j.req, j.seen.state)
    /\ j.step \in {"storing", "revoking"} => rows[j.req] = "cancelled"
    /\ j.step = "repair" /\ j.seen.bound => j.seen.state \notin Outcomes

LedgerTypes ==
    /\ unboundState \in [Auths -> UnboundStates]
    /\ binding \in [Auths -> {"none", "reserved", "complete"}]
    /\ engine \in [Auths -> {"absent", "processing", "waiting_for_approval", "authorized",
                             "cancelled", "blocked"}]
    /\ gatesLeft \in [Auths -> Gates]
    /\ decisionsUsed \subseteq Auths
    /\ created \in [Auths -> Nat]
    /\ held \subseteq Auths
    /\ withdrawn \subseteq Auths
    /\ endorsed \in [Auths -> SUBSET Approvals]

JobsSound ==
    /\ job = [t \in Threads |-> job[t]]
    /\ \A t \in Threads : Sound(row, job[t])

\* The engine calls a request authorized once the store has its authorization.
IssuedFirst == \A r \in Auths : engine[r] = "authorized" => row[r] # "none"

ControlInv == StoreInv /\ LedgerTypes /\ JobsSound /\ IssuedFirst

-----------------------------------------------------------------------------
(* Records.                                                                *)

LEMMA JobFields ==
  ASSUME NEW j \in Jobs
  PROVE  /\ j.step # "idle" => j.req \in Auths
         /\ j.step \in {"insert", "record", "answer", "repair"} => j.write \in Snapshots
         /\ j.step \in {"withdraw", "storing", "revoking"} =>
              j.to \in {"cancelled", "denied"} /\ j.seen \in Seen
         /\ j.step \in {"fetch", "repair"} => j.seen \in Snapshots
         /\ j.step = "approve" => j.approval \in Approvals
  BY DEF Jobs, Idle

LEMMA SnapshotFields ==
  ASSUME NEW s \in Snapshots
  PROVE  /\ s.bound \in BOOLEAN
         /\ s.bound => s.state \in PublicStates \union {"denied"} /\ s = Bound(s.state)
         /\ ~s.bound => s.state \in UnboundStates /\ s = Unbound(s.state)
  BY DEF Snapshots, Bound, Unbound

LEMMA SnapshotForms ==
  /\ \A s \in PublicStates \union {"denied"} : Bound(s) \in Snapshots
  /\ \A s \in UnboundStates : Unbound(s) \in Snapshots
  BY DEF Snapshots, Bound, Unbound

LEMMA SeenFields ==
  ASSUME NEW s \in Seen
  PROVE  /\ s \in Snapshots \/ s = Unbound("absent")
         /\ s.bound \in BOOLEAN /\ s = [bound |-> s.bound, state |-> s.state]
  <1>1. CASE s \in Snapshots
    BY <1>1, SnapshotFields DEF Bound, Unbound
  <1>2. CASE s = [bound |-> FALSE, state |-> "absent"]
    BY <1>2 DEF Unbound
  <1>3. QED
    BY <1>1, <1>2 DEF Seen

LEMMA StateNames ==
  /\ PublicStates \intersect UnboundStates = {"cancelled"}
  /\ {"processing", "waiting_for_approval"} \intersect PublicStates = {}
  /\ {"absent", "unbound", "none", "denied"} \intersect PublicStates = {}
  /\ "none" \notin RowStates
  /\ RowStates \ {"issued", "executing", "unknown"} \subseteq PublicStates
  BY DEF PublicStates, UnboundStates, RowStates

-----------------------------------------------------------------------------
(* The store's operations.                                                 *)

LEMMA PublicStateTrue ==
  ASSUME NEW s \in RowStates
  PROVE  PublicState(s) \in PublicStates /\ s \in Reached(PublicState(s))
  BY DEF RowStates, PublicStates, PublicState, Reached

\* What was true of a row stays true of it.
Progress(r) == \A s \in PublicStates : row[r] \in Reached(s) => row'[r] \in Reached(s)

LegalMove(x, y) ==
    \/ x = y
    \/ x \in {"none", "issued"} /\ y \in RowStates
    \/ x = "executing" /\ y \in {"unknown", "executed", "failed", "simulated"}
    \/ x = "unknown" /\ y \in {"executed", "failed"}

LEMMA MoveProgress ==
  ASSUME StoreInv, NEW r \in Auths, LegalMove(row[r], row'[r]) PROVE Progress(r)
  BY DEF StoreInv, LegalMove, Progress, Reached, RowStates, PublicStates

LEMMA ProgressKeeps ==
  ASSUME StoreInv, NEW r \in Auths, Progress(r)
  PROVE  /\ row[r] \in RowStates => row'[r] \in RowStates
         /\ row[r] \in {"cancelled", "executed", "failed", "simulated", "expired"} =>
              row'[r] = row[r]
  BY DEF Progress, Reached, PublicStates, RowStates

\* What a step that uses the store as its protocol says leaves behind.
StoreStep ==
    /\ StoreInv'
    /\ \A r \in Auths :
         /\ Progress(r)
         /\ request[r] # "absent" => request'[r] # "absent"

\* A row moves, and the two snapshots keep what they show or follow the row.
LEMMA FollowStep ==
  ASSUME StoreInv, pend' = pend,
         row' \in [Auths -> RowStates \union {"none"}],
         snapshot' = [r \in Auths |-> snapshot'[r]],
         request' = [r \in Auths |-> request'[r]],
         \A r \in Auths :
            /\ LegalMove(row[r], row'[r])
            /\ \/ snapshot'[r] = snapshot[r] /\ (row[r] = row'[r] \/ row[r] # "none")
               \/ snapshot'[r] = PublicState(row'[r]) /\ row'[r] # "none"
            /\ \/ request'[r] = request[r]
               \/ /\ request'[r] = PublicState(row'[r]) /\ row'[r] # "none"
                  /\ request[r] # "absent"
  PROVE  StoreStep
  <1> USE DEF StoreInv
  <1>1. \A r \in Auths : Progress(r)
    BY MoveProgress
  <1>2. \A r \in Auths :
          /\ snapshot'[r] \in PublicStates \union {"none"}
          /\ request'[r] \in PublicStates \union {"absent", "unbound", "denied"}
          /\ request[r] # "absent" => request'[r] # "absent"
    BY PublicStateTrue, StateNames
  <1>3. ASSUME NEW r \in Auths
        PROVE  /\ Truthful(row', r, snapshot'[r]) /\ Truthful(row', r, request'[r])
               /\ row'[r] # "none" => snapshot'[r] # "none"
    <2>1. Truthful(row', r, snapshot[r]) /\ Truthful(row', r, request[r])
      BY <1>1 DEF Progress, Truthful
    <2>2. row'[r] # "none" => Truthful(row', r, PublicState(row'[r]))
      BY PublicStateTrue DEF Truthful
    <2>3. row'[r] # "none" => PublicState(row'[r]) # "none"
      BY PublicStateTrue, StateNames
    <2>4. QED
      BY <2>1, <2>2, <2>3
  <1>4. ASSUME NEW c \in Clients, pend'[c] # NoWrite
        PROVE  row'[pend'[c].auth] \in Reached(PublicState(pend'[c].state))
    <2>1. pend[c].auth \in Auths /\ pend[c].state \in RowStates
      BY <1>4 DEF PendingWrites
    <2>2. QED
      BY <1>1, <1>4, <2>1, PublicStateTrue DEF Progress
  <1>5. /\ snapshot' \in [Auths -> PublicStates \union {"none"}]
        /\ request' \in [Auths -> PublicStates \union {"absent", "unbound", "denied"}]
    BY <1>2
  <1>6. QED
    BY <1>1, <1>2, <1>3, <1>4, <1>5 DEF StoreStep

LEMMA ProjectStep ==
  ASSUME StoreInv, NEW S \in SUBSET Auths, NEW to \in RowStates,
         row' = [r \in Auths |-> IF r \in S THEN to ELSE row[r]],
         \A r \in S : LegalMove(row[r], to) /\ row[r] # "none",
         ProjectAll(S, to), UNCHANGED pend
  PROVE  StoreStep
  <1>1. row' \in [Auths -> RowStates \union {"none"}]
    BY DEF StoreInv
  <1>2. QED
    BY <1>1, FollowStep, StateNames DEF ProjectAll, StoreInv, LegalMove

LEMMA InsertStep ==
  ASSUME StoreInv, NEW r \in Auths, InsertIssued(r) PROVE StoreStep
  <1>1. "issued" \in RowStates /\ PublicState("issued") = "authorized"
    BY DEF RowStates, PublicState
  <1>2. row' \in [Auths -> RowStates \union {"none"}]
    BY <1>1 DEF InsertIssued, StoreInv
  <1>3. QED
    BY <1>1, <1>2, FollowStep, StateNames DEF InsertIssued, StoreInv, LegalMove

LEMMA OneTransactionStep ==
  ASSUME StoreInv, NEW r \in Auths, NEW c \in Clients,
         Reserve(r, 0) \/ ExpireUnconsumed(r, 1) \/ RevokeAllIssued(c)
  PROVE  StoreStep
  <1>1. {"executing", "expired", "cancelled"} \subseteq RowStates
    BY DEF RowStates
  <1>2. CASE Reserve(r, 0)
    <2>1. row' = [a \in Auths |-> IF a \in {r} THEN "executing" ELSE row[a]]
      BY <1>2 DEF Reserve, StoreInv
    <2>2. QED
      BY <1>1, <1>2, <2>1, ProjectStep DEF Reserve, LegalMove
  <1>3. CASE ExpireUnconsumed(r, 1)
    <2>1. row' = [a \in Auths |-> IF a \in {r} THEN "expired" ELSE row[a]]
      BY <1>3 DEF ExpireUnconsumed, StoreInv
    <2>2. QED
      BY <1>1, <1>3, <2>1, ProjectStep DEF ExpireUnconsumed, LegalMove
  <1>4. CASE RevokeAllIssued(c)
    <2> DEFINE revoked_ == {a \in Auths : row[a] = "issued"}
    <2>1. /\ row' = [a \in Auths |-> IF a \in revoked_ THEN "cancelled" ELSE row[a]]
          /\ ProjectAll(revoked_, "cancelled") /\ UNCHANGED pend
      BY <1>4 DEF RevokeAllIssued
    <2>2. \A a \in revoked_ : LegalMove(row[a], "cancelled") /\ row[a] # "none"
      BY <1>1 DEF LegalMove
    <2> HIDE DEF revoked_
    <2>3. revoked_ \in SUBSET Auths
      BY DEF revoked_
    <2>4. QED
      BY <1>1, <2>1, <2>2, <2>3, ProjectStep
  <1>5. QED
    BY <1>2, <1>3, <1>4

LEMMA TransitionStep ==
  ASSUME StoreInv, NEW r \in Auths, NEW c \in Clients, NEW from \in RowStates,
         NEW to \in RowStates, Transition(c, r, from, to), LegalMove(from, to)
  PROVE  StoreStep /\ row'[r] = to
  <1> USE DEF StoreInv
  <1>1. \A a \in Auths : Progress(a)
    BY MoveProgress DEF Transition, LegalMove
  <1>2. row'[r] = to /\ row' \in [Auths -> RowStates \union {"none"}]
    BY DEF Transition
  <1> DEFINE w_ == [step |-> "snapshot", auth |-> r, state |-> to]
  <1>3. w_ \in PendingWrites
    BY DEF PendingWrites
  <1>4. pend' \in [Clients -> PendingWrites \union {NoWrite}]
    BY <1>3 DEF Transition
  <1>5. ASSUME NEW d \in Clients, pend'[d] # NoWrite
        PROVE  row'[pend'[d].auth] \in Reached(PublicState(pend'[d].state))
    <2>1. CASE d = c
      <3>1. pend'[d] = w_
        BY <2>1 DEF Transition
      <3>2. pend'[d].auth = r /\ pend'[d].state = to
        BY <3>1
      <3>3. QED
        BY <1>2, <3>2, PublicStateTrue
    <2>2. CASE d # c
      <3>1. pend'[d] = pend[d]
        BY <2>2 DEF Transition
      <3>2. pend[d].auth \in Auths /\ pend[d].state \in RowStates
        BY <1>5, <3>1 DEF PendingWrites
      <3>3. row[pend[d].auth] \in Reached(PublicState(pend[d].state))
        BY <1>5, <3>1
      <3>4. QED
        BY <1>1, <3>1, <3>2, <3>3, PublicStateTrue DEF Progress
    <2>3. QED
      BY <2>1, <2>2
  <1>6. ASSUME NEW a \in Auths
        PROVE  /\ Truthful(row', a, snapshot[a]) /\ Truthful(row', a, request[a])
               /\ row'[a] # "none" => snapshot[a] # "none"
    BY <1>1, StateNames DEF Progress, Truthful, Transition
  <1>7. UNCHANGED <<snapshot, request>>
    BY DEF Transition
  <1>8. QED
    BY <1>1, <1>2, <1>4, <1>5, <1>6, <1>7 DEF StoreStep

LEMMA WriteStep ==
  ASSUME StoreInv, NEW c \in Clients,
         WriteSnapshot(c) \/ WriteRequest(c) \/ AbandonWrite(c)
  PROVE  StoreStep /\ UNCHANGED row
  <1> USE DEF StoreInv
  <1>1. UNCHANGED row
    BY DEF WriteSnapshot, WriteRequest, AbandonWrite
  <1>2. \A a \in Auths : Progress(a)
    BY <1>1 DEF Progress
  <1> DEFINE w_ == pend[c]
  <1>3. ASSUME w_ # NoWrite
        PROVE  /\ w_ \in PendingWrites /\ w_.auth \in Auths
               /\ PublicState(w_.state) \in PublicStates
               /\ Truthful(row, w_.auth, PublicState(w_.state))
               /\ [w_ EXCEPT !.step = "request"] \in PendingWrites
               /\ [w_ EXCEPT !.step = "request"].auth = w_.auth
               /\ [w_ EXCEPT !.step = "request"].state = w_.state
    <2>1. w_ \in PendingWrites
      BY <1>3
    <2>2. w_.auth \in Auths /\ w_.state \in RowStates
      BY <2>1 DEF PendingWrites
    <2>3. [w_ EXCEPT !.step = "request"] = [step |-> "request", auth |-> w_.auth,
                                            state |-> w_.state]
      BY <2>1 DEF PendingWrites
    <2>4. QED
      BY <1>3, <2>1, <2>2, <2>3, PublicStateTrue DEF Truthful, PendingWrites
  <1>4. CASE WriteSnapshot(c)
    <2>1. w_ # NoWrite
      BY <1>4 DEF WriteSnapshot, NoWrite
    <2>2. /\ snapshot' \in [Auths -> PublicStates \union {"none"}]
          /\ \A a \in Auths : \/ snapshot'[a] = snapshot[a]
                              \/ a = w_.auth /\ snapshot'[a] = PublicState(w_.state)
      <3>1. \/ UNCHANGED snapshot
            \/ snapshot' = [snapshot EXCEPT ![w_.auth] = PublicState(w_.state)]
        BY <1>4 DEF WriteSnapshot
      <3> HIDE DEF w_
      <3>2. QED
        BY <1>3, <2>1, <3>1
    <2>3. \A a \in Auths : Truthful(row, a, snapshot'[a])
                           /\ (row[a] # "none" => snapshot'[a] # "none")
      BY <1>3, <2>1, <2>2, StateNames
    <2>4. pend'[c] \in {NoWrite, [w_ EXCEPT !.step = "request"]}
      BY <1>4 DEF WriteSnapshot
    <2>5. pend' \in [Clients -> PendingWrites \union {NoWrite}]
      BY <1>3, <1>4, <2>1 DEF WriteSnapshot
    <2>6. \A d \in Clients : pend'[d] # NoWrite =>
             row[pend'[d].auth] \in Reached(PublicState(pend'[d].state))
      BY <1>3, <1>4, <2>1, <2>4 DEF WriteSnapshot
    <2>7. UNCHANGED request
      BY <1>4 DEF WriteSnapshot
    <2>8. QED
      BY <1>1, <1>2, <2>2, <2>3, <2>5, <2>6, <2>7 DEF StoreStep
  <1>5. CASE WriteRequest(c)
    <2>1. w_ # NoWrite
      BY <1>5 DEF WriteRequest, NoWrite
    <2>2. /\ request' \in [Auths -> PublicStates \union {"absent", "unbound", "denied"}]
          /\ \A a \in Auths : \/ request'[a] = request[a]
                              \/ a = w_.auth /\ request'[a] = PublicState(w_.state)
      <3>1. request' = [request EXCEPT ![w_.auth] = PublicState(w_.state)]
        BY <1>5 DEF WriteRequest
      <3> HIDE DEF w_
      <3>2. QED
        BY <1>3, <2>1, <3>1
    <2>3. \A a \in Auths : Truthful(row, a, request'[a])
                           /\ (request[a] # "absent" => request'[a] # "absent")
      BY <1>3, <2>1, <2>2, StateNames
    <2>4. /\ pend' \in [Clients -> PendingWrites \union {NoWrite}]
          /\ \A d \in Clients : pend'[d] = pend[d] \/ pend'[d] = NoWrite
      BY <1>5 DEF WriteRequest
    <2>5. UNCHANGED snapshot
      BY <1>5 DEF WriteRequest
    <2>6. QED
      BY <1>1, <1>2, <2>2, <2>3, <2>4, <2>5 DEF StoreStep
  <1>6. CASE AbandonWrite(c)
    <2>1. /\ pend' \in [Clients -> PendingWrites \union {NoWrite}]
          /\ \A d \in Clients : pend'[d] = pend[d] \/ pend'[d] = NoWrite
      BY <1>6 DEF AbandonWrite
    <2>2. UNCHANGED <<snapshot, request>>
      BY <1>6 DEF AbandonWrite
    <2>3. QED
      BY <1>1, <1>2, <2>1, <2>2 DEF StoreStep
  <1>7. QED
    BY <1>1, <1>4, <1>5, <1>6

-----------------------------------------------------------------------------
(* What a thread does with its call, and with the ledger.                  *)

LEMMA SoundLasts ==
  ASSUME StoreInv, NEW j, Sound(row, j), \A r \in Auths : Progress(r)
  PROVE  Sound(row', j)
  <1>1. j.step # "idle" => j.req \in Auths
    BY JobFields DEF Sound
  <1>2. j.step \in {"storing", "revoking"} => row'[j.req] = "cancelled"
    BY <1>1, ProgressKeeps DEF Sound
  <1>3. ASSUME NEW s, j.step # "idle", Truthful(row, j.req, s)
        PROVE  Truthful(row', j.req, s)
    BY <1>1, <1>3 DEF Progress, Truthful
  <1>4. QED
    BY <1>2, <1>3 DEF Sound

LEMMA JobsLast ==
  ASSUME StoreInv, JobsSound, \A r \in Auths : Progress(r), UNCHANGED job
  PROVE  JobsSound'
  BY SoundLasts DEF JobsSound

LEMMA JobsMove ==
  ASSUME StoreInv, JobsSound, \A r \in Auths : Progress(r),
         NEW t \in Threads, NEW j, Sound(row', j), Proceed(t, j)
  PROVE  JobsSound'
  <1>1. job' = [u \in Threads |-> job'[u]]
    BY DEF JobsSound, Proceed
  <1>2. \A u \in Threads : job'[u] = IF u = t THEN j ELSE job[u]
    BY DEF JobsSound, Proceed
  <1>3. \A u \in Threads : Sound(row', job[u])
    BY SoundLasts DEF JobsSound
  <1>4. QED
    BY <1>1, <1>2, <1>3 DEF JobsSound

LEMMA IdleSound == ASSUME NEW rows PROVE Sound(rows, Idle)
  BY DEF Sound, Jobs, Idle

\* The calls a thread may be at, one form after the other.
LEMMA PlainSound ==
  ASSUME NEW rows, NEW r \in Auths
  PROVE  /\ Sound(rows, [step |-> "reserve", req |-> r])
         /\ Sound(rows, [step |-> "create", req |-> r])
         /\ \A a \in Approvals : Sound(rows, [step |-> "approve", req |-> r, approval |-> a])
  BY DEF Sound, Jobs

LEMMA WriteSound ==
  ASSUME NEW rows, NEW r \in Auths, NEW s \in Snapshots,
         s.bound => Truthful(rows, r, s.state), NEW step \in {"insert", "record", "answer"}
  PROVE  Sound(rows, [step |-> step, req |-> r, write |-> s])
  BY DEF Sound, Jobs

LEMMA WithdrawSound ==
  ASSUME NEW rows, NEW r \in Auths, NEW s \in Seen, NEW to \in {"cancelled", "denied"}
  PROVE  /\ (s.bound => Truthful(rows, r, s.state)) =>
              Sound(rows, [step |-> "withdraw", req |-> r, to |-> to, seen |-> s])
         /\ rows[r] = "cancelled" =>
              /\ Sound(rows, [step |-> "storing", req |-> r, to |-> to, seen |-> s])
              /\ Sound(rows, [step |-> "revoking", req |-> r, to |-> to, seen |-> s])
  BY DEF Sound, Jobs

LEMMA ReadSound ==
  ASSUME NEW rows, NEW r \in Auths, NEW s \in Snapshots, s.bound => Truthful(rows, r, s.state)
  PROVE  /\ Sound(rows, [step |-> "fetch", req |-> r, seen |-> s])
         /\ \A w \in Snapshots :
              /\ w.bound => Truthful(rows, r, w.state)
              /\ s.bound => s.state \notin Outcomes
              => Sound(rows, [step |-> "repair", req |-> r, seen |-> s, write |-> w])
  BY DEF Sound, Jobs

LEMMA ShownTrue ==
  ASSUME StoreInv, LedgerTypes, NEW r \in Auths
  PROVE  /\ request[r] # "absent" => Shown(r) \in Snapshots
         /\ request[r] = "absent" => Shown(r) = Unbound("absent")
         /\ Shown(r) \in Seen
         /\ Shown(r).bound => Truthful(row, r, Shown(r).state)
  <1>1. CASE request[r] = "absent"
    BY <1>1 DEF Shown, Seen, Unbound
  <1>2. CASE request[r] = "unbound"
    BY <1>2, SnapshotForms DEF Shown, Seen, LedgerTypes, Unbound
  <1>3. CASE request[r] \notin {"absent", "unbound"}
    <2>1. Shown(r) = Bound(request[r]) /\ request[r] \in PublicStates \union {"denied"}
      BY <1>3 DEF Shown, StoreInv
    <2>2. Bound(request[r]).state = request[r]
      BY DEF Bound
    <2>3. QED
      BY <1>3, <2>1, <2>2, SnapshotForms DEF Seen, StoreInv
  <1>4. QED
    BY <1>1, <1>2, <1>3

LEMMA LedgerWrite ==
  ASSUME StoreInv, LedgerTypes, NEW r \in Auths, NEW s \in Snapshots,
         s.bound => Truthful(row, r, s.state), WriteShown(r, s),
         UNCHANGED <<row, snapshot, pend>>
  PROVE  StoreStep /\ unboundState' \in [Auths -> UnboundStates] /\ request'[r] # "absent"
  <1> DEFINE new_ == IF s.bound THEN s.state ELSE "unbound"
  <1>1. /\ new_ \in PublicStates \union {"unbound", "denied"}
        /\ new_ # "absent"
        /\ Truthful(row, r, new_)
        /\ ~s.bound => s.state \in UnboundStates
    BY SnapshotFields, StateNames DEF Truthful
  <1>2. request' = [request EXCEPT ![r] = new_]
    BY DEF WriteShown
  <1> HIDE DEF new_
  <1>3. /\ request' \in [Auths -> PublicStates \union {"absent", "unbound", "denied"}]
        /\ request'[r] = new_
        /\ \A a \in Auths : a # r => request'[a] = request[a]
    BY <1>1, <1>2 DEF StoreInv
  <1>4. \A a \in Auths : /\ Truthful(row, a, request'[a])
                         /\ request[a] # "absent" => request'[a] # "absent"
                         /\ Progress(a)
    BY <1>1, <1>3 DEF StoreInv, Progress
  <1>5. unboundState' \in [Auths -> UnboundStates]
    BY <1>1 DEF WriteShown, LedgerTypes
  <1>6. StoreInv'
    BY <1>3, <1>4 DEF StoreInv
  <1>7. QED
    BY <1>1, <1>3, <1>4, <1>5, <1>6 DEF StoreStep

LEMMA StoreUntouched ==
  ASSUME StoreInv, UNCHANGED storeVars PROVE StoreStep /\ UNCHANGED row
  BY DEF StoreInv, storeVars, StoreStep, Progress

\* What a thread is going to write on giving up is no claim about a row.
LEMMA GiveUpSound ==
  ASSUME StoreInv, NEW t \in Threads, Sound(row, job[t]), UNCHANGED row,
         job[t].step \in {"withdraw", "revoking"}, GiveUp(t)
  PROVE  \E j : Proceed(t, j) /\ Sound(row', j)
                /\ \/ j = Idle
                   \/ j.step = "answer" /\ j.req = job[t].req /\ ~j.write.bound
                   \/ j.step = "answer" /\ j.req = job[t].req /\ j.write = Bound("denied")
  <1> DEFINE w_ == [job[t].seen EXCEPT !.state = job[t].to]
  <1>1. job[t].req \in Auths /\ job[t].to \in {"cancelled", "denied"} /\ job[t].seen \in Seen
    BY JobFields DEF Sound
  <1>2. w_ = [bound |-> job[t].seen.bound, state |-> job[t].to]
        /\ job[t].seen.bound \in BOOLEAN
    <2>1. job[t].seen = [bound |-> job[t].seen.bound, state |-> job[t].seen.state]
          /\ job[t].seen.bound \in BOOLEAN
      BY <1>1, SeenFields
    <2>2. QED
      BY <2>1
  <1>3. job[t].seen.bound => job[t].seen.state \notin {"processing", "waiting_for_approval"}
    BY <1>1, SeenFields, SnapshotFields, StateNames DEF Unbound
  <1>4. CASE job[t].to = "denied" \/ job[t].seen.state \in {"processing", "waiting_for_approval"}
    <2>1. w_ \in {Bound("denied"), Unbound("cancelled"), Unbound("denied")}
      BY <1>1, <1>2, <1>3, <1>4 DEF Bound, Unbound
    <2>2. w_ \in Snapshots /\ (w_.bound => ~(w_.state \in PublicStates))
      BY <2>1, SnapshotForms, StateNames DEF Bound, Unbound, UnboundStates
    <2>3. Sound(row', [step |-> "answer", req |-> job[t].req, write |-> w_])
      BY <1>1, <2>2, WriteSound DEF Truthful
    <2>4. Proceed(t, [step |-> "answer", req |-> job[t].req, write |-> w_])
      BY <1>4 DEF GiveUp
    <2>5. w_ = Bound("denied") \/ ~w_.bound
      BY <2>1 DEF Bound, Unbound
    <2> HIDE DEF w_
    <2>6. QED
      BY <2>3, <2>4, <2>5
  <1>5. CASE ~(job[t].to = "denied"
               \/ job[t].seen.state \in {"processing", "waiting_for_approval"})
    BY <1>5, IdleSound DEF GiveUp, Return
  <1>6. QED
    BY <1>4, <1>5

-----------------------------------------------------------------------------
(* Every step keeps the invariant.                                         *)

Kept == ControlInv' /\ StoreStep

LEMMA Combine ==
  ASSUME ControlInv, StoreStep, LedgerTypes', JobsSound',
         \A r \in Auths : engine'[r] = "authorized" =>
            engine[r] = "authorized" \/ row'[r] \in RowStates
  PROVE  Kept
  <1>1. ASSUME NEW r \in Auths, engine'[r] = "authorized" PROVE row'[r] # "none"
    <2>1. CASE row'[r] \in RowStates
      BY <2>1, StateNames
    <2>2. CASE engine[r] = "authorized"
      <3>1. row[r] \in RowStates
        BY <2>2 DEF ControlInv, IssuedFirst, StoreInv
      <3>2. QED
        BY <3>1, ProgressKeeps, StateNames DEF StoreStep, ControlInv
    <2>3. QED
      BY <1>1, <2>1, <2>2
  <1>2. QED
    BY <1>1 DEF Kept, ControlInv, IssuedFirst, StoreStep

\* A step of a thread that leaves the store alone.
LEMMA QuietStep ==
  ASSUME ControlInv, NEW t \in Threads, NEW j, Sound(row, j), Proceed(t, j),
         UNCHANGED storeVars, LedgerTypes',
         \A r \in Auths : engine'[r] = "authorized" => engine[r] = "authorized"
  PROVE  Kept
  <1>1. StoreStep /\ UNCHANGED row
    BY StoreUntouched DEF ControlInv
  <1>2. JobsSound'
    BY <1>1, JobsMove DEF ControlInv, StoreStep
  <1>3. QED
    BY <1>1, <1>2, Combine

LEMMA CallStep ==
  ASSUME ControlInv, NEW t \in Threads, NEW r \in Auths, Call(t, r) PROVE Kept
  <1> USE DEF ControlInv
  <1>1. CASE Admit(t, r)
    BY <1>1, PlainSound, QuietStep DEF Admit, ledgerVars, engineVars, history, LedgerTypes
  <1>2. ASSUME NEW signed \in BOOLEAN, ChooseGate(t, r, signed) PROVE Kept
    <2> DEFINE a_ == [gate |-> gatesLeft[r], signed |-> signed]
    <2>1. a_ \in Approvals
      BY DEF Approvals, LedgerTypes
    <2>2. Proceed(t, [step |-> "approve", req |-> r, approval |-> a_])
      BY <1>2 DEF ChooseGate
    <2> HIDE DEF a_
    <2>3. QED
      BY <1>2, <2>1, <2>2, PlainSound, QuietStep
         DEF ChooseGate, ledgerVars, engineVars, history, LedgerTypes
  <1>3. CASE ReadRequest(t, r)
    <2>1. Shown(r) \in Snapshots /\ (Shown(r).bound => Truthful(row, r, Shown(r).state))
      BY <1>3, ShownTrue DEF ReadRequest
    <2>2. Sound(row, [step |-> "fetch", req |-> r, seen |-> Shown(r)])
      BY <2>1, ReadSound
    <2>3. QED
      BY <1>3, <2>2, QuietStep DEF ReadRequest, ledgerVars, engineVars, history, LedgerTypes
  <1>4. ASSUME NEW to \in {"cancelled", "denied"}, ReadToWithdraw(t, r, to) PROVE Kept
    <2>1. CASE Answer(t, r)
      <3>1. Proceed(t, Idle) /\ LedgerTypes'
        BY <1>4, <2>1
           DEF ReadToWithdraw, Answer, Return, ledgerVars, engineVars, LedgerTypes
      <3>2. QED
        BY <1>4, <3>1, IdleSound, QuietStep DEF ReadToWithdraw, engineVars
    <2>2. CASE /\ Proceed(t, [step |-> "withdraw", req |-> r, to |-> to, seen |-> Shown(r)])
               /\ UNCHANGED history
      <3>1. Sound(row, [step |-> "withdraw", req |-> r, to |-> to, seen |-> Shown(r)])
        BY ShownTrue, WithdrawSound
      <3>2. QED
        BY <1>4, <2>2, <3>1, QuietStep
           DEF ReadToWithdraw, ledgerVars, engineVars, history, LedgerTypes
    <2>3. QED
      BY <1>4, <2>1, <2>2 DEF ReadToWithdraw
  <1>5. QED
    BY <1>1, <1>2, <1>3, <1>4 DEF Call

LEMMA CreateStep ==
  ASSUME ControlInv, NEW t \in Threads,
         ReserveKey(t) \/ CreateRequest(t) \/ CreateFails(t) \/ InsertRequest(t)
  PROVE  Kept
  <1> DEFINE r_ == job[t].req
  <1>1. Sound(row, job[t])
    BY DEF ControlInv, JobsSound
  <1>2. CASE ReserveKey(t)
    <2>1. r_ \in Auths
      BY <1>1, <1>2, JobFields DEF ReserveKey, Serving, Sound
    <2>2. LedgerTypes' /\ UNCHANGED storeVars /\ UNCHANGED engine
      BY <1>2 DEF ReserveKey, ControlInv, LedgerTypes, engineVars, history
    <2>3. Proceed(t, Idle) \/ Proceed(t, [step |-> "create", req |-> r_])
      BY <1>2 DEF ReserveKey, Return
    <2> HIDE DEF r_
    <2>4. QED
      BY <2>1, <2>2, <2>3, IdleSound, PlainSound, QuietStep
  <1>3. CASE CreateRequest(t)
    <2>1. r_ \in Auths
      BY <1>1, <1>3, JobFields DEF CreateRequest, Serving, Sound
    <2> DEFINE w_ == IF engine'[r_] = "authorized" THEN Bound("authorized")
                     ELSE Unbound(engine'[r_])
    <2>2. PICK s \in {"waiting_for_approval", "blocked"} :
            /\ engine' = [engine EXCEPT ![r_] = IF @ = "absent" THEN s ELSE @]
            /\ Proceed(t, [step |-> "insert", req |-> r_, write |-> w_])
      BY <1>3 DEF CreateRequest
    <2>3. /\ LedgerTypes' /\ UNCHANGED storeVars
          /\ engine'[r_] \in {"processing", "waiting_for_approval", "authorized", "cancelled",
                            "blocked"}
          /\ \A a \in Auths : engine'[a] = "authorized" => engine[a] = "authorized"
      BY <1>3, <2>1, <2>2 DEF CreateRequest, ControlInv, LedgerTypes, ledgerVars, history
    <2>4. w_ \in Snapshots /\ (w_.bound => engine[r_] = "authorized" /\ w_.state = "authorized")
      BY <2>1, <2>3, SnapshotForms DEF Bound, Unbound, PublicStates, UnboundStates
    <2>5. engine[r_] = "authorized" => Truthful(row, r_, "authorized")
      BY <2>1 DEF ControlInv, IssuedFirst, Truthful, Reached, StoreInv
    <2>6. Sound(row, [step |-> "insert", req |-> r_, write |-> w_])
      BY <2>1, <2>4, <2>5, WriteSound
    <2> HIDE DEF w_, r_
    <2>7. QED
      BY <2>2, <2>3, <2>6, QuietStep
  <1>4. CASE CreateFails(t)
    <2>1. r_ \in Auths
      BY <1>1, <1>4, JobFields DEF CreateFails, Serving, Sound
    <2>2. LedgerTypes' /\ UNCHANGED storeVars
          /\ \A a \in Auths : engine'[a] = "authorized" => engine[a] = "authorized"
      BY <1>4, <2>1 DEF CreateFails, ControlInv, LedgerTypes, ledgerVars, history
    <2>3. QED
      BY <1>4, <2>2, IdleSound, QuietStep DEF CreateFails, Return
  <1>5. CASE InsertRequest(t)
    <2>1. r_ \in Auths /\ job[t].write \in Snapshots
          /\ (job[t].write.bound => Truthful(row, r_, job[t].write.state))
      BY <1>1, <1>5, JobFields DEF InsertRequest, Serving, Sound
    <2>2. UNCHANGED <<row, snapshot, pend>> /\ Proceed(t, Idle) /\ UNCHANGED engine
      BY <1>5 DEF InsertRequest, Return, engineVars
    <2>3. StoreStep /\ unboundState' \in [Auths -> UnboundStates]
      <3>1. CASE WriteShown(r_, job[t].write)
        BY <2>1, <2>2, <3>1, LedgerWrite DEF ControlInv
      <3>2. CASE UNCHANGED <<request, ledgerVars>>
        BY <2>2, <3>2, StoreUntouched DEF ControlInv, storeVars, ledgerVars, LedgerTypes
      <3>3. QED
        BY <1>5, <3>1, <3>2 DEF InsertRequest
    <2>4. LedgerTypes'
      BY <1>5, <2>3 DEF InsertRequest, ControlInv, LedgerTypes, ledgerVars, engineVars, history
    <2>5. JobsSound'
      BY <2>2, <2>3, IdleSound, JobsMove DEF ControlInv, StoreStep
    <2>6. QED
      BY <2>2, <2>3, <2>4, <2>5, Combine
  <1>6. QED
    BY <1>2, <1>3, <1>4, <1>5

LEMMA ApprovalStep ==
  ASSUME ControlInv, NEW t \in Threads,
         IngestApproval(t) \/ RejectApproval(t) \/ RecordApproved(t)
  PROVE  Kept
  <1> DEFINE r_ == job[t].req
  <1>1. Sound(row, job[t])
    BY DEF ControlInv, JobsSound
  <1>2. CASE IngestApproval(t)
    <2>1. r_ \in Auths /\ job[t].approval \in Approvals
      BY <1>1, <1>2, JobFields DEF IngestApproval, Serving, Sound
    <2>2. PICK s \in Snapshots :
            /\ PassGate(r_, s)
            /\ Return(t) \/ Proceed(t, [step |-> "record", req |-> r_, write |-> s])
      BY <1>2 DEF IngestApproval
    <2>3. UNCHANGED <<ledgerVars, created, held, withdrawn>>
          /\ decisionsUsed' \subseteq Auths /\ endorsed' \in [Auths -> SUBSET Approvals]
      BY <1>2, <2>1 DEF IngestApproval, ControlInv, LedgerTypes
    <2>4. CASE UNCHANGED storeVars /\ ~s.bound
      <3>1. s \in {Unbound("processing"), Unbound("waiting_for_approval"), Unbound("blocked")}
        BY <2>2, <2>4 DEF PassGate, Bound
      <3>2. LedgerTypes'
        <4>1. s.state \in {"processing", "waiting_for_approval", "blocked"}
          BY <3>1 DEF Unbound
        <4>2. engine' = [engine EXCEPT ![r_] = s.state]
          BY <2>2 DEF PassGate
        <4>3. \/ UNCHANGED gatesLeft
              \/ gatesLeft[r_] > 1 /\ gatesLeft' = [gatesLeft EXCEPT ![r_] = @ - 1]
          BY <2>2 DEF PassGate
        <4>4. gatesLeft' \in [Auths -> Gates]
          BY <2>1, <4>3, ControlAssumption DEF ControlInv, LedgerTypes, Gates
        <4> HIDE DEF r_
        <4>5. QED
          BY <2>1, <2>3, <4>1, <4>2, <4>4 DEF ControlInv, LedgerTypes, ledgerVars
      <3>3. Sound(row, [step |-> "record", req |-> r_, write |-> s])
        BY <2>1, <2>4, WriteSound
      <3>4. \A a \in Auths : engine'[a] = "authorized" => engine[a] = "authorized"
        BY <2>1, <2>2, <3>1 DEF PassGate, ControlInv, LedgerTypes, Unbound
      <3> HIDE DEF r_
      <3>5. QED
        BY <2>2, <2>4, <3>2, <3>3, <3>4, IdleSound, QuietStep DEF Return
    <2>5. CASE /\ InsertIssued(r_) /\ UNCHANGED gatesLeft
               /\ s \in {Bound("authorized"), Unbound("blocked")}
      <3>1. StoreStep /\ row'[r_] = "issued"
        BY <2>1, <2>5, InsertStep DEF ControlInv, InsertIssued, StoreInv
      <3>2. LedgerTypes'
        <4>1. s.state \in {"authorized", "blocked"}
          BY <2>5 DEF Bound, Unbound
        <4>2. engine' = [engine EXCEPT ![r_] = s.state]
          BY <2>2 DEF PassGate
        <4> HIDE DEF r_
        <4>3. QED
          BY <2>1, <2>3, <2>5, <4>1, <4>2 DEF ControlInv, LedgerTypes, ledgerVars
      <3>3. s.bound => Truthful(row', r_, s.state)
        BY <2>5, <3>1 DEF Bound, Unbound, Truthful, Reached, RowStates
      <3>4. Sound(row', [step |-> "record", req |-> r_, write |-> s])
        BY <2>1, <3>3, WriteSound
      <3>5. JobsSound'
        BY <2>2, <3>1, <3>4, IdleSound, JobsMove DEF Return, ControlInv, StoreStep
      <3>6. \A a \in Auths : engine'[a] = "authorized" =>
               engine[a] = "authorized" \/ row'[a] \in RowStates
        BY <2>1, <2>2, <3>1 DEF PassGate, ControlInv, LedgerTypes, RowStates
      <3>7. QED
        BY <3>1, <3>2, <3>5, <3>6, Combine
    <2>6. QED
      BY <2>2, <2>4, <2>5 DEF PassGate, Bound, Unbound
  <1>3. CASE RejectApproval(t)
    BY <1>3, IdleSound, QuietStep
       DEF RejectApproval, Return, ControlInv, LedgerTypes, ledgerVars, engineVars, history
  <1>4. CASE RecordApproved(t)
    <2>1. r_ \in Auths /\ job[t].write \in Snapshots
          /\ (job[t].write.bound => Truthful(row, r_, job[t].write.state))
      BY <1>1, <1>4, JobFields DEF RecordApproved, Serving, Sound
    <2>2. /\ UNCHANGED <<row, snapshot, pend>> /\ Proceed(t, Idle) /\ UNCHANGED engine
          /\ WriteShown(r_, job[t].write)
      BY <1>4 DEF RecordApproved, Return, engineVars
    <2>3. StoreStep /\ unboundState' \in [Auths -> UnboundStates]
      BY <2>1, <2>2, LedgerWrite DEF ControlInv
    <2>4. LedgerTypes'
      BY <1>4, <2>3 DEF RecordApproved, ControlInv, LedgerTypes, engineVars, history
    <2>5. JobsSound'
      BY <2>2, <2>3, IdleSound, JobsMove DEF ControlInv, StoreStep
    <2>6. QED
      BY <2>2, <2>3, <2>4, <2>5, Combine
  <1>5. QED
    BY <1>2, <1>3, <1>4

LEMMA CancelStep ==
  ASSUME StoreInv, NEW r \in Auths, NEW c \in Clients, Cancel(c, r)
  PROVE  StoreStep /\ row'[r] = "cancelled" /\ row[r] # "none"
  <1>1. {"issued", "cancelled"} \subseteq RowStates
    BY DEF RowStates
  <1>2. LegalMove("issued", "cancelled") /\ LegalMove("cancelled", "cancelled")
    BY <1>1 DEF LegalMove
  <1>3. QED
    BY <1>1, <1>2, TransitionStep, StateNames DEF Cancel, Transition

\* The steps of a withdrawal that use the store, and the one that refuses.
LEMMA WithdrawStep ==
  ASSUME ControlInv, NEW t \in Threads,
         CancelInStore(t) \/ StoreRefuses(t) \/ CancelInEngine(t) \/ RevokeInEngine(t)
  PROVE  Kept
  <1> USE ControlAssumption
  <1> DEFINE r_ == job[t].req
  <1>1. Sound(row, job[t]) /\ Coordinator \in Clients
    BY DEF ControlInv, JobsSound
  <1>2. /\ job[t].step = "withdraw"
        /\ r_ \in Auths /\ job[t].to \in {"cancelled", "denied"} /\ job[t].seen \in Seen
    BY <1>1, JobFields DEF CancelInStore, StoreRefuses, CancelInEngine, RevokeInEngine,
       Withdrawing, Serving, Sound
  <1>3. job[t] = [step |-> "withdraw", req |-> r_, to |-> job[t].to, seen |-> job[t].seen]
    BY <1>1, <1>2 DEF Sound, Jobs, Idle
  <1>4. ASSUME NEW step \in {"storing", "revoking"},
               Cancel(Coordinator, r_), Proceed(t, [job[t] EXCEPT !.step = step]),
               UNCHANGED <<ledgerVars, engineVars, held, history>>
        PROVE  Kept
    <2>1. StoreStep /\ row'[r_] = "cancelled"
      BY <1>1, <1>2, <1>4, CancelStep DEF ControlInv
    <2>2. [job[t] EXCEPT !.step = step] =
          [step |-> step, req |-> r_, to |-> job[t].to, seen |-> job[t].seen]
      BY <1>3
    <2>3. Sound(row', [job[t] EXCEPT !.step = step])
      <3>1. Sound(row', [step |-> step, req |-> r_, to |-> job[t].to, seen |-> job[t].seen])
        <4>1. CASE step = "storing"
          BY <1>2, <2>1, <4>1, WithdrawSound
        <4>2. CASE step = "revoking"
          BY <1>2, <2>1, <4>2, WithdrawSound
        <4>3. QED
          BY <4>1, <4>2
      <3>2. QED
        BY <2>2, <3>1
    <2>4. JobsSound'
      BY <1>4, <2>1, <2>3, JobsMove DEF ControlInv, StoreStep
    <2>5. LedgerTypes'
      BY <1>4 DEF ControlInv, LedgerTypes, ledgerVars, engineVars, history
    <2>6. QED
      BY <1>4, <2>1, <2>4, <2>5, Combine DEF engineVars
  <1>5. CASE CancelInStore(t)
    BY <1>4, <1>5 DEF CancelInStore
  <1>6. CASE RevokeInEngine(t)
    BY <1>4, <1>6 DEF RevokeInEngine
  <1>7. CASE StoreRefuses(t)
    BY <1>7, IdleSound, QuietStep
       DEF StoreRefuses, Return, ControlInv, LedgerTypes, ledgerVars, engineVars, history
  <1>8. CASE CancelInEngine(t)
    <2>1. Unbound(job[t].to) \in Snapshots /\ ~Unbound(job[t].to).bound
      BY <1>2, SnapshotForms DEF Unbound, UnboundStates
    <2>2. Sound(row, [step |-> "answer", req |-> r_, write |-> Unbound(job[t].to)])
      BY <1>2, <2>1, WriteSound
    <2>3. LedgerTypes' /\ \A a \in Auths : engine'[a] = "authorized" => engine[a] = "authorized"
      BY <1>2, <1>8 DEF CancelInEngine, ControlInv, LedgerTypes, ledgerVars, history
    <2>4. CASE Proceed(t, [step |-> "answer", req |-> r_, write |-> Unbound(job[t].to)])
      BY <1>8, <2>2, <2>3, <2>4, QuietStep DEF CancelInEngine
    <2>5. CASE GiveUp(t)
      <3>1. UNCHANGED row /\ UNCHANGED storeVars /\ job[t].step = "withdraw"
        BY <1>8 DEF CancelInEngine, Withdrawing, Serving, storeVars
      <3>2. PICK j : Proceed(t, j) /\ Sound(row', j)
        BY <1>1, <2>5, <3>1, GiveUpSound DEF ControlInv
      <3>3. QED
        BY <2>3, <3>1, <3>2, QuietStep
    <2>6. QED
      BY <1>8, <2>4, <2>5 DEF CancelInEngine
  <1>9. QED
    BY <1>5, <1>6, <1>7, <1>8

\* The steps that end a withdrawal, well or badly.
LEMMA EndWithdrawStep ==
  ASSUME ControlInv, NEW t \in Threads,
         FinishCancel(t) \/ EngineRefuses(t) \/ CancelBreaks(t) \/ RecordWithdrawn(t)
  PROVE  Kept
  <1> USE ControlAssumption
  <1> DEFINE r_ == job[t].req
  <1>1. Sound(row, job[t]) /\ Coordinator \in Clients
    BY DEF ControlInv, JobsSound
  <1>2. CASE FinishCancel(t)
    <2>1. /\ r_ \in Auths /\ job[t].to \in {"cancelled", "denied"}
          /\ row[r_] = "cancelled"
      BY <1>1, <1>2, JobFields DEF FinishCancel, Sound
    <2>2. StoreStep /\ UNCHANGED row
      BY <1>1, <1>2, WriteStep DEF FinishCancel, ControlInv
    <2>3. /\ LedgerTypes'
          /\ \A a \in Auths : engine'[a] = "authorized" => engine[a] = "authorized"
      BY <1>2, <2>1 DEF FinishCancel, ControlInv, LedgerTypes, ledgerVars, history
    <2>4. JobsSound'
      <3>1. CASE UNCHANGED job
        BY <2>2, <3>1, JobsLast DEF ControlInv, StoreStep
      <3>2. CASE Proceed(t, [step |-> "answer", req |-> r_, write |-> Bound(job[t].to)])
        <4>1. Bound(job[t].to) \in Snapshots /\ Bound(job[t].to).state = job[t].to
          BY <2>1, SnapshotForms DEF Bound, PublicStates
        <4>2. Truthful(row', r_, job[t].to)
          BY <2>1, <2>2, StateNames DEF Truthful, Reached
        <4>3. Sound(row', [step |-> "answer", req |-> r_, write |-> Bound(job[t].to)])
          BY <2>1, <4>1, <4>2, WriteSound
        <4>4. QED
          BY <2>2, <3>2, <4>3, JobsMove DEF ControlInv, StoreStep
      <3>3. QED
        BY <1>2, <3>1, <3>2 DEF FinishCancel
    <2>5. QED
      BY <2>2, <2>3, <2>4, Combine
  <1>3. CASE EngineRefuses(t) \/ CancelBreaks(t)
    <2>1. StoreStep /\ UNCHANGED row
      BY <1>1, <1>3, StoreUntouched, WriteStep DEF EngineRefuses, CancelBreaks, ControlInv
    <2>2. LedgerTypes' /\ UNCHANGED engine
      BY <1>3 DEF EngineRefuses, CancelBreaks, ControlInv, LedgerTypes, ledgerVars,
         engineVars, history
    <2>3. JobsSound'
      <3>1. CASE GiveUp(t) /\ job[t].step \in {"withdraw", "revoking"}
        <4>1. PICK j : Proceed(t, j) /\ Sound(row', j)
          BY <1>1, <2>1, <3>1, GiveUpSound DEF ControlInv
        <4>2. QED
          BY <2>1, <4>1, JobsMove DEF ControlInv, StoreStep
      <3>2. CASE Return(t)
        BY <2>1, <3>2, IdleSound, JobsMove DEF ControlInv, StoreStep, Return
      <3>3. QED
        BY <1>3, <3>1, <3>2 DEF EngineRefuses, CancelBreaks, Withdrawing, Serving
    <2>4. QED
      BY <2>1, <2>2, <2>3, Combine
  <1>4. CASE RecordWithdrawn(t)
    <2>1. r_ \in Auths /\ job[t].write \in Snapshots
          /\ (job[t].write.bound => Truthful(row, r_, job[t].write.state))
      BY <1>1, <1>4, JobFields DEF RecordWithdrawn, Serving, Sound
    <2>2. /\ UNCHANGED <<row, snapshot, pend>> /\ Proceed(t, Idle) /\ UNCHANGED engine
          /\ WriteShown(r_, job[t].write)
      BY <1>4 DEF RecordWithdrawn, Answer, Return, engineVars
    <2>3. StoreStep /\ unboundState' \in [Auths -> UnboundStates]
      BY <2>1, <2>2, LedgerWrite DEF ControlInv
    <2>4. LedgerTypes'
      BY <1>4, <2>1, <2>3 DEF RecordWithdrawn, Answer, ControlInv, LedgerTypes, engineVars
    <2>5. JobsSound'
      BY <2>2, <2>3, IdleSound, JobsMove DEF ControlInv, StoreStep
    <2>6. QED
      BY <2>2, <2>3, <2>4, <2>5, Combine
  <1>5. QED
    BY <1>2, <1>3, <1>4

LEMMA RepairStep ==
  ASSUME ControlInv, NEW t \in Threads, FetchRecord(t) \/ RepairShown(t) PROVE Kept
  <1> DEFINE r_ == job[t].req
             seen_ == job[t].seen
  <1>1. Sound(row, job[t])
    BY DEF ControlInv, JobsSound
  <1>2. /\ r_ \in Auths /\ seen_ \in Snapshots
        /\ seen_.bound => Truthful(row, r_, seen_.state)
    BY <1>1, JobFields DEF FetchRecord, RepairShown, Serving, Sound
  <1>3. CASE FetchRecord(t)
    <2> DEFINE w_ == Repaired(r_, seen_)
    <2>1. /\ LedgerTypes' /\ UNCHANGED storeVars /\ UNCHANGED engine
          /\ \/ Proceed(t, Idle)
             \/ /\ row[r_] # "none" /\ w_ # seen_
                /\ Proceed(t, [step |-> "repair", req |-> r_, seen |-> seen_, write |-> w_])
      BY <1>3 DEF FetchRecord, Return, ControlInv, LedgerTypes, ledgerVars, engineVars,
         history
    <2>2. ASSUME row[r_] # "none", w_ # seen_
          PROVE  Sound(row, [step |-> "repair", req |-> r_, seen |-> seen_, write |-> w_])
      <3>1. row[r_] \in RowStates /\ snapshot[r_] \in PublicStates
            /\ Truthful(row, r_, snapshot[r_])
        BY <1>2, <2>2 DEF ControlInv, StoreInv
      <3>2. w_ \in {Bound(PublicState(row[r_])), Bound(snapshot[r_])}
            /\ (seen_.bound => w_ = Bound(PublicState(row[r_])))
        BY DEF Repaired
      <3>3. w_ \in Snapshots /\ Truthful(row, r_, w_.state)
        BY <3>1, <3>2, PublicStateTrue, SnapshotForms DEF Bound, Truthful
      <3>4. ASSUME seen_.bound, seen_.state \in Outcomes PROVE FALSE
        <4>1. row[r_] = seen_.state
          BY <1>2, <3>4 DEF Truthful, Reached, Outcomes, PublicStates
        <4>2. PublicState(row[r_]) = seen_.state
          BY <3>4, <4>1 DEF PublicState, Outcomes
        <4>3. w_ = seen_
          BY <1>2, <3>2, <3>4, <4>2, SnapshotFields
        <4>4. QED
          BY <2>2, <4>3
      <3> HIDE DEF w_, seen_, r_
      <3>5. QED
        BY <1>2, <3>3, <3>4, ReadSound
    <2> HIDE DEF w_, seen_, r_
    <2>3. QED
      BY <2>1, <2>2, IdleSound, QuietStep
  <1>4. CASE RepairShown(t)
    <2>1. job[t].write \in Snapshots
          /\ (job[t].write.bound => Truthful(row, r_, job[t].write.state))
      BY <1>1, <1>4, JobFields DEF RepairShown, Serving, Sound
    <2>2. /\ UNCHANGED <<row, snapshot, pend>> /\ Proceed(t, Idle) /\ UNCHANGED engine
      BY <1>4 DEF RepairShown, Return, engineVars
    <2>3. StoreStep /\ unboundState' \in [Auths -> UnboundStates]
      <3>1. CASE WriteShown(r_, job[t].write)
        BY <1>2, <2>1, <2>2, <3>1, LedgerWrite DEF ControlInv
      <3>2. CASE UNCHANGED <<request, unboundState>>
        BY <2>2, <3>2, StoreUntouched DEF ControlInv, storeVars, LedgerTypes
      <3>3. QED
        BY <1>4, <3>1, <3>2 DEF RepairShown
    <2>4. LedgerTypes'
      BY <1>4, <2>3 DEF RepairShown, ControlInv, LedgerTypes, engineVars, history
    <2>5. JobsSound'
      BY <2>2, <2>3, IdleSound, JobsMove DEF ControlInv, StoreStep
    <2>6. QED
      BY <2>2, <2>3, <2>4, <2>5, Combine
  <1>5. QED
    BY <1>3, <1>4

LEMMA OthersStep ==
  ASSUME ControlInv, NEW c \in Outside, Others(c) PROVE Kept
  <1> USE ControlAssumption
  <1>1. {"issued", "executing", "unknown", "executed", "failed", "simulated"} \subseteq RowStates
    BY DEF RowStates
  <1>2. c \in Clients /\ StoreInv
    BY DEF ControlInv
  <1>3. ASSUME NEW a \in Auths, OutsideStep(c, a) PROVE StoreStep
    <2>1. CASE Reserve(a, 0) \/ ExpireUnconsumed(a, 1)
      BY <1>2, <2>1, OneTransactionStep
    <2>2. ASSUME NEW from \in {"executing", "unknown"}, NEW to \in RowStates,
                 Transition(c, a, from, to), LegalMove(from, to)
          PROVE  StoreStep
      BY <1>1, <1>2, <2>2, TransitionStep
    <2>3. CASE \E outcome \in {"executed", "failed", "simulated"} : Complete(c, a, outcome)
      BY <1>1, <2>2, <2>3 DEF Complete, LegalMove
    <2>4. CASE MarkUnknown(c, a) \/ RecoverInterrupted(c, a)
      BY <1>1, <2>2, <2>4 DEF MarkUnknown, RecoverInterrupted, LegalMove
    <2>5. CASE \E outcome \in {"executed", "failed"} : Reconcile(c, a, outcome)
      BY <1>1, <2>2, <2>5 DEF Reconcile, LegalMove
    <2>6. QED
      BY <1>3, <2>1, <2>3, <2>4, <2>5 DEF OutsideStep
  <1>4. ASSUME OutsideWrites(c) PROVE StoreStep
    BY <1>2, <1>4, StoreAssumption, OneTransactionStep, WriteStep DEF OutsideWrites
  <1>5. StoreStep
    BY <1>3, <1>4 DEF Others
  <1>6. JobsSound' /\ LedgerTypes' /\ UNCHANGED engine
    BY <1>2, <1>5, JobsLast DEF Others, ControlInv, StoreStep, LedgerTypes, ledgerVars,
       engineVars, history
  <1>7. QED
    BY <1>5, <1>6, Combine

LEMMA WorldStep ==
  ASSUME ControlInv, SetControl \/ Restart \/ UNCHANGED vars PROVE Kept
  <1> USE ControlAssumption
  <1>1. CASE SetControl \/ UNCHANGED vars
    <2>1. StoreStep
      BY <1>1, StoreUntouched DEF SetControl, vars, ControlInv
    <2>2. JobsSound' /\ LedgerTypes' /\ UNCHANGED engine
      BY <1>1, <2>1, JobsLast DEF SetControl, vars, ControlInv, StoreStep, LedgerTypes,
         ledgerVars, engineVars, history
    <2>3. QED
      BY <2>1, <2>2, Combine
  <1>2. CASE Restart
    <2>1. StoreStep
      BY <1>2, WriteStep DEF Restart, ControlInv
    <2>2. JobsSound'
      BY <1>2, IdleSound DEF Restart, JobsSound
    <2>3. LedgerTypes' /\ \A a \in Auths : engine'[a] # "authorized"
      BY <1>2 DEF Restart, ControlInv, LedgerTypes, ledgerVars, Gates
    <2>4. QED
      BY <2>1, <2>2, <2>3, Combine
  <1>3. QED
    BY <1>1, <1>2

LEMMA ControlStep == ASSUME ControlInv, [Next]_vars PROVE Kept
  BY CallStep, CreateStep, ApprovalStep, WithdrawStep, EndWithdrawStep, RepairStep,
     OthersStep, WorldStep DEF Next, Serve

LEMMA ControlInit == Init => ControlInv
  <1> SUFFICES ASSUME Init PROVE ControlInv
    OBVIOUS
  <1>1. StoreInv
    BY ControlAssumption, StateNames DEF Init, StoreInit, StoreInv, Truthful
  <1>2. LedgerTypes /\ IssuedFirst
    BY ControlAssumption DEF Init, LedgerTypes, IssuedFirst, UnboundStates, Gates
  <1>3. JobsSound
    BY IdleSound DEF Init, JobsSound
  <1>4. QED
    BY <1>1, <1>2, <1>3 DEF ControlInv

\* Whatever the processes do: the state is well typed, and everything a thread
\* carries or a projection is about to write is still true of its row.
THEOREM ControlInvariant == Spec => []ControlInv
  <1>1. ControlInv /\ [Next]_vars => ControlInv'
    BY ControlStep DEF Kept
  <1>2. QED
    BY <1>1, ControlInit, PTL DEF Spec

\* Every reachable state of the controller, its ledger and the store beside it
\* is well typed.
THEOREM ControlTyping == Spec => []TypeOK
  <1>1. ControlInv => TypeOK
    BY DEF ControlInv, StoreInv, StoreTypeOK, LedgerTypes, JobsSound, Sound, TypeOK, RequestStates
  <1>2. QED
    BY <1>1, ControlInvariant, PTL

\* The ledger never shows what did not happen to the authorization.
THEOREM LedgerTruthfulHolds == Spec => []LedgerTruthful
  <1>1. ControlInv => LedgerTruthful
    BY DEF ControlInv, StoreInv, Truthful, LedgerTruthful
  <1>2. QED
    BY <1>1, ControlInvariant, PTL

-----------------------------------------------------------------------------
(* Who changes what.                                                       *)

\* A step that moves a thread's call is that thread's own, or a restart.
LEMMA OwnStep ==
  ASSUME ControlInv, [Next]_vars, NEW t \in Threads, job'[t] # job[t]
  PROVE  Serve(t) \/ Restart \/ \E r \in Auths : Call(t, r)
  <1>1. ASSUME NEW u \in Threads, u # t, NEW j, Proceed(u, j) PROVE FALSE
    BY <1>1 DEF Proceed, ControlInv, JobsSound
  <1>2. ASSUME NEW u \in Threads, NEW r \in Auths, Call(u, r), u # t PROVE FALSE
    BY <1>1, <1>2 DEF Call, Admit, ChooseGate, ReadRequest, ReadToWithdraw, Answer, Return
  <1>3. ASSUME NEW u \in Threads, Serve(u), u # t PROVE FALSE
    <2>1. CASE ReserveKey(u) \/ CreateRequest(u) \/ CreateFails(u) \/ InsertRequest(u)
      BY <1>1, <1>3, <2>1 DEF ReserveKey, CreateRequest, CreateFails, InsertRequest, Return
    <2>2. CASE IngestApproval(u) \/ RejectApproval(u) \/ RecordApproved(u)
      BY <1>1, <1>3, <2>2 DEF IngestApproval, RejectApproval, RecordApproved, Return
    <2>3. CASE CancelInStore(u) \/ StoreRefuses(u) \/ CancelInEngine(u) \/ RevokeInEngine(u)
      BY <1>1, <1>3, <2>3 DEF CancelInStore, StoreRefuses, CancelInEngine, RevokeInEngine,
         GiveUp, Return
    <2>4. CASE FinishCancel(u) \/ EngineRefuses(u) \/ CancelBreaks(u) \/ RecordWithdrawn(u)
      BY <1>1, <1>3, <2>4 DEF FinishCancel, EngineRefuses, CancelBreaks, RecordWithdrawn,
         GiveUp, Answer, Return
    <2>5. CASE FetchRecord(u) \/ RepairShown(u)
      BY <1>1, <1>3, <2>5 DEF FetchRecord, RepairShown, Return
    <2>6. QED
      BY <1>3, <2>1, <2>2, <2>3, <2>4, <2>5 DEF Serve
  <1>4. CASE SetControl \/ (\E c \in Outside : Others(c)) \/ UNCHANGED vars
    BY <1>4 DEF SetControl, Others, vars
  <1>5. QED
    BY <1>2, <1>3, <1>4 DEF Next

\* A repair writes nothing over an outcome: what was read had no outcome then,
\* and the snapshot has changed since.
THEOREM RepairKeepsOutcomeHolds == Spec => RepairKeepsOutcome
  <1>1. ASSUME ControlInv, [Next]_vars, NEW t \in Threads, NEW r \in Auths,
               Serving(t, "repair"), job[t].req = r, job'[t] = Idle, request[r] \in Outcomes
        PROVE  request'[r] = request[r]
    <2>1. job[t] # Idle
      BY <1>1 DEF Serving, Idle
    <2>2. RepairShown(t) \/ Restart
      BY <1>1, <2>1, OwnStep DEF Serve, Call, Serving, Admit, ChooseGate, ReadRequest,
         ReadToWithdraw, ReserveKey, CreateRequest, CreateFails, InsertRequest,
         IngestApproval, RejectApproval, RecordApproved, CancelInStore, StoreRefuses,
         CancelInEngine, RevokeInEngine, FinishCancel, EngineRefuses, CancelBreaks,
         RecordWithdrawn, FetchRecord, Withdrawing
    <2>3. CASE Restart
      BY <2>3 DEF Restart, AbandonWrite
    <2>4. CASE RepairShown(t)
      <3>1. Shown(r) = Bound(request[r])
        BY <1>1 DEF Shown, Outcomes
      <3>2. job[t].seen # Shown(r)
        BY <1>1, <3>1 DEF ControlInv, JobsSound, Sound, Serving, Bound
      <3>3. QED
        BY <1>1, <2>4, <3>2 DEF RepairShown
    <2>5. QED
      BY <2>2, <2>3, <2>4
  <1>2. ControlInv /\ [Next]_vars =>
          [\A t \in Threads, r \in Auths :
             Serving(t, "repair") /\ job[t].req = r /\ job'[t] = Idle /\ request[r] \in Outcomes
                => request'[r] = request[r]]_vars
    BY <1>1
  <1>3. QED
    BY <1>2, ControlInvariant, PTL DEF Spec, RepairKeepsOutcome

\* An authorization comes into being by an approval that passes the last gate.
LEMMA IssuedByApproval ==
  ASSUME ControlInv, [Next]_vars, NEW r \in Auths, row[r] = "none", row'[r] # "none"
  PROVE  \E t \in Threads :
           /\ IngestApproval(t) /\ job[t].req = r /\ job[t].approval \in Approvals
           /\ engine[r] = "waiting_for_approval" /\ gatesLeft[r] = 1
           /\ job[t].approval.gate = 1
           /\ job[t].approval.signed => r \notin decisionsUsed
  <1> USE ControlAssumption DEF ControlInv, StoreInv
  <1>1. ASSUME NEW t \in Threads, IngestApproval(t)
        PROVE  /\ IngestApproval(t) /\ job[t].req = r /\ job[t].approval \in Approvals
               /\ engine[r] = "waiting_for_approval" /\ gatesLeft[r] = 1
               /\ job[t].approval.gate = 1
               /\ job[t].approval.signed => r \notin decisionsUsed
    <2>1. job[t].req \in Auths /\ job[t].approval \in Approvals
      BY <1>1, JobFields DEF IngestApproval, Serving, Sound, JobsSound
    <2>2. InsertIssued(job[t].req) /\ gatesLeft[job[t].req] = 1
      BY <1>1 DEF IngestApproval, PassGate, storeVars
    <2>3. job[t].req = r
      BY <2>1, <2>2 DEF InsertIssued
    <2>4. QED
      BY <1>1, <2>1, <2>2, <2>3 DEF IngestApproval, Fresh
  <1>2. ASSUME NEW c \in Clients, NEW a \in Auths, NEW from, NEW to,
               from # "none", Transition(c, a, from, to)
        PROVE  FALSE
    BY <1>2 DEF Transition
  <1>3. ASSUME NEW c \in Clients, WriteSnapshot(c) \/ WriteRequest(c) \/ AbandonWrite(c)
        PROVE  FALSE
    BY <1>3 DEF WriteSnapshot, WriteRequest, AbandonWrite
  <1>4. ASSUME NEW c \in Outside, Others(c) PROVE FALSE
    <2>1. CASE \E a \in Auths : OutsideStep(c, a)
      BY <1>2, <2>1 DEF OutsideStep, Reserve, ExpireUnconsumed, Complete, MarkUnknown,
         RecoverInterrupted, Reconcile
    <2>2. CASE OutsideWrites(c)
      BY <1>3, <2>2 DEF OutsideWrites, RevokeAllIssued
    <2>3. QED
      BY <1>4, <2>1, <2>2 DEF Others
  <1>5. ASSUME NEW t \in Threads, Serve(t), ~IngestApproval(t) PROVE FALSE
    <2>1. CASE CancelInStore(t) \/ RevokeInEngine(t)
      <3>1. job[t].req \in Auths
        BY <2>1, JobFields DEF CancelInStore, RevokeInEngine, Withdrawing, Serving, Sound,
           JobsSound
      <3>2. QED
        BY <1>2, <2>1, <3>1 DEF CancelInStore, RevokeInEngine, Cancel
    <2>2. CASE FinishCancel(t) \/ CancelBreaks(t)
      BY <1>3, <2>2 DEF FinishCancel, CancelBreaks
    <2>3. CASE UNCHANGED row
      BY <2>3
    <2>4. QED
      BY <1>5, <2>1, <2>2, <2>3 DEF Serve, ReserveKey, CreateRequest, CreateFails,
         InsertRequest, RejectApproval, RecordApproved, StoreRefuses, CancelInEngine,
         EngineRefuses, RecordWithdrawn, FetchRecord, RepairShown, storeVars
  <1>6. ASSUME NEW t \in Threads, NEW a \in Auths, Call(t, a) PROVE FALSE
    BY <1>6 DEF Call, Admit, ChooseGate, ReadRequest, ReadToWithdraw, storeVars
  <1>7. CASE SetControl \/ Restart \/ UNCHANGED vars
    BY <1>3, <1>7 DEF SetControl, Restart, vars, storeVars
  <1>8. QED
    BY <1>1, <1>4, <1>5, <1>6, <1>7 DEF Next

-----------------------------------------------------------------------------
(* Approvals.                                                              *)

\* Until a request is authorized, the gates passed so far are the endorsed
\* ones, and the engine remembers the signed decision among the approvals.
Backed(e, gates, used) ==
    /\ {approval.gate : approval \in e} = gates
    /\ \A approval \in e : approval.signed => used
    /\ \A f, g \in e : f.signed /\ g.signed => f = g

ApprovalInv ==
    \A r \in Auths :
        /\ engine[r] = "absent" => endorsed[r] = {} /\ gatesLeft[r] = ApprovalGates
        /\ engine[r] = "waiting_for_approval" /\ row[r] = "none" =>
             Backed(endorsed[r], {g \in Gates : g > gatesLeft[r]}, r \in decisionsUsed)

LEMMA NoneLast ==
  ASSUME ControlInv, [Next]_vars, NEW r \in Auths, row'[r] = "none" PROVE row[r] = "none"
  BY ControlStep, ProgressKeeps, StateNames DEF Kept, StoreStep, ControlInv, StoreInv

LEMMA ApprovalFrame ==
  ASSUME ControlInv, ApprovalInv, [Next]_vars,
         UNCHANGED <<gatesLeft, decisionsUsed, endorsed>>,
         \A r \in Auths : engine'[r] \in {"absent", "waiting_for_approval"} =>
            engine'[r] = engine[r] \/ (engine[r] = "absent" /\ engine'[r] # "absent")
  PROVE  ApprovalInv'
  <1>1. ASSUME NEW r \in Auths, engine[r] = "absent"
        PROVE  Backed(endorsed[r], {g \in Gates : g > gatesLeft[r]}, r \in decisionsUsed)
    <2>1. endorsed[r] = {} /\ gatesLeft[r] = ApprovalGates
      BY <1>1 DEF ApprovalInv
    <2>2. \A g \in Gates : ~(g > gatesLeft[r])
      BY <2>1, ControlAssumption DEF Gates
    <2>3. {g \in Gates : g > gatesLeft[r]} = {}
      BY <2>2
    <2>4. QED
      BY <2>1, <2>3 DEF Backed
  <1>2. ASSUME NEW r \in Auths, engine'[r] = "absent"
        PROVE  endorsed'[r] = {} /\ gatesLeft'[r] = ApprovalGates
    BY <1>2 DEF ApprovalInv
  <1>3. ASSUME NEW r \in Auths, engine'[r] = "waiting_for_approval", row'[r] = "none"
        PROVE  Backed(endorsed[r], {g \in Gates : g > gatesLeft[r]}, r \in decisionsUsed)
    BY <1>1, <1>3, NoneLast DEF ApprovalInv
  <1>4. QED
    BY <1>2, <1>3 DEF ApprovalInv

\* One more gate.
LEMMA IngestStep ==
  ASSUME ControlInv, ApprovalInv, [Next]_vars, NEW t \in Threads, IngestApproval(t)
  PROVE  ApprovalInv'
  <1> DEFINE r_ == job[t].req
             a_ == job[t].approval
  <1>1. r_ \in Auths /\ a_ \in Approvals
    BY JobFields DEF ControlInv, IngestApproval, Serving, Sound, JobsSound
  <1>2. /\ engine[r_] = "waiting_for_approval"
        /\ a_.signed => r_ \notin decisionsUsed
        /\ a_.gate = gatesLeft[r_]
        /\ decisionsUsed' = IF a_.signed THEN decisionsUsed \union {r_} ELSE decisionsUsed
        /\ endorsed' = [endorsed EXCEPT ![r_] =
                           IF row'[r_] = "none" THEN @ \union {a_} ELSE {}]
    BY DEF IngestApproval, Fresh
  <1>3. /\ engine'[r_] # "absent"
        /\ engine'[r_] = "waiting_for_approval" =>
             gatesLeft[r_] > 1 /\ gatesLeft'[r_] = gatesLeft[r_] - 1
        /\ \A a \in Auths : a # r_ => engine'[a] = engine[a] /\ gatesLeft'[a] = gatesLeft[a]
    BY <1>1 DEF IngestApproval, PassGate, Bound, Unbound, ControlInv, LedgerTypes
  <1> HIDE DEF r_, a_
  <1>4. ASSUME NEW a \in Auths, a # r_
        PROVE  endorsed'[a] = endorsed[a] /\ (a \in decisionsUsed <=> a \in decisionsUsed')
    BY <1>2, <1>4 DEF ControlInv, LedgerTypes
  <1>5. ASSUME engine'[r_] = "waiting_for_approval", row'[r_] = "none"
        PROVE  Backed(endorsed'[r_], {g \in Gates : g > gatesLeft'[r_]}, r_ \in decisionsUsed')
    <2>1. endorsed'[r_] = endorsed[r_] \union {a_}
      BY <1>1, <1>2, <1>5 DEF ControlInv, LedgerTypes
    <2>2. Backed(endorsed[r_], {g \in Gates : g > gatesLeft[r_]}, r_ \in decisionsUsed)
      BY <1>1, <1>2, <1>5, NoneLast DEF ApprovalInv
    <2>3. {g \in Gates : g > gatesLeft'[r_]} = {g \in Gates : g > gatesLeft[r_]} \union {a_.gate}
      BY <1>1, <1>2, <1>3, <1>5, ControlAssumption DEF ControlInv, LedgerTypes, Gates
    <2>4. {approval.gate : approval \in endorsed'[r_]} =
             {approval.gate : approval \in endorsed[r_]} \union {a_.gate}
      BY <2>1
    <2>5. \A approval \in endorsed'[r_] : approval.signed => r_ \in decisionsUsed'
      BY <1>2, <2>1, <2>2 DEF Backed
    <2>6. \A f, g \in endorsed'[r_] : f.signed /\ g.signed => f = g
      BY <1>2, <2>1, <2>2 DEF Backed
    <2>7. QED
      BY <2>2, <2>3, <2>4, <2>5, <2>6 DEF Backed
  <1>6. ASSUME NEW a \in Auths, a # r_, engine'[a] = "waiting_for_approval", row'[a] = "none"
        PROVE  Backed(endorsed'[a], {g \in Gates : g > gatesLeft'[a]}, a \in decisionsUsed')
    <2>1. Backed(endorsed[a], {g \in Gates : g > gatesLeft[a]}, a \in decisionsUsed)
      BY <1>3, <1>6, NoneLast DEF ApprovalInv
    <2>2. QED
      BY <1>3, <1>4, <1>6, <2>1 DEF Backed
  <1>7. ASSUME NEW a \in Auths, engine'[a] = "absent"
        PROVE  endorsed'[a] = {} /\ gatesLeft'[a] = ApprovalGates
    BY <1>3, <1>4, <1>7 DEF ApprovalInv
  <1>8. QED
    BY <1>5, <1>6, <1>7 DEF ApprovalInv

LEMMA ApprovalInvStep == ASSUME ControlInv, ApprovalInv, [Next]_vars PROVE ApprovalInv'
  <1>1. ASSUME UNCHANGED engineVars, UNCHANGED endorsed PROVE ApprovalInv'
    BY <1>1, ApprovalFrame DEF engineVars
  <1>2. ASSUME NEW t \in Threads, Serve(t) PROVE ApprovalInv'
    <2>1. CASE CreateRequest(t) \/ CreateFails(t)
      <3>1. /\ UNCHANGED <<gatesLeft, decisionsUsed, endorsed>>
            /\ \A r \in Auths : engine'[r] = engine[r] \/
                 /\ engine[r] = "absent"
                 /\ engine'[r] \in {"processing", "waiting_for_approval", "blocked"}
        BY <2>1 DEF CreateRequest, CreateFails, history, ControlInv, LedgerTypes
      <3>2. QED
        BY <3>1, ApprovalFrame
    <2>2. CASE CancelInEngine(t) \/ FinishCancel(t)
      <3>1. /\ UNCHANGED <<gatesLeft, decisionsUsed, endorsed>>
            /\ \A r \in Auths : engine'[r] = engine[r] \/ engine'[r] = "cancelled"
        BY <2>2 DEF CancelInEngine, FinishCancel, history, ControlInv, LedgerTypes
      <3>2. QED
        BY <3>1, ApprovalFrame
    <2>3. CASE IngestApproval(t)
      BY <2>3, IngestStep
    <2>4. CASE ReserveKey(t) \/ InsertRequest(t) \/ RejectApproval(t) \/ RecordApproved(t)
      BY <1>1, <2>4 DEF ReserveKey, InsertRequest, RejectApproval, RecordApproved, history
    <2>5. CASE CancelInStore(t) \/ StoreRefuses(t) \/ RevokeInEngine(t) \/ EngineRefuses(t)
               \/ CancelBreaks(t) \/ RecordWithdrawn(t) \/ FetchRecord(t) \/ RepairShown(t)
      BY <1>1, <2>5 DEF CancelInStore, StoreRefuses, RevokeInEngine, EngineRefuses,
         CancelBreaks, RecordWithdrawn, Answer, FetchRecord, RepairShown, history
    <2>6. QED
      BY <1>2, <2>1, <2>2, <2>3, <2>4, <2>5 DEF Serve
  <1>3. ASSUME NEW t \in Threads, NEW r \in Auths, Call(t, r) PROVE ApprovalInv'
    BY <1>1, <1>3 DEF Call, Admit, ChooseGate, ReadRequest, ReadToWithdraw, Answer, history
  <1>4. CASE Restart
    BY <1>4 DEF Restart, ApprovalInv
  <1>5. CASE SetControl \/ (\E c \in Outside : Others(c)) \/ UNCHANGED vars
    BY <1>1, <1>5 DEF SetControl, Others, vars, history, engineVars
  <1>6. QED
    BY <1>2, <1>3, <1>4, <1>5 DEF Next

LEMMA ApprovalInvariant == Spec => []ApprovalInv
  <1>1. Init => ApprovalInv
    BY DEF Init, ApprovalInv
  <1>2. ControlInv /\ ApprovalInv /\ [Next]_vars => ApprovalInv'
    BY ApprovalInvStep
  <1>3. QED
    BY <1>1, <1>2, ControlInvariant, PTL DEF Spec

\* Whoever brings the last approval, each gate has had one of its own.
THEOREM EveryGateApprovedHolds == Spec => EveryGateApproved
  <1> DEFINE Enough(e) == /\ {approval.gate : approval \in e} = Gates
                          /\ \A f, g \in e : f.signed /\ g.signed => f = g
  <1>1. ASSUME ControlInv, ApprovalInv, [Next]_vars, NEW t \in Threads,
               Serving(t, "approve"), row[job[t].req] = "none", row'[job[t].req] # "none",
               job'[t] # job[t]
        PROVE  Enough(endorsed[job[t].req] \union {job[t].approval})
    <2> DEFINE r_ == job[t].req
               a_ == job[t].approval
    <2>1. r_ \in Auths
      BY <1>1, JobFields DEF ControlInv, Serving, Sound, JobsSound
    <2>2. PICK u \in Threads :
             /\ IngestApproval(u) /\ job[u].req = r_ /\ job[u].approval \in Approvals
             /\ engine[r_] = "waiting_for_approval" /\ gatesLeft[r_] = 1
             /\ job[u].approval.gate = 1
             /\ job[u].approval.signed => r_ \notin decisionsUsed
      BY <1>1, <2>1, IssuedByApproval
    <2>3. u = t
      BY <1>1, <2>2 DEF IngestApproval, Return, Proceed, ControlInv, JobsSound
    <2> HIDE DEF r_, a_
    <2>4. Backed(endorsed[r_], {g \in Gates : g > 1}, r_ \in decisionsUsed)
      BY <1>1, <2>1, <2>2 DEF ApprovalInv, r_
    <2>5. /\ {approval.gate : approval \in endorsed[r_] \union {a_}} =
               {approval.gate : approval \in endorsed[r_]} \union {a_.gate}
          /\ {g \in Gates : g > 1} \union {1} = Gates
      BY ControlAssumption DEF Gates
    <2>6. a_.gate = 1 /\ (a_.signed => r_ \notin decisionsUsed)
      BY <2>2, <2>3 DEF a_
    <2>7. QED
      BY <2>4, <2>5, <2>6 DEF Backed, r_, a_
  <1>2. ControlInv /\ ApprovalInv /\ [Next]_vars =>
          [\A t \in Threads : Serving(t, "approve") =>
             LET r == job[t].req
                 approvals == endorsed[r] \union {job[t].approval}
             IN
             row[r] = "none" /\ row'[r] # "none" /\ job'[t] # job[t] =>
                /\ {approval.gate : approval \in approvals} = Gates
                /\ \A e, f \in approvals : e.signed /\ f.signed => e = f]_vars
    BY <1>1
  <1>3. QED
    BY <1>2, ControlInvariant, ApprovalInvariant, PTL DEF Spec, EveryGateApproved

-----------------------------------------------------------------------------
(* Creation: the binding of a key outlives the engine.                     *)

\* Nobody is left who could create a request a second time, and no step brings
\* the authorization of a request that is over.
Over(r) == row[r] # "none" \/ (engine[r] # "waiting_for_approval" /\ created[r] = 1)

RequestInv ==
    \A r \in Auths :
        /\ created[r] <= 1
        /\ binding[r] = "none" => created[r] = 0
        /\ binding[r] = "complete" => request[r] # "absent"
        /\ (engine[r] # "absent" \/ row[r] # "none" \/ request[r] # "absent") => created[r] = 1
        /\ r \in withdrawn => Over(r)
        /\ request[r] = "unbound" /\ unboundState[r] = "cancelled" => Over(r)

CallKnows(t) ==
    LET r == job[t].req IN
    /\ Serving(t, "create") => binding[r] # "none" /\ (engine[r] = "absent" => created[r] = 0)
    /\ job[t].step \in {"insert", "record", "answer"} => created[r] = 1
    /\ Serving(t, "withdraw") /\ (job[t].to = "denied" \/ job[t].seen.state # "absent") =>
         created[r] = 1
    /\ Serving(t, "answer") => Over(r)
    /\ job[t].step \in {"insert", "record"} /\ job[t].write = Unbound("cancelled") => Over(r)
    /\ Serving(t, "repair") => job[t].write.bound

CallInv == \A t \in Threads : CallKnows(t)

CreationInv == ControlInv /\ RequestInv /\ CallInv

LEMMA JobReq ==
  ASSUME ControlInv, NEW t \in Threads, job[t].step # "idle" PROVE job[t].req \in Auths
  BY JobFields DEF ControlInv, JobsSound, Sound

LEMMA EngineMoves ==
  ASSUME ControlInv, [Next]_vars, ~Restart,
         ~(\E t \in Threads : CreateRequest(t) \/ CreateFails(t))
  PROVE  /\ created' = created
         /\ \/ engine' = engine
            \/ \E r \in Auths :
                 /\ engine[r] # "absent" \/ row[r] # "none"
                 /\ engine'[r] # "absent"
                 /\ engine'[r] = "waiting_for_approval" => engine[r] = "waiting_for_approval"
                 /\ \A a \in Auths : a # r => engine'[a] = engine[a]
  <1>1. ASSUME NEW t \in Threads, IngestApproval(t)
        PROVE  /\ created' = created
               /\ \E r \in Auths :
                    /\ engine[r] # "absent" \/ row[r] # "none"
                    /\ engine'[r] # "absent"
                    /\ engine'[r] = "waiting_for_approval" => engine[r] = "waiting_for_approval"
                    /\ \A a \in Auths : a # r => engine'[a] = engine[a]
    <2>1. job[t].req \in Auths
      BY <1>1, JobReq DEF IngestApproval, Serving
    <2>2. /\ engine[job[t].req] = "waiting_for_approval"
          /\ engine'[job[t].req] # "absent"
          /\ \A a \in Auths : a # job[t].req => engine'[a] = engine[a]
      BY <1>1, <2>1 DEF IngestApproval, Fresh, PassGate, Bound, Unbound, ControlInv, LedgerTypes
    <2>3. QED
      BY <1>1, <2>1, <2>2 DEF IngestApproval
  <1>2. ASSUME NEW t \in Threads, CancelInEngine(t) \/ FinishCancel(t)
        PROVE  /\ created' = created
               /\ \/ engine' = engine
                  \/ \E r \in Auths :
                       /\ engine[r] # "absent" \/ row[r] # "none"
                       /\ engine'[r] # "absent"
                       /\ engine'[r] = "waiting_for_approval" =>
                            engine[r] = "waiting_for_approval"
                       /\ \A a \in Auths : a # r => engine'[a] = engine[a]
    <2>1. job[t].req \in Auths
      BY <1>2, JobReq DEF CancelInEngine, Withdrawing, FinishCancel, Serving
    <2>2. \/ engine' = engine
          \/ /\ engine' = [engine EXCEPT ![job[t].req] = "cancelled"]
             /\ engine[job[t].req] # "absent" \/ row[job[t].req] = "cancelled"
      BY <1>2, <2>1 DEF CancelInEngine, Cancellable, FinishCancel, ControlInv, JobsSound, Sound, LedgerTypes,
         Serving
    <2>3. QED
      BY <1>2, <2>1, <2>2 DEF CancelInEngine, FinishCancel, ControlInv, LedgerTypes
  <1>3. ASSUME NEW t \in Threads, Serve(t) PROVE UNCHANGED <<engine, created>>
                 \/ CreateRequest(t) \/ CreateFails(t) \/ IngestApproval(t)
                 \/ CancelInEngine(t) \/ FinishCancel(t)
    BY <1>3 DEF Serve, ReserveKey, InsertRequest, RejectApproval, RecordApproved,
       CancelInStore, StoreRefuses, RevokeInEngine, EngineRefuses, CancelBreaks, RecordWithdrawn,
       FetchRecord, RepairShown, engineVars
  <1>4. ASSUME NEW t \in Threads, NEW r \in Auths, Call(t, r) PROVE UNCHANGED <<engine, created>>
    BY <1>4 DEF Call, Admit, ChooseGate, ReadRequest, ReadToWithdraw, engineVars
  <1>5. CASE SetControl \/ (\E c \in Outside : Others(c)) \/ UNCHANGED vars
    BY <1>5 DEF SetControl, Others, vars, engineVars
  <1>6. QED
    BY <1>1, <1>2, <1>3, <1>4, <1>5 DEF Next

\* What the steps keep of one request.
Lasting(r) ==
    /\ created'[r] <= 1
    /\ created[r] = 1 => created'[r] = 1
    /\ engine'[r] # "absent" => created'[r] = 1
    /\ engine'[r] = "absent" /\ ~Restart => engine[r] = "absent" /\ created'[r] = created[r]
    /\ created'[r] # created[r] => binding[r] # "none"
    /\ row[r] # "none" => row'[r] # "none"
    /\ row'[r] # "none" => created'[r] = 1
    /\ Over(r) => Over(r)'

LEMMA RequestLasts == ASSUME CreationInv, [Next]_vars, NEW r \in Auths PROVE Lasting(r)
  <1> USE DEF CreationInv
  <1>1. row[r] # "none" => row'[r] # "none"
    BY NoneLast
  <1>2. created[r] \in Nat /\ created[r] <= 1
    BY DEF ControlInv, LedgerTypes, RequestInv
  <1>3. row'[r] # "none" => created[r] = 1
    BY IssuedByApproval DEF RequestInv
  <1>4. CASE Restart
    <2>1. created' = created /\ engine'[r] = "absent"
      BY <1>4 DEF Restart
    <2>2. QED
      BY <1>1, <1>2, <1>3, <1>4, <2>1 DEF Lasting, Over
  <1>5. ASSUME NEW t \in Threads, CreateRequest(t) \/ CreateFails(t),
               created' # created \/ engine' # engine
        PROVE  Lasting(r)
    <2>1. /\ job[t].req \in Auths /\ Serving(t, "create")
          /\ binding[job[t].req] # "none"
          /\ engine[job[t].req] = "absent" => created[job[t].req] = 0
      BY <1>5, JobReq DEF CreateRequest, CreateFails, Serving, CallInv, CallKnows
    <2>2. \A a \in Auths : a # job[t].req => engine'[a] = engine[a] /\ created'[a] = created[a]
      BY <1>5, <2>1 DEF CreateRequest, CreateFails, ControlInv, LedgerTypes
    <2>3. engine'[job[t].req] # "absent" /\ created'[job[t].req] = 1
          /\ (engine[job[t].req] # "absent" => engine'[job[t].req] = engine[job[t].req])
      BY <1>2, <1>5, <2>1 DEF CreateRequest, CreateFails, ControlInv, LedgerTypes, RequestInv
    <2>4. CASE r = job[t].req
      BY <1>1, <1>3, <2>1, <2>3, <2>4 DEF Lasting, Over
    <2>5. CASE r # job[t].req
      BY <1>1, <1>2, <1>3, <2>2, <2>5 DEF Lasting, Over, RequestInv
    <2>6. QED
      BY <2>4, <2>5
  <1>6. CASE /\ ~Restart
             /\ (\E t \in Threads : CreateRequest(t) \/ CreateFails(t)) =>
                  created' = created /\ engine' = engine
    <2>1. /\ created' = created
          /\ engine'[r] = engine[r] \/
               /\ engine[r] # "absent" \/ row[r] # "none"
               /\ engine'[r] # "absent"
               /\ engine'[r] = "waiting_for_approval" => engine[r] = "waiting_for_approval"
      BY <1>6, EngineMoves
    <2>2. QED
      BY <1>1, <1>2, <1>3, <1>6, <2>1 DEF Lasting, Over, RequestInv
  <1>7. QED
    BY <1>4, <1>5, <1>6

\* A step of the store never unbinds a request, and makes none appear.
LEMMA StoreShows ==
  ASSUME StoreInv, NEW r \in Auths,
         \/ UNCHANGED request
         \/ \E a \in Auths : InsertIssued(a)
         \/ \E S \in SUBSET Auths, to \in RowStates : ProjectAll(S, to)
         \/ \E c \in Clients : WriteRequest(c)
  PROVE  /\ request'[r] # "absent" => request[r] # "absent" \/ row[r] # "none"
         /\ request'[r] = "unbound" => request[r] = "unbound"
  <1> USE StateNames, PublicStateTrue DEF StoreInv
  <1>1. ASSUME NEW a \in Auths, InsertIssued(a)
        PROVE  request'[r] = request[r] \/ (request'[r] = "authorized" /\ request[r] # "absent")
    BY <1>1 DEF InsertIssued
  <1>2. ASSUME NEW S \in SUBSET Auths, NEW to \in RowStates, ProjectAll(S, to)
        PROVE  request'[r] = request[r] \/ (request'[r] \in PublicStates /\ request[r] # "absent")
    BY <1>2 DEF ProjectAll
  <1>3. ASSUME NEW c \in Clients, WriteRequest(c)
        PROVE  request'[r] = request[r] \/ (request'[r] \in PublicStates /\ row[r] # "none")
    <2>1. pend[c] \in PendingWrites
      BY <1>3 DEF WriteRequest, NoWrite
    <2>2. pend[c].auth \in Auths /\ pend[c].state \in RowStates /\ pend[c] # NoWrite
      BY <1>3, <2>1 DEF PendingWrites, WriteRequest, NoWrite
    <2>3. PublicState(pend[c].state) \in PublicStates
      BY <2>2
    <2>4. row[pend[c].auth] # "none"
      BY <2>2, <2>3 DEF Reached, RowStates, PublicStates
    <2>5. QED
      BY <1>3, <2>2, <2>3, <2>4 DEF WriteRequest
  <1>4. QED
    BY <1>1, <1>2, <1>3

LedgerFacts(r) ==
    /\ binding'[r] = "none" => binding[r] = "none"
    /\ binding'[r] = "complete" => binding[r] = "complete" \/ request'[r] # "absent"
    /\ request'[r] # "absent" => request[r] # "absent" \/ created[r] = 1
    /\ r \in withdrawn' => r \in withdrawn \/ Over(r)
    /\ request'[r] = "unbound" /\ unboundState'[r] = "cancelled" =>
         (request[r] = "unbound" /\ unboundState[r] = "cancelled") \/ Over(r)

LEMMA StoreFacts ==
  ASSUME CreationInv, NEW r \in Auths, UNCHANGED <<ledgerVars, withdrawn>>,
         \/ UNCHANGED request
         \/ \E a \in Auths : InsertIssued(a)
         \/ \E S \in SUBSET Auths, to \in RowStates : ProjectAll(S, to)
         \/ \E c \in Clients : WriteRequest(c)
  PROVE  LedgerFacts(r)
  BY StoreShows DEF CreationInv, ControlInv, RequestInv, LedgerFacts, ledgerVars

LEMMA LedgerMoves == ASSUME CreationInv, [Next]_vars, NEW r \in Auths PROVE LedgerFacts(r)
  <1> USE ControlAssumption DEF CreationInv
  <1>1. ASSUME NEW t \in Threads, Serve(t) PROVE LedgerFacts(r)
    <2>1. CASE ReserveKey(t)
      <3>1. job[t].req \in Auths
        BY <2>1, JobReq DEF ReserveKey, Serving
      <3>2. QED
        BY <2>1, <3>1 DEF ReserveKey, LedgerFacts, ControlInv, LedgerTypes, history, storeVars
    <2>2. CASE InsertRequest(t) \/ RecordApproved(t) \/ RecordWithdrawn(t)
      <3>1. job[t].req \in Auths /\ job[t].write \in Snapshots
        BY <2>2, JobFields DEF InsertRequest, RecordApproved, RecordWithdrawn, Serving,
           ControlInv, JobsSound, Sound
      <3>2. /\ created[job[t].req] = 1
            /\ job[t].write = Unbound("cancelled") => Over(job[t].req)
        BY <2>2 DEF InsertRequest, RecordApproved, RecordWithdrawn, Serving, CallInv, CallKnows
      <3>3. /\ \/ withdrawn' = withdrawn
               \/ withdrawn' = withdrawn \union {job[t].req} /\ Over(job[t].req)
            /\ \/ UNCHANGED <<request, unboundState>> /\ binding' = binding
               \/ /\ WriteShown(job[t].req, job[t].write)
                  /\ \/ binding' = binding
                     \/ binding' = [binding EXCEPT ![job[t].req] = "complete"]
        BY <2>2 DEF InsertRequest, RecordApproved, RecordWithdrawn, Serving, CallInv, CallKnows, Answer,
           history, ledgerVars
      <3>4. CASE WriteShown(job[t].req, job[t].write)
        <4>1. job[t].write.bound \in BOOLEAN
              /\ (job[t].write.bound => job[t].write.state \in PublicStates \union {"denied"})
              /\ (~job[t].write.bound => job[t].write = Unbound(job[t].write.state))
          BY <3>1, SnapshotFields
        <4>2. \A a \in Auths : a # job[t].req =>
                request'[a] = request[a] /\ unboundState'[a] = unboundState[a]
          BY <3>1, <3>4 DEF WriteShown, ControlInv, StoreInv, LedgerTypes
        <4>3. /\ request'[job[t].req] =
                   IF job[t].write.bound THEN job[t].write.state ELSE "unbound"
              /\ ~job[t].write.bound => unboundState'[job[t].req] = job[t].write.state
          BY <3>1, <3>4, <4>1 DEF WriteShown, ControlInv, StoreInv, LedgerTypes
        <4>4. request'[job[t].req] # "absent"
          BY <4>1, <4>3, StateNames
        <4>5. request'[job[t].req] = "unbound" /\ unboundState'[job[t].req] = "cancelled" =>
                 Over(job[t].req)
          BY <3>2, <4>1, <4>3, StateNames
        <4>6. QED
          BY <3>1, <3>2, <3>3, <4>2, <4>4, <4>5 DEF LedgerFacts, ControlInv, LedgerTypes
      <3>5. CASE UNCHANGED <<request, unboundState>> /\ binding' = binding
        BY <3>1, <3>3, <3>5 DEF LedgerFacts
      <3>6. QED
        BY <3>3, <3>4, <3>5
    <2>3. CASE RepairShown(t)
      <3>1. job[t].req \in Auths /\ job[t].write \in Snapshots /\ job[t].seen \in Snapshots
            /\ job[t].write.bound
        BY <2>3, JobFields DEF RepairShown, Serving, ControlInv, JobsSound, Sound, CallInv,
           CallKnows
      <3>2. CASE Shown(job[t].req) = job[t].seen
        <4>1. request[job[t].req] # "absent"
          BY <3>1, <3>2, SnapshotFields DEF Shown, Unbound, UnboundStates
        <4>2. request'[job[t].req] # "unbound"
              /\ \A a \in Auths : a # job[t].req =>
                   request'[a] = request[a] /\ unboundState'[a] = unboundState[a]
          BY <2>3, <3>1, <3>2, SnapshotFields, StateNames
             DEF RepairShown, WriteShown, ControlInv, StoreInv, LedgerTypes
        <4>3. UNCHANGED <<binding, withdrawn>>
          BY <2>3 DEF RepairShown, history
        <4>4. ASSUME binding[r] = "complete" PROVE request'[r] # "absent"
          BY <2>3, <3>1, <3>2, <4>2, <4>4, SnapshotFields, StateNames
             DEF RepairShown, WriteShown, ControlInv, StoreInv, RequestInv
        <4>5. QED
          BY <4>1, <4>2, <4>3, <4>4 DEF LedgerFacts, RequestInv
      <3>3. CASE Shown(job[t].req) # job[t].seen
        BY <2>3, <3>3 DEF RepairShown, LedgerFacts, history
      <3>4. QED
        BY <3>2, <3>3
    <2>4. CASE IngestApproval(t)
      <3>1. UNCHANGED <<ledgerVars, withdrawn>>
            /\ (UNCHANGED request \/ InsertIssued(job[t].req)) /\ job[t].req \in Auths
        BY <2>4, JobReq DEF IngestApproval, PassGate, storeVars, Serving
      <3>2. QED
        BY <3>1, StoreFacts
    <2>5. CASE FinishCancel(t) \/ CancelBreaks(t) \/ CancelInStore(t) \/ RevokeInEngine(t)
      <3>1. UNCHANGED <<ledgerVars, withdrawn>>
            /\ (UNCHANGED request \/ WriteRequest(Coordinator)) /\ Coordinator \in Clients
        BY <2>5 DEF FinishCancel, CancelBreaks, CancelInStore, RevokeInEngine, Cancel,
           Transition, WriteSnapshot, AbandonWrite, history
      <3>2. QED
        BY <3>1, StoreFacts
    <2>6. CASE UNCHANGED <<request, ledgerVars, withdrawn>>
      BY <2>6, StoreFacts
    <2>7. QED
      BY <1>1, <2>1, <2>2, <2>3, <2>4, <2>5, <2>6 DEF Serve, CreateRequest, CreateFails,
         RejectApproval, StoreRefuses, CancelInEngine, EngineRefuses, FetchRecord, storeVars,
         history
  <1>2. ASSUME NEW t \in Threads, NEW a \in Auths, Call(t, a) PROVE LedgerFacts(r)
    <2>1. CASE UNCHANGED <<request, ledgerVars, withdrawn>>
      BY <2>1, StoreFacts
    <2>2. ASSUME NEW to, ReadToWithdraw(t, a, to), Shown(a).state = "cancelled",
                 withdrawn' = withdrawn \union {a}
          PROVE  LedgerFacts(r)
      <3>1. Over(a)
        <4>1. \/ request[a] = "unbound" /\ unboundState[a] = "cancelled"
              \/ request[a] = "cancelled"
          BY <2>2 DEF Shown, Bound, Unbound
        <4>2. request[a] = "cancelled" => row[a] = "cancelled"
          BY DEF ControlInv, StoreInv, Truthful, Reached, PublicStates
        <4>3. QED
          BY <4>1, <4>2 DEF RequestInv, Over
      <3>2. UNCHANGED <<request, ledgerVars>>
        BY <2>2 DEF ReadToWithdraw, storeVars
      <3>3. QED
        BY <2>2, <3>1, <3>2 DEF LedgerFacts, ledgerVars
    <2>3. QED
      BY <1>2, <2>1, <2>2 DEF Call, Admit, ChooseGate, ReadRequest, ReadToWithdraw, Answer,
         storeVars, history
  <1>3. ASSUME NEW c \in Outside, Others(c) PROVE LedgerFacts(r)
    <2>1. UNCHANGED <<ledgerVars, withdrawn>> /\ c \in Clients
      BY <1>3 DEF Others, history
    <2>2. CASE \E a \in Auths : OutsideStep(c, a)
      <3>1. \/ UNCHANGED request
            \/ \E S \in SUBSET Auths, to \in RowStates : ProjectAll(S, to)
        BY <2>2 DEF OutsideStep, Reserve, ExpireUnconsumed, Complete, MarkUnknown,
           RecoverInterrupted, Reconcile, Transition, RowStates
      <3>2. QED
        BY <2>1, <3>1, StoreFacts
    <2>3. CASE OutsideWrites(c)
      <3>1. \/ UNCHANGED request
            \/ \E S \in SUBSET Auths, to \in RowStates : ProjectAll(S, to)
            \/ WriteRequest(c)
        BY <2>3 DEF OutsideWrites, RevokeAllIssued, WriteSnapshot, AbandonWrite, RowStates
      <3>2. QED
        BY <2>1, <3>1, StoreFacts
    <2>4. QED
      BY <1>3, <2>2, <2>3 DEF Others
  <1>4. CASE SetControl \/ Restart \/ UNCHANGED vars
    BY <1>4, StoreFacts DEF SetControl, Restart, AbandonWrite, vars, storeVars, history,
       ledgerVars
  <1>5. QED
    BY <1>1, <1>2, <1>3, <1>4 DEF Next

LEMMA RequestStep == ASSUME CreationInv, [Next]_vars PROVE RequestInv'
  <1>1. ASSUME NEW r \in Auths
        PROVE  /\ created'[r] <= 1
               /\ binding'[r] = "none" => created'[r] = 0
               /\ binding'[r] = "complete" => request'[r] # "absent"
               /\ (engine'[r] # "absent" \/ row'[r] # "none" \/ request'[r] # "absent") =>
                    created'[r] = 1
               /\ r \in withdrawn' => Over(r)'
               /\ request'[r] = "unbound" /\ unboundState'[r] = "cancelled" => Over(r)'
    <2>1. Lasting(r) /\ LedgerFacts(r)
      BY RequestLasts, LedgerMoves
    <2>2. request[r] # "absent" => request'[r] # "absent"
      BY ControlStep DEF CreationInv, Kept, StoreStep
    <2>3. QED
      BY <2>1, <2>2 DEF Lasting, LedgerFacts, CreationInv, RequestInv
  <1>2. QED
    BY <1>1 DEF RequestInv

LEMMA CallLasts ==
  ASSUME CreationInv, [Next]_vars, NEW t \in Threads, job'[t] = job[t] PROVE CallKnows(t)'
  <1>1. CASE job[t].step = "idle"
    BY <1>1 DEF CallKnows, Serving
  <1>2. CASE job[t].step # "idle"
    <2>1. job[t].req \in Auths /\ ~Restart
      BY <1>2, JobReq DEF CreationInv, Restart, Idle
    <2>2. Lasting(job[t].req) /\ LedgerFacts(job[t].req)
      BY <2>1, RequestLasts, LedgerMoves
    <2>3. CallKnows(t)
      BY DEF CreationInv, CallInv
    <2>4. (Over(job[t].req))' <=> (row'[job[t].req] # "none" \/
             (engine'[job[t].req] # "waiting_for_approval" /\ created'[job[t].req] = 1))
      BY DEF Over
    <2>5. QED
      BY <2>1, <2>2, <2>3, <2>4 DEF CallKnows, Serving, Lasting, LedgerFacts, Over
  <1>3. QED
    BY <1>1, <1>2

\* A call that has just taken up something else.
LEMMA CallStarts ==
  ASSUME CreationInv, [Next]_vars, NEW t \in Threads, NEW r \in Auths, Call(t, r)
  PROVE  CallKnows(t)'
  <1> USE DEF CreationInv
  <1>1. CASE Admit(t, r) \/ (\E signed \in BOOLEAN : ChooseGate(t, r, signed)) \/ ReadRequest(t, r)
    <2>1. job'[t].step \in {"reserve", "approve", "fetch"}
      BY <1>1 DEF Admit, ChooseGate, ReadRequest, Proceed, ControlInv, JobsSound
    <2>2. QED
      BY <2>1 DEF CallKnows, Serving
  <1>2. ASSUME NEW to \in {"cancelled", "denied"}, ReadToWithdraw(t, r, to) PROVE CallKnows(t)'
    <2>1. CASE Answer(t, r)
      BY <2>1 DEF Answer, Return, Proceed, Idle, CallKnows, Serving, ControlInv, JobsSound
    <2>2. CASE Proceed(t, [step |-> "withdraw", req |-> r, to |-> to, seen |-> Shown(r)])
      <3>1. job'[t] = [step |-> "withdraw", req |-> r, to |-> to, seen |-> Shown(r)]
        BY <2>2 DEF Proceed, ControlInv, JobsSound
      <3>2. to = "denied" \/ Shown(r).state # "absent" => request[r] # "absent"
        BY <1>2 DEF ReadToWithdraw, Shown, Unbound
      <3>3. request[r] # "absent" => created'[r] = 1
        BY RequestLasts DEF RequestInv, Lasting
      <3>4. QED
        BY <3>1, <3>2, <3>3 DEF CallKnows, Serving
    <2>3. QED
      BY <1>2, <2>1, <2>2 DEF ReadToWithdraw
  <1>3. QED
    BY <1>1, <1>2 DEF Call

\* A call that withdraws goes on to answer with what is over.
LEMMA GiveUpKnows ==
  ASSUME CreationInv, [Next]_vars, NEW t \in Threads, GiveUp(t),
         NEW r \in Auths, r = job[t].req,
         job[t].to = "denied" \/ job[t].seen.state \in {"processing", "waiting_for_approval"} =>
           Over(r)'
  PROVE  CallKnows(t)'
  <1>1. CASE job'[t] = Idle
    BY <1>1 DEF CallKnows, Serving, Idle
  <1>2. CASE job'[t] # Idle
    <2>1. Over(r)' /\ created'[r] = 1
      BY <1>2, RequestLasts
         DEF GiveUp, Return, Proceed, CreationInv, ControlInv, JobsSound, Lasting, Over
    <2>2. job'[t].step = "answer" /\ job'[t].req = r
      BY <1>2 DEF GiveUp, Return, Proceed, CreationInv, ControlInv, JobsSound
    <2>3. QED
      BY <2>1, <2>2 DEF CallKnows, Serving, Over
  <1>3. QED
    BY <1>1, <1>2

LEMMA CallGoesOn ==
  ASSUME CreationInv, [Next]_vars, NEW t \in Threads, Serve(t) PROVE CallKnows(t)'
  <1> USE DEF CreationInv
  <1> DEFINE r_ == job[t].req
  <1>1. CASE job'[t].step \in {"idle", "storing", "revoking"}
    BY <1>1 DEF CallKnows, Serving
  <1>2. ASSUME NEW j, Proceed(t, j) PROVE job'[t] = j
    BY <1>2 DEF Proceed, ControlInv, JobsSound
  <1>3. ASSUME Return(t) PROVE job'[t].step = "idle"
    BY <1>2, <1>3 DEF Return, Idle
  <1>4. ASSUME job[t].step # "idle" PROVE r_ \in Auths /\ Lasting(r_)
    BY <1>4, JobReq, RequestLasts
  <1>5. CASE ReserveKey(t)
    <2>1. CASE binding[r_] = "none"
      <3>1. job'[t] = [step |-> "create", req |-> r_] /\ binding'[r_] = "reserved"
            /\ created'[r_] = 0
        BY <1>2, <1>4, <1>5, <2>1
           DEF ReserveKey, Serving, RequestInv, ControlInv, LedgerTypes, engineVars
      <3>2. QED
        BY <3>1 DEF CallKnows, Serving
    <2>2. QED
      BY <1>1, <1>3, <1>5, <2>1 DEF ReserveKey
  <1>6. CASE CreateRequest(t)
    <2>1. r_ \in Auths /\ Lasting(r_) /\ engine'[r_] # "absent"
      BY <1>4, <1>6 DEF CreateRequest, Serving, ControlInv, LedgerTypes
    <2>2. /\ job'[t].step = "insert" /\ job'[t].req = r_
          /\ job'[t].write = Unbound("cancelled") => engine'[r_] = "cancelled"
      BY <1>2, <1>6 DEF CreateRequest, Bound, Unbound
    <2>3. QED
      BY <2>1, <2>2 DEF CallKnows, Serving, Lasting, Over
  <1>7. CASE IngestApproval(t)
    <2>1. r_ \in Auths /\ Lasting(r_) /\ created'[r_] = 1
      BY <1>4, <1>7 DEF IngestApproval, Fresh, Serving, Lasting, RequestInv
    <2>2. \/ job'[t] = Idle
          \/ /\ job'[t].step = "record" /\ job'[t].req = r_
             /\ job'[t].write # Unbound("cancelled")
      <3>1. PICK s \in Snapshots :
              /\ PassGate(r_, s)
              /\ Return(t) \/ Proceed(t, [step |-> "record", req |-> r_, write |-> s])
        BY <1>7 DEF IngestApproval
      <3>2. s # Unbound("cancelled")
        BY <3>1 DEF PassGate, Bound, Unbound
      <3>3. QED
        BY <1>2, <3>1, <3>2 DEF Return
    <2>3. QED
      BY <2>1, <2>2 DEF CallKnows, Serving, Idle
  <1>8. CASE CancelInEngine(t)
    <2>1. r_ \in Auths /\ Lasting(r_) /\ engine'[r_] = "cancelled"
      BY <1>4, <1>8 DEF CancelInEngine, Withdrawing, Serving, ControlInv, LedgerTypes
    <2>2. PICK r \in Auths : r = r_
      BY <2>1
    <2>3. Over(r)' /\ created'[r] = 1
      BY <2>1, <2>2 DEF Lasting, Over
    <2>4. CASE GiveUp(t)
      BY <2>2, <2>3, <2>4, GiveUpKnows
    <2>5. CASE ~GiveUp(t)
      <3>1. job'[t].step = "answer" /\ job'[t].req = r
        BY <1>2, <1>8, <2>2, <2>5 DEF CancelInEngine
      <3>2. QED
        BY <2>3, <3>1 DEF CallKnows, Serving, Over
    <2>6. QED
      BY <2>4, <2>5
  <1>9. CASE FinishCancel(t)
    <2>1. r_ \in Auths /\ Lasting(r_) /\ row[r_] = "cancelled"
      BY <1>4, <1>9 DEF FinishCancel, ControlInv, JobsSound, Sound
    <2>2. job'[t] = job[t] \/ (job'[t].step = "answer" /\ job'[t].req = r_)
      BY <1>2, <1>9 DEF FinishCancel
    <2>3. CASE job'[t].step = "answer" /\ job'[t].req = r_
      BY <2>1, <2>3 DEF CallKnows, Serving, Lasting, Over
    <2>4. QED
      BY <2>2, <2>3, CallLasts
  <1>10. CASE EngineRefuses(t)
    <2>1. /\ Serving(t, "withdraw") /\ r_ \in Auths /\ GiveUp(t)
          /\ engine[r_] # "waiting_for_approval"
      BY <1>4, <1>10 DEF EngineRefuses, Cancellable, Withdrawing, Serving
    <2>2. job[t].to = "denied" \/ job[t].seen.state \in {"processing", "waiting_for_approval"} =>
            Over(r_)
      BY <2>1 DEF CallInv, CallKnows, Over
    <2>3. PICK r \in Auths : r = r_
      BY <2>1
    <2>4. Over(r) => Over(r)'
      BY RequestLasts DEF Lasting
    <2>5. QED
      BY <2>1, <2>2, <2>3, <2>4, GiveUpKnows
  <1>11. CASE CancelBreaks(t)
    <2>1. r_ \in Auths /\ row[r_] = "cancelled"
      BY <1>4, <1>11 DEF CancelBreaks, ControlInv, JobsSound, Sound
    <2>2. PICK r \in Auths : r = r_
      BY <2>1
    <2>3. Over(r)'
      BY <2>1, <2>2, RequestLasts DEF Lasting, Over
    <2>4. QED
      BY <1>1, <1>3, <1>11, <2>2, <2>3, GiveUpKnows DEF CancelBreaks
  <1>12. CASE FetchRecord(t)
    <2>1. CASE Return(t)
      BY <1>1, <1>3, <2>1
    <2>2. CASE ~Return(t)
      <3>1. job'[t].step = "repair" /\ job'[t].write = Repaired(r_, job[t].seen)
        BY <1>2, <1>12, <2>2 DEF FetchRecord
      <3>2. Repaired(r_, job[t].seen).bound
        BY DEF Repaired, Bound
      <3>3. QED
        BY <3>1, <3>2 DEF CallKnows, Serving
    <2>3. QED
      BY <2>1, <2>2
  <1>13. CASE CancelInStore(t) \/ RevokeInEngine(t)
    <2>1. job'[t].step \in {"storing", "revoking"}
      BY <1>2, <1>13, JobFields
         DEF CancelInStore, RevokeInEngine, Withdrawing, Serving, ControlInv, JobsSound, Sound, Jobs, Idle
    <2>2. QED
      BY <1>1, <2>1
  <1>14. CASE Return(t)
    BY <1>1, <1>3, <1>14
  <1>15. QED
    BY <1>5, <1>6, <1>7, <1>8, <1>9, <1>10, <1>11, <1>12, <1>13, <1>14
       DEF Serve, CreateFails, InsertRequest, RejectApproval, RecordApproved, StoreRefuses,
       RecordWithdrawn, Answer, RepairShown

LEMMA CallStepKnows == ASSUME CreationInv, [Next]_vars PROVE CallInv'
  <1>1. ASSUME NEW t \in Threads PROVE CallKnows(t)'
    <2>1. CASE job'[t] = job[t]
      BY <2>1, CallLasts
    <2>2. CASE Restart
      BY <2>2 DEF Restart, Idle, CallKnows, Serving
    <2>3. CASE job'[t] # job[t] /\ ~Restart
      BY <2>3, OwnStep, CallStarts, CallGoesOn DEF CreationInv
    <2>4. QED
      BY <2>1, <2>2, <2>3
  <1>2. QED
    BY <1>1 DEF CallInv

LEMMA CreationInvariant == Spec => []CreationInv
  <1>1. Init => RequestInv /\ CallInv
    BY ControlAssumption DEF Init, StoreInit, RequestInv, CallInv, CallKnows, Serving, Idle
  <1>2. CreationInv /\ [Next]_vars => RequestInv' /\ CallInv'
    BY RequestStep, CallStepKnows
  <1>3. QED
    BY <1>1, <1>2, ControlInvariant, PTL DEF Spec, CreationInv

\* However often a key is sent, the engine creates its request once.
THEOREM OneCreationHolds == Spec => []OneCreation
  <1>1. CreationInv => OneCreation
    BY DEF CreationInv, RequestInv, OneCreation
  <1>2. QED
    BY <1>1, CreationInvariant, PTL

\* A complete binding names a request the ledger has.
THEOREM BindingHasRequestHolds == Spec => []BindingHasRequest
  <1>1. CreationInv => BindingHasRequest
    BY DEF CreationInv, RequestInv, BindingHasRequest
  <1>2. QED
    BY <1>1, CreationInvariant, PTL

\* What was withdrawn before it was authorized is never authorized.
THEOREM WithdrawnNeverIssuedHolds == Spec => WithdrawnNeverIssued
  <1>1. ASSUME CreationInv, [Next]_vars, NEW r \in withdrawn, row[r] = "none"
        PROVE  row'[r] = "none"
    <2>1. r \in Auths /\ engine[r] # "waiting_for_approval"
      BY <1>1 DEF CreationInv, ControlInv, LedgerTypes, RequestInv, Over
    <2>2. QED
      BY <1>1, <2>1, IssuedByApproval DEF CreationInv
  <1>2. CreationInv /\ [Next]_vars =>
          [\A r \in withdrawn : row[r] = "none" => row'[r] = "none"]_vars
    BY <1>1
  <1>3. QED
    BY <1>2, CreationInvariant, PTL DEF Spec, WithdrawnNeverIssued

\* While the controls refuse a request and no call let in before is under way,
\* no call is let in and the engine does not create it.
THEOREM PauseHoldsHolds == Spec => PauseHolds
  <1>1. ASSUME ControlInv, [Next]_vars, NEW r \in Auths, Stopped(r), r \in held'
        PROVE  Stopped(r)' /\ created'[r] = created[r]
    <2>1. ASSUME NEW t \in Threads, job'[t].step \in {"reserve", "create"}, job'[t].req = r,
                 job'[t] # job[t]
          PROVE  FALSE
      <3>1. ASSUME NEW a \in Auths, Call(t, a) PROVE FALSE
        BY <1>1, <2>1, <3>1 DEF Call, Admit, ChooseGate, ReadRequest, ReadToWithdraw, Answer,
           Return, Proceed, Idle, ControlInv, JobsSound, Stopped
      <3>2. ASSUME ReserveKey(t) PROVE FALSE
        BY <1>1, <2>1, <3>2 DEF ReserveKey, Return, Proceed, Idle, ControlInv, JobsSound,
           Stopped, Serving
      <3>3. CASE Serve(t)
        <4>1. CASE CreateRequest(t) \/ CreateFails(t) \/ InsertRequest(t) \/ RejectApproval(t)
                   \/ RecordApproved(t) \/ RecordWithdrawn(t) \/ IngestApproval(t)
          BY <1>1, <2>1, <4>1 DEF CreateRequest, CreateFails, InsertRequest, RejectApproval,
             RecordApproved, RecordWithdrawn, IngestApproval, Answer, Return, Proceed, Idle,
             ControlInv, JobsSound
        <4>2. CASE CancelInStore(t) \/ RevokeInEngine(t)
          <5>1. job'[t].step \in {"storing", "revoking"}
            BY <1>1, <4>2, JobFields
               DEF CancelInStore, RevokeInEngine, Withdrawing, Serving, Proceed, ControlInv,
               JobsSound, Sound, Jobs, Idle
          <5>2. QED
            BY <2>1, <5>1
        <4>3. CASE StoreRefuses(t) \/ CancelInEngine(t) \/ FinishCancel(t) \/ EngineRefuses(t)
                   \/ CancelBreaks(t) \/ FetchRecord(t) \/ RepairShown(t)
          BY <1>1, <2>1, <4>3 DEF StoreRefuses, CancelInEngine, FinishCancel, EngineRefuses,
             CancelBreaks, FetchRecord, RepairShown, GiveUp, Return, Proceed, Idle, ControlInv,
             JobsSound
        <4>4. QED
          BY <3>2, <3>3, <4>1, <4>2, <4>3 DEF Serve
      <3>4. CASE Restart
        BY <2>1, <3>4 DEF Restart, Idle
      <3>5. QED
        BY <1>1, <2>1, <3>1, <3>3, <3>4, OwnStep
    <2>2. Stopped(r)'
      BY <1>1, <2>1 DEF Stopped
    <2>3. created'[r] = created[r]
      <3>1. CASE Restart
        BY <3>1 DEF Restart
      <3>2. ASSUME NEW t \in Threads, CreateRequest(t) \/ CreateFails(t)
            PROVE  created'[r] = created[r]
        BY <1>1, <3>2 DEF CreateRequest, CreateFails, Serving, Stopped, ControlInv, LedgerTypes
      <3>3. QED
        BY <1>1, <3>1, <3>2, EngineMoves
    <2>4. QED
      BY <2>2, <2>3
  <1>2. ControlInv /\ [Next]_vars =>
          [\A r \in Auths : Stopped(r) /\ r \in held' =>
              Stopped(r)' /\ created'[r] = created[r]]_vars
    BY <1>1
  <1>3. QED
    BY <1>2, ControlInvariant, PTL DEF Spec, PauseHolds

=============================================================================
