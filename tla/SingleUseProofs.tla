--------------------------- MODULE SingleUseProofs ---------------------------
(***************************************************************************)
(* What the promise of SingleUse comes to, for any set of authorizations.  *)
(* Whatever is shown to implement it has these consequences: the store     *)
(* with its brokers and the node with its replay store.                    *)
(***************************************************************************)
EXTENDS SingleUse, TLAPS

TypeOK ==
    /\ record \in [Auths -> Records]
    /\ acts \in [Auths -> Nat]
    /\ affected \in [Auths -> BOOLEAN]

\* The target is called for what was taken, once, and affected by calls only.
ActsInv ==
    \A a \in Auths :
        /\ acts[a] \in {0, 1}
        /\ acts[a] = 1 => record[a] \in {"taken", "doubt", "used", "unused"}
        /\ affected[a] => acts[a] = 1

\* A settled record says what happened.
RecordInv ==
    \A a \in Auths :
        /\ record[a] = "used" => affected[a]
        /\ record[a] = "unused" => ~affected[a]

IInv == TypeOK /\ ActsInv /\ RecordInv

LEMMA InitInvariant == Init => IInv
  BY DEF Init, IInv, TypeOK, Records, ActsInv, RecordInv

\* A record moves to a state in which it may be, given what has happened.
LEMMA MoveKeeps ==
  ASSUME IInv, NEW a \in Auths, NEW from, NEW to \in Records, Move(a, from, to),
         acts[a] = 1 => to \in {"taken", "doubt", "used", "unused"},
         to = "used" => affected[a],
         to = "unused" => ~affected[a]
  PROVE  IInv'
  <1>1. /\ record' = [record EXCEPT ![a] = to]
        /\ UNCHANGED <<acts, affected>>
    BY DEF Move
  <1>2. TypeOK'
    BY <1>1 DEF IInv, TypeOK
  <1>3. \A b \in Auths : record'[b] = IF b = a THEN to ELSE record[b]
    BY <1>1 DEF IInv, TypeOK
  <1>4. ActsInv'
    BY <1>1, <1>3 DEF IInv, ActsInv
  <1>5. RecordInv'
    BY <1>1, <1>3 DEF IInv, RecordInv
  <1>6. QED
    BY <1>2, <1>4, <1>5 DEF IInv

LEMMA WithdrawKeeps ==
  ASSUME IInv, NEW S \in SUBSET Auths, Withdraw(S)
  PROVE  IInv'
  <1>1. /\ \A a \in S : record[a] = "available"
        /\ \A a \in Auths : record'[a] = IF a \in S THEN "withdrawn" ELSE record[a]
        /\ UNCHANGED <<acts, affected>>
    BY DEF Withdraw
  <1>2. TypeOK'
    BY <1>1 DEF Withdraw, IInv, TypeOK, Records
  <1>3. ActsInv'
    BY <1>1 DEF IInv, ActsInv
  <1>4. RecordInv'
    BY <1>1 DEF IInv, RecordInv
  <1>5. QED
    BY <1>2, <1>3, <1>4 DEF IInv

LEMMA ActKeeps ==
  ASSUME IInv, NEW a \in Auths, Act(a)
  PROVE  IInv'
  <1>1. PICK e \in BOOLEAN :
          /\ record[a] = "taken" /\ record' = record
          /\ acts' = [acts EXCEPT ![a] = 1]
          /\ affected' = [affected EXCEPT ![a] = e]
    BY DEF Act
  <1>2. TypeOK'
    BY <1>1 DEF IInv, TypeOK
  <1>3. /\ \A b \in Auths : acts'[b] = IF b = a THEN 1 ELSE acts[b]
        /\ \A b \in Auths : b # a => affected'[b] = affected[b]
    BY <1>1 DEF IInv, TypeOK
  <1>4. ActsInv'
    BY <1>1, <1>3 DEF IInv, ActsInv
  <1>5. RecordInv'
    BY <1>1, <1>3 DEF IInv, RecordInv
  <1>6. QED
    BY <1>2, <1>4, <1>5 DEF IInv

LEMMA NextInvariant ==
  ASSUME IInv, [Next]_vars
  PROVE  IInv'
  <1>1. \A a \in Auths : /\ acts[a] = 1 => record[a] \in {"taken", "doubt", "used", "unused"}
                         /\ affected[a] => acts[a] = 1
    BY DEF IInv, ActsInv
  <1>2. ASSUME NEW a \in Auths, Issue(a) \/ Take(a) \/ Doubt(a) PROVE IInv'
    <2>1. CASE Issue(a)
      BY <1>1, <2>1, MoveKeeps DEF Issue, Move, Records
    <2>2. CASE Take(a)
      BY <2>2, MoveKeeps DEF Take, Records
    <2>3. CASE Doubt(a)
      BY <2>3, MoveKeeps DEF Doubt, Records
    <2>4. QED
      BY <1>2, <2>1, <2>2, <2>3
  <1>3. ASSUME NEW a \in Auths, SettleUnused(a) \/ SettleUsed(a) PROVE IInv'
    <2>1. CASE SettleUnused(a)
      BY <1>1, <2>1, MoveKeeps DEF SettleUnused, Records
    <2>2. CASE SettleUsed(a)
      BY <2>2, MoveKeeps DEF SettleUsed, Records
    <2>3. QED
      BY <1>3, <2>1, <2>2
  <1>4. ASSUME NEW a \in Auths, Resolve(a) PROVE IInv'
    <2>1. CASE affected[a]
      BY <1>4, <2>1, MoveKeeps DEF Resolve, Records
    <2>2. CASE ~affected[a]
      BY <1>4, <2>2, MoveKeeps DEF Resolve, Records
    <2>3. QED
      BY <2>1, <2>2
  <1>5. CASE UNCHANGED vars
    BY <1>5 DEF vars, IInv, TypeOK, ActsInv, RecordInv
  <1>6. QED
    BY <1>2, <1>3, <1>4, <1>5, WithdrawKeeps, ActKeeps DEF Next

-----------------------------------------------------------------------------
\* Whoever implements SingleUse acts at most once for an authorization, never
\* for one that was withdrawn, and leaves a settled record that tells whether
\* the target was affected (the promise of AuthorizationStore.begin_consumption
\* and reconcile, and of SQLiteReplayStore.consume).
PromiseKept ==
    \A a \in Auths :
        /\ acts[a] <= 1
        /\ record[a] \in {"none", "available", "withdrawn"} => acts[a] = 0
        /\ record[a] = "used" => affected[a]
        /\ record[a] = "unused" => ~affected[a]

THEOREM PromiseKeptHolds == Spec => []PromiseKept
  <1>1. IInv => PromiseKept
    <2> SUFFICES ASSUME IInv, NEW a \in Auths
                 PROVE  /\ acts[a] <= 1
                        /\ record[a] \in {"none", "available", "withdrawn"} => acts[a] = 0
                        /\ record[a] = "used" => affected[a]
                        /\ record[a] = "unused" => ~affected[a]
      BY DEF PromiseKept
    <2>1. acts[a] \in {0, 1}
      BY DEF IInv, ActsInv
    <2>2. acts[a] = 1 => record[a] \in {"taken", "doubt", "used", "unused"}
      BY DEF IInv, ActsInv
    <2>3. (record[a] = "used" => affected[a]) /\ (record[a] = "unused" => ~affected[a])
      BY DEF IInv, RecordInv
    <2>4. QED
      BY <2>1, <2>2, <2>3
  <1>2. IInv /\ [Next]_vars => IInv'
    BY NextInvariant
  <1>3. QED
    BY InitInvariant, <1>1, <1>2, PTL DEF Spec

\* Once withdrawn or settled an authorization stays as it is: nobody acts on it
\* any more and its record does not change.
Over(a) == record[a] \in {"withdrawn", "used", "unused"}
OverIsFinal ==
    [][\A a \in Auths : Over(a) =>
          record'[a] = record[a] /\ acts'[a] = acts[a] /\ affected'[a] = affected[a]]_vars

LEMMA OverStays ==
  ASSUME TypeOK, Next, NEW a \in Auths, Over(a)
  PROVE  record'[a] = record[a] /\ acts'[a] = acts[a] /\ affected'[a] = affected[a]
  <1> USE DEF TypeOK, Over
  <1>1. ASSUME NEW S \in SUBSET Auths, Withdraw(S)
        PROVE  record'[a] = record[a] /\ UNCHANGED <<acts, affected>>
    BY <1>1 DEF Withdraw
  <1>2. ASSUME NEW b \in Auths, Act(b)
        PROVE  record' = record /\ acts'[a] = acts[a] /\ affected'[a] = affected[a]
    <2>1. a # b
      BY <1>2 DEF Act
    <2>2. QED
      BY <1>2, <2>1 DEF Act
  <1>3. ASSUME NEW b \in Auths, NEW from \in {"none", "available", "taken", "doubt"}, NEW to,
               Move(b, from, to)
        PROVE  record'[a] = record[a] /\ UNCHANGED <<acts, affected>>
    BY <1>3 DEF Move
  <1>4. ASSUME NEW b \in Auths,
               \/ Issue(b) \/ Take(b) \/ SettleUnused(b) \/ SettleUsed(b) \/ Doubt(b) \/ Resolve(b)
        PROVE  record'[a] = record[a] /\ UNCHANGED <<acts, affected>>
    BY <1>3, <1>4 DEF Issue, Take, SettleUnused, SettleUsed, Doubt, Resolve
  <1>5. QED
    BY <1>1, <1>2, <1>4 DEF Next

THEOREM OverIsFinalHolds == Spec => OverIsFinal
  <1>1. IInv => TypeOK
    BY DEF IInv
  <1>2. IInv /\ [Next]_vars => IInv'
    BY NextInvariant
  <1>3. TypeOK /\ [Next]_vars =>
          [\A a \in Auths : Over(a) =>
             record'[a] = record[a] /\ acts'[a] = acts[a] /\ affected'[a] = affected[a]]_vars
    BY OverStays
  <1>4. QED
    BY InitInvariant, <1>1, <1>2, <1>3, PTL DEF Spec, OverIsFinal
=============================================================================
