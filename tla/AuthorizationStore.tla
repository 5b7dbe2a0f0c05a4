------------------------- MODULE AuthorizationStore -------------------------
(***************************************************************************)
(* The durable authorization store of authorization.py                     *)
(* (SQLiteAuthorizationStore) as a state and the operations on it.  The    *)
(* store has one table row per authorization.  Its lifecycle is copied     *)
(* ("projected") into two JSON snapshots: the one retained in the          *)
(* authorization's own row and the one in the ledger's requests table.     *)
(*                                                                         *)
(* Every process opens its own SQLite connection with isolation_level=None *)
(* and serialises its own threads with a lock, so a client is one          *)
(* connection.  record_issued, revoke_all_issued and begin_consumption     *)
(* open BEGIN IMMEDIATE and are one step each.  cancel, complete,          *)
(* recover_interrupted, mark_unknown and reconcile only enter              *)
(* `with self.lock, self.db`, which opens no transaction on such a         *)
(* connection: their guarded UPDATE, the UPDATE of the retained snapshot   *)
(* and the UPDATE of the requests row commit one after the other.          *)
(***************************************************************************)
EXTENDS Naturals

CONSTANTS
    Auths,      \* authorization ids; each belongs to one request
    Tracked,    \* those whose request has a row in the ledger's table
    Clients,    \* processes holding a connection to the store
    ExpiresAt   \* expires_at claim of every authorization

ASSUME StoreAssumption ==
    /\ Auths # {}
    /\ Tracked \subseteq Auths
    /\ ExpiresAt \in [Auths -> Nat]

VARIABLES
    row,        \* authorizations.state, "none" before record_issued
    snapshot,   \* state in authorizations.request_snapshot_json
    request,    \* state in requests.snapshot_json
    pend        \* the projection a client still has to write

storeVars == <<row, snapshot, request, pend>>

RowStates == {"issued", "executing", "executed", "failed", "simulated",
              "unknown", "cancelled", "expired"}

PublicStates == {"authorized", "consuming", "outcome_unknown", "executed",
                 "failed", "simulated", "cancelled", "expired"}

\* Mutant of PublicState: the store's own names are shown.
PublicStateUnmapped(s) == IF s = "issued" THEN "authorized" ELSE s

\* The state a requester sees for an authorization's state.
PublicState(s) ==
    CASE s = "issued"    -> "authorized"
      [] s = "executing" -> "consuming"
      [] s = "unknown"   -> "outcome_unknown"
      [] OTHER           -> s

NoWrite == [step |-> "none"]
PendingWrites == [step : {"snapshot", "request"}, auth : Auths, state : RowStates]

\* What the ledger's row may hold; "unbound" is a snapshot that names no
\* authorization, and "denied" is written by the controller only.
RequestStates == PublicStates \union {"unbound", "denied"}

StoreTypeOK ==
    /\ row \in [Auths -> RowStates \union {"none"}]
    /\ snapshot \in [Auths -> PublicStates \union {"none"}]
    /\ request \in [Auths -> RequestStates \union {"absent"}]
    /\ pend \in [Clients -> PendingWrites \union {NoWrite}]

\* A tracked request waits for approval ("unbound": its snapshot names no
\* authorization) until record_issued binds it.
StoreInit ==
    /\ row = [a \in Auths |-> "none"]
    /\ snapshot = [a \in Auths |-> "none"]
    /\ request = [a \in Auths |-> IF a \in Tracked THEN "unbound" ELSE "absent"]
    /\ pend = [c \in Clients |-> NoWrite]

\* A connection runs one operation at a time.
Free(c) == pend[c] = NoWrite

-----------------------------------------------------------------------------
(* Projection inside a transaction, for every authorization of a set.      *)

\* _project_request_locked returns early when the snapshot it finds does not
\* name this authorization.
Projectable(a) == request[a] # "unbound" /\ (request[a] # "absent" \/ snapshot[a] # "none")

ProjectAll(S, s) ==
    /\ snapshot' = [a \in Auths |-> IF a \in S /\ Projectable(a)
                                    THEN PublicState(s) ELSE snapshot[a]]
    /\ request' = [a \in Auths |-> IF a \in S /\ Projectable(a) /\ request[a] # "absent"
                                   THEN PublicState(s) ELSE request[a]]

-----------------------------------------------------------------------------
(* One-transaction operations.                                             *)

\* record_issued of a new token: the row, its snapshot and the requests row.
InsertIssued(a) ==
    /\ row[a] = "none"
    /\ row' = [row EXCEPT ![a] = "issued"]
    /\ snapshot' = [snapshot EXCEPT ![a] = "authorized"]
    /\ request' = [request EXCEPT ![a] = IF @ = "absent" THEN @ ELSE "authorized"]
    /\ UNCHANGED pend

\* record_issued of the same token again: the state is kept and projected.
ReplayIssued(a) ==
    /\ row[a] # "none"
    /\ ProjectAll({a}, row[a])
    /\ UNCHANGED <<row, pend>>

RecordIssued(c, a) == Free(c) /\ (InsertIssued(a) \/ ReplayIssued(a))

\* Mutant of RevokeAllIssued: running attempts are revoked as well.
RevokeAllUnfinished(c) ==
    LET revoked == {a \in Auths : row[a] \in {"issued", "executing"}} IN
    /\ Free(c)
    /\ row' = [a \in Auths |-> IF a \in revoked THEN "cancelled" ELSE row[a]]
    /\ ProjectAll(revoked, "cancelled")
    /\ UNCHANGED pend

RevokeAllIssued(c) ==
    LET revoked == {a \in Auths : row[a] = "issued"} IN
    /\ Free(c)
    /\ row' = [a \in Auths |-> IF a \in revoked THEN "cancelled" ELSE row[a]]
    /\ ProjectAll(revoked, "cancelled")
    /\ UNCHANGED pend

\* Mutant of Reserve: an unknown outcome is retried.
ReserveUnknown(a, now) ==
    /\ row[a] \in {"issued", "unknown"}
    /\ now < ExpiresAt[a]
    /\ row' = [row EXCEPT ![a] = "executing"]
    /\ ProjectAll({a}, "executing")
    /\ UNCHANGED pend

\* The two outcomes of begin_consumption that write: the authorization is
\* reserved for its one attempt, or found expired at the time `now`.
Reserve(a, now) ==
    /\ row[a] = "issued"
    /\ now < ExpiresAt[a]
    /\ row' = [row EXCEPT ![a] = "executing"]
    /\ ProjectAll({a}, "executing")
    /\ UNCHANGED pend

ExpireUnconsumed(a, now) ==
    /\ row[a] = "issued"
    /\ now >= ExpiresAt[a]
    /\ row' = [row EXCEPT ![a] = "expired"]
    /\ ProjectAll({a}, "expired")
    /\ UNCHANGED pend

-----------------------------------------------------------------------------
(* Autocommit operations: the guarded UPDATE, then two projection writes.  *)

Transition(c, a, from, to) ==
    /\ Free(c)
    /\ row[a] = from
    /\ row' = [row EXCEPT ![a] = to]
    /\ pend' = [pend EXCEPT ![c] = [step |-> "snapshot", auth |-> a, state |-> to]]
    /\ UNCHANGED <<snapshot, request>>

\* Mutant of RecoverInterrupted: the abandoned attempt is offered again.
RecoverToIssued(c, a) == Transition(c, a, "executing", "issued")

\* Mutant of Cancel: the UPDATE is not guarded by state='issued'.
CancelUnguarded(c, a) == Transition(c, a, row[a], "cancelled") /\ row[a] # "none"

Complete(c, a, outcome) == Transition(c, a, "executing", outcome)
MarkUnknown(c, a) == Transition(c, a, "executing", "unknown")
RecoverInterrupted(c, a) == Transition(c, a, "executing", "unknown")
Reconcile(c, a, outcome) == Transition(c, a, "unknown", outcome)

\* cancel also accepts a row that is already cancelled and projects it again.
Cancel(c, a) ==
    \/ Transition(c, a, "issued", "cancelled")
    \/ Transition(c, a, "cancelled", "cancelled")

\* The UPDATE of the retained snapshot, with the reads that precede it.
WriteSnapshot(c) ==
    LET w == pend[c] IN
    /\ w.step = "snapshot"
    /\ IF Projectable(w.auth)
         THEN snapshot' = [snapshot EXCEPT ![w.auth] = PublicState(w.state)]
         ELSE UNCHANGED snapshot
    /\ pend' = [pend EXCEPT ![c] =
                  IF Projectable(w.auth) /\ request[w.auth] # "absent"
                    THEN [w EXCEPT !.step = "request"] ELSE NoWrite]
    /\ UNCHANGED <<row, request>>

\* The UPDATE of the requests row, whatever it holds by then.
WriteRequest(c) ==
    LET w == pend[c] IN
    /\ w.step = "request"
    /\ request' = [request EXCEPT ![w.auth] = PublicState(w.state)]
    /\ pend' = [pend EXCEPT ![c] = NoWrite]
    /\ UNCHANGED <<row, snapshot>>

\* A statement fails (busy, disk full) or the process dies between commits.
AbandonWrite(c) ==
    /\ pend' = [pend EXCEPT ![c] = NoWrite]
    /\ UNCHANGED <<row, snapshot, request>>
=============================================================================
