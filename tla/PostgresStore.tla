--------------------------- MODULE PostgresStore ----------------------------
(***************************************************************************)
(* The replicated store: internal/postgresstore keeps one exact document   *)
(* row with a revision and a receipt for every changed commit, and         *)
(* internal/control/postgres_store.go (with its twins in identity and      *)
(* runtimetelemetry) adapts it to the StateStore interface.  Any number of *)
(* mesh-server replicas share the row.                                     *)
(*                                                                         *)
(* PostgreSQL and the network are external: a row lock, an atomic commit   *)
(* of the document with its receipt, a synchronous promotion that keeps    *)
(* every commit made and aborts every transaction still open, and a Commit *)
(* whose answer can be lost while the commit itself is still on its way.   *)
(* A document is the set of the updates it contains, as in StateStore.     *)
(***************************************************************************)
EXTENDS Naturals

CONSTANTS
    Replicas,        \* mesh-server processes
    Updates, Views,  \* the requests made of the store (no request is both)
    None             \* no replica, no request

Requests == Updates \cup Views

Documents == SUBSET Requests

VARIABLES
    row,        \* the committed row: document, revision and last receipt
    receipts,   \* committed revision of each committed receipt, 0 for none
    rowLock,    \* the transaction holding the row FOR UPDATE
    server,     \* state of each request's transaction in the database
    client,     \* what the replica is doing for each request
    base,       \* the row each update read under the lock
    gate,       \* per replica: Store.uncertain is set
    at,         \* the replica that serves each request
    call        \* as in StateStore

vars == <<row, receipts, rowLock, server, client, base, gate, at, call>>

database == <<row, receipts, rowLock, server>>

Rows == [doc : Documents, revision : Nat, last : Requests \cup {None}]

EmptyRow == [doc |-> {}, revision |-> 1, last |-> None]

TypeOK ==
    /\ row \in Rows
    /\ receipts \in [Updates -> Nat]
    /\ rowLock \in Updates \cup {None}
    /\ server \in [Updates -> {"none", "open", "committing", "committed",
                               "aborted"}]
    /\ client \in [Requests -> {"none", "checked", "locked", "written",
                                "committing", "resolving"}]
    /\ base \in [Updates -> Rows]
    /\ gate \in [Replicas -> BOOLEAN]
    /\ at \in [Requests -> Replicas \cup {None}]
    /\ call \in [Requests ->
                   [phase : {"idle", "running", "holding", "done", "read",
                             "refused", "uncertain"},
                    saw : Documents]]

(* The documents have been imported or initialised by mesh-storage: one    *)
(* row at revision 1.                                                      *)
Init ==
    /\ row = EmptyRow
    /\ receipts = [u \in Updates |-> 0]
    /\ rowLock = None
    /\ server = [u \in Updates |-> "none"]
    /\ client = [r \in Requests |-> "none"]
    /\ base = [u \in Updates |-> EmptyRow]
    /\ gate = [p \in Replicas |-> FALSE]
    /\ at = [r \in Requests |-> None]
    /\ call = [r \in Requests |-> [phase |-> "idle", saw |-> {}]]

-----------------------------------------------------------------------------
(* Starting a request, and the two ways to end one. *)

Answer(r, phase, saw) ==
    /\ call' = [call EXCEPT ![r] = [phase |-> phase, saw |-> saw]]
    /\ client' = [client EXCEPT ![r] = "none"]

Running(r) == call[r].phase \in {"running", "holding"}

Call(r, p) ==
    /\ call[r].phase = "idle"
    /\ call' = [call EXCEPT ![r].phase = "running"]
    /\ at' = [at EXCEPT ![r] = p]
    /\ UNCHANGED <<row, receipts, rowLock, server, client, base, gate>>

(* checkAvailable: a replica with an unresolved write answers              *)
(* ErrUncertainCommit to everything, until it is restarted.                *)
CheckAvailable(r) ==
    /\ call[r].phase = "running"
    /\ client[r] = "none"
    /\ IF gate[at[r]]
         THEN Answer(r, "uncertain", call[r].saw)
         ELSE /\ client' = [client EXCEPT ![r] = "checked"]
              /\ UNCHANGED call
    /\ UNCHANGED <<row, receipts, rowLock, server, base, gate, at>>

(* Rolling the transaction back, as the deferred rollback does on every    *)
(* error return before Commit: the lock is free again.                     *)
RollBack(r) ==
    /\ server' = [server EXCEPT ![r] = "aborted"]
    /\ rowLock' = IF rowLock = r THEN None ELSE rowLock
    /\ UNCHANGED <<row, receipts>>

-----------------------------------------------------------------------------
(* Read. *)

(* One statement against the committed row; an unavailable or read-only    *)
(* endpoint, or a document that fails its checks, is an error.             *)
Read(r) ==
    /\ r \in Views
    /\ client[r] = "checked"
    /\ \/ Answer(r, "read", row.doc)
       \/ Answer(r, "refused", {})
    /\ UNCHANGED <<row, receipts, rowLock, server, base, gate, at>>

-----------------------------------------------------------------------------
(* Update. *)

(* SELECT ... FOR UPDATE waits for the row's lock. *)
RowFree == rowLock = None

(* Begin, the primary check and SELECT ... FOR UPDATE: the row is read     *)
(* under its lock.                                                         *)
LockRow(u) ==
    /\ u \in Updates
    /\ client[u] = "checked"
    /\ \/ /\ RowFree
          /\ rowLock' = u
          /\ server' = [server EXCEPT ![u] = "open"]
          /\ base' = [base EXCEPT ![u] = row]
          /\ client' = [client EXCEPT ![u] = "locked"]
          /\ call' = [call EXCEPT ![u] = [phase |-> "holding", saw |-> row.doc]]
       \/ /\ Answer(u, "refused", {})
          /\ UNCHANGED <<rowLock, server, base>>
    /\ UNCHANGED <<row, receipts, gate, at>>

(* The callback decodes, mutates, validates and encodes.  Its error, a     *)
(* cancelled request and an unchanged document end the transaction with    *)
(* nothing written; otherwise the receipt and the row are written in it.   *)
(* A statement fails, too, when a promotion has ended the transaction.     *)
MutateAndWrite(u) ==
    /\ client[u] = "locked"
    /\ \/ /\ RollBack(u)
          /\ Answer(u, "refused", {})
       \/ /\ RollBack(u)
          /\ Answer(u, "read", base[u].doc)
       \/ /\ server[u] = "open"
          /\ client' = [client EXCEPT ![u] = "written"]
          /\ UNCHANGED <<row, receipts, rowLock, server, call>>
    /\ UNCHANGED <<base, gate, at>>

(* commitWrite: a request cancelled by now is rolled back and answered     *)
(* ErrNotCommitted; otherwise Commit is sent.                              *)
SendCommit(u) ==
    /\ client[u] = "written"
    /\ \/ /\ RollBack(u)
          /\ Answer(u, "refused", {})
       \/ /\ client' = [client EXCEPT ![u] = "committing"]
          /\ server' = [server EXCEPT ![u] =
                          IF @ = "open" THEN "committing" ELSE @]
          /\ UNCHANGED <<row, receipts, rowLock, call>>
    /\ UNCHANGED <<base, gate, at>>

(* The document and its receipt, as the transaction wrote them. *)
WrittenRow(u) ==
    [doc |-> base[u].doc \cup {u}, revision |-> base[u].revision + 1, last |-> u]

(* The database commits, whether or not anyone still waits for it. *)
Commit(u) ==
    /\ server[u] = "committing"
    /\ server' = [server EXCEPT ![u] = "committed"]
    /\ row' = WrittenRow(u)
    /\ receipts' = [receipts EXCEPT ![u] = WrittenRow(u).revision]
    /\ rowLock' = None
    /\ UNCHANGED <<client, base, gate, at, call>>

(* The database ends the transaction instead. *)
Abort(u) ==
    /\ server[u] = "committing"
    /\ RollBack(u)
    /\ UNCHANGED <<client, base, gate, at, call>>

(* A definite answer to Commit: success, or ErrTxCommitRollback. *)
CommitAnswered(u) ==
    /\ client[u] = "committing"
    /\ \/ server[u] = "committed" /\ Answer(u, "done", WrittenRow(u).doc)
       \/ server[u] = "aborted" /\ Answer(u, "refused", {})
    /\ UNCHANGED <<row, receipts, rowLock, server, base, gate, at>>

(* Any other error of Commit, its timeout included. *)
CommitFails(u) ==
    /\ client[u] = "committing"
    /\ client' = [client EXCEPT ![u] = "resolving"]
    /\ UNCHANGED <<row, receipts, rowLock, server, base, gate, at, call>>

(* Mutant: a missing receipt is taken for a rollback. *)
UnresolvedIsRollback(u) ==
    /\ Answer(u, "refused", {})
    /\ UNCHANGED gate

(* What a receipt that cannot be found means: not that the write was       *)
(* rolled back, which may still be on its way.                             *)
Unresolved(u) ==
    /\ Answer(u, "uncertain", call[u].saw)
    /\ gate' = [gate EXCEPT ![at[u]] = TRUE]

(* resolveWriteReceipt: the exact receipt proves the commit.  A missing    *)
(* one, or an unreachable primary, leaves it uncertain and closes the      *)
(* replica's gate.                                                         *)
ResolveWriteReceipt(u) ==
    /\ client[u] = "resolving"
    /\ \/ /\ receipts[u] = WrittenRow(u).revision
          /\ Answer(u, "done", WrittenRow(u).doc)
          /\ UNCHANGED gate
       \/ Unresolved(u)
    /\ UNCHANGED <<row, receipts, rowLock, server, base, at>>

-----------------------------------------------------------------------------
(* The environment. *)

(* Transactions that end when their connection, or their primary, does.    *)
Cut(S, stages) == {u \in S : server[u] \in stages}

EndTransactions(ended) ==
    /\ server' = [u \in Updates |-> IF u \in ended THEN "aborted" ELSE server[u]]
    /\ rowLock' = IF rowLock \in ended THEN None ELSE rowLock

(* A replica stops and starts again: its callers get no answer, its open   *)
(* transactions end, a Commit it has sent goes on without it, and its gate *)
(* is open again.                                                          *)
Restart(p) ==
    /\ \E r \in Requests : at[r] = p
    /\ LET mine == {r \in Requests : at[r] = p} IN
         /\ EndTransactions(Cut(mine \cap Updates, {"open"}))
         /\ call' = [r \in Requests |->
                       IF r \in mine /\ Running(r)
                       THEN [call[r] EXCEPT !.phase = "uncertain"] ELSE call[r]]
         /\ client' = [r \in Requests |->
                         IF r \in mine THEN "none" ELSE client[r]]
    /\ gate' = [gate EXCEPT ![p] = FALSE]
    /\ UNCHANGED <<row, receipts, base, at>>

(* A synchronous standby is promoted: every commit made is kept, every     *)
(* transaction still open is gone, a Commit still on its way included.     *)
Promote ==
    /\ Cut(Updates, {"open", "committing"}) # {}
    /\ EndTransactions(Cut(Updates, {"open", "committing"}))
    /\ UNCHANGED <<row, receipts, client, base, gate, at, call>>

Serve(r) ==
    \/ CheckAvailable(r)
    \/ Read(r)
    \/ LockRow(r)

Work(u) ==
    \/ MutateAndWrite(u)
    \/ SendCommit(u)
    \/ CommitAnswered(u)
    \/ CommitFails(u)
    \/ ResolveWriteReceipt(u)

Next ==
    \/ \E r \in Requests, p \in Replicas : Call(r, p)
    \/ \E r \in Requests : Serve(r)
    \/ \E u \in Updates : Work(u) \/ Commit(u) \/ Abort(u)
    \/ \E p \in Replicas : Restart(p)
    \/ Promote

Spec == Init /\ [][Next]_vars

(***************************************************************************)
(* Every operation of a replica runs under a deadline and the database     *)
(* ends every transaction: a request waiting for the row gets it or an     *)
(* error.                                                                  *)
(***************************************************************************)
Fairness ==
    /\ \A r \in Requests : WF_vars(Serve(r))
    /\ \A u \in Updates : WF_vars(Work(u)) /\ WF_vars(Commit(u) \/ Abort(u))

FairSpec == Spec /\ Fairness

-----------------------------------------------------------------------------
(* Properties. *)

Store == INSTANCE StateStore WITH doc <- row.doc

(* The replicated store implements StateStore: concurrent replicas never   *)
(* lose or repeat an update, a definite error means the update never       *)
(* appears, and only an uncertain one may appear after its answer.         *)
(* (postgresstore Update, commitWrite, resolveWriteReceipt.)               *)
ImplementsStateStore == Store!Spec

(* The row is always bound to its latest receipt, every revision since the *)
(* first has a receipt, and every committed update has the only receipt of *)
(* its revision, so that a receipt proves exactly one commit.  (What       *)
(* checkReadiness verifies of a live row.)                                 *)
ReceiptsBindRevisions ==
    /\ {receipts[u] : u \in row.doc} = 2..row.revision
    /\ {u \in Updates : receipts[u] # 0} = row.doc
    /\ row.last # None => receipts[row.last] = row.revision
    /\ \A u, v \in row.doc : receipts[u] = receipts[v] => u = v

(* Every request is answered: an unreachable database or a lost answer     *)
(* ends in an error, never in a wait without end.  (A request is made      *)
(* once, so there is always a later moment with none running.)             *)
EveryCallAnswered == []<>(\A r \in Requests : ~Running(r))
=============================================================================
