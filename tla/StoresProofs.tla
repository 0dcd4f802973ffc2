---------------------------- MODULE StoresProofs ----------------------------
(***************************************************************************)
(* Both stores keep StateStore's contract, for any processes, replicas and *)
(* requests.                                                               *)
(*                                                                         *)
(* The file store's update takes effect when its rename becomes durable,   *)
(* on the document its callback was given: FileStoreProofs says that       *)
(* nothing else is owed to the disk.  The argument for PostgreSQL rests on *)
(* the row lock: whoever has an open or a committing transaction holds it, *)
(* and the row is still the one it read, so a commit takes effect on the   *)
(* document the callback was given.                                        *)
(***************************************************************************)
EXTENDS MCStores, FileStoreProofs

-----------------------------------------------------------------------------
(* The file store. *)

\* A sync of the directory is the moment at which the update that is owed takes effect.
LEMMA SyncTakesEffect ==
    ASSUME TypeOK, Rest, UNCHANGED <<file, flushed, call>>, disk' = Written
    PROVE  Store!Next \/ UNCHANGED <<Survives, call>>
<1>1. disk' = file
  BY Synced, Zenon DEF Rest
<1>2. CASE Settled
  BY <1>1, <1>2, Zenon DEF Settled, Survives
<1>3. ASSUME NEW u \in Updates, Owes(u), ~Settled PROVE Store!Next
  <2>1. PowerLoss /\ Survives = disk.doc /\ Survives' = disk.doc \cup {u}
    BY <1>1, <1>3, Zenon DEF Settled, Survives, Owes
  <2>2. Store!TakeEffect(u)
    BY <1>3, <2>1, Zenon DEF Owes, Store!TakeEffect
  <2> QED
    BY <2>2, Zenon DEF Store!Next, Requests
<1> QED
  BY <1>2, <1>3, Zenon DEF Rest, DiskInv

\* A request that has only been made shows in no document.
LEMMA RunningUnseen ==
    ASSUME Rest, NEW r \in Requests, call[r].phase \in {"idle", "running"}
    PROVE  r \notin Survives
BY Zenon DEF Rest, CallInv, Survives

\* An answer that promises no effect, and one from the current document.
LEMMA RefuseRefines ==
    ASSUME TypeOK, NEW r \in Requests, call[r].phase \in {"running", "holding"},
           r \notin Survives, Survives' = Survives, call' = Answer(r, "refused", {})
    PROVE  Store!Next
<1>1. Store!Refuse(r)
  BY Zenon DEF Store!Refuse, Store!Running, Store!Answered, Answer
<1> QED
  BY <1>1, Zenon DEF Store!Next

LEMMA ReadRefines ==
    ASSUME TypeOK, NEW r \in Requests, call[r].phase = "running", r \notin Survives,
           Survives' = Survives, call' = Answer(r, "read", Survives)
    PROVE  Store!Next
<1>1. Store!Read(r)
  BY Zenon DEF Store!Read, Store!Running, Store!Answered, Answer, TypeOK
<1> QED
  BY <1>1, Zenon DEF Store!Next

\* The answers of stopped processes, and ErrUncertainCommit.
LEMMA DoubtRefines ==
    ASSUME TypeOK, NEW lost \in SUBSET {r \in Requests : Running(r)}, Survives' = Survives,
           call' = [r \in Requests |->
                      IF r \in lost THEN [phase |-> "uncertain", saw |-> call[r].saw]
                      ELSE call[r]]
    PROVE  Store!Next
<1>1. lost \in SUBSET Store!Running
  BY Zenon DEF Store!Running, Running
<1>2. Store!Doubt(lost)
  BY Zenon DEF Store!Doubt, Store!Answered
<1> QED
  BY <1>1, <1>2, Zenon DEF Store!Next

LEMMA UncertainRefines ==
    ASSUME TypeOK, NEW r \in Requests, Running(r), Survives' = Survives, call' = Uncertain(r)
    PROVE  Store!Next
<1>1. {r} \in SUBSET {q \in Requests : Running(q)}
  BY Zenon
<1>2. call' = [q \in Requests |->
                 IF q \in {r} THEN [phase |-> "uncertain", saw |-> call[q].saw] ELSE call[q]]
  BY Zenon DEF Uncertain, Answer, TypeOK
<1> QED
  BY <1>1, <1>2, DoubtRefines, Zenon

LEMMA StoppedRefines ==
    ASSUME TypeOK, NEW S \in SUBSET Processes, Stopped(S), Survives' = Survives
    PROVE  Store!Next
<1> DEFINE lost == {r \in Requests : at[r] \in S /\ Running(r)}
<1>1. lost \in SUBSET {r \in Requests : Running(r)}
  BY Zenon
<1>2. ASSUME NEW r \in Requests
      PROVE  [call[r] EXCEPT !.phase = "uncertain"] = [phase |-> "uncertain", saw |-> call[r].saw]
  BY DEF TypeOK, Calls
<1>3. call' = [r \in Requests |->
                 IF r \in lost THEN [phase |-> "uncertain", saw |-> call[r].saw] ELSE call[r]]
  BY <1>2, Zenon DEF Stopped
<1> QED
  BY <1>1, <1>3, DoubtRefines, Zenon
\* The steps of an update that holds the mutex.
LEMMA MutateRefines ==
    ASSUME TypeOK, Rest, NEW p \in Processes, Mutate(p) PROVE Store!Next
<1>u. work[p].step = "mutate" /\ UNCHANGED <<file, flushed, disk, lock, proc, pending, at>>
  BY Zenon DEF Mutate
<1>o. Updating(p) /\ Begun(p, work[p].req) /\ work[p].req \in Updates
  BY <1>u, AtWork, Zenon DEF Opening, Updating
<1>r. PICK r \in Updates : r = work[p].req
  BY <1>o, Zenon
<1>n. /\ mem[p] = Survives /\ call[r].phase = "running" /\ r \in Requests
  BY <1>o, <1>r, Zenon DEF Begun, Settled, Survives, Requests
<1>v. r \notin Survives /\ Survives' = Survives
  BY <1>n, <1>u, RunningUnseen, Zenon DEF Survives
<1>1. CASE call' = Answer(r, "refused", {})
  BY <1>1, <1>n, <1>v, RefuseRefines, Zenon
<1>2. CASE call' = Answer(r, "read", mem[p])
  BY <1>2, <1>n, <1>v, ReadRefines, Zenon
<1>3. CASE call' = Answer(r, "holding", mem[p])
  <2>1. Store!Observe(r)
    BY <1>3, <1>n, <1>v, Zenon DEF Store!Observe, Store!Answered, Answer
  <2> QED
    BY <2>1, <1>n, Zenon DEF Store!Next
<1> QED
  BY <1>1, <1>2, <1>3, <1>r, Zenon DEF Mutate

LEMMA FailRefines ==
    ASSUME TypeOK, Rest, NEW p \in Processes, work[p].step \in {"write", "rename"},
           PersistFails(p), UNCHANGED <<file, disk>>
    PROVE  Store!Next \/ UNCHANGED <<Survives, call>>
<1>v. Survives' = Survives
  BY Zenon DEF Survives
<1>1. CASE proc[p] = "opening"
  BY <1>1, <1>v, AtWork, Zenon DEF PersistFails
<1>2. CASE proc[p] = "open"
  <2>o. Staged(p, work[p].req) /\ work[p].req \in Updates /\ work[p].req # None
    BY <1>2, AtWork, Zenon DEF Updating
  <2>r. PICK r \in Updates : r = work[p].req
    BY <2>o, Zenon
  <2>1. /\ r \in Requests /\ call[r].phase = "holding" /\ r \notin Survives
        /\ call' = Answer(r, "refused", {})
    BY <2>o, <2>r, Zenon DEF Staged, Settled, Survives, PersistFails, Requests
  <2> QED
    BY <2>1, <1>v, RefuseRefines, Zenon
<1> QED
  BY <1>1, <1>2, AtWork, Zenon

LEMMA RenameRefines ==
    ASSUME TypeOK, Rest, NEW p \in Processes, Rename(p)
    PROVE  Store!Next \/ UNCHANGED <<Survives, call>>
<1>u. work[p].step = "rename" /\ disk' = disk
  BY Zenon DEF Rename
<1>1. CASE PersistFails(p) /\ UNCHANGED file
  BY <1>1, <1>u, FailRefines, Zenon
<1>2. CASE file' = FileOf(mem[p]) /\ UNCHANGED call
  <2>1. file'.doc = mem[p]
    BY <1>2, FileTypes, Zenon DEF TypeOK
  <2>2. CASE PowerLoss
    BY <2>2, <1>2, <1>u, Zenon DEF Survives
  <2>3. CASE ~PowerLoss /\ proc[p] = "opening"
    BY <2>3, <2>1, <1>2, <1>u, AtWork, Zenon DEF Survives, Opening
  <2>4. CASE ~PowerLoss /\ proc[p] = "open"
    <3>o. Staged(p, work[p].req) /\ work[p].req \in Updates
      BY <2>4, <1>u, AtWork, Zenon DEF Updating
    <3>r. PICK r \in Updates : r = work[p].req
      BY <3>o, Zenon
    <3>1. Store!TakeEffect(r)
      BY <3>o, <3>r, <2>1, <2>4, <1>2, Zenon DEF Staged, Survives, Store!TakeEffect
    <3> QED
      BY <3>1, Zenon DEF Store!Next, Requests
  <2> QED
    BY <2>2, <2>3, <2>4, <1>u, AtWork, Zenon
<1> QED
  BY <1>1, <1>2, Zenon DEF Rename

LEMMA SyncRefines ==
    ASSUME TypeOK, Rest, NEW p \in Processes, SyncDirectory(p)
    PROVE  Store!Next \/ UNCHANGED <<Survives, call>>
<1>u. work[p].step = "sync" /\ UNCHANGED <<file, flushed>>
  BY Zenon DEF SyncDirectory
<1>1. CASE SyncSucceeds /\ UNCHANGED call
  BY <1>1, <1>u, SyncTakesEffect, Zenon DEF SyncSucceeds
<1>2. CASE SyncFails /\ UNCHANGED call
  BY <1>2, <1>u, Zenon DEF Survives, SyncFails
<1>3. CASE SyncFails /\ work[p].req # None /\ call' = Uncertain(work[p].req)
  <2>o. Renamed(p, work[p].req) /\ work[p].req \in Updates
    BY <1>3, <1>u, AtWork, Zenon DEF Updating
  <2>1. work[p].req \in Requests /\ Running(work[p].req) /\ Survives' = Survives
    BY <2>o, <1>3, <1>u, Zenon DEF Renamed, Running, Survives, SyncFails, Requests
  <2> QED
    BY <2>1, <1>3, UncertainRefines, Zenon
<1> QED
  BY <1>1, <1>2, <1>3, Zenon DEF SyncDirectory

LEMMA ReturnRefines ==
    ASSUME TypeOK, Rest, NEW p \in Processes, Return(p)
    PROVE  Store!Next \/ UNCHANGED <<Survives, call>>
<1>u. work[p].step = "return" /\ UNCHANGED <<file, disk>>
  BY Zenon DEF Return
<1>v. Survives' = Survives
  BY <1>u, Zenon DEF Survives
<1>1. CASE proc[p] = "opening"
  BY <1>1, <1>u, <1>v, AtWork, Zenon DEF Return
<1>2. CASE proc[p] = "open"
  <2>o. Durable(p, work[p].req) /\ work[p].req \in Updates /\ work[p].req # None
    BY <1>2, <1>u, AtWork, Zenon DEF Updating
  <2>r. PICK r \in Updates : r = work[p].req
    BY <2>o, Zenon
  <2>1. /\ r \in Requests /\ call[r].phase = "holding" /\ r \in Survives
        /\ mem[p] = call[r].saw \cup {r} /\ call' = Answer(r, "done", mem[p])
    BY <2>o, <2>r, Zenon DEF Durable, Settled, Survives, Return, Requests
  <2>2. Store!Succeed(r)
    BY <2>1, <1>v, Zenon DEF Store!Succeed, Store!Answered, Answer, TypeOK
  <2> QED
    BY <2>1, <2>2, Zenon DEF Store!Next
<1> QED
  BY <1>1, <1>2, <1>u, AtWork, Zenon

\* The steps of the other requests.
LEMMA ServeRefines ==
    ASSUME TypeOK, Rest, NEW p \in Processes, NEW r \in Requests, Serve(p, r)
    PROVE  Store!Next \/ UNCHANGED <<Survives, call>>
<1>u. /\ UNCHANGED <<file, flushed>> /\ call[r].phase = "running" /\ Running(r)
      /\ proc[p] = "open" /\ work[p].step = "free"
  BY Zenon DEF Serve, View, ViewEnsureDurable, UpdateBegin, Serving, Running
<1>1. CASE View(p, r)
  <2>1. Survives' = Survives /\ mem[p] = Survives
    BY <1>1, <1>u, RestMatches, Zenon DEF View, Survives, MayRead, MemoryMatches
  <2> QED
    BY <1>1, <1>u, <2>1, RunningUnseen, ReadRefines, Zenon DEF View
<1>2. CASE SyncSucceeds /\ UNCHANGED call
  BY <1>2, <1>u, SyncTakesEffect, Zenon DEF SyncSucceeds
<1>3. CASE UNCHANGED disk /\ UNCHANGED call
  BY <1>3, <1>u, Zenon DEF Survives
<1>4. CASE SyncFails /\ call' = Uncertain(r)
  <2>1. Survives' = Survives
    BY <1>4, <1>u, Zenon DEF Survives, SyncFails
  <2> QED
    BY <2>1, <1>4, <1>u, UncertainRefines, Zenon
<1> QED
  BY <1>1, <1>2, <1>3, <1>4, Zenon DEF Serve, ViewEnsureDurable, UpdateBegin

LEMMA FileRefines ==
    ASSUME TypeOK, Rest, [Next]_vars
    PROVE  Store!Next \/ UNCHANGED <<Survives, call>>
<1> DEFINE Goal == Store!Next \/ UNCHANGED <<Survives, call>>
<1>f. ASSUME UNCHANGED <<file, disk, call>> PROVE Goal
  BY <1>f, Zenon DEF Survives
<1>1. ASSUME UNCHANGED vars PROVE Goal
  BY <1>1, <1>f, Zenon DEF vars
<1>2. ASSUME Writeback PROVE Goal
  BY <1>2, SyncTakesEffect, Zenon DEF Writeback
<1>3. ASSUME LosePower PROVE Goal
  <2>1. Survives' = Survives /\ Stopped(Processes)
    BY <1>3, Zenon DEF LosePower, Survives
  <2> QED
    BY <2>1, StoppedRefines, Zenon
<1>4. ASSUME NEW p \in Processes, ProcessCrash(p) PROVE Goal
  <2>1. Survives' = Survives /\ Stopped({p}) /\ {p} \in SUBSET Processes
    BY <1>4, Zenon DEF ProcessCrash, Survives, storage
  <2> QED
    BY <2>1, StoppedRefines, Zenon
<1>5. ASSUME NEW p \in Processes, OpenStore(p) PROVE Goal
  BY <1>5, <1>f, Zenon DEF OpenStore
<1>6. ASSUME NEW p \in Processes, Close(p) PROVE Goal
  <2>1. CASE UNCHANGED disk
    BY <2>1, <1>6, <1>f, Zenon DEF Close
  <2>2. CASE SyncSucceeds
    BY <2>2, <1>6, SyncTakesEffect, Zenon DEF Close, SyncSucceeds
  <2> QED
    BY <2>1, <2>2, <1>6, Zenon DEF Close, SyncFails
<1>7. ASSUME NEW p \in Processes, CheckReadiness(p) PROVE Goal
  BY <1>7, SyncTakesEffect, Zenon DEF CheckReadiness, SyncSucceeds
<1>8. ASSUME NEW p \in Processes, WriteTemporary(p) PROVE Goal
  <2>1. CASE PersistFails(p)
    BY <2>1, <1>8, FailRefines, Zenon DEF WriteTemporary
  <2>2. CASE UNCHANGED call
    BY <2>2, <1>8, <1>f, Zenon DEF WriteTemporary
  <2> QED
    BY <2>1, <2>2, <1>8, Zenon DEF WriteTemporary
<1>9. ASSUME NEW p \in Processes, NEW r \in Requests, Call(r, p) PROVE Goal
  <2>1. Survives' = Survives
    BY <1>9, Zenon DEF Call, Survives
  <2>2. Store!Call(r)
    BY <2>1, <1>9, Zenon DEF Call, Store!Call, Store!Answered, Answer
  <2> QED
    BY <2>2, Zenon DEF Store!Next
<1>10. ASSUME NEW r \in Requests, RefuseClosed(r) PROVE Goal
  <2>1. Survives' = Survives /\ call[r].phase = "running" /\ call' = Answer(r, "refused", {})
    BY <1>10, Zenon DEF RefuseClosed, Survives, Serving
  <2> QED
    BY <2>1, RunningUnseen, RefuseRefines, Zenon
<1>11. ASSUME NEW p \in Processes, Mutate(p) \/ Rename(p) \/ SyncDirectory(p) \/ Return(p)
       PROVE  Goal
  BY <1>11, MutateRefines, RenameRefines, SyncRefines, ReturnRefines, Zenon
<1>12. ASSUME NEW p \in Processes, NEW r \in Requests, Serve(p, r) PROVE Goal
  BY <1>12, ServeRefines, Zenon
<1> HIDE DEF Goal
<1>13. ASSUME Next PROVE Goal
  BY <1>13, <1>2, <1>3, <1>4, <1>5, <1>6, <1>7, <1>8, <1>9, <1>10, <1>11, <1>12, Zenon
     DEF Next, Persist
<1> QED
  BY <1>1, <1>13, Zenon DEF Goal

LEMMA FileStoreInit ==
    Init => Store!Init
BY FileTypes, Zenon DEF Init, Survives, Store!Init, Store!NotCalled

\* The file store keeps the contract of StateStore for any number of processes and requests:
\* an update takes effect once, in one step and on the document its callback was given,
\* nothing is answered from a document a power loss could take back, and an error other than
\* ErrUncertainCommit promises no effect (store.go Update, View, persistLocked).  It needs
\* that no process starts over a rename that a power loss could still undo.
THEOREM FileStoreImplements ==
    ASSUME ~(PowerLoss /\ OpenUnsynced)
    PROVE  Spec => ImplementsStateStore
<1>1. Init => Store!Init
  BY FileStoreInit, Zenon
<1>2. TypeOK /\ Rest /\ [Next]_vars => [Store!Next]_(Store!vars)
  BY FileRefines, Zenon DEF Store!vars
<1>3. Spec => [](TypeOK /\ Rest)
  BY FileStoreInvariant, Zenon
<1> QED
  BY <1>1, <1>2, <1>3, PTL DEF Spec, ImplementsStateStore, Store!Spec

-----------------------------------------------------------------------------
(* The PostgreSQL store. *)

\* Where an update is in its replica, in the database and in the document.
UpdateInv(u) ==
    /\ replicaCall[u].phase \in {"idle", "running"} => server[u] = "none"
    /\ client[u] \in {"locked", "written"} => server[u] \in {"open", "aborted"}
    /\ client[u] \in {"committing", "resolving"} =>
          server[u] \in {"committing", "committed", "aborted"}
    /\ server[u] \in {"open", "committing"} =>
          /\ rowLock = u
          /\ base[u] = row
          /\ replicaCall[u].phase \in {"holding", "uncertain"}
    /\ server[u] # "none" /\ replicaCall[u].phase \in {"holding", "uncertain"} =>
          replicaCall[u].saw = base[u].doc
    /\ server[u] = "committed" <=> u \in row.doc
    /\ receipts[u] # 0 <=> u \in row.doc
    /\ receipts[u] <= row.revision

\* Where any request is.
RequestInv(r) ==
    /\ replicaCall[r].phase = "idle" => replicaCall[r].saw = {}
    /\ client[r] = "checked" => replicaCall[r].phase = "running"
    /\ client[r] \in {"locked", "written", "committing", "resolving"} =>
          r \in Updates /\ replicaCall[r].phase = "holding"
    /\ replicaCall[r].phase = "holding" => client[r] # "none"

\* The committed row counts its updates, each of which has a receipt of its own.
RowInv ==
    /\ row.doc \subseteq Updates
    /\ row.revision >= 1
    /\ row.last # None => row.last \in row.doc
    /\ Postgres!ReceiptsBindRevisions

PostgresInv ==
    /\ Postgres!TypeOK /\ RowInv
    /\ \A u \in Updates : UpdateInv(u)
    /\ \A r \in Requests : RequestInv(r)

-----------------------------------------------------------------------------
CallPhases == {"idle", "running", "holding", "done", "read", "refused", "uncertain"}
ClientSteps == {"none", "checked", "locked", "written", "committing", "resolving"}

\* Answering a request touches that request only.
LEMMA PostgresAnswer ==
    ASSUME Postgres!TypeOK, NEW r \in Requests, NEW phase \in CallPhases, NEW saw \in Documents,
           Postgres!Answer(r, phase, saw)
    PROVE  /\ replicaCall' \in [Requests -> [phase : CallPhases, saw : Documents]]
           /\ client' \in [Requests -> ClientSteps]
           /\ replicaCall'[r].phase = phase /\ replicaCall'[r].saw = saw /\ client'[r] = "none"
           /\ \A q \in Requests \ {r} : replicaCall'[q] = replicaCall[q] /\ client'[q] = client[q]
<1>1. /\ replicaCall \in [Requests -> [phase : CallPhases, saw : Documents]]
      /\ client \in [Requests -> ClientSteps]
  BY Zenon DEF Postgres!TypeOK, Requests, Documents, Postgres!Requests, Postgres!Documents, CallPhases,
     ClientSteps
<1>2. /\ replicaCall' = [replicaCall EXCEPT ![r] = [phase |-> phase, saw |-> saw]]
      /\ client' = [client EXCEPT ![r] = "none"]
  BY Zenon DEF Postgres!Answer
<1>3. [phase |-> phase, saw |-> saw] \in [phase : CallPhases, saw : Documents]
  BY Zenon
<1> QED
  BY <1>1, <1>2, <1>3, Zenon DEF ClientSteps

\* What the types of the database's variables are in terms of the requests.
LEMMA PostgresTypes ==
    Postgres!TypeOK <=>
        /\ row \in Postgres!Rows
        /\ receipts \in [Updates -> Nat]
        /\ rowLock \in Updates \cup {None}
        /\ server \in [Updates -> {"none", "open", "committing", "committed", "aborted"}]
        /\ client \in [Requests -> ClientSteps]
        /\ base \in [Updates -> Postgres!Rows]
        /\ gate \in [Processes -> BOOLEAN]
        /\ replicaOf \in [Requests -> Processes \cup {None}]
        /\ replicaCall \in [Requests -> [phase : CallPhases, saw : Documents]]
BY Zenon DEF Postgres!TypeOK, Requests, Documents, Postgres!Requests, Postgres!Documents, CallPhases,
   ClientSteps

LEMMA RowTypes ==
    ASSUME NEW w \in Postgres!Rows
    PROVE  w.doc \in Documents /\ w.revision \in Nat /\ w.last \in Requests \cup {None}
BY Zenon DEF Postgres!Rows, Documents, Requests, Postgres!Requests, Postgres!Documents

LEMMA WrittenRowTypes ==
    ASSUME Postgres!TypeOK, NEW u \in Updates
    PROVE  /\ Postgres!WrittenRow(u) \in Postgres!Rows
           /\ Postgres!WrittenRow(u).doc = base[u].doc \cup {u}
           /\ Postgres!WrittenRow(u).revision = base[u].revision + 1
           /\ Postgres!WrittenRow(u).last = u
<1>1. base[u] \in Postgres!Rows
  BY PostgresTypes, Zenon
<1>2. base[u].doc \in Documents /\ base[u].revision \in Nat
  BY <1>1, RowTypes, Zenon
<1> QED
  BY <1>2 DEF Postgres!WrittenRow, Postgres!Rows, Documents, Requests, Postgres!Requests,
     Postgres!Documents

LEMMA PostgresTypeStep ==
    ASSUME Postgres!TypeOK, Postgres!Next PROVE Postgres!TypeOK'
<1> DEFINE T == /\ row \in Postgres!Rows
                /\ receipts \in [Updates -> Nat]
                /\ rowLock \in Updates \cup {None}
                /\ server \in [Updates -> {"none", "open", "committing", "committed", "aborted"}]
                /\ client \in [Requests -> ClientSteps]
                /\ base \in [Updates -> Postgres!Rows]
                /\ gate \in [Processes -> BOOLEAN]
                /\ replicaOf \in [Requests -> Processes \cup {None}]
                /\ replicaCall \in [Requests -> [phase : CallPhases, saw : Documents]]
           A == /\ client' \in [Requests -> ClientSteps]
                /\ replicaCall' \in [Requests -> [phase : CallPhases, saw : Documents]]
<1>t. T
  BY PostgresTypes, Zenon
<1>a. ASSUME NEW r \in Requests, NEW phase \in CallPhases, NEW saw \in Documents,
             Postgres!Answer(r, phase, saw)
      PROVE  A
  BY <1>a, PostgresAnswer, Zenon
<1>r. row.doc \in Documents /\ {} \in Documents /\ Updates \subseteq Requests
  BY <1>t, RowTypes, Zenon DEF Documents, Requests
<1>p. {"read", "refused", "uncertain", "done", "holding", "running"} \subseteq CallPhases
  BY Zenon DEF CallPhases
<1>s. ASSUME NEW r \in Requests PROVE replicaCall[r].saw \in Documents
  BY <1>t, Zenon
<1>1. ASSUME NEW r \in Requests, NEW p \in Processes, Postgres!Call(r, p) PROVE T'
  BY <1>1, <1>t, <1>p, Zenon DEF Postgres!Call
<1>2. ASSUME NEW r \in Requests, Postgres!CheckAvailable(r) PROVE T'
  <2>1. A
    BY <1>2, <1>a, <1>s, <1>p, <1>t, Zenon DEF Postgres!CheckAvailable, ClientSteps
  <2> QED
    BY <1>2, <2>1, <1>t, Zenon DEF Postgres!CheckAvailable
<1>3. ASSUME NEW r \in Requests, Postgres!Read(r) PROVE T'
  <2>1. A
    BY <1>3, <1>a, <1>r, <1>p, Zenon DEF Postgres!Read
  <2> QED
    BY <1>3, <2>1, <1>t, Zenon DEF Postgres!Read
<1>4. ASSUME NEW r \in Requests, Postgres!LockRow(r) PROVE T'
  <2>1. A
    <3>1. CASE Postgres!Answer(r, "refused", {})
      BY <3>1, <1>a, <1>r, <1>p, Zenon
    <3>2. CASE /\ client' = [client EXCEPT ![r] = "locked"]
               /\ replicaCall' = [replicaCall EXCEPT ![r] = [phase |-> "holding", saw |-> row.doc]]
      BY <3>2, <1>t, <1>r, <1>p, Zenon DEF ClientSteps
    <3> QED
      BY <1>4, <3>1, <3>2, Zenon DEF Postgres!LockRow
  <2> QED
    BY <1>4, <2>1, <1>t DEF Postgres!LockRow
<1>5. ASSUME NEW u \in Updates, Postgres!MutateAndWrite(u) PROVE T'
  <2>1. A
    <3>1. base[u].doc \in Documents /\ u \in Requests
      BY <1>t, <1>r, RowTypes, Zenon
    <3>2. CASE Postgres!Answer(u, "refused", {}) \/ Postgres!Answer(u, "read", base[u].doc)
      BY <3>1, <3>2, <1>a, <1>r, <1>p, Zenon
    <3>3. CASE client' = [client EXCEPT ![u] = "written"] /\ UNCHANGED replicaCall
      BY <3>3, <1>t, Zenon DEF ClientSteps
    <3> QED
      BY <1>5, <3>2, <3>3, Zenon DEF Postgres!MutateAndWrite
  <2> QED
    BY <1>5, <2>1, <1>t, Zenon DEF Postgres!MutateAndWrite, Postgres!RollBack
<1>6. ASSUME NEW u \in Updates, Postgres!SendCommit(u) PROVE T'
  <2>1. A
    <3>1. CASE Postgres!Answer(u, "refused", {})
      BY <3>1, <1>a, <1>r, <1>p, Zenon
    <3>2. CASE client' = [client EXCEPT ![u] = "committing"] /\ UNCHANGED replicaCall
      BY <3>2, <1>t, Zenon DEF ClientSteps
    <3> QED
      BY <1>6, <3>1, <3>2, Zenon DEF Postgres!SendCommit
  <2> QED
    BY <1>6, <2>1, <1>t, Zenon DEF Postgres!SendCommit, Postgres!RollBack
<1>7. ASSUME NEW u \in Updates, Postgres!CommitAnswered(u) PROVE T'
  <2>1. A
    <3>1. Postgres!WrittenRow(u).doc \in Documents /\ u \in Requests
      BY <1>r, RowTypes, WrittenRowTypes, Zenon
    <3> QED
      BY <1>7, <3>1, <1>a, <1>r, <1>p, Zenon DEF Postgres!CommitAnswered
  <2> QED
    BY <1>7, <2>1, <1>t, Zenon DEF Postgres!CommitAnswered
<1>8. ASSUME NEW u \in Updates, Postgres!CommitFails(u) PROVE T'
  BY <1>8, <1>t, Zenon DEF Postgres!CommitFails, ClientSteps
<1>9. ASSUME NEW u \in Updates, Postgres!ResolveWriteReceipt(u) PROVE T'
  <2>1. A
    <3>1. Postgres!WrittenRow(u).doc \in Documents /\ u \in Requests
      BY <1>r, RowTypes, WrittenRowTypes, Zenon
    <3> QED
      BY <1>9, <3>1, <1>a, <1>s, <1>p, Zenon DEF Postgres!ResolveWriteReceipt, Postgres!Unresolved
  <2> QED
    BY <1>9, <2>1, <1>t, Zenon DEF Postgres!ResolveWriteReceipt, Postgres!Unresolved
<1>10. ASSUME NEW u \in Updates, Postgres!Commit(u) PROVE T'
  <2>1. Postgres!WrittenRow(u) \in Postgres!Rows /\ Postgres!WrittenRow(u).revision \in Nat
    BY WrittenRowTypes, RowTypes, Zenon
  <2> QED
    BY <1>10, <1>t, <2>1, Zenon DEF Postgres!Commit
<1>11. ASSUME NEW u \in Updates, Postgres!Abort(u) PROVE T'
  BY <1>11, <1>t, Zenon DEF Postgres!Abort, Postgres!RollBack
<1>12. ASSUME NEW p \in Processes, Postgres!Restart(p) PROVE T'
  BY <1>12, <1>t, <1>p, Zenon DEF Postgres!Restart, Postgres!EndTransactions, Postgres!Cut, Requests,
     Postgres!Requests, ClientSteps
<1>13. ASSUME Postgres!Promote PROVE T'
  BY <1>13, <1>t, Zenon DEF Postgres!Promote, Postgres!EndTransactions, Postgres!Cut
<1>14. T' => Postgres!TypeOK'
  BY Zenon DEF Postgres!TypeOK, Requests, Documents, Postgres!Requests, Postgres!Documents, CallPhases,
     ClientSteps
<1> HIDE DEF T
<1> QED
  BY <1>1, <1>2, <1>3, <1>4, <1>5, <1>6, <1>7, <1>8, <1>9, <1>10, <1>11, <1>12, <1>13, <1>14, Zenon
     DEF Postgres!Next, Postgres!Serve, Postgres!Work, Postgres!Requests, Requests

-----------------------------------------------------------------------------
(* The invariant of the replicated store. *)

PostgresTyped ==
    /\ row \in Postgres!Rows
    /\ row.doc \in Documents /\ row.revision \in Nat
    /\ receipts \in [Updates -> Nat]
    /\ rowLock \in Updates \cup {None}
    /\ server \in [Updates -> {"none", "open", "committing", "committed", "aborted"}]
    /\ client \in [Requests -> ClientSteps]
    /\ base \in [Updates -> Postgres!Rows]
    /\ replicaCall \in [Requests -> [phase : CallPhases, saw : Documents]]
    /\ Updates \subseteq Requests /\ None \notin Requests

LEMMA PostgresIsTyped == ASSUME Postgres!TypeOK PROVE PostgresTyped
BY PostgresTypes, RowTypes, FileStoreAssumption, Zenon DEF PostgresTyped, Requests

\* An update that is not the one at work sees only the row and its lock change.
LEMMA OtherUpdate ==
    ASSUME PostgresTyped, NEW v \in Updates, UpdateInv(v),
           UNCHANGED <<server[v], client[v], base[v], receipts[v], replicaCall[v], row>>,
           server[v] \in {"open", "committing"} => UNCHANGED rowLock
    PROVE  UpdateInv(v)'
BY Zenon DEF UpdateInv

LEMMA UpdateStep ==
    ASSUME PostgresInv, Postgres!Next, NEW v \in Updates
    PROVE  UpdateInv(v)'
<1>0. /\ Postgres!TypeOK /\ PostgresTyped /\ UpdateInv(v) /\ RequestInv(v) /\ v \in Requests
      /\ \A u \in Updates : UpdateInv(u)
      /\ \A r \in Requests : RequestInv(r)
  BY PostgresIsTyped, Zenon DEF PostgresInv, PostgresTyped
<1>p. {} \in Documents /\ {"read", "refused", "uncertain", "done"} \subseteq CallPhases
  BY Zenon DEF CallPhases, Documents
<1>1. ASSUME NEW r \in Requests, NEW p \in Processes, Postgres!Call(r, p) PROVE UpdateInv(v)'
  BY <1>0, <1>1, Zenon DEF Postgres!Call, UpdateInv, PostgresTyped
<1>2. ASSUME NEW r \in Requests, Postgres!CheckAvailable(r) PROVE UpdateInv(v)'
  <2>0. UNCHANGED <<row, receipts, rowLock, server, base>> /\ replicaCall[r].phase = "running"
    BY <1>2, Zenon DEF Postgres!CheckAvailable
  <2>1. CASE Postgres!Answer(r, "uncertain", replicaCall[r].saw)
    <3>1. /\ replicaCall'[r].phase = "uncertain" /\ client'[r] = "none"
          /\ \A q \in Requests \ {r} : replicaCall'[q] = replicaCall[q] /\ client'[q] = client[q]
      BY <1>0, <1>p, <2>1, PostgresAnswer, Zenon DEF PostgresTyped
    <3> QED
      BY <1>0, <2>0, <3>1, Zenon DEF UpdateInv, PostgresTyped
  <2>2. CASE client' = [client EXCEPT ![r] = "checked"] /\ UNCHANGED replicaCall
    BY <1>0, <2>0, <2>2, Zenon DEF UpdateInv, PostgresTyped
  <2> QED
    BY <1>2, <2>1, <2>2, Zenon DEF Postgres!CheckAvailable
<1>3. ASSUME NEW r \in Requests, Postgres!Read(r) PROVE UpdateInv(v)'
  <2>0. UNCHANGED <<row, receipts, rowLock, server, base>> /\ client[r] = "checked"
    BY <1>3, Zenon DEF Postgres!Read
  <2>1. /\ replicaCall'[r].phase \in {"read", "refused"} /\ client'[r] = "none"
        /\ \A q \in Requests \ {r} : replicaCall'[q] = replicaCall[q] /\ client'[q] = client[q]
    BY <1>0, <1>p, <1>3, PostgresAnswer, Zenon DEF PostgresTyped, Postgres!Read
  <2> QED
    BY <1>0, <2>0, <2>1, Zenon DEF UpdateInv, RequestInv, PostgresTyped
<1>4. ASSUME NEW r \in Requests, Postgres!LockRow(r) PROVE UpdateInv(v)'
  <2>0. /\ UNCHANGED <<row, receipts>> /\ client[r] = "checked" /\ r \in Updates
        /\ replicaCall[r].phase = "running" /\ server[r] = "none" /\ r \notin row.doc
    BY <1>0, <1>4, Zenon DEF Postgres!LockRow, RequestInv, UpdateInv
  <2>1. CASE Postgres!Answer(r, "refused", {}) /\ UNCHANGED <<rowLock, server, base>>
    <3>1. /\ replicaCall'[r].phase = "refused" /\ client'[r] = "none"
          /\ \A q \in Requests \ {r} : replicaCall'[q] = replicaCall[q] /\ client'[q] = client[q]
      BY <1>0, <1>p, <2>1, PostgresAnswer, Zenon
    <3> QED
      BY <1>0, <2>0, <2>1, <3>1, Zenon DEF UpdateInv, PostgresTyped
  <2>2. CASE /\ rowLock = None /\ rowLock' = r
             /\ server' = [server EXCEPT ![r] = "open"]
             /\ base' = [base EXCEPT ![r] = row]
             /\ client' = [client EXCEPT ![r] = "locked"]
             /\ replicaCall' = [replicaCall EXCEPT ![r] = [phase |-> "holding", saw |-> row.doc]]
    <3>1. CASE v = r
      BY <1>0, <2>0, <2>2, <3>1, Zenon DEF UpdateInv, PostgresTyped
    <3>2. CASE v # r
      <4>1. server[v] \notin {"open", "committing"}
        BY <1>0, <2>2, Zenon DEF UpdateInv, PostgresTyped
      <4>2. UNCHANGED <<server[v], client[v], base[v], receipts[v], replicaCall[v], row>>
        BY <1>0, <2>0, <2>2, <3>2, Zenon DEF PostgresTyped
      <4> QED
        BY <1>0, <4>1, <4>2, OtherUpdate, Zenon
    <3> QED
      BY <3>1, <3>2, Zenon
  <2> QED
    BY <1>4, <2>1, <2>2, Zenon DEF Postgres!LockRow, Postgres!RowFree
<1>a. ASSUME NEW u \in Updates, NEW phase \in {"read", "refused"}, NEW saw \in Documents,
             client[u] \in {"locked", "written"}, Postgres!Answer(u, phase, saw),
             Postgres!RollBack(u), UNCHANGED base
      PROVE  UpdateInv(v)'
  <2>0. /\ UNCHANGED <<row, receipts>> /\ u \in Requests
        /\ server' = [server EXCEPT ![u] = "aborted"] /\ server[u] \in {"open", "aborted"}
        /\ rowLock' = IF rowLock = u THEN None ELSE rowLock
    BY <1>0, <1>a, Zenon DEF Postgres!RollBack, UpdateInv, PostgresTyped
  <2>1. /\ replicaCall'[u].phase = phase /\ client'[u] = "none"
        /\ \A q \in Requests \ {u} : replicaCall'[q] = replicaCall[q] /\ client'[q] = client[q]
    BY <1>0, <1>a, <1>p, <2>0, PostgresAnswer, Zenon
  <2>2. CASE v = u
    BY <1>0, <1>a, <2>0, <2>1, <2>2, Zenon DEF UpdateInv, PostgresTyped
  <2>3. CASE v # u
    <3>1. UNCHANGED <<server[v], client[v], base[v], receipts[v], replicaCall[v], row>>
      BY <1>0, <1>a, <2>0, <2>1, <2>3, Zenon DEF PostgresTyped
    <3>2. server[v] \in {"open", "committing"} => UNCHANGED rowLock
      BY <1>0, <2>0, <2>3, Zenon DEF UpdateInv
    <3> QED
      BY <1>0, <3>1, <3>2, OtherUpdate, Zenon
  <2> QED
    BY <2>2, <2>3, Zenon
<1>5. ASSUME NEW u \in Updates, Postgres!MutateAndWrite(u) PROVE UpdateInv(v)'
  <2>1. CASE Postgres!RollBack(u) /\ (Postgres!Answer(u, "refused", {})
                                        \/ Postgres!Answer(u, "read", base[u].doc))
    <3>1. base[u].doc \in Documents
      BY <1>0, RowTypes, Zenon DEF PostgresTyped
    <3> QED
      BY <1>a, <1>p, <1>5, <2>1, <3>1, Zenon DEF Postgres!MutateAndWrite
  <2>2. CASE /\ server[u] = "open" /\ client' = [client EXCEPT ![u] = "written"]
             /\ UNCHANGED <<row, receipts, rowLock, server, replicaCall, base>>
    BY <1>0, <2>2, Zenon DEF UpdateInv, PostgresTyped
  <2> QED
    BY <1>5, <2>1, <2>2, Zenon DEF Postgres!MutateAndWrite
<1>6. ASSUME NEW u \in Updates, Postgres!SendCommit(u) PROVE UpdateInv(v)'
  <2>1. CASE Postgres!RollBack(u) /\ Postgres!Answer(u, "refused", {})
    BY <1>a, <1>p, <1>6, <2>1, Zenon DEF Postgres!SendCommit
  <2>2. CASE /\ client' = [client EXCEPT ![u] = "committing"]
             /\ server' = [server EXCEPT ![u] = IF @ = "open" THEN "committing" ELSE @]
             /\ UNCHANGED <<row, receipts, rowLock, replicaCall, base>>
    BY <1>0, <1>6, <2>2, Zenon DEF Postgres!SendCommit, UpdateInv, PostgresTyped
  <2> QED
    BY <1>6, <2>1, <2>2, Zenon DEF Postgres!SendCommit
<1>b. ASSUME NEW u \in Updates, NEW phase \in {"done", "refused", "uncertain"}, NEW saw \in Documents,
             client[u] \in {"committing", "resolving"}, Postgres!Answer(u, phase, saw),
             phase = "uncertain" => saw = replicaCall[u].saw,
             phase # "uncertain" => server[u] # "committing",
             UNCHANGED <<row, receipts, rowLock, server, base>>
      PROVE  UpdateInv(v)'
  <2>1. /\ replicaCall'[u].phase = phase /\ client'[u] = "none" /\ replicaCall'[u].saw = saw
        /\ \A q \in Requests \ {u} : replicaCall'[q] = replicaCall[q] /\ client'[q] = client[q]
    BY <1>0, <1>b, <1>p, PostgresAnswer DEF PostgresTyped
  <2>2. replicaCall[u].phase = "holding" /\ server[u] # "open"
    BY <1>0, <1>b, Zenon DEF RequestInv, PostgresTyped, UpdateInv
  <2> QED
    BY <1>0, <1>b, <2>1, <2>2 DEF UpdateInv, PostgresTyped
<1>w. ASSUME NEW u \in Updates
      PROVE  /\ Postgres!WrittenRow(u).doc = base[u].doc \cup {u} /\ base[u].doc \in Documents
             /\ Postgres!WrittenRow(u).doc \in Documents
             /\ Postgres!WrittenRow(u).revision = base[u].revision + 1 /\ base[u].revision \in Nat
  BY <1>0, WrittenRowTypes, RowTypes, Zenon DEF PostgresTyped
<1>7. ASSUME NEW u \in Updates, Postgres!CommitAnswered(u) PROVE UpdateInv(v)'
  BY <1>7, <1>b, <1>w, <1>p, Zenon DEF Postgres!CommitAnswered
<1>8. ASSUME NEW u \in Updates, Postgres!CommitFails(u) PROVE UpdateInv(v)'
  BY <1>0, <1>8, Zenon DEF Postgres!CommitFails, UpdateInv, PostgresTyped
<1>9. ASSUME NEW u \in Updates, Postgres!ResolveWriteReceipt(u) PROVE UpdateInv(v)'
  <2>1. CASE Postgres!Answer(u, "uncertain", replicaCall[u].saw)
    <3>1. replicaCall[u].saw \in Documents
      BY <1>0, Zenon DEF PostgresTyped
    <3> QED
      BY <1>9, <1>b, <2>1, <3>1, Zenon DEF Postgres!ResolveWriteReceipt
  <2>2. CASE /\ receipts[u] = Postgres!WrittenRow(u).revision
             /\ Postgres!Answer(u, "done", Postgres!WrittenRow(u).doc)
    <3>1. server[u] = "committed"
      BY <1>0, <1>w, <2>2 DEF UpdateInv
    <3> QED
      BY <1>9, <1>b, <1>w, <2>2, <3>1, Zenon DEF Postgres!ResolveWriteReceipt
  <2> QED
    BY <1>9, <2>1, <2>2, Zenon DEF Postgres!ResolveWriteReceipt, Postgres!Unresolved
<1>10. ASSUME NEW u \in Updates, Postgres!Commit(u) PROVE UpdateInv(v)'
  <2>1. /\ rowLock = u /\ base[u] = row
        /\ row'.doc = row.doc \cup {u} /\ row'.revision = row.revision + 1
        /\ server' = [server EXCEPT ![u] = "committed"]
        /\ receipts' = [receipts EXCEPT ![u] = row.revision + 1]
        /\ UNCHANGED <<client, base, replicaCall>>
    BY <1>0, <1>10, <1>w, Zenon DEF Postgres!Commit, UpdateInv
  <2>2. row.revision \in Nat /\ receipts[v] \in Nat /\ receipts[u] \in Nat
    BY <1>0, Zenon DEF PostgresTyped
  <2>3. CASE v = u
    BY <1>0, <1>10, <2>1, <2>2, <2>3 DEF UpdateInv, PostgresTyped, Postgres!Commit
  <2>4. CASE v # u
    <3>1. server[v] \notin {"open", "committing"}
      BY <1>0, <2>1, <2>4, Zenon DEF UpdateInv
    <3> QED
      BY <1>0, <2>1, <2>2, <2>4, <3>1 DEF UpdateInv, PostgresTyped
  <2> QED
    BY <2>3, <2>4, Zenon
<1>11. ASSUME NEW u \in Updates, Postgres!Abort(u) PROVE UpdateInv(v)'
  <2>1. /\ UNCHANGED <<row, receipts, client, base, replicaCall>>
        /\ server' = [server EXCEPT ![u] = "aborted"] /\ server[u] = "committing"
        /\ rowLock' = IF rowLock = u THEN None ELSE rowLock
    BY <1>11, Zenon DEF Postgres!Abort, Postgres!RollBack
  <2>2. CASE v = u
    BY <1>0, <2>1, <2>2, Zenon DEF UpdateInv, PostgresTyped
  <2>3. CASE v # u
    BY <1>0, <2>1, <2>3, OtherUpdate, Zenon DEF UpdateInv, PostgresTyped
  <2> QED
    BY <2>2, <2>3, Zenon
<1>12. ASSUME NEW p \in Processes, Postgres!Restart(p) PROVE UpdateInv(v)'
  <2>1. /\ UNCHANGED <<row, receipts, base>>
        /\ client'[v] = IF replicaOf[v] = p THEN "none" ELSE client[v]
        /\ replicaCall'[v].saw = replicaCall[v].saw
        /\ replicaCall'[v].phase =
             IF replicaOf[v] = p /\ replicaCall[v].phase \in {"running", "holding"}
             THEN "uncertain" ELSE replicaCall[v].phase
        /\ server'[v] = IF replicaOf[v] = p /\ server[v] = "open" THEN "aborted" ELSE server[v]
        /\ rowLock' = rowLock \/ (rowLock \in Updates /\ replicaOf[rowLock] = p /\ server[rowLock] = "open")
    BY <1>0, <1>12, Zenon DEF Postgres!Restart, Postgres!EndTransactions, Postgres!Cut, Postgres!Running,
       PostgresTyped, Requests, Postgres!Requests
  <2>2. server[v] \in {"open", "committing"} => rowLock = v
    BY <1>0, Zenon DEF UpdateInv
  <2> QED
    BY <1>0, <2>1, <2>2, Zenon DEF UpdateInv, PostgresTyped
<1>13. ASSUME Postgres!Promote PROVE UpdateInv(v)'
  <2>1. /\ UNCHANGED <<row, receipts, client, base, replicaCall>>
        /\ server'[v] = IF server[v] \in {"open", "committing"} THEN "aborted" ELSE server[v]
    BY <1>13, Zenon DEF Postgres!Promote, Postgres!EndTransactions, Postgres!Cut
  <2> QED
    BY <1>0, <2>1, Zenon DEF UpdateInv
<1> QED
  BY <1>1, <1>2, <1>3, <1>4, <1>5, <1>6, <1>7, <1>8, <1>9, <1>10, <1>11, <1>12, <1>13, Zenon
     DEF Postgres!Next, Postgres!Serve, Postgres!Work, Postgres!Requests, Requests

LEMMA RequestStep ==
    ASSUME PostgresInv, Postgres!Next, NEW q \in Requests
    PROVE  RequestInv(q)'
<1>0. /\ Postgres!TypeOK /\ PostgresTyped /\ RequestInv(q)
      /\ \A u \in Updates : UpdateInv(u)
  BY PostgresIsTyped, Zenon DEF PostgresInv
<1>p. /\ {} \in Documents /\ row.doc \in Documents
      /\ {"read", "refused", "uncertain", "done"} \subseteq CallPhases
  BY <1>0, Zenon DEF CallPhases, Documents, PostgresTyped
<1>a. ASSUME NEW r \in Requests, NEW phase \in {"read", "refused", "uncertain", "done"},
             NEW saw \in Documents, Postgres!Answer(r, phase, saw)
      PROVE  RequestInv(q)'
  <2>1. /\ replicaCall'[r].phase = phase /\ client'[r] = "none"
        /\ \A k \in Requests \ {r} : replicaCall'[k] = replicaCall[k] /\ client'[k] = client[k]
    BY <1>0, <1>p, <1>a, PostgresAnswer, Zenon
  <2> QED
    BY <1>0, <1>a, <2>1, Zenon DEF RequestInv
<1>m. ASSUME NEW r \in Requests, NEW step \in ClientSteps, step # "none", step = "checked" => replicaCall[r].phase = "running",
             step # "checked" => r \in Updates /\ replicaCall[r].phase = "holding",
             client' = [client EXCEPT ![r] = step], UNCHANGED replicaCall
      PROVE  RequestInv(q)'
  BY <1>0, <1>m, Zenon DEF RequestInv, PostgresTyped, ClientSteps
<1>s. ASSUME NEW r \in Requests PROVE replicaCall[r].saw \in Documents
  BY <1>0, Zenon DEF PostgresTyped
<1>w. ASSUME NEW u \in Updates
      PROVE  /\ base[u].doc \in Documents /\ Postgres!WrittenRow(u).doc \in Documents
             /\ u \in Requests /\ RequestInv(u)
  BY <1>0, WrittenRowTypes, RowTypes, Zenon DEF PostgresTyped, PostgresInv
<1>c. {"checked", "locked", "written", "committing", "resolving"} \subseteq ClientSteps
  BY Zenon DEF ClientSteps
<1>1. ASSUME NEW r \in Requests, NEW p \in Processes, Postgres!Call(r, p) PROVE RequestInv(q)'
  BY <1>0, <1>1, Zenon DEF Postgres!Call, RequestInv, PostgresTyped
<1>2. ASSUME NEW r \in Requests, Postgres!CheckAvailable(r) PROVE RequestInv(q)'
  BY <1>2, <1>a, <1>m, <1>s, <1>c, Zenon DEF Postgres!CheckAvailable
<1>3. ASSUME NEW r \in Requests, Postgres!Read(r) PROVE RequestInv(q)'
  BY <1>3, <1>a, <1>p, Zenon DEF Postgres!Read
<1>4. ASSUME NEW r \in Requests, Postgres!LockRow(r) PROVE RequestInv(q)'
  <2>1. CASE Postgres!Answer(r, "refused", {})
    BY <1>a, <1>p, <2>1, Zenon
  <2>2. CASE /\ client' = [client EXCEPT ![r] = "locked"]
             /\ replicaCall' = [replicaCall EXCEPT ![r] = [phase |-> "holding", saw |-> row.doc]]
    BY <1>0, <1>4, <2>2, Zenon DEF RequestInv, PostgresTyped, Postgres!LockRow
  <2> QED
    BY <1>4, <2>1, <2>2, Zenon DEF Postgres!LockRow
<1>5. ASSUME NEW u \in Updates, Postgres!MutateAndWrite(u) PROVE RequestInv(q)'
  <2>1. CASE Postgres!Answer(u, "refused", {}) \/ Postgres!Answer(u, "read", base[u].doc)
    BY <1>a, <1>p, <1>w, <2>1, Zenon
  <2>2. CASE client' = [client EXCEPT ![u] = "written"] /\ UNCHANGED replicaCall
    BY <1>5, <1>m, <1>w, <1>c, <2>2, Zenon DEF Postgres!MutateAndWrite, RequestInv
  <2> QED
    BY <1>5, <2>1, <2>2, Zenon DEF Postgres!MutateAndWrite
<1>6. ASSUME NEW u \in Updates, Postgres!SendCommit(u) PROVE RequestInv(q)'
  <2>1. CASE Postgres!Answer(u, "refused", {})
    BY <1>a, <1>p, <1>w, <2>1, Zenon
  <2>2. CASE client' = [client EXCEPT ![u] = "committing"] /\ UNCHANGED replicaCall
    BY <1>6, <1>m, <1>w, <1>c, <2>2, Zenon DEF Postgres!SendCommit, RequestInv
  <2> QED
    BY <1>6, <2>1, <2>2, Zenon DEF Postgres!SendCommit
<1>7. ASSUME NEW u \in Updates, Postgres!CommitAnswered(u) PROVE RequestInv(q)'
  BY <1>7, <1>a, <1>p, <1>w, Zenon DEF Postgres!CommitAnswered
<1>8. ASSUME NEW u \in Updates, Postgres!CommitFails(u) PROVE RequestInv(q)'
  BY <1>8, <1>m, <1>w, <1>c, Zenon DEF Postgres!CommitFails, RequestInv
<1>9. ASSUME NEW u \in Updates, Postgres!ResolveWriteReceipt(u) PROVE RequestInv(q)'
  BY <1>9, <1>a, <1>s, <1>w, Zenon DEF Postgres!ResolveWriteReceipt, Postgres!Unresolved
<1>10. ASSUME NEW u \in Updates, Postgres!Commit(u) \/ Postgres!Abort(u) PROVE RequestInv(q)'
  BY <1>0, <1>10, Zenon DEF Postgres!Commit, Postgres!Abort, RequestInv
<1>11. ASSUME NEW p \in Processes, Postgres!Restart(p) PROVE RequestInv(q)'
  <2>1. /\ client'[q] = IF replicaOf[q] = p THEN "none" ELSE client[q]
        /\ replicaCall'[q].saw = replicaCall[q].saw
        /\ replicaCall'[q].phase =
             IF replicaOf[q] = p /\ replicaCall[q].phase \in {"running", "holding"}
             THEN "uncertain" ELSE replicaCall[q].phase
    BY <1>0, <1>11, Zenon DEF Postgres!Restart, Postgres!Running, PostgresTyped, Requests, Postgres!Requests
  <2> QED
    BY <1>0, <2>1, Zenon DEF RequestInv
<1>12. ASSUME Postgres!Promote PROVE RequestInv(q)'
  BY <1>0, <1>12, Zenon DEF Postgres!Promote, RequestInv
<1> QED
  BY <1>1, <1>2, <1>3, <1>4, <1>5, <1>6, <1>7, <1>8, <1>9, <1>10, <1>11, <1>12, Zenon
     DEF Postgres!Next, Postgres!Serve, Postgres!Work, Postgres!Requests, Requests

\* Only a commit changes the row and the receipts.
LEMMA RowFrame ==
    ASSUME Postgres!Next
    PROVE  UNCHANGED <<row, receipts>> \/ \E u \in Updates : Postgres!Commit(u)
<1>1. \A r \in Requests : Postgres!CheckAvailable(r) \/ Postgres!Read(r) \/ Postgres!LockRow(r)
         => UNCHANGED <<row, receipts>>
  BY Zenon DEF Postgres!CheckAvailable, Postgres!Read, Postgres!LockRow
<1>2. \A u \in Updates : Postgres!CommitAnswered(u) \/ Postgres!CommitFails(u)
         \/ Postgres!ResolveWriteReceipt(u) => UNCHANGED <<row, receipts>>
  BY Zenon DEF Postgres!CommitAnswered, Postgres!CommitFails, Postgres!ResolveWriteReceipt
<1>3. \A u \in Updates : Postgres!MutateAndWrite(u) \/ Postgres!SendCommit(u) \/ Postgres!Abort(u)
         => UNCHANGED <<row, receipts>>
  BY Zenon DEF Postgres!MutateAndWrite, Postgres!SendCommit, Postgres!Abort, Postgres!RollBack
<1>4. /\ \A r \in Requests, p \in Processes : Postgres!Call(r, p) => UNCHANGED <<row, receipts>>
      /\ \A p \in Processes : Postgres!Restart(p) => UNCHANGED <<row, receipts>>
      /\ Postgres!Promote => UNCHANGED <<row, receipts>>
  BY Zenon DEF Postgres!Call, Postgres!Restart, Postgres!Promote
<1> QED
  BY <1>1, <1>2, <1>3, <1>4, Zenon
     DEF Postgres!Next, Postgres!Serve, Postgres!Work, Postgres!Requests, Requests

LEMMA RowStep == ASSUME PostgresInv, Postgres!Next PROVE RowInv'
<1>0. Postgres!TypeOK /\ PostgresTyped /\ RowInv
  BY PostgresIsTyped, Zenon DEF PostgresInv
<1>1. CASE UNCHANGED <<row, receipts>>
  BY <1>0, <1>1 DEF RowInv, Postgres!ReceiptsBindRevisions
<1>2. ASSUME NEW u \in Updates, Postgres!Commit(u) PROVE RowInv'
  <2>1. /\ base[u] = row /\ u \notin row.doc
        /\ \A v \in Updates : receipts[v] <= row.revision /\ receipts[v] \in Nat
    BY <1>0, <1>2, Zenon DEF Postgres!Commit, UpdateInv, PostgresInv, PostgresTyped
  <2>2. /\ row'.doc = row.doc \cup {u} /\ row'.revision = row.revision + 1 /\ row'.last = u
        /\ receipts' = [receipts EXCEPT ![u] = row.revision + 1]
    <3>1. row' = Postgres!WrittenRow(u)
          /\ receipts' = [receipts EXCEPT ![u] = Postgres!WrittenRow(u).revision]
      BY <1>2, Zenon DEF Postgres!Commit
    <3>2. /\ Postgres!WrittenRow(u).doc = row.doc \cup {u}
          /\ Postgres!WrittenRow(u).revision = row.revision + 1
          /\ Postgres!WrittenRow(u).last = u
      BY <1>0, <2>1, WrittenRowTypes, Zenon
    <3> QED
      BY <3>1, <3>2, Zenon
  <2>3. /\ \A v \in Updates \ {u} : receipts'[v] = receipts[v]
        /\ receipts'[u] = row.revision + 1
    BY <1>0, <2>2, Zenon DEF PostgresTyped
  <2>4. row.revision \in Nat /\ row.revision >= 1
    BY <1>0, Zenon DEF PostgresTyped, RowInv
  <2>5. row'.doc \subseteq Updates /\ row'.last \in row'.doc
    BY <1>0, <2>2, Zenon DEF RowInv
  <2>6. {receipts'[v] : v \in row'.doc} = 2..row'.revision
    <3>1. {receipts'[v] : v \in row.doc} = {receipts[v] : v \in row.doc}
      BY <1>0, <2>1, <2>3, Zenon DEF RowInv
    <3>2. {receipts'[v] : v \in row'.doc} = {receipts'[v] : v \in row.doc} \cup {receipts'[u]}
      BY <2>2, Zenon
    <3>3. {receipts[v] : v \in row.doc} = 2..row.revision
      BY <1>0, Zenon DEF RowInv, Postgres!ReceiptsBindRevisions
    <3>4. 2..row'.revision = 2..row.revision \cup {row.revision + 1}
      BY <2>2, <2>4
    <3> QED
      BY <2>3, <3>1, <3>2, <3>3, <3>4, Zenon
  <2>7. {v \in Updates : receipts'[v] # 0} = row'.doc
    BY <1>0, <2>2, <2>3, <2>4, <2>5 DEF RowInv, Postgres!ReceiptsBindRevisions
  <2>8. \A v, w \in row'.doc : receipts'[v] = receipts'[w] => v = w
    BY <1>0, <2>1, <2>2, <2>3, <2>4, <2>5 DEF RowInv, Postgres!ReceiptsBindRevisions
  <2> QED
    BY <2>2, <2>3, <2>4, <2>5, <2>6, <2>7, <2>8 DEF RowInv, Postgres!ReceiptsBindRevisions
<1> QED
  BY <1>1, <1>2, RowFrame, Zenon

LEMMA PostgresInvInit == Postgres!Init => PostgresInv
<1> SUFFICES ASSUME Postgres!Init PROVE PostgresInv
  BY Zenon
<1>1. /\ row.doc = {} /\ row.revision = 1 /\ row.last = None /\ row \in Postgres!Rows
  BY Zenon DEF Postgres!Init, Postgres!EmptyRow, Postgres!Rows, Postgres!Documents
<1>2. Postgres!TypeOK
  BY <1>1, Zenon DEF Postgres!Init, Postgres!TypeOK, Postgres!Documents
<1>3. 2..1 = {} /\ {receipts[u] : u \in {}} = {}
  OBVIOUS
<1>4. RowInv
  BY <1>1, <1>3 DEF RowInv, Postgres!ReceiptsBindRevisions, Postgres!Init
<1>5. \A u \in Updates : UpdateInv(u)
  BY <1>1 DEF Postgres!Init, UpdateInv, Postgres!Requests
<1>6. \A r \in Requests : RequestInv(r)
  BY Zenon DEF Postgres!Init, RequestInv, Postgres!Requests, Requests
<1> QED
  BY <1>2, <1>4, <1>5, <1>6, Zenon DEF PostgresInv

LEMMA PostgresInvStep == PostgresInv /\ [Postgres!Next]_(Postgres!vars) => PostgresInv'
<1>1. ASSUME PostgresInv, Postgres!Next PROVE PostgresInv'
  <2>1. Postgres!TypeOK' /\ RowInv'
    BY <1>1, PostgresTypeStep, RowStep, Zenon DEF PostgresInv
  <2>2. \A u \in Updates : UpdateInv(u)'
    BY <1>1, UpdateStep, Zenon
  <2>3. \A r \in Requests : RequestInv(r)'
    BY <1>1, RequestStep, Zenon
  <2> QED
    BY <2>1, <2>2, <2>3, Zenon DEF PostgresInv
<1>2. ASSUME PostgresInv, UNCHANGED Postgres!vars PROVE PostgresInv'
  <2>1. UNCHANGED <<row, receipts, rowLock, server, client, base, gate, replicaOf, replicaCall>>
    BY <1>2, Zenon DEF Postgres!vars
  <2>2. Postgres!TypeOK'
    BY <1>2, <2>1, Zenon DEF PostgresInv, Postgres!TypeOK
  <2>3. RowInv' /\ (\A u \in Updates : UpdateInv(u)') /\ (\A r \in Requests : RequestInv(r)')
    BY <1>2, <2>1 DEF PostgresInv, RowInv, UpdateInv, RequestInv, Postgres!ReceiptsBindRevisions
  <2> QED
    BY <2>2, <2>3, Zenon DEF PostgresInv
<1> QED
  BY <1>1, <1>2, Zenon

-----------------------------------------------------------------------------
(* The replicated store implements StateStore. *)

\* How a request of the replicated store is answered, in StateStore's terms.
LEMMA ReplicaAnswers ==
    ASSUME PostgresInv, NEW r \in Requests, NEW phase \in {"read", "refused", "uncertain", "done"},
           NEW saw \in Documents, Postgres!Answer(r, phase, saw), UNCHANGED row,
           replicaCall[r].phase \in {"running", "holding"},
           phase = "read" => /\ r \notin row.doc
                             /\ replicaCall[r].phase = "holding" => saw = replicaCall[r].saw
                             /\ replicaCall[r].phase = "running" => saw = row.doc,
           phase = "refused" => r \notin row.doc /\ saw = {},
           phase = "uncertain" => saw = replicaCall[r].saw,
           phase = "done" => /\ replicaCall[r].phase = "holding" /\ r \in row.doc
                             /\ saw = replicaCall[r].saw \cup {r}
    PROVE  Postgres!Store!Next
<1>0. /\ replicaCall \in [Requests -> [phase : CallPhases, saw : Documents]]
      /\ Postgres!Requests = Requests
  BY PostgresIsTyped, Zenon DEF PostgresInv, PostgresTyped, Requests, Postgres!Requests
<1>1. replicaCall' = [replicaCall EXCEPT ![r] = [phase |-> phase, saw |-> saw]] /\ UNCHANGED row.doc
  BY Zenon DEF Postgres!Answer
<1>2. r \in Postgres!Store!Running
  BY <1>0, Zenon DEF Postgres!Store!Running
<1>3. CASE phase = "read"
  <2>1. Postgres!Store!Read(r)
    BY <1>0, <1>1, <1>2, <1>3, Zenon DEF Postgres!Store!Read, Postgres!Store!Answered
  <2> QED
    BY <1>0, <2>1, Zenon DEF Postgres!Store!Next
<1>4. CASE phase = "refused"
  <2>1. Postgres!Store!Refuse(r)
    BY <1>0, <1>1, <1>2, <1>4, Zenon DEF Postgres!Store!Refuse, Postgres!Store!Answered
  <2> QED
    BY <1>0, <2>1, Zenon DEF Postgres!Store!Next
<1>5. CASE phase = "done"
  <2>1. Postgres!Store!Succeed(r)
    BY <1>0, <1>1, <1>2, <1>5, Zenon DEF Postgres!Store!Succeed, Postgres!Store!Answered
  <2> QED
    BY <1>0, <2>1, Zenon DEF Postgres!Store!Next
<1>6. CASE phase = "uncertain"
  <2>1. Postgres!Store!Doubt({r})
    BY <1>0, <1>1, <1>2, <1>6, Zenon DEF Postgres!Store!Doubt, Postgres!Store!Answered
  <2>2. {r} \in SUBSET Postgres!Store!Running
    BY <1>2, Zenon
  <2> QED
    BY <2>1, <2>2, Zenon DEF Postgres!Store!Next
<1> QED
  BY <1>3, <1>4, <1>5, <1>6, Zenon

LEMMA PostgresRefines ==
    ASSUME PostgresInv, [Postgres!Next]_(Postgres!vars)
    PROVE  [Postgres!Store!Next]_(Postgres!Store!vars)
<1> DEFINE Stutter == UNCHANGED <<row, replicaCall>>
           Goal == Postgres!Store!Next \/ Stutter
<1>0. /\ Postgres!TypeOK /\ PostgresTyped
      /\ \A u \in Updates : UpdateInv(u) /\ RequestInv(u) /\ u \in Requests
      /\ \A r \in Requests : RequestInv(r)
      /\ Postgres!Requests = Requests
  BY PostgresIsTyped, Zenon DEF PostgresInv, PostgresTyped, Requests, Postgres!Requests
<1>p. {} \in Documents /\ row.doc \in Documents
  BY <1>0, Zenon DEF Documents, PostgresTyped
<1>s. ASSUME NEW r \in Requests PROVE replicaCall[r].saw \in Documents
  BY <1>0, Zenon DEF PostgresTyped
<1>w. ASSUME NEW u \in Updates
      PROVE  /\ Postgres!WrittenRow(u).doc = base[u].doc \cup {u} /\ base[u].doc \in Documents
             /\ Postgres!WrittenRow(u).doc \in Documents
             /\ Postgres!WrittenRow(u).revision = base[u].revision + 1 /\ base[u].revision \in Nat
  BY <1>0, WrittenRowTypes, RowTypes, Zenon DEF PostgresTyped
<1>1. ASSUME NEW r \in Requests, NEW p \in Processes, Postgres!Call(r, p) PROVE Goal
  <2>1. replicaCall[r].phase = "idle" /\ replicaCall[r].saw = {}
    BY <1>0, <1>1, Zenon DEF Postgres!Call, RequestInv
  <2>2. [replicaCall[r] EXCEPT !.phase = "running"] = [phase |-> "running", saw |-> replicaCall[r].saw]
    BY <1>0 DEF PostgresTyped
  <2>3. replicaCall' = [replicaCall EXCEPT ![r] = [phase |-> "running", saw |-> {}]] /\ UNCHANGED row
    BY <1>0, <1>1, <2>1, <2>2, Zenon DEF Postgres!Call, PostgresTyped
  <2>4. Postgres!Store!Call(r)
    BY <2>1, <2>3, Zenon DEF Postgres!Store!Call, Postgres!Store!Answered
  <2> QED
    BY <1>0, <2>4, Zenon DEF Postgres!Store!Next
<1>2. ASSUME NEW r \in Requests, Postgres!CheckAvailable(r) PROVE Goal
  BY <1>2, <1>s, ReplicaAnswers, Zenon DEF Postgres!CheckAvailable
<1>3. ASSUME NEW r \in Requests, Postgres!Read(r) PROVE Goal
  <2>1. replicaCall[r].phase = "running" /\ r \notin row.doc
    BY <1>0, <1>3, FileStoreAssumption, Zenon DEF Postgres!Read, RequestInv, PostgresInv, RowInv
  <2> QED
    BY <1>3, <1>p, <2>1, ReplicaAnswers, Zenon DEF Postgres!Read
<1>4. ASSUME NEW r \in Requests, Postgres!LockRow(r) PROVE Goal
  <2>1. replicaCall[r].phase = "running" /\ r \notin row.doc /\ UNCHANGED row
    BY <1>0, <1>4, Zenon DEF Postgres!LockRow, RequestInv, UpdateInv
  <2>2. CASE Postgres!Answer(r, "refused", {})
    BY <1>p, <2>1, <2>2, ReplicaAnswers, Zenon
  <2>3. CASE replicaCall' = [replicaCall EXCEPT ![r] = [phase |-> "holding", saw |-> row.doc]]
    <3>1. Postgres!Store!Observe(r)
      BY <2>1, <2>3, Zenon DEF Postgres!Store!Observe, Postgres!Store!Answered
    <3> QED
      BY <1>0, <3>1, Zenon DEF Postgres!Store!Next
  <2> QED
    BY <1>4, <2>2, <2>3, Zenon DEF Postgres!LockRow
<1>5. ASSUME NEW u \in Updates, Postgres!MutateAndWrite(u) PROVE Goal
  <2>1. /\ replicaCall[u].phase = "holding" /\ u \notin row.doc /\ UNCHANGED row
        /\ replicaCall[u].saw = base[u].doc
    BY <1>0, <1>5, Zenon DEF Postgres!MutateAndWrite, Postgres!RollBack, RequestInv, UpdateInv
  <2>2. CASE Postgres!Answer(u, "refused", {}) \/ Postgres!Answer(u, "read", base[u].doc)
    BY <1>0, <1>p, <1>w, <2>1, <2>2, ReplicaAnswers, Zenon
  <2> QED
    BY <1>5, <2>1, <2>2, Zenon DEF Postgres!MutateAndWrite
<1>6. ASSUME NEW u \in Updates, Postgres!SendCommit(u) PROVE Goal
  <2>1. replicaCall[u].phase = "holding" /\ u \notin row.doc /\ UNCHANGED row
    BY <1>0, <1>6, Zenon DEF Postgres!SendCommit, Postgres!RollBack, RequestInv, UpdateInv
  <2>2. CASE Postgres!Answer(u, "refused", {})
    BY <1>0, <1>p, <2>1, <2>2, ReplicaAnswers, Zenon
  <2> QED
    BY <1>6, <2>1, <2>2, Zenon DEF Postgres!SendCommit
<1>7. ASSUME NEW u \in Updates, Postgres!CommitAnswered(u) PROVE Goal
  <2>1. /\ replicaCall[u].phase = "holding" /\ UNCHANGED row
        /\ replicaCall[u].saw = base[u].doc
        /\ server[u] = "committed" <=> u \in row.doc
    BY <1>0, <1>7, Zenon DEF Postgres!CommitAnswered, RequestInv, UpdateInv
  <2>2. CASE server[u] = "committed" /\ Postgres!Answer(u, "done", Postgres!WrittenRow(u).doc)
    BY <1>0, <1>w, <2>1, <2>2, ReplicaAnswers, Zenon
  <2>3. CASE server[u] = "aborted" /\ Postgres!Answer(u, "refused", {})
    BY <1>0, <1>p, <2>1, <2>3, ReplicaAnswers, Zenon
  <2> QED
    BY <1>7, <2>2, <2>3, Zenon DEF Postgres!CommitAnswered
<1>8. ASSUME NEW u \in Updates, Postgres!CommitFails(u) \/ Postgres!Abort(u) PROVE Goal
  BY <1>8, Zenon DEF Postgres!CommitFails, Postgres!Abort, Postgres!RollBack
<1>9. ASSUME NEW u \in Updates, Postgres!ResolveWriteReceipt(u) PROVE Goal
  <2>1. /\ replicaCall[u].phase = "holding" /\ UNCHANGED row
        /\ replicaCall[u].saw = base[u].doc
    BY <1>0, <1>9, Zenon DEF Postgres!ResolveWriteReceipt, RequestInv, UpdateInv
  <2>2. CASE /\ receipts[u] = Postgres!WrittenRow(u).revision
             /\ Postgres!Answer(u, "done", Postgres!WrittenRow(u).doc)
    <3>1. u \in row.doc
      BY <1>0, <1>w, <2>2 DEF UpdateInv
    <3> QED
      BY <1>0, <1>w, <2>1, <2>2, <3>1, ReplicaAnswers, Zenon
  <2>3. CASE Postgres!Answer(u, "uncertain", replicaCall[u].saw)
    BY <1>0, <1>s, <2>1, <2>3, ReplicaAnswers, Zenon
  <2> QED
    BY <1>9, <2>2, <2>3, Zenon DEF Postgres!ResolveWriteReceipt, Postgres!Unresolved
<1>10. ASSUME NEW u \in Updates, Postgres!Commit(u) PROVE Goal
  <2>1. /\ base[u] = row /\ u \notin row.doc /\ replicaCall[u].phase \in {"holding", "uncertain"}
        /\ replicaCall[u].saw = row.doc
    BY <1>0, <1>10, Zenon DEF Postgres!Commit, UpdateInv
  <2>2. row'.doc = row.doc \cup {u} /\ UNCHANGED replicaCall
    BY <1>w, <1>10, <2>1, Zenon DEF Postgres!Commit
  <2>3. Postgres!Store!TakeEffect(u)
    BY <2>1, <2>2, Zenon DEF Postgres!Store!TakeEffect
  <2> QED
    BY <1>0, <2>3, Zenon DEF Postgres!Store!Next
<1>11. ASSUME NEW p \in Processes, Postgres!Restart(p) PROVE Goal
  <2> DEFINE lost == {r \in Requests : replicaOf[r] = p /\ replicaCall[r].phase \in {"running", "holding"}}
  <2>1. replicaCall' = [r \in Requests |-> IF r \in lost
                          THEN [replicaCall[r] EXCEPT !.phase = "uncertain"] ELSE replicaCall[r]]
    BY <1>0, <1>11, Zenon DEF Postgres!Restart, Postgres!Running
  <2>2. \A r \in Requests : [replicaCall[r] EXCEPT !.phase = "uncertain"]
                              = [phase |-> "uncertain", saw |-> replicaCall[r].saw]
    BY <1>0 DEF PostgresTyped
  <2>3. Postgres!Store!Doubt(lost)
    BY <1>0, <1>11, <2>1, <2>2, Zenon DEF Postgres!Store!Doubt, Postgres!Store!Answered, Postgres!Restart
  <2>4. lost \in SUBSET Postgres!Store!Running
    BY <1>0, Zenon DEF Postgres!Store!Running
  <2> QED
    BY <2>3, <2>4, Zenon DEF Postgres!Store!Next
<1>12. ASSUME Postgres!Promote PROVE Goal
  BY <1>12, Zenon DEF Postgres!Promote
<1>13. ASSUME UNCHANGED Postgres!vars PROVE Stutter
  BY <1>13, Zenon DEF Postgres!vars
<1>14. Goal => [Postgres!Store!Next]_(Postgres!Store!vars)
  BY Zenon DEF Postgres!Store!vars
<1> HIDE DEF Goal
<1>15. ASSUME Postgres!Next PROVE Goal
  BY <1>15, <1>1, <1>2, <1>3, <1>4, <1>5, <1>6, <1>7, <1>8, <1>9, <1>10, <1>11, <1>12, Zenon
     DEF Postgres!Next, Postgres!Serve, Postgres!Work, Postgres!Requests, Requests
<1> QED
  BY <1>13, <1>14, <1>15, Zenon DEF Goal

LEMMA PostgresStoreInit == Postgres!Init => Postgres!Store!Init
BY DEF Postgres!Init, Postgres!EmptyRow, Postgres!Store!Init, Postgres!Store!NotCalled

\* Concurrent replicas, promotions and lost answers never lose, repeat or misreport an
\* update: the replicated store implements StateStore.
THEOREM ReplicatedStoreImplements == Postgres!Spec => Postgres!ImplementsStateStore
<1>1. Postgres!Init => PostgresInv /\ Postgres!Store!Init
  BY PostgresInvInit, PostgresStoreInit, Zenon
<1>2. PostgresInv /\ [Postgres!Next]_(Postgres!vars) => PostgresInv'
  BY PostgresInvStep, Zenon
<1>3. PostgresInv /\ [Postgres!Next]_(Postgres!vars) => [Postgres!Store!Next]_(Postgres!Store!vars)
  BY PostgresRefines, Zenon
<1> QED
  BY <1>1, <1>2, <1>3, PTL DEF Postgres!Spec, Postgres!ImplementsStateStore, Postgres!Store!Spec

-----------------------------------------------------------------------------
(* Whichever store is configured. *)

LEMMA SuiteStep ==
    ASSUME [NextStores]_allVars
    PROVE  [Next]_vars /\ [Postgres!Next]_(Postgres!vars)
<1>1. CASE Next /\ UNCHANGED <<database, subject>>
  BY <1>1, Zenon DEF database, Postgres!vars
<1>2. CASE Postgres!Next /\ UNCHANGED <<vars, subject>>
  BY <1>2, Zenon
<1>3. CASE UNCHANGED allVars
  BY <1>3, Zenon DEF allVars, database, Postgres!vars
<1> QED
  BY <1>1, <1>2, <1>3, Zenon DEF NextStores

\* Whichever store is configured, its memory, file and disk agree whenever it may answer, and
\* each receipt of the database proves one commit (store.go, postgresstore).
THEOREM StoresAreConsistent ==
    ASSUME ~(PowerLoss /\ OpenUnsynced)
    PROVE  StoresSpec => []StoresConsistent
<1> DEFINE I == TypeOK /\ Rest /\ PostgresInv
<1>1. InitStores => I
  BY RestInit, PostgresInvInit, Zenon DEF InitStores
<1>2. I /\ [NextStores]_allVars => I'
  BY SuiteStep, RestStep, PostgresInvStep, Zenon
<1>3. I => StoresConsistent
  BY RestMatches, Zenon DEF StoresConsistent, PostgresInv, RowInv
<1>4. StoresSpec => InitStores /\ [][NextStores]_allVars
  BY Zenon DEF StoresSpec
<1> HIDE DEF I
<1> QED
  BY <1>1, <1>2, <1>3, <1>4, PTL

\* Whichever store is configured, it keeps the contract of StateStore (store.go,
\* postgresstore).
THEOREM StoresKeepContract ==
    ASSUME ~(PowerLoss /\ OpenUnsynced)
    PROVE  StoresSpec => StoresImplement
<1>1. InitStores => Init /\ Postgres!Init
  BY Zenon DEF InitStores
<1>2. [NextStores]_allVars => [Next]_vars /\ [Postgres!Next]_(Postgres!vars)
  BY SuiteStep, Zenon
<1>3. StoresSpec => InitStores /\ [][NextStores]_allVars
  BY Zenon DEF StoresSpec
<1>4. InitStores /\ [][NextStores]_allVars => Spec /\ Postgres!Spec
  BY <1>1, <1>2, PTL DEF Spec, Postgres!Spec
<1>5. Spec => ImplementsStateStore
  BY FileStoreImplements, Zenon
<1> QED
  BY <1>3, <1>4, <1>5, ReplicatedStoreImplements, Zenon DEF StoresImplement
=============================================================================
