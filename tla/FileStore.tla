----------------------------- MODULE FileStore ------------------------------
(***************************************************************************)
(* The single-writer JSON store of internal/control/store.go, which        *)
(* internal/identity/filestore.go and                                      *)
(* internal/runtimetelemetry/file_store.go repeat for their documents: an  *)
(* exclusive lock file, a copy of the document in memory, replacement of   *)
(* the file by write-temporary / fsync / rename / fsync-directory, and a   *)
(* durabilityPending barrier that later calls must cross when the          *)
(* directory could not be synchronised.                                    *)
(*                                                                         *)
(* A document is the set of updates it contains, as in StateStore.  The    *)
(* file system is external: "file" is what the path names in the running   *)
(* kernel, "disk" is what it names after a power loss.  A rename reaches   *)
(* the disk when the directory is synchronised or, on its own, at any      *)
(* moment before.                                                          *)
(***************************************************************************)
CONSTANTS
    Processes,       \* mesh-server processes that may use the directory
    Updates, Views,  \* the requests made of the store
    None,            \* no process, no request
    PowerLoss,       \* the machine may lose power
    OpenUnsynced     \* a process may start over a directory whose last rename
                     \* has not reached the disk

ASSUME FileStoreAssumption ==
    /\ Updates \cap Views = {}
    /\ None \notin Processes \cup Updates \cup Views
    /\ PowerLoss \in BOOLEAN
    /\ OpenUnsynced \in BOOLEAN

Requests == Updates \cup Views

Documents == SUBSET Requests

(* What a path may name: nothing, a file with a document in it, or a file  *)
(* whose bytes never reached the disk.                                     *)
Files == [kind : {"absent", "whole", "torn"}, doc : Documents]

NoFile == [kind |-> "absent", doc |-> {}]

FileOf(d) == [kind |-> "whole", doc |-> d]

TornFile == [kind |-> "torn", doc |-> {}]

(* The strict decoder and the graph validation accept every document that  *)
(* was ever encoded whole.                                                 *)
Decodes(f) == f.kind # "torn"

VARIABLES
    file,     \* what the state path names in the running kernel
    flushed,  \* whether the bytes of that file have been synchronised
    disk,     \* what the state path names after a power loss
    lock,     \* the process holding .mesh.lock, or None
    proc,     \* per process: "down", "opening", "open" or "closed"
    mem,      \* Store.state of each process
    pending,  \* Store.durabilityPending of each process
    work,     \* what the holder of Store.mu is doing in each process
    at,       \* the process that serves each request
    call      \* as in StateStore

storage == <<file, flushed, disk>>
vars == <<file, flushed, disk, lock, proc, mem, pending, work, at, call>>

(***************************************************************************)
(* work[p]: the step the mutex holder of p is about to take, for which     *)
(* request (None: OpenStore itself), and the in-memory state to put back   *)
(* when the write definitely failed.                                       *)
(***************************************************************************)
Steps == {"free", "mutate", "write", "rename", "sync", "return"}

Idle == [step |-> "free", req |-> None, previous |-> {}]

At(p, step) == [work EXCEPT ![p].step = step]

Calls == [phase : {"idle", "running", "holding", "done", "read", "refused",
                   "uncertain"},
          saw : Documents]

Running(r) == call[r].phase \in {"running", "holding"}

Answer(r, phase, saw) == [call EXCEPT ![r] = [phase |-> phase, saw |-> saw]]

Uncertain(r) == Answer(r, "uncertain", call[r].saw)

TypeOK ==
    /\ file \in Files
    /\ flushed \in BOOLEAN
    /\ disk \in Files
    /\ lock \in Processes \cup {None}
    /\ proc \in [Processes -> {"down", "opening", "open", "closed"}]
    /\ mem \in [Processes -> Documents]
    /\ pending \in [Processes -> BOOLEAN]
    /\ work \in [Processes -> [step : Steps, req : Requests \cup {None},
                               previous : Documents]]
    /\ at \in [Requests -> Processes \cup {None}]
    /\ call \in [Requests -> Calls]

Init ==
    /\ file = NoFile
    /\ flushed = TRUE
    /\ disk = NoFile
    /\ lock = None
    /\ proc = [p \in Processes |-> "down"]
    /\ mem = [p \in Processes |-> {}]
    /\ pending = [p \in Processes |-> FALSE]
    /\ work = [p \in Processes |-> Idle]
    /\ at = [r \in Requests |-> None]
    /\ call = [r \in Requests |-> [phase |-> "idle", saw |-> {}]]

-----------------------------------------------------------------------------
(* The file system. *)

(* What the disk holds once the directory entry has been written.  A name  *)
(* that reaches the disk before the bytes behind it names a torn file.     *)
Written == IF flushed THEN file ELSE TornFile

(* The kernel writes the directory back in its own time. *)
Writeback ==
    /\ disk # Written
    /\ disk' = Written
    /\ UNCHANGED <<file, flushed, lock, proc, mem, pending, work, at, call>>

(* A process that stops without Close: the kernel drops its lock, its      *)
(* callers never get an answer, and its temporary file is left behind.     *)
Stopped(S) ==
    /\ proc' = [p \in Processes |-> IF p \in S THEN "down" ELSE proc[p]]
    /\ lock' = IF lock \in S THEN None ELSE lock
    /\ pending' = [p \in Processes |-> IF p \in S THEN FALSE ELSE pending[p]]
    /\ work' = [p \in Processes |-> IF p \in S THEN Idle ELSE work[p]]
    /\ call' = [r \in Requests |->
                  IF at[r] \in S /\ Running(r)
                  THEN [call[r] EXCEPT !.phase = "uncertain"] ELSE call[r]]
    /\ UNCHANGED <<mem, at>>

ProcessCrash(p) ==
    /\ proc[p] # "down"
    /\ Stopped({p})
    /\ UNCHANGED storage

LosePower ==
    /\ PowerLoss
    /\ file' = disk
    /\ flushed' = TRUE
    /\ UNCHANGED disk
    /\ Stopped(Processes)

-----------------------------------------------------------------------------
(* OpenStore and Close. *)

(* OpenStore: take the lock, read the file, keep what it holds; write the  *)
(* first document when there is none.  A torn file does not decode, so     *)
(* the process gives up; so does one that finds the lock taken.            *)
OpenStore(p) ==
    /\ proc[p] = "down"
    /\ lock = None
    /\ OpenUnsynced \/ disk = file
    /\ Decodes(file)
    /\ lock' = p
    /\ IF file.kind = "absent"
         THEN /\ proc' = [proc EXCEPT ![p] = "opening"]
              /\ mem' = [mem EXCEPT ![p] = {}]
              /\ work' = At(p, "write")
         ELSE /\ proc' = [proc EXCEPT ![p] = "open"]
              /\ mem' = [mem EXCEPT ![p] = file.doc]
              /\ UNCHANGED work
    /\ pending' = [pending EXCEPT ![p] = FALSE]
    /\ UNCHANGED <<file, flushed, disk, at, call>>

(* The outcomes of synchronising the directory in process p: it succeeds,  *)
(* or it fails and the rename stays where it was.                          *)
SyncSucceeds == disk' = Written
SyncFails == UNCHANGED disk

Close(p) ==
    /\ proc[p] = "open"
    /\ work[p].step = "free"
    /\ \/ /\ pending[p]
          /\ SyncFails
          /\ UNCHANGED pending
       \/ /\ IF pending[p] THEN SyncSucceeds ELSE UNCHANGED disk
          /\ pending' = [pending EXCEPT ![p] = FALSE]
    /\ lock' = None
    /\ proc' = [proc EXCEPT ![p] = "closed"]
    /\ UNCHANGED <<file, flushed, mem, work, at, call>>

-----------------------------------------------------------------------------
(* Requests. *)

Serving(p, r) == at[r] = p /\ call[r].phase = "running"

Call(r, p) ==
    /\ call[r].phase = "idle"
    /\ proc[p] \in {"open", "closed"}
    /\ call' = Answer(r, "running", {})
    /\ at' = [at EXCEPT ![r] = p]
    /\ UNCHANGED <<file, flushed, disk, lock, proc, mem, pending, work>>

(* Mutant: only Update looks for the closed store. *)
RefuseClosedUpdate(r) ==
    /\ r \in Updates
    /\ \E p \in Processes : Serving(p, r) /\ proc[p] = "closed"
    /\ call' = Answer(r, "refused", {})
    /\ UNCHANGED <<file, flushed, disk, lock, proc, mem, pending, work, at>>

(* Any call of a closed store returns ErrClosed. *)
RefuseClosed(r) ==
    /\ \E p \in Processes : Serving(p, r) /\ proc[p] = "closed"
    /\ call' = Answer(r, "refused", {})
    /\ UNCHANGED <<file, flushed, disk, lock, proc, mem, pending, work, at>>

(* View and readCurrent under the read lock: no snapshot of a document     *)
(* whose durability is pending.                                            *)
MayRead(p) == ~pending[p]

View(p, r) ==
    /\ r \in Views
    /\ Serving(p, r)
    /\ proc[p] = "open"
    /\ work[p].step = "free"
    /\ MayRead(p)
    /\ call' = Answer(r, "read", mem[p])
    /\ UNCHANGED <<file, flushed, disk, lock, proc, mem, pending, work, at>>

(* ensureDurable from a View that found the barrier up: it goes round      *)
(* again after a successful sync, and returns ErrUncertainCommit if not.   *)
ViewEnsureDurable(p, r) ==
    /\ r \in Views
    /\ Serving(p, r)
    /\ proc[p] = "open"
    /\ work[p].step = "free"
    /\ pending[p]
    /\ \/ /\ SyncSucceeds
          /\ pending' = [pending EXCEPT ![p] = FALSE]
          /\ UNCHANGED call
       \/ /\ SyncFails
          /\ call' = Uncertain(r)
          /\ UNCHANGED pending
    /\ UNCHANGED <<file, flushed, lock, proc, mem, work, at>>

(* CheckReadiness crosses the same barrier; its failure changes nothing.   *)
CheckReadiness(p) ==
    /\ proc[p] = "open"
    /\ work[p].step = "free"
    /\ pending[p]
    /\ SyncSucceeds
    /\ pending' = [pending EXCEPT ![p] = FALSE]
    /\ UNCHANGED <<file, flushed, lock, proc, mem, work, at, call>>

(* Update takes the mutex and crosses the barrier before anything else. *)
UpdateBegin(p, r) ==
    /\ r \in Updates
    /\ Serving(p, r)
    /\ proc[p] = "open"
    /\ work[p].step = "free"
    /\ \/ /\ IF pending[p] THEN SyncSucceeds ELSE UNCHANGED disk
          /\ pending' = [pending EXCEPT ![p] = FALSE]
          /\ work' = [work EXCEPT ![p] = [step |-> "mutate", req |-> r,
                                          previous |-> {}]]
          /\ UNCHANGED call
       \/ /\ pending[p]
          /\ SyncFails
          /\ call' = Uncertain(r)
          /\ UNCHANGED <<pending, work>>
    /\ UNCHANGED <<file, flushed, lock, proc, mem, at>>

(* The callback runs on a clone.  Its error, or a graph that does not      *)
(* validate, ends the Update; a result equal to the current state returns  *)
(* nil without a write; anything else becomes the state in memory and is   *)
(* then persisted.                                                         *)
Mutate(p) ==
    LET r == work[p].req IN
    /\ work[p].step = "mutate"
    /\ \/ /\ call' = Answer(r, "refused", {})
          /\ work' = [work EXCEPT ![p] = Idle]
          /\ UNCHANGED mem
       \/ /\ call' = Answer(r, "read", mem[p])
          /\ work' = [work EXCEPT ![p] = Idle]
          /\ UNCHANGED mem
       \/ /\ mem' = [mem EXCEPT ![p] = mem[p] \cup {r}]
          /\ work' = [work EXCEPT ![p] = [step |-> "write", req |-> r,
                                          previous |-> mem[p]]]
          /\ call' = Answer(r, "holding", mem[p])
    /\ UNCHANGED <<file, flushed, disk, lock, proc, pending, at>>

(* What a definite failure of persistLocked leaves in memory. *)
Restored(p) == work[p].previous

(* persistLocked failed before the rename: Update puts the previous state  *)
(* back and returns the error; OpenStore closes the store again.           *)
PersistFails(p) ==
    /\ work' = [work EXCEPT ![p] = Idle]
    /\ IF work[p].req = None
         THEN /\ proc' = [proc EXCEPT ![p] = "down"]
              /\ lock' = None
              /\ UNCHANGED <<mem, call>>
         ELSE /\ mem' = [mem EXCEPT ![p] = Restored(p)]
              /\ call' = Answer(work[p].req, "refused", {})
              /\ UNCHANGED <<proc, lock>>

(* Encode, create the temporary file, write, fsync and close it. *)
WriteTemporary(p) ==
    /\ work[p].step = "write"
    /\ \/ /\ work' = At(p, "rename")
          /\ UNCHANGED <<lock, proc, mem, call>>
       \/ PersistFails(p)
    /\ UNCHANGED <<file, flushed, disk, pending, at>>

(* Mutant: the temporary file is renamed without its fsync. *)
TemporaryUnsynced == FALSE

(* The temporary file was synchronised before it gets its name. *)
TemporarySynced == TRUE

Rename(p) ==
    /\ work[p].step = "rename"
    /\ \/ /\ file' = FileOf(mem[p])
          /\ flushed' = TemporarySynced
          /\ work' = At(p, "sync")
          /\ UNCHANGED <<lock, proc, mem, call>>
       \/ /\ PersistFails(p)
          /\ UNCHANGED <<file, flushed>>
    /\ UNCHANGED <<disk, pending, at>>

(* The parent directory's fsync, the last step of persistLocked.  When it  *)
(* fails, Update keeps the new state, raises the barrier and returns       *)
(* ErrUncertainCommit; OpenStore closes the store, which has no barrier    *)
(* up, and returns the error.                                              *)
SyncDirectory(p) ==
    /\ work[p].step = "sync"
    /\ \/ /\ SyncSucceeds
          /\ work' = At(p, "return")
          /\ UNCHANGED <<lock, proc, pending, call>>
       \/ /\ SyncFails
          /\ work' = [work EXCEPT ![p] = Idle]
          /\ IF work[p].req = None
               THEN /\ proc' = [proc EXCEPT ![p] = "down"]
                    /\ lock' = None
                    /\ UNCHANGED <<pending, call>>
               ELSE /\ pending' = [pending EXCEPT ![p] = TRUE]
                    /\ call' = Uncertain(work[p].req)
                    /\ UNCHANGED <<proc, lock>>
    /\ UNCHANGED <<file, flushed, mem, at>>

(* Update returns nil, or OpenStore returns the store. *)
Return(p) ==
    /\ work[p].step = "return"
    /\ work' = [work EXCEPT ![p] = Idle]
    /\ IF work[p].req = None
         THEN /\ proc' = [proc EXCEPT ![p] = "open"]
              /\ UNCHANGED call
         ELSE /\ call' = Answer(work[p].req, "done", mem[p])
              /\ UNCHANGED proc
    /\ UNCHANGED <<file, flushed, disk, lock, mem, pending, at>>

Persist(p) == WriteTemporary(p) \/ Rename(p) \/ SyncDirectory(p) \/ Return(p)

Serve(p, r) == View(p, r) \/ ViewEnsureDurable(p, r) \/ UpdateBegin(p, r)

Next ==
    \/ Writeback
    \/ LosePower
    \/ \E p \in Processes :
          \/ ProcessCrash(p) \/ OpenStore(p) \/ Close(p) \/ CheckReadiness(p)
          \/ Mutate(p) \/ Persist(p)
          \/ \E r \in Requests : Call(r, p) \/ Serve(p, r)
    \/ \E r \in Requests : RefuseClosed(r)

Spec == Init /\ [][Next]_vars

(***************************************************************************)
(* Nothing in a handler waits for the outside: a process that is not       *)
(* stopped goes on with what holds its mutex, and a request that is        *)
(* waiting for the mutex gets it in its turn.                              *)
(***************************************************************************)
Fairness ==
    /\ \A p \in Processes : WF_vars(Mutate(p) \/ Persist(p))
    /\ \A r \in Requests :
          /\ WF_vars(RefuseClosed(r))
          /\ \A p \in Processes : SF_vars(Serve(p, r))

FairSpec == Spec /\ Fairness

-----------------------------------------------------------------------------
(* Properties. *)

(* What a restart of the most drastic kind allowed would read. *)
Survives == IF PowerLoss THEN disk.doc ELSE file.doc

Store == INSTANCE StateStore WITH doc <- Survives

(* The file store implements StateStore: an Update takes effect once, in   *)
(* one step, when its rename becomes durable; nothing is answered from a   *)
(* document that a power loss could take back; and a definite error        *)
(* promises that the update never appears.  (store.go Update, View,        *)
(* ensureDurableLocked, persistLocked.)                                    *)
ImplementsStateStore == Store!Spec

(* The copy in memory that an open store answers from is the file's        *)
(* document, and it is the durable one unless the barrier is up; only the  *)
(* lock's holder has such a copy.  (Update's restore of the previous       *)
(* state, durabilityPending, the lock taken in OpenStore.)                 *)
MemoryMatches ==
    \A p \in Processes :
        (proc[p] = "open" /\ work[p].step = "free") =>
            /\ lock = p
            /\ mem[p] = file.doc
            /\ pending[p] \/ mem[p] = Survives

(* No call hangs: whatever fails and whoever holds the mutex, every        *)
(* request is answered or its process stops.  (A request is made once, so  *)
(* there is always a later moment with none running.)                      *)
EveryCallAnswered == []<>(\A r \in Requests : ~Running(r))
=============================================================================
