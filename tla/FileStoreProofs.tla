--------------------------- MODULE FileStoreProofs ---------------------------
(***************************************************************************)
(* What the file store keeps true of its memory, its file and the disk,    *)
(* for any processes and requests, with process crashes and, when no       *)
(* process starts over a directory whose last rename has not reached the   *)
(* disk, power losses.                                                     *)
(*                                                                         *)
(* The lock makes one process at a time the writer.  The disk lacks at     *)
(* most the last rename, that of an update which may still take effect;    *)
(* and what the writer has in memory is tied to the file by the step at    *)
(* which its update is.                                                    *)
(***************************************************************************)
EXTENDS FileStore, TLAPS

\* The disk holds the document of the file, where a power loss is possible.
Settled == PowerLoss => disk.doc = file.doc

\* The rename of update u is all that the disk lacks, and u may still take effect.
Owes(u) ==
    /\ u \notin disk.doc /\ file.doc = disk.doc \cup {u}
    /\ call[u].phase \in {"holding", "uncertain"} /\ call[u].saw = disk.doc

DiskInv ==
    /\ flushed
    /\ Decodes(file) /\ Decodes(disk)
    /\ file.kind = "absent" => file.doc = {}
    /\ disk.kind = "absent" => disk.doc = {}
    /\ Settled \/ \E u \in Updates : Owes(u)

\* An update shows in a document only once its callback has run, and until then it has
\* seen nothing.
CallInv(r) ==
    /\ call[r].phase = "idle" => call[r].saw = {}
    /\ r \in file.doc \/ (PowerLoss /\ r \in disk.doc) =>
          r \in Updates /\ call[r].phase \in {"holding", "done", "uncertain"}

\* The update that holds the mutex of p, at each step.
Begun(p, u) ==
    call[u].phase = "running" /\ mem[p] = file.doc /\ Settled
Staged(p, u) ==
    /\ call[u].phase = "holding" /\ call[u].saw = file.doc
    /\ work[p].previous = file.doc
    /\ u \notin file.doc /\ mem[p] = file.doc \cup {u} /\ Settled
Renamed(p, u) ==
    /\ call[u].phase = "holding" /\ u \notin call[u].saw
    /\ mem[p] = file.doc /\ file.doc = call[u].saw \cup {u}
    /\ PowerLoss => disk.doc \in {file.doc, call[u].saw}
Durable(p, u) ==
    /\ call[u].phase = "holding"
    /\ mem[p] = file.doc /\ file.doc = call[u].saw \cup {u} /\ Settled

Updating(p) ==
    /\ work[p].req \in Updates /\ at[work[p].req] = p /\ ~pending[p]
    /\ work[p].step = "mutate" => Begun(p, work[p].req)
    /\ work[p].step \in {"write", "rename"} => Staged(p, work[p].req)
    /\ work[p].step = "sync" => Renamed(p, work[p].req)
    /\ work[p].step = "return" => Durable(p, work[p].req)

Opening(p) ==
    /\ work[p].req = None /\ work[p].step \in {"write", "rename", "sync", "return"}
    /\ work[p].previous = {} /\ mem[p] = {} /\ file.doc = {} /\ ~pending[p]

Resting(p) ==
    /\ work[p] = Idle
    /\ mem[p] = file.doc
    /\ ~pending[p] => Settled

ProcInv(p) ==
    /\ lock = p <=> proc[p] \in {"opening", "open"}
    /\ proc[p] \in {"down", "closed"} => work[p] = Idle
    /\ proc[p] = "opening" => Opening(p)
    /\ proc[p] = "open" /\ work[p].step = "free" => Resting(p)
    /\ proc[p] = "open" /\ work[p].step # "free" => Updating(p)

Rest ==
    /\ DiskInv
    /\ \A r \in Requests : CallInv(r)
    /\ \A p \in Processes : ProcInv(p)

-----------------------------------------------------------------------------
(* Types. *)

WorkRecords == [step : Steps, req : Requests \cup {None}, previous : Documents]

\* Answering a request touches that request only.
LEMMA AnswerCall ==
    ASSUME call \in [Requests -> Calls], NEW r \in Requests,
           NEW phase \in {"running", "holding", "done", "read", "refused", "uncertain"},
           NEW saw \in Documents, call' = Answer(r, phase, saw)
    PROVE  /\ call' \in [Requests -> Calls]
           /\ call'[r].phase = phase /\ call'[r].saw = saw
           /\ \A q \in Requests \ {r} : call'[q] = call[q]
BY Zenon DEF Answer, Calls

\* Taking up another piece of work touches that process only.
LEMMA TakeWork ==
    ASSUME work \in [Processes -> WorkRecords], NEW p \in Processes, NEW w \in WorkRecords,
           work' = [work EXCEPT ![p] = w]
    PROVE  /\ work' \in [Processes -> WorkRecords]
           /\ work'[p] = w
           /\ \A q \in Processes \ {p} : work'[q] = work[q]
BY Zenon

\* Going on to the next step keeps the request and the state to put back.
LEMMA AtStep ==
    ASSUME work \in [Processes -> WorkRecords], NEW p \in Processes, NEW step \in Steps,
           work' = At(p, step)
    PROVE  /\ work' \in [Processes -> WorkRecords]
           /\ work'[p].step = step /\ work'[p].req = work[p].req
           /\ work'[p].previous = work[p].previous
           /\ \A q \in Processes \ {p} : work'[q] = work[q]
BY Zenon DEF At, WorkRecords

LEMMA IdleWork ==
    Idle \in WorkRecords /\ Idle.step = "free" /\ Idle.req = None /\ Idle.previous = {}
BY Zenon DEF Idle, WorkRecords, Steps, Documents

LEMMA FileTypes ==
    /\ \A d \in Documents :
          FileOf(d) \in Files /\ FileOf(d).kind = "whole" /\ FileOf(d).doc = d
    /\ \A f \in Files : f.doc \in Documents
    /\ TornFile \in Files /\ NoFile \in Files /\ NoFile.doc = {} /\ NoFile.kind = "absent"
BY Zenon DEF FileOf, Files, TornFile, NoFile, Documents

\* What a stopped process leaves of the variables.
LEMMA StoppedTypes ==
    ASSUME TypeOK, NEW S \in SUBSET Processes, Stopped(S)
    PROVE  /\ proc' \in [Processes -> {"down", "opening", "open", "closed"}]
           /\ lock' \in Processes \cup {None}
           /\ pending' \in [Processes -> BOOLEAN]
           /\ work' \in [Processes -> WorkRecords]
           /\ call' \in [Requests -> Calls]
<1> USE DEF Stopped, TypeOK
<1>1. proc' \in [Processes -> {"down", "opening", "open", "closed"}]
  BY Zenon
<1>2. lock' \in Processes \cup {None}
  BY Zenon
<1>3. pending' \in [Processes -> BOOLEAN]
  BY Zenon
<1>4. work' \in [Processes -> WorkRecords]
  BY IdleWork, Zenon DEF WorkRecords
<1>5. call' \in [Requests -> Calls]
  BY Zenon DEF Calls
<1> QED
  BY <1>1, <1>2, <1>3, <1>4, <1>5, Zenon

LEMMA TypeStep ==
    ASSUME TypeOK, Next,
           \A p \in Processes : work[p].step = "mutate" => work[p].req \in Requests
    PROVE  TypeOK'
<1> DEFINE F == file' \in Files /\ flushed' \in BOOLEAN /\ disk' \in Files
           P == /\ lock' \in Processes \cup {None}
                /\ proc' \in [Processes -> {"down", "opening", "open", "closed"}]
                /\ mem' \in [Processes -> Documents]
                /\ pending' \in [Processes -> BOOLEAN]
           W == work' \in [Processes -> WorkRecords]
           C == at' \in [Requests -> Processes \cup {None}] /\ call' \in [Requests -> Calls]
<1>t. /\ file \in Files /\ flushed \in BOOLEAN /\ disk \in Files
      /\ lock \in Processes \cup {None}
      /\ proc \in [Processes -> {"down", "opening", "open", "closed"}]
      /\ mem \in [Processes -> Documents]
      /\ pending \in [Processes -> BOOLEAN]
      /\ work \in [Processes -> WorkRecords]
      /\ at \in [Requests -> Processes \cup {None}] /\ call \in [Requests -> Calls]
  BY Zenon DEF TypeOK, WorkRecords
<1>q. ASSUME F, P, W, C PROVE TypeOK'
  BY <1>q, Zenon DEF TypeOK, WorkRecords
<1>w. Written \in Files
  BY <1>t, FileTypes, Zenon DEF Written
<1>d. /\ {} \in Documents /\ file.doc \in Documents
      /\ \A p \in Processes : mem[p] \in Documents /\ work[p].previous \in Documents
                              /\ work[p].req \in Requests \cup {None}
      /\ \A r \in Requests : call[r].saw \in Documents
  BY <1>t, FileTypes, Zenon DEF Documents, WorkRecords, Calls
<1>u. ASSUME NEW r \in Requests, call' = Uncertain(r) PROVE call' \in [Requests -> Calls]
  BY <1>u, <1>t, <1>d, AnswerCall, Zenon DEF Uncertain
<1> HIDE DEF F, P, W, C
<1>1. CASE Writeback
  BY <1>1, <1>t, <1>w, <1>q, Zenon DEF Writeback, F, P, W, C
<1>2. CASE LosePower
  <2>1. F
    BY <1>2, <1>t, Zenon DEF LosePower, F
  <2>2. P /\ W /\ C
    BY <1>2, <1>t, StoppedTypes, Zenon DEF LosePower, P, W, C, Stopped
  <2> QED
    BY <2>1, <2>2, <1>q, Zenon
<1>3. ASSUME NEW p \in Processes, ProcessCrash(p) PROVE TypeOK'
  <2>1. F
    BY <1>3, <1>t, Zenon DEF ProcessCrash, F, storage
  <2>s. {p} \in SUBSET Processes /\ Stopped({p})
    BY <1>3, Zenon DEF ProcessCrash
  <2>u. UNCHANGED <<mem, at>>
    BY <2>s, Zenon DEF Stopped
  <2>2. P /\ W /\ C
    BY <2>s, <2>u, <1>t, StoppedTypes, Zenon DEF P, W, C
  <2> QED
    BY <2>1, <2>2, <1>q, Zenon
<1>4. ASSUME NEW p \in Processes, OpenStore(p) PROVE TypeOK'
  <2>1. F /\ P /\ C
    BY <1>4, <1>t, <1>d, Zenon DEF OpenStore, F, P, C
  <2>2. CASE work' = At(p, "write")
    BY <2>1, <2>2, <1>t, AtStep, <1>q, Zenon DEF Steps, W
  <2>3. CASE UNCHANGED work
    BY <2>1, <2>3, <1>t, <1>q, Zenon DEF W
  <2> QED
    BY <1>4, <2>2, <2>3, Zenon DEF OpenStore
<1>5. ASSUME NEW p \in Processes, Close(p) PROVE TypeOK'
  BY <1>5, <1>t, <1>w, <1>q, Zenon DEF Close, SyncSucceeds, SyncFails, F, P, W, C
<1>6. ASSUME NEW p \in Processes, CheckReadiness(p) PROVE TypeOK'
  BY <1>6, <1>t, <1>w, <1>q, Zenon DEF CheckReadiness, SyncSucceeds, F, P, W, C
<1>7. ASSUME NEW p \in Processes, Mutate(p) PROVE TypeOK'
  <2> DEFINE r == work[p].req
  <2>r. r \in Requests
    BY <1>7, Zenon DEF Mutate
  <2>1. F /\ P
    BY <2>r, <1>7, <1>t DEF Mutate, F, P, Documents
  <2>2. C
    BY <2>r, <1>7, <1>t, <1>d, AnswerCall DEF Mutate, C
  <2>3. W
    <3>1. [step |-> "write", req |-> r, previous |-> mem[p]] \in WorkRecords
      BY <2>r, <1>d, Zenon DEF WorkRecords, Steps
    <3> QED
      BY <1>7, <1>t, <3>1, IdleWork, Zenon DEF Mutate, W
  <2> QED
    BY <2>1, <2>2, <2>3, <1>q, Zenon
<1>8. ASSUME NEW p \in Processes, PersistFails(p)
      PROVE  /\ lock' \in Processes \cup {None}
             /\ proc' \in [Processes -> {"down", "opening", "open", "closed"}]
             /\ mem' \in [Processes -> Documents]
             /\ call' \in [Requests -> Calls] /\ W
  <2>1. W
    BY <1>8, <1>t, IdleWork, Zenon DEF PersistFails, W
  <2>2. CASE work[p].req = None
    BY <1>8, <2>1, <2>2, <1>t, Zenon DEF PersistFails
  <2>3. CASE work[p].req \in Requests /\ work[p].req # None
    <3>1. call' \in [Requests -> Calls]
      BY <1>8, <2>3, <1>t, <1>d, AnswerCall, Zenon DEF PersistFails
    <3> QED
      BY <1>8, <2>1, <2>3, <3>1, <1>t, <1>d, Zenon DEF PersistFails, Restored
  <2> QED
    BY <1>d, <2>2, <2>3, Zenon
<1>9. ASSUME NEW p \in Processes, WriteTemporary(p) PROVE TypeOK'
  <2>1. F /\ at' = at /\ pending' = pending
    BY <1>9, <1>t, Zenon DEF WriteTemporary, F
  <2>2. CASE PersistFails(p)
    BY <2>1, <2>2, <1>8, <1>t, <1>q, Zenon DEF P, C
  <2>3. CASE work' = At(p, "rename") /\ UNCHANGED <<lock, proc, mem, call>>
    BY <2>1, <2>3, <1>t, AtStep, <1>q, Zenon DEF P, C, W, Steps
  <2> QED
    BY <1>9, <2>2, <2>3, Zenon DEF WriteTemporary
<1>10. ASSUME NEW p \in Processes, Rename(p) PROVE TypeOK'
  <2>1. F /\ at' = at /\ pending' = pending
    BY <1>10, <1>t, <1>d, FileTypes, Zenon DEF Rename, F, TemporarySynced
  <2>2. CASE PersistFails(p)
    BY <2>1, <2>2, <1>8, <1>t, <1>q, Zenon DEF P, C
  <2>3. CASE work' = At(p, "sync") /\ UNCHANGED <<lock, proc, mem, call>>
    BY <2>1, <2>3, <1>t, AtStep, <1>q, Zenon DEF P, C, W, Steps
  <2> QED
    BY <1>10, <2>2, <2>3, Zenon DEF Rename
<1>11. ASSUME NEW p \in Processes, SyncDirectory(p) PROVE TypeOK'
  <2>1. F /\ P /\ at' = at
    BY <1>11, <1>t, <1>w, Zenon DEF SyncDirectory, F, P, SyncSucceeds, SyncFails
  <2>2. W
    <3>1. CASE work' = At(p, "return")
      BY <3>1, <1>t, AtStep, Zenon DEF Steps, W
    <3>2. CASE work' = [work EXCEPT ![p] = Idle]
      BY <3>2, <1>t, IdleWork, Zenon DEF W
    <3> QED
      BY <1>11, <3>1, <3>2, Zenon DEF SyncDirectory
  <2>3. C
    BY <1>11, <1>t, <1>d, <1>u, <2>1, Zenon DEF SyncDirectory, C
  <2> QED
    BY <2>1, <2>2, <2>3, <1>q, Zenon
<1>12. ASSUME NEW p \in Processes, Return(p) PROVE TypeOK'
  <2>1. F /\ P /\ at' = at
    BY <1>12, <1>t, Zenon DEF Return, F, P
  <2>2. W
    BY <1>12, <1>t, IdleWork, Zenon DEF Return, W
  <2>3. C
    BY <1>12, <1>t, <1>d, AnswerCall, <2>1, Zenon DEF Return, C
  <2> QED
    BY <2>1, <2>2, <2>3, <1>q, Zenon
<1>13. ASSUME NEW p \in Processes, NEW r \in Requests, Call(r, p) PROVE TypeOK'
  <2>1. C
    BY <1>13, <1>t, <1>d, AnswerCall, Zenon DEF Call, C
  <2> QED
    BY <1>13, <2>1, <1>t, <1>q, Zenon DEF Call, F, P, W
<1>14. ASSUME NEW p \in Processes, NEW r \in Requests, View(p, r) PROVE TypeOK'
  <2>1. C
    BY <1>14, <1>t, <1>d, AnswerCall, Zenon DEF View, C
  <2> QED
    BY <1>14, <2>1, <1>t, <1>q, Zenon DEF View, F, P, W
<1>15. ASSUME NEW p \in Processes, NEW r \in Requests, ViewEnsureDurable(p, r) PROVE TypeOK'
  <2>1. C
    BY <1>15, <1>t, <1>u, Zenon DEF ViewEnsureDurable, C
  <2> QED
    BY <1>15, <2>1, <1>t, <1>w, <1>q, Zenon DEF ViewEnsureDurable, F, P, W, SyncSucceeds, SyncFails
<1>16. ASSUME NEW p \in Processes, NEW r \in Requests, UpdateBegin(p, r) PROVE TypeOK'
  <2>1. C
    BY <1>16, <1>t, <1>u, Zenon DEF UpdateBegin, C
  <2>2. W
    <3>1. [step |-> "mutate", req |-> r, previous |-> {}] \in WorkRecords
      BY <1>d, Zenon DEF WorkRecords, Steps
    <3> QED
      BY <1>16, <1>t, <3>1, Zenon DEF UpdateBegin, W
  <2> QED
    BY <1>16, <2>1, <2>2, <1>t, <1>w, <1>q, Zenon DEF UpdateBegin, F, P, SyncSucceeds, SyncFails
<1>17. ASSUME NEW r \in Requests, RefuseClosed(r) PROVE TypeOK'
  <2>1. C
    BY <1>17, <1>t, <1>d, AnswerCall, Zenon DEF RefuseClosed, C
  <2> QED
    BY <1>17, <2>1, <1>t, <1>q, Zenon DEF RefuseClosed, F, P, W
<1> QED
  BY <1>1, <1>2, <1>3, <1>4, <1>5, <1>6, <1>7, <1>9, <1>10, <1>11, <1>12, <1>13, <1>14, <1>15,
     <1>16, <1>17, Zenon DEF Next, Persist, Serve
-----------------------------------------------------------------------------
(* The invariant. *)

\* Only the holder of the lock is at work: whoever else there is stays as it was.
LEMMA OthersWait ==
    ASSUME NEW p \in Processes, NEW q \in Processes \ {p}, ProcInv(p), ProcInv(q), TypeOK,
           proc[p] \in {"opening", "open"}, lock' \in {p, None},
           proc'[q] = proc[q], work'[q] = work[q]
    PROVE  ProcInv(q)'
<1>1. lock = p
  BY Zenon DEF ProcInv
<1>2. proc[q] \in {"down", "closed"} /\ work[q] = Idle
  BY <1>1, Zenon DEF ProcInv, TypeOK
<1>3. lock' # q
  BY FileStoreAssumption, Zenon
<1> QED
  BY <1>2, <1>3, Zenon DEF ProcInv, Idle

\* An answer that leaves the documents alone disturbs no other request.
LEMMA OtherCalls ==
    ASSUME NEW r \in Requests, \A q \in Requests : CallInv(q), UNCHANGED <<file, disk>>,
           \A q \in Requests \ {r} : call'[q] = call[q], CallInv(r)'
    PROVE  \A q \in Requests : CallInv(q)'
<1>1. ASSUME NEW q \in Requests, q # r PROVE CallInv(q)'
  BY <1>1, Zenon DEF CallInv
<1> QED
  BY <1>1, Zenon

\* A request in none of the phases in which it may be owed a rename leaves the debt alone.
LEMMA DebtStays ==
    ASSUME NEW r \in Requests, DiskInv, UNCHANGED storage,
           \A q \in Requests \ {r} : call'[q] = call[q],
           Settled \/ call[r].phase \notin {"holding", "uncertain"}
    PROVE  DiskInv'
<1>1. Settled' \/ \E u \in Updates : Owes(u)'
  <2>1. CASE Settled
    BY <2>1, Zenon DEF Settled, storage
  <2>2. ASSUME NEW u \in Updates, Owes(u), ~Settled PROVE Owes(u)'
    BY <2>2, Zenon DEF Owes, storage, Requests
  <2> QED
    BY <2>1, <2>2, Zenon DEF DiskInv
<1> QED
  BY <1>1, Zenon DEF DiskInv, storage, Decodes

\* After a successful sync of the directory nothing is owed.
LEMMA Synced ==
    ASSUME DiskInv, \A r \in Requests : CallInv(r), UNCHANGED <<file, flushed, call>>,
           disk' = Written
    PROVE  DiskInv' /\ (\A r \in Requests : CallInv(r)') /\ Settled' /\ disk' = file
<1>1. disk' = file
  BY Zenon DEF DiskInv, Written
<1>2. DiskInv' /\ Settled'
  BY <1>1, Zenon DEF DiskInv, Settled, Decodes
<1>3. ASSUME NEW r \in Requests PROVE CallInv(r)'
  BY <1>1, Zenon DEF CallInv
<1> QED
  BY <1>1, <1>2, <1>3, Zenon

\* What power loss can take away was in the file.
LEMMA DiskBehind ==
    ASSUME DiskInv, PowerLoss PROVE disk.doc \subseteq file.doc
BY Zenon DEF DiskInv, Settled, Owes

LEMMA ServedByProcess ==
    ASSUME TypeOK, NEW p \in Processes, NEW r \in Requests, ProcInv(p), Serving(p, r),
           proc[p] = "closed" \/ work[p].step = "free"
    PROVE  \A q \in Processes : ProcInv(q) /\ proc[q] = "open" /\ work[q].step # "free" => work[q].req # r
BY IdleWork, Zenon DEF ProcInv, Serving, Updating
\* A sync changes the disk under whoever holds the lock, and only settles it.
LEMMA DiskMoves ==
    ASSUME NEW p \in Processes, ProcInv(p), Settled', disk' = file,
           UNCHANGED <<file, lock, proc, mem, pending, work, at, call>>
    PROVE  ProcInv(p)'
<1>1. Opening(p) => Opening(p)'
  BY Zenon DEF Opening
<1>2. Resting(p) => Resting(p)'
  BY Zenon DEF Resting
<1>3. Updating(p) => Updating(p)'
  <2>1. ASSUME NEW u \in Updates
        PROVE  /\ Begun(p, u) => Begun(p, u)'
               /\ Staged(p, u) => Staged(p, u)'
               /\ Renamed(p, u) => Renamed(p, u)'
               /\ Durable(p, u) => Durable(p, u)'
    BY Zenon DEF Begun, Staged, Renamed, Durable
  <2> QED
    BY <2>1, Zenon DEF Updating
<1> QED
  BY <1>1, <1>2, <1>3, Zenon DEF ProcInv

LEMMA WritebackStep ==
    ASSUME TypeOK, Rest, Writeback PROVE Rest'
<1>1. DiskInv' /\ (\A r \in Requests : CallInv(r)') /\ Settled' /\ disk' = file
  BY Synced, Zenon DEF Rest, Writeback
<1>2. ASSUME NEW q \in Processes PROVE ProcInv(q)'
  BY <1>1, DiskMoves, Zenon DEF Rest, Writeback
<1> QED
  BY <1>1, <1>2, Zenon DEF Rest

\* A stop puts the running requests of the stopped processes in doubt.
LEMMA StoppedCalls ==
    ASSUME TypeOK, NEW S \in SUBSET Processes, Stopped(S), NEW r \in Requests
    PROVE  /\ call'[r].saw = call[r].saw
           /\ call'[r].phase = call[r].phase
              \/ (call[r].phase \in {"running", "holding"} /\ call'[r].phase = "uncertain")
           /\ at[r] \notin S => call'[r] = call[r]
<1>1. call[r] \in Calls
  BY Zenon DEF TypeOK
<1>2. call'[r] = IF at[r] \in S /\ Running(r)
                 THEN [call[r] EXCEPT !.phase = "uncertain"] ELSE call[r]
  BY Zenon DEF Stopped
<1> QED
  BY <1>1, <1>2, Zenon DEF Calls, Running

LEMMA StoppedProcess ==
    ASSUME TypeOK, NEW S \in SUBSET Processes, Stopped(S), NEW q \in S
    PROVE  ProcInv(q)'
<1>1. proc'[q] = "down" /\ work'[q] = Idle /\ lock' # q
  BY FileStoreAssumption, Zenon DEF Stopped
<1> QED
  BY <1>1, Zenon DEF ProcInv

LEMMA CrashStep ==
    ASSUME TypeOK, Rest, NEW p \in Processes, ProcessCrash(p) PROVE Rest'
<1>s. Stopped({p}) /\ {p} \in SUBSET Processes /\ UNCHANGED storage
  BY Zenon DEF ProcessCrash
<1>f. UNCHANGED <<file, flushed, disk>>
  BY <1>s, Zenon DEF storage
<1>1. DiskInv'
  <2>1. Settled => Settled'
    BY <1>f, Zenon DEF Settled
  <2>2. ASSUME NEW u \in Updates, Owes(u) PROVE Owes(u)'
    BY <2>2, <1>f, <1>s, StoppedCalls, Zenon DEF Owes, Requests
  <2> QED
    BY <2>1, <2>2, <1>f, Zenon DEF DiskInv, Rest, Decodes
<1>2. ASSUME NEW r \in Requests PROVE CallInv(r)'
  <2>1. CallInv(r)
    BY Zenon DEF Rest
  <2> QED
    BY <2>1, <1>f, <1>s, StoppedCalls, Zenon DEF CallInv
<1>3. ASSUME NEW q \in Processes, q # p PROVE ProcInv(q)'
  <2>1. ProcInv(q)
    BY <1>3, Zenon DEF Rest
  <2>2. /\ proc'[q] = proc[q] /\ work'[q] = work[q] /\ pending'[q] = pending[q]
        /\ mem' = mem /\ at' = at
    BY <1>3, <1>s, Zenon DEF Stopped
  <2>3. lock' = q <=> lock = q
    BY <1>3, <1>s, FileStoreAssumption, Zenon DEF Stopped
  <2>4. Opening(q) => Opening(q)'
    BY <2>2, <1>f, Zenon DEF Opening
  <2>5. Resting(q) => Resting(q)'
    BY <2>2, <1>f, Zenon DEF Resting, Settled
  <2>6. Updating(q) => Updating(q)'
    <3>1. ASSUME NEW u \in Updates, at[u] = q
          PROVE  /\ Begun(q, u) => Begun(q, u)'
                 /\ Staged(q, u) => Staged(q, u)'
                 /\ Renamed(q, u) => Renamed(q, u)'
                 /\ Durable(q, u) => Durable(q, u)'
      <4>1. call'[u] = call[u]
        BY <1>3, <3>1, <1>s, StoppedCalls, Zenon DEF Requests
      <4> QED
        BY <4>1, <2>2, <1>f, Zenon DEF Begun, Staged, Renamed, Durable, Settled
    <3> QED
      BY <3>1, <2>2, Zenon DEF Updating
  <2> QED
    BY <2>1, <2>2, <2>3, <2>4, <2>5, <2>6, Zenon DEF ProcInv
<1> QED
  BY <1>1, <1>2, <1>3, <1>s, StoppedProcess, Zenon DEF Rest

LEMMA LosePowerStep ==
    ASSUME TypeOK, Rest, LosePower PROVE Rest'
<1>s. Stopped(Processes) /\ PowerLoss /\ file' = disk /\ disk' = disk /\ flushed'
  BY Zenon DEF LosePower
<1>1. DiskInv'
  BY <1>s, Zenon DEF DiskInv, Settled, Rest, Decodes
<1>2. ASSUME NEW r \in Requests PROVE CallInv(r)'
  <2>1. CallInv(r)
    BY Zenon DEF Rest
  <2> QED
    BY <2>1, <1>s, StoppedCalls, Zenon DEF CallInv
<1> QED
  BY <1>1, <1>2, <1>s, StoppedProcess, Zenon DEF Rest

LEMMA OpenStep ==
    ASSUME TypeOK, Rest, ~(PowerLoss /\ OpenUnsynced), NEW p \in Processes, OpenStore(p)
    PROVE  Rest'
<1>u. UNCHANGED <<file, flushed, disk, at, call>> /\ lock = None /\ lock' = p /\ proc[p] = "down"
  BY Zenon DEF OpenStore
<1>t. /\ proc \in [Processes -> {"down", "opening", "open", "closed"}]
      /\ work \in [Processes -> WorkRecords]
      /\ mem \in [Processes -> Documents] /\ pending \in [Processes -> BOOLEAN]
  BY Zenon DEF TypeOK, WorkRecords
<1>1. DiskInv'
  BY <1>u, Zenon DEF Rest, DiskInv, Settled, Owes, Decodes
<1>2. ASSUME NEW r \in Requests PROVE CallInv(r)'
  BY <1>u, Zenon DEF Rest, CallInv
<1>3. ASSUME NEW q \in Processes, q # p PROVE ProcInv(q)'
  <2>1. ProcInv(q)
    BY <1>3, Zenon DEF Rest
  <2>2. proc'[q] = proc[q]
    BY <1>3, <1>t, Zenon DEF OpenStore
  <2>3. work'[q] = work[q]
    BY <1>3, <1>t, AtStep DEF OpenStore, Steps
  <2>4. lock # q /\ lock' # q
    BY <1>3, <1>u, FileStoreAssumption, Zenon
  <2> QED
    BY <2>1, <2>2, <2>3, <2>4, <1>t, Zenon DEF ProcInv
<1>4. ProcInv(p)'
  <2>1. work[p] = Idle
    BY <1>u, Zenon DEF Rest, ProcInv
  <2>2. pending'[p] = FALSE
    BY <1>t, Zenon DEF OpenStore
  <2>3. Settled
    BY Zenon DEF OpenStore, Settled
  <2>4. CASE file.kind = "absent"
    <3>1. proc'[p] = "opening" /\ mem'[p] = {} /\ work' = At(p, "write") /\ file.doc = {}
      BY <2>4, <1>t, Zenon DEF OpenStore, Rest, DiskInv
    <3>2. work'[p].step = "write" /\ work'[p].req = None /\ work'[p].previous = {}
      BY <3>1, <2>1, <1>t, AtStep, IdleWork, Zenon DEF Steps
    <3> QED
      BY <3>1, <3>2, <2>2, <1>u, Zenon DEF ProcInv, Opening
  <2>5. CASE file.kind # "absent"
    <3>1. proc'[p] = "open" /\ mem'[p] = file.doc /\ work' = work
      BY <2>5, <1>t, Zenon DEF OpenStore
    <3> QED
      BY <3>1, <2>1, <2>2, <2>3, <1>u, IdleWork, Zenon DEF ProcInv, Resting, Settled
  <2> QED
    BY <2>4, <2>5, Zenon
<1> QED
  BY <1>1, <1>2, <1>3, <1>4, Zenon DEF Rest
\* Across the barrier, whether or not it was up, nothing is owed.
LEMMA Barrier ==
    ASSUME Rest, NEW p \in Processes, Resting(p), UNCHANGED <<file, flushed, call>>,
           IF pending[p] THEN SyncSucceeds ELSE UNCHANGED disk
    PROVE  DiskInv' /\ (\A r \in Requests : CallInv(r)') /\ Settled'
<1>1. CASE pending[p]
  BY <1>1, Synced, Zenon DEF Rest, SyncSucceeds
<1>2. CASE ~pending[p]
  <2>1. Settled /\ disk' = disk
    BY <1>2, Zenon DEF Resting
  <2>2. DiskInv' /\ Settled'
    BY <2>1, Zenon DEF Rest, DiskInv, Settled, Decodes
  <2>3. ASSUME NEW r \in Requests PROVE CallInv(r)'
    BY <2>1, Zenon DEF Rest, CallInv
  <2> QED
    BY <2>2, <2>3, Zenon
<1> QED
  BY <1>1, <1>2, Zenon

LEMMA CloseStep ==
    ASSUME TypeOK, Rest, NEW p \in Processes, Close(p) PROVE Rest'
<1>u. /\ UNCHANGED <<file, flushed, mem, work, at, call>> /\ lock' = None
      /\ proc[p] = "open" /\ work[p].step = "free" /\ proc' = [proc EXCEPT ![p] = "closed"]
  BY Zenon DEF Close
<1>p. ProcInv(p) /\ Resting(p)
  BY <1>u, Zenon DEF Rest, ProcInv
<1>1. DiskInv' /\ \A r \in Requests : CallInv(r)'
  <2>1. CASE UNCHANGED disk
    <3>1. DiskInv'
      BY <2>1, <1>u, Zenon DEF Rest, DiskInv, Settled, Owes, Decodes
    <3>2. ASSUME NEW r \in Requests PROVE CallInv(r)'
      BY <2>1, <1>u, Zenon DEF Rest, CallInv
    <3> QED
      BY <3>1, <3>2, Zenon
  <2>2. CASE IF pending[p] THEN SyncSucceeds ELSE UNCHANGED disk
    BY <2>2, <1>u, <1>p, Barrier, Zenon
  <2> QED
    BY <2>1, <2>2, Zenon DEF Close, SyncFails
<1>2. proc'[p] = "closed" /\ \A q \in Processes \ {p} : proc'[q] = proc[q]
  BY <1>u, Zenon DEF TypeOK
<1>3. ASSUME NEW q \in Processes \ {p} PROVE ProcInv(q)'
  BY <1>2, <1>u, <1>p, OthersWait, Zenon DEF Rest
<1>4. ProcInv(p)'
  BY <1>2, <1>u, <1>p, FileStoreAssumption, Zenon DEF ProcInv, Resting
<1> QED
  BY <1>1, <1>3, <1>4, Zenon DEF Rest

LEMMA ReadinessStep ==
    ASSUME TypeOK, Rest, NEW p \in Processes, CheckReadiness(p) PROVE Rest'
<1>u. /\ UNCHANGED <<file, flushed, lock, proc, mem, work, at, call>>
      /\ proc[p] = "open" /\ work[p].step = "free" /\ pending[p] /\ SyncSucceeds
      /\ pending' = [pending EXCEPT ![p] = FALSE]
  BY Zenon DEF CheckReadiness
<1>p. ProcInv(p) /\ Resting(p)
  BY <1>u, Zenon DEF Rest, ProcInv
<1>1. DiskInv' /\ (\A r \in Requests : CallInv(r)') /\ Settled'
  BY <1>u, <1>p, Barrier, Zenon
<1>2. lock = p
  BY <1>u, <1>p, Zenon DEF ProcInv
<1>3. ASSUME NEW q \in Processes \ {p} PROVE ProcInv(q)'
  BY <1>2, <1>u, <1>p, OthersWait, Zenon DEF Rest
<1>4. ProcInv(p)'
  BY <1>1, <1>u, <1>p, Zenon DEF ProcInv, Resting
<1> QED
  BY <1>1, <1>3, <1>4, Zenon DEF Rest

\* A request that no process is working on may change without disturbing one.
LEMMA CallElsewhere ==
    ASSUME NEW q \in Processes, ProcInv(q), NEW r \in Requests,
           proc[q] = "open" /\ work[q].step # "free" => work[q].req # r,
           UNCHANGED <<file, disk, lock, proc, mem, work>>, pending'[q] = pending[q],
           \A s \in Requests \ {r} : call'[s] = call[s] /\ at'[s] = at[s]
    PROVE  ProcInv(q)'
<1>1. Opening(q) => Opening(q)'
  BY Zenon DEF Opening
<1>2. Resting(q) => Resting(q)'
  BY Zenon DEF Resting, Settled
<1>3. ASSUME Updating(q), work[q].req # r PROVE Updating(q)'
  <2>1. ASSUME NEW u \in Updates, u # r
        PROVE  /\ Begun(q, u) => Begun(q, u)'
               /\ Staged(q, u) => Staged(q, u)'
               /\ Renamed(q, u) => Renamed(q, u)'
               /\ Durable(q, u) => Durable(q, u)'
               /\ at'[u] = at[u]
    <3>1. call'[u] = call[u] /\ at'[u] = at[u]
      BY <2>1, Zenon DEF Requests
    <3> QED
      BY <3>1, Zenon DEF Begun, Staged, Renamed, Durable, Settled
  <2> QED
    BY <1>3, <2>1, Zenon DEF Updating
<1> QED
  BY <1>1, <1>2, <1>3, Zenon DEF ProcInv

LEMMA CallStep ==
    ASSUME TypeOK, Rest, NEW p \in Processes, NEW r \in Requests, Call(r, p) PROVE Rest'
<1>u. /\ UNCHANGED <<file, flushed, disk, lock, proc, mem, pending, work>>
      /\ call[r].phase = "idle" /\ call' = Answer(r, "running", {})
      /\ at' = [at EXCEPT ![r] = p]
  BY Zenon DEF Call
<1>c. /\ call'[r].phase = "running" /\ call'[r].saw = {}
      /\ \A s \in Requests \ {r} : call'[s] = call[s] /\ at'[s] = at[s]
  BY <1>u, AnswerCall DEF TypeOK, Documents
<1>1. DiskInv'
  BY <1>u, <1>c, DebtStays, Zenon DEF Rest, storage
<1>2. \A q \in Requests : CallInv(q)'
  <2>1. CallInv(r)'
    BY <1>u, <1>c, Zenon DEF Rest, CallInv
  <2> QED
    BY <2>1, <1>u, <1>c, OtherCalls, Zenon DEF Rest
<1>3. ASSUME NEW q \in Processes PROVE ProcInv(q)'
  <2>1. ProcInv(q)
    BY Zenon DEF Rest
  <2>2. proc[q] = "open" /\ work[q].step # "free" => work[q].req # r
    <3>1. /\ Updating(q)
          /\ work[q].step \in {"mutate", "write", "rename", "sync", "return"}
          => work[q].req # r
      BY <1>u, Zenon DEF Updating, Begun, Staged, Renamed, Durable
    <3> QED
      BY <3>1, <2>1, Zenon DEF ProcInv, TypeOK, Steps
  <2> QED
    BY <2>1, <2>2, <1>u, <1>c, CallElsewhere, Zenon
<1> QED
  BY <1>1, <1>2, <1>3, Zenon DEF Rest

\* Refusing, answering or giving up a request that is only running.
LEMMA AnswerStep ==
    ASSUME TypeOK, Rest, NEW p \in Processes, NEW r \in Requests, Serving(p, r),
           proc[p] = "closed" \/ work[p].step = "free",
           UNCHANGED <<file, flushed, disk, lock, proc, mem, pending, work, at>>,
           NEW phase \in {"read", "refused", "uncertain"}, NEW saw \in Documents,
           call' = Answer(r, phase, saw)
    PROVE  Rest'
<1>c. /\ call'[r].phase = phase /\ call'[r].saw = saw
      /\ \A s \in Requests \ {r} : call'[s] = call[s]
  BY AnswerCall, Zenon DEF TypeOK
<1>p. ProcInv(p) /\ call[r].phase = "running"
  BY Zenon DEF Rest, Serving
<1>1. DiskInv'
  BY <1>p, <1>c, DebtStays, Zenon DEF Rest, storage
<1>2. \A q \in Requests : CallInv(q)'
  <2>1. CallInv(r)'
    BY <1>p, <1>c, Zenon DEF Rest, CallInv
  <2> QED
    BY <2>1, <1>c, OtherCalls, Zenon DEF Rest
<1>3. ASSUME NEW q \in Processes PROVE ProcInv(q)'
  <2>1. ProcInv(q)
    BY Zenon DEF Rest
  <2>2. proc[q] = "open" /\ work[q].step # "free" => work[q].req # r
    BY <2>1, <1>p, ServedByProcess, Zenon
  <2> QED
    BY <2>1, <2>2, <1>c, CallElsewhere, Zenon
<1> QED
  BY <1>1, <1>2, <1>3, Zenon DEF Rest

LEMMA RefuseStep ==
    ASSUME TypeOK, Rest, NEW r \in Requests, RefuseClosed(r) PROVE Rest'
<1>1. PICK p \in Processes : Serving(p, r) /\ proc[p] = "closed"
  BY Zenon DEF RefuseClosed
<1>2. {} \in Documents
  BY Zenon DEF Documents
<1> QED
  BY <1>1, <1>2, AnswerStep, Zenon DEF RefuseClosed

LEMMA ViewStep ==
    ASSUME TypeOK, Rest, NEW p \in Processes, NEW r \in Requests, View(p, r) PROVE Rest'
<1>1. mem[p] \in Documents
  BY Zenon DEF TypeOK
<1> QED
  BY <1>1, AnswerStep, Zenon DEF View

\* A barrier that is crossed for a request whose work does not begin yet.
LEMMA ViewBarrierStep ==
    ASSUME TypeOK, Rest, NEW p \in Processes, NEW r \in Requests, ViewEnsureDurable(p, r)
    PROVE  Rest'
<1>u. /\ UNCHANGED <<file, flushed, lock, proc, mem, work, at>>
      /\ proc[p] = "open" /\ work[p].step = "free" /\ pending[p] /\ Serving(p, r)
  BY Zenon DEF ViewEnsureDurable
<1>1. CASE SyncFails /\ call' = Uncertain(r) /\ UNCHANGED pending
  <2>1. call[r].saw \in Documents /\ disk' = disk
    BY <1>1, Zenon DEF TypeOK, Calls, SyncFails
  <2> QED
    BY <1>u, <1>1, <2>1, AnswerStep, Zenon DEF Uncertain
<1>2. CASE SyncSucceeds /\ pending' = [pending EXCEPT ![p] = FALSE] /\ UNCHANGED call
  <2>1. CheckReadiness(p)
    BY <1>u, <1>2, Zenon DEF CheckReadiness
  <2> QED
    BY <2>1, ReadinessStep, Zenon
<1> QED
  BY <1>1, <1>2, Zenon DEF ViewEnsureDurable

LEMMA BeginStep ==
    ASSUME TypeOK, Rest, NEW p \in Processes, NEW r \in Requests, UpdateBegin(p, r)
    PROVE  Rest'
<1>u. /\ UNCHANGED <<file, flushed, lock, proc, mem, at>> /\ r \in Updates
      /\ proc[p] = "open" /\ work[p].step = "free" /\ Serving(p, r)
  BY Zenon DEF UpdateBegin
<1>1. CASE SyncFails /\ call' = Uncertain(r) /\ UNCHANGED <<pending, work>>
  <2>1. call[r].saw \in Documents /\ disk' = disk
    BY <1>1, Zenon DEF TypeOK, Calls, SyncFails
  <2> QED
    BY <1>u, <1>1, <2>1, AnswerStep, Zenon DEF Uncertain
<1>2. CASE /\ IF pending[p] THEN SyncSucceeds ELSE UNCHANGED disk
           /\ pending' = [pending EXCEPT ![p] = FALSE]
           /\ work' = [work EXCEPT ![p] = [step |-> "mutate", req |-> r, previous |-> {}]]
           /\ UNCHANGED call
  <2>p. ProcInv(p) /\ Resting(p) /\ lock = p
    BY <1>u, Zenon DEF Rest, ProcInv
  <2>1. DiskInv' /\ (\A s \in Requests : CallInv(s)') /\ Settled'
    BY <1>2, <1>u, <2>p, Barrier, Zenon
  <2>2. /\ work'[p] = [step |-> "mutate", req |-> r, previous |-> {}] /\ ~pending'[p]
        /\ \A q \in Processes \ {p} : work'[q] = work[q]
    BY <1>2, Zenon DEF TypeOK
  <2>3. ASSUME NEW q \in Processes \ {p} PROVE ProcInv(q)'
    BY <2>2, <1>u, <2>p, OthersWait, Zenon DEF Rest
  <2>4. Updating(p)'
    <3>1. Begun(p, r)'
      BY <2>1, <1>u, <1>2, <2>p, Zenon DEF Begun, Serving, Resting
    <3> QED
      BY <3>1, <2>2, <1>u DEF Updating, Serving
  <2>5. ProcInv(p)'
    BY <2>2, <2>4, <1>u, <2>p DEF ProcInv
  <2> QED
    BY <2>1, <2>3, <2>5, Zenon DEF Rest
<1> QED
  BY <1>1, <1>2, Zenon DEF UpdateBegin
\* A process at work holds the lock, and is either opening the store or updating it.
LEMMA AtWork ==
    ASSUME TypeOK, Rest, NEW p \in Processes, work[p].step # "free"
    PROVE  /\ lock = p /\ proc[p] \in {"opening", "open"}
           /\ proc[p] = "opening" => Opening(p) /\ work[p].req = None
           /\ proc[p] = "open" => Updating(p) /\ work[p].req \in Updates /\ work[p].req # None
<1>1. ProcInv(p) /\ work[p] # Idle
  BY IdleWork, Zenon DEF Rest
<1>2. proc[p] \in {"opening", "open"}
  BY <1>1, Zenon DEF ProcInv, TypeOK
<1> QED
  BY <1>1, <1>2, FileStoreAssumption, Zenon DEF ProcInv, Opening, Updating

\* The holder of the mutex goes on; what it leaves is enough for the processes.
LEMMA HolderStep ==
    ASSUME TypeOK, Rest, NEW p \in Processes, work[p].step # "free", lock' \in {p, None},
           \A q \in Processes \ {p} : proc'[q] = proc[q] /\ work'[q] = work[q], ProcInv(p)'
    PROVE  \A q \in Processes : ProcInv(q)'
<1>1. ProcInv(p) /\ proc[p] \in {"opening", "open"}
  BY AtWork, Zenon DEF Rest
<1>2. ASSUME NEW q \in Processes \ {p} PROVE ProcInv(q)'
  BY <1>1, <1>2, OthersWait, Zenon DEF Rest
<1> QED
  BY <1>2, Zenon

LEMMA MutateStep ==
    ASSUME TypeOK, Rest, NEW p \in Processes, Mutate(p) PROVE Rest'
<1>u. /\ UNCHANGED <<file, flushed, disk, lock, proc, pending, at>>
      /\ work[p].step = "mutate"
  BY Zenon DEF Mutate
<1>o. /\ lock = p /\ proc[p] = "open" /\ Updating(p) /\ Begun(p, work[p].req)
      /\ work[p].req \in Updates
  BY <1>u, AtWork, Zenon DEF Opening, Updating
<1>r. PICK r \in Updates : r = work[p].req
  BY <1>o, Zenon
<1>p. /\ lock = p /\ proc[p] = "open" /\ Updating(p) /\ Begun(p, r)
      /\ r \in Updates /\ r \in Requests
  BY <1>o, <1>r, Zenon DEF Requests
<1>m. mem[p] \in Documents /\ {} \in Documents
  BY Zenon DEF TypeOK, Documents
<1>n. /\ mem[p] = file.doc /\ Settled /\ call[r].phase = "running" /\ ~pending[p]
      /\ r \notin file.doc /\ at[r] = p
  BY <1>p, <1>r, Zenon DEF Rest, CallInv, Begun, Updating
<1>c. /\ call'[r].phase \in {"refused", "read", "holding"}
      /\ \A s \in Requests \ {r} : call'[s] = call[s]
  BY <1>r, <1>p, <1>m, AnswerCall DEF TypeOK, Mutate
<1>1. DiskInv'
  BY <1>n, <1>u, <1>c, <1>p, DebtStays, Zenon DEF Rest, storage
<1>2. \A s \in Requests : CallInv(s)'
  <2>1. CallInv(r)'
    BY <1>u, <1>c, <1>n, <1>p, Zenon DEF CallInv, Settled
  <2> QED
    BY <2>1, <1>u, <1>p, <1>c, OtherCalls, Zenon DEF Rest
<1>w. \A q \in Processes \ {p} : work'[q] = work[q]
  BY Zenon DEF Mutate, TypeOK
<1>3. ProcInv(p)'
  <2>1. CASE work' = [work EXCEPT ![p] = Idle] /\ UNCHANGED mem
    <3>1. work'[p] = Idle
      BY <2>1, Zenon DEF TypeOK
    <3> QED
      BY <3>1, <2>1, <1>u, <1>p, <1>n, IdleWork, Zenon DEF ProcInv, Resting, Settled
  <2>2. CASE /\ mem' = [mem EXCEPT ![p] = mem[p] \cup {r}]
             /\ work' = [work EXCEPT ![p] = [step |-> "write", req |-> r, previous |-> mem[p]]]
             /\ call' = Answer(r, "holding", mem[p])
    <3>1. /\ work'[p] = [step |-> "write", req |-> r, previous |-> mem[p]]
          /\ mem'[p] = mem[p] \cup {r}
      BY <2>2, Zenon DEF TypeOK
    <3>2. call'[r].phase = "holding" /\ call'[r].saw = mem[p]
      BY <2>2, <1>p, <1>m, AnswerCall DEF TypeOK
    <3>w. work'[p].step = "write" /\ work'[p].req = r /\ work'[p].previous = file.doc
      BY <3>1, <1>n
    <3>s. mem'[p] = file.doc \cup {r} /\ call'[r].saw = file.doc
      BY <3>1, <3>2, <1>n, Zenon
    <3>u. UNCHANGED <<file, disk>> /\ Settled /\ r \notin file.doc
      BY <1>n, <1>u, Zenon
    <3>3. Staged(p, r)'
      BY <3>w, <3>s, <3>2, <3>u, Zenon DEF Staged, Settled
    <3>v. at'[r] = p /\ ~pending'[p]
      BY <1>n, <1>u, Zenon
    <3>4. Updating(p)'
      BY <3>w, <3>3, <3>v, Zenon DEF Updating
    <3> QED
      BY <3>1, <3>4, <1>u, <1>p DEF ProcInv
  <2> QED
    BY <1>r, <2>1, <2>2, Zenon DEF Mutate
<1>4. \A q \in Processes : ProcInv(q)'
  BY <1>3, <1>u, <1>w, <1>p, HolderStep, Zenon
<1> QED
  BY <1>1, <1>2, <1>4, Zenon DEF Rest

\* A write that definitely failed leaves the documents as they were.
LEMMA FailStep ==
    ASSUME TypeOK, Rest, NEW p \in Processes, work[p].step \in {"write", "rename"},
           PersistFails(p), UNCHANGED <<file, flushed, disk, pending, at>>
    PROVE  Rest'
<1>w. work'[p] = Idle /\ \A q \in Processes \ {p} : work'[q] = work[q]
  BY Zenon DEF PersistFails, TypeOK
<1>1. CASE proc[p] = "opening"
  <2>1. /\ work[p].req = None /\ proc' = [proc EXCEPT ![p] = "down"] /\ lock' = None
        /\ UNCHANGED <<mem, call>>
    BY <1>1, AtWork, Zenon DEF PersistFails
  <2>2. proc'[p] = "down" /\ \A q \in Processes \ {p} : proc'[q] = proc[q]
    BY <2>1, Zenon DEF TypeOK
  <2>3. ProcInv(p)'
    BY <2>1, <2>2, <1>w, FileStoreAssumption, Zenon DEF ProcInv
  <2>4. DiskInv'
    BY <2>1, Zenon DEF Rest, DiskInv, Settled, Owes, Decodes
  <2>5. ASSUME NEW s \in Requests PROVE CallInv(s)'
    BY <2>1, Zenon DEF Rest, CallInv
  <2>6. \A q \in Processes : ProcInv(q)'
    BY <2>1, <2>2, <2>3, <1>w, HolderStep, Zenon
  <2> QED
    BY <2>4, <2>5, <2>6, Zenon DEF Rest
<1>2. CASE proc[p] = "open"
  <2>o. /\ lock = p /\ Updating(p) /\ Staged(p, work[p].req)
        /\ work[p].req \in Updates /\ work[p].req # None
    BY <1>2, AtWork, Zenon DEF Updating
  <2>r. PICK r \in Updates : r = work[p].req
    BY <2>o, Zenon
  <2>p. /\ lock = p /\ Updating(p) /\ Staged(p, r) /\ r \in Updates /\ r \in Requests /\ r # None
    BY <2>o, <2>r, Zenon DEF Requests
  <2>1. /\ mem' = [mem EXCEPT ![p] = work[p].previous]
        /\ call' = Answer(r, "refused", {}) /\ UNCHANGED <<proc, lock>>
    BY <2>p, <2>r, Zenon DEF PersistFails, Restored
  <2>2. /\ call'[r].phase = "refused" /\ \A s \in Requests \ {r} : call'[s] = call[s]
    BY <2>1, <2>p, AnswerCall DEF TypeOK, Documents
  <2>3. mem'[p] = file.doc
    BY <2>1, <2>p, Zenon DEF Staged, TypeOK
  <2>n. Settled /\ r \notin file.doc /\ ~pending[p]
    BY <2>p, Zenon DEF Staged, Updating
  <2>4. ProcInv(p)'
    BY <2>1, <2>3, <2>n, <1>w, <1>2, <2>p, IdleWork, Zenon DEF ProcInv, Resting, Settled
  <2>5. DiskInv'
    BY <2>n, <2>2, <2>p, DebtStays, Zenon DEF Rest, storage
  <2>6. \A s \in Requests : CallInv(s)'
    <3>1. CallInv(r)'
      BY <2>2, <2>n, Zenon DEF CallInv, Settled
    <3> QED
      BY <3>1, <2>2, <2>p, OtherCalls, Zenon DEF Rest
  <2>7. \A q \in Processes : ProcInv(q)'
    BY <2>1, <2>4, <1>w, <2>p, HolderStep, Zenon
  <2> QED
    BY <2>5, <2>6, <2>7, Zenon DEF Rest
<1> QED
  BY <1>1, <1>2, AtWork, Zenon

LEMMA WriteStep ==
    ASSUME TypeOK, Rest, NEW p \in Processes, WriteTemporary(p) PROVE Rest'
<1>u. work[p].step = "write" /\ UNCHANGED <<file, flushed, disk, pending, at>>
  BY Zenon DEF WriteTemporary
<1>1. CASE PersistFails(p)
  BY <1>1, <1>u, FailStep, Zenon
<1>2. CASE work' = At(p, "rename") /\ UNCHANGED <<lock, proc, mem, call>>
  <2>1. /\ work'[p].step = "rename" /\ work'[p].req = work[p].req
        /\ work'[p].previous = work[p].previous
        /\ \A q \in Processes \ {p} : work'[q] = work[q]
    BY <1>2, AtStep, Zenon DEF TypeOK, WorkRecords, Steps
  <2>2. ProcInv(p) /\ lock = p /\ proc[p] \in {"opening", "open"}
    BY <1>u, AtWork, Zenon DEF Rest
  <2>3. Opening(p) => Opening(p)'
    BY <2>1, <1>u, <1>2, Zenon DEF Opening
  <2>4. Updating(p) => Updating(p)'
    <3>1. ASSUME NEW u \in Updates, Staged(p, u) PROVE Staged(p, u)'
      BY <3>1, <2>1, <1>u, <1>2, Zenon DEF Staged, Settled
    <3> QED
      BY <3>1, <2>1, <1>u, <1>2, Zenon DEF Updating
  <2>5. ProcInv(p)'
    BY <2>1, <2>2, <2>3, <2>4, <1>u, <1>2, Zenon DEF ProcInv
  <2>6. DiskInv'
    BY <1>u, <1>2, Zenon DEF Rest, DiskInv, Settled, Owes, Decodes
  <2>7. ASSUME NEW s \in Requests PROVE CallInv(s)'
    BY <1>u, <1>2, Zenon DEF Rest, CallInv
  <2>8. \A q \in Processes : ProcInv(q)'
    BY <2>1, <2>2, <2>5, <1>u, <1>2, HolderStep, Zenon
  <2> QED
    BY <2>6, <2>7, <2>8, Zenon DEF Rest
<1> QED
  BY <1>1, <1>2, Zenon DEF WriteTemporary
LEMMA RenameStep ==
    ASSUME TypeOK, Rest, NEW p \in Processes, Rename(p) PROVE Rest'
<1>u. work[p].step = "rename" /\ UNCHANGED <<disk, pending, at>>
  BY Zenon DEF Rename
<1>1. CASE PersistFails(p) /\ UNCHANGED <<file, flushed>>
  BY <1>1, <1>u, FailStep, Zenon
<1>2. CASE /\ file' = FileOf(mem[p]) /\ flushed' = TRUE /\ work' = At(p, "sync")
           /\ UNCHANGED <<lock, proc, mem, call>>
  <2>1. /\ work'[p].step = "sync" /\ work'[p].req = work[p].req
        /\ work'[p].previous = work[p].previous
        /\ \A q \in Processes \ {p} : work'[q] = work[q]
    BY <1>2, AtStep, Zenon DEF TypeOK, WorkRecords, Steps
  <2>2. ProcInv(p) /\ lock = p /\ proc[p] \in {"opening", "open"}
    BY <1>u, AtWork, Zenon DEF Rest
  <2>3. file'.kind = "whole" /\ file'.doc = mem[p]
    BY <1>2, FileTypes, Zenon DEF TypeOK
  <2>4. CASE proc[p] = "opening"
    <3>1. Opening(p) /\ mem[p] = {} /\ file.doc = {}
      BY <2>4, <1>u, AtWork, Zenon DEF Opening
    <3>2. DiskInv'
      <4>1. Settled
        BY <3>1, Zenon DEF Rest, DiskInv, Owes
      <4> QED
        BY <4>1, <3>1, <2>3, <1>u, <1>2, Zenon DEF Rest, DiskInv, Settled, Decodes
    <3>3. ASSUME NEW s \in Requests PROVE CallInv(s)'
      BY <3>1, <2>3, <1>u, <1>2, Zenon DEF Rest, CallInv
    <3>4. ProcInv(p)'
      BY <3>1, <2>1, <2>2, <2>3, <2>4, <1>u, <1>2, Zenon DEF ProcInv, Opening
    <3>5. \A q \in Processes : ProcInv(q)'
      BY <3>4, <2>1, <2>2, <1>u, <1>2, HolderStep, Zenon
    <3> QED
      BY <3>2, <3>3, <3>5, Zenon DEF Rest
  <2>5. CASE proc[p] = "open"
    <3>o. /\ Updating(p) /\ Staged(p, work[p].req) /\ work[p].req \in Updates
      BY <2>5, <1>u, AtWork, Zenon DEF Updating
    <3>r. PICK r \in Updates : r = work[p].req
      BY <3>o, Zenon
    <3>n. /\ call[r].phase = "holding" /\ call[r].saw = file.doc /\ r \notin file.doc
          /\ mem[p] = file.doc \cup {r} /\ Settled /\ r \in Requests
      BY <3>o, <3>r, Zenon DEF Staged, Requests
    <3>1. DiskInv'
      <4>1. PowerLoss => Owes(r)'
        BY <3>n, <2>3, <1>u, <1>2, Zenon DEF Owes, Settled
      <4>2. Settled' \/ \E u \in Updates : Owes(u)'
        BY <4>1, Zenon DEF Settled
      <4> QED
        BY <4>2, <2>3, <1>u, <1>2, Zenon DEF Rest, DiskInv, Decodes
    <3>2. ASSUME NEW s \in Requests PROVE CallInv(s)'
      <4>1. CallInv(s)
        BY Zenon DEF Rest
      <4> QED
        BY <4>1, <3>n, <2>3, <1>u, <1>2, Zenon DEF CallInv
    <3>3. Renamed(p, r)'
      BY <3>n, <2>3, <1>u, <1>2, Zenon DEF Renamed, Settled
    <3>4. Updating(p)'
      BY <3>3, <3>o, <3>r, <2>1, <1>u, Zenon DEF Updating
    <3>5. ProcInv(p)'
      BY <3>4, <2>1, <2>2, <2>5, <1>2, Zenon DEF ProcInv
    <3>6. \A q \in Processes : ProcInv(q)'
      BY <3>5, <2>1, <2>2, <1>u, <1>2, HolderStep, Zenon
    <3> QED
      BY <3>1, <3>2, <3>6, Zenon DEF Rest
  <2> QED
    BY <2>2, <2>4, <2>5, Zenon
<1> QED
  BY <1>1, <1>2, Zenon DEF Rename, TemporarySynced

LEMMA SyncStep ==
    ASSUME TypeOK, Rest, NEW p \in Processes, SyncDirectory(p) PROVE Rest'
<1>u. work[p].step = "sync" /\ UNCHANGED <<file, flushed, mem, at>>
  BY Zenon DEF SyncDirectory
<1>p. ProcInv(p) /\ lock = p /\ proc[p] \in {"opening", "open"}
  BY <1>u, AtWork, Zenon DEF Rest
<1>1. CASE SyncSucceeds /\ work' = At(p, "return") /\ UNCHANGED <<lock, proc, pending, call>>
  <2>1. /\ work'[p].step = "return" /\ work'[p].req = work[p].req
        /\ work'[p].previous = work[p].previous
        /\ \A q \in Processes \ {p} : work'[q] = work[q]
    BY <1>1, AtStep, Zenon DEF TypeOK, WorkRecords, Steps
  <2>2. DiskInv' /\ (\A s \in Requests : CallInv(s)') /\ Settled'
    BY <1>1, <1>u, Synced, Zenon DEF Rest, SyncSucceeds
  <2>3. Opening(p) => Opening(p)'
    BY <2>1, <1>u, <1>1, Zenon DEF Opening
  <2>4. Updating(p) => Updating(p)'
    <3>1. ASSUME NEW u \in Updates, Renamed(p, u) PROVE Durable(p, u)'
      BY <3>1, <2>2, <1>u, <1>1, Zenon DEF Renamed, Durable
    <3> QED
      BY <3>1, <2>1, <1>u, <1>1, Zenon DEF Updating
  <2>5. ProcInv(p)'
    BY <2>1, <2>3, <2>4, <1>p, <1>u, <1>1, Zenon DEF ProcInv
  <2>6. \A q \in Processes : ProcInv(q)'
    BY <2>1, <2>5, <1>p, <1>u, <1>1, HolderStep, Zenon
  <2> QED
    BY <2>2, <2>6, Zenon DEF Rest
<1>2. CASE SyncFails /\ work' = [work EXCEPT ![p] = Idle] /\ proc[p] = "opening"
  <2>1. /\ proc' = [proc EXCEPT ![p] = "down"] /\ lock' = None
        /\ UNCHANGED <<pending, call>> /\ disk' = disk
    <3>1. ~(work' = At(p, "return"))
      BY <1>2, IdleWork, AtStep, Zenon DEF TypeOK, WorkRecords, Steps
    <3> QED
      BY <3>1, <1>2, <1>u, AtWork, Zenon DEF SyncDirectory, SyncFails
  <2>2. /\ proc'[p] = "down" /\ work'[p] = Idle
        /\ \A q \in Processes \ {p} : proc'[q] = proc[q] /\ work'[q] = work[q]
    BY <1>2, <2>1, Zenon DEF TypeOK
  <2>3. ProcInv(p)'
    BY <2>1, <2>2, FileStoreAssumption, Zenon DEF ProcInv
  <2>4. DiskInv'
    BY <2>1, <1>u, Zenon DEF Rest, DiskInv, Settled, Owes, Decodes
  <2>5. ASSUME NEW s \in Requests PROVE CallInv(s)'
    BY <2>1, <1>u, Zenon DEF Rest, CallInv
  <2>6. \A q \in Processes : ProcInv(q)'
    BY <2>1, <2>2, <2>3, <1>u, HolderStep, Zenon
  <2> QED
    BY <2>4, <2>5, <2>6, Zenon DEF Rest
<1>3. CASE SyncFails /\ work' = [work EXCEPT ![p] = Idle] /\ proc[p] = "open"
  <2>o. Updating(p) /\ Renamed(p, work[p].req) /\ work[p].req \in Updates /\ work[p].req # None
    BY <1>3, <1>u, AtWork, Zenon DEF Updating
  <2>r. PICK r \in Updates : r = work[p].req
    BY <2>o, Zenon
  <2>1. /\ pending' = [pending EXCEPT ![p] = TRUE] /\ call' = Uncertain(r)
        /\ UNCHANGED <<proc, lock>> /\ disk' = disk
    BY <1>3, <1>u, <2>o, <2>r, IdleWork, AtStep, Zenon DEF SyncDirectory, SyncFails, TypeOK, WorkRecords, Steps
  <2>2. /\ r \in Requests /\ call'[r].phase = "uncertain" /\ call'[r].saw = call[r].saw
        /\ \A s \in Requests \ {r} : call'[s] = call[s]
    <3>1. r \in Requests /\ call[r].saw \in Documents
      BY Zenon DEF TypeOK, Calls, Requests
    <3> QED
      BY <3>1, <2>1, AnswerCall, Zenon DEF TypeOK, Uncertain
  <2>3. work'[p] = Idle /\ pending'[p] /\ \A q \in Processes \ {p} : work'[q] = work[q]
    BY <1>3, <2>1, Zenon DEF TypeOK
  <2>n. call[r].phase = "holding" /\ mem[p] = file.doc
    BY <2>o, <2>r, Zenon DEF Renamed
  <2>4. DiskInv'
    <3>1. Settled => Settled'
      BY <2>1, <1>u, Zenon DEF Settled
    <3>2. ASSUME NEW u \in Updates, Owes(u) PROVE Owes(u)'
      BY <3>2, <2>1, <2>2, <1>u, Zenon DEF Owes, Requests
    <3> QED
      BY <3>1, <3>2, <2>1, <1>u, Zenon DEF Rest, DiskInv, Decodes
  <2>5. \A s \in Requests : CallInv(s)'
    <3>1. CallInv(r)'
      BY <2>1, <2>2, <1>u, <2>r, <2>o, Zenon DEF CallInv
    <3> QED
      BY <3>1, <2>1, <2>2, <1>u, OtherCalls, Zenon DEF Rest
  <2>6. ProcInv(p)'
    BY <2>1, <2>3, <2>n, <1>3, <1>u, <1>p, IdleWork, Zenon DEF ProcInv, Resting
  <2>7. \A q \in Processes : ProcInv(q)'
    BY <2>1, <2>3, <2>6, <1>p, <1>u, HolderStep, Zenon
  <2> QED
    BY <2>4, <2>5, <2>7, Zenon DEF Rest
<1> QED
  BY <1>1, <1>2, <1>3, <1>p, Zenon DEF SyncDirectory

LEMMA ReturnStep ==
    ASSUME TypeOK, Rest, NEW p \in Processes, Return(p) PROVE Rest'
<1>u. /\ work[p].step = "return" /\ UNCHANGED <<file, flushed, disk, lock, mem, pending, at>>
      /\ work' = [work EXCEPT ![p] = Idle]
  BY Zenon DEF Return
<1>p. ProcInv(p) /\ lock = p /\ proc[p] \in {"opening", "open"}
  BY <1>u, AtWork, Zenon DEF Rest
<1>w. work'[p] = Idle /\ \A q \in Processes \ {p} : work'[q] = work[q]
  BY <1>u, Zenon DEF TypeOK
<1>1. CASE proc[p] = "opening"
  <2>1. Opening(p) /\ proc' = [proc EXCEPT ![p] = "open"] /\ UNCHANGED call
    BY <1>1, <1>u, AtWork, Zenon DEF Return
  <2>2. proc'[p] = "open" /\ \A q \in Processes \ {p} : proc'[q] = proc[q]
    BY <2>1, Zenon DEF TypeOK
  <2>3. DiskInv'
    BY <2>1, <1>u, Zenon DEF Rest, DiskInv, Settled, Owes, Decodes
  <2>4. ASSUME NEW s \in Requests PROVE CallInv(s)'
    BY <2>1, <1>u, Zenon DEF Rest, CallInv
  <2>5. Settled
    BY <2>1, Zenon DEF Opening, Rest, DiskInv, Owes
  <2>6. ProcInv(p)'
    BY <2>1, <2>2, <2>5, <1>w, <1>u, <1>p, IdleWork, Zenon DEF ProcInv, Resting, Opening, Settled
  <2>7. \A q \in Processes : ProcInv(q)'
    BY <2>2, <2>6, <1>w, <1>u, <1>p, HolderStep, Zenon
  <2> QED
    BY <2>3, <2>4, <2>7, Zenon DEF Rest
<1>2. CASE proc[p] = "open"
  <2>o. /\ Updating(p) /\ Durable(p, work[p].req) /\ work[p].req \in Updates
        /\ work[p].req # None
    BY <1>2, <1>u, AtWork, Zenon DEF Updating
  <2>r. PICK r \in Updates : r = work[p].req
    BY <2>o, Zenon
  <2>1. call' = Answer(r, "done", mem[p]) /\ UNCHANGED proc
    BY <2>o, <2>r, Zenon DEF Return
  <2>2. /\ r \in Requests /\ call'[r].phase = "done"
        /\ \A s \in Requests \ {r} : call'[s] = call[s]
    BY <2>1, AnswerCall, Zenon DEF TypeOK, Requests
  <2>n. Settled /\ mem[p] = file.doc
    BY <2>o, Zenon DEF Durable
  <2>3. DiskInv'
    BY <2>2, <2>n, <1>u, DebtStays, Zenon DEF Rest, storage
  <2>4. \A s \in Requests : CallInv(s)'
    <3>1. CallInv(r)'
      BY <2>2, Zenon DEF CallInv
    <3> QED
      BY <3>1, <2>2, <1>u, OtherCalls, Zenon DEF Rest
  <2>5. ProcInv(p)'
    BY <2>1, <2>n, <1>2, <1>w, <1>u, <1>p, IdleWork, Zenon DEF ProcInv, Resting, Settled
  <2>6. \A q \in Processes : ProcInv(q)'
    BY <2>1, <2>5, <1>w, <1>u, <1>p, HolderStep, Zenon
  <2> QED
    BY <2>3, <2>4, <2>6, Zenon DEF Rest
<1> QED
  BY <1>1, <1>2, <1>p, Zenon
LEMMA RestInit ==
    ASSUME Init PROVE TypeOK /\ Rest
<1>1. TypeOK
  <2>1. NoFile \in Files /\ Idle \in WorkRecords /\ {} \in Documents
    BY FileTypes, IdleWork, Zenon DEF Documents
  <2>2. [phase |-> "idle", saw |-> {}] \in Calls
    BY <2>1, Zenon DEF Calls
  <2> QED
    BY <2>1, <2>2, Zenon DEF Init, TypeOK, WorkRecords
<1>2. DiskInv
  BY FileTypes, Zenon DEF Init, DiskInv, Settled, Decodes
<1>3. ASSUME NEW r \in Requests PROVE CallInv(r)
  BY FileTypes, Zenon DEF Init, CallInv
<1>4. ASSUME NEW p \in Processes PROVE ProcInv(p)
  BY FileStoreAssumption, Zenon DEF Init, ProcInv
<1> QED
  BY <1>1, <1>2, <1>3, <1>4, Zenon DEF Rest

LEMMA RestStep ==
    ASSUME TypeOK, Rest, ~(PowerLoss /\ OpenUnsynced), [Next]_vars
    PROVE  TypeOK' /\ Rest'
<1>1. CASE Next
  <2>1. \A p \in Processes : work[p].step = "mutate" => work[p].req \in Requests
    BY AtWork, Zenon DEF Opening, Requests
  <2>2. TypeOK'
    BY <1>1, <2>1, TypeStep, Zenon
  <2>3. Rest'
    BY <1>1, WritebackStep, LosePowerStep, CrashStep, OpenStep, CloseStep, ReadinessStep,
       MutateStep, WriteStep, RenameStep, SyncStep, ReturnStep, CallStep, ViewStep,
       ViewBarrierStep, BeginStep, RefuseStep, Zenon DEF Next, Persist, Serve
  <2> QED
    BY <2>2, <2>3, Zenon
<1>2. CASE UNCHANGED vars
  <2>1. TypeOK'
    BY <1>2, Zenon DEF vars, TypeOK
  <2>2. DiskInv'
    BY <1>2, Zenon DEF vars, Rest, DiskInv, Settled, Owes, Decodes
  <2>3. ASSUME NEW r \in Requests PROVE CallInv(r)'
    BY <1>2, Zenon DEF vars, Rest, CallInv
  <2>4. ASSUME NEW p \in Processes PROVE ProcInv(p)'
    <3>1. Opening(p) => Opening(p)'
      BY <1>2, Zenon DEF vars, Opening
    <3>2. Resting(p) => Resting(p)'
      BY <1>2, Zenon DEF vars, Resting, Settled
    <3>3. Updating(p) => Updating(p)'
      BY <1>2, Zenon DEF vars, Updating, Begun, Staged, Renamed, Durable, Settled
    <3> QED
      BY <1>2, <3>1, <3>2, <3>3, Zenon DEF vars, Rest, ProcInv
  <2> QED
    BY <2>1, <2>2, <2>3, <2>4, Zenon DEF Rest
<1> QED
  BY <1>1, <1>2, Zenon

LEMMA RestMatches ==
    ASSUME TypeOK, Rest PROVE MemoryMatches
<1> SUFFICES ASSUME NEW p \in Processes, proc[p] = "open", work[p].step = "free"
             PROVE  lock = p /\ mem[p] = file.doc /\ (pending[p] \/ mem[p] = Survives)
  BY Zenon DEF MemoryMatches
<1>1. lock = p /\ Resting(p)
  BY Zenon DEF Rest, ProcInv
<1> QED
  BY <1>1, Zenon DEF Resting, Settled, Survives

\* The file store keeps its memory, its file and the disk in step: under any crashes, lost
\* requests and failing syncs, the invariant above holds.
THEOREM FileStoreInvariant ==
    ASSUME ~(PowerLoss /\ OpenUnsynced)
    PROVE  Spec => [](TypeOK /\ Rest)
<1>1. Init => TypeOK /\ Rest
  BY RestInit, Zenon
<1>2. (TypeOK /\ Rest) /\ [Next]_vars => (TypeOK /\ Rest)'
  BY RestStep, Zenon
<1> QED
  BY <1>1, <1>2, PTL DEF Spec

\* The copy an open store answers from is the file's document and, unless the barrier is up,
\* the one a power loss would leave (store.go Update, View, OpenStore).
THEOREM FileMemoryMatches ==
    ASSUME ~(PowerLoss /\ OpenUnsynced)
    PROVE  Spec => []MemoryMatches
<1>1. TypeOK /\ Rest => MemoryMatches
  BY RestMatches, Zenon
<1>2. Spec => [](TypeOK /\ Rest)
  BY FileStoreInvariant, Zenon
<1> QED
  BY <1>1, <1>2, PTL
=============================================================================
