--------------------------- MODULE WindowsInstall ---------------------------
(***************************************************************************)
(* The Windows installer (src/internal/windowsinstall), as the commands of *)
(* mesh-install-windows call it.  One directory holds the activation       *)
(* journal, the runtime-uninstall journal, the install state, the accepted *)
(* intake, the trusted roots, the captured artifact and the runtime gate;  *)
(* the release layout holds the published releases and the selector        *)
(* current.json; the service manager has one node-agent service.           *)
(*                                                                         *)
(* A command is several sections of the installer lock with unlocked       *)
(* observations between them, so commands of two processes interleave.     *)
(* Each durable change is a step.  A process may die at any step; a        *)
(* failure after the target was selected closes the gate and stops the     *)
(* service instead.                                                        *)
(***************************************************************************)
EXTENDS Naturals, Sequences

CONSTANTS
    Processes,      \* processes that run installer commands
    Operator,       \* the one that finishes what is unfinished
    Releases,       \* releases, numbered by their epoch and sequence
    Release,        \* their AuthenticatedWindowsRelease records
    Hosts,          \* settled hosts to start from: install state, running, gate open
    MaxCalls,       \* bound on a process's other commands
    MaxFaults       \* bound on crashes and failures

VARIABLES
    files,          \* per kind: the live value and its pending file
    tree,           \* per release: absent, a private or finalized stage, or published
    service,        \* the installed service's release, 0 when absent, and its state
    lock,           \* the process that holds the installer lock, or "none"
    work,           \* per process: the command at work
    calls,
    faults

vars == <<files, tree, service, lock, work, calls, faults>>

Kinds == {"journal", "uninstall", "state", "intake", "root", "capture", "current", "gate"}

NoState == [high |-> 0, active |-> 0, previous |-> 0]

NoJournal == [op |-> "none", target |-> 0, prior |-> 0, high |-> 0, installed |-> FALSE,
              running |-> FALSE, open |-> FALSE, phase |-> "none"]

NoUninstall == [source |-> NoState, phase |-> "none"]

Idle == [op |-> "none", r |-> 0, plan |-> <<>>, journal |-> NoJournal]

File(v) == [live |-> v, pending |-> "absent", next |-> v]

(* A host whose layout was just ensured, or one that earlier commands left *)
(* settled.                                                                *)
Settled(h) ==
    LET s == h.state IN
    /\ files = [journal |-> File(NoJournal), uninstall |-> File(NoUninstall), state |-> File(s),
                intake |-> File(0), root |-> File(IF s.high = 0 THEN 1 ELSE Release[s.high].root),
                capture |-> File(0), current |-> File(s.active), gate |-> File(h.open)]
    /\ tree = [r \in Releases |-> IF r \in {s.high, s.active, s.previous} THEN "published" ELSE "absent"]
    /\ service = [release |-> s.active, running |-> h.running]

Init ==
    /\ \E h \in Hosts : Settled(h)
    /\ lock = "none"
    /\ work = [p \in Processes |-> Idle]
    /\ calls = [p \in Processes |-> 0]
    /\ faults = 0

readWindowsActivationJournal == files.journal.live

readWindowsRuntimeUninstallJournal == files.uninstall.live

readWindowsInstallState == files.state.live

readWindowsIntakeRecord == files.intake.live

readWindowsArtifactCapture == files.capture.live

replayWindowsRootNames == files.root.live

readDescriptor == files.current.live

(* The exact tree of a release is in the releases directory.               *)
published == {r \in Releases : tree[r] = "published"}

Present(k) == files[k].pending # "absent"

-----------------------------------------------------------------------------
(* What the records allow.                                                 *)

validateWindowsAgentStateRollbackPair(source, target) ==
    /\ Release[source].write \in Release[target].reads
    /\ Release[target].write \in Release[source].reads

ValidState(s) ==
    /\ s.active <= s.high /\ s.previous <= s.high
    /\ s.active # 0 => s.active # s.previous

CheckCandidate(s, r) ==
    /\ r >= s.high
    /\ Release[r].floor >= Release[s.high].floor
    /\ r > s.high => Release[r].root >= Release[s.high].root

CanActivate(s) ==
    /\ Release[s.high].bundle >= Release[s.high].floor
    /\ s.active # 0 => validateWindowsAgentStateRollbackPair(s.active, s.high)

ActivateAccepted(s) ==
    IF s.active = s.high THEN s
    ELSE [s EXCEPT !.previous = s.active, !.active = s.high]

CanRollback(s) ==
    /\ s.active # 0 /\ s.previous # 0
    /\ Release[s.previous].bundle >= Release[s.high].floor
    /\ validateWindowsAgentStateRollbackPair(s.active, s.previous)

RollbackPrevious(s) == [s EXCEPT !.active = s.previous, !.previous = s.active]

(* Mutant: the uninstall forgets the accepted release too.                 *)
DeactivateRuntimeForgets(s) == NoState

DeactivateRuntime(s) == [s EXCEPT !.active = 0, !.previous = 0]

validateWindowsInstallStateTransition(s, t) ==
    /\ ValidState(t)
    /\ \/ s = NoState /\ t.active = 0 /\ t.previous = 0
       \/ s = t
       \/ s # NoState /\ CheckCandidate(s, t.high) /\ t = [s EXCEPT !.high = t.high]
       \/ s # NoState /\ CanActivate(s) /\ t = ActivateAccepted(s)
       \/ s # NoState /\ CanRollback(s) /\ t = RollbackPrevious(s)
       \/ s # NoState /\ t = DeactivateRuntime(s)

ValidJournal(j) ==
    /\ j.target # j.prior
    /\ j.op = "rollback" => j.prior # 0
    /\ j.op = "activate" => j.high = j.target
    /\ j.prior # 0 => validateWindowsAgentStateRollbackPair(j.prior, j.target)
    /\ Release[j.target].bundle >= Release[j.high].floor
    /\ j.running => j.installed /\ j.open

(* The prefix order of a journal's phases.                                 *)
Follows(phases, from, to) ==
    \E i \in 1..Len(phases) : /\ phases[i] = from
                              /\ to = from \/ (i < Len(phases) /\ phases[i + 1] = to)

validateWindowsActivationTransition(j, next) ==
    /\ ValidJournal(next)
    /\ IF j = NoJournal THEN next.phase = "prepared"
       ELSE /\ [next EXCEPT !.phase = j.phase] = j
            /\ Follows(<<"prepared", "quiesced", "selected", "activated">>, j.phase, next.phase)

UninstallPhases == <<"prepared", "gate-closed", "service-stopped", "service-deleted",
                     "current-removed", "state-deactivated">>

validateWindowsRuntimeUninstallTransition(u, next) ==
    IF u = NoUninstall THEN next.phase = "prepared"
    ELSE next.source = u.source /\ Follows(UninstallPhases, u.phase, next.phase)

windowsStateReflectsFinalizedActivation(s, j) ==
    s.high = j.high /\ s.active = j.target /\ s.previous = j.prior

(* The state is exactly the one before the transaction, or, once its       *)
(* journal says activated, exactly the one after it.                       *)
authorizeWindowsTransactionState(s, j) ==
    /\ s.high = j.high
    /\ IF s.active = j.target
       THEN j.phase = "activated" /\ s.previous = j.prior
       ELSE /\ s.active = j.prior
            /\ IF j.op = "activate" THEN CanActivate(s)
               ELSE s.previous = j.target /\ CanRollback(s)

(* The bundle reproduces the whole root history; its authority is the      *)
(* current root, or the accepted one for the accepted release.             *)
VerifyWindowsCandidateWithRoots(r, s) ==
    /\ Release[r].root = replayWindowsRootNames
    /\ s.high # 0 => r >= s.high /\ Release[r].floor >= Release[s.high].floor

-----------------------------------------------------------------------------
(* Commands: a plan of steps per process.                                  *)

At(p, step) == work[p].plan # <<>> /\ Head(work[p].plan)[1] = step

Arg(p) == Head(work[p].plan)[2]

(* A recovery that finds no pending file changes nothing and takes no step *)
(* of its own.                                                             *)
SkipRecovered(plan) ==
    LET Nothing(step) == step[1] = "recover" /\ ~Present(step[2])
        n == CHOOSE i \in 0..Len(plan) : /\ \A m \in 1..i : Nothing(plan[m])
                                         /\ i = Len(plan) \/ ~Nothing(plan[i + 1])
    IN  SubSeq(plan, n + 1, Len(plan))

(* What follows the step; a section's last step ends with its unlock.      *)
Then(p, w, plan) ==
    LET next == SkipRecovered(plan)
        ends == next # <<>> /\ Head(next) = <<"unlock">>
        rest == IF ends THEN Tail(next) ELSE next
    IN  /\ work' = [work EXCEPT ![p] = IF rest = <<>> THEN Idle ELSE [w EXCEPT !.plan = rest]]
        /\ lock' = IF ends THEN "none" ELSE lock

Go(p, more) == Then(p, work[p], more \o Tail(work[p].plan))

(* The command returns, and the lock it holds is released.                 *)
Return(p) ==
    /\ work' = [work EXCEPT ![p] = Idle]
    /\ lock' = IF lock = p THEN "none" ELSE lock

(* The next step when ok, and otherwise the command fails.                 *)
Check(p, ok, more) ==
    IF ok THEN Go(p, more) ELSE Return(p)

Begin(p, op, r, plan) ==
    /\ work[p] = Idle
    /\ work' = [work EXCEPT ![p] = [op |-> op, r |-> r, plan |-> plan, journal |-> NoJournal]]
    /\ UNCHANGED <<files, tree, service, lock, faults>>

UnchangedRest == UNCHANGED <<tree, service, calls, faults>>

Publication(k, v) == << <<"write", k, v>>, <<"move", k, v>> >>

(* A pending file is created, written and synced, then moved over the live *)
(* one.                                                                    *)
Written(p, k) ==
    /\ \/ /\ At(p, "write") /\ Arg(p) = k
          /\ files' = [files EXCEPT ![k].pending = "complete", ![k].next = Head(work[p].plan)[3]]
       \/ /\ At(p, "move") /\ Arg(p) = k
          /\ files' = [files EXCEPT ![k] = File(Head(work[p].plan)[3])]
    /\ Go(p, <<>>)
    /\ UnchangedRest

Removed(p, k, none) ==
    /\ At(p, "remove") /\ Arg(p) = k
    /\ files' = [files EXCEPT ![k] = File(none)]
    /\ Go(p, <<>>)
    /\ UnchangedRest

(* A complete, legal pending file is published; a torn one is an error.    *)
Recovered(p, k, legal) ==
    /\ At(p, "recover") /\ Arg(p) = k
    /\ LET f == files[k]
           ok == f.pending = "absent" \/ (f.pending = "complete" /\ legal)
       IN  /\ files' = [files EXCEPT ![k] = IF ok /\ f.pending = "complete" THEN File(f.next) ELSE f]
           /\ Check(p, ok, <<>>)
    /\ UnchangedRest

advanceWindowsActivationJournalLocked(j) == Publication("journal", j)

writeWindowsActivationPending(p) == Written(p, "journal")

recoverWindowsActivationJournalLocked(p) ==
    Recovered(p, "journal",
              validateWindowsActivationTransition(readWindowsActivationJournal, files.journal.next))

advanceWindowsRuntimeUninstallJournalLocked(u) == Publication("uninstall", u)

writeWindowsRuntimeUninstallPending(p) == Written(p, "uninstall")

recoverWindowsRuntimeUninstallJournalLocked(p) ==
    Recovered(p, "uninstall",
              validateWindowsRuntimeUninstallTransition(readWindowsRuntimeUninstallJournal,
                                                        files.uninstall.next))

commitWindowsInstallStateLocked(s) == Publication("state", s)

writeWindowsInstallStatePending(p) == Written(p, "state")

recoverWindowsInstallStateLocked(p) ==
    Recovered(p, "state",
              validateWindowsInstallStateTransition(readWindowsInstallState, files.state.next))

persistWindowsAcceptedIntakeLocked(p) == Written(p, "intake")

recoverWindowsAcceptedIntakeLocked(p) == Recovered(p, "intake", TRUE)

publishWindowsRootUpdate(p) == Written(p, "root")

reconcileWindowsRootPending(p) ==
    Recovered(p, "root", files.root.next = replayWindowsRootNames + 1)

(* No live and no pending journal of the other kind.                       *)
rejectWindowsMutationDuringRuntimeUninstallLocked ==
    readWindowsRuntimeUninstallJournal = NoUninstall /\ ~Present("uninstall")

rejectWindowsCandidateAcceptanceDuringActivation ==
    /\ rejectWindowsMutationDuringRuntimeUninstallLocked
    /\ readWindowsActivationJournal = NoJournal /\ ~Present("journal")

rejectWindowsRuntimeUninstallOverlapLocked ==
    /\ readWindowsActivationJournal = NoJournal /\ ~Present("journal")
    /\ readWindowsIntakeRecord = 0 /\ ~Present("intake")

(* A guard of a section that reads and changes nothing.                    *)
Required(p, step, ok) ==
    /\ At(p, step)
    /\ Check(p, ok, <<>>)
    /\ UNCHANGED files
    /\ UnchangedRest

RejectOverlap(p) == Required(p, "rejectOverlap", rejectWindowsRuntimeUninstallOverlapLocked)

RequireNoJournal(p) == Required(p, "noJournal", readWindowsActivationJournal = NoJournal)

RequireNoUninstall(p) == Required(p, "noUninstall", readWindowsRuntimeUninstallJournal = NoUninstall)

RequireNoIntake(p) == Required(p, "noIntake", readWindowsIntakeRecord = 0)

StillActive(p) ==
    Required(p, "stillActive",
             readWindowsInstallState.active = work[p].r /\ readWindowsInstallState.high = work[p].r)

(* LockFileEx fails at once when another process holds the lock; a section *)
(* then starts with what it rejects.                                       *)
Admits(reject) ==
    /\ reject = "uninstall" => rejectWindowsMutationDuringRuntimeUninstallLocked
    /\ reject = "activation" => rejectWindowsCandidateAcceptanceDuringActivation

acquireInstallerLock(p) ==
    /\ At(p, "lock")
    /\ IF lock = "none" /\ Admits(Arg(p))
       THEN /\ work' = [work EXCEPT ![p].plan = SkipRecovered(Tail(@))]
            /\ lock' = p
       ELSE Return(p)
    /\ UNCHANGED files
    /\ UnchangedRest

Section(reject, steps) == << <<"lock", reject>> >> \o steps \o << <<"unlock">> >>

requireNoActivationJournal ==
    Section("any", << <<"recover", "uninstall">>, <<"noUninstall">> >>)
    \o Section("any", << <<"recover", "journal">>, <<"noJournal">> >>)

-----------------------------------------------------------------------------
(* Accepting, capturing and publishing a release.                          *)

AcceptWindowsCandidate ==
    Section("activation", << <<"recover", "intake">>, <<"accept">> >>)

applyWindowsRootUpdatesLocked(version) ==
    LET from == replayWindowsRootNames
        Updates[v \in from..version] ==
            IF v = from THEN <<>> ELSE Updates[v - 1] \o Publication("root", v)
    IN  IF version <= from THEN <<>> ELSE Updates[version]

(* The same bundle again is verified again; another one has to wait.       *)
acceptCandidate(p) ==
    /\ At(p, "accept")
    /\ IF readWindowsIntakeRecord # 0
       THEN Check(p, readWindowsIntakeRecord = work[p].r, <<>>)
       ELSE Go(p, << <<"recover", "root">>, <<"applyRoots">>, <<"recover", "state">>, <<"verify">> >>)
    /\ UNCHANGED files
    /\ UnchangedRest

applyRoots(p) ==
    /\ At(p, "applyRoots")
    /\ Go(p, applyWindowsRootUpdatesLocked(Release[work[p].r].root))
    /\ UNCHANGED files
    /\ UnchangedRest

verifyCandidate(p) ==
    /\ At(p, "verify")
    /\ Check(p, VerifyWindowsCandidateWithRoots(work[p].r, readWindowsInstallState),
                Publication("intake", work[p].r))
    /\ UNCHANGED files
    /\ UnchangedRest

fetchWindowsArtifactUsing ==
    Section("activation", << <<"recover", "intake">>, <<"exactIntake">>, <<"fetch">> >>)

ExactIntake(p) == Required(p, "exactIntake", readWindowsIntakeRecord = work[p].r)

(* A live capture serves; a complete pending one is published; a partial   *)
(* one is removed and fetched again.                                       *)
fetchArtifact(p) ==
    /\ At(p, "fetch")
    /\ LET f == files.capture IN
       /\ files' = IF f.pending = "torn" THEN [files EXCEPT !.capture.pending = "absent"] ELSE files
       /\ Go(p, CASE f.live = work[p].r -> <<>>
                  [] f.live # work[p].r /\ f.pending = "complete" -> << <<"move", "capture", work[p].r>> >>
                  [] OTHER -> Publication("capture", work[p].r))
    /\ UnchangedRest

publishWindowsArtifactCapture(p) == Written(p, "capture")

discardWindowsArtifactCaptureLocked(p) == Removed(p, "capture", 0)

removeIntake(p) == Removed(p, "intake", 0)

PublishAcceptedWindowsIntake ==
    Section("activation", << <<"recover", "intake">>, <<"exactIntake">>,
               <<"recover", "state">>, <<"highWater">>, <<"stage">>, <<"load">> >>)

(* The captured bundle's authority raises high water before anything is    *)
(* staged.                                                                 *)
commitAcceptedWindowsAuthorityLocked(p) ==
    /\ At(p, "highWater")
    /\ LET s == readWindowsInstallState
           r == work[p].r
       IN  Check(p, /\ readWindowsArtifactCapture = r /\ ~Present("capture")
                    /\ s # NoState => CheckCandidate(s, r),
                    IF s.high = r THEN <<>> ELSE commitWindowsInstallStateLocked([s EXCEPT !.high = r]))
    /\ UNCHANGED files
    /\ UnchangedRest

(* A published release serves, a finalised stage is published, and any     *)
(* other stage is removed and made anew.                                   *)
ResumeAuthenticatedStage(p) ==
    /\ At(p, "stage")
    /\ Go(p, CASE tree[work[p].r] = "published" -> <<>>
               [] tree[work[p].r] = "finalized" -> << <<"publish">> >>
               [] OTHER -> << <<"resetStage">>, <<"fillStage">>, <<"publish">> >>)
    /\ UNCHANGED files
    /\ UnchangedRest

Tree(p, step, state) ==
    /\ At(p, step)
    /\ tree' = [tree EXCEPT ![work[p].r] = state]
    /\ Go(p, <<>>)
    /\ UNCHANGED <<files, service, calls, faults>>

resetAndCreateAcceptedStage(p) == Tree(p, "resetStage", "private")

StageAuthenticatedArtifact(p) == Tree(p, "fillStage", "finalized")

publishWindowsFinalizedRelease(p) == Tree(p, "publish", "published")

-----------------------------------------------------------------------------
(* The runtime gate, the selector and the service.                         *)

inspectWindowsRuntimeGate == [ok |-> ~Present("gate"), open |-> files.gate.live]

openWindowsRuntimeGate == Publication("gate", TRUE)

gatePending(p) == Written(p, "gate")

(* Closing removes the live and the pending file.                          *)
closeWindowsRuntimeGate(p) == Removed(p, "gate", FALSE)

CloseGate == << <<"remove", "gate">> >>

InspectInstalled(r) == service.release = r /\ r # 0

(* Mutant: a host without the service, where a first install starts, is    *)
(* refused.                                                                *)
installedAlready(j) == service.release \in {j.target, j.prior} \ {0}

installedController(j) == service.release \in {0, j.target, j.prior}

StopAndProve(p) ==
    /\ At(p, "stop")
    /\ LET known == IF work[p].op = "uninstall" THEN service.release \in {0, Arg(p)}
                    ELSE installedController(work[p].journal)
       IN  /\ service' = IF known THEN [service EXCEPT !.running = FALSE] ELSE service
           /\ Check(p, known, <<>>)
    /\ UNCHANGED <<files, tree, calls, faults>>

(* The source's service is stopped and deleted before the target's is      *)
(* created; a step each.                                                   *)
InstallTargetService(p) ==
    /\ At(p, "install")
    /\ LET j == work[p].journal IN
       /\ installedController(j)
       /\ service' = CASE service.release = j.target -> service
                       [] service.release # j.target /\ service.running ->
                            [service EXCEPT !.running = FALSE]
                       [] service.release # j.target /\ ~service.running /\ service.release # 0 ->
                            [release |-> 0, running |-> FALSE]
                       [] OTHER -> [release |-> j.target, running |-> FALSE]
       /\ Go(p, IF service.release \in {0, j.target} THEN <<>> ELSE << <<"install">> >>)
    /\ UNCHANGED <<files, tree, calls, faults>>

DeleteStoppedAndProve(p) ==
    /\ At(p, "delete")
    /\ LET ok == ~service.running /\ service.release \in {0, Arg(p)}
       IN  /\ service' = IF ok THEN [release |-> 0, running |-> FALSE] ELSE service
           /\ Check(p, ok, <<>>)
    /\ UNCHANGED <<files, tree, calls, faults>>

StartAndProve(p) ==
    /\ At(p, "start")
    /\ InspectInstalled(Arg(p))
    /\ service' = [service EXCEPT !.running = TRUE]
    /\ Go(p, <<>>)
    /\ UNCHANGED <<files, tree, calls, faults>>

(* The start times out or its proof fails; the service may run all the     *)
(* same.  ActivateRuntime then closes the gate and nothing else.           *)
StartFails(p) ==
    /\ At(p, "start")
    /\ faults < MaxFaults
    /\ faults' = faults + 1
    /\ \E running \in {service.running, TRUE} : service' = [service EXCEPT !.running = running]
    /\ work' = [work EXCEPT ![p].plan = IF @[1][3] = "quarantine" THEN CloseGate \o << <<"stop", 0>>, <<"fail">> >>
                                        ELSE CloseGate \o << <<"fail">> >>]
    /\ UNCHANGED <<files, tree, lock, calls>>

Fail(p) ==
    /\ At(p, "fail")
    /\ Return(p)
   
    /\ UNCHANGED files
    /\ UnchangedRest

(* The selector is replaced only where it still names the expected prior.  *)
switchCurrentRelease(p) ==
    /\ At(p, "switch")
    /\ LET j == work[p].journal
           f == files.current
       IN  /\ files' = IF f.live = j.target THEN [files EXCEPT !.current = File(f.live)] ELSE files
           /\ Check(p, f.pending # "torn" /\ j.target \in published /\ f.live \in {j.prior, j.target},
                    IF f.live = j.target THEN <<>>
                    ELSE IF f.pending = "complete" THEN << <<"move", "current", j.target>> >>
                    ELSE Publication("current", j.target))
    /\ UnchangedRest

currentTemporary(p) == Written(p, "current")

RemoveCurrentSelection(p) == Removed(p, "current", 0)

-----------------------------------------------------------------------------
(* The transaction.                                                        *)

RunWindowsTransaction ==
    Section("uninstall", << <<"recover", "journal">>, <<"recover", "state">>,
               <<"authorize">>, <<"advance">> >>)

FinalizeWindowsTransaction ==
    Section("uninstall", << <<"recover", "journal">>, <<"recover", "state">>,
               <<"finalize">> >>)

(* The accepted release is active already: its intake is only consumed.    *)
finalizeAlreadyActiveWindowsIntake ==
    Section("any", << <<"recover", "journal">>, <<"noJournal">>, <<"recover", "state">>,
               <<"stillActive">>, <<"recover", "intake">>, <<"exactIntake">>,
               <<"remove", "capture">>, <<"remove", "intake">> >>)

(* The journal a new transaction starts from: the install state as the     *)
(* section that ended read it.                                             *)
NewWindowsActivationJournal(s) ==
    [NoJournal EXCEPT !.op = "activate", !.target = s.high, !.prior = s.active, !.high = s.high,
                      !.phase = "prepared"]

NewWindowsRollbackJournal(s) ==
    [NewWindowsActivationJournal(s) EXCEPT !.op = "rollback", !.target = s.previous]

loadInstallState(p) ==
    /\ At(p, "load")
    /\ LET s == readWindowsInstallState
           rollback == work[p].op = "rollback"
           j == IF rollback THEN NewWindowsRollbackJournal(s) ELSE NewWindowsActivationJournal(s)
           active == s.active = work[p].r
           plan == << <<"unlock">> >> \o
                   (IF ~active THEN << <<"observe">> >> \o RunWindowsTransaction \o FinalizeWindowsTransaction
                    ELSE IF rollback THEN <<>> ELSE finalizeAlreadyActiveWindowsIntake)
       IN  IF ~active /\ rollback /\ (s.active = 0 \/ s.previous # work[p].r)
           THEN Return(p)
           ELSE Then(p, [work[p] EXCEPT !.journal = IF active THEN NoJournal ELSE j], plan)
    /\ UNCHANGED files
    /\ UnchangedRest

(* Then, without the lock, what the service and the gate are.              *)

observeSource(p) ==
    /\ At(p, "observe")
    /\ LET j == [work[p].journal EXCEPT !.installed = service.release # 0, !.running = service.running,
                                          !.open = inspectWindowsRuntimeGate.open]
           ok == /\ inspectWindowsRuntimeGate.ok
                 /\ service.release = j.prior
                 /\ j.prior = 0 => ~j.open
                 /\ ValidJournal(j)
       IN  IF ok THEN Then(p, [work[p] EXCEPT !.journal = j], Tail(work[p].plan)) ELSE Return(p)
    /\ UNCHANGED files
    /\ UnchangedRest

(* The journal was recovered and the state authorises it; a new one is     *)
(* published only if what was observed still holds.                        *)
validateAuthorizedWindowsTransactionLocked(j, allowConsumedIntake) ==
    /\ authorizeWindowsTransactionState(readWindowsInstallState, j)
    /\ ~Present("intake")
    /\ IF j.op = "rollback" THEN readWindowsIntakeRecord = 0
       ELSE readWindowsIntakeRecord \in {j.target} \cup (IF allowConsumedIntake THEN {0} ELSE {})

ValidateSourceState(j) ==
    /\ readDescriptor = j.prior
    /\ inspectWindowsRuntimeGate = [ok |-> TRUE, open |-> j.open]
    /\ installedController(j)
    /\ (service.release # 0) = j.installed
    /\ service.running = j.running

runWindowsTransaction(p) ==
    /\ At(p, "authorize")
    /\ LET live == readWindowsActivationJournal
           j == work[p].journal
           bound == IF live = NoJournal THEN j ELSE live
       IN  /\ Check(p, /\ [bound EXCEPT !.phase = j.phase] = j
                       /\ validateAuthorizedWindowsTransactionLocked(j, live.phase = "activated")
                       /\ live = NoJournal => ValidateSourceState(j),
                       IF live = NoJournal
                       THEN advanceWindowsActivationJournalLocked([j EXCEPT !.phase = "prepared"])
                       ELSE <<>>)
    /\ UNCHANGED files
    /\ UnchangedRest

(* Mutant: the gate is closed and the prior service left running.          *)
QuiesceGate == CloseGate

Quiesce == CloseGate \o << <<"stop", 0>> >>

activateSelectedWindowsTarget(j) ==
    << <<"switch">>, <<"install">> >>
    \o (IF ~j.open THEN CloseGate ELSE << <<"open">> >>)
    \o (IF j.running THEN << <<"start", j.target, "quarantine">> >> ELSE << <<"stop", 0>> >>)
    \o << <<"prove">> >>

OpenGate(p) ==
    /\ At(p, "open")
    /\ files' = IF files.gate.pending = "torn" THEN [files EXCEPT !.gate.pending = "absent"] ELSE files
    /\ Go(p, IF files.gate.live THEN <<>>
             ELSE IF files.gate.pending = "complete" THEN << <<"move", "gate", TRUE>> >>
             ELSE openWindowsRuntimeGate)
    /\ UnchangedRest

(* One phase of the journal: what it replays, then the next phase.         *)
advanceWindowsActivation(p) ==
    /\ At(p, "advance")
    /\ LET j == readWindowsActivationJournal
           Advance(phase) == advanceWindowsActivationJournalLocked([j EXCEPT !.phase = phase])
                             \o << <<"advance">> >>
       IN  Go(p, CASE j.phase = "prepared" -> Quiesce \o Advance("quiesced")
                   [] j.phase = "quiesced" -> Quiesce \o << <<"switch">>, <<"install">> >>
                                              \o Advance("selected")
                   [] j.phase = "selected" -> activateSelectedWindowsTarget(j) \o Advance("activated")
                   [] j.phase = "activated" -> activateSelectedWindowsTarget(j))
    /\ UNCHANGED files
    /\ UnchangedRest

(* The proof fails only when somebody else changed gate or service.        *)
ProveTarget(p) ==
    /\ At(p, "prove")
    /\ LET j == work[p].journal IN
       IF /\ readDescriptor = j.target
          /\ inspectWindowsRuntimeGate = [ok |-> TRUE, open |-> j.open]
          /\ service = [release |-> j.target, running |-> j.running]
       THEN Go(p, <<>>)
       ELSE Then(p, work[p], Quiesce \o << <<"fail">> >>)
    /\ UNCHANGED files
    /\ UnchangedRest

(* A step of a selected transaction fails: the gate is closed, the service *)
(* stopped, and the journal stays.                                         *)
quarantineWindowsActivation(p) ==
    /\ At(p, "switch") \/ At(p, "install") \/ At(p, "open") \/ At(p, "prove")
    /\ readWindowsActivationJournal.phase \in {"selected", "activated"}
    /\ faults < MaxFaults
    /\ faults' = faults + 1
    /\ work' = [work EXCEPT ![p].plan = Quiesce \o << <<"fail">> >>]
    /\ UNCHANGED <<files, tree, service, lock, calls>>

(* Finalisation: the state, the consumed intake, then the journal.         *)
finalizeWindowsTransaction(p) ==
    /\ At(p, "finalize")
    /\ LET live == readWindowsActivationJournal
           j == [work[p].journal EXCEPT !.phase = "activated"]
           s == readWindowsInstallState
           next == IF windowsStateReflectsFinalizedActivation(s, j) THEN s
                   ELSE IF j.op = "activate" THEN ActivateAccepted(s) ELSE RollbackPrevious(s)
       IN  Check(p, live = j /\ validateAuthorizedWindowsTransactionLocked(j, TRUE),
                 (IF next = s THEN <<>> ELSE commitWindowsInstallStateLocked(next))
                 \o (IF readWindowsIntakeRecord = 0 THEN <<>>
                     ELSE << <<"remove", "capture">>, <<"remove", "intake">> >>)
                 \o << <<"remove", "journal">> >>)
    /\ UNCHANGED files
    /\ UnchangedRest

removeJournal(p) == Removed(p, "journal", NoJournal)

-----------------------------------------------------------------------------
(* The commands.                                                           *)

ApplyPlan == requireNoActivationJournal \o AcceptWindowsCandidate
             \o fetchWindowsArtifactUsing \o PublishAcceptedWindowsIntake

ApplyProductionWindowsOnline(p, r) == Begin(p, "apply", r, ApplyPlan)

(* The bundle and the artifact come from an offline snapshot instead.      *)
ApplyProductionWindowsSnapshot(p, r) == Begin(p, "apply", r, ApplyPlan)

LoadProductionWindowsIntake(use) ==
    Section("activation", << <<"recover", "root">>, <<"recover", "intake">>, use >>)

RecoverProductionWindowsInstallation(p) ==
    Begin(p, "recover", 0, Section("any", << <<"recover", "uninstall">>, <<"noUninstall">> >>)
                           \o Section("any", << <<"recover", "journal">>, <<"resume">> >>))

(* The journal is resumed, else the accepted intake is activated.          *)
resumeJournal(p) ==
    /\ At(p, "resume")
    /\ LET j == readWindowsActivationJournal
       IN  Then(p, [work[p] EXCEPT !.journal = j], << <<"unlock">> >> \o
                    IF j # NoJournal THEN RunWindowsTransaction \o FinalizeWindowsTransaction
                    ELSE LoadProductionWindowsIntake(<<"resumeIntake">>))
    /\ UNCHANGED files
    /\ UnchangedRest

resumeIntake(p) ==
    /\ At(p, "resumeIntake")
    /\ LET r == readWindowsIntakeRecord
       IN  IF r = 0 THEN Return(p)
           ELSE Then(p, [work[p] EXCEPT !.r = r], << <<"unlock">> >> \o PublishAcceptedWindowsIntake)
    /\ UNCHANGED files
    /\ UnchangedRest

RollbackProductionWindowsInstallation(p, r) ==
    Begin(p, "rollback", r,
          requireNoActivationJournal
          \o LoadProductionWindowsIntake(<<"noIntake">>)
          \o Section("any", << <<"recover", "state">>, <<"load">> >>))

ActivateProductionWindowsRuntime(p) ==
    Begin(p, "activate", 0,
          Section("uninstall", << <<"recover", "journal">>, <<"noJournal">>,
                     <<"recover", "intake">>, <<"noIntake">>, <<"recover", "state">>, <<"runtime">> >>))

activateRuntime(p) ==
    /\ At(p, "runtime")
    /\ LET s == readWindowsInstallState IN
       Check(p, /\ s.active # 0 /\ readDescriptor = s.active /\ InspectInstalled(s.active)
                /\ inspectWindowsRuntimeGate.ok
                /\ service.running => inspectWindowsRuntimeGate.open,
                IF service.running THEN <<>>
                ELSE << <<"open">>, <<"start", s.active, "close">> >>)
    /\ UNCHANGED files
    /\ UnchangedRest

UninstallProductionWindowsRuntime(p) ==
    Begin(p, "uninstall", 0,
          Section("any", << <<"recover", "uninstall">>, <<"rejectOverlap">>, <<"recover", "state">>,
                     <<"prepareUninstall">>, <<"uninstall">> >>))

prepareUninstall(p) ==
    /\ At(p, "prepareUninstall")
    /\ LET u == readWindowsRuntimeUninstallJournal
           s == readWindowsInstallState
       IN  Check(p, u # NoUninstall \/ s.active # 0,
                 IF u # NoUninstall THEN <<>>
                 ELSE advanceWindowsRuntimeUninstallJournalLocked([source |-> s, phase |-> "prepared"]))
    /\ UNCHANGED files
    /\ UnchangedRest

(* What a phase of the uninstall changes before the next one is recorded.  *)
UninstallWork(u) ==
    CASE u.phase = "prepared" -> IF files.gate.live THEN CloseGate ELSE <<>>
      [] u.phase = "gate-closed" -> << <<"stop", u.source.active>> >>
      [] u.phase = "service-stopped" -> << <<"delete", u.source.active>> >>
      [] u.phase = "service-deleted" -> << <<"remove", "current">> >>
      [] u.phase = "current-removed" ->
           IF readWindowsInstallState = u.source
           THEN commitWindowsInstallStateLocked(DeactivateRuntime(u.source)) ELSE <<>>
      [] u.phase = "state-deactivated" -> << <<"remove", "uninstall">> >>

advanceWindowsRuntimeUninstall(p) ==
    /\ At(p, "uninstall")
    /\ LET u == readWindowsRuntimeUninstallJournal
           last == u.phase = "state-deactivated"
           i == CHOOSE n \in 1..Len(UninstallPhases) : UninstallPhases[n] = u.phase
           ok == /\ ~Present("current")
                 /\ u.phase = "prepared" => inspectWindowsRuntimeGate.ok
                 /\ readWindowsInstallState \in {u.source, DeactivateRuntime(u.source)}
       IN  Check(p, ok, UninstallWork(u) \o
                        (IF last THEN <<>>
                         ELSE advanceWindowsRuntimeUninstallJournalLocked([u EXCEPT !.phase = UninstallPhases[i + 1]])
                              \o << <<"uninstall">> >>))
    /\ UNCHANGED files
    /\ UnchangedRest

finalizeWindowsRuntimeUninstallLocked(p) == Removed(p, "uninstall", NoUninstall)

-----------------------------------------------------------------------------

(* The process dies, and the file it is writing may be torn.               *)
Crash(p) ==
    /\ work[p] # Idle
    /\ faults < MaxFaults
    /\ faults' = faults + 1
    /\ \/ UNCHANGED files
       \/ At(p, "write") /\ files' = [files EXCEPT ![Arg(p)].pending = "torn"]
    /\ Return(p)
   
    /\ UNCHANGED <<tree, service, calls>>

FileSteps(p) ==
    \/ acquireInstallerLock(p) \/ Fail(p)
    \/ writeWindowsActivationPending(p) \/ recoverWindowsActivationJournalLocked(p) \/ removeJournal(p)
    \/ writeWindowsRuntimeUninstallPending(p) \/ recoverWindowsRuntimeUninstallJournalLocked(p)
    \/ finalizeWindowsRuntimeUninstallLocked(p)
    \/ writeWindowsInstallStatePending(p) \/ recoverWindowsInstallStateLocked(p)
    \/ persistWindowsAcceptedIntakeLocked(p) \/ recoverWindowsAcceptedIntakeLocked(p) \/ removeIntake(p)
    \/ publishWindowsRootUpdate(p) \/ reconcileWindowsRootPending(p)
    \/ RejectOverlap(p)
    \/ RequireNoJournal(p) \/ RequireNoUninstall(p) \/ RequireNoIntake(p)

AcceptanceSteps(p) ==
    \/ acceptCandidate(p) \/ applyRoots(p) \/ verifyCandidate(p) \/ ExactIntake(p)
    \/ fetchArtifact(p) \/ publishWindowsArtifactCapture(p) \/ discardWindowsArtifactCaptureLocked(p)
    \/ commitAcceptedWindowsAuthorityLocked(p) \/ ResumeAuthenticatedStage(p)
    \/ resetAndCreateAcceptedStage(p) \/ StageAuthenticatedArtifact(p) \/ publishWindowsFinalizedRelease(p)

RuntimeSteps(p) ==
    \/ gatePending(p) \/ closeWindowsRuntimeGate(p) \/ OpenGate(p)
    \/ StopAndProve(p) \/ InstallTargetService(p) \/ DeleteStoppedAndProve(p) \/ StartAndProve(p)
    \/ switchCurrentRelease(p) \/ currentTemporary(p) \/ RemoveCurrentSelection(p)

TransactionSteps(p) ==
    \/ observeSource(p) \/ runWindowsTransaction(p) \/ advanceWindowsActivation(p) \/ ProveTarget(p)
    \/ finalizeWindowsTransaction(p) \/ loadInstallState(p) \/ StillActive(p) \/ resumeJournal(p) \/ resumeIntake(p)
    \/ activateRuntime(p) \/ prepareUninstall(p) \/ advanceWindowsRuntimeUninstall(p)

Step(p) ==
    /\ work[p] # Idle
    /\ FileSteps(p) \/ AcceptanceSteps(p) \/ RuntimeSteps(p) \/ TransactionSteps(p)

Call(p) ==
    /\ calls[p] < MaxCalls
    /\ calls' = [calls EXCEPT ![p] = @ + 1]
    /\ \/ \E r \in Releases : ApplyProductionWindowsOnline(p, r) \/ ApplyProductionWindowsSnapshot(p, r)
       \/ \E r \in Releases : RollbackProductionWindowsInstallation(p, r)
       \/ ActivateProductionWindowsRuntime(p)
       \/ UninstallProductionWindowsRuntime(p)

Unfinished ==
    \/ readWindowsActivationJournal # NoJournal \/ Present("journal")
    \/ readWindowsRuntimeUninstallJournal # NoUninstall \/ Present("uninstall")
    \/ readWindowsIntakeRecord # 0 \/ Present("intake")

(* The command that finishes what is unfinished: uninstall-runtime or      *)
(* recover, and the install once more for an intake without its artifact.  *)
Proceed ==
    /\ Unfinished
    /\ UNCHANGED calls
    /\ IF readWindowsRuntimeUninstallJournal # NoUninstall \/ Present("uninstall")
       THEN UninstallProductionWindowsRuntime(Operator)
       ELSE IF /\ readWindowsActivationJournal = NoJournal /\ ~Present("journal")
               /\ readWindowsIntakeRecord # 0 /\ readWindowsArtifactCapture = 0
       THEN ApplyProductionWindowsOnline(Operator, readWindowsIntakeRecord)
       ELSE RecoverProductionWindowsInstallation(Operator)

Next ==
    \/ \E p \in Processes : Step(p) \/ Call(p) \/ StartFails(p) \/ quarantineWindowsActivation(p) \/ Crash(p)
    \/ Proceed

(* A running process takes its next step, and the operator goes on until   *)
(* nothing is unfinished.                                                  *)
Fairness == (\A p \in Processes : WF_vars(Step(p))) /\ WF_vars(Proceed)

Spec == Init /\ [][Next]_vars /\ Fairness

-----------------------------------------------------------------------------
(* The variables have their types, and whatever two installers do, the     *)
(* node agent that runs is the selected, published release's; an open      *)
(* gate stands before the selected release, the active one or the          *)
(* journal's target; when nothing is unfinished the selector, the service  *)
(* and the active release agree; and the two journals never coexist.       *)
Serves ==
    /\ \A k \in Kinds : files[k].pending \in {"absent", "torn", "complete"}
    /\ lock \in Processes \cup {"none"}
    /\ tree \in [Releases -> {"absent", "private", "finalized", "published"}]
    /\ readWindowsInstallState # NoState => ValidState(readWindowsInstallState)
    /\ service.running => service.release = readDescriptor /\ service.release \in published
    /\ files.gate.live =>
         readDescriptor \in IF readWindowsActivationJournal = NoJournal
                            THEN {readWindowsInstallState.active}
                            ELSE {readWindowsActivationJournal.prior, readWindowsActivationJournal.target}
    /\ readWindowsActivationJournal = NoJournal /\ readWindowsRuntimeUninstallJournal = NoUninstall =>
         /\ readDescriptor = readWindowsInstallState.active
         /\ service.release = readDescriptor
         /\ readDescriptor \in published \cup {0}
    /\ readWindowsActivationJournal = NoJournal \/ readWindowsRuntimeUninstallJournal = NoUninstall

(* High water and the trusted roots never go back: not by a rollback, not  *)
(* by an uninstall, not by a crash.                                        *)
NeverLowered ==
    /\ files'.state.live.high >= files.state.live.high
    /\ files'.root.live >= files.root.live

Advances == [][NeverLowered]_vars

(* What no command gets past: a torn pending file (only a torn capture is  *)
(* removed), a pending gate outside a transaction, a service left running  *)
(* behind a closed gate, and an accepted release whose agent-state schema  *)
(* the active one cannot read.                                             *)
Stuck ==
    \/ \E k \in Kinds \ {"capture", "gate"} : files[k].pending = "torn"
    \/ readWindowsActivationJournal = NoJournal /\ (Present("gate") \/ (service.running /\ ~files.gate.live))
    \/ LET s == readWindowsInstallState IN
       readWindowsIntakeRecord # 0 /\ s.high = readWindowsIntakeRecord /\ ~CanActivate(s)

(* Every transaction, every uninstall and every accepted intake ends, from *)
(* any crash or failure and whatever the other process calls, except where *)
(* Stuck says.                                                             *)
Ends == []<>(Stuck \/ ~Unfinished)

=============================================================================
