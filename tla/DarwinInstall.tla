--------------------------- MODULE DarwinInstall ---------------------------
(***************************************************************************)
(* The macOS installer (src/internal/darwininstall).  One directory holds  *)
(* an installer journal, the install state with its high-water release,    *)
(* the accepted intake, the history of trusted roots, the captured         *)
(* artifact and the runtime gate; another holds the staged and the         *)
(* published releases and the "current" link; launchd has one property     *)
(* list and one service.  Every file is replaced by writing a recovery     *)
(* file beside it and renaming it over the live one.                       *)
(*                                                                         *)
(* Each operation runs in one section of the installer lock and reads      *)
(* everything again, so the model has at most one operation at work, any   *)
(* operation may come next, and each durable change of it is a step.  An   *)
(* operation undoes nothing when it fails: an error return and a crash     *)
(* leave the same files, and Crash stands for both.                        *)
(***************************************************************************)
EXTENDS Naturals, Sequences

CONSTANTS
    Releases,       \* releases, numbered by their epoch and sequence
    Release,        \* their AuthenticatedDarwinRelease records
    MaxCrashes      \* bound on crashes and failed calls

VARIABLES
    files,          \* per kind: the live value and its recovery file
    stage,          \* per release: its private stage directory
    published,      \* releases in the releases directory
    current,        \* the release "current" selects, 0 when absent
    temporary,      \* the release the temporary link names, 0 when absent
    service,        \* the release whose definition launchd has loaded, or 0
    work,           \* the operation that holds the installer lock
    crashes

vars == <<files, stage, published, current, temporary, service, work, crashes>>

Kinds == {"journal", "state", "intake", "root", "capture", "plist", "gate"}

NoJournal == [op |-> "none", target |-> 0, prior |-> 0, restore |-> FALSE, phase |-> "none"]

NoState == [high |-> 0, active |-> 0, previous |-> 0]

Idle == [op |-> "none", r |-> 0, plan |-> <<>>]

File(v) == [live |-> v, pending |-> "absent", next |-> v]

(* A host whose directories were just ensured, and nothing installed.      *)
Init ==
    /\ files = [journal |-> File(NoJournal), state |-> File(NoState), intake |-> File(0),
                root |-> File(1), capture |-> File(0), plist |-> File(0), gate |-> File(FALSE)]
    /\ stage = [r \in Releases |-> "absent"]
    /\ published = {}
    /\ current = 0
    /\ temporary = 0
    /\ service = 0
    /\ work = Idle
    /\ crashes = 0

readJournal == files.journal.live

readInstallState == files.state.live

readIntakeRecord == files.intake.live

replayDarwinRootNames == files.root.live

readCapture == files.capture.live

readCurrentLocked == current

(* The exact finalised tree of a release, as its stage or published.       *)
inspectNamedTree(r) == stage[r]

InspectPublishedAuthority(r) == r \in published

inspectPlist == files.plist

inspectGateFile == files.gate

-----------------------------------------------------------------------------
(* What the records allow.                                                 *)

(* Source and target can each read the agent state the other writes.       *)
validateDarwinAgentStateRollbackPair(source, target) ==
    /\ Release[source].write \in Release[target].reads
    /\ Release[target].write \in Release[source].reads

ValidState(s) ==
    /\ s.active <= s.high
    /\ s.previous <= s.high
    /\ s.active # 0 => s.active # s.previous

CheckCandidate(s, r) ==
    /\ r >= s.high
    /\ Release[r].floor >= Release[s.high].floor
    /\ r > s.high => Release[r].root >= Release[s.high].root

CanActivate(s) ==
    /\ Release[s.high].bundle >= Release[s.high].floor
    /\ s.active # 0 => validateDarwinAgentStateRollbackPair(s.active, s.high)

ActivateAccepted(s) ==
    IF s.active = s.high THEN s
    ELSE [s EXCEPT !.previous = s.active, !.active = s.high]

CanRollback(s) ==
    /\ s.active # 0 /\ s.previous # 0
    /\ Release[s.previous].bundle >= Release[s.high].floor
    /\ validateDarwinAgentStateRollbackPair(s.active, s.previous)

RollbackPrevious(s) == [s EXCEPT !.active = s.previous, !.previous = s.active]

validateDarwinInstallStateTransition(s, t) ==
    /\ ValidState(t)
    /\ \/ s = NoState /\ t.active = 0 /\ t.previous = 0
       \/ s = t
       \/ s # NoState /\ CheckCandidate(s, t.high) /\ t = [s EXCEPT !.high = t.high]
       \/ s # NoState /\ CanActivate(s) /\ t = ActivateAccepted(s)
       \/ s # NoState /\ CanRollback(s) /\ t = RollbackPrevious(s)

nextInstallerJournalPhase(phase) ==
    [prepared |-> "activated", staged |-> "published", published |-> "activated"][phase]

ValidJournal(j) ==
    /\ j.prior # j.target
    /\ j.op = "activate" => j.phase \in {"staged", "published", "activated"}
    /\ j.op = "rollback" => j.phase \in {"prepared", "activated"} /\ j.prior # 0

validateInstallerJournalTransition(j, next) ==
    /\ ValidJournal(next)
    /\ IF j = NoJournal
       THEN next.phase = IF next.op = "activate" THEN "staged" ELSE "prepared"
       ELSE /\ [next EXCEPT !.phase = j.phase] = j
            /\ \/ next.phase = j.phase
               \/ j.phase # "activated" /\ next.phase = nextInstallerJournalPhase(j.phase)

(* Whether the swap that a rollback journals was committed already.        *)
rollbackJournalStateStatus(j, s) == s.active = j.target /\ s.previous = j.prior

completeRollbackJournalState(j, s) ==
    IF rollbackJournalStateStatus(j, s) THEN s ELSE RollbackPrevious(s)

(* The signed metadata of r under the trusted roots and the high water: an *)
(* older authority serves only to accept the accepted release once more.   *)
VerifyDarwinCandidateWithRoots(r, s) ==
    \/ r = s.high
    \/ r > s.high /\ Release[r].root = replayDarwinRootNames
                  /\ (s.high # 0 => Release[r].floor >= Release[s.high].floor)

-----------------------------------------------------------------------------
(* The operation at work: its remaining plan is a sequence of steps.       *)

At(step) == work.plan # <<>> /\ Head(work.plan)[1] = step

Go(more) ==
    LET plan == more \o Tail(work.plan)
    IN  work' = IF plan = <<>> THEN Idle ELSE [work EXCEPT !.plan = plan]

Return == work' = Idle

(* AcquireLock: fails at once when another process holds the lock.         *)
AcquireLock(op, r, plan) ==
    /\ work = Idle
    /\ work' = [op |-> op, r |-> r, plan |-> plan]
    /\ UNCHANGED <<files, stage, published, current, temporary, service, crashes>>

UnchangedRest == UNCHANGED <<stage, published, current, temporary, service, crashes>>

(* The durable replacement of one file: the recovery file is created, its  *)
(* bytes are written and synced, and it is renamed over the live file.     *)
Publication(k, v) == << <<"create", k, v>>, <<"fill", k, v>>, <<"rename", k, v>> >>

Written(k) ==
    /\ work.plan # <<>>
    /\ LET step == Head(work.plan) IN
       /\ step[1] \in {"create", "fill", "rename"} /\ step[2] = k
       /\ files' = [files EXCEPT ![k] =
              CASE step[1] = "create" -> [@ EXCEPT !.pending = "torn"]
                [] step[1] = "fill" -> [@ EXCEPT !.pending = "complete", !.next = step[3]]
                [] step[1] = "rename" -> File(step[3])]
    /\ Go(<<>>)
    /\ UnchangedRest

(* Deletion of a live file, one unlink and directory sync.                 *)
Cleared(k, none) ==
    /\ At("clear") /\ Head(work.plan)[2] = k
    /\ files' = [files EXCEPT ![k].live = none, ![k].next = none]
    /\ Go(<<>>)
    /\ UnchangedRest

(* A recovery file found on load: renamed over the live file when it is    *)
(* complete and legal.  A torn one is removed only where the code says so; *)
(* elsewhere it is an error, and so is an illegal one.                     *)
Reconciled(k, step, removesTorn, legal, failed(_)) ==
    /\ At(step)
    /\ LET f == files[k]
           ok == CASE f.pending = "absent" -> TRUE
                   [] f.pending = "torn" -> removesTorn
                   [] f.pending = "complete" -> legal
           g == IF ~ok THEN f ELSE File(IF f.pending = "complete" THEN f.next ELSE f.live)
       IN  /\ files' = [files EXCEPT ![k] = g]
           /\ IF ~ok \/ failed(g.live) THEN Return ELSE Go(<<>>)
    /\ UnchangedRest

Commit(j) == Publication("journal", j)

writePending == Written("journal")

Clear == Cleared("journal", NoJournal)

(* The journal's load.  Only Resume and BeginRollback go on when there is  *)
(* a journal, and BeginRollback ends there.                                *)
Load ==
    Reconciled("journal", "load", TRUE,
               validateInstallerJournalTransition(readJournal, files.journal.next),
               LAMBDA j : IF work.op = "resume" THEN j = NoJournal ELSE j # NoJournal)

CommitInstallState(s) == Publication("state", s)

writeInstallStatePending == Written("state")

LoadInstallState ==
    Reconciled("state", "loadState", FALSE,
               validateDarwinInstallStateTransition(readInstallState, files.state.next),
               LAMBDA s : work.op \in {"resume", "rollback"} /\ s = NoState)

CommitIntakeRecord(r) == Publication("intake", r)

writeIntakeRecordPending == Written("intake")

ClearIntakeRecord == Cleared("intake", 0)

(* Capture, staging and activation need the exact accepted intake, and a   *)
(* rollback needs that there is none.                                      *)
LoadIntakeRecord ==
    Reconciled("intake", "loadIntake", FALSE, TRUE,
               LAMBDA r : \/ work.op \in {"capture", "stage", "begin"} /\ r # work.r
                          \/ work.op = "rollback" /\ r # 0)

publishDarwinRootUpdate == Written("root")

(* The updates a bundle carries are appended one version at a time.        *)
ApplyTrustedRootUpdates(version) ==
    LET from == replayDarwinRootNames
        Updates[v \in from..version] ==
            IF v = from THEN <<>> ELSE Updates[v - 1] \o Publication("root", v)
    IN  IF version <= from THEN <<>> ELSE Updates[version]

reconcileDarwinRootPending ==
    Reconciled("root", "loadRoot", FALSE, files.root.next = replayDarwinRootNames + 1,
               LAMBDA v : FALSE)

-----------------------------------------------------------------------------
(* Accepting a release.                                                    *)

AuthenticateDarwinCandidate(r) ==
    AcquireLock("authenticate", r,
        << <<"load">>, <<"loadIntake">>, <<"loadState">>, <<"loadRoot">>, <<"accept">>, <<"verify">> >>)

(* An intake that is there already is verified again, or differs from the  *)
(* bundle; otherwise the bundle's root updates are persisted first.        *)
authenticateDarwinCandidateUsing ==
    /\ At("accept")
    /\ IF readIntakeRecord # 0 THEN Return
       ELSE Go(ApplyTrustedRootUpdates(Release[work.r].root))
    /\ UNCHANGED files
    /\ UnchangedRest

PersistIntake ==
    /\ At("verify")
    /\ IF VerifyDarwinCandidateWithRoots(work.r, readInstallState)
       THEN Go(CommitIntakeRecord(work.r))
       ELSE Return
    /\ UNCHANGED files
    /\ UnchangedRest

(* The artifact of the accepted intake is fetched, or copied from an       *)
(* offline snapshot, into a private capture while the lock is held.        *)
BeginArtifactCapture(r) ==
    AcquireLock("capture", r, << <<"load">>, <<"loadIntake">>, <<"reconcileCapture">> >>)

(* A finalised recovery file is published, a partial one is removed.       *)
reconcileCapture ==
    /\ At("reconcileCapture")
    /\ LET f == files.capture
           g == File(IF f.pending = "complete" THEN f.next ELSE f.live)
       IN  /\ files' = [files EXCEPT !.capture = g]
           /\ IF g.live = work.r THEN Return ELSE Go(Publication("capture", work.r))
    /\ UnchangedRest

PublishCapture == Written("capture")

(* The download failed or its digest differs: the capture is discarded.    *)
DiscardCapture ==
    /\ At("fill") /\ Head(work.plan)[2] = "capture"
    /\ crashes < MaxCrashes
    /\ crashes' = crashes + 1
    /\ files' = [files EXCEPT !.capture.pending = "absent"]
    /\ Return
    /\ UNCHANGED <<stage, published, current, temporary, service>>

(* An offline snapshot's bundle is authenticated, then its artifact is     *)
(* captured: two sections of the lock, as when both are fetched.           *)
ImportDarwinSnapshot(r) == AuthenticateDarwinCandidate(r) \/ BeginArtifactCapture(r)

discardAcceptedArtifact == Cleared("capture", 0)

StageAcceptedIntake(r) ==
    AcquireLock("stage", r, << <<"load">>, <<"loadIntake">>, <<"resetStage">>, <<"fillStage">> >>)

(* Any earlier stage of the release is removed and a private one created.  *)
resetAndCreateAcceptedStage ==
    /\ At("resetStage")
    /\ LET captured == readCapture = work.r /\ files.capture.pending = "absent"
       IN  /\ stage' = IF captured THEN [stage EXCEPT ![work.r] = "private"] ELSE stage
           /\ IF captured THEN Go(<<>>) ELSE Return
    /\ UNCHANGED <<files, published, current, temporary, service, crashes>>

(* The bundle is extracted, inspected and finalised.                       *)
StageAuthenticatedArtifact ==
    /\ At("fillStage")
    /\ stage' = [stage EXCEPT ![work.r] = "finalized"]
    /\ Go(<<>>)
    /\ UNCHANGED <<files, published, current, temporary, service, crashes>>

(* Exactly one of the finalised stage and the published release exists.    *)
ResumeStage(r) ==
    /\ inspectNamedTree(r) \in {"absent", "finalized"}
    /\ (inspectNamedTree(r) = "finalized") # InspectPublishedAuthority(r)

-----------------------------------------------------------------------------
(* The runtime gate, the current link, the property list and the service.  *)

inspectRuntimeGate == [ok |-> inspectGateFile.pending = "absent", open |-> inspectGateFile.live]

openRuntimeGate == Publication("gate", TRUE)

closeRuntimeGate == << <<"clear", "gate">> >>

gatePending == Written("gate")

removeGate == Cleared("gate", FALSE)

(* An installed release's gate is opened and closed by hand between        *)
(* transactions.                                                           *)
OperateRuntimeGate ==
    /\ work = Idle
    /\ readJournal = NoJournal /\ service # 0 /\ files.gate.pending = "absent"
    /\ files' = [files EXCEPT !.gate = File(~files.gate.live)]
    /\ UNCHANGED <<stage, published, current, temporary, service, work, crashes>>

BeginSwitch ==
    /\ At("switch")
    /\ LET j == readJournal IN
       /\ temporary' = IF current = j.target THEN 0
                       ELSE IF current = j.prior THEN j.target ELSE temporary
       /\ IF current = j.target THEN Go(<<>>)
          ELSE IF current = j.prior THEN Go(<< <<"replace">> >>)
          ELSE Return
    /\ UNCHANGED <<files, stage, published, current, service, crashes>>

ReplaceCurrent ==
    /\ At("replace")
    /\ current' = temporary
    /\ temporary' = 0
    /\ Go(<<>>)
    /\ UNCHANGED <<files, stage, published, service, crashes>>

(* A recovery file left by a crash is removed or finished.                 *)
publishLaunchdPlist ==
    /\ At("plist")
    /\ LET target == readJournal.target
           f == inspectPlist
           drop == f.live = target \/ f.pending = "torn"
       IN  /\ files' = IF drop THEN [files EXCEPT !.plist.pending = "absent"] ELSE files
           /\ Go(CASE f.live = target -> <<>>
                   [] f.live # target /\ f.pending = "complete" -> << <<"rename", "plist", target>> >>
                   [] OTHER -> Publication("plist", target))
    /\ UnchangedRest

plistPending == Written("plist")

(* When nothing is loaded the exact plist of the target is bootstrapped    *)
(* behind the closed gate, so that a bootout can succeed.                  *)
Bootout ==
    /\ At("bootout")
    /\ service' = IF service = 0 THEN readJournal.target ELSE 0
    /\ Go(IF service = 0 THEN << <<"bootout">> >> ELSE <<>>)
    /\ UNCHANGED <<files, stage, published, current, temporary, crashes>>

Bootstrap ==
    /\ At("bootstrap")
    /\ service' = files.plist.live
    /\ Go(<<>>)
    /\ UNCHANGED <<files, stage, published, current, temporary, crashes>>

ServiceSwap == << <<"bootout">>, <<"switch">>, <<"plist">>, <<"bootstrap">> >>

(* The whole activation, from the gate's inspection to the final proof.    *)
activateLaunchdRelease ==
    /\ At("activate")
    /\ IF ~inspectRuntimeGate.ok THEN Return
       ELSE Go(   (IF inspectRuntimeGate.open THEN closeRuntimeGate ELSE <<>>)
               \o ServiceSwap
               \o (IF readJournal.restore THEN openRuntimeGate ELSE <<>>)
               \o << <<"prove">> >>)
    /\ UNCHANGED files
    /\ UnchangedRest

proveLaunchdActivation ==
    /\ At("prove")
    /\ LET j == readJournal IN
       IF /\ readCurrentLocked = j.target /\ temporary = 0
          /\ inspectPlist.live = j.target /\ inspectPlist.pending = "absent"
          /\ service = j.target
          /\ inspectRuntimeGate = [ok |-> TRUE, open |-> j.restore]
       THEN Go(<<>>)
       ELSE Return
    /\ UNCHANGED files
    /\ UnchangedRest

-----------------------------------------------------------------------------
(* The transactions.                                                       *)

(* The journal names what is current and what the gate is when it is       *)
(* made; begin refuses it when either changed since.                       *)
NewInstallerJournal(r) ==
    [op |-> "activate", target |-> r, prior |-> readCurrentLocked,
     restore |-> inspectRuntimeGate.open, phase |-> "staged"]

NewRollbackJournal(s) ==
    [op |-> "rollback", target |-> s.previous, prior |-> s.active,
     restore |-> inspectRuntimeGate.open, phase |-> "prepared"]

BeginAcceptedIntake(r) ==
    AcquireLock("begin", r, << <<"load">>, <<"loadIntake">>, <<"loadState">>, <<"begin">> >>)

(* High water is raised before the journal is published; the consumed      *)
(* intake and its capture go last.                                         *)
begin ==
    /\ At("begin")
    /\ LET j == NewInstallerJournal(work.r)
           s == readInstallState
       IN  IF /\ ValidJournal(j)
              /\ ResumeStage(work.r)
              /\ inspectRuntimeGate.ok
              /\ s.active = readCurrentLocked
              /\ s # NoState => CheckCandidate(s, work.r)
              /\ files.capture.pending = "absent"
           THEN Go((IF s.high = work.r THEN <<>>
                    ELSE CommitInstallState([s EXCEPT !.high = work.r]))
                   \o Commit(j) \o << <<"clear", "capture">>, <<"clear", "intake">> >>)
           ELSE Return
    /\ UNCHANGED files
    /\ UnchangedRest

ResumeJournal ==
    /\ readJournal # NoJournal \/ files.journal.pending # "absent"
    /\ AcquireLock("resume", 0, << <<"load">>, <<"loadIntake">>, <<"loadState">>, <<"resume">> >>)

ConsumeIntake ==
    IF readIntakeRecord = 0 THEN <<>> ELSE << <<"clear", "capture">>, <<"clear", "intake">> >>

(* Resume drives the journal from its phase to the end.                    *)
Resume ==
    /\ At("resume")
    /\ LET j == readJournal
           s == readInstallState
           matches == IF j.op = "activate" THEN s.high = j.target /\ readIntakeRecord \in {0, j.target}
                      ELSE /\ readIntakeRecord = 0
                           /\ rollbackJournalStateStatus(j, s) => j.phase = "activated"
       IN  IF ~matches THEN Return
           ELSE Go(ConsumeIntake \o
                   CASE j.phase = "staged" ->
                          << <<"publish">> >> \o Commit([j EXCEPT !.phase = "published"])
                          \o << <<"resume">> >>
                     [] j.phase \in {"published", "prepared"} ->
                          << <<"activate">> >> \o Commit([j EXCEPT !.phase = "activated"])
                          \o << <<"complete">> >>
                     [] j.phase = "activated" -> << <<"activate">>, <<"complete">> >>)
    /\ UNCHANGED files
    /\ UnchangedRest

publishFinalizedRelease ==
    /\ At("publish")
    /\ LET r == readJournal.target IN
       IF ~ResumeStage(r) THEN Return /\ UNCHANGED <<stage, published>>
       ELSE /\ stage' = [stage EXCEPT ![r] = "absent"]
            /\ published' = published \cup {r}
            /\ Go(<<>>)
    /\ UNCHANGED <<files, current, temporary, service, crashes>>

(* The activated release enters the state, and the journal is cleared.     *)
CompleteJournal ==
    /\ At("complete")
    /\ LET j == readJournal
           s == readInstallState
           next == IF j.op = "rollback" THEN completeRollbackJournalState(j, s) ELSE ActivateAccepted(s)
       IN  IF j.op = "activate" /\ ~CanActivate(s) THEN Return
           ELSE Go((IF next = s THEN <<>> ELSE CommitInstallState(next)) \o << <<"clear", "journal">> >>)
    /\ UNCHANGED files
    /\ UnchangedRest

BeginRollback ==
    AcquireLock("rollback", 0, << <<"load">>, <<"loadIntake">>, <<"loadState">>, <<"swap">> >>)

prepareRollback ==
    /\ At("swap")
    /\ LET s == readInstallState IN
       IF CanRollback(s) /\ InspectPublishedAuthority(s.previous) /\ readCurrentLocked = s.active /\ inspectRuntimeGate.ok
       THEN Go(Commit(NewRollbackJournal(s)))
       ELSE Return
    /\ UNCHANGED files
    /\ UnchangedRest

(* The process dies, or one of its calls fails and it returns: the lock is *)
(* released and the files stay as they are.                                *)
Crash ==
    /\ work # Idle
    /\ crashes < MaxCrashes
    /\ crashes' = crashes + 1
    /\ Return
    /\ UNCHANGED <<files, stage, published, current, temporary, service>>

Acceptance ==
    \/ authenticateDarwinCandidateUsing \/ PersistIntake
    \/ reconcileCapture \/ PublishCapture \/ discardAcceptedArtifact
    \/ resetAndCreateAcceptedStage \/ StageAuthenticatedArtifact

FileSteps ==
    \/ Load \/ writePending \/ Clear
    \/ LoadInstallState \/ writeInstallStatePending
    \/ LoadIntakeRecord \/ writeIntakeRecordPending \/ ClearIntakeRecord
    \/ reconcileDarwinRootPending \/ publishDarwinRootUpdate

Activation ==
    \/ activateLaunchdRelease \/ gatePending \/ removeGate
    \/ BeginSwitch \/ ReplaceCurrent \/ publishLaunchdPlist \/ plistPending
    \/ Bootout \/ Bootstrap \/ proveLaunchdActivation

Transaction ==
    begin \/ Resume \/ publishFinalizedRelease \/ CompleteJournal \/ prepareRollback

Step == Acceptance \/ FileSteps \/ Activation \/ Transaction

Next ==
    \/ Step
    \/ \E r \in Releases : \/ ImportDarwinSnapshot(r)
                           \/ StageAcceptedIntake(r) \/ BeginAcceptedIntake(r)
    \/ ResumeJournal \/ BeginRollback
    \/ DiscardCapture
    \/ OperateRuntimeGate
    \/ Crash

(* The call that takes what is unfinished further: a journal is resumed,   *)
(* else the accepted intake is captured, staged and begun.                 *)
Proceed ==
    \/ ResumeJournal
    \/ LET r == readIntakeRecord IN
       /\ readJournal = NoJournal /\ r # 0
       /\ IF stage[r] = "finalized" THEN BeginAcceptedIntake(r)
          ELSE IF readCapture = r THEN StageAcceptedIntake(r)
          ELSE BeginArtifactCapture(r)

(* A running process takes its next step, and the unfinished work is       *)
(* called again and again, whatever else is called in between.             *)
Fairness == WF_vars(Step) /\ SF_vars(Proceed)

Spec == Init /\ [][Next]_vars /\ Fairness

-----------------------------------------------------------------------------
(* The variables have their types, and the installed release serves: an    *)
(* open gate is only ever in front of the service, the property list and   *)
(* the link of one published release, which is the active release of the   *)
(* state or, while a journal is there, one of the two the journal names;   *)
(* and without a journal, link, property list and service are the active   *)
(* release's.  Activation closes the gate before it touches any of the     *)
(* three and opens it after all of them were proved.                       *)
Serves ==
    /\ \A k \in Kinds : files[k].pending \in {"absent", "torn", "complete"}
    /\ stage \in [Releases -> {"absent", "private", "finalized"}]
    /\ published \subseteq Releases
    /\ {current, temporary, service} \subseteq Releases \cup {0}
    /\ readInstallState # NoState => ValidState(readInstallState)
    /\ files.gate.live =>
         /\ service = current /\ files.plist.live = current /\ current \in published
         /\ current \in IF readJournal = NoJournal THEN {readInstallState.active}
                        ELSE {readJournal.prior, readJournal.target}
    /\ readJournal = NoJournal =>
         /\ current = readInstallState.active /\ temporary = 0
         /\ service = current /\ files.plist.live = current
         /\ {current, readInstallState.previous} \subseteq published \cup {0}

(* High water and the trusted roots never go back, whatever is accepted,   *)
(* activated, rolled back or interrupted.                                  *)
NeverLowered ==
    /\ files'.state.live.high >= files.state.live.high
    /\ files'.root.live >= files.root.live

Advances == [][NeverLowered]_vars

(* What no operation gets past: the recovery file of the gate, a torn      *)
(* recovery file of the state, the intake or the roots, an intake of a     *)
(* release that is published already, and an activation that ends in an    *)
(* agent-state schema the previous release cannot read.                    *)
Stuck ==
    \/ files.gate.pending # "absent" /\ work = Idle
    \/ \E k \in {"state", "intake", "root"} : files[k].pending = "torn" /\ work = Idle
    \/ readIntakeRecord \in published
    \/ readJournal.op = "activate" /\ ~CanActivate(readInstallState)

(* Every accepted intake is consumed and every transaction ends, from any  *)
(* crash: Resume completes the journal from whatever phase it is in,       *)
(* except where Stuck says.                                                *)
Ends == []<>(Stuck \/ (readJournal = NoJournal /\ readIntakeRecord = 0))

=============================================================================
