--------------------------- MODULE LinuxInstall ---------------------------
(***************************************************************************)
(* The privileged Linux installer (mesh-install) and the host it changes.  *)
(*                                                                         *)
(* An installer command is a process that works through a plan, a sequence *)
(* of the calls the code makes: applySnapshotAt, RollbackInstallation,     *)
(* RecoverInstallation and ActivateInstallation of installer.go, and the   *)
(* executePreparedTransaction, recoverPendingTransaction and               *)
(* rollbackPendingTransaction of transaction.go they run.  Between any two *)
(* calls the process may be killed, the host may lose power, systemd may   *)
(* restart the agent and an operator may use systemctl.                    *)
(*                                                                         *)
(* A release is its position in the channel, so a larger number is newer;  *)
(* 0 stands for no release.                                                *)
(***************************************************************************)
EXTENDS Integers, Sequences, FiniteSets

CONSTANTS
    Releases,       \* positions of the signed releases, a set of numbers > 0
    Floor,          \* Floor[r]: security floor of r's bundle
    MinFloor,       \* MinFloor[r]: minimum floor the channel demands with r
    Reads,          \* <<r, w>>: r reads the agent state that w writes
    Installers,     \* mesh-install processes that may run at once
    None,           \* nobody holds the installer lock
    MaxFaults,      \* bound on failures, kills, power losses and operator acts
    UnsyncedStops,  \* may a process stop between a rename and its fsync?
    Drift           \* may an operator use systemctl during a transaction?

ASSUME ReleasesAssumption ==
    /\ Releases \subseteq Nat \ {0}
    /\ Floor \in [Releases -> Nat] /\ MinFloor \in [Releases -> Nat]
    /\ Reads \subseteq Releases \X Releases
    /\ None \notin Installers
    /\ MaxFaults \in Nat
    /\ UnsyncedStops \in BOOLEAN /\ Drift \in BOOLEAN

VARIABLES
    journal,    \* state.json: high water, active, previous, pending transaction
    current,    \* what /opt/mesh/current names
    gate,       \* runtime.enabled: "closed", "pending" (temporary) or "open"
    disk,       \* what of current and gate would survive a power loss
    links,      \* managed units and executable links: absent, partial or exact
    loaded,     \* links as systemd last read them
    enabled,    \* is mesh-agent.service wanted by multi-user.target?
    agent,      \* release the agent process runs, 0 when it is stopped
    nebula,     \* release the Nebula process runs, 0 when it is stopped
    published,  \* releases in /opt/mesh/releases
    inst,       \* what every installer process is doing
    holder,     \* the process that holds the installer lock
    faults      \* faults that may still happen

storage == <<current, gate, disk, links>>
services == <<loaded, enabled, agent, nebula>>
vars == <<journal, storage, services, published, inst, holder, faults>>

Names == Releases \cup {0}
Snapshots == [enabled : BOOLEAN, agent : BOOLEAN, nebula : BOOLEAN, gate : BOOLEAN]
AllOff == [enabled |-> FALSE, agent |-> FALSE, nebula |-> FALSE, gate |-> FALSE]
AllOn == [enabled |-> TRUE, agent |-> TRUE, nebula |-> TRUE, gate |-> TRUE]

NoPending == [op |-> "none", source |-> 0, sourcePrevious |-> 0, target |-> 0,
              phase |-> "none", snapshot |-> AllOff]
Uninstalled == [highWater |-> 0, active |-> 0, previous |-> 0, pending |-> NoPending]
Idle == [command |-> "none", todo |-> << >>, saw |-> Uninstalled,
         services |-> AllOff, candidate |-> 0]

pending == journal.pending
Pending == pending.op # "none"

----------------------------------------------------------------------------
(* The plans.  Steps that read the journal's phase decide which release a  *)
(* switch, a proof or a restoration is about.                              *)

Quiesce == <<"closeGate", "syncGate", "stop", "proveStopped">>
OpenGate == <<"stageGate", "openGate", "syncGate">>
Restore == <<"reload", "checkUnits">> \o OpenGate \o <<"start", "proveRestored">>
Switch == <<"switch", "syncCurrent">>
Optional(b, plan) == IF b THEN plan ELSE << >>

ApplyPlan(installed) == Optional(~installed, <<"surface">>) \o
    <<"reconcile", "audit", "relock", "publish", "reaudit", "prepare">>
RollbackCommandPlan == <<"reconcile", "audit", "prepare">>
RecoverPlan == <<"reconcile", "verifyStored", "resume">>
ActivateCommandPlan == <<"reconcile", "verifyActive", "activate">>
ActivatePlan ==
    OpenGate \o <<"enable", "checkUnits", "start", "proveRestored", "proveActivated">>
RollbackPlan == <<"rollingBack", "resume">>

ExecutePlan(source) ==
    <<"requireSource", "preflight">> \o Optional(source # 0, Quiesce)
    \o <<"servicesStopped", "ensure">> \o Switch
    \o <<"currentSwitched", "auditLinks">> \o Restore \o <<"complete">>

FinishPlan == <<"requireTarget", "ensure", "auditLinks", "reload">>
              \o Quiesce \o Restore \o <<"complete">>

(* currentTransactionRole *)
Role == CASE current = pending.target -> "target"
          [] current = pending.source -> "source"
          [] OTHER -> "unknown"

ReloadAndQuiesce == <<"ensure", "reload">> \o Quiesce

PreparedPlan ==
    IF Role = "target"
    THEN ReloadAndQuiesce \o <<"servicesStopped", "currentSwitched", "resume">>
    ELSE (IF pending.source = 0 THEN <<"preflight">> ELSE Quiesce)
         \o <<"servicesStopped", "resume">>

StoppedPlan ==
    (IF Role = "target"
     THEN ReloadAndQuiesce
     ELSE Optional(pending.source # 0, Quiesce) \o <<"ensure">> \o Switch)
    \o <<"currentSwitched", "resume">>

(* Mutant: a rolled back first installation keeps its current link.       *)
RollingBackPlanKeepingCurrent ==
    (IF Role = "target" THEN ReloadAndQuiesce ELSE Optional(pending.source # 0, Quiesce))
    \o (IF pending.source = 0
        THEN <<"remove", "reload", "assertAbsent">>
        ELSE Optional(Role = "target", Switch) \o <<"auditLinks">> \o Restore)
    \o <<"rolledBack">>

(* Mutant: a rollback insists on the services the transaction began with.  *)
RollingBackPlanStrict ==
    <<"preflight">> \o Optional(pending.source # 0, Quiesce)
    \o (IF pending.source = 0
        THEN Optional(Role = "target", <<"clear", "syncCurrent">>)
             \o <<"remove", "reload", "assertAbsent">>
        ELSE Optional(Role = "target", Switch) \o <<"auditLinks">> \o Restore)
    \o <<"rolledBack">>

RollingBackPlan ==
    (IF Role = "target" THEN ReloadAndQuiesce ELSE Optional(pending.source # 0, Quiesce))
    \o (IF pending.source = 0
        THEN Optional(Role = "target", <<"clear", "syncCurrent">>)
             \o <<"remove", "reload", "assertAbsent">>
        ELSE Optional(Role = "target", Switch) \o <<"auditLinks">> \o Restore)
    \o <<"rolledBack">>

(* What recoverPendingTransaction and rollbackPendingTransaction do next.  *)
ResumePlan ==
    CASE pending.phase = "current_switched" -> FinishPlan
      [] Role = "unknown" -> Optional(pending.phase # "rolling_back", RollbackPlan)
      [] pending.phase = "prepared" -> PreparedPlan
      [] pending.phase = "services_stopped" -> StoppedPlan
      [] OTHER -> RollingBackPlan

----------------------------------------------------------------------------
(* What the installer reads of the host.                                   *)

Snapshot == [enabled |-> enabled, agent |-> agent # 0, nebula |-> nebula # 0,
             gate |-> gate = "open"]

(* preflight: the first-install surface, or exactly r's units and processes. *)
Preflight(r) ==
    IF r = 0
    THEN gate = "closed" /\ loaded = "absent" /\ agent = 0 /\ nebula = 0
    ELSE /\ links = "exact" /\ loaded = "exact"
         /\ gate # "pending"
         /\ agent \in {0, r} /\ nebula \in {0, agent}
         /\ agent # 0 => gate = "open"

(* auditSourceInstallation of the journal j. *)
SourceExact(j) ==
    /\ current = j.active
    /\ {j.active, j.previous} \subseteq published \cup {0}
    /\ links = (IF j.active = 0 THEN "absent" ELSE "exact")
    /\ Preflight(j.active)

(* Mutant: any signed candidate is accepted.                               *)
AcceptableAlways(r, j) == r \in Releases

(* (State).CheckCandidate and (State).Validate *)
Acceptable(r, j) == j.highWater # 0 =>
    r >= j.highWater /\ MinFloor[r] >= MinFloor[j.highWater]

Compatible(source, target) == source # 0 =>
    <<source, target>> \in Reads /\ <<target, source>> \in Reads

Journalled(j, command, r, snap) ==
    LET op == IF command = "apply" THEN "activate" ELSE "rollback"
    IN  [j EXCEPT !.highWater = IF op = "activate" THEN r ELSE @,
                  !.pending = [op |-> op, source |-> j.active,
                               sourcePrevious |-> j.previous, target |-> r,
                               phase |-> "prepared", snapshot |-> snap]]

ValidPending(j) ==
    /\ Floor[j.pending.target] >= MinFloor[j.highWater]
    /\ Compatible(j.pending.source, j.pending.target)
    /\ j.pending.target # j.active

(* ReconcileIntake keeps what the journal j and current refer to. *)
Kept(j) == {j.highWater, j.active, j.previous, j.pending.source,
            j.pending.sourcePrevious, j.pending.target, current}

----------------------------------------------------------------------------
Init ==
    /\ journal = Uninstalled
    /\ current = 0 /\ gate = "closed"
    /\ disk = [current |-> 0, gate |-> "closed"]
    /\ links = "absent" /\ loaded = "absent"
    /\ enabled = FALSE /\ agent = 0 /\ nebula = 0
    /\ published = {}
    /\ inst = [p \in Installers |-> Idle]
    /\ holder = None
    /\ faults = MaxFaults

----------------------------------------------------------------------------
(* Process control: At names the step a process is about to take, Goto     *)
(* replaces its plan, and a process whose plan is finished lets go of the  *)
(* lock and ends.                                                          *)

At(p, step) == inst[p].todo # << >> /\ Head(inst[p].todo) = step

Goto(p, plan) ==
    /\ inst' = [inst EXCEPT ![p] = IF plan = << >> THEN Idle
                                   ELSE [@ EXCEPT !.todo = plan]]
    /\ holder' = IF plan = << >> /\ holder = p THEN None ELSE holder

Continue(p) == Goto(p, Tail(inst[p].todo))

QuarantinePlan == <<"closeGate", "syncGate", "stop", "disable">>

(* Where an error return leads: quarantineFailedActivation goes through all *)
(* its steps; a forward transaction rolls back; everything else gives up.  *)
AfterFailure(p) ==
    CASE inst[p].command = "quarantine" -> Tail(inst[p].todo)
      [] inst[p].command = "activate" -> QuarantinePlan
      [] holder # p \/ ~Pending \/ pending.phase = "rolling_back" -> << >>
      [] OTHER -> RollbackPlan

GiveUp(p) ==
    /\ inst' = [inst EXCEPT ![p] =
           IF AfterFailure(p) = << >> THEN Idle
           ELSE [@ EXCEPT !.todo = AfterFailure(p),
                          !.command = IF @ = "activate" THEN "quarantine" ELSE @]]
    /\ holder' = IF AfterFailure(p) = << >> /\ holder = p THEN None ELSE holder

Check(p, ok) == IF ok THEN Continue(p) ELSE GiveUp(p)

Skip(p) == Goto(p, Tail(Tail(inst[p].todo)))

ReadOnly == UNCHANGED <<journal, storage, services, published, faults>>

----------------------------------------------------------------------------
(* The commands.  applySnapshotAt loads the journal under the lock, lets    *)
(* go of it for its preflight and takes it again; the other three keep it. *)

Begin(p, command, plan, r) ==
    /\ inst[p] = Idle /\ holder = None
    /\ inst' = [inst EXCEPT ![p] = [Idle EXCEPT !.command = command, !.todo = plan,
                                               !.saw = journal, !.candidate = r]]
    /\ holder' = IF command = "apply" THEN None ELSE p
    /\ ReadOnly

ApplySnapshot(p, r) ==
    ~Pending /\ Begin(p, "apply", ApplyPlan(journal.active # 0), r)

RollbackInstallation(p) ==
    /\ ~Pending /\ journal.active # 0 /\ journal.previous # 0
    /\ Begin(p, "rollback", RollbackCommandPlan, journal.previous)

RecoverInstallation(p) ==
    Pending /\ Begin(p, "recover", RecoverPlan, 0)

ActivateInstallation(p) ==
    /\ ~Pending /\ journal.active # 0
    /\ Begin(p, "enroll", ActivateCommandPlan, 0)

Surface(p) ==
    /\ At(p, "surface")
    /\ Check(p, links = "absent" /\ Preflight(0))
    /\ ReadOnly

ReconcileIntake(p) ==
    /\ At(p, "reconcile")
    /\ published' = published \cap Kept(inst[p].saw)
    /\ Continue(p)
    /\ UNCHANGED <<journal, storage, services, faults>>

AuditSource(p) ==
    /\ At(p, "audit")
    /\ IF SourceExact(inst[p].saw)
       THEN /\ inst' = [inst EXCEPT ![p].todo = Tail(@), ![p].services = Snapshot]
            /\ UNCHANGED holder
       ELSE GiveUp(p)
    /\ ReadOnly

(* Mutant: the lock is not taken again.                                    *)
Relock(p) ==
    /\ At(p, "relock")
    /\ IF holder = None /\ journal = inst[p].saw /\ Acceptable(inst[p].candidate, journal)
       THEN /\ inst' = [inst EXCEPT ![p].todo = Tail(@)]
            /\ holder' = p
       ELSE Goto(p, << >>)
    /\ ReadOnly

StageAndPublish(p) ==
    /\ At(p, "publish")
    /\ published' = published \cup {inst[p].candidate}
    /\ Continue(p)
    /\ UNCHANGED <<journal, storage, services, faults>>

Reaudit(p) ==
    /\ At(p, "reaudit")
    /\ Check(p, SourceExact(journal) /\ Snapshot = inst[p].services)
    /\ ReadOnly

Prepare(p) ==
    LET next == Journalled(journal, inst[p].command, inst[p].candidate, inst[p].services)
    IN  /\ At(p, "prepare")
        /\ IF inst[p].candidate \in published /\ ValidPending(next)
           THEN journal' = next /\ Goto(p, ExecutePlan(journal.active))
           ELSE UNCHANGED journal /\ Goto(p, << >>)
        /\ UNCHANGED <<storage, services, published, faults>>

VerifyStored(p) ==
    /\ At(p, "verifyStored")
    /\ IF {pending.target, pending.source} \subseteq published \cup {0}
       THEN Continue(p) ELSE Goto(p, << >>)
    /\ ReadOnly

VerifyActive(p) ==
    /\ At(p, "verifyActive")
    /\ Check(p, /\ current = journal.active
                /\ {journal.active, journal.previous} \subseteq published \cup {0}
                /\ links = "exact")
    /\ ReadOnly

(* activateEnrolled: already running, ready to start, or what an earlier    *)
(* activation that was interrupted left: that is quiesced first.           *)
ActivateEnrolled(p) ==
    /\ At(p, "activate") \/ At(p, "reactivate")
    /\ CASE Preflight(journal.active) ->
              /\ inst' = [inst EXCEPT
                     ![p].command = "activate",
                     ![p].todo = IF Snapshot = AllOn THEN <<"proveActivated">>
                                                     ELSE ActivatePlan]
              /\ UNCHANGED holder
         [] ~Preflight(journal.active) /\ At(p, "activate")
              /\ (gate = "pending" \/ (gate = "closed" /\ agent # 0)) ->
              Goto(p, Quiesce \o <<"reactivate">>)
         [] OTHER -> Goto(p, << >>)
    /\ ReadOnly

(* What ActivateInstallation proves last, or quarantines.                  *)
ProveActivated(p) ==
    /\ At(p, "proveActivated")
    /\ Check(p, SourceExact(journal) /\ Snapshot = AllOn)
    /\ ReadOnly

----------------------------------------------------------------------------
(* The transaction.                                                        *)

Goal(p) == CASE ~Pending -> journal.active
             [] pending.phase = "rolling_back" -> pending.source
             [] OTHER -> pending.target
Desired(p) == IF Pending THEN pending.snapshot ELSE AllOn

Resume(p) == At(p, "resume") /\ Goto(p, ResumePlan) /\ ReadOnly

RequireSource(p) ==
    /\ At(p, "requireSource")
    /\ IF Role = "source" THEN Continue(p) ELSE Goto(p, << >>)
    /\ ReadOnly

RequireTarget(p) ==
    At(p, "requireTarget") /\ Check(p, Role = "target") /\ ReadOnly

PreflightUnchanged(p) ==
    /\ At(p, "preflight")
    /\ Check(p, Preflight(pending.source) /\ Snapshot = pending.snapshot)
    /\ ReadOnly

(* The runtime gate's Close: nothing is synced when nothing is there.      *)
CloseGate(p) ==
    /\ At(p, "closeGate")
    /\ IF gate = "closed" THEN Skip(p) ELSE Continue(p)
    /\ gate' = "closed"
    /\ UNCHANGED <<journal, current, disk, links, services, published, faults>>

SyncGate(p) ==
    /\ At(p, "syncGate")
    /\ disk' = [disk EXCEPT !.gate = gate]
    /\ Continue(p)
    /\ UNCHANGED <<journal, current, gate, links, services, published, faults>>

(* Open writes and syncs the temporary, then publishes it by a rename; a   *)
(* gate that is to stay closed is closed and synced.                       *)
StageGate(p) ==
    /\ At(p, "stageGate")
    /\ LET next == IF ~Desired(p).gate THEN "closed"
                   ELSE IF gate = "open" THEN "open" ELSE "pending"
       IN  gate' = next /\ disk' = [disk EXCEPT !.gate = IF gate = next THEN @ ELSE next]
    /\ Continue(p)
    /\ UNCHANGED <<journal, current, links, services, published, faults>>

PublishGate(p) ==
    /\ At(p, "openGate")
    /\ IF gate = "pending" THEN gate' = "open" /\ Continue(p)
                           ELSE UNCHANGED gate /\ Skip(p)
    /\ UNCHANGED <<journal, current, disk, links, services, published, faults>>

(* Mutant: only the agent's unit is named.                                 *)
StopAgentOnly(p) ==
    /\ At(p, "stop")
    /\ agent' = 0
    /\ Continue(p)
    /\ UNCHANGED <<journal, storage, loaded, enabled, nebula, published, faults>>

Stop(p) ==
    /\ At(p, "stop")
    /\ agent' = 0 /\ nebula' = 0
    /\ Continue(p)
    /\ UNCHANGED <<journal, storage, loaded, enabled, published, faults>>

ProveStopped(p) ==
    /\ At(p, "proveStopped")
    /\ Check(p, gate = "closed" /\ loaded = "exact" /\ agent = 0 /\ nebula = 0)
    /\ ReadOnly

(* The units' conditions: an open gate and an executable below current.    *)
StartUnit(running) == IF running = 0 /\ gate = "open" /\ loaded = "exact"
                      THEN current ELSE running

Start(p) ==
    /\ At(p, "start")
    /\ agent' = IF Desired(p).agent THEN StartUnit(agent) ELSE agent
    /\ Continue(p)
    /\ UNCHANGED <<journal, storage, loaded, enabled, nebula, published, faults>>

SetEnabled(p, step, b) ==
    /\ At(p, step)
    /\ enabled' = b
    /\ Continue(p)
    /\ UNCHANGED <<journal, storage, loaded, agent, nebula, published, faults>>

Enable(p) == SetEnabled(p, "enable", TRUE)
Disable(p) == SetEnabled(p, "disable", FALSE)

DaemonReload(p) ==
    /\ At(p, "reload")
    /\ loaded' = links
    /\ Continue(p)
    /\ UNCHANGED <<journal, storage, enabled, agent, nebula, published, faults>>

CheckUnits(p) ==
    /\ At(p, "checkUnits")
    /\ Check(p, links = "exact" /\ loaded = "exact" /\ enabled = Desired(p).enabled)
    /\ ReadOnly

(* proveRestoredOnce: exactly what is wanted; wanted but still waiting for *)
(* Nebula; Nebula where it is not wanted; anything else.                   *)
ExceptNebula(p) == Snapshot = [Desired(p) EXCEPT !.nebula = nebula # 0]
Restored(p) == Snapshot = Desired(p) /\ agent \in {0, Goal(p)} /\ nebula \in {0, Goal(p)}
Awaiting(p) == ExceptNebula(p) /\ Desired(p).nebula /\ nebula = 0
Unexpected(p) == ~Desired(p).nebula /\ nebula # 0

ProveRestored(p) ==
    /\ At(p, "proveRestored")
    /\ ~Awaiting(p)
    /\ IF Unexpected(p) THEN Goto(p, Quiesce \o <<"fail">>) ELSE Check(p, Restored(p))
    /\ ReadOnly

FailAfterCleanup(p) == At(p, "fail") /\ GiveUp(p) /\ ReadOnly

(* (ManagedLinkTopology).Ensure, Audit and Remove *)
Topology(p, step, next) ==
    /\ At(p, step)
    /\ links' = next
    /\ Continue(p)
    /\ UNCHANGED <<journal, current, gate, disk, services, published, faults>>

Ensure(p) == Topology(p, "ensure", "exact")
Remove(p) == Topology(p, "remove", "absent")

AuditLinks(p) == At(p, "auditLinks") /\ Check(p, links = "exact") /\ ReadOnly

AssertAbsent(p) ==
    At(p, "assertAbsent") /\ Check(p, Preflight(0)) /\ ReadOnly

(* SwitchCurrent renames a symlink and then syncs the directory; it returns *)
(* at once when current already names the release.                         *)
SwitchCurrent(p) ==
    /\ At(p, "switch")
    /\ IF Goal(p) \notin published
       THEN GiveUp(p) /\ UNCHANGED current
       ELSE /\ current' = Goal(p)
            /\ IF current = Goal(p) THEN Skip(p) ELSE Continue(p)
    /\ UNCHANGED <<journal, gate, disk, links, services, published, faults>>

ClearCurrent(p) ==
    /\ At(p, "clear")
    /\ current' = 0
    /\ IF current = 0 THEN Skip(p) ELSE Continue(p)
    /\ UNCHANGED <<journal, gate, disk, links, services, published, faults>>

SyncCurrent(p) ==
    /\ At(p, "syncCurrent")
    /\ disk' = [disk EXCEPT !.current = current]
    /\ Continue(p)
    /\ UNCHANGED <<journal, current, gate, links, services, published, faults>>

(* commitPendingPhase and the two commits that end a transaction.  A commit *)
(* whose outcome is ambiguous returns at once: Kill before or after it.    *)
Commit(p, step, next) ==
    /\ At(p, step)
    /\ journal' = next
    /\ Continue(p)
    /\ UNCHANGED <<storage, services, published, faults>>

InPhase(phase) == [journal EXCEPT !.pending.phase = phase]

CommitServicesStopped(p) == Commit(p, "servicesStopped", InPhase("services_stopped"))
CommitCurrentSwitched(p) == Commit(p, "currentSwitched", InPhase("current_switched"))
CommitRollingBack(p) == Commit(p, "rollingBack", InPhase("rolling_back"))

(* Mutant: the release that was replaced is not recorded.                  *)
CompletedForgetful == [journal EXCEPT !.active = pending.target, !.pending = NoPending]

Completed == [journal EXCEPT !.active = pending.target, !.previous = pending.source,
                             !.pending = NoPending]
RolledBack == [journal EXCEPT !.active = pending.source, !.previous = pending.sourcePrevious,
                              !.pending = NoPending]

CompletePending(p) == Commit(p, "complete", Completed)
FinishRollback(p) == Commit(p, "rolledBack", RolledBack)

----------------------------------------------------------------------------
(* Faults.                                                                 *)

Syncing == {"syncGate", "syncCurrent"}
Fallible == {"preflight", "closeGate", "stop", "proveStopped", "ensure", "switch",
             "clear", "remove", "auditLinks", "assertAbsent", "reload", "checkUnits",
             "stageGate", "openGate", "start", "enable", "disable", "proveRestored", "proveActivated"}
            \cup (IF UnsyncedStops THEN Syncing ELSE {})

Fault == faults > 0 /\ faults' = faults - 1

(* A call returns an error.  Ensure and Remove may have done part of their *)
(* work by then.                                                           *)
StepFails(p) ==
    /\ Fault
    /\ \E step \in Fallible : At(p, step)
    /\ links' \in {links} \cup (IF (At(p, "ensure") /\ links # "exact") \/ At(p, "remove")
                                THEN {"partial"} ELSE {})
    /\ GiveUp(p)
    /\ UNCHANGED <<journal, current, gate, disk, services, published>>

Kill(p) ==
    /\ Fault
    /\ inst[p] # Idle
    /\ UnsyncedStops \/ ~\E step \in Syncing : At(p, step)
    /\ Goto(p, << >>)
    /\ UNCHANGED <<journal, storage, services, published>>

(* The host loses power and boots: what was not synced may be lost, and an *)
(* enabled agent starts behind an open gate.                               *)
PowerLoss ==
    /\ Fault
    /\ current' \in {current, disk.current}
    /\ gate' \in {gate, disk.gate}
    /\ disk' = [current |-> current', gate |-> gate']
    /\ loaded' = links
    /\ agent' = IF enabled /\ gate' = "open" /\ links = "exact" THEN current' ELSE 0
    /\ nebula' = 0
    /\ inst' = [p \in Installers |-> Idle]
    /\ holder' = None
    /\ UNCHANGED <<journal, links, enabled, published>>

----------------------------------------------------------------------------
(* systemd, the agent and the operator.                                    *)

(* The agent starts Nebula when it has validated the signed state; one the *)
(* transaction does not want is counted as a fault.                        *)
StartNebula ==
    /\ agent # 0 /\ nebula = 0 /\ gate = "open"
    /\ nebula' = current
    /\ IF Pending /\ ~pending.snapshot.nebula THEN Fault ELSE UNCHANGED faults
    /\ UNCHANGED <<journal, storage, loaded, enabled, agent, published, inst, holder>>

(* Restart=always, and Nebula is bound to the agent.                       *)
AgentExits ==
    /\ Fault
    /\ agent # 0
    /\ agent' = StartUnit(0) /\ nebula' = 0
    /\ UNCHANGED <<journal, storage, loaded, enabled, published, inst, holder>>

(* systemctl start, stop, enable and disable by hand.                      *)
OperatorStarts ==
    /\ Drift /\ Fault
    /\ agent' = StartUnit(agent)
    /\ UNCHANGED <<journal, storage, loaded, enabled, nebula, published, inst, holder>>

OperatorStops ==
    /\ Drift /\ Fault
    /\ agent' = 0 /\ nebula' = 0
    /\ UNCHANGED <<journal, storage, loaded, enabled, published, inst, holder>>

OperatorEnables ==
    /\ Drift /\ Fault
    /\ loaded = "exact"
    /\ enabled' = ~enabled
    /\ UNCHANGED <<journal, storage, loaded, agent, nebula, published, inst, holder>>

----------------------------------------------------------------------------
IntakeStep(p) ==
    \/ Surface(p) \/ ReconcileIntake(p) \/ AuditSource(p) \/ Relock(p)
    \/ StageAndPublish(p) \/ Reaudit(p) \/ Prepare(p)
    \/ VerifyStored(p) \/ VerifyActive(p) \/ ActivateEnrolled(p)
    \/ ProveActivated(p)

TransactionStep(p) ==
    \/ Resume(p) \/ RequireSource(p) \/ RequireTarget(p) \/ PreflightUnchanged(p)
    \/ CloseGate(p) \/ SyncGate(p) \/ StageGate(p) \/ PublishGate(p)
    \/ Stop(p) \/ ProveStopped(p) \/ Start(p) \/ Enable(p) \/ Disable(p)
    \/ DaemonReload(p) \/ CheckUnits(p) \/ ProveRestored(p) \/ FailAfterCleanup(p)
    \/ Ensure(p) \/ Remove(p) \/ AuditLinks(p) \/ AssertAbsent(p)
    \/ SwitchCurrent(p) \/ ClearCurrent(p) \/ SyncCurrent(p)
    \/ CommitServicesStopped(p) \/ CommitCurrentSwitched(p) \/ CommitRollingBack(p)
    \/ CompletePending(p) \/ FinishRollback(p)

Step(p) == IntakeStep(p) \/ TransactionStep(p)

Next ==
    \/ \E p \in Installers : \/ \E r \in Releases : ApplySnapshot(p, r)
                             \/ RollbackInstallation(p) \/ RecoverInstallation(p)
                             \/ ActivateInstallation(p) \/ Step(p)
                             \/ StepFails(p) \/ Kill(p)
    \/ PowerLoss \/ StartNebula \/ AgentExits
    \/ OperatorStarts \/ OperatorStops \/ OperatorEnables

Spec == Init /\ [][Next]_vars

(* A running command goes on, the agent starts Nebula, and whoever runs    *)
(* the installer answers an interruption with mesh-install recover.        *)
FairSpec ==
    /\ Spec
    /\ \A p \in Installers : WF_vars(Step(p)) /\ WF_vars(RecoverInstallation(p))
    /\ WF_vars(StartNebula)

----------------------------------------------------------------------------
Journals == [highWater : Names, active : Names, previous : Names,
             pending : [op : {"none", "activate", "rollback"}, source : Names,
                        sourcePrevious : Names, target : Names,
                        phase : {"none", "prepared", "services_stopped",
                                 "current_switched", "rolling_back"},
                        snapshot : Snapshots]]

(* (State).Validate: nothing lies above the accepted position, active and   *)
(* previous differ, and a pending transaction is bound to both.            *)
ValidJournal(j) ==
    /\ {j.active, j.previous, j.pending.target} \subseteq 0 .. j.highWater
    /\ j.active # 0 => j.active # j.previous
    /\ j.pending.op = "activate" => j.pending.target = j.highWater
    /\ j.pending.op = "rollback" => j.pending.target = j.previous
    /\ j.pending.op # "none" =>
           j.pending.source = j.active /\ j.pending.sourcePrevious = j.previous
    /\ LET snap == j.pending.snapshot
       IN  (snap.nebula => snap.agent) /\ (snap.agent => snap.gate)

(* Every variable has its type, and every journal a command writes is one  *)
(* that the next command's Validate accepts.                               *)
TypeOK ==
    /\ journal \in Journals /\ ValidJournal(journal)
    /\ current \in Names /\ agent \in Names /\ nebula \in Names
    /\ gate \in {"closed", "pending", "open"}
    /\ disk \in [current : Names, gate : {"closed", "pending", "open"}]
    /\ {links, loaded} \subseteq {"absent", "partial", "exact"}
    /\ enabled \in BOOLEAN
    /\ published \subseteq Releases
    /\ holder \in Installers \cup {None}
    /\ \A p \in Installers : inst[p].saw \in Journals /\ inst[p].services \in Snapshots
    /\ faults \in 0 .. MaxFaults

(* The agent and Nebula only ever run the release that current names: no   *)
(* kill, restart, boot or failed call lets a process of one release live   *)
(* on, or come back, across the switch to another.  From the               *)
(* services_stopped commit to the next one nothing managed runs and the    *)
(* gate is durably closed, so that not even a boot starts a unit around    *)
(* the moment current moves.                                               *)
RunningIsCurrent ==
    /\ agent \in {0, current} /\ nebula \in {0, agent}
    /\ pending.phase = "services_stopped" =>
           gate = "closed" /\ disk.gate = "closed" /\ agent = 0

(* A journal tells the truth.  Without a pending transaction current names *)
(* the active release, durably, and the managed links are all there or all *)
(* gone: auditSourceInstallation refuses every later command otherwise.  A *)
(* pending transaction can always be resumed: the releases it switches     *)
(* between are on disk, and current names one of them.                     *)
JournalMatches ==
    /\ TypeOK
    /\ ~Pending =>
           /\ current = journal.active /\ disk.current = journal.active
           /\ links = (IF journal.active = 0 THEN "absent" ELSE "exact")
    /\ Pending =>
           /\ {pending.source, pending.target} \subseteq published \cup {0}
           /\ Role # "unknown"
           /\ disk.current \in {pending.source, pending.target}

(* Whichever way a transaction ends it leaves the gate the way it found    *)
(* it, durably, and a completed one leaves the release it replaced as the  *)
(* release a rollback returns to.                                          *)
EndsAsPromised == [][
    Pending /\ ~Pending' =>
        /\ gate = (IF pending.snapshot.gate THEN "open" ELSE "closed") /\ disk.gate = gate
        /\ current = pending.target /\ pending.target # pending.source =>
               journal'.active = pending.target /\ journal'.previous = pending.source
        /\ current = pending.source =>
               journal'.active = pending.source /\ journal'.previous = pending.sourcePrevious
    ]_vars

(* The accepted position and its security floor never go down, not by a    *)
(* rollback and not by a failed upgrade, and no transaction targets a      *)
(* bundle below that floor.                                                *)
NeverBelowHighWater == [][
    /\ journal'.highWater >= journal.highWater
    /\ journal.highWater # 0 => MinFloor[journal'.highWater] >= MinFloor[journal.highWater]
    /\ journal'.active # journal.active /\ journal'.active # 0 /\ current' = pending.target =>
           Floor[journal'.active] >= MinFloor[journal'.highWater]
    ]_vars

(* recover always gets there: once the faults are over, an interrupted     *)
(* transaction is completed or compensated, unless an operator enabled or  *)
(* disabled the agent by hand, which recovery reports and does not undo.   *)
TransactionEnds == Pending ~> (~Pending \/ enabled # pending.snapshot.enabled)
=============================================================================
