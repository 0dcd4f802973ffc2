---------------------------- MODULE NodeRuntime ----------------------------
(***************************************************************************)
(* A node's lifecycle agent (meshctl agent): the cycle that stops Nebula   *)
(* when signed configuration is not fresh, polls the control plane,        *)
(* activates bundles through the Activator's versions and "current" link,  *)
(* drives a runtime controller and the native DNS manager, and only then   *)
(* acknowledges a revision.                                                *)
(*                                                                         *)
(* A bundle is a pair of a config revision and a certificate generation.   *)
(* Time is counted in ticks; `age' is the time since the persisted         *)
(* LastSuccessfulConfigAt, capped at Limit, where configuration is stale   *)
(* (a missing or future timestamp counts as stale too).  Everything the    *)
(* host may fail at - a write, a sync, a rename, a command, a request -    *)
(* costs one of MaxFaults faults, and so does a crash.                     *)
(***************************************************************************)
EXTENDS Naturals, Sequences, FiniteSets

CONSTANTS
    Controllers,    \* the runtime controllers to choose from (selectRuntimeController)
    FailOpen,       \* values of --fail-open to choose from
    MaxRevision,    \* bound on config revisions
    MaxGeneration,  \* bound on certificate generations
    Retained,       \* maxRetainedBundleVersions
    Limit,          \* --max-config-staleness, in ticks
    Interval,       \* --interval, in ticks
    Coalesce,       \* ConfigSuccessPersistInterval, in ticks
    DNSRevisions,   \* revisions whose config asks for native DNS
    MaxFaults       \* bound on faults

ASSUME ConstantsAssumption ==
    /\ Controllers \subseteq {"service", "darwin", "windows", "pid", "none"}
    /\ FailOpen \subseteq BOOLEAN
    /\ Retained > 1 /\ 2 * Interval <= Limit /\ Coalesce <= Limit

VARIABLES
    controller, failOpen,   \* the command line
    server,         \* the bundle the control plane has signed for the node
    spent,          \* generations up to this one have expired
    versions,       \* published version directories, oldest first
    current,        \* the version the "current" link names, 0 for none
    saved,          \* the bundle the state file records as applied
    age,            \* time since the recorded LastSuccessfulConfigAt
    pc, wait,       \* the step the agent is at; ticks until its timer fires
    startup, quarantined, renewed,  \* agentRunner's flags, and result.Renewed
    job,            \* the activation in progress
    gate,           \* the readiness marker: "closed", "torn" or "open"
    authorized,     \* the installer's persistent runtime gate
    nebula,         \* the bundle Nebula loaded, or None when it does not run
    resolver,       \* the host resolver sends the search domain to the agent's adapter
    adapter,        \* the DNS manager's memory: "none", "serving" or "closed"
    dnsActive,      \* agentRunner.nativeDNSActive
    faults,
    doubt           \* what the agent tried and could not undo or prove

disk    == <<versions, current, saved>>
command == <<controller, failOpen>>
world   == <<server, spent, authorized>>
flags   == <<startup, quarantined, renewed>>
runtime == <<gate, nebula>>
dns     == <<resolver, adapter, dnsActive>>
vars    == <<command, world, disk, age, pc, wait, flags, job, runtime, dns, faults, doubt>>

Bundle(r, g) == [rev |-> r, gen |-> g]
None == Bundle(0, 0)
NoJob == [why |-> "none", bundle |-> None, prev |-> 0, since |-> 0]
Start(why, bundle) == [why |-> why, bundle |-> bundle, prev |-> current, since |-> 0]

Least(a, b) == IF a < b THEN a ELSE b
Stale == age = Limit
Live == IF current = 0 THEN None ELSE versions[current].bundle
Published(b) == [bundle |-> b, whole |-> TRUE]
WantsDNS(b) == b.rev \in DNSRevisions

\* A step that fails at n of the things it does.
Faults(n) == faults + n <= MaxFaults /\ faults' = faults + n

-----------------------------------------------------------------------------
(* Runtime controllers.  An outcome says whether the call returned nil and *)
(* what it left; `proven' is false when a stop was attempted and could not *)
(* be confirmed.                                                           *)

Outcome(ok, g, n, proven, cost) ==
    [ok |-> ok, gate |-> g, nebula |-> n, proven |-> proven, cost |-> cost]

\* What a readiness marker may be left as: Open links a complete file under its
\* name and may stop at each step; Close unlinks and may fail to; Inspect wants
\* the one complete link.
MarkerOpen == {"closed", "torn", "open"}
MarkerClose == {"closed", gate}
MarkerInspect == gate = "open"

\* systemctl show: the unit's command is the managed one and it runs.
UnitActive == nebula # None

\* closeAndStop: the marker first, then the unit, then a look.
ServiceQuarantine ==
    {Outcome(TRUE, "closed", None, TRUE, 0)}
    \cup {Outcome(FALSE, g, n, FALSE, 1) : g \in MarkerClose, n \in {None, nebula}}

\* The unit is verified, the marker opened, the unit restarted and seen running;
\* every failure closes and stops again.
ServiceReload(canceled) ==
    (IF canceled THEN {} ELSE {Outcome(TRUE, "open", Live, TRUE, 0)})
    \cup {Outcome(FALSE, "closed", None, TRUE, IF canceled THEN 0 ELSE 1)}
    \cup {Outcome(FALSE, g, n, FALSE, 2) : g \in MarkerOpen, n \in {None, nebula, Live}}

\* A supervised child: what a failed Terminate and Wait, or a Start that failed
\* and could not be cleaned up, may leave running.
DarwinStop == {None, nebula}
WindowsStop == {None, nebula}
DarwinStart == {None, Live}
WindowsStart == {None, Live}
ChildStop == IF controller = "darwin" THEN DarwinStop ELSE WindowsStop
ChildStart == IF controller = "darwin" THEN DarwinStart ELSE WindowsStart

\* Prove: the tracked process still is the one that was started.
DarwinProve == nebula # None
WindowsProve == nebula # None
ChildProve == IF controller = "darwin" THEN DarwinProve ELSE WindowsProve

Supervised == controller \in {"darwin", "windows"}

\* quarantineLocked: the gate in memory, then the child.
ChildQuarantine ==
    {Outcome(TRUE, "closed", None, TRUE, 0)}
    \cup {Outcome(FALSE, "closed", n, FALSE, 1) : n \in ChildStop}

\* AuthorizeCycle: without the installer's gate the child is stopped.
Unauthorized == {[q EXCEPT !.ok = FALSE] : q \in ChildQuarantine}

\* The child is stopped first, and another one started and proven.
ChildReload(canceled) ==
    IF ~authorized THEN Unauthorized
    ELSE (IF canceled THEN {} ELSE {Outcome(TRUE, "open", Live, TRUE, 0)})
         \cup {Outcome(FALSE, "closed", None, TRUE, IF canceled THEN 0 ELSE 1)}
         \cup {Outcome(FALSE, "closed", n, FALSE, 1) : n \in ChildStop}
         \cup {Outcome(FALSE, "closed", n, FALSE, 2) : n \in ChildStart}

\* The process of the PID file is sent SIGTERM and polled; SIGHUP tells nothing
\* about what was loaded.
PIDQuarantine ==
    {Outcome(TRUE, gate, None, TRUE, 0), Outcome(FALSE, gate, nebula, FALSE, 1)}
PIDReload(canceled) ==
    IF nebula = None \/ canceled THEN {Outcome(FALSE, gate, nebula, TRUE, 0)}
    ELSE {Outcome(TRUE, gate, n, TRUE, 0) : n \in {nebula, Live}}
         \cup {Outcome(FALSE, gate, nebula, TRUE, 1)}

Quarantine ==
    CASE controller = "service" -> ServiceQuarantine
      [] Supervised -> ChildQuarantine
      [] controller = "pid" -> PIDQuarantine
      [] OTHER -> {Outcome(FALSE, gate, nebula, FALSE, 0)}

Reload(canceled) ==
    CASE controller = "service" -> ServiceReload(canceled)
      [] Supervised -> ChildReload(canceled)
      [] controller = "pid" -> PIDReload(canceled)
      [] OTHER -> {Outcome(TRUE, gate, nebula, TRUE, 0)}

\* Observe: what may be acknowledged.
Healthy ==
    CASE controller = "service" -> MarkerInspect /\ UnitActive
      [] Supervised -> authorized /\ gate = "open" /\ ChildProve
      [] controller = "pid" -> nebula # None
      [] OTHER -> TRUE

HeartbeatAllowed == controller = "service" \/ Supervised

\* The per-link resolver state of Linux goes with Nebula's interface; an NRPT
\* rule stays.
Registered(set, before, after) ==
    set /\ (Supervised \/ (after # None /\ (controller = "pid" \/ before = after)))

-----------------------------------------------------------------------------
(* The native DNS manager.                                                 *)

DNSOutcome(ok, r, a, cost) == [ok |-> ok, resolver |-> r, adapter |-> a, cost |-> cost]

\* Disable: the adapter is closed before the resolver is reverted, and is
\* remembered until that worked.  Windows looks for its own rules, Linux acts on
\* its memory, macOS and --no-reload have no manager.
LinuxDisable ==
    IF adapter = "none" THEN {DNSOutcome(TRUE, resolver, adapter, 0)}
    ELSE {DNSOutcome(TRUE, FALSE, "none", 0), DNSOutcome(FALSE, resolver, "closed", 1)}
WindowsDisable ==
    {DNSOutcome(TRUE, FALSE, "none", 0)}
    \cup {DNSOutcome(FALSE, r, IF adapter = "none" THEN "none" ELSE "closed", 1) :
            r \in {FALSE, resolver}}
Disable ==
    CASE controller \in {"service", "pid"} -> LinuxDisable
      [] controller = "windows" -> WindowsDisable
      [] OTHER -> {DNSOutcome(TRUE, resolver, adapter, 0)}

\* Reconcile: a failure closes the new adapter, reverts, and puts the previous
\* policy back as well as it can.  Without the overlay address there is nothing
\* to bind the adapter to.
LinuxEstablish ==
    (IF nebula = None THEN {} ELSE {DNSOutcome(TRUE, TRUE, "serving", 0)})
    \cup {DNSOutcome(FALSE, r, adapter, IF nebula = None THEN 0 ELSE 1) :
            r \in {FALSE, resolver}}
WindowsEstablish ==
    (IF nebula = None THEN {} ELSE {DNSOutcome(TRUE, TRUE, "serving", 0)})
    \cup {DNSOutcome(FALSE, r, a, IF nebula = None THEN 0 ELSE 1) :
            r \in BOOLEAN, a \in {"none", "closed"}}
Reconcile ==
    CASE controller = "none" -> {DNSOutcome(TRUE, resolver, adapter, 0)}
      [] controller # "none" /\ ~WantsDNS(Live) -> Disable
      [] controller = "darwin" /\ WantsDNS(Live) -> {DNSOutcome(FALSE, resolver, adapter, 0)}
      [] controller = "windows" /\ WantsDNS(Live) -> WindowsEstablish
      [] OTHER -> LinuxEstablish

-----------------------------------------------------------------------------
(* The agent's loop.                                                       *)

\* Mutant: the freshness deadline does not pull the next cycle forward.
DelayInterval(q) == Interval

\* nextDelay: the deadline pulls the next cycle forward, unless the runtime is
\* already stopped.
NextDelay(q) == IF failOpen \/ q THEN Interval ELSE Least(Interval, Limit - age)

\* The end of cycle, with an error or without one.
EndCycle(q) ==
    /\ pc' = "idle" /\ wait' = NextDelay(q)
    /\ job' = NoJob /\ renewed' = FALSE

Goto(step) == pc' = step /\ UNCHANGED wait

\* The timer fires (jitteredInterval may make it early) and cycle begins with
\* AuthorizeCycle.
Cycle ==
    /\ pc = "idle"
    /\ \/ /\ ~Supervised \/ authorized
          /\ Goto("gate")
          /\ UNCHANGED <<flags, job, runtime, faults, doubt>>
       \/ \E q \in ChildQuarantine :
            /\ Supervised
            /\ Faults(IF authorized THEN q.cost + 1 ELSE q.cost)
            /\ gate' = q.gate /\ nebula' = q.nebula
            /\ doubt' = IF q.proven THEN {} ELSE doubt \cup {"stop"}
            /\ EndCycle(quarantined)
            /\ UNCHANGED <<startup, quarantined>>
    /\ UNCHANGED <<command, world, disk, age, dns>>

\* stopRuntime: resolver, then runtime, both always tried.
StopRuntime(d, q) ==
    /\ Faults(d.cost + q.cost)
    /\ gate' = q.gate /\ nebula' = q.nebula
    /\ resolver' = Registered(d.resolver, nebula, q.nebula)
    /\ adapter' = d.adapter /\ dnsActive' = FALSE
    /\ quarantined' = (quarantined \/ (d.ok /\ q.ok))
    /\ doubt' = IF q.proven THEN {} ELSE doubt \cup {"stop"}

\* The runtime is stopped and `then' says what follows.
Stopping(then(_)) ==
    \E d \in Disable, q \in Quarantine : StopRuntime(d, q) /\ then(d.ok /\ q.ok)

MustStop == ~failOpen /\ (startup \/ quarantined \/ Stale)

\* cycle up to the poll: an expired certificate is renewed first.
BeforePoll ==
    /\ pc = "gate"
    /\ LET next == IF saved.gen <= spent THEN "renewExpired" ELSE "load"
       IN  IF MustStop
           THEN Stopping(LAMBDA ok : IF ok THEN Goto(next) /\ UNCHANGED <<job, renewed>>
                                        ELSE EndCycle(quarantined))
           ELSE Goto(next) /\ UNCHANGED <<quarantined, renewed, job, runtime, dns, faults, doubt>>
    /\ UNCHANGED <<command, world, disk, age, startup>>

\* renewCertificateLocked up to Apply.  The control plane may have committed a
\* generation whose answer was lost; Bootstrap brings that one.
Renewal(why) ==
    /\ server' = IF server.gen > saved.gen THEN server ELSE [server EXCEPT !.gen = @ + 1]
    /\ server'.gen <= MaxGeneration
    /\ job' = Start(why, server')
    /\ Goto(CASE Live # server' -> "prune"
              [] Live = server' /\ why = "expired" -> "requarantine"
              [] OTHER -> "observe")

RenewExpired ==
    /\ pc = "renewExpired"
    /\ \/ /\ Renewal("expired") /\ renewed' = TRUE /\ UNCHANGED faults
       \/ /\ Faults(1) /\ Goto("failed") /\ UNCHANGED <<renewed, job>>
          /\ server' \in {server} \cup
                         (IF server.gen < MaxGeneration /\ server.gen = saved.gen
                          THEN {[server EXCEPT !.gen = @ + 1]} ELSE {})
    /\ UNCHANGED <<command, spent, authorized, disk, age, startup, quarantined, runtime, dns, doubt>>

\* The renewed bundle was activated: back into quarantine until Sync confirms.
Requarantine ==
    /\ pc = "requarantine"
    /\ IF quarantined
       THEN Stopping(LAMBDA ok : IF ok THEN Goto("load") /\ UNCHANGED <<job, renewed>>
                                    ELSE EndCycle(quarantined))
       ELSE Goto("load") /\ UNCHANGED <<quarantined, renewed, job, runtime, dns, faults, doubt>>
    /\ UNCHANGED <<command, world, disk, age, startup>>

-----------------------------------------------------------------------------
(* Sync.                                                                   *)

\* configSyncContext: the poll may not outlive the freshness it renews.
SyncExpired == Stale /\ ~failOpen /\ ~startup

\* CurrentBundle: the live bundle is complete, signed and not expired.
CurrentValid == current # 0 /\ versions[current].whole /\ Live.gen > spent

\* loadReconciledState adopts what the live link names, and refuses a link that
\* is behind the state file.
Adopted == Live
Behind == CurrentValid /\ Live.rev < saved.rev

LoadReconciled ==
    /\ pc = "load"
    /\ \/ /\ ~SyncExpired /\ CurrentValid /\ ~Behind
          /\ saved' = Adopted
          /\ Goto("poll") /\ UNCHANGED <<job, faults>>
       \/ /\ ~SyncExpired /\ ~CurrentValid
          /\ Goto("prune") /\ job' = Start("reconcile", server)
          /\ UNCHANGED <<saved, faults>>
       \/ /\ IF SyncExpired \/ Behind THEN UNCHANGED faults ELSE Faults(1)
          /\ Goto("failed") /\ UNCHANGED <<saved, job>>
    /\ UNCHANGED <<command, world, versions, current, age, flags, runtime, dns, doubt>>

\* recordConfigSuccess coalesces unchanged polls.
Recorded == IF age < Coalesce THEN age ELSE 0

\* Mutant: a certificate the node does not have is not noticed.
SameRevision == server.rev = Live.rev

\* The control plane's answer names the live bundle.
Unchanged == server = Live

\* GetConfig, VerifySignedConfig and the choice among 304, Bootstrap and Apply.
Poll ==
    /\ pc = "poll"
    /\ \/ /\ ~SyncExpired /\ Unchanged
          /\ age' = Recorded
          /\ Goto("ensure") /\ job' = NoJob /\ UNCHANGED faults
       \/ /\ ~SyncExpired /\ ~Unchanged
          /\ Goto("prune")
          /\ job' = Start(IF server.gen = Live.gen THEN "config" ELSE "certificate", server)
          /\ UNCHANGED <<age, faults>>
       \/ /\ IF SyncExpired THEN UNCHANGED faults ELSE Faults(1)
          /\ Goto("failed") /\ UNCHANGED <<age, job>>
    /\ UNCHANGED <<command, world, disk, flags, runtime, dns, doubt>>

\* handleSyncFailure.
SyncFailed ==
    /\ pc = "failed"
    /\ IF failOpen \/ (~startup /\ ~Stale) \/ quarantined
       THEN /\ EndCycle(quarantined)
            /\ doubt' = IF quarantined /\ gate # "closed" THEN doubt \cup {"restarted"} ELSE doubt
            /\ UNCHANGED <<quarantined, runtime, dns, faults>>
       ELSE Stopping(LAMBDA ok : EndCycle(ok))
    /\ UNCHANGED <<command, world, disk, age, startup>>

-----------------------------------------------------------------------------
(* Activator.Apply.                                                        *)

\* Where a failed activation leads: Sync and the early renewal report to
\* handleSyncFailure, the due renewal ends the cycle.
Failed ==
    IF job.why = "due" THEN EndCycle(quarantined)
    ELSE Goto("failed") /\ job' = NoJob /\ UNCHANGED renewed

\* Mutant: retention goes by modification time alone.
RetainedByTime ==
    {i \in 1..Len(versions) : i > Len(versions) - (Retained - 1)}

\* The versions pruneVersionsBeforeActivation keeps: the current one and the
\* newest others, one place short of the limit.
RetainedVersions ==
    LET others == (1..Len(versions)) \ {current}
        room   == IF current = 0 THEN Retained - 1 ELSE Retained - 2
    IN  {i \in 1..Len(versions) :
            i = current \/ Cardinality({k \in others : k > i}) < room}

\* What stays of the versions, and where one of them comes to stand.
Kept(keep) == SelectSeq([i \in 1..Len(versions) |-> i], LAMBDA i : i \in keep)
Pruned(keep) == [k \in 1..Len(Kept(keep)) |-> versions[Kept(keep)[k]]]
Moved(keep, p) == IF p \in keep THEN Cardinality({i \in keep : i <= p}) ELSE 0

Prune ==
    /\ pc = "prune"
    /\ LET keep == RetainedVersions
           victims == (1..Len(versions)) \ keep
       IN  \/ /\ \A i \in 1..Len(versions) : versions[i].whole
              /\ versions' = Pruned(keep) /\ current' = Moved(keep, current)
              /\ job' = [job EXCEPT !.prev = Moved(keep, @)]
              /\ Goto("publish") /\ UNCHANGED <<renewed, faults>>
           \/ /\ \E i \in 1..Len(versions) : ~versions[i].whole
              /\ Failed /\ UNCHANGED <<versions, current, faults>>
           \* removeCompleteVersionDirectory stops between two files.
           \/ \E v \in victims :
                /\ Faults(1)
                /\ LET left == keep \cup {i \in victims : i <= v}
                   IN  /\ versions' = [Pruned(left) EXCEPT ![Moved(left, v)].whole = FALSE]
                       /\ current' = Moved(left, current)
                /\ Failed
    /\ UNCHANGED <<command, world, saved, age, startup, quarantined, runtime, dns, doubt>>

\* The staged files are written, validated by Nebula and renamed into place; the
\* sync of the directory may still fail.
Publish ==
    /\ pc = "publish"
    /\ \/ /\ job.bundle.gen > spent
          /\ versions' = Append(versions, Published(job.bundle))
          /\ Goto("link") /\ UNCHANGED <<renewed, job, faults>>
       \/ /\ Faults(1) /\ Failed
          /\ versions' \in {versions, Append(versions, Published(job.bundle))}
       \/ /\ job.bundle.gen <= spent /\ Failed /\ UNCHANGED <<versions, faults>>
    /\ UNCHANGED <<command, world, current, saved, age, startup, quarantined, runtime, dns, doubt>>

Link ==
    /\ pc = "link"
    /\ \/ /\ current' = Len(versions) /\ Goto("reload") /\ UNCHANGED <<renewed, job, faults>>
       \/ /\ Faults(1) /\ current' = Len(versions)
          /\ Goto("rollback") /\ UNCHANGED <<renewed, job>>
       \/ /\ Faults(1) /\ UNCHANGED current /\ Failed
    /\ UNCHANGED <<command, world, versions, saved, age, startup, quarantined, runtime, dns, doubt>>

\* What a Reload leaves of the resolver and of the doubts.
Reloaded(o) ==
    /\ Faults(o.cost)
    /\ gate' = o.gate /\ nebula' = o.nebula
    /\ resolver' = (resolver /\ (controller # "service" \/ ~o.ok)
                    /\ Registered(TRUE, nebula, o.nebula))
    /\ UNCHANGED <<adapter, dnsActive>>

Activate ==
    /\ pc = "reload"
    /\ \E o \in Reload(SyncExpired /\ job.why \in {"config", "certificate", "reconcile"}) :
        /\ Reloaded(o)
        /\ doubt' = IF o.ok THEN doubt \ {"link", "restarted"}
                    ELSE IF o.proven THEN {} ELSE doubt \cup {"stop"}
        /\ Goto(IF o.ok THEN "save" ELSE "rollback")
    /\ UNCHANGED <<command, world, disk, age, flags, job>>

\* rollback: under a context of its own, so that it may outlive the deadline.
\* The previous link (or none) is put back and synced ...
Relink ==
    /\ pc = "rollback"
    /\ \/ /\ Faults(1) /\ doubt' = doubt \cup {"link"}
          /\ UNCHANGED current /\ Failed
       \/ /\ Faults(1) /\ current' = job.prev
          /\ UNCHANGED doubt /\ Failed
       \/ /\ current' = job.prev
          /\ IF job.prev = 0 THEN Failed ELSE Goto("restore") /\ UNCHANGED <<job, renewed>>
          /\ UNCHANGED <<faults, doubt>>
    /\ UNCHANGED <<command, world, versions, saved, age, startup, quarantined, runtime, dns>>

\* ... and the previous bundle is reloaded.
Restore ==
    /\ pc = "restore"
    /\ \E o \in Reload(FALSE) :
        /\ Reloaded(o)
        /\ doubt' = IF o.ok THEN doubt \ {"link"}
                    ELSE IF o.proven THEN {} ELSE doubt \cup {"stop"}
    /\ Failed
    /\ UNCHANGED <<command, world, disk, age, startup, quarantined>>

\* The state file is saved, with the time of the contact when this was a Sync.
Save ==
    /\ pc = "save"
    /\ \/ /\ saved' = job.bundle
          /\ age' = CASE job.why = "config" -> 0
                      [] job.why = "certificate" -> job.since
                      [] OTHER -> age
          /\ Goto(CASE job.why = "reconcile" -> "poll"
                    [] job.why = "expired" -> "requarantine"
                    [] job.why = "due" -> "observe"
                    [] OTHER -> "ensure")
          /\ UNCHANGED <<renewed, job, faults>>
       \/ /\ Faults(1) /\ Failed /\ UNCHANGED <<saved, age>>
    /\ UNCHANGED <<command, world, versions, current, startup, quarantined, runtime, dns, doubt>>

-----------------------------------------------------------------------------
(* The rest of the cycle.                                                  *)

\* ensureRuntimeAfterSync.
Ensure ==
    /\ pc = "ensure"
    /\ LET changed == job.why \in {"config", "certificate"}
       IN  IF quarantined \/ (startup /\ ~changed /\ ~renewed)
           THEN \E o \in Reload(FALSE) :
                /\ Reloaded(o)
                /\ doubt' = IF o.proven THEN {} ELSE doubt \cup {"stop"}
                /\ IF o.ok
                   THEN startup' = FALSE /\ quarantined' = FALSE
                        /\ Goto("dns") /\ UNCHANGED <<job, renewed>>
                   ELSE /\ UNCHANGED <<startup, quarantined>>
                        /\ IF failOpen THEN EndCycle(quarantined)
                           ELSE Goto("quarantine") /\ UNCHANGED <<job, renewed>>
           ELSE /\ startup' = FALSE /\ Goto("dns")
                /\ UNCHANGED <<quarantined, renewed, job, runtime, dns, faults, doubt>>
    /\ UNCHANGED <<command, world, disk, age>>

\* quarantine ends the cycle.
QuarantineRuntime ==
    /\ pc = "quarantine"
    /\ Stopping(LAMBDA ok : EndCycle(quarantined \/ ok))
    /\ UNCHANGED <<command, world, disk, age, startup>>

\* reconcileNativeDNS.
ReconcileNativeDNS(next) ==
    /\ \E d \in Reconcile :
        /\ Faults(d.cost)
        /\ resolver' = d.resolver /\ adapter' = d.adapter
        /\ dnsActive' = (d.ok /\ WantsDNS(Live) /\ controller # "none")
        /\ Goto(IF d.ok THEN next ELSE "quarantine")
    /\ UNCHANGED <<command, world, disk, age, flags, job, runtime, doubt>>

AfterSync == pc = "dns" /\ ReconcileNativeDNS("renewDue")

\* A certificate that is due is renewed, unless the control plane defers that.
RenewDue ==
    /\ pc = "renewDue"
    /\ \/ Goto("observe") /\ job' = NoJob /\ UNCHANGED <<server, renewed, faults>>
       \/ /\ ~renewed /\ Renewal("due") /\ UNCHANGED <<renewed, faults>>
       \/ /\ ~renewed /\ Faults(1) /\ EndCycle(quarantined)
          /\ server' \in {server} \cup
                         (IF server.gen < MaxGeneration /\ server.gen = saved.gen
                          THEN {[server EXCEPT !.gen = @ + 1]} ELSE {})
    /\ UNCHANGED <<command, spent, authorized, disk, age, startup, quarantined, runtime, dns, doubt>>

\* The bundle is validated and the runtime observed; credential rotation before
\* it, and the Nebula version, may fail the cycle too.
Observe ==
    /\ pc = "observe"
    /\ \/ /\ Healthy /\ Goto(IF job.why = "due" THEN "dnsAgain" ELSE "acknowledge")
          /\ UNCHANGED <<job, renewed, faults>>
       \/ /\ IF Healthy THEN Faults(1) ELSE UNCHANGED faults
          /\ Goto("recover") /\ UNCHANGED <<job, renewed>>
       \/ /\ Faults(1) /\ EndCycle(quarantined)
    /\ UNCHANGED <<command, world, disk, age, startup, quarantined, runtime, dns, doubt>>

\* Mutant: a recovered runtime is acknowledged without its resolver.
NotAgain == "acknowledge"

\* What follows a runtime that was restarted behind the resolver's back.
Again == "dnsAgain"

\* observeRuntimeWithRecovery: one reload, one more look.
Recover ==
    /\ pc = "recover"
    /\ \E o \in Reload(FALSE), seen \in BOOLEAN :
        /\ Reloaded(IF o.ok /\ ~seen THEN [o EXCEPT !.cost = @ + 1] ELSE o)
        /\ doubt' = IF o.proven THEN {} ELSE doubt \cup {"stop"}
        /\ IF o.ok /\ seen THEN Goto(Again) /\ UNCHANGED <<job, renewed>>
           ELSE EndCycle(quarantined)
    /\ UNCHANGED <<command, world, disk, age, startup, quarantined>>

AfterMutation == pc = "dnsAgain" /\ ReconcileNativeDNS("acknowledge")

\* Heartbeat: the live bundle is read once more, the sequence saved, the report
\* sent; whether it arrives does not matter here.
Heartbeat ==
    /\ pc = "acknowledge" /\ HeartbeatAllowed /\ CurrentValid
    /\ saved' = Live
    /\ EndCycle(quarantined)
    /\ UNCHANGED <<command, world, versions, current, age, startup, quarantined, runtime, dns,
                   faults, doubt>>

NoHeartbeat ==
    /\ pc = "acknowledge" /\ ~(HeartbeatAllowed /\ CurrentValid)
    /\ EndCycle(quarantined)
    /\ UNCHANGED <<command, world, disk, age, startup, quarantined, runtime, dns, faults, doubt>>

-----------------------------------------------------------------------------
(* The environment.                                                        *)

\* A timer that has run out is not kept waiting.
Tick ==
    /\ pc # "idle" \/ wait > 0
    /\ age' = Least(age + 1, Limit)
    /\ wait' = IF pc = "idle" THEN wait - 1 ELSE wait
    /\ job' = IF job.why = "certificate" THEN [job EXCEPT !.since = Least(@ + 1, Limit)] ELSE job
    /\ UNCHANGED <<command, world, disk, pc, flags, runtime, dns, faults, doubt>>

PublishRevision ==
    /\ server.rev < MaxRevision
    /\ server' = [server EXCEPT !.rev = @ + 1]
    /\ UNCHANGED <<command, spent, authorized, disk, age, pc, wait, flags, job, runtime, dns,
                   faults, doubt>>

CertificateExpires ==
    /\ spent < server.gen /\ spent + 1 < MaxGeneration
    /\ spent' = spent + 1
    /\ UNCHANGED <<command, server, authorized, disk, age, pc, wait, flags, job, runtime, dns,
                   faults, doubt>>

\* The installer closes its gate for a transaction and opens it afterwards.
InstallerGate ==
    /\ Supervised
    /\ IF authorized THEN Faults(1) ELSE UNCHANGED faults
    /\ authorized' = ~authorized
    /\ UNCHANGED <<command, server, spent, disk, age, pc, wait, flags, job, runtime, dns, doubt>>

NebulaDies ==
    /\ nebula # None /\ Faults(1)
    /\ nebula' = None
    /\ resolver' = Registered(resolver, nebula, None)
    /\ UNCHANGED <<command, world, disk, age, pc, wait, flags, job, gate, adapter, dnsActive, doubt>>

\* The agent's process ends, with its deferred steps or without them, and is
\* started again.  BindsTo stops Nebula with it and the marker's RuntimeDirectory
\* goes; a supervised child goes with its parent; a process known by its PID
\* file stays.
Restarted ==
    /\ Faults(1)
    /\ pc' = "idle" /\ wait' = 0 /\ job' = NoJob
    /\ startup' = TRUE /\ quarantined' = FALSE /\ renewed' = FALSE
    /\ gate' = IF controller = "pid" THEN gate ELSE "closed"
    /\ nebula' = IF controller = "service" \/ Supervised THEN None ELSE nebula
    /\ adapter' = "none" /\ dnsActive' = FALSE
    /\ doubt' = IF controller = "pid" THEN doubt ELSE {}
    /\ UNCHANGED <<command, world, disk, age>>

Crash == Restarted /\ resolver' = Registered(resolver, nebula, nebula')

Shutdown ==
    /\ pc = "idle"
    /\ Restarted
    /\ \E d \in Disable : resolver' = Registered(d.resolver, nebula, nebula')

-----------------------------------------------------------------------------
Agent ==
    \/ Cycle \/ BeforePoll \/ RenewExpired \/ Requarantine
    \/ LoadReconciled \/ Poll \/ SyncFailed
    \/ Prune \/ Publish \/ Link \/ Activate \/ Relink \/ Restore \/ Save
    \/ Ensure \/ QuarantineRuntime \/ AfterSync \/ RenewDue
    \/ Observe \/ Recover \/ AfterMutation \/ Heartbeat \/ NoHeartbeat

Environment ==
    \/ Tick \/ PublishRevision \/ CertificateExpires \/ InstallerGate \/ NebulaDies
    \/ Crash \/ Shutdown

Next == Agent \/ Environment

\* An enrolled node whose agent has not run: InstallEnrollment finished, or
\* stopped before the link, or before the state file knew of it.
Enrolled == {[versions |-> <<Published(Bundle(1, 1))>>, current |-> 1,
              saved |-> Bundle(1, 1), age |-> 0],
             [versions |-> <<>>, current |-> 0, saved |-> Bundle(0, 1), age |-> Limit],
             [versions |-> <<Published(Bundle(1, 1))>>, current |-> 1,
              saved |-> Bundle(0, 1), age |-> Limit]}

Init ==
    /\ controller \in Controllers /\ failOpen \in FailOpen
    /\ controller = "none" => failOpen
    /\ server = Bundle(1, 1) /\ spent = 0 /\ authorized = TRUE
    /\ \E e \in Enrolled :
        versions = e.versions /\ current = e.current /\ saved = e.saved /\ age = e.age
    /\ pc = "idle" /\ wait = 0
    /\ startup = TRUE /\ quarantined = FALSE /\ renewed = FALSE
    /\ job = NoJob
    /\ gate = "closed"
    /\ nebula = IF controller = "pid" THEN Live ELSE None
    /\ resolver = FALSE /\ adapter = "none" /\ dnsActive = FALSE
    /\ faults = 0 /\ doubt = {}

Spec == Init /\ [][Next]_vars

\* The agent's own steps are bounded by its contexts; nothing else is promised.
FairSpec == Spec /\ WF_vars(Agent) /\ WF_vars(Tick)

-----------------------------------------------------------------------------
(* Properties.                                                             *)

TypeOK ==
    /\ versions \in Seq([bundle : [rev : 0..MaxRevision, gen : 0..MaxGeneration],
                         whole : BOOLEAN])
    /\ current \in 0..Len(versions) /\ job.prev \in 0..Len(versions)
    /\ age \in 0..Limit /\ wait \in 0..Interval
    /\ gate \in {"closed", "torn", "open"} /\ adapter \in {"none", "serving", "closed"}
    /\ doubt \subseteq {"stop", "restarted", "link"}

\* Retention never removes the bundle in use nor the one a rollback would go
\* back to, never exceeds its limit, and the link never falls behind what the
\* state file says was applied (pruneVersionsBeforeActivation, rollback,
\* loadReconciledState): otherwise no cycle could ever succeed again.
LinkIsUsable ==
    /\ TypeOK
    /\ Len(versions) <= Retained
    /\ current # 0 => versions[current].whole
    /\ pc \in {"reload", "rollback"} /\ saved.rev > 0
        => job.prev # 0 /\ versions[job.prev].whole
    /\ saved.rev > 0 => current # 0 /\ Live.rev >= saved.rev

\* Unless it was told to fail open, an agent that waits for its timer while its
\* configuration is stale, or that has started and has not confirmed its
\* configuration, has stopped Nebula and its marker; it is excused when a stop
\* could not be proven and when a failed activation had restarted it.
StaleIsStopped ==
    (pc = "idle" /\ wait > 0 /\ ~failOpen /\ HeartbeatAllowed
        /\ (startup \/ (Stale /\ wait = Interval)) /\ doubt = {} /\ authorized)
    => nebula = None /\ gate # "open"

\* A heartbeat acknowledges a bundle only while Nebula runs exactly that bundle
\* and, if it asks for native DNS, with the host resolver registered (cycle,
\* Heartbeat); excused when Nebula died after it was observed and when a
\* rollback could not put the link back.
AcknowledgedRuns ==
    [][Heartbeat /\ "link" \notin doubt =>
        /\ nebula \in {None, Live}
        /\ WantsDNS(Live) /\ nebula # None => resolver]_vars

\* The node runs what the control plane last signed for it.
Settled == nebula = server /\ saved = server /\ CurrentValid

\* A version directory that was left half removed stops every activation.
Torn == \E i \in 1..Len(versions) : ~versions[i].whole

\* With finitely many faults an agent with a real runtime controller comes to
\* run the bundle the control plane signed, unless it was left with a torn
\* version or a link it could not put back, or its deadline passed while it ran,
\* or (macOS) the bundle asks for native DNS.
Converges ==
    []<>(Settled \/ Torn \/ SyncExpired \/ "link" \in doubt
         \/ ~HeartbeatAllowed \/ ~authorized
         \/ (controller = "darwin" /\ WantsDNS(server)))

\* docs/security.md on a runtime in quarantine: "a later verified sync restarts
\* it".  With no faults at all the agent leaves quarantine again.
QuarantineEnds == []<>~quarantined
=============================================================================
