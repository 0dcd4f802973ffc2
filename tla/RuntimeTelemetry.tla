-------------------------- MODULE RuntimeTelemetry --------------------------
(***************************************************************************)
(* Runtime observations and what the control plane concludes from them.    *)
(* After each accepted heartbeat an agent posts one report: what Nebula's  *)
(* observer said, whether each lighthouse answered a probe (at most one    *)
(* probe per cadence, the result cached in a private journal), whether a   *)
(* local route overlaps the network and whether the lighthouses' names     *)
(* resolve.  The server keeps one record per node in a store of its own,   *)
(* classifies the change from the previous record, and derives fleet       *)
(* health and network readiness from the records and the control state.    *)
(*                                                                         *)
(* Time is the age of each stamp, in ticks, capped where no window can     *)
(* tell two ages apart.  A report is in flight for at most Transit ticks   *)
(* and arrives once, as the agent posts it once, or never.  truth records  *)
(* what really happened on the nodes.                                      *)
(***************************************************************************)
EXTENDS Naturals, FiniteSets

CONSTANTS
    Members, Lighthouses,   \* nodes, numbers in the order of the document
    Named,                  \* lighthouses whose endpoint is a DNS name
    Domain,                 \* the declared placement of each node, 0 if none
    Scenes,                 \* the fleets and budgets to explore
    Fresh,                  \* cadence and freshness of a probe (30 s)
    Wide,                   \* freshness of routes and names (90 s)
    Late, Offline,          \* heartbeat thresholds (2 and 5 minutes)
    Transit,                \* how long a message may be under way
    MaxTargets,             \* targets of one probe (8)
    Limit                   \* lighthouses in a projection

VARIABLES scene, network, node, agent, nebula, wire, store, server, truth,
          faults

vars == <<scene, network, node, agent, nebula, wire, store, server, truth,
          faults>>

Nodes == Members \cup Lighthouses

None == [seq |-> 0]

Least(S) == CHOOSE x \in S : \A y \in S : x <= y

Capped(age, cap) == IF age < cap THEN age + 1 ELSE cap

-----------------------------------------------------------------------------
(* Configurations.  What renderConfig puts in a node's configuration: the  *)
(* active lighthouses, the targets its outbound firewall allows, and, for  *)
(* a gateway, that its own subnet is not routed over the overlay.          *)

Active == {n \in Nodes : node[n].status = "active"}

ActiveLights == Active \cap Lighthouses

Config(n) == [lights |-> ActiveLights, allowed |-> network.allowed,
              own |-> n \in scene.gateways]

(* activeProbePlanFromVerifiedBundle: the other lighthouses of the active  *)
(* bundle that its firewall allows, the first MaxTargets in address order. *)
Plan(n, config) ==
    LET open == (config.lights \ {n}) \cap config.allowed
    IN  {l \in open : Cardinality({k \in open : k < l}) < MaxTargets}

-----------------------------------------------------------------------------
(* Results of an observation.                                              *)

Unknown == [state |-> "unknown", instance |-> 0, sample |-> 0]

Attempted(a, r) ==
    [state |-> "attempted", age |-> 0, attempted |-> a, replied |-> r]

Without(state) == [state |-> state, age |-> 0, attempted |-> 0, replied |-> 0]

NoRoute(state) == [state |-> state, overlap |-> FALSE]

NoNames(state) == [state |-> state, names |-> 0, resolved |-> 0]

(* observeVerifiedRuntimeTelemetry: one sample of the running process, or  *)
(* unknown when the observer fails, times out or breaks the protocol.      *)
Observe(n) ==
    IF "process" \notin scene.looks \/ ~nebula[n].up THEN {Unknown}
    ELSE {[state |-> "observed", instance |-> nebula[n].instance,
           sample |-> nebula[n].sample + 1]}
         \cup IF faults > 0 THEN {Unknown} ELSE {}

(* resolveRouteOverlap: the inventory shows an overlap or none, or could   *)
(* not be read.                                                            *)
Inspect(n) ==
    IF "routes" \notin scene.looks THEN {NoRoute("unavailable")}
    ELSE {[state |-> "observed", overlap |-> o] : o \in BOOLEAN}
         \cup IF faults > 0 THEN {NoRoute("unavailable")} ELSE {}

(* resolveEndpointDNS: of the names in the static host map of the active   *)
(* bundle, how many resolve; no name needs no lookup.                      *)
Resolve(n) ==
    LET names == Cardinality(agent[n].config.lights \cap Named)
    IN  IF "names" \notin scene.looks THEN {NoNames("unavailable")}
        ELSE {[state |-> "observed", names |-> names, resolved |-> r] :
                r \in 0 .. names}
             \cup IF faults > 0 THEN {NoNames("unavailable")} ELSE {}

(* cachedActiveProbeResult: a completed result is repeated with its age    *)
(* advanced by the time since the reservation.                             *)
Cached(journal) ==
    IF journal.result.state \in {"attempted", "capability_unavailable"}
       /\ journal.age <= Fresh
    THEN [journal.result EXCEPT !.age = @ + journal.age]
    ELSE Without("unavailable")

(* Whether resolveActiveProbe must probe: there are targets and the last   *)
(* reservation is a whole cadence old.                                     *)
Due(n) ==
    /\ Plan(n, agent[n].config) # {}
    /\ n \in scene.pings
    /\ agent[n].journal.age >= Fresh

(* Mutant: a cached result is repeated although the targets are others.    *)
UnprobedAnyPlan(n) ==
    LET plan == Plan(n, agent[n].config)
    IN  CASE plan = {} -> Without("not_eligible")
          [] plan # {} /\ n \notin scene.pings -> Without("unsupported")
          [] OTHER -> Cached(agent[n].journal)

(* What it answers otherwise.                                              *)
Unprobed(n) ==
    LET plan == Plan(n, agent[n].config)
    IN  CASE plan = {} -> Without("not_eligible")
          [] n \notin scene.pings -> Without("unsupported")
          [] agent[n].journal.plan # plan -> Without("unavailable")
          [] OTHER -> Cached(agent[n].journal)

-----------------------------------------------------------------------------
(* The agent's cycle.                                                      *)

Old == Wide + Transit + 1

Fault == faults > 0 /\ faults' = faults - 1

(* SyncConfig: the agent activates the configuration the server offers.    *)
SyncConfig(n) ==
    /\ agent[n].pc = "idle" /\ n \in Active /\ scene.beats[n] > 0
    /\ agent[n].config # Config(n) \/ agent[n].rev # network.rev
    /\ agent' = [agent EXCEPT ![n].rev = network.rev, ![n].config = Config(n)]
    /\ UNCHANGED <<scene, network, node, nebula, wire, store, server, truth,
                   faults>>

(* Service.Heartbeat: numbers and revisions only advance, and a node that  *)
(* claims the current revision must show its own desired digest and a      *)
(* running process.                                                        *)
Acceptable(n) ==
    /\ node[n].status = "active"
    /\ agent[n].seq + 1 > node[n].seq
    /\ agent[n].rev >= node[n].rev
    /\ agent[n].rev = network.rev => agent[n].config = Config(n) /\ nebula[n].up

Accepted(n) ==
    [node EXCEPT ![n].seq = agent[n].seq + 1, ![n].rev = agent[n].rev,
        ![n].digest = agent[n].config, ![n].up = nebula[n].up, ![n].seen = 0,
        ![n].since = TRUE, ![n].enrolled = Offline]

(* Agent.Heartbeat: the next number is saved, then sent with the applied   *)
(* revision and digest and whether the managed process runs.  Only an      *)
(* accepted heartbeat whose answer arrives is followed by a report.        *)
Heartbeat(n) ==
    /\ agent[n].pc = "idle" /\ agent[n].rev > 0
    /\ agent[n].seq < scene.beats[n]
    /\ IF Acceptable(n)
       THEN /\ node' = Accepted(n)
            /\ agent' = [agent EXCEPT ![n].pc = "accepted", ![n].seq = @ + 1]
       ELSE /\ agent' = [agent EXCEPT ![n].seq = @ + 1]
            /\ UNCHANGED node
    /\ UNCHANGED <<scene, network, nebula, wire, store, server, truth, faults>>

(* The heartbeat or its answer is lost, or the agent stops in between.     *)
HeartbeatLost(n) ==
    /\ agent[n].pc = "idle" /\ agent[n].rev > 0
    /\ agent[n].seq < scene.beats[n] /\ Acceptable(n)
    /\ Fault
    /\ node' \in {node, Accepted(n)}
    /\ agent' = [agent EXCEPT ![n].seq = @ + 1]
    /\ UNCHANGED <<scene, network, nebula, wire, store, server, truth>>

(* ReportRuntimeTelemetry, its end: routes and names are inspected and the *)
(* report is posted once, under the number of the accepted heartbeat.      *)
Post(n, obs, probe, replies) ==
    \E route \in Inspect(n), dns \in Resolve(n) :
        /\ wire' = [wire EXCEPT ![n] =
                [seq |-> agent[n].seq, obs |-> obs, probe |-> probe,
                 route |-> route, dns |-> dns, age |-> 0]]
        /\ truth' = [truth EXCEPT ![n] =
                [reply |-> replies,
                 clean |-> IF route.state = "observed" /\ ~route.overlap
                           THEN 0 ELSE Old,
                 named |-> IF dns.state = "observed" /\ dns.names = dns.resolved
                           THEN 0 ELSE Old,
                 made |-> IF "history" \in scene.looks
                          THEN <<[seq |-> agent[n].seq, config |-> agent[n].config,
                                  probe |-> [probe EXCEPT !.age = 0]],
                                 truth[n].made[1]>>
                          ELSE @.made]]

(* A report whose probe result needs no probe.                             *)
Report(n) ==
    /\ agent[n].pc = "accepted" /\ ~Due(n)
    /\ \E obs \in Observe(n) :
        /\ Post(n, obs, Unprobed(n), truth[n].reply)
        /\ nebula' = [nebula EXCEPT ![n].sample =
                IF obs = Unknown THEN @ ELSE obs.sample]
    /\ agent' = [agent EXCEPT ![n].pc = "idle"]
    /\ UNCHANGED <<scene, network, node, store, server, faults>>

(* resolveActiveProbe, first half: the reservation is durable before the   *)
(* first packet is sent.                                                   *)
Reserve(n) ==
    /\ agent[n].pc = "accepted" /\ Due(n)
    /\ \E obs \in Observe(n) :
        /\ nebula' = [nebula EXCEPT ![n].sample =
                IF obs = Unknown THEN @ ELSE obs.sample]
        /\ agent' = [agent EXCEPT ![n].pc = "reserved", ![n].obs = obs,
                ![n].journal = [plan |-> Plan(n, agent[n].config), age |-> 0,
                                result |-> Without("unavailable")]]
    /\ UNCHANGED <<scene, network, node, wire, store, server, truth, faults>>

(* Its second half.  Probe sends to the targets in order until the total   *)
(* deadline, so the first of them are attempted and some of those answer;  *)
(* the completed result replaces the reservation.                          *)
Probe(n) ==
    /\ agent[n].pc = "reserved"
    /\ \E sent \in SUBSET agent[n].journal.plan \ {{}} :
       \E replied \in SUBSET sent :
        /\ \A l \in sent, k \in agent[n].journal.plan : k < l => k \in sent
        /\ LET result == Attempted(Cardinality(sent), Cardinality(replied))
           IN  /\ agent' = [agent EXCEPT ![n].pc = "idle", ![n].obs = Unknown,
                                         ![n].journal.result = result]
               /\ Post(n, agent[n].obs, result,
                       [l \in Lighthouses |->
                            CASE l \in replied -> 0
                              [] l \in sent \ replied -> Old
                              [] OTHER -> truth[n].reply[l]])
    /\ UNCHANGED <<scene, network, node, nebula, store, server, faults>>

(* The probe cannot run.  No permission for the socket is a result of its  *)
(* own and is cached; an error, a cancelled cycle or a journal that cannot *)
(* be written leaves the reservation behind.                               *)
ProbeFails(n) ==
    /\ agent[n].pc = "reserved"
    /\ Fault
    /\ \E result \in {Without("capability_unavailable"), Without("unavailable")} :
        /\ agent' = [agent EXCEPT ![n].pc = "idle", ![n].obs = Unknown,
                                  ![n].journal.result = result]
        /\ Post(n, agent[n].obs, result, truth[n].reply)
    /\ UNCHANGED <<scene, network, node, nebula, store, server>>

(* The agent is killed; its state and its journal are files.               *)
AgentCrash(n) ==
    /\ agent[n].pc # "idle"
    /\ Fault
    /\ agent' = [agent EXCEPT ![n].pc = "idle", ![n].obs = Unknown]
    /\ UNCHANGED <<scene, network, node, nebula, wire, store, server, truth>>

(* Nebula stops, or is started again as another process.                   *)
NebulaStops(n) ==
    /\ nebula[n].up /\ scene.beats[n] > 0
    /\ Fault
    /\ nebula' = [nebula EXCEPT ![n].up = FALSE]
    /\ UNCHANGED <<scene, network, node, agent, wire, store, server, truth>>

NebulaStarts(n) ==
    /\ ~nebula[n].up
    /\ nebula' = [nebula EXCEPT ![n] =
            [up |-> TRUE, instance |-> @.instance + 1, sample |-> 0]]
    /\ UNCHANGED <<scene, network, node, agent, wire, store, server, truth,
                   faults>>

-----------------------------------------------------------------------------
(* The telemetry store.                                                    *)

InitialTransition(probe) ==
    CASE probe.state = "not_eligible" -> "not_eligible"
      [] probe.state = "attempted" -> "unclassified"
      [] OTHER -> "unavailable"

Comparative == {"stable", "recovered", "degraded", "changed"}

ValidTransition(r) ==
    /\ r.transition \in
        CASE r.probe.state = "attempted" -> Comparative \cup {"unclassified"}
          [] r.probe.state = "not_eligible" -> {"not_eligible"}
          [] OTHER -> {"unavailable"}
    /\ r.transition = "recovered" => r.probe.replied = r.probe.attempted
    /\ r.transition \in {"degraded", "changed"} =>
            r.probe.replied < r.probe.attempted

(* ValidateRecord: the parts of a record agree with each other.            *)
ValidRecord(r) ==
    /\ r.seq >= 1
    /\ r.probe.replied <= r.probe.attempted /\ r.probe.age <= Fresh
    /\ ValidTransition(r)
    /\ r.transition \in Comparative => r.digest # None
    /\ (r.obs = Unknown) <=> (r.continuity = "unavailable")

(* transitionRecord, the process: another instance is a restart, and the   *)
(* samples of one instance advance.                                        *)
Continuity(old, obs) ==
    CASE obs = Unknown -> "unavailable"
      [] obs # Unknown /\ (old = None \/ old.obs = Unknown) -> "unclassified"
      [] obs # Unknown /\ old # None /\ old.obs # Unknown
            /\ old.obs.instance # obs.instance -> "restarted"
      [] OTHER -> IF obs.sample > old.obs.sample THEN "continuous" ELSE "replay"

(* Mutant: the two need not be consecutive.                                *)
ComparableAcross(old, r) ==
    /\ old # None
    /\ r.probe.state = "attempted" /\ old.probe.state = "attempted"
    /\ r.digest # None /\ old.digest = r.digest

(* transitionActiveProbe: two attempted probes are compared only when they *)
(* belong to consecutive heartbeats under one configuration.               *)
Comparable(old, r) ==
    /\ old # None
    /\ r.probe.state = "attempted" /\ old.probe.state = "attempted"
    /\ r.seq = old.seq + 1
    /\ r.digest # None /\ old.digest = r.digest

ProbeTransition(old, r) ==
    LET before == old.probe.replied = old.probe.attempted
        after == r.probe.replied = r.probe.attempted
    IN  CASE ~Comparable(old, r) -> InitialTransition(r.probe)
          [] Comparable(old, r) /\ r.probe.attempted # old.probe.attempted ->
                "conflict"
          [] OTHER ->
                CASE r.probe.replied = old.probe.replied -> "stable"
                  [] r.probe.replied # old.probe.replied /\ ~before /\ after ->
                        "recovered"
                  [] r.probe.replied # old.probe.replied /\ before /\ ~after ->
                        "degraded"
                  [] OTHER -> "changed"

(* newCandidateRecord and transitionRecord: the record a report becomes.   *)
Candidate(h, old) ==
    LET r == [seq |-> h.report.seq, received |-> h.received, obs |-> h.report.obs,
              probe |-> h.report.probe, route |-> h.report.route,
              dns |-> h.report.dns, digest |-> h.digest,
              continuity |-> Continuity(old, h.report.obs), transition |-> ""]
    IN  [r EXCEPT !.transition = ProbeTransition(old, r)]

(* An older report is a replay; the same one again changes nothing.        *)
Changes(h, old) ==
    /\ old = None \/ h.report.seq > old.seq
    /\ Candidate(h, old).continuity # "replay"
    /\ Candidate(h, old).transition # "conflict"
    /\ ValidRecord(Candidate(h, old))

(* readyLocked: what an earlier rename left unsynced is synced before      *)
(* anything is read or written; while that fails every operation is        *)
(* refused.                                                                *)
Settled == [store EXCEPT !.disk = store.live, !.pending = FALSE]

(* persistLocked: write aside, sync, rename, sync the directory.  When the *)
(* last step fails the new state is live and not yet durable; when an      *)
(* earlier one does, nothing has changed.                                  *)
Persist(next) ==
    \/ /\ store' = [live |-> next, disk |-> next, pending |-> FALSE]
       /\ UNCHANGED faults
    \/ /\ Fault
       /\ store' \in {[live |-> next, disk |-> store.live, pending |-> TRUE],
                     Settled}

(* agentRuntimeTelemetry, up to AuthorizeRuntimeTelemetry: the report must *)
(* belong to the heartbeat the node was last seen with.  Its digest is     *)
(* read here and the time of receipt is taken.                             *)
Authorize(n) ==
    /\ server.handling = None /\ ~server.listed
    /\ wire[n] # None
    /\ node[n].status = "active" /\ node[n].seq = wire[n].seq
    /\ server' = [server EXCEPT !.handling =
            [seq |-> wire[n].seq, node |-> n, report |-> wire[n], received |-> 0,
             digest |-> node[n].digest]]
    /\ wire' = [wire EXCEPT ![n] = None]
    /\ UNCHANGED <<scene, network, node, agent, nebula, store, truth, faults>>

(* PutWithConfig: what the control plane did since is not looked at.       *)
Put ==
    LET h == server.handling
    IN  /\ h # None
        /\ server' = [server EXCEPT !.handling = None]
        /\ IF Changes(h, store.live[h.node])
           THEN Persist([store.live EXCEPT
                            ![h.node] = Candidate(h, store.live[h.node])])
           ELSE store' = Settled /\ UNCHANGED faults
        /\ UNCHANGED <<scene, network, node, agent, nebula, wire, truth>>

(* The server stops and starts again: OpenFileStore reads what the         *)
(* directory holds, the older document when the rename was not synced.     *)
ServerRestart ==
    /\ Fault
    /\ server' = [handling |-> None, listed |-> FALSE,
                  records |-> [n \in Nodes |-> None]]
    /\ \E kept \in {store.live, store.disk} :
            store' = [live |-> kept, disk |-> kept, pending |-> FALSE]
    /\ UNCHANGED <<scene, network, node, agent, nebula, wire, truth>>

(* getNetworkReadiness, its first read: the records are listed before the  *)
(* control state is.  No report is kept waiting in its handler meanwhile:  *)
(* it would touch only the store, after the list was copied.               *)
ListRecords ==
    /\ ~server.listed /\ server.handling = None
    /\ store' = Settled
    /\ server' = [server EXCEPT !.listed = TRUE, !.records = store.live]
    /\ UNCHANGED <<scene, network, node, agent, nebula, wire, truth, faults>>

(* ... and its second: the report is derived from both and sent.           *)
Answer ==
    /\ server.listed
    /\ server' = [server EXCEPT !.listed = FALSE,
                                !.records = [n \in Nodes |-> None]]
    /\ UNCHANGED <<scene, network, node, agent, nebula, wire, store, truth,
                   faults>>

-----------------------------------------------------------------------------
(* Administrators, as far as health and readiness see them.                *)

Advanced(event) == [network EXCEPT !.rev = @ + 1, !.event = event]

Unseen(f) == [n \in Nodes |-> [f[n] EXCEPT !.since = FALSE]]

(* A pending node enrolls; the configuration changes with a lighthouse.    *)
Enroll(n) ==
    /\ node[n].status = "pending"
    /\ n \in Lighthouses => network.rev < scene.revs
    /\ IF n \in Lighthouses
       THEN /\ network' = Advanced("other")
            /\ node' = Unseen([node EXCEPT ![n].status = "active"])
       ELSE /\ node' = [node EXCEPT ![n].status = "active"]
            /\ UNCHANGED network
    /\ UNCHANGED <<scene, agent, nebula, wire, store, server, truth, faults>>

Revoke(n) ==
    /\ node[n].status = "active" /\ n \in scene.revocable
    /\ network.rev < scene.revs
    /\ network' = Advanced("revoked")
    /\ node' = Unseen([node EXCEPT ![n].status = "revoked"])
    /\ UNCHANGED <<scene, agent, nebula, wire, store, server, truth, faults>>

(* The firewall policy decides which lighthouses may be probed.            *)
SetPolicy ==
    /\ network.rev < scene.revs
    /\ \E allowed \in scene.policies \ {network.allowed} :
            network' = [Advanced("other") EXCEPT !.allowed = allowed]
    /\ node' = Unseen(node)
    /\ UNCHANGED <<scene, agent, nebula, wire, store, server, truth, faults>>

(* archiveNode: the node leaves the control state, then Delete removes its *)
(* record; a failed removal is only reported.                              *)
Archive(n) ==
    /\ node[n].status = "revoked"
    /\ node' = [node EXCEPT ![n].status = "archived"]
    /\ IF store.live[n] = None
       THEN store' = Settled /\ UNCHANGED faults
       ELSE Persist([store.live EXCEPT ![n] = None])
    /\ UNCHANGED <<scene, network, agent, nebula, wire, server, truth>>

(* A certificate that is not renewed falls due and then expires.           *)
Lapse(n) ==
    /\ node[n].status = "active" /\ node[n].lifetime # "expired"
    /\ scene.beats[n] > 0
    /\ Fault
    /\ node' = [node EXCEPT ![n].lifetime =
            IF @ = "current" THEN "due" ELSE "expired"]
    /\ UNCHANGED <<scene, network, agent, nebula, wire, store, server, truth>>

(* Time passes for everyone.                                               *)
Tick ==
    LET Older(f) == [n \in Nodes |-> IF f[n] = None THEN None
                        ELSE [f[n] EXCEPT !.received = Capped(@, Wide + 1)]]
    IN  /\ node' = [n \in Nodes |->
                [node[n] EXCEPT !.seen = Capped(@, Offline),
                                !.enrolled = Capped(@, Offline)]]
        /\ agent' = [n \in Nodes |->
                [agent[n] EXCEPT !.journal.age = Capped(@, Fresh)]]
        /\ wire' = [n \in Nodes |->
                IF wire[n] = None \/ wire[n].age = Transit THEN None
                ELSE [wire[n] EXCEPT !.age = @ + 1]]
        /\ store' = [store EXCEPT !.live = Older(@), !.disk = Older(@)]
        /\ server' = [server EXCEPT !.records = Older(@),
                !.handling = IF @ = None THEN None
                             ELSE [@ EXCEPT !.received = Capped(@, Wide + 1)]]
        /\ truth' = [n \in Nodes |-> [truth[n] EXCEPT
                !.reply = [l \in Lighthouses |-> Capped(@[l], Old)],
                !.clean = Capped(@, Old), !.named = Capped(@, Old)]]
        /\ UNCHANGED <<scene, network, nebula, faults>>

-----------------------------------------------------------------------------
(* Fleet health.                                                           *)

(* buildFleetHealthIndex: one configuration is rendered for the first      *)
(* active member and stands for all members, one for each lighthouse, and  *)
(* none when there are more lighthouses than the projection holds.         *)
Desired(n) ==
    CASE Cardinality(ActiveLights) > Limit \/ n \notin Active -> None
      [] n \in Active \cap Members -> Config(Least(Active \cap Members))
      [] OTHER -> Config(n)

(* The latest change is conclusively a revocation, and the node was seen   *)
(* since with an older configuration.                                      *)
StaleRevocation(n) ==
    network.event = "revoked" /\ node[n].since /\ node[n].rev < network.rev

(* appendNodeHeartbeatAlert.                                               *)
HeartbeatAlert(n) ==
    LET age == IF node[n].seq > 0 THEN node[n].seen ELSE node[n].enrolled
    IN  CASE age >= Offline -> {"critical"}
          [] age >= Late /\ age < Offline -> {"warning"}
          [] OTHER -> {}

(* projectFleetNode: the severities of an active node's alerts.            *)
Alerts(n) ==
    LET v == node[n]
        reported == v.seq > 0
    IN  HeartbeatAlert(n)
        \cup (IF reported /\ ~v.up THEN {"critical"} ELSE {})
        \cup (IF reported /\ v.rev # network.rev THEN {"warning"} ELSE {})
        \cup (IF reported /\ v.rev = network.rev /\ v.digest # Desired(n)
              THEN {"critical"} ELSE {})
        \cup (CASE v.lifetime = "expired" -> {"critical"}
                [] v.lifetime = "due" -> {"warning"}
                [] OTHER -> {})
        \cup (IF StaleRevocation(n) THEN {"critical"} ELSE {})

(* ... its place in the rollout ...                                        *)
RolloutCurrent(n) ==
    LET v == node[n]
    IN  /\ v.status = "active" /\ v.seq > 0 /\ v.seen < Offline /\ v.up
        /\ v.rev = network.rev /\ v.digest = Desired(n)
        /\ v.lifetime # "expired"

(* ... and whether it counts as operational.                               *)
Operational(n) == RolloutCurrent(n) /\ "critical" \notin Alerts(n)

-----------------------------------------------------------------------------
(* Readiness, from the listed records and the control state of now.        *)

(* What every check asks of a record before it looks at the evidence.      *)
Current(n, r) ==
    /\ r # None /\ ValidRecord(r)
    /\ n \in Active /\ Operational(n) /\ node[n].seq = r.seq

(* readinessProbeTargetCounts.                                             *)
Eligible == {l \in ActiveLights : l \in network.allowed}

(* deriveReadinessUDP: every active member has a fresh reply from every    *)
(* active lighthouse.                                                      *)
Reached(n, r) ==
    /\ Current(n, r)
    /\ Eligible = ActiveLights
    /\ r.probe.state = "attempted"
    /\ r.probe.attempted = Cardinality(ActiveLights)
    /\ r.probe.replied = Cardinality(ActiveLights)
    /\ r.received + r.probe.age <= Fresh

UDP(records) ==
    LET members == Active \cap Members
    IN  IF /\ members # {} /\ ActiveLights # {}
           /\ Cardinality(ActiveLights) <= MaxTargets
           /\ \A n \in members : Reached(n, records[n])
        THEN "pass" ELSE "unknown"

(* deriveReadinessClientRoutes: one fresh overlap blocks; a pass needs     *)
(* every active node.                                                      *)
Inventoried(n, r) ==
    Current(n, r) /\ r.route.state = "observed" /\ r.received <= Wide

Routes(records) ==
    LET observed == {n \in Active : Inventoried(n, records[n])}
    IN  CASE \E n \in observed : records[n].route.overlap -> "blocked"
          [] /\ \A n \in observed : ~records[n].route.overlap
             /\ Active # {} /\ observed = Active -> "pass"
          [] OTHER -> "unknown"

(* deriveReadinessMemberDNS: the same of the members' lookups, for as many *)
(* names as the active lighthouses have now.                               *)
LookedUp(n, r) ==
    /\ Current(n, r) /\ r.dns.state = "observed" /\ r.received <= Wide
    /\ r.dns.names = Cardinality(ActiveLights \cap Named)

MemberDNS(records) ==
    LET members == Active \cap Members
        observed == {n \in members : LookedUp(n, records[n])}
        Full(n) == records[n].dns.resolved = records[n].dns.names
    IN  CASE \E n \in observed : ~Full(n) -> "blocked"
          [] (\A n \in observed : Full(n)) /\ members # {} /\ observed = members ->
                "pass"
          [] OTHER -> "unknown"

(* The checks of the inventory alone.                                      *)
Redundancy ==
    CASE ActiveLights = {} -> "blocked"
      [] Cardinality(ActiveLights) = 1 -> "warning"
      [] OTHER -> "pass"

Topology ==
    IF /\ \A n \in Active : Domain[n] # 0
       /\ Cardinality({Domain[l] : l \in ActiveLights}) >= 2
    THEN "pass" ELSE "warning"

(* resolveReadinessDNS: the control plane looks the names up itself, those *)
(* of pending lighthouses too; more lighthouses than Limit block.          *)
ControlDNS(resolves) ==
    LET lights == {l \in Lighthouses : node[l].status \in {"pending", "active"}}
    IN  IF \/ Cardinality(lights) > Limit
           \/ ~resolves /\ lights \cap Named # {}
        THEN "blocked" ELSE "pass"

(* readinessOverall.                                                       *)
Overall(records, resolves) ==
    LET checks == {UDP(records), Routes(records), MemberDNS(records), Redundancy,
                   Topology, ControlDNS(resolves)}
    IN  CASE "blocked" \in checks -> "blocked"
          [] "blocked" \notin checks /\ checks # {"pass"} -> "verification_required"
          [] OTHER -> "ready"

-----------------------------------------------------------------------------
(* A server may start over a document that an earlier release wrote.       *)

(* What each schema did not have yet is unsupported, and no continuity or  *)
(* transition is invented for it.                                          *)
decodeStateV6(r) ==
    [r EXCEPT !.digest = None, !.transition = InitialTransition(r.probe)]

decodeStateV5(r) == [decodeStateV6(r) EXCEPT !.dns = NoNames("unsupported")]

decodeStateV4(r) == [decodeStateV5(r) EXCEPT !.route = NoRoute("unsupported")]

decodeStateV3(r) ==
    [decodeStateV4(r) EXCEPT !.probe = Without("unsupported"),
                             !.transition = "unavailable"]

migratedContinuity(obs) == IF obs = Unknown THEN "unavailable" ELSE "unclassified"

decodeStateV2(r) ==
    [decodeStateV3(r) EXCEPT !.continuity = migratedContinuity(r.obs)]

(* The first schema lacked only aggregates that are not looked at here.    *)
decodeStateV1(r) == decodeStateV2(r)

DecodeState(version, r) ==
    CASE version = 1 -> decodeStateV1(r)
      [] version = 2 -> decodeStateV2(r)
      [] version = 3 -> decodeStateV3(r)
      [] version = 4 -> decodeStateV4(r)
      [] version = 5 -> decodeStateV5(r)
      [] version = 6 -> decodeStateV6(r)
      [] OTHER -> r

(* The record of a node's first report, all of whose probes and lookups    *)
(* were answered or none.                                                  *)
First(answered, config) ==
    [seq |-> 1, received |-> 0,
     obs |-> [state |-> "observed", instance |-> 1, sample |-> 1],
     probe |-> Attempted(Cardinality(config.lights),
                         IF answered THEN Cardinality(config.lights) ELSE 0),
     route |-> [state |-> "observed", overlap |-> FALSE],
     dns |-> LET names == Cardinality(config.lights \cap Named)
             IN  [state |-> "observed", names |-> names,
                  resolved |-> IF answered THEN names ELSE 0],
     digest |-> config,
     continuity |-> "unclassified", transition |-> "unclassified"]

Quiet == [reply |-> [l \in Lighthouses |-> Old], clean |-> Old, named |-> Old,
          made |-> <<None, None>>]

(* With a version, the nodes that send heartbeats have sent one, those     *)
(* that probe have the result in their journal, and the store holds their  *)
(* record as that version kept it.                                         *)
Init ==
    /\ scene \in Scenes
    /\ network = [rev |-> 1, allowed |-> Lighthouses, event |-> "other"]
    /\ \E answered \in BOOLEAN :
       LET sent == IF scene.version = 0 THEN 0 ELSE 1
           config == [n \in Nodes |->
                        [lights |-> scene.active \cap Lighthouses,
                         allowed |-> Lighthouses, own |-> n \in scene.gateways]]
           Past(n) == sent = 1 /\ scene.beats[n] > 0
           kept == [n \in Nodes |->
                      IF Past(n) THEN DecodeState(scene.version,
                                                  First(answered, config[n]))
                      ELSE None]
       IN  /\ answered => sent = 1
           /\ node = [n \in Nodes |->
                [status |-> CASE n \in scene.active -> "active"
                              [] n \in scene.pending -> "pending"
                              [] OTHER -> "absent",
                 seq |-> IF Past(n) THEN 1 ELSE 0, rev |-> IF Past(n) THEN 1 ELSE 0,
                 digest |-> IF Past(n) THEN config[n] ELSE None, up |-> Past(n),
                 seen |-> IF Past(n) THEN 0 ELSE Offline, since |-> Past(n),
                 enrolled |-> IF scene.beats[n] > 0 THEN 0 ELSE Offline,
                 lifetime |-> "current"]]
           /\ agent = [n \in Nodes |->
                [pc |-> "idle", seq |-> IF Past(n) THEN 1 ELSE 0,
                 rev |-> IF n \in scene.active THEN 1 ELSE 0, config |-> config[n],
                 obs |-> Unknown,
                 journal |-> IF Past(n) /\ n \in scene.pings
                             THEN [plan |-> Plan(n, config[n]), age |-> 0,
                                   result |-> First(answered, config[n]).probe]
                             ELSE [plan |-> {}, age |-> Fresh,
                                   result |-> Without("unavailable")]]]
           /\ nebula = [n \in Nodes |->
                [up |-> TRUE, instance |-> 1, sample |-> IF Past(n) THEN 1 ELSE 0]]
           /\ store = [live |-> kept, disk |-> kept, pending |-> FALSE]
           /\ truth = [n \in Nodes |->
                IF Past(n)
                THEN [Quiet EXCEPT !.clean = 0,
                        !.named = IF First(answered, config[n]).dns.resolved
                                     = First(answered, config[n]).dns.names
                                  THEN 0 ELSE Old,
                        !.reply = [l \in Lighthouses |->
                            IF answered /\ l \in config[n].lights THEN 0 ELSE Old],
                        !.made = <<[seq |-> 1, config |-> config[n],
                                    probe |-> First(answered, config[n]).probe],
                                   None>>]
                ELSE Quiet]
    /\ wire = [n \in Nodes |-> None]
    /\ server = [handling |-> None, listed |-> FALSE,
                 records |-> [n \in Nodes |-> None]]
    /\ faults = scene.faults

Next ==
    \/ \E n \in Nodes :
        \/ SyncConfig(n) \/ Heartbeat(n) \/ HeartbeatLost(n) \/ Report(n)
        \/ Reserve(n) \/ Probe(n) \/ ProbeFails(n) \/ AgentCrash(n)
        \/ NebulaStops(n) \/ NebulaStarts(n)
        \/ Authorize(n) \/ Enroll(n) \/ Revoke(n) \/ Archive(n) \/ Lapse(n)
    \/ Put \/ ServerRestart \/ ListRecords \/ Answer \/ SetPolicy \/ Tick

Spec == Init /\ [][Next]_vars

-----------------------------------------------------------------------------
(* The agent of an active node has activated what the server would send.   *)
UpToDate(n) == agent[n].rev = network.rev /\ agent[n].config = Config(n)

(* Readiness says what is so.  Whenever the report could be derived from   *)
(* the records listed before: public UDP passes only if each active        *)
(* member's latest probe of each lighthouse that is active now was         *)
(* answered, within the window and the time of one message; client routes  *)
(* and member DNS pass only if each node's latest inspection found nothing *)
(* wrong; every node counted runs the configuration of now; and a network  *)
(* is ready only with two lighthouses apart.  Delayed, repeated and lost   *)
(* reports, cached probes, restarts and changes of the control state       *)
(* between the two reads do not turn older evidence into a pass            *)
(* (getNetworkReadiness, deriveReadinessUDP, resolveActiveProbe).          *)
ReadinessProven ==
    server.listed =>
        LET records == server.records
            members == Active \cap Members
        IN  /\ UDP(records) = "pass" =>
                  \A n \in members :
                    /\ UpToDate(n)
                    /\ \A l \in ActiveLights : truth[n].reply[l] <= Fresh + Transit
            /\ Routes(records) = "pass" =>
                  \A n \in Active :
                    UpToDate(n) /\ truth[n].clean <= Wide + Transit
            /\ MemberDNS(records) = "pass" =>
                  \A n \in members :
                    UpToDate(n) /\ truth[n].named <= Wide + Transit
            /\ Overall(records, TRUE) = "ready" =>
                  Cardinality({Domain[l] : l \in ActiveLights}) >= 2

(* Fleet health hides no drift: a node counted as converged runs the       *)
(* configuration of now, and a node that reported once and fell behind     *)
(* carries an alert (projectFleetNode).                                    *)
DriftIsSeen ==
    \A n \in Active :
        /\ RolloutCurrent(n) => UpToDate(n)
        /\ node[n].seq > 0 /\ ~UpToDate(n) => Alerts(n) # {}

(* A probe transition compares what two consecutive reports of the agent   *)
(* really said under one configuration, whichever reports the store lost   *)
(* or had migrated in between (transitionActiveProbe, DecodeState).        *)
TransitionsTrue ==
    \A n \in Nodes :
        LET r == store.live[n]
            last == truth[n].made[1]
            prior == truth[n].made[2]
        IN  (r # None /\ r.seq = last.seq /\ r.transition \in Comparative) =>
                /\ prior.seq = r.seq - 1 /\ prior.config = last.config
                /\ prior.probe.attempted = r.probe.attempted
                /\ (r.transition = "stable") <=> (prior.probe = last.probe)
                /\ r.transition = "recovered" =>
                        prior.probe.replied < prior.probe.attempted

(* The three together.                                                     *)
ObservationsHold == ReadinessProven /\ DriftIsSeen /\ TransitionsTrue
=============================================================================
