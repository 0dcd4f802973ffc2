--------------------------- MODULE FirewallRollout ---------------------------
(***************************************************************************)
(* What the control plane of one network signs for its nodes, and how a    *)
(* change of it is deployed (internal/control: firewall.go,                *)
(* firewall_rollout.go, dns.go, relays.go and the node lifecycle of        *)
(* service.go; the agent's side is nodeagent/agent.go and the cycle of     *)
(* cmd/meshctl/agent.go).                                                  *)
(*                                                                         *)
(* renderConfig computes a node's configuration from the whole document:   *)
(* the active lighthouses, the certificate blocklist, the DNS and relay    *)
(* settings and the firewall policy.  An agent tells configurations apart  *)
(* by their revision: it refuses a lower one, and a different              *)
(* configuration under the revision it has applied.  So every change of    *)
(* any node's configuration must advance the revision of its network.      *)
(* A new firewall policy may first be staged on selected canaries; it is   *)
(* promoted when each of them has reported running it, and withdrawn when  *)
(* one of them reports that it could not.                                  *)
(*                                                                         *)
(* A node is a natural number, so that identifiers are ordered as the      *)
(* source orders them.  A policy is abstracted to three facts: the nodes   *)
(* its rules name, in the order of the rules, whether it lets DNS in, and  *)
(* what a Nebula process given it does.  Transactions of the control       *)
(* document are atomic (see StateStore), the two phases of an enrollment   *)
(* or a certificate operation included: the compare at their end makes     *)
(* them take effect at their commit.  Requests and answers between an      *)
(* agent and the control plane are separate steps.                         *)
(***************************************************************************)
EXTENDS Naturals, Sequences, FiniteSets, Functions

CONSTANTS
    Node,            \* the identifiers the control plane may draw
    Lighthouse,      \* the nodes created with the role lighthouse
    Enrolled,        \* the nodes active in the initial state
    Policy,          \* the firewall policies the administrator may submit
    DNSMode,         \* the DNS settings the administrator may submit
    RelayCandidate,  \* the nodes the administrator may select as relays
    StopReporter,    \* the agents that report a stopped runtime
    MaxRevision,     \* bound: the largest revision, in place of MaxInt64
    AdminRevision,   \* bound: no administrator's change starts from here on
    MaxGeneration,   \* bound: certificates issued to one node
    MaxHeartbeats    \* bound: heartbeats of one node in flight

(***************************************************************************)
(* What Nebula does with a policy: runs it, refuses to activate it, or     *)
(* activates it and stops afterwards.                                      *)
(***************************************************************************)
Effect == {"runs", "refused", "stops"}

ASSUME RolloutAssumption ==
    /\ Node \subseteq Nat /\ IsFiniteSet(Node)
    /\ Lighthouse \subseteq Node /\ Enrolled \subseteq Node
    /\ RelayCandidate \subseteq Node /\ StopReporter \subseteq Node
    /\ DNSMode \subseteq {"off", "on", "native"}
    /\ Policy \subseteq [peers : Seq(Node), dns : BOOLEAN, effect : Effect]
    /\ MaxRevision \in Nat /\ AdminRevision \in Nat /\ AdminRevision < MaxRevision
    /\ MaxGeneration \in Nat \ {0} /\ MaxHeartbeats \in Nat \ {0}

VARIABLES
    net,    \* the network of the control document
    node,   \* the nodes of the control document
    agent   \* the node agents and what is in flight between them and the server

vars == <<net, node, agent>>

None == [rev |-> 0]

NoRollout == [phase |-> "stable"]

Referenced(p) == Range(p.peers)

(***************************************************************************)
(* Rendering.  nt is a network and nd its nodes.                           *)
(***************************************************************************)
Active(nd) == {n \in Node : nd[n].status = "active"}

Exists(nd) == {n \in Node : nd[n].status \in {"pending", "active", "revoked"}}

firewallPolicyForNode(nt, n) ==
    IF nt.rollout.phase = "canary" /\ n \in nt.rollout.canaries
    THEN nt.rollout.target ELSE nt.policy

(***************************************************************************)
(* The rules whose peer resolves.  Stored rules are in canonical order, so *)
(* the set of them stands for the list.                                    *)
(***************************************************************************)
compileFirewall(nd, p) == [p EXCEPT !.peers = Referenced(p) \cap Exists(nd)]

nativeDNSPolicy(nt, nd) ==
    [on |-> nt.dns = "native",
     resolvers |-> IF nt.dns = "native" THEN Active(nd) \cap Lighthouse ELSE {}]

activeNetworkRelays(nt, nd) == nt.relays \cap Active(nd)

relayBlock(nt, nd, n) ==
    [on      |-> nt.relays # {},
     amRelay |-> n \in nt.relays,
     relays  |-> IF n \in nt.relays THEN {} ELSE activeNetworkRelays(nt, nd)]

renderConfig(nt, nd, n) ==
    [native      |-> nativeDNSPolicy(nt, nd),
     blocklist   |-> nt.blocked,
     lighthouses |-> Active(nd) \cap Lighthouse,
     servesDNS   |-> n \in Lighthouse /\ nt.dns # "off",
     relay       |-> relayBlock(nt, nd, n),
     firewall    |-> compileFirewall(nd, firewallPolicyForNode(nt, n))]

(***************************************************************************)
(* The artifact the control plane signs for node n.                        *)
(***************************************************************************)
signConfig(nt, nd, n, via) ==
    [rev |-> nt.revision, cfg |-> renderConfig(nt, nd, n), gen |-> nd[n].gen, via |-> via]

(***************************************************************************)
(* What every transaction must leave valid before it is written: the part  *)
(* of validateStateGraph that concerns these settings.                     *)
(***************************************************************************)
Canonical(p) == \A i, j \in DOMAIN p.peers : i < j => p.peers[i] < p.peers[j]

validateStoredFirewallPolicy(nt, nd, p) ==
    /\ Canonical(p)
    /\ Referenced(p) \subseteq Exists(nd)
    /\ nt.dns # "off" => p.dns

validateNetworkFirewallRollout(nt, nd) ==
    nt.rollout.phase # "stable" =>
        /\ nt.rollout.stage <= nt.revision
        /\ validateStoredFirewallPolicy(nt, nd, nt.rollout.target)
        /\ nt.rollout.target # nt.policy
        /\ nt.rollout.canaries # {}
        /\ nt.rollout.canaries \subseteq Active(nd)

validateStateGraph(nt, nd) ==
    /\ validateStoredFirewallPolicy(nt, nd, nt.policy)
    /\ nt.relays \subseteq {n \in Node : nd[n].status \in {"pending", "active"}}
    /\ validateNetworkFirewallRollout(nt, nd)

(***************************************************************************)
(* A change of the network nt that advances the revision, and a            *)
(* transaction that would leave the network nt and the nodes nd: it is     *)
(* written only when the revision is not exhausted and the graph is valid. *)
(***************************************************************************)
Advance(nt) == [nt EXCEPT !.revision = @ + 1]

Valid(nt, nd) == nt.revision <= MaxRevision /\ validateStateGraph(nt, nd)

Commit(nt, nd) == Valid(nt, nd) /\ net' = nt /\ node' = nd

(* Mutant: revocation forgets the canaries of a rollout. *)
WithoutCanaryForgotten(nt, n) == nt

(***************************************************************************)
(* The network after node n has left it: its relay and canary selections   *)
(* are removed, and a rollout that loses its last canary is withdrawn.     *)
(***************************************************************************)
WithoutRelay(nt, n) == [nt EXCEPT !.relays = @ \ {n}]

WithoutCanary(nt, n) ==
    IF nt.rollout.phase = "stable" \/ n \notin nt.rollout.canaries THEN nt
    ELSE IF nt.rollout.canaries = {n} THEN [nt EXCEPT !.rollout = NoRollout]
    ELSE [nt EXCEPT !.rollout.canaries = @ \ {n}]

Fingerprints(nd, n) == {n} \X (1..nd[n].gen)

RevokedNetwork(nt, nd, n) ==
    Advance(WithoutCanary(WithoutRelay([nt EXCEPT !.blocked = @ \cup Fingerprints(nd, n)], n), n))

RevokedNodes(nd, n) == [nd EXCEPT ![n].status = "revoked"]

(***************************************************************************)
(* The rules of policy p that name node n name node m instead, each where  *)
(* it stood.                                                               *)
(***************************************************************************)
replaceFirewallPolicyNodeReferences(p, n, m) ==
    [p EXCEPT !.peers = [i \in DOMAIN @ |-> IF @[i] = n THEN m ELSE @[i]]]

Blank == [status |-> "absent", gen |-> 0, rev |-> 0, cfg |-> None, up |-> FALSE, ack |-> 0]

ReplacedNetwork(nt, nd, n, m) ==
    [RevokedNetwork(nt, nd, n) EXCEPT !.policy = replaceFirewallPolicyNodeReferences(@, n, m)]

ReplacedNodes(nd, n, m) == [RevokedNodes(nd, n) EXCEPT ![m] = [Blank EXCEPT !.status = "pending"]]

-----------------------------------------------------------------------------
(***************************************************************************)
(* Initially the enrolled nodes have applied, and reported, the first      *)
(* revision, under a policy that names no node.                            *)
(***************************************************************************)
FirstPolicy == [peers |-> <<>>, dns |-> TRUE, effect |-> "runs"]

Idle == [rev |-> 0, cfg |-> None, gen |-> 0, up |-> FALSE, synced |-> FALSE,
         offer |-> None, beats |-> <<>>, report |-> None, failed |-> 0]

Init ==
    /\ net = [revision |-> 1, policy |-> FirstPolicy, rollout |-> NoRollout,
              dns |-> "off", relays |-> {}, blocked |-> {}]
    /\ LET enrolled == [n \in Node |-> IF n \in Enrolled
                                       THEN [Blank EXCEPT !.status = "active", !.gen = 1]
                                       ELSE Blank]
           config(n) == renderConfig(net, enrolled, n)
       IN /\ node = [n \in Node |-> IF n \notin Enrolled THEN Blank
                       ELSE [enrolled[n] EXCEPT !.rev = 1, !.cfg = config(n), !.up = TRUE, !.ack = 1]]
          /\ agent = [n \in Node |-> IF n \notin Enrolled THEN Idle
                       ELSE [Idle EXCEPT !.rev = 1, !.cfg = config(n), !.gen = 1, !.up = TRUE]]

-----------------------------------------------------------------------------
(***************************************************************************)
(* Node lifecycle.  Identifiers are random: none is drawn twice.           *)
(***************************************************************************)
Administers == net.revision < AdminRevision

createNode(n) ==
    /\ node[n].status = "absent"
    /\ Commit(net, [node EXCEPT ![n].status = "pending"])
    /\ UNCHANGED agent

cancelPendingNode(n) ==
    /\ Administers
    /\ node[n].status = "pending"
    /\ Commit(IF n \in net.relays THEN Advance(WithoutRelay(net, n)) ELSE net,
              [node EXCEPT ![n].status = "gone"])
    /\ UNCHANGED agent

(* Mutant: no enrollment advances the revision. *)
EnrollKeepsRevision(n) == FALSE

EnrollAdvances(n) == n \in Lighthouse

Enroll(n) ==
    /\ Administers
    /\ node[n].status = "pending"
    /\ LET nt == IF EnrollAdvances(n) THEN Advance(net) ELSE net
           nd == [node EXCEPT ![n].status = "active", ![n].gen = 1]
       IN /\ Commit(nt, nd)
          /\ agent' = [agent EXCEPT ![n].offer = signConfig(nt, nd, n, "bundle")]

revokeNode(n) ==
    /\ Administers
    /\ node[n].status \in {"pending", "active"}
    /\ Commit(RevokedNetwork(net, node, n), RevokedNodes(node, n))
    /\ UNCHANGED agent

replaceNode(n, m) ==
    /\ Administers
    /\ node[n].status = "active" /\ node[m].status = "absent"
    /\ (n \in Lighthouse) = (m \in Lighthouse)
    /\ net.rollout.phase = "stable"
    /\ Commit(ReplacedNetwork(net, node, n, m), ReplacedNodes(node, n, m))
    /\ UNCHANGED agent

StillReferenced(n) ==
    \/ n \in Referenced(net.policy)
    \/ net.rollout.phase # "stable" /\ n \in Referenced(net.rollout.target)

archiveNode(n) ==
    /\ Administers
    /\ node[n].status = "revoked"
    /\ ~StillReferenced(n)
    /\ Commit(IF node[n].gen > 0
              THEN Advance([net EXCEPT !.blocked = @ \ Fingerprints(node, n)]) ELSE net,
              [node EXCEPT ![n].status = "gone"])
    /\ UNCHANGED agent

(***************************************************************************)
(* A certificate reissued by the administrator: the previous one is        *)
(* blocklisted.                                                            *)
(***************************************************************************)
reissueCertificate(n) ==
    /\ Administers
    /\ node[n].status = "active" /\ node[n].gen < MaxGeneration
    /\ net.rollout.phase = "stable"
    /\ Commit(Advance([net EXCEPT !.blocked = @ \cup {<<n, node[n].gen>>}]),
              [node EXCEPT ![n].gen = @ + 1])
    /\ UNCHANGED agent

-----------------------------------------------------------------------------
(***************************************************************************)
(* Settings.  A request that changes nothing, or names another revision    *)
(* than the current one, changes nothing.                                  *)
(***************************************************************************)
updateFirewallPolicy(p) ==
    /\ Administers
    /\ Referenced(p) \subseteq Exists(node)
    /\ net.dns # "off" => p.dns
    /\ p # net.policy
    /\ net.rollout.phase = "stable"
    /\ Commit(Advance([net EXCEPT !.policy = p]), node)
    /\ UNCHANGED agent

updateNetworkDNS(d) ==
    /\ Administers
    /\ d # net.dns
    /\ net.rollout.phase = "stable"
    /\ d # "off" => net.policy.dns
    /\ Commit(Advance([net EXCEPT !.dns = d]), node)
    /\ UNCHANGED agent

updateNetworkRelays(R) ==
    /\ Administers
    /\ \A n \in R : node[n].status \in {"pending", "active"}
    /\ R # net.relays
    /\ net.rollout.phase = "stable"
    /\ Commit(Advance([net EXCEPT !.relays = R]), node)
    /\ UNCHANGED agent

-----------------------------------------------------------------------------
(***************************************************************************)
(* The rollout.                                                            *)
(***************************************************************************)
startRollout(p, C) ==
    /\ Administers
    /\ net.rollout.phase = "stable"
    /\ Referenced(p) \subseteq Exists(node)
    /\ p # net.policy
    /\ net.dns # "off" => p.dns
    /\ C \subseteq Active(node)
    /\ Commit(Advance([net EXCEPT !.rollout =
                  [phase |-> "canary", target |-> p, canaries |-> C, stage |-> net.revision + 1]]),
              node)
    /\ UNCHANGED agent

(* Mutant: any healthy report with the current certificate counts. *)
ConvergedOnAnyRevision(n) == node[n].ack = node[n].gen /\ node[n].up

firewallRolloutNodeConverged(n) ==
    /\ node[n].rev = net.revision
    /\ node[n].cfg = renderConfig(net, node, n)
    /\ node[n].ack = node[n].gen
    /\ node[n].up

promoteRollout ==
    /\ Administers
    /\ net.rollout.phase = "canary"
    /\ \A n \in net.rollout.canaries : firewallRolloutNodeConverged(n)
    /\ Commit(Advance([net EXCEPT !.policy = net.rollout.target, !.rollout = NoRollout]), node)
    /\ UNCHANGED agent

pauseRollout ==
    /\ Administers
    /\ net.rollout.phase = "canary"
    /\ Commit(Advance([net EXCEPT !.rollout.phase = "paused"]), node)
    /\ UNCHANGED agent

resumeRollout ==
    /\ Administers
    /\ net.rollout.phase = "paused"
    /\ Commit(Advance([net EXCEPT !.rollout.phase = "canary", !.rollout.stage = net.revision + 1]), node)
    /\ UNCHANGED agent

rollbackRollout ==
    /\ Administers
    /\ net.rollout.phase # "stable"
    /\ Commit(Advance([net EXCEPT !.rollout = NoRollout]), node)
    /\ UNCHANGED agent

-----------------------------------------------------------------------------
(***************************************************************************)
(* The agent's cycle: fetch the signed configuration, verify and activate  *)
(* it, then report a heartbeat.  A cycle that fails reports no heartbeat.  *)
(***************************************************************************)
GetConfig(n) ==
    /\ node[n].status = "active"
    /\ agent[n].offer = None /\ ~agent[n].synced
    /\ agent' = [agent EXCEPT ![n].offer = signConfig(net, node, n, "config")]
    /\ UNCHANGED <<net, node>>

(* Mutant: the revision that is installed already is refused. *)
VerifyNewerConfig(a, o) == o.rev > a.rev /\ o.gen >= a.gen

VerifySignedConfig(a, o) ==
    /\ o.rev >= a.rev
    /\ o.gen >= a.gen
    /\ o.rev = a.rev => o.cfg = a.cfg

(***************************************************************************)
(* A configuration fetched alone serves only the certificate the agent     *)
(* holds; for another one the agent fetches the complete bundle.           *)
(***************************************************************************)
NeedsBundle(a, o) == o.via = "config" /\ o.gen # a.gen

Refused(n, o) ==
    VerifySignedConfig(agent[n], o) => NeedsBundle(agent[n], o) /\ node[n].status # "active"

Refuse(n) ==
    /\ agent[n].offer # None
    /\ Refused(n, agent[n].offer)
    /\ agent' = [agent EXCEPT ![n].offer = None]
    /\ UNCHANGED <<net, node>>

Bootstrap(n) ==
    /\ agent[n].offer # None
    /\ VerifySignedConfig(agent[n], agent[n].offer)
    /\ NeedsBundle(agent[n], agent[n].offer)
    /\ node[n].status = "active"
    /\ agent' = [agent EXCEPT ![n].offer = signConfig(net, node, n, "bundle")]
    /\ UNCHANGED <<net, node>>

Evidence(o) == [rev |-> o.rev, cfg |-> o.cfg]

(***************************************************************************)
(* ParseNativeDNSPolicy refuses a policy without a resolver.               *)
(***************************************************************************)
ParsesNativeDNS(cfg) == cfg.native.on => cfg.native.resolvers # {}

(***************************************************************************)
(* The agent after activating offer o: when the native DNS policy cannot   *)
(* be applied the failure is reported and Nebula is stopped.               *)
(***************************************************************************)
Activated(a, o) ==
    LET on == [a EXCEPT !.rev = o.rev, !.cfg = o.cfg, !.gen = o.gen, !.offer = None]
    IN IF ParsesNativeDNS(o.cfg) THEN [on EXCEPT !.up = TRUE, !.synced = TRUE]
       ELSE [on EXCEPT !.up = FALSE, !.report = Evidence(o), !.failed = o.rev]

(* Mutant: the failure is not reported. *)
ActivationFailedSilently(a, o) == [a EXCEPT !.offer = None, !.failed = o.rev]

(***************************************************************************)
(* The agent after failing to activate offer o: the previous bundle runs   *)
(* again, and the failure of a configuration fetched alone is reported.    *)
(***************************************************************************)
ActivationFailed(a, o) ==
    [a EXCEPT !.offer = None, !.failed = o.rev,
              !.report = IF o.via = "config" THEN Evidence(o) ELSE @]

(***************************************************************************)
(* The configuration the agent holds is still the current one.             *)
(***************************************************************************)
Unchanged(a, o) ==
    IF ParsesNativeDNS(a.cfg) THEN [a EXCEPT !.offer = None, !.synced = TRUE]
    ELSE [a EXCEPT !.offer = None, !.up = FALSE, !.report = Evidence(o)]

Apply(n) ==
    /\ agent[n].offer # None
    /\ VerifySignedConfig(agent[n], agent[n].offer)
    /\ ~NeedsBundle(agent[n], agent[n].offer)
    /\ LET a == agent[n]
           o == agent[n].offer
       IN agent' = [agent EXCEPT ![n] =
              IF o.rev = a.rev /\ o.gen = a.gen THEN Unchanged(a, o)
              ELSE IF o.cfg.firewall.effect = "refused" THEN ActivationFailed(a, o)
              ELSE Activated(a, o)]
    /\ UNCHANGED <<net, node>>

RuntimeStops(n) ==
    /\ agent[n].up
    /\ agent[n].cfg.firewall.effect = "stops"
    /\ agent' = [agent EXCEPT ![n].up = FALSE,
                              ![n].failed = IF @ < agent[n].rev THEN agent[n].rev ELSE @]
    /\ UNCHANGED <<net, node>>

(***************************************************************************)
(* The agent renews its certificate with the bundle that comes back, or    *)
(* with none when the answer is lost.                                      *)
(***************************************************************************)
Renew(n) ==
    /\ node[n].status = "active" /\ node[n].gen < MaxGeneration
    /\ agent[n].synced
    /\ LET nd == [node EXCEPT ![n].gen = @ + 1]
       IN /\ Commit(net, nd)
          /\ \E answer \in {signConfig(net, nd, n, "bundle"), None} :
                agent' = [agent EXCEPT ![n].offer = answer, ![n].synced = FALSE]

(***************************************************************************)
(* A heartbeat is sent only for a runtime observed to be running, except   *)
(* by the agents that report a stopped one.  Beyond the bound the oldest   *)
(* one in flight is lost.                                                  *)
(***************************************************************************)
SendHeartbeat(n) ==
    /\ agent[n].synced
    /\ LET a == agent[n]
           beat == [rev |-> a.rev, cfg |-> a.cfg, gen |-> a.gen, up |-> a.up]
           room == IF Len(a.beats) < MaxHeartbeats THEN a.beats ELSE Tail(a.beats)
       IN agent' = [agent EXCEPT ![n].synced = FALSE,
                        ![n].beats = IF a.up \/ n \in StopReporter THEN Append(room, beat) ELSE @]
    /\ UNCHANGED <<net, node>>

-----------------------------------------------------------------------------
(***************************************************************************)
(* What arrives at the control plane.  The heartbeat sequence number makes *)
(* an accepted heartbeat the last of those sent before it.                 *)
(***************************************************************************)
SelectedCanary(n) == net.rollout.phase = "canary" /\ n \in net.rollout.canaries

AcceptableHeartbeat(n, b) ==
    /\ node[n].status = "active"
    /\ b.rev <= net.revision /\ b.rev >= node[n].rev
    /\ b.gen <= node[n].gen /\ b.gen >= node[n].ack
    /\ b.rev = net.revision =>
           /\ b.cfg = renderConfig(net, node, n)
           /\ b.gen = node[n].gen
           /\ b.up \/ SelectedCanary(n)

RuntimeStopped(b) == b.rev = net.revision /\ ~b.up

autoRollbackFirewallRollout(nt) == Advance([nt EXCEPT !.rollout = NoRollout])

Heartbeat(n, i) ==
    LET b == agent[n].beats[i]
    IN /\ AcceptableHeartbeat(n, b)
       /\ Commit(IF RuntimeStopped(b) THEN autoRollbackFirewallRollout(net) ELSE net,
                 [node EXCEPT ![n].rev = b.rev, ![n].cfg = b.cfg, ![n].up = b.up, ![n].ack = b.gen])
       /\ agent' = [agent EXCEPT ![n].beats = SubSeq(@, i + 1, Len(@))]

LoseHeartbeat(n, i) ==
    /\ agent' = [agent EXCEPT ![n].beats = SubSeq(@, 1, i - 1) \o SubSeq(@, i + 1, Len(@))]
    /\ UNCHANGED <<net, node>>

(* Mutant: the report's revision is not compared. *)
FailureOfSameConfig(n, r) == r.cfg = renderConfig(net, node, n)

CurrentFailure(n, r) ==
    /\ r.rev = net.revision
    /\ r.cfg = renderConfig(net, node, n)

ReportConfigApplyFailure(n) ==
    /\ agent[n].report # None
    /\ node[n].status = "active"
    /\ CurrentFailure(n, agent[n].report)
    /\ SelectedCanary(n)
    /\ Commit(autoRollbackFirewallRollout(net), node)
    /\ agent' = [agent EXCEPT ![n].report = None]

LoseReport(n) ==
    /\ agent[n].report # None
    /\ agent' = [agent EXCEPT ![n].report = None]
    /\ UNCHANGED <<net, node>>

-----------------------------------------------------------------------------
(* Nodes come and go before they are ever active.                          *)
Membership ==
    \/ \E n \in Node : createNode(n) \/ cancelPendingNode(n) \/ Enroll(n)
    \/ \E n, m \in Node : replaceNode(n, m)

(* Network settings that enter every configuration.                        *)
Settings ==
    \/ \E d \in DNSMode : updateNetworkDNS(d)
    \/ \E R \in SUBSET RelayCandidate : updateNetworkRelays(R)

(* Policies, their rollouts, and the members these are about.              *)
Policies ==
    \/ \E n \in Node : revokeNode(n) \/ archiveNode(n) \/ reissueCertificate(n)
    \/ \E p \in Policy : updateFirewallPolicy(p)
    \/ \E p \in Policy : \E C \in SUBSET Node \ {{}} : startRollout(p, C)
    \/ promoteRollout \/ pauseRollout \/ resumeRollout \/ rollbackRollout

Agents ==
    \E n \in Node :
        \/ GetConfig(n) \/ Refuse(n) \/ Bootstrap(n) \/ Apply(n)
        \/ RuntimeStops(n) \/ Renew(n) \/ SendHeartbeat(n)

Arrivals ==
    \E n \in Node :
        \/ \E i \in DOMAIN agent[n].beats : Heartbeat(n, i) \/ LoseHeartbeat(n, i)
        \/ ReportConfigApplyFailure(n) \/ LoseReport(n)

Next == Membership \/ Settings \/ Policies \/ Agents \/ Arrivals

Spec == Init /\ [][Next]_vars

(***************************************************************************)
(* An agent runs its cycle for ever, each step of it included, and a       *)
(* request it repeats without end arrives at last.                         *)
(***************************************************************************)
Fairness ==
    \A n \in Node :
        /\ WF_vars(GetConfig(n)) /\ WF_vars(Refuse(n)) /\ WF_vars(Bootstrap(n))
        /\ WF_vars(Apply(n)) /\ WF_vars(SendHeartbeat(n)) /\ WF_vars(RuntimeStops(n))
        /\ SF_vars(\E i \in DOMAIN agent[n].beats : Heartbeat(n, i))
        /\ SF_vars(ReportConfigApplyFailure(n))

-----------------------------------------------------------------------------
(***************************************************************************)
(* Types: the document holds a status, a generation and an acknowledged    *)
(* revision per node, an agent at most one artifact and one report.        *)
(***************************************************************************)
TypeOK ==
    /\ net.revision \in 1..MaxRevision
    /\ net.rollout.phase \in {"stable", "canary", "paused"}
    /\ net.dns \in DNSMode \cup {"off"}
    /\ net.relays \subseteq Node
    /\ \A n \in Node :
           /\ node[n].status \in {"absent", "pending", "active", "revoked", "gone"}
           /\ node[n].ack <= node[n].gen /\ node[n].gen <= MaxGeneration
           /\ node[n].rev <= agent[n].rev /\ agent[n].rev <= net.revision
           /\ agent[n].gen <= node[n].gen
           /\ Len(agent[n].beats) <= MaxHeartbeats

(***************************************************************************)
(* What was signed for an active node under the current revision is what   *)
(* the control plane renders for it now: whatever the administrator        *)
(* changed, on whichever node, the revision was advanced when it changed   *)
(* anybody's configuration.  Otherwise the agent that applied the first    *)
(* artifact refuses the second for ever (ErrConfigEquivocation).           *)
(***************************************************************************)
SignedOncePerRevision ==
    /\ TypeOK
    /\ \A n \in Active(node) : \A o \in {agent[n], agent[n].offer} :
           o.rev = net.revision => o.cfg = renderConfig(net, node, n)

(***************************************************************************)
(* revokeNode is never refused for what the document says elsewhere: no    *)
(* rollout, relay selection, DNS setting or firewall rule in force makes   *)
(* the document without the node invalid, so a compromised node can be     *)
(* shut out at once.                                                       *)
(***************************************************************************)
RevocationNeverRefused ==
    \A n \in Node :
        (node[n].status \in {"pending", "active"} /\ net.revision < MaxRevision)
        => Valid(RevokedNetwork(net, node, n), RevokedNodes(node, n))

(***************************************************************************)
(* A rollout is promoted only when the agent of every canary, not only its *)
(* record, holds the current artifact with the current certificate: stale  *)
(* heartbeats of an earlier stage, of a rollout withdrawn in between or of *)
(* another certificate do not count.                                       *)
(***************************************************************************)
PromotionProven ==
    [][promoteRollout => \A n \in net.rollout.canaries :
          /\ agent[n].rev = net.revision
          /\ agent[n].cfg = renderConfig(net, node, n)
          /\ agent[n].gen = node[n].gen]_vars

(***************************************************************************)
(* A rollout is withdrawn automatically only when a canary failed with the *)
(* very artifact now in force: a report or heartbeat that was delayed past *)
(* a pause, a resumption or the start of another rollout has no effect     *)
(* ("stale reports ... cannot trigger rollback").                          *)
(***************************************************************************)
RollbackEvidence ==
    [][\A n \in Node :
          (/\ net' # net
           /\ \/ ReportConfigApplyFailure(n)
              \/ \E i \in DOMAIN agent[n].beats : Heartbeat(n, i))
          => n \in net.rollout.canaries /\ agent[n].failed = net.revision]_vars

(***************************************************************************)
(* A rollout whose target the canaries cannot run does not stay: some      *)
(* canary's evidence arrives and the retained policy is restored, unless   *)
(* the administrator ends the canary phase before, or a certificate is     *)
(* renewed (the failure of a complete bundle is not reported).             *)
(***************************************************************************)
CannotRun(p) == p.effect # "runs"

Withdrawn ==
    (net.rollout.phase = "canary" /\ CannotRun(net.rollout.target))
        ~> (net.rollout.phase # "canary" \/ \E n \in Node : node[n].gen > 1)

(***************************************************************************)
(* Every active node whose policy can run comes to run, and to have        *)
(* reported, exactly what the control plane desires for it: no sequence of *)
(* changes, refusals, lost heartbeats and withdrawn rollouts leaves an     *)
(* agent behind for good.                                                  *)
(***************************************************************************)
Converged(n) ==
    (node[n].status = "active" /\ ~CannotRun(firewallPolicyForNode(net, n)))
    => /\ agent[n].rev = net.revision
       /\ node[n].rev = net.revision
       /\ node[n].cfg = renderConfig(net, node, n)
       /\ node[n].up

Deployed == \A n \in Node : []<>Converged(n)
=============================================================================
