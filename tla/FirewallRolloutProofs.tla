----------------------- MODULE FirewallRolloutProofs -----------------------
(***************************************************************************)
(* The safety of FirewallRollout for any nodes, policies and bounds: what  *)
(* a revision stands for, that revocation is never refused, and on what    *)
(* evidence a rollout is promoted or withdrawn.                            *)
(***************************************************************************)
EXTENDS FirewallRollout, TLAPS

PolicyRecords == [peers : Seq(Node), dns : BOOLEAN, effect : Effect]
Certificates == Node \X Nat
Configs ==
    [native : [on : BOOLEAN, resolvers : SUBSET Node],
     blocklist : SUBSET Certificates,
     lighthouses : SUBSET Node,
     servesDNS : BOOLEAN,
     relay : [on : BOOLEAN, amRelay : BOOLEAN, relays : SUBSET Node],
     firewall : [peers : SUBSET Node, dns : BOOLEAN, effect : Effect]]
Stages == [phase : {"canary", "paused"}, target : PolicyRecords, canaries : SUBSET Node, stage : Nat]
Networks ==
    [revision : Nat, policy : PolicyRecords, rollout : Stages \cup {NoRollout},
     dns : {"off", "on", "native"}, relays : SUBSET Node, blocked : SUBSET Certificates]
Held == Configs \cup {None}
Statuses == {"absent", "pending", "active", "revoked", "gone"}
Records == [status : Statuses, gen : Nat, rev : Nat, cfg : Held, up : BOOLEAN, ack : Nat]
Artifacts == [rev : Nat \ {0}, cfg : Configs, gen : Nat, via : {"bundle", "config"}]
Beats == [rev : Nat, cfg : Held, gen : Nat, up : BOOLEAN]
Reports == [rev : Nat \ {0}, cfg : Configs]
Offers == Artifacts \cup {None}
Evidences == Reports \cup {None}
AgentStates ==
    [rev : Nat, cfg : Held, gen : Nat, up : BOOLEAN, synced : BOOLEAN,
     offer : Offers, beats : Seq(Beats), report : Evidences, failed : Nat]

Types ==
    /\ net \in Networks
    /\ node \in [Node -> Records]
    /\ agent \in [Node -> AgentStates]

(***************************************************************************)
(* The document: what validateStateGraph asks of every transaction, relays *)
(* the administrator could select, and a revision within its bound.        *)
(***************************************************************************)
DocumentInv ==
    /\ net.revision \in 1..MaxRevision
    /\ validateStateGraph(net, node)
    /\ net.relays \subseteq RelayCandidate
    /\ net.dns \in DNSMode \cup {"off"}

(***************************************************************************)
(* A record r and its agent a under revision v: the record trails the      *)
(* agent, the agent trails what was signed, and every trace of a failure   *)
(* or a stop is covered by the highest revision that failed.               *)
(***************************************************************************)
RecordInv(r, a) ==
    /\ r.ack <= a.gen /\ a.gen <= r.gen /\ r.gen <= MaxGeneration
    /\ r.rev <= a.rev
    /\ r.rev = a.rev => r.cfg = a.cfg
    /\ r.status = "absent" => r = Blank
    /\ r.status \in {"absent", "pending"} => a = Idle
    /\ a.offer # None => a.offer.gen <= r.gen

AgentInv(a, v) ==
    /\ a.rev <= v /\ a.failed <= v
    /\ ~a.up => a.rev <= a.failed
    /\ a.rev # 0 => a.cfg \in Configs /\ (ParsesNativeDNS(a.cfg) \/ a.rev <= a.failed)
    /\ a.offer # None => a.rev <= a.offer.rev /\ a.failed <= a.offer.rev /\ a.offer.rev <= v
    /\ a.report # None => a.report.rev <= a.failed
    /\ Len(a.beats) <= MaxHeartbeats
    /\ \A b \in Range(a.beats) :
         /\ b.rev <= a.rev /\ b.gen <= a.gen
         /\ b.rev = a.rev => b.cfg = a.cfg
         /\ ~b.up => b.rev <= a.failed

PairInv == \A n \in Node : RecordInv(node[n], agent[n]) /\ AgentInv(agent[n], net.revision)

RInv == Types /\ DocumentInv /\ PairInv

(***************************************************************************)
(* What was signed for n under the current revision is rendered for it now.*)
(***************************************************************************)
SignedInv ==
    \A n \in Node : node[n].status = "active" =>
        /\ agent[n].rev = net.revision => agent[n].cfg = renderConfig(net, node, n)
        /\ agent[n].offer.rev = net.revision => agent[n].offer.cfg = renderConfig(net, node, n)

-----------------------------------------------------------------------------
LEMMA Given ==
    /\ Lighthouse \subseteq Node /\ Enrolled \subseteq Node /\ RelayCandidate \subseteq Node
    /\ DNSMode \subseteq {"off", "on", "native"} /\ Policy \subseteq PolicyRecords
    /\ MaxRevision \in Nat /\ 1 <= MaxRevision /\ AdminRevision \in Nat /\ AdminRevision < MaxRevision
    /\ MaxGeneration \in Nat /\ 1 <= MaxGeneration /\ MaxHeartbeats \in Nat /\ 1 <= MaxHeartbeats
BY RolloutAssumption DEF RolloutAssumption, PolicyRecords

LEMMA NoneFacts ==
    /\ None.rev = 0 /\ None \notin Artifacts /\ None \notin Reports
    /\ NoRollout.phase = "stable" /\ NoRollout \notin Stages
<1>1. None.rev = 0 /\ NoRollout.phase = "stable"
  BY Zenon DEF None, NoRollout
<1>2. (\A o \in Artifacts : o.rev # 0) /\ (\A o \in Reports : o.rev # 0)
  BY Zenon DEF Artifacts, Reports
<1>3. \A o \in Stages : o.phase \in {"canary", "paused"}
  BY Zenon DEF Stages
<1>4. "stable" \notin {"canary", "paused"}
  OBVIOUS
<1> QED
  BY <1>1, <1>2, <1>3, <1>4, Zenon

LEMMA NetworkFields ==
    ASSUME NEW nt \in Networks
    PROVE  /\ nt.revision \in Nat /\ nt.policy \in PolicyRecords /\ nt.rollout \in Stages \cup {NoRollout}
           /\ nt.dns \in {"off", "on", "native"} /\ nt.relays \subseteq Node
           /\ nt.blocked \subseteq Certificates
           /\ nt.rollout.phase # "stable" => nt.rollout \in Stages
           /\ nt.rollout \in Stages =>
                /\ nt.rollout.target \in PolicyRecords /\ nt.rollout.canaries \subseteq Node
                /\ nt.rollout.stage \in Nat /\ nt.rollout.phase \in {"canary", "paused"}
<1>1. /\ nt.revision \in Nat /\ nt.policy \in PolicyRecords /\ nt.rollout \in Stages \cup {NoRollout}
      /\ nt.dns \in {"off", "on", "native"} /\ nt.relays \subseteq Node
      /\ nt.blocked \subseteq Certificates
  BY Zenon DEF Networks
<1>2. \A o \in Stages : /\ o.target \in PolicyRecords /\ o.canaries \subseteq Node
                        /\ o.stage \in Nat /\ o.phase \in {"canary", "paused"}
  BY Zenon DEF Stages
<1> QED
  BY <1>1, <1>2, NoneFacts, Zenon

\* What renderConfig gives and what is signed.
LEMMA Rendered ==
    ASSUME NEW nt \in Networks, NEW nd \in [Node -> Records], NEW n \in Node
    PROVE  /\ renderConfig(nt, nd, n) \in Configs
           /\ \A via \in {"bundle", "config"} :
                LET o == signConfig(nt, nd, n, via)
                IN  /\ o.rev = nt.revision /\ o.cfg = renderConfig(nt, nd, n) /\ o.gen = nd[n].gen
                    /\ nt.revision # 0 => o \in Artifacts /\ o # None
<1>1. firewallPolicyForNode(nt, n) \in PolicyRecords
  BY NetworkFields, Zenon DEF firewallPolicyForNode
<1>2. \A p \in PolicyRecords :
         compileFirewall(nd, p) \in [peers : SUBSET Node, dns : BOOLEAN, effect : Effect]
  <2> SUFFICES ASSUME NEW p \in PolicyRecords
               PROVE  compileFirewall(nd, p) \in [peers : SUBSET Node, dns : BOOLEAN, effect : Effect]
    BY Zenon
  <2>1. Referenced(p) \cap Exists(nd) \in SUBSET Node
    BY Zenon DEF Exists
  <2> QED
    BY <2>1 DEF compileFirewall, PolicyRecords
<1>3. Active(nd) \subseteq Node /\ Lighthouse \subseteq Node
  BY Given, Zenon DEF Active
<1>4. nativeDNSPolicy(nt, nd) \in [on : BOOLEAN, resolvers : SUBSET Node]
  BY <1>3 DEF nativeDNSPolicy
<1>5. relayBlock(nt, nd, n) \in [on : BOOLEAN, amRelay : BOOLEAN, relays : SUBSET Node]
  BY <1>3, NetworkFields DEF relayBlock, activeNetworkRelays
<1>6. renderConfig(nt, nd, n) \in Configs
  <2>1. compileFirewall(nd, firewallPolicyForNode(nt, n))
          \in [peers : SUBSET Node, dns : BOOLEAN, effect : Effect]
    BY <1>1, <1>2, Zenon
  <2>2. nt.blocked \in SUBSET Certificates /\ Active(nd) \cap Lighthouse \in SUBSET Node
    BY <1>3, NetworkFields, Zenon
  <2>3. (n \in Lighthouse /\ nt.dns # "off") \in BOOLEAN
    OBVIOUS
  <2> QED
    BY <1>4, <1>5, <2>1, <2>2, <2>3, Zenon DEF renderConfig, Configs
<1>7. ASSUME NEW via \in {"bundle", "config"}
      PROVE  LET o == signConfig(nt, nd, n, via)
             IN  /\ o.rev = nt.revision /\ o.cfg = renderConfig(nt, nd, n) /\ o.gen = nd[n].gen
                 /\ nt.revision # 0 => o \in Artifacts /\ o # None
  <2>1. nd[n].gen \in Nat /\ nt.revision \in Nat
    BY NetworkFields, Zenon DEF Records
  <2> DEFINE o == signConfig(nt, nd, n, via)
  <2>2. o.rev = nt.revision /\ o.cfg = renderConfig(nt, nd, n) /\ o.gen = nd[n].gen
    BY Zenon DEF signConfig
  <2>3. nt.revision # 0 => o \in Artifacts
    BY <1>6, <2>1, Zenon DEF signConfig, Artifacts
  <2> QED
    BY <2>2, <2>3, NoneFacts, Zenon
<1> QED
  BY <1>6, <1>7, Zenon

LEMMA AdvanceFacts ==
    ASSUME NEW nt \in Networks
    PROVE  /\ Advance(nt) \in Networks /\ Advance(nt).revision = nt.revision + 1
           /\ Advance(nt).policy = nt.policy /\ Advance(nt).rollout = nt.rollout
           /\ Advance(nt).dns = nt.dns /\ Advance(nt).relays = nt.relays
           /\ Advance(nt).blocked = nt.blocked
<1>1. nt.revision + 1 \in Nat
  BY NetworkFields
<1> QED
  BY <1>1, Zenon DEF Advance, Networks

LEMMA AgentFields ==
    ASSUME NEW a \in AgentStates
    PROVE  /\ a.rev \in Nat /\ a.gen \in Nat /\ a.failed \in Nat
           /\ a.cfg \in Held /\ a.up \in BOOLEAN /\ a.synced \in BOOLEAN
           /\ a.offer \in Offers /\ a.report \in Evidences
           /\ a.beats \in Seq(Beats)
           /\ a.offer.rev \in Nat
           /\ a.offer # None => /\ a.offer \in Artifacts /\ a.offer.rev # 0 /\ a.offer.gen \in Nat
                                /\ a.offer.cfg \in Configs
           /\ a.report # None => a.report.rev \in Nat
<1>1. /\ a.rev \in Nat /\ a.gen \in Nat /\ a.failed \in Nat
      /\ a.cfg \in Held /\ a.up \in BOOLEAN /\ a.synced \in BOOLEAN
      /\ a.offer \in Offers /\ a.report \in Evidences
      /\ a.beats \in Seq(Beats)
  BY Zenon DEF AgentStates
<1>2. \A o \in Artifacts : o.rev \in Nat /\ o.rev # 0 /\ o.gen \in Nat /\ o.cfg \in Configs
  BY Zenon DEF Artifacts
<1>3. \A o \in Reports : o.rev \in Nat
  BY Zenon DEF Reports
<1>4. 0 \in Nat
  OBVIOUS
<1> QED
  BY <1>1, <1>2, <1>3, <1>4, NoneFacts, Zenon DEF Offers, Evidences

LEMMA RecordFields ==
    ASSUME NEW r \in Records
    PROVE  /\ r.status \in Statuses /\ r.gen \in Nat /\ r.rev \in Nat /\ r.cfg \in Held
           /\ r.up \in BOOLEAN /\ r.ack \in Nat
BY Zenon DEF Records

\* A later revision only leaves an agent further behind.
LEMMA Later ==
    ASSUME NEW a \in AgentStates, NEW v \in Nat, NEW w \in Nat, v <= w, AgentInv(a, v)
    PROVE  AgentInv(a, w)
<1>1. /\ a.rev \in Nat /\ a.failed \in Nat /\ a.offer.rev \in Nat
  BY AgentFields, Zenon
<1>2. /\ a.rev <= v => a.rev <= w
      /\ a.failed <= v => a.failed <= w
      /\ a.offer.rev <= v => a.offer.rev <= w
  BY <1>1
<1> QED
  BY <1>2, Zenon DEF AgentInv

LEMMA InvFacts ==
    ASSUME RInv
    PROVE  /\ net \in Networks /\ node \in [Node -> Records] /\ agent \in [Node -> AgentStates]
           /\ net.revision \in Nat /\ 1 <= net.revision /\ net.revision <= MaxRevision
           /\ net.revision # 0
           /\ net.relays \subseteq RelayCandidate /\ net.dns \in DNSMode \cup {"off"}
           /\ validateStateGraph(net, node)
           /\ \A n \in Node : /\ node[n] \in Records /\ agent[n] \in AgentStates
                              /\ RecordInv(node[n], agent[n])
                              /\ AgentInv(agent[n], net.revision)
<1>1. Types /\ DocumentInv /\ PairInv
  BY Zenon DEF RInv
<1>2. net.revision \in Nat /\ 1 <= net.revision /\ net.revision <= MaxRevision /\ net.revision # 0
  BY <1>1, Given DEF DocumentInv
<1> QED
  BY <1>1, <1>2, Zenon DEF Types, DocumentInv, PairInv

\* A transaction, whatever it changes, that leaves records and agents in step.
LEMMA Written ==
    ASSUME RInv, NEW nt \in Networks, NEW nd \in [Node -> Records],
           1 <= nt.revision, nt.relays \subseteq RelayCandidate,
           nt.dns \in DNSMode \cup {"off"}, Commit(nt, nd),
           agent' \in [Node -> AgentStates],
           \A n \in Node : RecordInv(nd[n], agent'[n]) /\ AgentInv(agent'[n], nt.revision)
    PROVE  RInv'
<1>1. /\ net' = nt /\ node' = nd /\ validateStateGraph(nt, nd) /\ nt.revision <= MaxRevision
  BY Zenon DEF Commit, Valid
<1>2. nt.revision \in 1..MaxRevision
  BY <1>1, NetworkFields, Given
<1>3. Types'
  BY <1>1, Zenon DEF Types
<1>4. DocumentInv'
  BY <1>1, <1>2, Zenon DEF DocumentInv
<1>5. PairInv'
  BY <1>1, Zenon DEF PairInv
<1> QED
  BY <1>3, <1>4, <1>5, Zenon DEF RInv

\* An agent that trails the revision before this one holds nothing of this one.
LEMMA Unsigned ==
    ASSUME NEW a \in AgentStates, NEW v \in Nat, NEW w \in Nat, w = v + 1, AgentInv(a, v)
    PROVE  a.rev # w /\ a.offer.rev # w
<1>1. w # 0 /\ \A i \in Nat : i <= v => i # w
  OBVIOUS
<1>2. /\ a.rev \in Nat /\ a.offer.rev \in Nat /\ a.rev <= v
      /\ a.offer # None => a.offer.rev <= v
  BY AgentFields, Zenon DEF AgentInv
<1> QED
  BY <1>1, <1>2, NoneFacts, Zenon

\* One that advances the revision: nothing of the new revision has been signed yet.
LEMMA Advancing ==
    ASSUME RInv, NEW nt \in Networks, NEW nd \in [Node -> Records],
           nt.revision = net.revision + 1, nt.relays \subseteq RelayCandidate,
           nt.dns \in DNSMode \cup {"off"}, Commit(nt, nd),
           agent' \in [Node -> AgentStates],
           \A n \in Node : RecordInv(nd[n], agent'[n]) /\ AgentInv(agent'[n], net.revision)
    PROVE  RInv' /\ SignedInv'
<1>1. net' = nt /\ node' = nd
  BY Zenon DEF Commit
<1>2. /\ net.revision \in Nat /\ nt.revision \in Nat /\ net.revision <= nt.revision
      /\ 1 <= nt.revision
  BY InvFacts
<1>3. \A n \in Node : agent'[n] \in AgentStates /\ AgentInv(agent'[n], nt.revision)
  BY <1>2, Later, Zenon
<1>4. RInv'
  BY <1>2, <1>3, Written, Zenon
<1>5. \A n \in Node : agent'[n].rev # nt.revision /\ agent'[n].offer.rev # nt.revision
  BY <1>2, <1>3, Unsigned, Zenon
<1>6. SignedInv'
  BY <1>1, <1>5, Zenon DEF SignedInv
<1> QED
  BY <1>4, <1>6, Zenon

\* A step that leaves the network as it is.
LEMMA Steady ==
    ASSUME RInv, UNCHANGED net, node' \in [Node -> Records], validateStateGraph(net, node'),
           agent' \in [Node -> AgentStates],
           \A n \in Node : RecordInv(node'[n], agent'[n]) /\ AgentInv(agent'[n], net.revision)
    PROVE  RInv'
<1>1. RInv /\ net' = net
  BY Zenon
<1>2. Types'
  BY <1>1, Zenon DEF RInv, Types
<1>3. DocumentInv'
  BY <1>1, Zenon DEF RInv, DocumentInv
<1>4. PairInv'
  BY <1>1, Zenon DEF PairInv
<1> QED
  BY <1>2, <1>3, <1>4, Zenon DEF RInv

\* A step of one agent.
LEMMA OneAgent ==
    ASSUME RInv, UNCHANGED <<net, node>>, NEW n \in Node, NEW a \in AgentStates,
           agent' = [agent EXCEPT ![n] = a],
           RecordInv(node[n], a), AgentInv(a, net.revision),
           SignedInv /\ node[n].status = "active" =>
               /\ a.rev = net.revision => a.cfg = renderConfig(net, node, n)
               /\ a.offer.rev = net.revision => a.offer.cfg = renderConfig(net, node, n)
    PROVE  RInv' /\ (SignedInv => SignedInv')
<1>1. /\ agent' \in [Node -> AgentStates] /\ agent'[n] = a
      /\ \A m \in Node \ {n} : agent'[m] = agent[m]
  BY InvFacts, Zenon
<1>2. \A m \in Node : RecordInv(node[m], agent'[m]) /\ AgentInv(agent'[m], net.revision)
  BY <1>1, InvFacts, Zenon
<1>3. RInv'
  BY <1>1, <1>2, InvFacts, Steady, Zenon
<1>4. SignedInv => SignedInv'
  BY <1>1, Zenon DEF SignedInv
<1> QED
  BY <1>3, <1>4, Zenon

LEMMA Order ==
    \A i, j, k \in Nat : /\ i <= i
                         /\ i <= j /\ j <= k => i <= k
                         /\ i <= j /\ j <= i => i = j
OBVIOUS

\* Whoever has an offer, a runtime or a message under way was enrolled.
LEMMA Enlisted ==
    ASSUME RInv, NEW n \in Node,
           \/ agent[n].offer # None \/ agent[n].up \/ agent[n].synced
           \/ agent[n].report # None \/ agent[n].beats # <<>>
    PROVE  node[n].status \notin {"absent", "pending"}
<1>1. RecordInv(node[n], agent[n])
  BY InvFacts, Zenon
<1>2. /\ Idle.offer = None /\ ~Idle.up /\ ~Idle.synced /\ Idle.report = None /\ Idle.beats = <<>>
  BY Zenon DEF Idle
<1> QED
  BY <1>1, <1>2, Zenon DEF RecordInv

WithOffer(a, o, b) ==
    \/ b = [a EXCEPT !.offer = o]
    \/ b = [a EXCEPT !.offer = o, !.synced = FALSE]
    \/ b = [a EXCEPT !.offer = o, !.synced = TRUE]

Offered(a, o, b) ==
    /\ b \in AgentStates
    /\ b.rev = a.rev /\ b.cfg = a.cfg /\ b.gen = a.gen /\ b.up = a.up
    /\ b.offer = o /\ b.beats = a.beats /\ b.report = a.report /\ b.failed = a.failed

LEMMA OfferUpdate ==
    ASSUME NEW a \in AgentStates, NEW o \in Offers, NEW b, WithOffer(a, o, b)
    PROVE  Offered(a, o, b)
<1>1. CASE b = [a EXCEPT !.offer = o]
  BY <1>1, Zenon DEF AgentStates, Offered
<1>2. CASE b = [a EXCEPT !.offer = o, !.synced = FALSE]
  BY <1>2, Zenon DEF AgentStates, Offered
<1>3. CASE b = [a EXCEPT !.offer = o, !.synced = TRUE]
  BY <1>3, Zenon DEF AgentStates, Offered
<1> QED
  BY <1>1, <1>2, <1>3, Zenon DEF WithOffer

\* A new offer, of the current revision, or none.
LEMMA Offering ==
    ASSUME NEW r \in Records, NEW a \in AgentStates, NEW v \in Nat,
           RecordInv(r, a), AgentInv(a, v), r.status \notin {"absent", "pending"},
           NEW o \in Offers, o # None => o.rev = v /\ o.gen <= r.gen,
           NEW b, WithOffer(a, o, b)
    PROVE  b \in AgentStates /\ RecordInv(r, b) /\ AgentInv(b, v)
<1>1. Offered(a, o, b)
  BY OfferUpdate, Zenon
<1>2. v <= v
  OBVIOUS
<1>3. RecordInv(r, b)
  BY <1>1, Zenon DEF RecordInv, Offered
<1>4. AgentInv(b, v)
  BY <1>1, <1>2, Zenon DEF AgentInv, Offered
<1> QED
  BY <1>1, <1>3, <1>4, Zenon DEF Offered

LEMMA GetConfigStep ==
    ASSUME RInv, NEW n \in Node, GetConfig(n) \/ Bootstrap(n) \/ Refuse(n)
    PROVE  RInv' /\ (SignedInv => SignedInv')
<1>1. /\ node[n] \in Records /\ agent[n] \in AgentStates /\ net.revision \in Nat
      /\ RecordInv(node[n], agent[n]) /\ AgentInv(agent[n], net.revision)
      /\ net.revision # 0 /\ net \in Networks /\ node \in [Node -> Records]
  BY InvFacts, Zenon
<1>2. UNCHANGED <<net, node>> /\ node[n].status \notin {"absent", "pending"}
  <2>1. "active" \notin {"absent", "pending"}
    OBVIOUS
  <2> QED
    BY <2>1, Enlisted, Zenon DEF GetConfig, Bootstrap, Refuse
<1>3. PICK o \in Offers :
         /\ agent' = [agent EXCEPT ![n].offer = o]
         /\ o # None => o.rev = net.revision /\ o.gen = node[n].gen /\ o.cfg = renderConfig(net, node, n)
  <2>1. CASE Refuse(n)
    BY <2>1, Zenon DEF Refuse, Offers
  <2>2. ASSUME NEW via \in {"bundle", "config"}, agent' = [agent EXCEPT ![n].offer = signConfig(net, node, n, via)]
        PROVE  \E o \in Offers :
                 /\ agent' = [agent EXCEPT ![n].offer = o]
                 /\ o # None => /\ o.rev = net.revision /\ o.gen = node[n].gen
                                /\ o.cfg = renderConfig(net, node, n)
    <3>1. PICK o : o = signConfig(net, node, n, via)
      BY Zenon
    <3>2. /\ o \in Artifacts /\ o.rev = net.revision /\ o.gen = node[n].gen
          /\ o.cfg = renderConfig(net, node, n)
      BY <2>2, <3>1, <1>1, Rendered, Zenon
    <3> QED
      BY <2>2, <3>1, <3>2, Zenon DEF Offers
  <2> QED
    BY <2>1, <2>2, Zenon DEF GetConfig, Bootstrap
<1>4. PICK b : b = [agent[n] EXCEPT !.offer = o]
  BY Zenon
<1>5. agent' = [agent EXCEPT ![n] = b] /\ WithOffer(agent[n], o, b)
  BY <1>3, <1>4, Zenon DEF WithOffer
<1>6. node[n].gen <= node[n].gen
  BY <1>1, RecordFields, Order, Zenon
<1>7. b \in AgentStates /\ RecordInv(node[n], b) /\ AgentInv(b, net.revision)
  BY <1>1, <1>2, <1>3, <1>5, <1>6, Offering, Zenon
<1>8. Offered(agent[n], o, b)
  BY <1>1, <1>5, OfferUpdate, Zenon
<1>9. SignedInv /\ node[n].status = "active" =>
         /\ b.rev = net.revision => b.cfg = renderConfig(net, node, n)
         /\ b.offer.rev = net.revision => b.offer.cfg = renderConfig(net, node, n)
  BY <1>1, <1>3, <1>8, NoneFacts, Zenon DEF SignedInv, Offered
<1> QED
  BY <1>2, <1>5, <1>7, <1>9, OneAgent, Zenon

LEMMA EvidenceFacts ==
    ASSUME NEW o \in Artifacts
    PROVE  Evidence(o) \in Evidences /\ Evidence(o).rev = o.rev
BY Zenon DEF Evidence, Evidences, Reports, Artifacts

\* The three outcomes of applying offer o.
ActivatedAs(a, o, b) ==
    /\ b \in AgentStates
    /\ b.rev = o.rev /\ b.cfg = o.cfg /\ b.gen = o.gen /\ b.offer = None /\ b.beats = a.beats
    /\ \/ ParsesNativeDNS(o.cfg) /\ b.up /\ b.report = a.report /\ b.failed = a.failed
       \/ b.report = Evidence(o) /\ b.failed = o.rev

FailedAs(a, o, b) ==
    /\ b \in AgentStates
    /\ b.rev = a.rev /\ b.cfg = a.cfg /\ b.gen = a.gen /\ b.up = a.up
    /\ b.offer = None /\ b.beats = a.beats
    /\ b.failed = o.rev /\ (b.report = a.report \/ b.report = Evidence(o))

KeptAs(a, o, b) ==
    /\ b \in AgentStates
    /\ b.rev = a.rev /\ b.cfg = a.cfg /\ b.gen = a.gen
    /\ b.offer = None /\ b.beats = a.beats /\ b.failed = a.failed
    /\ \/ b.up = a.up /\ b.report = a.report
       \/ ~ParsesNativeDNS(a.cfg) /\ b.report = Evidence(o)

LEMMA ApplyUpdate ==
    ASSUME NEW a \in AgentStates, NEW o \in Artifacts
    PROVE  /\ ActivatedAs(a, o, Activated(a, o))
           /\ FailedAs(a, o, ActivationFailed(a, o))
           /\ KeptAs(a, o, Unchanged(a, o))
<1>1. /\ o.rev \in Nat /\ o.cfg \in Held /\ o.gen \in Nat /\ None \in Offers
      /\ Evidence(o) \in Evidences
  BY EvidenceFacts, Zenon DEF Artifacts, Held, Offers
<1>2. ActivatedAs(a, o, Activated(a, o))
  <2>1. PICK on : on = [a EXCEPT !.rev = o.rev, !.cfg = o.cfg, !.gen = o.gen, !.offer = None]
    BY Zenon
  <2>2. /\ on \in AgentStates /\ on.rev = o.rev /\ on.cfg = o.cfg /\ on.gen = o.gen
        /\ on.offer = None /\ on.beats = a.beats /\ on.report = a.report /\ on.failed = a.failed
    BY <1>1, <2>1, Zenon DEF AgentStates
  <2>3. CASE ParsesNativeDNS(o.cfg)
    <3>1. Activated(a, o) = [on EXCEPT !.up = TRUE, !.synced = TRUE]
      BY <2>1, <2>3, Zenon DEF Activated
    <3>2. PICK b : b = [on EXCEPT !.up = TRUE, !.synced = TRUE]
      BY Zenon
    <3>3. /\ b \in AgentStates /\ b.rev = on.rev /\ b.cfg = on.cfg /\ b.gen = on.gen /\ b.up
          /\ b.offer = on.offer /\ b.beats = on.beats /\ b.report = on.report
          /\ b.failed = on.failed
      BY <2>2, <3>2, Zenon DEF AgentStates
    <3> QED
      BY <2>2, <2>3, <3>1, <3>2, <3>3, Zenon DEF ActivatedAs
  <2>4. CASE ~ParsesNativeDNS(o.cfg)
    <3>1. Activated(a, o) = [on EXCEPT !.up = FALSE, !.report = Evidence(o), !.failed = o.rev]
      BY <2>1, <2>4, Zenon DEF Activated
    <3>2. PICK b : b = [on EXCEPT !.up = FALSE, !.report = Evidence(o), !.failed = o.rev]
      BY Zenon
    <3>3. /\ b \in AgentStates /\ b.rev = on.rev /\ b.cfg = on.cfg /\ b.gen = on.gen
          /\ b.offer = on.offer /\ b.beats = on.beats /\ b.report = Evidence(o)
          /\ b.failed = o.rev
      BY <1>1, <2>2, <3>2, Zenon DEF AgentStates
    <3> QED
      BY <2>2, <3>1, <3>2, <3>3, Zenon DEF ActivatedAs
  <2> QED
    BY <2>3, <2>4, Zenon
<1>3. FailedAs(a, o, ActivationFailed(a, o))
  <2>1. PICK report \in Evidences :
           /\ ActivationFailed(a, o) = [a EXCEPT !.offer = None, !.failed = o.rev, !.report = report]
           /\ report = a.report \/ report = Evidence(o)
    BY <1>1, AgentFields, Zenon DEF ActivationFailed
  <2>2. PICK b : b = [a EXCEPT !.offer = None, !.failed = o.rev, !.report = report]
    BY Zenon
  <2>3. /\ b \in AgentStates /\ b.rev = a.rev /\ b.cfg = a.cfg /\ b.gen = a.gen /\ b.up = a.up
        /\ b.offer = None /\ b.beats = a.beats /\ b.report = report /\ b.failed = o.rev
    BY <1>1, <2>2, Zenon DEF AgentStates
  <2> QED
    BY <2>1, <2>2, <2>3, Zenon DEF FailedAs
<1>4. KeptAs(a, o, Unchanged(a, o))
  <2>1. CASE ParsesNativeDNS(a.cfg)
    <3>1. WithOffer(a, None, Unchanged(a, o))
      BY <2>1, Zenon DEF Unchanged, WithOffer
    <3>2. Offered(a, None, Unchanged(a, o))
      BY <1>1, <3>1, OfferUpdate, Zenon
    <3> QED
      BY <3>2, Zenon DEF Offered, KeptAs
  <2>2. CASE ~ParsesNativeDNS(a.cfg)
    <3>1. Unchanged(a, o) = [a EXCEPT !.offer = None, !.up = FALSE, !.report = Evidence(o)]
      BY <2>2, Zenon DEF Unchanged
    <3>2. PICK b : b = [a EXCEPT !.offer = None, !.up = FALSE, !.report = Evidence(o)]
      BY Zenon
    <3>3. /\ b \in AgentStates /\ b.rev = a.rev /\ b.cfg = a.cfg /\ b.gen = a.gen
          /\ b.offer = None /\ b.beats = a.beats /\ b.report = Evidence(o) /\ b.failed = a.failed
      BY <1>1, <3>2, Zenon DEF AgentStates
    <3> QED
      BY <2>2, <3>1, <3>2, <3>3, Zenon DEF KeptAs
  <2> QED
    BY <2>1, <2>2, Zenon
<1> QED
  BY <1>2, <1>3, <1>4, Zenon

\* None of them loses the trace of a failure, and none brings back another configuration
\* under a revision that was installed.
LEMMA Applying ==
    ASSUME NEW r \in Records, NEW a \in AgentStates, NEW v \in Nat, NEW o, o = a.offer, o # None,
           RecordInv(r, a), AgentInv(a, v), r.status \notin {"absent", "pending"},
           VerifySignedConfig(a, o),
           NEW b, \/ ActivatedAs(a, o, b) \/ FailedAs(a, o, b)
                  \/ o.rev = a.rev /\ KeptAs(a, o, b)
    PROVE  RecordInv(r, b) /\ AgentInv(b, v)
<1>1. /\ a.rev \in Nat /\ a.gen \in Nat /\ a.failed \in Nat /\ o \in Artifacts
      /\ o.rev \in Nat /\ o.rev # 0 /\ o.gen \in Nat /\ o.cfg \in Configs
      /\ r.ack \in Nat /\ r.gen \in Nat /\ r.rev \in Nat
      /\ a.report # None => a.report.rev \in Nat
  BY AgentFields, RecordFields, Zenon
<1>2. /\ a.rev <= o.rev /\ a.gen <= o.gen /\ a.failed <= o.rev /\ o.rev <= v /\ o.gen <= r.gen
      /\ o.rev = a.rev => o.cfg = a.cfg
  <2>1. o.gen >= a.gen => a.gen <= o.gen
    BY <1>1
  <2> QED
    BY <2>1, Zenon DEF AgentInv, RecordInv, VerifySignedConfig
<1>3. Evidence(o).rev = o.rev
  BY <1>1, EvidenceFacts, Zenon
<1>4. \A e \in Range(a.beats) : e.rev \in Nat /\ e.gen \in Nat
  <2>1. \A e \in Range(a.beats) : e \in Beats
    BY AgentFields DEF Range
  <2> QED
    BY <2>1, Zenon DEF Beats
<1>5. CASE ActivatedAs(a, o, b)
  <2>1. RecordInv(r, b)
    <3>1. r.ack <= a.gen /\ r.rev <= a.rev
      BY Zenon DEF RecordInv
    <3>2. r.ack <= o.gen /\ r.rev <= o.rev /\ (r.rev = o.rev => r.rev = a.rev /\ o.rev = a.rev)
      BY <3>1, <1>1, <1>2
    <3> QED
      BY <1>2, <1>5, <3>2, Zenon DEF RecordInv, ActivatedAs
  <2>2. /\ b.rev <= v /\ b.failed <= v /\ o.rev <= o.rev
        /\ ~b.up => b.rev <= b.failed
        /\ a.failed <= b.failed
        /\ b.report # None => b.report.rev <= b.failed
    BY <1>1, <1>2, <1>3, <1>5, Order, ZenonT(40) DEF AgentInv, ActivatedAs
  <2>3. ASSUME NEW e \in Range(b.beats)
        PROVE  /\ e.rev <= b.rev /\ e.gen <= b.gen
               /\ e.rev = b.rev => e.cfg = b.cfg
               /\ ~e.up => e.rev <= b.failed
    <3>1. /\ e.rev \in Nat /\ e.gen \in Nat /\ e.rev <= a.rev /\ e.gen <= a.gen
          /\ e.rev = a.rev => e.cfg = a.cfg
          /\ ~e.up => e.rev <= a.failed
          /\ b.rev = o.rev /\ b.gen = o.gen /\ b.cfg = o.cfg
      BY <1>4, <1>5, <2>3, Zenon DEF AgentInv, ActivatedAs
    <3>2. b.failed \in Nat
      BY <1>1, <1>5, Zenon DEF ActivatedAs
    <3>3. /\ e.rev <= o.rev /\ e.gen <= o.gen
          /\ e.rev = o.rev => e.rev = a.rev /\ o.rev = a.rev
          /\ e.rev <= a.failed => e.rev <= b.failed
      BY <1>1, <1>2, <2>2, <3>1, <3>2
    <3> QED
      BY <1>2, <3>1, <3>3, Zenon
  <2>4. AgentInv(b, v)
    BY <1>1, <1>5, <2>2, <2>3, Zenon DEF AgentInv, ActivatedAs
  <2> QED
    BY <2>1, <2>4, Zenon
<1>6. CASE FailedAs(a, o, b)
  <2>1. RecordInv(r, b)
    BY <1>6, Zenon DEF RecordInv, FailedAs
  <2>a. /\ o.rev <= o.rev
        /\ \A i \in Nat : i <= a.failed => i <= o.rev
    BY <1>1, <1>2
  <2>2. /\ b.failed = o.rev /\ b.rev <= b.failed
        /\ b.report # None => b.report.rev <= b.failed
    <3>1. a.report # None => a.report.rev <= o.rev
      BY <1>1, <2>a, Zenon DEF AgentInv
    <3> QED
      BY <1>2, <1>3, <1>6, <2>a, <3>1, Zenon DEF FailedAs
  <2>3. \A e \in Range(b.beats) : ~e.up => e.rev <= b.failed
    <3>1. \A e \in Range(a.beats) : ~e.up => e.rev <= o.rev
      BY <1>4, <2>a, Zenon DEF AgentInv
    <3> QED
      BY <1>6, <3>1, Zenon DEF FailedAs
  <2>4. AgentInv(b, v)
    BY <1>2, <1>6, <2>2, <2>3, Zenon DEF AgentInv, FailedAs
  <2> QED
    BY <2>1, <2>4, Zenon
<1>7. CASE o.rev = a.rev /\ KeptAs(a, o, b)
  <2>1. RecordInv(r, b)
    BY <1>7, Zenon DEF RecordInv, KeptAs
  <2>2. /\ ~b.up => b.rev <= b.failed
        /\ b.report # None => b.report.rev <= b.failed
    BY <1>1, <1>3, <1>7, Zenon DEF AgentInv, KeptAs
  <2>4. AgentInv(b, v)
    BY <1>7, <2>2, Zenon DEF AgentInv, KeptAs
  <2> QED
    BY <2>1, <2>4, Zenon
<1> QED
  BY <1>5, <1>6, <1>7, Zenon

LEMMA ApplyStep ==
    ASSUME RInv, NEW n \in Node, Apply(n) PROVE RInv' /\ (SignedInv => SignedInv')
<1>1. /\ node[n] \in Records /\ agent[n] \in AgentStates /\ net.revision \in Nat
      /\ RecordInv(node[n], agent[n]) /\ AgentInv(agent[n], net.revision)
  BY InvFacts, Zenon
<1>2. PICK a : a = agent[n]
  BY Zenon
<1>3. PICK o : o = a.offer
  BY Zenon
<1>4. /\ UNCHANGED <<net, node>> /\ o # None /\ VerifySignedConfig(a, o)
  BY <1>2, <1>3, Zenon DEF Apply
<1>5. a \in AgentStates /\ o \in Artifacts /\ node[n].status \notin {"absent", "pending"}
  BY <1>1, <1>2, <1>3, <1>4, Enlisted, AgentFields, Zenon
<1>6. PICK b : /\ agent' = [agent EXCEPT ![n] = b]
               /\ \/ ActivatedAs(a, o, b) \/ FailedAs(a, o, b)
                  \/ o.rev = a.rev /\ KeptAs(a, o, b)
  <2>1. /\ ActivatedAs(a, o, Activated(a, o)) /\ FailedAs(a, o, ActivationFailed(a, o))
        /\ KeptAs(a, o, Unchanged(a, o))
    BY <1>5, ApplyUpdate, Zenon
  <2>2. \/ o.rev = a.rev /\ agent' = [agent EXCEPT ![n] = Unchanged(a, o)]
        \/ agent' = [agent EXCEPT ![n] = ActivationFailed(a, o)]
        \/ agent' = [agent EXCEPT ![n] = Activated(a, o)]
    BY <1>2, <1>3, Zenon DEF Apply
  <2> QED
    BY <2>1, <2>2, Zenon
<1>7. RecordInv(node[n], b) /\ AgentInv(b, net.revision)
  BY <1>1, <1>2, <1>3, <1>4, <1>5, <1>6, Applying, Zenon
<1>8. /\ b \in AgentStates /\ b.offer = None
      /\ \/ b.rev = a.rev /\ b.cfg = a.cfg
         \/ b.rev = o.rev /\ b.cfg = o.cfg
  <2>1. CASE ActivatedAs(a, o, b)
    BY <2>1, Zenon DEF ActivatedAs
  <2>2. CASE FailedAs(a, o, b)
    BY <2>2, Zenon DEF FailedAs
  <2>3. CASE KeptAs(a, o, b)
    BY <2>3, Zenon DEF KeptAs
  <2> QED
    BY <1>6, <2>1, <2>2, <2>3, Zenon
<1>9. None.rev # net.revision
  BY InvFacts, NoneFacts, Zenon
<1>10. SignedInv /\ node[n].status = "active" =>
         /\ b.rev = net.revision => b.cfg = renderConfig(net, node, n)
         /\ b.offer.rev = net.revision => b.offer.cfg = renderConfig(net, node, n)
  BY <1>2, <1>3, <1>8, <1>9, Zenon DEF SignedInv
<1> QED
  BY <1>4, <1>6, <1>7, <1>8, <1>10, OneAgent, Zenon

LEMMA Positions ==
    ASSUME NEW S, NEW s \in Seq(S) PROVE DOMAIN s = 1..Len(s)
OBVIOUS

LEMMA Joined ==
    ASSUME NEW S, NEW u \in Seq(S), NEW w \in Seq(S)
    PROVE  /\ u \o w \in Seq(S) /\ Len(u \o w) = Len(u) + Len(w)
           /\ \A k \in 1..Len(u \o w) : (u \o w)[k] = IF k <= Len(u) THEN u[k] ELSE w[k - Len(u)]
OBVIOUS

LEMMA Extended ==
    ASSUME NEW S, NEW u \in Seq(S), NEW e \in S
    PROVE  /\ Append(u, e) \in Seq(S) /\ Len(Append(u, e)) = Len(u) + 1
           /\ Append(u, e)[Len(u) + 1] = e /\ \A k \in 1..Len(u) : Append(u, e)[k] = u[k]
OBVIOUS

LEMMA Parts ==
    ASSUME NEW S, NEW s \in Seq(S), NEW i \in 1..Len(s)
    PROVE  /\ SubSeq(s, i + 1, Len(s)) \in Seq(S) /\ Len(SubSeq(s, i + 1, Len(s))) = Len(s) - i
           /\ \A k \in 1..(Len(s) - i) : SubSeq(s, i + 1, Len(s))[k] = s[k + i]
           /\ SubSeq(s, 1, i - 1) \in Seq(S) /\ Len(SubSeq(s, 1, i - 1)) = i - 1
           /\ \A k \in 1..(i - 1) : SubSeq(s, 1, i - 1)[k] = s[k]
<1>1. /\ SubSeq(s, i + 1, Len(s)) \in Seq(S) /\ Len(SubSeq(s, i + 1, Len(s))) = Len(s) - i
      /\ \A k \in 1..(Len(s) - i) : SubSeq(s, i + 1, Len(s))[k] = s[k + i]
  OBVIOUS
<1>2. CASE i = 1
  BY <1>1, <1>2
<1>3. CASE i # 1
  <2>1. 1 <= i - 1 /\ i - 1 <= Len(s) /\ i - 1 \in Nat
    BY <1>3
  <2> QED
    BY <1>1, <2>1
<1> QED
  BY <1>2, <1>3, Zenon

LEMMA Behind ==
    ASSUME NEW l \in Nat, NEW i \in 1..l, NEW k \in 1..(l - 1), ~(k <= i - 1)
    PROVE  k - (i - 1) \in 1..(l - i) /\ k - (i - 1) + i \in 1..l
OBVIOUS

\* Heartbeats under way are heartbeats that were sent.
LEMMA BeatsKept ==
    ASSUME NEW s \in Seq(Beats), NEW i \in DOMAIN s,
           NEW t, \/ t = SubSeq(s, i + 1, Len(s))
                  \/ t = SubSeq(s, 1, i - 1) \o SubSeq(s, i + 1, Len(s))
    PROVE  t \in Seq(Beats) /\ Len(t) <= Len(s) /\ Range(t) \subseteq Range(s)
<1>1. i \in 1..Len(s) /\ Len(s) \in Nat
  OBVIOUS
<1>a. PICK u, w : u = SubSeq(s, 1, i - 1) /\ w = SubSeq(s, i + 1, Len(s))
  BY Zenon
<1>2. /\ u \in Seq(Beats) /\ Len(u) = i - 1 /\ \A k \in 1..(i - 1) : u[k] = s[k]
      /\ w \in Seq(Beats) /\ Len(w) = Len(s) - i /\ \A k \in 1..(Len(s) - i) : w[k] = s[k + i]
  BY <1>1, <1>a, Parts, ZenonT(40)
<1>3. SUFFICES t \in Seq(Beats) /\ Len(t) <= Len(s) /\ \A k \in 1..Len(t) : \E j \in 1..Len(s) : t[k] = s[j]
  <2>1. t \in Seq(Beats) => DOMAIN t = 1..Len(t) /\ DOMAIN s = 1..Len(s)
    OBVIOUS
  <2> QED
    BY <2>1, Zenon DEF Range
<1>4. CASE t = w
  <2>1. /\ Len(s) - i <= Len(s)
        /\ \A k \in 1..(Len(s) - i) : k + i \in 1..Len(s)
    BY <1>1
  <2> QED
    BY <1>2, <1>4, <2>1, Zenon
<1>5. CASE t = u \o w
  <2>2. /\ t \in Seq(Beats) /\ Len(t) = Len(u) + Len(w)
        /\ \A k \in 1..Len(t) : t[k] = IF k <= Len(u) THEN u[k] ELSE w[k - Len(u)]
    BY <1>2, <1>5, Joined, Zenon
  <2>3. PICK l : l = Len(s)
    BY Zenon
  <2>4. Len(t) = l - 1 /\ Len(u) = i - 1 /\ i \in 1..l /\ l \in Nat
    <3>1. (i - 1) + (l - i) = l - 1
      BY <1>1, <2>3
    <3> QED
      BY <1>1, <1>2, <2>2, <2>3, <3>1, Zenon
  <2>5. ASSUME NEW k \in 1..(l - 1) PROVE \E j \in 1..l : t[k] = s[j]
    <3>1. CASE k <= i - 1
      <4>1. k \in 1..(i - 1) /\ k \in 1..l
        BY <2>4, <3>1
      <4> QED
        BY <1>2, <2>2, <2>4, <3>1, <4>1, Zenon
    <3>2. CASE ~(k <= i - 1)
      <4>1. k - (i - 1) \in 1..(l - i) /\ k - (i - 1) + i \in 1..l
        BY <2>4, <3>2, Behind, Zenon
      <4> QED
        BY <1>2, <2>2, <2>3, <2>4, <3>2, <4>1, Zenon
    <3> QED
      BY <3>1, <3>2, Zenon
  <2>6. l - 1 <= l
    BY <2>4
  <2> QED
    BY <2>2, <2>3, <2>4, <2>5, <2>6, Zenon
<1> QED
  BY <1>4, <1>5, <1>a, Zenon

LEMMA BeatsSent ==
    ASSUME NEW s \in Seq(Beats), Len(s) <= MaxHeartbeats, NEW e \in Beats,
           NEW u, u = IF Len(s) < MaxHeartbeats THEN s ELSE Tail(s)
    PROVE  /\ Append(u, e) \in Seq(Beats) /\ Len(Append(u, e)) <= MaxHeartbeats
           /\ Range(Append(u, e)) \subseteq Range(s) \cup {e}
<1>1. u \in Seq(Beats) /\ Len(u) < MaxHeartbeats /\ \A k \in 1..Len(u) : \E j \in 1..Len(s) : u[k] = s[j]
  <2>1. CASE Len(s) < MaxHeartbeats
    BY <2>1
  <2>2. CASE ~(Len(s) < MaxHeartbeats)
    <3>1. s # <<>> /\ Len(s) = MaxHeartbeats
      BY <2>2, Given
    <3>2. u \in Seq(Beats) /\ Len(u) = Len(s) - 1 /\ \A k \in 1..Len(u) : u[k] = s[k + 1]
      BY <2>2, <3>1
    <3>3. Len(u) < MaxHeartbeats /\ \A k \in 1..Len(u) : k + 1 \in 1..Len(s)
      BY <3>1, <3>2, Given
    <3> QED
      BY <3>2, <3>3
  <2> QED
    BY <2>1, <2>2
<1>2. PICK t : t = Append(u, e)
  BY Zenon
<1>3. /\ t \in Seq(Beats) /\ Len(t) = Len(u) + 1 /\ t[Len(u) + 1] = e
      /\ \A k \in 1..Len(u) : t[k] = u[k]
  <2>1. u \in Seq(Beats)
    BY <1>1
  <2> QED
    BY <1>2, <2>1, Extended
<1>4. DOMAIN t = 1..Len(t) /\ DOMAIN s = 1..Len(s)
  BY <1>3, Positions, Zenon
<1>5. Len(t) <= MaxHeartbeats
  BY <1>1, <1>3, Given
<1>6. ASSUME NEW k \in DOMAIN t PROVE t[k] = e \/ \E j \in DOMAIN s : t[k] = s[j]
  <2>1. k \in 1..Len(u) \/ k = Len(u) + 1
    BY <1>1, <1>3, <1>4
  <2> QED
    BY <1>1, <1>3, <1>4, <2>1, Zenon
<1>7. Range(t) \subseteq Range(s) \cup {e}
  BY <1>6 DEF Range
<1> QED
  BY <1>2, <1>3, <1>5, <1>7

\* An agent that differs from a in its runtime, its cycle or its messages only.
SameArtifact(a, b) ==
    /\ b \in AgentStates
    /\ b.rev = a.rev /\ b.cfg = a.cfg /\ b.gen = a.gen /\ b.offer = a.offer

LEMMA RuntimeStopsStep ==
    ASSUME RInv, NEW n \in Node, RuntimeStops(n) PROVE RInv' /\ (SignedInv => SignedInv')
<1>1. PICK a : a = agent[n]
  BY Zenon
<1>2. /\ node[n] \in Records /\ a \in AgentStates /\ net.revision \in Nat
      /\ RecordInv(node[n], a) /\ AgentInv(a, net.revision)
      /\ node[n].status \notin {"absent", "pending"} /\ UNCHANGED <<net, node>>
  BY <1>1, InvFacts, Enlisted, Zenon DEF RuntimeStops
<1>3. PICK f : f = IF a.failed < a.rev THEN a.rev ELSE a.failed
  BY Zenon
<1>4. /\ a.rev \in Nat /\ a.failed \in Nat /\ a.offer.rev \in Nat
      /\ a.report # None => a.report.rev \in Nat
  BY <1>2, AgentFields, Zenon
<1>5. f \in Nat /\ a.rev <= f /\ a.failed <= f /\ f \in {a.failed, a.rev}
  BY <1>3, <1>4
<1>6. PICK b : b = [a EXCEPT !.up = FALSE, !.failed = f]
  BY Zenon
<1>7. agent' = [agent EXCEPT ![n] = b]
  BY <1>1, <1>3, <1>6, Zenon DEF RuntimeStops
<1>8. /\ SameArtifact(a, b) /\ b.beats = a.beats /\ b.report = a.report /\ b.failed = f
  BY <1>2, <1>5, <1>6, Zenon DEF AgentStates, SameArtifact
<1>9. RecordInv(node[n], b)
  BY <1>2, <1>8, Zenon DEF RecordInv, SameArtifact
<1>10. \A e \in Range(a.beats) : e.rev \in Nat
  <2>1. \A e \in Range(a.beats) : e \in Beats
    BY <1>2, AgentFields DEF Range
  <2> QED
    BY <2>1, Zenon DEF Beats
<1>11. \A i \in Nat : i <= a.failed => i <= f
  BY <1>4, <1>5
<1>12. AgentInv(b, net.revision)
  BY <1>2, <1>4, <1>5, <1>8, <1>10, <1>11, Zenon DEF AgentInv, SameArtifact
<1>13. SignedInv /\ node[n].status = "active" =>
         /\ b.rev = net.revision => b.cfg = renderConfig(net, node, n)
         /\ b.offer.rev = net.revision => b.offer.cfg = renderConfig(net, node, n)
  BY <1>1, <1>8, Zenon DEF SignedInv, SameArtifact
<1> QED
  BY <1>2, <1>7, <1>8, <1>9, <1>12, <1>13, OneAgent, Zenon DEF SameArtifact

\* A change of what is under way, or of the progress of the cycle.
LEMMA Mailing ==
    ASSUME NEW r \in Records, NEW a \in AgentStates, NEW v \in Nat,
           RecordInv(r, a), AgentInv(a, v), r.status \notin {"absent", "pending"},
           NEW b, SameArtifact(a, b), b.up = a.up, b.failed = a.failed,
           b.report = a.report \/ b.report = None,
           Len(b.beats) <= MaxHeartbeats,
           \A e \in Range(b.beats) :
               \/ e \in Range(a.beats)
               \/ e.rev = a.rev /\ e.cfg = a.cfg /\ e.gen = a.gen /\ e.up = a.up
    PROVE  RecordInv(r, b) /\ AgentInv(b, v)
<1>1. RecordInv(r, b)
  BY Zenon DEF RecordInv, SameArtifact
<1>2. a.rev <= a.rev /\ a.gen <= a.gen
  BY AgentFields, Order, Zenon
<1>3. \A e \in Range(b.beats) :
         /\ e.rev <= a.rev /\ e.gen <= a.gen
         /\ e.rev = a.rev => e.cfg = a.cfg
         /\ ~e.up => e.rev <= a.failed
  BY <1>2, Zenon DEF AgentInv
<1>4. AgentInv(b, v)
  BY <1>3, Zenon DEF AgentInv, SameArtifact
<1> QED
  BY <1>1, <1>4, Zenon

LEMMA SendHeartbeatStep ==
    ASSUME RInv, NEW n \in Node, SendHeartbeat(n) PROVE RInv' /\ (SignedInv => SignedInv')
<1>1. PICK a : a = agent[n]
  BY Zenon
<1>2. /\ node[n] \in Records /\ a \in AgentStates /\ net.revision \in Nat
      /\ RecordInv(node[n], a) /\ AgentInv(a, net.revision)
      /\ node[n].status \notin {"absent", "pending"} /\ UNCHANGED <<net, node>>
  BY <1>1, InvFacts, Enlisted, Zenon DEF SendHeartbeat
<1>3. a.beats \in Seq(Beats) /\ Len(a.beats) <= MaxHeartbeats
  BY <1>2, AgentFields, Zenon DEF AgentInv
<1>4. PICK e, u : /\ e = [rev |-> a.rev, cfg |-> a.cfg, gen |-> a.gen, up |-> a.up]
                  /\ u = IF Len(a.beats) < MaxHeartbeats THEN a.beats ELSE Tail(a.beats)
  BY Zenon
<1>5. e \in Beats /\ e.rev = a.rev /\ e.cfg = a.cfg /\ e.gen = a.gen /\ e.up = a.up
  BY <1>2, <1>4, AgentFields, Zenon DEF Beats
<1>6. /\ Append(u, e) \in Seq(Beats) /\ Len(Append(u, e)) <= MaxHeartbeats
      /\ Range(Append(u, e)) \subseteq Range(a.beats) \cup {e}
  BY <1>3, <1>4, <1>5, BeatsSent, Zenon
<1>7. PICK s : s = IF a.up \/ n \in StopReporter THEN Append(u, e) ELSE a.beats
  BY Zenon
<1>8. s \in Seq(Beats) /\ Len(s) <= MaxHeartbeats /\ Range(s) \subseteq Range(a.beats) \cup {e}
  BY <1>3, <1>6, <1>7, Zenon
<1>9. PICK b : b = [a EXCEPT !.synced = FALSE, !.beats = s]
  BY Zenon
<1>10. agent' = [agent EXCEPT ![n] = b]
  BY <1>1, <1>4, <1>7, <1>9, Zenon DEF SendHeartbeat
<1>11. SameArtifact(a, b) /\ b.beats = s /\ b.up = a.up /\ b.report = a.report /\ b.failed = a.failed
  BY <1>2, <1>8, <1>9, Zenon DEF AgentStates, SameArtifact
<1>12. RecordInv(node[n], b) /\ AgentInv(b, net.revision)
  <2>1. \A d \in Range(b.beats) :
            \/ d \in Range(a.beats)
            \/ d.rev = a.rev /\ d.cfg = a.cfg /\ d.gen = a.gen /\ d.up = a.up
    BY <1>5, <1>8, <1>11, Zenon
  <2> QED
    BY <1>2, <1>8, <1>11, <2>1, Mailing, Zenon
<1>13. SignedInv /\ node[n].status = "active" =>
         /\ b.rev = net.revision => b.cfg = renderConfig(net, node, n)
         /\ b.offer.rev = net.revision => b.offer.cfg = renderConfig(net, node, n)
  BY <1>1, <1>11, Zenon DEF SignedInv, SameArtifact
<1> QED
  BY <1>2, <1>10, <1>11, <1>12, <1>13, OneAgent, Zenon DEF SameArtifact

\* The agent without some of its heartbeats, or without its report.
Dropped(a, b) ==
    /\ SameArtifact(a, b) /\ b.up = a.up /\ b.failed = a.failed
    /\ b.report = a.report \/ b.report = None
    /\ b.beats \in Seq(Beats) /\ Len(b.beats) <= Len(a.beats) /\ Range(b.beats) \subseteq Range(a.beats)

LEMMA Dropping ==
    ASSUME NEW r \in Records, NEW a \in AgentStates, NEW v \in Nat,
           RecordInv(r, a), AgentInv(a, v), r.status \notin {"absent", "pending"},
           NEW b, Dropped(a, b)
    PROVE  b \in AgentStates /\ RecordInv(r, b) /\ AgentInv(b, v)
<1>1. b \in AgentStates /\ Len(b.beats) <= Len(a.beats) /\ Len(a.beats) <= MaxHeartbeats
  BY Zenon DEF Dropped, SameArtifact, AgentInv
<1>2. Len(b.beats) <= MaxHeartbeats
  <2>1. Len(b.beats) \in Nat /\ Len(a.beats) \in Nat
    <3>1. b.beats \in Seq(Beats) /\ a.beats \in Seq(Beats)
      BY <1>1, AgentFields, Zenon
    <3> QED
      BY <3>1
  <2> QED
    BY <1>1, <2>1, Given
<1>3. \A e \in Range(b.beats) : e \in Range(a.beats)
  BY Zenon DEF Dropped
<1> QED
  BY <1>1, <1>2, <1>3, Mailing, Zenon DEF Dropped

LEMMA DropUpdate ==
    ASSUME NEW a \in AgentStates, NEW i \in DOMAIN a.beats
    PROVE  /\ Dropped(a, [a EXCEPT !.beats = SubSeq(@, i + 1, Len(@))])
           /\ Dropped(a, [a EXCEPT !.beats = SubSeq(@, 1, i - 1) \o SubSeq(@, i + 1, Len(@))])
<1>1. a.beats \in Seq(Beats)
  BY AgentFields, Zenon
<1>2. ASSUME NEW t, \/ t = SubSeq(a.beats, i + 1, Len(a.beats))
                    \/ t = SubSeq(a.beats, 1, i - 1) \o SubSeq(a.beats, i + 1, Len(a.beats))
      PROVE  Dropped(a, [a EXCEPT !.beats = t])
  <2>1. t \in Seq(Beats) /\ Len(t) <= Len(a.beats) /\ Range(t) \subseteq Range(a.beats)
    BY <1>1, <1>2, BeatsKept, Zenon
  <2>2. PICK b : b = [a EXCEPT !.beats = t]
    BY Zenon
  <2>3. /\ SameArtifact(a, b) /\ b.up = a.up /\ b.failed = a.failed /\ b.report = a.report
        /\ b.beats = t
    BY <2>1, <2>2, Zenon DEF AgentStates, SameArtifact
  <2> QED
    BY <2>1, <2>2, <2>3, Zenon DEF Dropped
<1> QED
  BY <1>2, Zenon

LEMMA ReportDropped ==
    ASSUME NEW a \in AgentStates PROVE Dropped(a, [a EXCEPT !.report = None])
<1>1. None \in Evidences /\ a.beats \in Seq(Beats)
  BY AgentFields, Zenon DEF Evidences
<1>2. PICK b : b = [a EXCEPT !.report = None]
  BY Zenon
<1>3. /\ SameArtifact(a, b) /\ b.up = a.up /\ b.failed = a.failed /\ b.report = None
      /\ b.beats = a.beats
  BY <1>1, <1>2, Zenon DEF AgentStates, SameArtifact
<1>4. Len(a.beats) <= Len(a.beats)
  BY <1>1
<1> QED
  BY <1>1, <1>2, <1>3, <1>4, Zenon DEF Dropped

LEMMA LossStep ==
    ASSUME RInv, NEW n \in Node,
           LoseReport(n) \/ \E i \in DOMAIN agent[n].beats : LoseHeartbeat(n, i)
    PROVE  RInv' /\ (SignedInv => SignedInv')
<1>1. PICK a : a = agent[n]
  BY Zenon
<1>2. /\ node[n] \in Records /\ a \in AgentStates /\ net.revision \in Nat
      /\ RecordInv(node[n], a) /\ AgentInv(a, net.revision)
  BY <1>1, InvFacts, Zenon
<1>3. PICK b : agent' = [agent EXCEPT ![n] = b] /\ Dropped(a, b)
  <2>1. CASE LoseReport(n)
    BY <1>1, <1>2, <2>1, ReportDropped, Zenon DEF LoseReport
  <2>2. CASE \E i \in DOMAIN agent[n].beats : LoseHeartbeat(n, i)
    BY <1>1, <1>2, <2>2, DropUpdate, Zenon DEF LoseHeartbeat
  <2> QED
    BY <2>1, <2>2, Zenon
<1>4. UNCHANGED <<net, node>> /\ node[n].status \notin {"absent", "pending"}
  <2>1. (\E i \in DOMAIN a.beats : TRUE) => a.beats # <<>>
    OBVIOUS
  <2> QED
    BY <1>1, <2>1, Enlisted, Zenon DEF LoseReport, LoseHeartbeat
<1>5. b \in AgentStates /\ RecordInv(node[n], b) /\ AgentInv(b, net.revision)
  BY <1>2, <1>3, <1>4, Dropping, Zenon
<1>6. SignedInv /\ node[n].status = "active" =>
         /\ b.rev = net.revision => b.cfg = renderConfig(net, node, n)
         /\ b.offer.rev = net.revision => b.offer.cfg = renderConfig(net, node, n)
  BY <1>1, <1>3, Zenon DEF SignedInv, Dropped, SameArtifact
<1> QED
  BY <1>3, <1>4, <1>5, <1>6, OneAgent, Zenon

-----------------------------------------------------------------------------
\* The settings, the policies and their rollouts leave the nodes alone.
LEMMA NetworkStep ==
    ASSUME RInv, NEW nt \in Networks, nt.revision = net.revision,
           nt.relays \subseteq RelayCandidate, nt.dns \in DNSMode \cup {"off"},
           Commit(Advance(nt), node), UNCHANGED agent
    PROVE  RInv' /\ SignedInv'
<1>1. /\ Advance(nt) \in Networks /\ Advance(nt).revision = net.revision + 1
      /\ Advance(nt).relays = nt.relays /\ Advance(nt).dns = nt.dns
  BY AdvanceFacts, Zenon
<1> QED
  BY <1>1, InvFacts, Advancing, Zenon

LEMMA SettingsStep ==
    ASSUME RInv,
           \/ \E d \in DNSMode : updateNetworkDNS(d)
           \/ \E R \in SUBSET RelayCandidate : updateNetworkRelays(R)
           \/ \E p \in Policy : updateFirewallPolicy(p)
    PROVE  RInv' /\ SignedInv'
<1>1. /\ net \in Networks /\ net.relays \subseteq RelayCandidate /\ net.dns \in DNSMode \cup {"off"}
  BY InvFacts, Zenon
<1>2. ASSUME NEW d \in DNSMode, updateNetworkDNS(d) PROVE RInv' /\ SignedInv'
  <2>1. PICK nt : nt = [net EXCEPT !.dns = d]
    BY Zenon
  <2>2. d \in {"off", "on", "native"}
    BY Given, Zenon
  <2>3. nt \in Networks /\ nt.revision = net.revision /\ nt.relays = net.relays /\ nt.dns = d
    BY <1>1, <2>1, <2>2, Zenon DEF Networks
  <2>4. Commit(Advance(nt), node) /\ UNCHANGED agent
    BY <1>2, <2>1, Zenon DEF updateNetworkDNS
  <2> QED
    BY <1>1, <2>3, <2>4, NetworkStep, Zenon
<1>3. ASSUME NEW R \in SUBSET RelayCandidate, updateNetworkRelays(R) PROVE RInv' /\ SignedInv'
  <2>1. PICK nt : nt = [net EXCEPT !.relays = R]
    BY Zenon
  <2>2. R \in SUBSET Node
    BY Given, Zenon
  <2>3. nt \in Networks /\ nt.revision = net.revision /\ nt.relays = R /\ nt.dns = net.dns
    BY <1>1, <2>1, <2>2, Zenon DEF Networks
  <2>4. Commit(Advance(nt), node) /\ UNCHANGED agent
    BY <1>3, <2>1, Zenon DEF updateNetworkRelays
  <2> QED
    BY <1>1, <2>3, <2>4, NetworkStep, Zenon
<1>4. ASSUME NEW p \in Policy, updateFirewallPolicy(p) PROVE RInv' /\ SignedInv'
  <2>1. PICK nt : nt = [net EXCEPT !.policy = p]
    BY Zenon
  <2>2. p \in PolicyRecords
    BY Given, Zenon
  <2>3. nt \in Networks /\ nt.revision = net.revision /\ nt.relays = net.relays /\ nt.dns = net.dns
    BY <1>1, <2>1, <2>2, Zenon DEF Networks
  <2>4. Commit(Advance(nt), node) /\ UNCHANGED agent
    BY <1>4, <2>1, Zenon DEF updateFirewallPolicy
  <2> QED
    BY <1>1, <2>3, <2>4, NetworkStep, Zenon
<1> QED
  BY <1>2, <1>3, <1>4, Zenon

Rollouts == Stages \cup {NoRollout}

Restaged(nt, o, u) ==
    /\ u \in Networks /\ u.revision = nt.revision /\ u.relays = nt.relays
    /\ u.dns = nt.dns /\ u.policy = nt.policy /\ u.rollout = o /\ u.blocked = nt.blocked

LEMMA WithRollout ==
    ASSUME NEW nt \in Networks, NEW o \in Rollouts
    PROVE  Restaged(nt, o, [nt EXCEPT !.rollout = o])
BY Zenon DEF Networks, Rollouts, Restaged

LEMMA RolloutStep ==
    ASSUME RInv,
           \/ \E p \in Policy : \E C \in SUBSET Node \ {{}} : startRollout(p, C)
           \/ promoteRollout \/ pauseRollout \/ resumeRollout \/ rollbackRollout
    PROVE  RInv' /\ SignedInv'
<1>1. /\ net \in Networks /\ net.relays \subseteq RelayCandidate /\ net.dns \in DNSMode \cup {"off"}
      /\ net.revision \in Nat
  BY InvFacts, Zenon
<1>2. PICK p \in PolicyRecords, o \in Rollouts :
         /\ UNCHANGED agent
         /\ \/ Commit(Advance([net EXCEPT !.policy = p, !.rollout = o]), node)
            \/ Commit(Advance([net EXCEPT !.rollout = o]), node)
  <2>1. net.policy \in PolicyRecords /\ NoRollout.phase = "stable" /\ net.revision + 1 \in Nat
    BY <1>1, NetworkFields, NoneFacts
  <2>2. net.rollout.phase \in {"canary", "paused"} => net.rollout \in Stages
    BY <1>1, NetworkFields
  <2>3. ASSUME NEW p \in Policy, NEW C \in SUBSET Node, startRollout(p, C)
        PROVE  \E o \in Stages : UNCHANGED agent /\ Commit(Advance([net EXCEPT !.rollout = o]), node)
    <3>1. PICK o : o = [phase |-> "canary", target |-> p, canaries |-> C, stage |-> net.revision + 1]
      BY Zenon
    <3>2. o \in Stages
      BY <2>1, <3>1, Given, Zenon DEF Stages
    <3> QED
      BY <2>3, <3>1, <3>2, Zenon DEF startRollout
  <2>4. ASSUME pauseRollout \/ resumeRollout
        PROVE  \E o \in Stages : UNCHANGED agent /\ Commit(Advance([net EXCEPT !.rollout = o]), node)
    <3>1. net.rollout \in Stages
      BY <2>2, <2>4, Zenon DEF pauseRollout, resumeRollout
    <3>2. PICK o : o \in {[net.rollout EXCEPT !.phase = "paused"],
                          [net.rollout EXCEPT !.phase = "canary", !.stage = net.revision + 1]}
                   /\ UNCHANGED agent /\ Commit(Advance([net EXCEPT !.rollout = o]), node)
      <4>1. CASE pauseRollout
        <5>1. [net EXCEPT !.rollout.phase = "paused"]
                = [net EXCEPT !.rollout = [net.rollout EXCEPT !.phase = "paused"]]
          BY Zenon
        <5> QED
          BY <4>1, <5>1, Zenon DEF pauseRollout
      <4>2. CASE resumeRollout
        <5>1. [net EXCEPT !.rollout.phase = "canary", !.rollout.stage = net.revision + 1]
                = [net EXCEPT !.rollout = [net.rollout EXCEPT !.phase = "canary", !.stage = net.revision + 1]]
          BY Zenon
        <5> QED
          BY <4>2, <5>1, Zenon DEF resumeRollout
      <4> QED
        BY <2>4, <4>1, <4>2, Zenon
    <3>3. o \in Stages
      BY <2>1, <3>1, <3>2, Zenon DEF Stages
    <3> QED
      BY <3>2, <3>3, Zenon
  <2>5. ASSUME promoteRollout
        PROVE  /\ net.rollout.target \in PolicyRecords /\ UNCHANGED agent
               /\ Commit(Advance([net EXCEPT !.policy = net.rollout.target, !.rollout = NoRollout]), node)
    BY <1>1, <2>2, <2>5, NetworkFields, Zenon DEF promoteRollout
  <2>6. ASSUME rollbackRollout
        PROVE  UNCHANGED agent /\ Commit(Advance([net EXCEPT !.rollout = NoRollout]), node)
    BY <2>6, Zenon DEF rollbackRollout
  <2> QED
    BY <2>1, <2>3, <2>4, <2>5, <2>6, Zenon DEF Rollouts
<1>3. PICK t, u : t = [net EXCEPT !.policy = p, !.rollout = o] /\ u = [net EXCEPT !.rollout = o]
  BY Zenon
<1>4. /\ t \in Networks /\ t.revision = net.revision /\ t.relays = net.relays /\ t.dns = net.dns
      /\ u \in Networks /\ u.revision = net.revision /\ u.relays = net.relays /\ u.dns = net.dns
  <2>1. t \in Networks /\ t.revision = net.revision /\ t.relays = net.relays /\ t.dns = net.dns
    BY <1>1, <1>2, <1>3, Zenon DEF Networks, Rollouts
  <2>2. u \in Networks /\ u.revision = net.revision /\ u.relays = net.relays /\ u.dns = net.dns
    <3>1. Restaged(net, o, u)
      BY <1>1, <1>2, <1>3, WithRollout, Zenon
    <3> QED
      BY <3>1, Zenon DEF Restaged
  <2> QED
    BY <2>1, <2>2, Zenon
<1>5. CASE Commit(Advance(t), node)
  BY <1>1, <1>2, <1>4, <1>5, NetworkStep, Zenon
<1>6. CASE Commit(Advance(u), node)
  BY <1>1, <1>2, <1>4, <1>6, NetworkStep, Zenon
<1> QED
  BY <1>2, <1>3, <1>5, <1>6, Zenon

-----------------------------------------------------------------------------
\* What revokeNode writes.
WithoutTheCanary(nt, n, t) ==
    t.rollout.phase # "stable" =>
        /\ nt.rollout.phase # "stable"
        /\ t.rollout.target = nt.rollout.target /\ t.rollout.stage = nt.rollout.stage
        /\ t.rollout.canaries = nt.rollout.canaries \ {n}
        /\ t.rollout.canaries = {} => nt.rollout.canaries = {}

Left(nt, n, t) ==
    /\ t \in Networks /\ t.revision = nt.revision /\ t.relays = nt.relays
    /\ t.dns = nt.dns /\ t.policy = nt.policy /\ WithoutTheCanary(nt, n, t)

ShutOut(nt, n, t) ==
    /\ t \in Networks /\ t.revision = nt.revision + 1 /\ t.relays = nt.relays \ {n}
    /\ t.dns = nt.dns /\ t.policy = nt.policy /\ WithoutTheCanary(nt, n, t)

LEMMA CanaryLeaves ==
    ASSUME NEW nt \in Networks, NEW n \in Node PROVE Left(nt, n, WithoutCanary(nt, n))
<1>a. PICK t : t = WithoutCanary(nt, n)
  BY Zenon
<1>b. SUFFICES Left(nt, n, t)
  BY <1>a, Zenon
<1>1. CASE nt.rollout.phase = "stable" \/ n \notin nt.rollout.canaries
  <2>1. t = nt
    BY <1>1, <1>a, Zenon DEF WithoutCanary
  <2>2. n \notin nt.rollout.canaries => nt.rollout.canaries = nt.rollout.canaries \ {n}
    BY Zenon
  <2> QED
    BY <1>1, <2>1, <2>2, Zenon DEF Left, WithoutTheCanary
<1>2. CASE nt.rollout.phase # "stable" /\ n \in nt.rollout.canaries /\ nt.rollout.canaries = {n}
  <2>1. t = [nt EXCEPT !.rollout = NoRollout] /\ NoRollout \in Rollouts
    BY <1>2, <1>a, Zenon DEF WithoutCanary, Rollouts
  <2>2. Restaged(nt, NoRollout, t)
    BY <2>1, WithRollout, Zenon
  <2> QED
    BY <2>2, NoneFacts, Zenon DEF Restaged, Left, WithoutTheCanary
<1>3. CASE nt.rollout.phase # "stable" /\ n \in nt.rollout.canaries /\ nt.rollout.canaries # {n}
  <2>1. PICK o : o = [nt.rollout EXCEPT !.canaries = @ \ {n}]
    BY Zenon
  <2>2. nt.rollout \in Stages
    BY <1>3, NetworkFields, Zenon
  <2>3. /\ o \in Stages /\ o.target = nt.rollout.target /\ o.stage = nt.rollout.stage
        /\ o.canaries = nt.rollout.canaries \ {n}
    BY <2>1, <2>2, Zenon DEF Stages
  <2>4. o.canaries # {}
    BY <1>3, <2>3, Zenon
  <2>5. t = [nt EXCEPT !.rollout = o] /\ o \in Rollouts
    BY <1>3, <1>a, <2>1, <2>3, Zenon DEF WithoutCanary, Rollouts
  <2>6. Restaged(nt, o, t)
    BY <2>5, WithRollout, Zenon
  <2> QED
    BY <1>3, <2>3, <2>4, <2>6, Zenon DEF Restaged, Left, WithoutTheCanary
<1> QED
  BY <1>1, <1>2, <1>3, Zenon

LEMMA Revoking ==
    ASSUME NEW nt \in Networks, NEW nd \in [Node -> Records], NEW n \in Node
    PROVE  ShutOut(nt, n, RevokedNetwork(nt, nd, n))
<1>1. Fingerprints(nd, n) \subseteq Certificates
  <2>1. nd[n].gen \in Nat
    BY RecordFields, Zenon
  <2>2. 1..nd[n].gen \subseteq Nat
    BY <2>1
  <2> QED
    BY <2>2, Zenon DEF Fingerprints, Certificates
<1>2. PICK b : b = [nt EXCEPT !.blocked = @ \cup Fingerprints(nd, n)]
  BY Zenon
<1>3. /\ b \in Networks /\ b.revision = nt.revision /\ b.relays = nt.relays /\ b.dns = nt.dns
      /\ b.policy = nt.policy /\ b.rollout = nt.rollout
  BY <1>1, <1>2, Zenon DEF Networks
<1>4. PICK w : w = WithoutRelay(b, n)
  BY Zenon
<1>5. /\ w \in Networks /\ w.revision = nt.revision /\ w.relays = nt.relays \ {n} /\ w.dns = nt.dns
      /\ w.policy = nt.policy /\ w.rollout = nt.rollout
  BY <1>3, <1>4, Zenon DEF Networks, WithoutRelay
<1>6. PICK c : c = WithoutCanary(w, n)
  BY Zenon
<1>7. Left(w, n, c)
  BY <1>5, <1>6, CanaryLeaves, Zenon
<1>8. PICK t : t = RevokedNetwork(nt, nd, n)
  BY Zenon
<1>9. t = Advance(c) /\ c \in Networks
  BY <1>2, <1>4, <1>6, <1>7, <1>8, Zenon DEF RevokedNetwork, Left
<1>10. /\ t \in Networks /\ t.revision = c.revision + 1 /\ t.relays = c.relays /\ t.dns = c.dns
       /\ t.policy = c.policy /\ t.rollout = c.rollout
  BY <1>9, AdvanceFacts, Zenon
<1>11. ShutOut(nt, n, t)
  BY <1>5, <1>7, <1>10, Zenon DEF ShutOut, Left, WithoutTheCanary
<1> QED
  BY <1>8, <1>11, Zenon

\* No setting of a valid document stands in the way of a revocation.
LEMMA RevocationValid ==
    ASSUME RInv PROVE RevocationNeverRefused
<1> SUFFICES ASSUME NEW n \in Node, node[n].status \in {"pending", "active"}, net.revision < MaxRevision
             PROVE  Valid(RevokedNetwork(net, node, n), RevokedNodes(node, n))
  BY Zenon DEF RevocationNeverRefused
<1>1. PICK t, nd : t = RevokedNetwork(net, node, n) /\ nd = RevokedNodes(node, n)
  BY Zenon
<1>2. /\ net \in Networks /\ node \in [Node -> Records] /\ validateStateGraph(net, node)
      /\ net.revision \in Nat
  BY InvFacts, Zenon
<1>3. /\ t \in Networks /\ t.revision = net.revision + 1 /\ t.relays = net.relays \ {n}
      /\ t.dns = net.dns /\ t.policy = net.policy
      /\ t.rollout.phase # "stable" =>
           /\ net.rollout.phase # "stable"
           /\ t.rollout.target = net.rollout.target /\ t.rollout.stage = net.rollout.stage
           /\ t.rollout.canaries = net.rollout.canaries \ {n}
           /\ t.rollout.canaries = {} => net.rollout.canaries = {}
  <2>1. ShutOut(net, n, t)
    BY <1>1, <1>2, Revoking, Zenon
  <2> QED
    BY <2>1, Zenon DEF ShutOut, WithoutTheCanary
<1>4. nd[n].status = "revoked" /\ \A m \in Node \ {n} : nd[m] = node[m]
  BY <1>1, <1>2, Zenon DEF RevokedNodes, Records
<1>5. Exists(node) \subseteq Exists(nd)
  BY <1>4, Zenon DEF Exists
<1>6. t.relays \subseteq {m \in Node : nd[m].status \in {"pending", "active"}}
  BY <1>2, <1>3, <1>4, Zenon DEF validateStateGraph
<1>7. \A p : validateStoredFirewallPolicy(net, node, p) => validateStoredFirewallPolicy(t, nd, p)
  BY <1>3, <1>5, Zenon DEF validateStoredFirewallPolicy
<1>8. t.revision <= MaxRevision /\ (\A i \in Nat : i <= net.revision => i <= t.revision)
  BY <1>2, <1>3, Given
<1>9. ASSUME t.rollout.phase # "stable"
      PROVE  /\ t.rollout.stage <= t.revision
             /\ validateStoredFirewallPolicy(t, nd, t.rollout.target)
             /\ t.rollout.target # t.policy
             /\ t.rollout.canaries # {}
             /\ t.rollout.canaries \subseteq Active(nd)
  <2>1. /\ net.rollout.stage <= net.revision
        /\ validateStoredFirewallPolicy(net, node, net.rollout.target)
        /\ net.rollout.target # net.policy
        /\ net.rollout.canaries # {}
        /\ net.rollout.canaries \subseteq Active(node)
        /\ net.rollout.stage \in Nat
    BY <1>2, <1>3, <1>9, NetworkFields, Zenon DEF validateStateGraph, validateNetworkFirewallRollout
  <2>2. net.rollout.canaries \ {n} \subseteq Active(nd)
    BY <1>4, <2>1, Zenon DEF Active
  <2> QED
    BY <1>3, <1>7, <1>8, <1>9, <2>1, <2>2, Zenon
<1>10. validateStateGraph(t, nd)
  BY <1>2, <1>3, <1>6, <1>7, <1>9, Zenon DEF validateStateGraph, validateNetworkFirewallRollout
<1> QED
  BY <1>1, <1>8, <1>10, Zenon DEF Valid

-----------------------------------------------------------------------------
\* A record with another status, and with another certificate.
Restated(r, s, x) ==
    /\ x \in Records /\ x.status = s
    /\ x.gen = r.gen /\ x.rev = r.rev /\ x.cfg = r.cfg /\ x.up = r.up /\ x.ack = r.ack

Reissued(r, x) ==
    /\ x \in Records /\ x.gen = r.gen + 1
    /\ x.status = r.status /\ x.rev = r.rev /\ x.cfg = r.cfg /\ x.up = r.up /\ x.ack = r.ack

LEMMA RecordUpdate ==
    ASSUME NEW r \in Records
    PROVE  /\ \A s \in Statuses : Restated(r, s, [r EXCEPT !.status = s])
           /\ Reissued(r, [r EXCEPT !.gen = @ + 1])
<1>1. r.gen + 1 \in Nat
  BY RecordFields
<1>2. \A s \in Statuses : Restated(r, s, [r EXCEPT !.status = s])
  BY Zenon DEF Restated, Records
<1>3. Reissued(r, [r EXCEPT !.gen = @ + 1])
  BY <1>1, Zenon DEF Reissued, Records
<1> QED
  BY <1>2, <1>3, Zenon

LEMMA Restating ==
    ASSUME NEW r \in Records, NEW a, RecordInv(r, a),
           NEW s, s \notin {"absent", "pending"}, NEW x, Restated(r, s, x)
    PROVE  RecordInv(x, a)
<1>1. s # "absent" /\ s # "pending"
  BY Zenon
<1> QED
  BY <1>1, Zenon DEF RecordInv, Restated

LEMMA Reissuing ==
    ASSUME NEW r \in Records, NEW a \in AgentStates, RecordInv(r, a), r.status = "active",
           r.gen < MaxGeneration, NEW x, Reissued(r, x)
    PROVE  RecordInv(x, a)
<1>1. /\ r.gen \in Nat /\ a.gen \in Nat /\ r.ack <= a.gen /\ a.gen <= r.gen
      /\ a.offer # None => a.offer.gen <= r.gen /\ a.offer.gen \in Nat
  BY RecordFields, AgentFields, Zenon DEF RecordInv
<1>2. /\ a.gen <= r.gen + 1 /\ r.gen + 1 <= MaxGeneration
      /\ \A i \in Nat : i <= r.gen => i <= r.gen + 1
  BY <1>1, Given
<1>3. "active" # "absent" /\ "active" # "pending"
  OBVIOUS
<1> QED
  BY <1>1, <1>2, <1>3, Zenon DEF RecordInv, Reissued

\* One record changes and the revision advances.
LEMMA RecordStep ==
    ASSUME RInv, NEW nt \in Networks, nt.revision = net.revision + 1,
           nt.relays \subseteq RelayCandidate, nt.dns \in DNSMode \cup {"off"},
           NEW n \in Node, NEW x \in Records, RecordInv(x, agent[n]),
           Commit(nt, [node EXCEPT ![n] = x]), UNCHANGED agent
    PROVE  RInv' /\ SignedInv'
<1>1. PICK nd : nd = [node EXCEPT ![n] = x]
  BY Zenon
<1>2. /\ nd \in [Node -> Records] /\ nd[n] = x /\ \A m \in Node \ {n} : nd[m] = node[m]
  BY <1>1, InvFacts, Zenon
<1>3. \A m \in Node : RecordInv(nd[m], agent[m]) /\ AgentInv(agent[m], net.revision)
  BY <1>2, InvFacts, Zenon
<1>4. agent' = agent /\ agent' \in [Node -> AgentStates] /\ Commit(nt, nd)
  BY <1>1, InvFacts, Zenon
<1>5. \A m \in Node : RecordInv(nd[m], agent'[m]) /\ AgentInv(agent'[m], net.revision)
  BY <1>3, <1>4, Zenon
<1> QED
  BY <1>2, <1>4, <1>5, Advancing, Zenon

LEMMA RevokeStep ==
    ASSUME RInv, NEW n \in Node, revokeNode(n) PROVE RInv' /\ SignedInv'
<1>1. /\ net \in Networks /\ net.relays \subseteq RelayCandidate /\ net.dns \in DNSMode \cup {"off"}
      /\ node \in [Node -> Records] /\ node[n] \in Records /\ RecordInv(node[n], agent[n])
  BY InvFacts, Zenon
<1>2. PICK nt, x : nt = RevokedNetwork(net, node, n) /\ x = [node[n] EXCEPT !.status = "revoked"]
  BY Zenon
<1>3. ShutOut(net, n, nt)
  BY <1>1, <1>2, Revoking, Zenon
<1>4. /\ nt \in Networks /\ nt.revision = net.revision + 1 /\ nt.relays \subseteq RelayCandidate
      /\ nt.dns \in DNSMode \cup {"off"}
  BY <1>1, <1>3, Zenon DEF ShutOut
<1>5. "revoked" \in Statuses /\ "revoked" \notin {"absent", "pending"}
  BY DEF Statuses
<1>6. Restated(node[n], "revoked", x)
  BY <1>1, <1>2, <1>5, RecordUpdate, Zenon
<1>7. x \in Records /\ RecordInv(x, agent[n])
  BY <1>1, <1>5, <1>6, Restating, Zenon DEF Restated
<1>8. RevokedNodes(node, n) = [node EXCEPT ![n] = x]
  BY <1>2, Zenon DEF RevokedNodes
<1> QED
  BY <1>2, <1>4, <1>7, <1>8, RecordStep, Zenon DEF revokeNode

LEMMA ReissueStep ==
    ASSUME RInv, NEW n \in Node, reissueCertificate(n) PROVE RInv' /\ SignedInv'
<1>1. /\ net \in Networks /\ net.relays \subseteq RelayCandidate /\ net.dns \in DNSMode \cup {"off"}
      /\ node[n] \in Records /\ agent[n] \in AgentStates /\ RecordInv(node[n], agent[n])
      /\ node[n].gen \in Nat
  BY InvFacts, RecordFields, Zenon
<1>2. PICK b, x : /\ b = [net EXCEPT !.blocked = @ \cup {<<n, node[n].gen>>}]
                  /\ x = [node[n] EXCEPT !.gen = @ + 1]
  BY Zenon
<1>3. <<n, node[n].gen>> \in Certificates
  BY <1>1, Zenon DEF Certificates
<1>4. /\ b \in Networks /\ b.revision = net.revision /\ b.relays = net.relays /\ b.dns = net.dns
  BY <1>1, <1>2, <1>3, Zenon DEF Networks
<1>5. /\ Advance(b) \in Networks /\ Advance(b).revision = net.revision + 1
      /\ Advance(b).relays \subseteq RelayCandidate /\ Advance(b).dns \in DNSMode \cup {"off"}
  BY <1>1, <1>4, AdvanceFacts, Zenon
<1>6. Reissued(node[n], x)
  BY <1>1, <1>2, RecordUpdate, Zenon
<1>7. x \in Records /\ RecordInv(x, agent[n])
  BY <1>1, <1>6, Reissuing, Zenon DEF Reissued, reissueCertificate
<1>8. [node EXCEPT ![n].gen = @ + 1] = [node EXCEPT ![n] = x]
  BY <1>2, Zenon
<1>9. Commit(Advance(b), [node EXCEPT ![n] = x]) /\ UNCHANGED agent
  BY <1>2, <1>8, Zenon DEF reissueCertificate
<1> QED
  BY <1>5, <1>7, <1>9, RecordStep, Zenon

LEMMA Creating ==
    ASSUME NEW r \in Records, NEW a, RecordInv(r, a), r.status = "absent",
           NEW x, Restated(r, "pending", x)
    PROVE  RecordInv(x, a)
<1>1. "pending" # "absent"
  OBVIOUS
<1> QED
  BY <1>1, Zenon DEF RecordInv, Restated

LEMMA Redirecting ==
    ASSUME NEW p \in PolicyRecords, NEW n \in Node, NEW m \in Node
    PROVE  replaceFirewallPolicyNodeReferences(p, n, m) \in PolicyRecords
<1>1. PICK s : s = p.peers
  BY Zenon
<1>2. s \in Seq(Node)
  BY <1>1, Zenon DEF PolicyRecords
<1>3. PICK q : q = [i \in DOMAIN s |-> IF s[i] = n THEN m ELSE s[i]]
  BY Zenon
<1>4. q \in Seq(Node)
  <2>1. Len(s) \in Nat /\ DOMAIN s = 1..Len(s) /\ \A i \in 1..Len(s) : s[i] \in Node
    BY <1>2
  <2>2. q \in [1..Len(s) -> Node]
    BY <1>3, <2>1, Zenon
  <2> QED
    BY <2>1, <2>2
<1>5. replaceFirewallPolicyNodeReferences(p, n, m) = [p EXCEPT !.peers = q]
  BY <1>1, <1>3, Zenon DEF replaceFirewallPolicyNodeReferences
<1> QED
  BY <1>4, <1>5, Zenon DEF PolicyRecords

LEMMA ReplaceStep ==
    ASSUME RInv, NEW n \in Node, NEW m \in Node, replaceNode(n, m) PROVE RInv' /\ SignedInv'
<1>1. /\ net \in Networks /\ net.relays \subseteq RelayCandidate /\ net.dns \in DNSMode \cup {"off"}
      /\ node \in [Node -> Records] /\ \A k \in Node : node[k] \in Records /\ RecordInv(node[k], agent[k])
  BY InvFacts, Zenon
<1>2. /\ node[n].status = "active" /\ node[m].status = "absent" /\ agent' = agent
      /\ Commit(ReplacedNetwork(net, node, n, m), ReplacedNodes(node, n, m))
  BY Zenon DEF replaceNode
<1>3. n # m /\ "active" # "absent"
  <2>1. "active" # "absent"
    OBVIOUS
  <2> QED
    BY <1>2, <2>1, Zenon
<1>4. PICK t, nt : /\ t = RevokedNetwork(net, node, n) /\ nt = ReplacedNetwork(net, node, n, m)
  BY Zenon
<1>5. ShutOut(net, n, t)
  BY <1>1, <1>4, Revoking, Zenon
<1>6. /\ t \in Networks /\ t.revision = net.revision + 1 /\ t.relays \subseteq RelayCandidate
      /\ t.dns \in DNSMode \cup {"off"} /\ t.policy \in PolicyRecords
  BY <1>1, <1>5, NetworkFields, Zenon DEF ShutOut
<1>7. /\ nt \in Networks /\ nt.revision = net.revision + 1 /\ nt.relays \subseteq RelayCandidate
      /\ nt.dns \in DNSMode \cup {"off"}
  <2>1. PICK q \in PolicyRecords : q = replaceFirewallPolicyNodeReferences(t.policy, n, m)
    BY <1>6, Redirecting, Zenon
  <2>2. nt = [t EXCEPT !.policy = q]
    BY <1>4, <2>1, Zenon DEF ReplacedNetwork
  <2>3. nt \in Networks /\ nt.revision = t.revision /\ nt.relays = t.relays /\ nt.dns = t.dns
    BY <1>6, <2>2, Zenon DEF Networks
  <2> QED
    BY <1>6, <2>3, Zenon
<1>8. "revoked" \in Statuses /\ "revoked" \notin {"absent", "pending"} /\ "pending" \in Statuses
  BY DEF Statuses
<1>9. PICK x, y : x = [node[n] EXCEPT !.status = "revoked"] /\ y = [node[m] EXCEPT !.status = "pending"]
  BY Zenon
<1>10. Restated(node[n], "revoked", x) /\ Restated(node[m], "pending", y)
  BY <1>1, <1>8, <1>9, RecordUpdate, Zenon
<1>11. x \in Records /\ y \in Records
  BY <1>10, Zenon DEF Restated
<1>12. RecordInv(x, agent[n])
  BY <1>1, <1>8, <1>10, Restating, Zenon
<1>13. RecordInv(y, agent[m])
  BY <1>1, <1>2, <1>10, Creating, Zenon
<1>14. PICK nd : nd = ReplacedNodes(node, n, m)
  BY Zenon
<1>15. nd = [[node EXCEPT ![n] = x] EXCEPT ![m] = y]
  <2>1. node[m] = Blank
    BY <1>1, <1>2, Zenon DEF RecordInv
  <2>2. RevokedNodes(node, n) = [node EXCEPT ![n] = x]
    BY <1>9, Zenon DEF RevokedNodes
  <2> QED
    BY <1>9, <1>14, <2>1, <2>2, Zenon DEF ReplacedNodes
<1>16. /\ nd \in [Node -> Records] /\ nd[n] = x /\ nd[m] = y
       /\ \A k \in Node \ {n, m} : nd[k] = node[k]
  BY <1>1, <1>3, <1>11, <1>15, Zenon
<1>17. \A k \in Node : RecordInv(nd[k], agent[k])
  <2> SUFFICES ASSUME NEW k \in Node PROVE RecordInv(nd[k], agent[k])
    BY Zenon
  <2>1. CASE k = n
    BY <1>12, <1>16, <2>1, Zenon
  <2>2. CASE k = m
    BY <1>13, <1>16, <2>2, Zenon
  <2>3. CASE k \in Node \ {n, m}
    BY <1>1, <1>16, <2>3, Zenon
  <2> QED
    BY <2>1, <2>2, <2>3, Zenon
<1>18. /\ agent' \in [Node -> AgentStates]
       /\ \A k \in Node : RecordInv(nd[k], agent'[k]) /\ AgentInv(agent'[k], net.revision)
  BY <1>2, <1>17, InvFacts, Zenon
<1>19. Commit(nt, nd)
  BY <1>2, <1>4, <1>14, Zenon
<1> QED
  BY <1>7, <1>16, <1>18, <1>19, Advancing, Zenon

-----------------------------------------------------------------------------
\* What a change of the nodes alone leaves of every configuration.
LEMMA RenderSame ==
    ASSUME NEW nt, NEW nd, NEW md, NEW n \in Node,
           validateStateGraph(nt, nd), validateStateGraph(nt, md),
           Active(nd) \cap Lighthouse = Active(md) \cap Lighthouse,
           activeNetworkRelays(nt, nd) = activeNetworkRelays(nt, md)
    PROVE  renderConfig(nt, nd, n) = renderConfig(nt, md, n)
<1>1. \A p : /\ validateStoredFirewallPolicy(nt, nd, p) /\ validateStoredFirewallPolicy(nt, md, p)
             => compileFirewall(nd, p) = compileFirewall(md, p)
  <2> SUFFICES ASSUME NEW p, validateStoredFirewallPolicy(nt, nd, p), validateStoredFirewallPolicy(nt, md, p)
               PROVE  compileFirewall(nd, p) = compileFirewall(md, p)
    BY Zenon
  <2>1. Referenced(p) \cap Exists(nd) = Referenced(p) \cap Exists(md)
    BY Zenon DEF validateStoredFirewallPolicy
  <2> QED
    BY <2>1, Zenon DEF compileFirewall
<1>2. /\ validateStoredFirewallPolicy(nt, nd, firewallPolicyForNode(nt, n))
      /\ validateStoredFirewallPolicy(nt, md, firewallPolicyForNode(nt, n))
  <2>1. nt.rollout.phase = "canary" => nt.rollout.phase # "stable"
    OBVIOUS
  <2> QED
    BY <2>1, Zenon DEF validateStateGraph, validateNetworkFirewallRollout, firewallPolicyForNode
<1>3. compileFirewall(nd, firewallPolicyForNode(nt, n)) = compileFirewall(md, firewallPolicyForNode(nt, n))
  BY <1>1, <1>2, Zenon
<1>4. nativeDNSPolicy(nt, nd) = nativeDNSPolicy(nt, md)
  BY Zenon DEF nativeDNSPolicy
<1>5. relayBlock(nt, nd, n) = relayBlock(nt, md, n)
  BY Zenon DEF relayBlock
<1> QED
  BY <1>3, <1>4, <1>5, Zenon DEF renderConfig

\* The agents when that of n becomes b.
AgentBecomes(n, b) ==
    /\ agent' \in [Node -> AgentStates] /\ agent'[n] = b
    /\ \A m \in Node \ {n} : agent'[m] = agent[m]

\* One record changes under the same revision, without joining or leaving the active ones.
LEMMA SteadyRecord ==
    ASSUME RInv, NEW n \in Node, NEW x \in Records, NEW b \in AgentStates,
           Commit(net, [node EXCEPT ![n] = x]), AgentBecomes(n, b),
           RecordInv(x, b), AgentInv(b, net.revision),
           x.status = "active" <=> node[n].status = "active",
           b.rev = agent[n].rev, b.cfg = agent[n].cfg,
           \/ b.offer = agent[n].offer
           \/ b.offer.rev = net.revision => b.offer.cfg = renderConfig(net, node', n)
    PROVE  RInv' /\ (SignedInv => SignedInv')
<1>1. PICK nd : nd = [node EXCEPT ![n] = x]
  BY Zenon
<1>2. net' = net /\ node' = nd /\ validateStateGraph(net, nd)
  BY <1>1, Zenon DEF Commit, Valid
<1>3. /\ nd \in [Node -> Records] /\ nd[n] = x /\ \A m \in Node \ {n} : nd[m] = node[m]
  BY <1>1, InvFacts, Zenon
<1>4. /\ agent' \in [Node -> AgentStates]
      /\ \A m \in Node : RecordInv(nd[m], agent'[m]) /\ AgentInv(agent'[m], net.revision)
  BY <1>3, InvFacts, Zenon DEF AgentBecomes
<1>5. RInv'
  BY <1>2, <1>3, <1>4, Steady, Zenon
<1>6. \A m \in Node : nd[m].status = "active" <=> node[m].status = "active"
  BY <1>3, Zenon
<1>7. Active(nd) = Active(node)
  BY <1>6, Zenon DEF Active
<1>8. \A m \in Node : renderConfig(net, nd, m) = renderConfig(net, node, m)
  <2>1. validateStateGraph(net, node) /\ activeNetworkRelays(net, nd) = activeNetworkRelays(net, node)
    BY <1>7, InvFacts, Zenon DEF activeNetworkRelays
  <2> QED
    BY <1>2, <1>7, <2>1, RenderSame, Zenon
<1>9. ASSUME SignedInv, NEW m \in Node, nd[m].status = "active"
      PROVE  /\ agent'[m].rev = net.revision => agent'[m].cfg = renderConfig(net, nd, m)
             /\ agent'[m].offer.rev = net.revision => agent'[m].offer.cfg = renderConfig(net, nd, m)
  <2>1. /\ agent[m].rev = net.revision => agent[m].cfg = renderConfig(net, nd, m)
        /\ agent[m].offer.rev = net.revision => agent[m].offer.cfg = renderConfig(net, nd, m)
    BY <1>6, <1>8, <1>9, Zenon DEF SignedInv
  <2>2. CASE m = n
    BY <1>2, <2>1, <2>2, Zenon DEF AgentBecomes
  <2>3. CASE m # n
    BY <2>1, <2>3, Zenon DEF AgentBecomes
  <2> QED
    BY <2>2, <2>3, Zenon
<1>10. SignedInv => SignedInv'
  BY <1>2, <1>9, Zenon DEF SignedInv
<1> QED
  BY <1>5, <1>10, Zenon

\* A record that changes its status, none of them active, with the agent left alone.
LEMMA Restatement ==
    ASSUME RInv, NEW n \in Node, NEW s \in Statuses, s # "active", node[n].status # "active",
           \/ s = "pending" /\ node[n].status = "absent"
           \/ s \notin {"absent", "pending"},
           Commit(net, [node EXCEPT ![n].status = s]), UNCHANGED agent
    PROVE  RInv' /\ (SignedInv => SignedInv')
<1>1. /\ node[n] \in Records /\ RecordInv(node[n], agent[n]) /\ agent[n] \in AgentStates
      /\ AgentInv(agent[n], net.revision) /\ agent \in [Node -> AgentStates]
  BY InvFacts, Zenon
<1>2. PICK x : x = [node[n] EXCEPT !.status = s]
  BY Zenon
<1>3. Restated(node[n], s, x)
  BY <1>1, <1>2, RecordUpdate, Zenon
<1>4. x \in Records /\ x.status # "active"
  BY <1>3, Zenon DEF Restated
<1>5. RecordInv(x, agent[n])
  <2>1. CASE s = "pending" /\ node[n].status = "absent"
    BY <1>1, <1>3, <2>1, Creating, Zenon
  <2>2. CASE s \notin {"absent", "pending"}
    BY <1>1, <1>3, <2>2, Restating, Zenon
  <2> QED
    BY <2>1, <2>2, Zenon
<1>6. Commit(net, [node EXCEPT ![n] = x])
  BY <1>2, Zenon
<1>7. AgentBecomes(n, agent[n])
  BY <1>1, Zenon DEF AgentBecomes
<1> QED
  BY <1>1, <1>4, <1>5, <1>6, <1>7, SteadyRecord, Zenon

LEMMA CreateStep ==
    ASSUME RInv, NEW n \in Node, createNode(n) PROVE RInv' /\ (SignedInv => SignedInv')
<1>1. "pending" \in Statuses /\ "pending" # "active" /\ "absent" # "active"
  BY DEF Statuses
<1> QED
  BY <1>1, Restatement, Zenon DEF createNode

\* A departure: under the same revision, or with a network that advances it.
LEMMA Departure ==
    ASSUME RInv, NEW n \in Node, node[n].status \in {"pending", "revoked"}, UNCHANGED agent,
           \/ Commit(net, [node EXCEPT ![n].status = "gone"])
           \/ \E nt \in Networks :
                /\ nt.revision = net.revision /\ nt.relays \subseteq net.relays /\ nt.dns = net.dns
                /\ Commit(Advance(nt), [node EXCEPT ![n].status = "gone"])
    PROVE  RInv' /\ (SignedInv => SignedInv')
<1>1. /\ "gone" \in Statuses /\ "gone" # "active" /\ "gone" \notin {"absent", "pending"}
      /\ node[n].status # "active"
  BY DEF Statuses
<1>2. CASE Commit(net, [node EXCEPT ![n].status = "gone"])
  BY <1>1, <1>2, Restatement, Zenon
<1>3. ASSUME NEW nt \in Networks, nt.revision = net.revision, nt.relays \subseteq net.relays,
             nt.dns = net.dns, Commit(Advance(nt), [node EXCEPT ![n].status = "gone"])
      PROVE  RInv' /\ SignedInv'
  <2>1. /\ net.relays \subseteq RelayCandidate /\ net.dns \in DNSMode \cup {"off"}
        /\ node[n] \in Records /\ RecordInv(node[n], agent[n])
    BY InvFacts, Zenon
  <2>2. /\ Advance(nt) \in Networks /\ Advance(nt).revision = net.revision + 1
        /\ Advance(nt).relays \subseteq RelayCandidate /\ Advance(nt).dns \in DNSMode \cup {"off"}
    BY <1>3, <2>1, AdvanceFacts, Zenon
  <2>3. PICK x : x = [node[n] EXCEPT !.status = "gone"]
    BY Zenon
  <2>4. Restated(node[n], "gone", x)
    BY <1>1, <2>1, <2>3, RecordUpdate, Zenon
  <2>5. x \in Records /\ RecordInv(x, agent[n])
    BY <1>1, <2>1, <2>4, Restating, Zenon DEF Restated
  <2>6. Commit(Advance(nt), [node EXCEPT ![n] = x])
    BY <1>3, <2>3, Zenon
  <2> QED
    BY <2>2, <2>5, <2>6, RecordStep, Zenon
<1> QED
  BY <1>2, <1>3, Zenon

LEMMA DepartureStep ==
    ASSUME RInv, NEW n \in Node, cancelPendingNode(n) \/ archiveNode(n)
    PROVE  RInv' /\ (SignedInv => SignedInv')
<1>1. net \in Networks
  BY InvFacts, Zenon
<1>2. PICK w, c : w = WithoutRelay(net, n) /\ c = [net EXCEPT !.blocked = @ \ Fingerprints(node, n)]
  BY Zenon
<1>3. w \in Networks /\ w.revision = net.revision /\ w.relays \subseteq net.relays /\ w.dns = net.dns
  BY <1>1, <1>2, Zenon DEF WithoutRelay, Networks
<1>4. c \in Networks /\ c.revision = net.revision /\ c.relays \subseteq net.relays /\ c.dns = net.dns
  BY <1>1, <1>2, Zenon DEF Networks
<1>5. node[n].status \in {"pending", "revoked"} /\ UNCHANGED agent
  BY Zenon DEF cancelPendingNode, archiveNode
<1>6. \/ Commit(net, [node EXCEPT ![n].status = "gone"])
      \/ Commit(Advance(w), [node EXCEPT ![n].status = "gone"])
      \/ Commit(Advance(c), [node EXCEPT ![n].status = "gone"])
  BY <1>2, Zenon DEF cancelPendingNode, archiveNode
<1> QED
  BY <1>3, <1>4, <1>5, <1>6, Departure, Zenon

LEMMA RenewStep ==
    ASSUME RInv, NEW n \in Node, Renew(n) PROVE RInv' /\ (SignedInv => SignedInv')
<1>1. /\ node[n] \in Records /\ agent[n] \in AgentStates /\ net.revision \in Nat
      /\ RecordInv(node[n], agent[n]) /\ AgentInv(agent[n], net.revision)
      /\ net.revision # 0 /\ net \in Networks /\ node \in [Node -> Records]
      /\ agent \in [Node -> AgentStates]
  BY InvFacts, Zenon
<1>2. PICK x : x = [node[n] EXCEPT !.gen = @ + 1]
  BY Zenon
<1>3. PICK nd : nd = [node EXCEPT ![n].gen = @ + 1]
  BY Zenon
<1>4. /\ node[n].status = "active" /\ node[n].gen < MaxGeneration /\ Commit(net, nd)
      /\ \E o \in {signConfig(net, nd, n, "bundle"), None} :
            agent' = [agent EXCEPT ![n].offer = o, ![n].synced = FALSE]
  BY <1>3, Zenon DEF Renew
<1>5. Reissued(node[n], x)
  BY <1>1, <1>2, RecordUpdate, Zenon
<1>6. nd = [node EXCEPT ![n] = x] /\ x \in Records /\ x.status = "active" /\ x.gen \in Nat
  BY <1>2, <1>3, <1>4, <1>5, RecordFields, Zenon DEF Reissued
<1>7. nd \in [Node -> Records] /\ nd[n] = x /\ node' = nd
  BY <1>1, <1>4, <1>6, Zenon DEF Commit
<1>8. PICK o \in Offers :
         /\ agent' = [agent EXCEPT ![n].offer = o, ![n].synced = FALSE]
         /\ o # None => o.rev = net.revision /\ o.gen = x.gen /\ o.cfg = renderConfig(net, nd, n)
  <2>1. PICK g : g = signConfig(net, nd, n, "bundle")
    BY Zenon
  <2>2. /\ g \in Artifacts /\ g.rev = net.revision /\ g.gen = x.gen
        /\ g.cfg = renderConfig(net, nd, n)
    BY <2>1, <1>1, <1>7, Rendered, Zenon
  <2> QED
    BY <1>4, <2>1, <2>2, Zenon DEF Offers
<1>9. PICK b : b = [agent[n] EXCEPT !.offer = o, !.synced = FALSE]
  BY Zenon
<1>10. agent' = [agent EXCEPT ![n] = b] /\ WithOffer(agent[n], o, b)
  BY <1>8, <1>9, Zenon DEF WithOffer
<1>11. RecordInv(x, agent[n])
  BY <1>1, <1>4, <1>5, Reissuing, Zenon
<1>12. x.gen <= x.gen /\ x.status \notin {"absent", "pending"}
  BY <1>6
<1>13. b \in AgentStates /\ RecordInv(x, b) /\ AgentInv(b, net.revision)
  BY <1>1, <1>6, <1>8, <1>10, <1>11, <1>12, Offering, Zenon
<1>14. Offered(agent[n], o, b)
  BY <1>1, <1>10, OfferUpdate, Zenon
<1>15. /\ b.rev = agent[n].rev /\ b.cfg = agent[n].cfg
       /\ b.offer.rev = net.revision => b.offer.cfg = renderConfig(net, node', n)
  <2>1. b.rev = agent[n].rev /\ b.cfg = agent[n].cfg /\ b.offer = o
    BY <1>14, Zenon DEF Offered
  <2>2. o.rev = net.revision => o # None
    BY <1>1, NoneFacts, Zenon
  <2>3. o.rev = net.revision => o.cfg = renderConfig(net, nd, n)
    BY <1>8, <2>2, Zenon
  <2> QED
    BY <1>7, <2>1, <2>3
<1>16. AgentBecomes(n, b)
  BY <1>1, <1>10, <1>13, Zenon DEF AgentBecomes
<1> QED
  BY <1>4, <1>6, <1>13, <1>15, <1>16, SteadyRecord, Zenon

\* A rollout withdrawn on the evidence of n's agent.
LEMMA WithdrawalStep ==
    ASSUME RInv, NEW n \in Node, NEW nd \in [Node -> Records], NEW b \in AgentStates,
           Commit(autoRollbackFirewallRollout(net), nd), AgentBecomes(n, b),
           \A m \in Node \ {n} : nd[m] = node[m],
           RecordInv(nd[n], b), AgentInv(b, net.revision)
    PROVE  RInv' /\ SignedInv'
<1>1. /\ net \in Networks /\ net.relays \subseteq RelayCandidate /\ net.dns \in DNSMode \cup {"off"}
  BY InvFacts, Zenon
<1>2. PICK u : u = [net EXCEPT !.rollout = NoRollout]
  BY Zenon
<1>3. NoRollout \in Rollouts
  BY Zenon DEF Rollouts
<1>4. Restaged(net, NoRollout, u)
  BY <1>1, <1>2, <1>3, WithRollout, Zenon
<1>5. u \in Networks /\ u.revision = net.revision /\ u.relays = net.relays /\ u.dns = net.dns
  BY <1>4, Zenon DEF Restaged
<1>6. /\ Advance(u) \in Networks /\ Advance(u).revision = net.revision + 1
      /\ Advance(u).relays \subseteq RelayCandidate /\ Advance(u).dns \in DNSMode \cup {"off"}
  BY <1>1, <1>5, AdvanceFacts, Zenon
<1>7. /\ agent' \in [Node -> AgentStates]
      /\ \A m \in Node : RecordInv(nd[m], agent'[m]) /\ AgentInv(agent'[m], net.revision)
  BY InvFacts, Zenon DEF AgentBecomes
<1>8. Commit(Advance(u), nd)
  BY <1>2, Zenon DEF autoRollbackFirewallRollout
<1> QED
  BY <1>6, <1>7, <1>8, Advancing, Zenon

LEMMA ReportStep ==
    ASSUME RInv, NEW n \in Node, ReportConfigApplyFailure(n) PROVE RInv' /\ SignedInv'
<1>1. /\ node[n] \in Records /\ agent[n] \in AgentStates /\ net.revision \in Nat
      /\ RecordInv(node[n], agent[n]) /\ AgentInv(agent[n], net.revision)
      /\ node \in [Node -> Records] /\ agent \in [Node -> AgentStates]
  BY InvFacts, Zenon
<1>2. /\ node[n].status = "active" /\ Commit(autoRollbackFirewallRollout(net), node)
      /\ agent' = [agent EXCEPT ![n].report = None]
  BY Zenon DEF ReportConfigApplyFailure
<1>3. PICK b : b = [agent[n] EXCEPT !.report = None]
  BY Zenon
<1>4. Dropped(agent[n], b) /\ node[n].status \notin {"absent", "pending"}
  <2>1. "active" \notin {"absent", "pending"}
    OBVIOUS
  <2> QED
    BY <1>1, <1>2, <1>3, <2>1, ReportDropped, Zenon
<1>5. b \in AgentStates /\ RecordInv(node[n], b) /\ AgentInv(b, net.revision)
  BY <1>1, <1>4, Dropping, Zenon
<1>6. AgentBecomes(n, b)
  BY <1>1, <1>2, <1>3, <1>5, Zenon DEF AgentBecomes
<1> QED
  BY <1>1, <1>2, <1>5, <1>6, WithdrawalStep, Zenon

\* The record a heartbeat e leaves.
Observed(r, e, x) ==
    /\ x \in Records /\ x.status = r.status /\ x.gen = r.gen
    /\ x.rev = e.rev /\ x.cfg = e.cfg /\ x.up = e.up /\ x.ack = e.gen

LEMMA Observation ==
    ASSUME NEW r \in Records, NEW a, RecordInv(r, a), r.status = "active",
           NEW e, e.rev <= a.rev, e.gen <= a.gen, e.rev = a.rev => e.cfg = a.cfg,
           NEW x, Observed(r, e, x)
    PROVE  RecordInv(x, a)
<1>1. "active" # "absent" /\ "active" # "pending"
  OBVIOUS
<1> QED
  BY <1>1, Zenon DEF RecordInv, Observed

LEMMA HeartbeatStep ==
    ASSUME RInv, NEW n \in Node, NEW i \in DOMAIN agent[n].beats, Heartbeat(n, i)
    PROVE  RInv' /\ (SignedInv => SignedInv')
<1>1. PICK a : a = agent[n]
  BY Zenon
<1>2. /\ node[n] \in Records /\ a \in AgentStates /\ net.revision \in Nat
      /\ RecordInv(node[n], a) /\ AgentInv(a, net.revision)
      /\ node \in [Node -> Records] /\ agent \in [Node -> AgentStates]
  BY <1>1, InvFacts, Zenon
<1>3. PICK e : e = a.beats[i]
  BY Zenon
<1>4. e \in Beats /\ e \in Range(a.beats)
  <2>1. a.beats \in Seq(Beats)
    BY <1>2, AgentFields, Zenon
  <2> QED
    BY <1>1, <1>3, <2>1 DEF Range
<1>5. e.rev <= a.rev /\ e.gen <= a.gen /\ (e.rev = a.rev => e.cfg = a.cfg)
  BY <1>2, <1>4, Zenon DEF AgentInv
<1>6. PICK x : x = [node[n] EXCEPT !.rev = e.rev, !.cfg = e.cfg, !.up = e.up, !.ack = e.gen]
  BY Zenon
<1>7. Observed(node[n], e, x)
  <2>1. e.rev \in Nat /\ e.cfg \in Held /\ e.up \in BOOLEAN /\ e.gen \in Nat
    BY <1>4, Zenon DEF Beats
  <2> QED
    BY <1>2, <1>6, <2>1, Zenon DEF Observed, Records
<1>8. PICK nd : nd = [node EXCEPT ![n].rev = e.rev, ![n].cfg = e.cfg, ![n].up = e.up, ![n].ack = e.gen]
  BY Zenon
<1>9. PICK b : b = [a EXCEPT !.beats = SubSeq(@, i + 1, Len(@))]
  BY Zenon
<1>10. /\ node[n].status = "active" /\ agent' = [agent EXCEPT ![n] = b]
       /\ Commit(IF RuntimeStopped(e) THEN autoRollbackFirewallRollout(net) ELSE net, nd)
  BY <1>1, <1>3, <1>8, <1>9, Zenon DEF Heartbeat, AcceptableHeartbeat
<1>11. nd = [node EXCEPT ![n] = x]
  BY <1>6, <1>8, Zenon
<1>12. /\ x \in Records /\ nd \in [Node -> Records] /\ nd[n] = x /\ x.status = node[n].status
       /\ \A m \in Node \ {n} : nd[m] = node[m]
  BY <1>2, <1>7, <1>11, Zenon DEF Observed
<1>13. RecordInv(x, a)
  BY <1>2, <1>5, <1>7, <1>10, Observation, Zenon
<1>14. Dropped(a, b)
  BY <1>1, <1>2, <1>9, DropUpdate, Zenon
<1>15. x.status \notin {"absent", "pending"}
  <2>1. "active" \notin {"absent", "pending"}
    OBVIOUS
  <2> QED
    BY <1>10, <1>12, <2>1, Zenon
<1>16. b \in AgentStates /\ RecordInv(x, b) /\ AgentInv(b, net.revision)
  BY <1>2, <1>12, <1>13, <1>14, <1>15, Dropping, Zenon
<1>17. AgentBecomes(n, b)
  BY <1>2, <1>10, <1>16, Zenon DEF AgentBecomes
<1>18. b.rev = agent[n].rev /\ b.cfg = agent[n].cfg /\ b.offer = agent[n].offer
  BY <1>1, <1>14, Zenon DEF Dropped, SameArtifact
<1>19. CASE RuntimeStopped(e)
  BY <1>10, <1>12, <1>16, <1>17, <1>19, WithdrawalStep, Zenon
<1>20. CASE ~RuntimeStopped(e)
  <2>1. Commit(net, [node EXCEPT ![n] = x])
    BY <1>10, <1>11, <1>20, Zenon
  <2> QED
    BY <1>12, <1>16, <1>17, <1>18, <2>1, SteadyRecord, Zenon
<1> QED
  BY <1>19, <1>20, Zenon

-----------------------------------------------------------------------------
\* An enrollment: the bundle is signed as the transaction leaves the document.
LEMMA EnrollStep ==
    ASSUME RInv, NEW n \in Node, Enroll(n)
    PROVE  RInv' /\ (RelayCandidate \subseteq Lighthouse /\ SignedInv => SignedInv')
<1>1. /\ node[n] \in Records /\ agent[n] \in AgentStates /\ net.revision \in Nat
      /\ RecordInv(node[n], agent[n]) /\ AgentInv(agent[n], net.revision)
      /\ 1 <= net.revision /\ net \in Networks /\ node \in [Node -> Records]
      /\ agent \in [Node -> AgentStates] /\ validateStateGraph(net, node)
      /\ net.relays \subseteq RelayCandidate /\ net.dns \in DNSMode \cup {"off"}
  BY InvFacts, Zenon
<1>2. PICK nt : nt = IF EnrollAdvances(n) THEN Advance(net) ELSE net
  BY Zenon
<1>3. PICK nd : nd = [node EXCEPT ![n].status = "active", ![n].gen = 1]
  BY Zenon
<1>4. /\ node[n].status = "pending" /\ Commit(nt, nd)
      /\ agent' = [agent EXCEPT ![n].offer = signConfig(nt, nd, n, "bundle")]
  BY <1>2, <1>3, Zenon DEF Enroll
<1>5. net' = nt /\ node' = nd /\ validateStateGraph(nt, nd)
  BY <1>4, Zenon DEF Commit, Valid
<1>6. /\ nt \in Networks /\ nt.relays = net.relays /\ nt.dns = net.dns
      /\ n \in Lighthouse => nt.revision = net.revision + 1
      /\ n \notin Lighthouse => nt = net
  BY <1>1, <1>2, AdvanceFacts, Zenon DEF EnrollAdvances
<1>7. nt.revision \in Nat /\ net.revision <= nt.revision /\ 1 <= nt.revision /\ nt.revision # 0
  BY <1>1, <1>6
<1>8. PICK x : x = [node[n] EXCEPT !.status = "active", !.gen = 1]
  BY Zenon
<1>9. /\ x \in Records /\ x.status = "active" /\ x.gen = 1
      /\ x.rev = node[n].rev /\ x.cfg = node[n].cfg /\ x.ack = node[n].ack
  <2>1. "active" \in Statuses /\ 1 \in Nat
    BY DEF Statuses
  <2> QED
    BY <1>1, <1>8, <2>1, Zenon DEF Records
<1>10. nd = [node EXCEPT ![n] = x]
  BY <1>3, <1>8, Zenon
<1>11. nd \in [Node -> Records] /\ nd[n] = x /\ \A m \in Node \ {n} : nd[m] = node[m]
  BY <1>1, <1>9, <1>10, Zenon
<1>12. agent[n] = Idle /\ agent[n].rev = 0 /\ agent[n].gen = 0 /\ agent[n].offer = None
  <2>1. agent[n] = Idle
    BY <1>1, <1>4, Zenon DEF RecordInv
  <2>2. Idle.rev = 0 /\ Idle.gen = 0 /\ Idle.offer = None
    BY Zenon DEF Idle
  <2> QED
    BY <2>1, <2>2, Zenon
<1>13. x.status # "absent" /\ x.status # "pending" /\ x.status \notin {"absent", "pending"}
  BY <1>9
<1>14. RecordInv(x, agent[n])
  <2>1. 0 <= 1 /\ 1 <= MaxGeneration
    BY Given
  <2> QED
    BY <1>1, <1>9, <1>12, <1>13, <2>1, Zenon DEF RecordInv
<1>15. AgentInv(agent[n], nt.revision)
  BY <1>1, <1>7, Later, Zenon
<1>16. PICK o : o = signConfig(nt, nd, n, "bundle")
  BY Zenon
<1>17. /\ o \in Artifacts /\ o.rev = nt.revision /\ o.gen = x.gen
       /\ o.cfg = renderConfig(nt, nd, n) /\ o \in Offers
  BY <1>6, <1>7, <1>11, <1>16, Rendered, Zenon DEF Offers
<1>18. PICK b : b = [agent[n] EXCEPT !.offer = o]
  BY Zenon
<1>19. agent' = [agent EXCEPT ![n] = b] /\ WithOffer(agent[n], o, b)
  BY <1>4, <1>16, <1>18, Zenon DEF WithOffer
<1>20. x.gen <= x.gen
  BY <1>9
<1>21. b \in AgentStates /\ RecordInv(x, b) /\ AgentInv(b, nt.revision)
  BY <1>1, <1>7, <1>9, <1>13, <1>14, <1>15, <1>17, <1>19, <1>20, Offering, ZenonT(40)
<1>22. AgentBecomes(n, b)
  BY <1>1, <1>19, <1>21, Zenon DEF AgentBecomes
<1>23. \A m \in Node : AgentInv(agent[m], nt.revision)
  BY <1>1, <1>7, InvFacts, Later, Zenon
<1>24. /\ agent' \in [Node -> AgentStates]
       /\ \A m \in Node : RecordInv(nd[m], agent'[m]) /\ AgentInv(agent'[m], nt.revision)
  BY <1>11, <1>21, <1>22, <1>23, InvFacts, Zenon DEF AgentBecomes
<1>25. RInv'
  BY <1>1, <1>4, <1>6, <1>7, <1>11, <1>24, Written, ZenonT(40)
<1>26. b.rev = 0 /\ b.offer = o
  <2>1. Offered(agent[n], o, b)
    BY <1>1, <1>17, <1>19, OfferUpdate, Zenon
  <2> QED
    BY <1>12, <2>1, Zenon DEF Offered
<1>27. ASSUME RelayCandidate \subseteq Lighthouse, SignedInv, NEW m \in Node, nd[m].status = "active"
       PROVE  /\ agent'[m].rev = nt.revision => agent'[m].cfg = renderConfig(nt, nd, m)
              /\ agent'[m].offer.rev = nt.revision => agent'[m].offer.cfg = renderConfig(nt, nd, m)
  <2>1. CASE m = n
    <3>1. agent'[m] = b
      BY <1>22, <2>1, Zenon DEF AgentBecomes
    <3> QED
      BY <1>7, <1>17, <1>26, <2>1, <3>1, Zenon
  <2>2. CASE m # n
    <3>1. agent'[m] = agent[m] /\ node[m] = nd[m]
      BY <1>11, <1>22, <2>2, Zenon DEF AgentBecomes
    <3>2. CASE n \in Lighthouse
      <4>1. /\ agent[m] \in AgentStates /\ AgentInv(agent[m], net.revision)
            /\ nt.revision = net.revision + 1
        BY <1>6, <3>2, InvFacts, Zenon
      <4>2. agent[m].rev # nt.revision /\ agent[m].offer.rev # nt.revision
        BY <1>1, <1>7, <4>1, Unsigned, Zenon
      <4> QED
        BY <3>1, <4>2, Zenon
    <3>3. CASE n \notin Lighthouse
      <4>1. nt = net /\ n \notin net.relays
        BY <1>1, <1>6, <1>27, <3>3, Zenon
      <4>2. \A k \in Node \ {n} : k \in Active(nd) <=> k \in Active(node)
        BY <1>11, Zenon DEF Active
      <4>3. Active(nd) \subseteq Node /\ Active(node) \subseteq Node
        BY Zenon DEF Active
      <4>4. /\ Active(nd) \cap Lighthouse = Active(node) \cap Lighthouse
            /\ activeNetworkRelays(net, nd) = activeNetworkRelays(net, node)
        BY <3>3, <4>1, <4>2, <4>3, Zenon DEF activeNetworkRelays
      <4>5. renderConfig(net, nd, m) = renderConfig(net, node, m)
        BY <1>1, <1>5, <4>1, <4>4, RenderSame, ZenonT(40)
      <4> QED
        BY <1>27, <3>1, <4>1, <4>5, Zenon DEF SignedInv
    <3> QED
      BY <3>2, <3>3, Zenon
  <2> QED
    BY <2>1, <2>2, Zenon
<1>28. RelayCandidate \subseteq Lighthouse /\ SignedInv => SignedInv'
  BY <1>5, <1>27, Zenon DEF SignedInv
<1> QED
  BY <1>25, <1>28, Zenon

-----------------------------------------------------------------------------
\* The first document is valid whatever its nodes: its policy names none of them.
LEMMA FirstDocument ==
    ASSUME Init
    PROVE  /\ net \in Networks /\ net.revision = 1 /\ net.relays = {} /\ net.dns = "off"
           /\ \A nd : validateStateGraph(net, nd)
<1>1. PICK p : p = FirstPolicy
  BY Zenon
<1>2. /\ p \in PolicyRecords /\ Canonical(p) /\ Referenced(p) = {}
  <2>1. p = [peers |-> <<>>, dns |-> TRUE, effect |-> "runs"]
    BY <1>1, Zenon DEF FirstPolicy
  <2>2. p.peers = <<>> /\ <<>> \in Seq(Node) /\ "runs" \in Effect /\ DOMAIN <<>> = {}
    BY <2>1 DEF Effect
  <2>3. p \in PolicyRecords
    BY <2>1, <2>2, Zenon DEF PolicyRecords
  <2> QED
    BY <2>2, <2>3, Zenon DEF Canonical, Referenced, Range
<1>3. net = [revision |-> 1, policy |-> p, rollout |-> NoRollout,
             dns |-> "off", relays |-> {}, blocked |-> {}]
  BY <1>1, Zenon DEF Init
<1>4. /\ net.revision = 1 /\ net.policy = p /\ net.rollout = NoRollout /\ net.dns = "off"
      /\ net.relays = {}
  BY <1>3, Zenon
<1>5. 1 \in Nat /\ "off" \in {"off", "on", "native"}
  OBVIOUS
<1>6. net \in Networks
  BY <1>2, <1>3, <1>5, Zenon DEF Networks
<1>7. \A nd : validateStateGraph(net, nd)
  BY <1>2, <1>4, NoneFacts, Zenon
     DEF validateStateGraph, validateStoredFirewallPolicy, validateNetworkFirewallRollout
<1> QED
  BY <1>4, <1>6, <1>7, Zenon

LEMMA Starts ==
    ASSUME Init PROVE RInv /\ SignedInv
<1>1. /\ net \in Networks /\ net.revision = 1 /\ net.relays = {} /\ net.dns = "off"
      /\ \A nd : validateStateGraph(net, nd)
  BY FirstDocument, Zenon
<1>2. PICK nd : nd = [n \in Node |-> IF n \in Enrolled
                                     THEN [Blank EXCEPT !.status = "active", !.gen = 1]
                                     ELSE Blank]
  BY Zenon
<1>3. /\ node = [n \in Node |-> IF n \notin Enrolled THEN Blank
                   ELSE [nd[n] EXCEPT !.rev = 1, !.cfg = renderConfig(net, nd, n), !.up = TRUE, !.ack = 1]]
      /\ agent = [n \in Node |-> IF n \notin Enrolled THEN Idle
                   ELSE [Idle EXCEPT !.rev = 1, !.cfg = renderConfig(net, nd, n), !.gen = 1, !.up = TRUE]]
  BY <1>2, Zenon DEF Init
<1>4. /\ 0 \in Nat /\ 1 \in Nat /\ 0 <= 0 /\ 0 <= 1 /\ 1 <= 1 /\ 1 # 0
      /\ <<>> \in Seq(Beats) /\ Len(<<>>) = 0 /\ DOMAIN <<>> = {}
      /\ 0 <= MaxGeneration /\ 1 <= MaxGeneration /\ 0 <= MaxHeartbeats
  BY Given
<1>5. /\ "absent" \in Statuses /\ "active" \in Statuses /\ "active" # "absent" /\ "active" # "pending"
      /\ "off" # "native"
  BY DEF Statuses
<1>6. Blank \in Records /\ Idle \in AgentStates
  BY <1>4, <1>5, Zenon DEF Blank, Idle, Records, AgentStates, Held, Offers, Evidences
<1>7. nd \in [Node -> Records]
  <2>1. [Blank EXCEPT !.status = "active", !.gen = 1] \in Records
    BY <1>4, <1>5, <1>6, Zenon DEF Records
  <2> QED
    BY <1>2, <1>6, <2>1, Zenon
<1>8. RecordInv(Blank, Idle) /\ AgentInv(Idle, 1)
  <2>1. /\ Blank.ack = 0 /\ Blank.gen = 0 /\ Blank.rev = 0 /\ Blank.cfg = None
    BY Zenon DEF Blank
  <2>2. /\ Idle.rev = 0 /\ Idle.cfg = None /\ Idle.gen = 0 /\ Idle.failed = 0 /\ Idle.offer = None
        /\ Idle.report = None /\ Idle.beats = <<>>
    BY Zenon DEF Idle
  <2>3. RecordInv(Blank, Idle)
    BY <1>4, <2>1, <2>2, Zenon DEF RecordInv
  <2>4. AgentInv(Idle, 1)
    BY <1>4, <2>2, Zenon DEF AgentInv, Range
  <2> QED
    BY <2>3, <2>4, Zenon
<1>9. ASSUME NEW n \in Enrolled
      PROVE  /\ node[n] \in Records /\ node[n].status = "active" /\ nd[n].status = "active"
             /\ node[n].gen = 1 /\ node[n].rev = 1
             /\ node[n].cfg = renderConfig(net, nd, n) /\ node[n].ack = 1
             /\ agent[n] \in AgentStates /\ agent[n].rev = 1 /\ agent[n].gen = 1 /\ agent[n].up
             /\ agent[n].cfg = renderConfig(net, nd, n) /\ agent[n].cfg \in Configs
             /\ agent[n].offer = None /\ agent[n].report = None /\ agent[n].beats = <<>>
             /\ agent[n].failed = 0
  <2>1. n \in Node
    BY Given, Zenon
  <2>2. PICK c : c = renderConfig(net, nd, n)
    BY Zenon
  <2>3. c \in Configs /\ c \in Held
    BY <1>1, <1>7, <2>1, <2>2, Rendered, Zenon DEF Held
  <2>4. PICK z : z = [Blank EXCEPT !.status = "active", !.gen = 1]
    BY Zenon
  <2>5. z \in Records /\ z.status = "active" /\ z.gen = 1 /\ nd[n] = z
    BY <1>2, <1>4, <1>5, <1>6, <2>1, <2>4, Zenon DEF Records
  <2>6. node[n] = [z EXCEPT !.rev = 1, !.cfg = c, !.up = TRUE, !.ack = 1]
    BY <1>3, <2>1, <2>2, <2>5, Zenon
  <2>7. /\ node[n] \in Records /\ node[n].status = "active" /\ node[n].gen = 1 /\ node[n].rev = 1
        /\ node[n].cfg = c /\ node[n].ack = 1
    BY <1>4, <2>3, <2>5, <2>6, Zenon DEF Records
  <2>8. agent[n] = [Idle EXCEPT !.rev = 1, !.cfg = c, !.gen = 1, !.up = TRUE]
    BY <1>3, <2>1, <2>2, Zenon
  <2>9. /\ agent[n] \in AgentStates /\ agent[n].rev = 1 /\ agent[n].gen = 1 /\ agent[n].up
        /\ agent[n].cfg = c
        /\ agent[n].offer = Idle.offer /\ agent[n].report = Idle.report
        /\ agent[n].beats = Idle.beats /\ agent[n].failed = Idle.failed
    BY <1>4, <1>6, <2>3, <2>8, Zenon DEF AgentStates
  <2>10. Idle.offer = None /\ Idle.report = None /\ Idle.beats = <<>> /\ Idle.failed = 0
    BY Zenon DEF Idle
  <2> QED
    BY <2>2, <2>3, <2>5, <2>7, <2>9, <2>10, Zenon
<1>10. ASSUME NEW n \in Node \ Enrolled
       PROVE  node[n] = Blank /\ agent[n] = Idle /\ nd[n] = Blank
  BY <1>2, <1>3, Zenon
<1>11. ASSUME NEW n \in Node
       PROVE  /\ node[n] \in Records /\ agent[n] \in AgentStates
              /\ RecordInv(node[n], agent[n]) /\ AgentInv(agent[n], net.revision)
              /\ nd[n].status = node[n].status
  <2>1. CASE n \in Enrolled
    <3>1. RecordInv(node[n], agent[n])
      BY <1>4, <1>5, <1>9, <2>1, Zenon DEF RecordInv
    <3>2. ParsesNativeDNS(agent[n].cfg)
      <4>1. agent[n].cfg.native = nativeDNSPolicy(net, nd)
        <5>1. renderConfig(net, nd, n).native = nativeDNSPolicy(net, nd)
          BY Zenon DEF renderConfig
        <5>2. agent[n].cfg = renderConfig(net, nd, n)
          BY <1>9, <2>1, Zenon
        <5> QED
          BY <5>1, <5>2, Zenon
      <4>2. ~nativeDNSPolicy(net, nd).on
        BY <1>1, <1>5, Zenon DEF nativeDNSPolicy
      <4> QED
        BY <4>1, <4>2, Zenon DEF ParsesNativeDNS
    <3>3. AgentInv(agent[n], net.revision)
      BY <1>1, <1>4, <1>9, <2>1, <3>2, Zenon DEF AgentInv, Range
    <3> QED
      BY <1>9, <2>1, <3>1, <3>3, Zenon
  <2>2. CASE n \notin Enrolled
    BY <1>1, <1>6, <1>8, <1>10, <2>2, Zenon
  <2> QED
    BY <2>1, <2>2, Zenon
<1>12. node \in [Node -> Records] /\ agent \in [Node -> AgentStates]
  BY <1>3, <1>11, Zenon
<1>13. RInv
  <2>1. 1 \in 1..MaxRevision
    BY Given
  <2> QED
    BY <1>1, <1>11, <1>12, <2>1, Zenon DEF RInv, Types, DocumentInv, PairInv
<1>14. Active(nd) = Active(node)
  BY <1>11, Zenon DEF Active
<1>15. \A n \in Node : renderConfig(net, nd, n) = renderConfig(net, node, n)
  <2>1. activeNetworkRelays(net, nd) = activeNetworkRelays(net, node)
    BY <1>14, Zenon DEF activeNetworkRelays
  <2> QED
    BY <1>1, <1>14, <2>1, RenderSame, Zenon
<1>16. SignedInv
  <2>1. Blank.status # "active"
    BY <1>5, Zenon DEF Blank
  <2>2. ASSUME NEW n \in Node, node[n].status = "active"
        PROVE  /\ agent[n].cfg = renderConfig(net, node, n) /\ agent[n].offer.rev # net.revision
    BY <1>1, <1>4, <1>9, <1>10, <1>15, <2>1, <2>2, NoneFacts, ZenonT(40)
  <2> QED
    BY <2>2, Zenon DEF SignedInv
<1> QED
  BY <1>13, <1>16, Zenon

-----------------------------------------------------------------------------
LEMMA Preserved ==
    ASSUME RInv, [Next]_vars
    PROVE  RInv' /\ (RelayCandidate \subseteq Lighthouse /\ SignedInv => SignedInv')
<1> DEFINE Goal == RInv' /\ (RelayCandidate \subseteq Lighthouse /\ SignedInv => SignedInv')
<1>1. CASE UNCHANGED vars
  <2>1. net' = net /\ node' = node /\ agent' = agent
    BY <1>1, Zenon DEF vars
  <2>2. RInv'
    BY <2>1, InvFacts, Steady, Zenon
  <2>3. SignedInv => SignedInv'
    BY <2>1, Zenon DEF SignedInv
  <2> QED
    BY <2>2, <2>3, Zenon
<1>2. CASE Membership
  BY <1>2, CreateStep, DepartureStep, EnrollStep, ReplaceStep, Zenon DEF Membership
<1>3. CASE Settings
  BY <1>3, SettingsStep, Zenon DEF Settings
<1>4. CASE Policies
  <2>1. ASSUME NEW n \in Node, revokeNode(n) \/ archiveNode(n) \/ reissueCertificate(n) PROVE Goal
    BY <2>1, RevokeStep, DepartureStep, ReissueStep, Zenon
  <2>2. ASSUME \E p \in Policy : updateFirewallPolicy(p) PROVE Goal
    BY <2>2, SettingsStep, Zenon
  <2>3. ASSUME \/ \E p \in Policy : \E C \in SUBSET Node \ {{}} : startRollout(p, C)
               \/ promoteRollout \/ pauseRollout \/ resumeRollout \/ rollbackRollout
        PROVE  Goal
    BY <2>3, RolloutStep, Zenon
  <2> QED
    BY <1>4, <2>1, <2>2, <2>3, Zenon DEF Policies
<1>5. CASE Agents
  BY <1>5, GetConfigStep, ApplyStep, RuntimeStopsStep, RenewStep, SendHeartbeatStep, Zenon DEF Agents
<1>6. CASE Arrivals
  <2>1. PICK n \in Node :
           \/ \E i \in DOMAIN agent[n].beats : Heartbeat(n, i)
           \/ ReportConfigApplyFailure(n)
           \/ LoseReport(n) \/ \E i \in DOMAIN agent[n].beats : LoseHeartbeat(n, i)
    BY <1>6, Zenon DEF Arrivals
  <2>2. ASSUME NEW i \in DOMAIN agent[n].beats, Heartbeat(n, i) PROVE Goal
    BY <2>2, HeartbeatStep, Zenon
  <2>3. ASSUME ReportConfigApplyFailure(n) PROVE Goal
    BY <2>3, ReportStep, Zenon
  <2>4. ASSUME LoseReport(n) \/ \E i \in DOMAIN agent[n].beats : LoseHeartbeat(n, i) PROVE Goal
    BY <2>4, LossStep, Zenon
  <2> QED
    BY <2>1, <2>2, <2>3, <2>4, Zenon
<1> QED
  BY <1>1, <1>2, <1>3, <1>4, <1>5, <1>6, Zenon DEF Next

(***************************************************************************)
(* Records, agents and what is under way between them stay in step: the    *)
(* document is valid after every transaction, a record never runs ahead of *)
(* its agent nor an agent ahead of what was signed, and every sign of a    *)
(* failure is of a revision its agent did fail with.                       *)
(***************************************************************************)
THEOREM InStep == Spec => []RInv
<1>1. Init => RInv
  BY Starts, Zenon
<1>2. RInv /\ [Next]_vars => RInv'
  BY Preserved, Zenon
<1> QED
  BY <1>1, <1>2, PTL DEF Spec

LEMMA TypesFollow ==
    ASSUME RInv PROVE TypeOK
<1>1. /\ net \in Networks /\ net.revision \in 1..MaxRevision /\ net.dns \in DNSMode \cup {"off"}
  BY Zenon DEF RInv, Types, DocumentInv
<1>2. net.relays \subseteq Node /\ net.rollout.phase \in {"stable", "canary", "paused"}
  BY <1>1, NetworkFields, NoneFacts
<1>3. ASSUME NEW n \in Node
      PROVE  /\ node[n].status \in {"absent", "pending", "active", "revoked", "gone"}
             /\ node[n].ack <= node[n].gen /\ node[n].gen <= MaxGeneration
             /\ node[n].rev <= agent[n].rev /\ agent[n].rev <= net.revision
             /\ agent[n].gen <= node[n].gen
             /\ Len(agent[n].beats) <= MaxHeartbeats
  <2>1. /\ node[n] \in Records /\ agent[n] \in AgentStates
        /\ RecordInv(node[n], agent[n]) /\ AgentInv(agent[n], net.revision)
    BY InvFacts, Zenon
  <2>2. node[n].ack \in Nat /\ agent[n].gen \in Nat /\ node[n].gen \in Nat /\ node[n].status \in Statuses
    BY <2>1, AgentFields, RecordFields, Zenon
  <2>3. /\ node[n].ack <= agent[n].gen /\ agent[n].gen <= node[n].gen
        /\ node[n].gen <= MaxGeneration /\ node[n].rev <= agent[n].rev
        /\ agent[n].rev <= net.revision /\ Len(agent[n].beats) <= MaxHeartbeats
    BY <2>1, Zenon DEF RecordInv, AgentInv
  <2>4. node[n].ack <= node[n].gen
    BY <2>2, <2>3
  <2> QED
    BY <2>2, <2>3, <2>4, Zenon DEF Statuses
<1> QED
  BY <1>1, <1>2, <1>3, Zenon DEF TypeOK

(***************************************************************************)
(* One configuration per node and revision, when the relays are chosen     *)
(* among the lighthouses: the enrollment of any other pending node does    *)
(* not advance the revision, a pending relay's included.                   *)
(***************************************************************************)
THEOREM OneConfigPerRevision ==
    ASSUME RelayCandidate \subseteq Lighthouse
    PROVE  Spec => []SignedOncePerRevision
<1>1. Init => RInv /\ SignedInv
  BY Starts, Zenon
<1>2. (RInv /\ SignedInv) /\ [Next]_vars => (RInv /\ SignedInv)'
  BY Preserved, Zenon
<1>3. RInv /\ SignedInv => SignedOncePerRevision
  BY TypesFollow, Zenon DEF SignedInv, SignedOncePerRevision, Active
<1> QED
  BY <1>1, <1>2, <1>3, PTL DEF Spec

(***************************************************************************)
(* Whatever rollout, relays, DNS setting and rules are in force, revokeNode*)
(* finds a valid document to write.                                        *)
(***************************************************************************)
THEOREM AlwaysRevocable == Spec => []RevocationNeverRefused
<1>1. RInv => RevocationNeverRefused
  BY RevocationValid, Zenon
<1> QED
  BY <1>1, InStep, PTL

(***************************************************************************)
(* Promotion finds every canary's agent on the current artifact, not only  *)
(* its record.                                                             *)
(***************************************************************************)
THEOREM PromotedOnProof == Spec => PromotionProven
<1>1. ASSUME RInv, promoteRollout, NEW n \in net.rollout.canaries
      PROVE  /\ agent[n].rev = net.revision
             /\ agent[n].cfg = renderConfig(net, node, n)
             /\ agent[n].gen = node[n].gen
  <2>1. /\ net.rollout.phase = "canary" /\ node[n].rev = net.revision
        /\ node[n].cfg = renderConfig(net, node, n) /\ node[n].ack = node[n].gen
    BY <1>1, Zenon DEF promoteRollout, firewallRolloutNodeConverged
  <2>2. n \in Node
    <3>1. net \in Networks /\ net.rollout.phase # "stable"
      BY <1>1, <2>1, InvFacts
    <3> QED
      BY <1>1, <3>1, NetworkFields, Zenon
  <2>3. /\ node[n] \in Records /\ agent[n] \in AgentStates /\ net.revision \in Nat
        /\ RecordInv(node[n], agent[n]) /\ AgentInv(agent[n], net.revision)
    BY <1>1, <2>2, InvFacts, Zenon
  <2>4. agent[n].rev \in Nat /\ agent[n].gen \in Nat /\ node[n].gen \in Nat
    BY <2>3, AgentFields, RecordFields, Zenon
  <2>5. /\ node[n].rev <= agent[n].rev /\ agent[n].rev <= net.revision
        /\ node[n].ack <= agent[n].gen /\ agent[n].gen <= node[n].gen
        /\ node[n].rev = agent[n].rev => node[n].cfg = agent[n].cfg
    BY <2>3, Zenon DEF RecordInv, AgentInv
  <2> QED
    BY <2>1, <2>3, <2>4, <2>5, Order, Zenon
<1>2. RInv /\ [Next]_vars =>
        [promoteRollout => \A n \in net.rollout.canaries :
            /\ agent[n].rev = net.revision
            /\ agent[n].cfg = renderConfig(net, node, n)
            /\ agent[n].gen = node[n].gen]_vars
  BY <1>1, Zenon
<1> QED
  BY <1>2, InStep, PTL DEF Spec, PromotionProven

(***************************************************************************)
(* Only a canary that failed with the artifact in force withdraws a        *)
(* rollout, however late its report or heartbeat arrives.                  *)
(***************************************************************************)
THEOREM WithdrawnOnEvidence == Spec => RollbackEvidence
<1>1. ASSUME RInv, NEW n \in Node, net' # net,
             \/ ReportConfigApplyFailure(n)
             \/ \E i \in DOMAIN agent[n].beats : Heartbeat(n, i)
      PROVE  n \in net.rollout.canaries /\ agent[n].failed = net.revision
  <2>1. /\ agent[n] \in AgentStates /\ net.revision \in Nat /\ AgentInv(agent[n], net.revision)
    BY <1>1, InvFacts, Zenon
  <2>2. agent[n].failed \in Nat /\ agent[n].failed <= net.revision /\ agent[n].beats \in Seq(Beats)
    BY <2>1, AgentFields, Zenon DEF AgentInv
  <2>3. SUFFICES SelectedCanary(n) /\ net.revision <= agent[n].failed
    BY <2>1, <2>2, Order, Zenon DEF SelectedCanary
  <2>4. CASE ReportConfigApplyFailure(n)
    BY <2>1, <2>4, Zenon DEF ReportConfigApplyFailure, CurrentFailure, AgentInv
  <2>5. ASSUME NEW i \in DOMAIN agent[n].beats, Heartbeat(n, i)
        PROVE  SelectedCanary(n) /\ net.revision <= agent[n].failed
    <3>1. PICK e : e = agent[n].beats[i]
      BY Zenon
    <3>2. e \in Range(agent[n].beats)
      BY <2>2, <3>1 DEF Range
    <3>3. /\ AcceptableHeartbeat(n, e)
          /\ net' = IF RuntimeStopped(e) THEN autoRollbackFirewallRollout(net) ELSE net
      BY <2>5, <3>1, Zenon DEF Heartbeat, Commit
    <3>4. RuntimeStopped(e)
      BY <1>1, <3>3, Zenon
    <3>5. e.rev = net.revision /\ ~e.up
      BY <3>4, Zenon DEF RuntimeStopped
    <3>6. SelectedCanary(n)
      BY <3>3, <3>5, Zenon DEF AcceptableHeartbeat
    <3>7. e.rev <= agent[n].failed
      BY <2>1, <3>2, <3>5, Zenon DEF AgentInv
    <3> QED
      BY <3>5, <3>6, <3>7, Zenon
  <2> QED
    BY <1>1, <2>4, <2>5, Zenon
<1>2. RInv /\ [Next]_vars =>
        [\A n \in Node :
            (/\ net' # net
             /\ \/ ReportConfigApplyFailure(n)
                \/ \E i \in DOMAIN agent[n].beats : Heartbeat(n, i))
            => n \in net.rollout.canaries /\ agent[n].failed = net.revision]_vars
  BY <1>1, Zenon
<1> QED
  BY <1>2, InStep, PTL DEF Spec, RollbackEvidence

=============================================================================
