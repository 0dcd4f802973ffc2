--------------------------- MODULE CARotationProofs ---------------------------
(***************************************************************************)
(* The safety of CARotation, for any set of nodes and any bounds: type     *)
(* correctness, the inductive invariant, its preservation by each handler  *)
(* of the control plane and each step of the agents, and what follows.     *)
(***************************************************************************)
EXTENDS CARotation, TLAPS

\* The empty control plane and unenrolled agents are well typed.
LEMMA TypeInit == Init => TypeOK
<1> SUFFICES ASSUME Init PROVE TypeOK
  BY Zenon
<1> USE BoundsAssumption DEF Revisions, Generations
<1>1. NoBundle \in Bundles /\ NoPin \in Pins
  BY DEF NoBundle, NoPin, Bundles, Pins
<1>2. NoReply \in Replies
  BY DEF NoReply, Replies
<1> QED
  BY <1>1, <1>2 DEF Init, TypeOK, Phases

\* Type correctness of the control plane and of the agents is preserved by every
\* handler and every agent step.
LEMMA TypeStep == TypeOK /\ [Next]_vars => TypeOK'
<1> SUFFICES ASSUME TypeOK, [Next]_vars PROVE TypeOK'
  BY Zenon
<1> USE NodesAssumption, TransitionsAssumption, BoundsAssumption
        DEF TypeOK, Revisions, Generations, Phases
<1>1. CASE PreparePreflight
  BY <1>1, Zenon DEF PreparePreflight, network, records, agents
<1>2. CASE Prepare
  BY <1>2 DEF Prepare, nextConfigRevision, pruneExpiredNetworkRecoveryReplays, agents
<1>3. CASE Activate
  BY <1>3 DEF Activate, nextConfigRevision, records, flight, agents
<1>4. CASE Finalize
  BY <1>4 DEF Finalize, nextConfigRevision, pruneExpiredNetworkRecoveryReplays,
     networkTrustBundle, flight, agents
<1>5. CASE Abort
  BY <1>5 DEF Abort, nextConfigRevision, pruneExpiredNetworkRecoveryReplays,
     networkTrustBundle, flight, agents
<1>6. CASE Complete
  BY <1>6 DEF Complete, nextConfigRevision, records, flight, agents
<1>7. CASE FinishOther
  BY <1>7 DEF FinishOther, nextConfigRevision, records, flight, agents
<1>8. CASE ChangeConfig
  BY <1>8 DEF ChangeConfig, nextConfigRevision, records, flight, agents
<1>9. ASSUME NEW kind \in Transitions, StartOther(kind) PROVE TypeOK'
  BY <1>9 DEF StartOther, nextConfigRevision, records, flight, agents
<1>10. ASSUME NEW n \in Nodes, RevokeNode(n) PROVE TypeOK'
  BY <1>10 DEF RevokeNode, nextConfigRevision, agents
<1>11. ASSUME NEW n \in Nodes, EnrollClaim(n) PROVE TypeOK'
  BY <1>11, Zenon DEF EnrollClaim, networkSigningAuthority, network, records, agents
<1>12. ASSUME NEW n \in Nodes, EnrollCommit(n) PROVE TypeOK'
  BY <1>12 DEF EnrollCommit, nextConfigRevision, networkSigningAuthority, agents
<1>13. ASSUME NEW n \in Nodes, RenewClaim(n) PROVE TypeOK'
  BY <1>13, Zenon DEF RenewClaim, networkSigningAuthority, network, records, agents
<1>14. ASSUME NEW n \in Nodes, RenewCommit(n) PROVE TypeOK'
  BY <1>14 DEF RenewCommit, Replies, networkSigningAuthority, networkTrustBundle,
     network
<1>15. ASSUME NEW n \in Nodes, ReleaseClaim(n) PROVE TypeOK'
  BY <1>15, Zenon DEF ReleaseClaim, network, records, agents
<1>16. ASSUME NEW n \in Nodes, RecoverAgent(n) PROVE TypeOK'
  BY <1>16, Zenon DEF RecoverAgent, network, flight, agents
<1>17. ASSUME NEW n \in Nodes, ExpireReplay(n) PROVE TypeOK'
  BY <1>17, Zenon DEF ExpireReplay, network, flight, agents
<1>18. ASSUME NEW n \in Nodes, FetchEnrollment(n) PROVE TypeOK'
  BY <1>18 DEF FetchEnrollment, Replies, signConfig, networkTrustBundle,
     networkCARotationRequired, network, records, flight
<1>19. ASSUME NEW n \in Nodes, InstallEnrollment(n) PROVE TypeOK'
  BY <1>19, Zenon DEF InstallEnrollment, Replies, Pins, asBundle, network, records, flight
<1>20. ASSUME NEW n \in Nodes, FetchConfig(n) PROVE TypeOK'
  BY <1>20 DEF FetchConfig, Replies, signConfig, networkTrustBundle,
     networkCARotationRequired, network, records, flight
<1>21. ASSUME NEW n \in Nodes, FetchBundle(n) PROVE TypeOK'
  BY <1>21 DEF FetchBundle, Replies, signConfig, networkTrustBundle,
     networkCARotationRequired, network, records, flight
<1>22. ASSUME NEW n \in Nodes, InstallConfig(n) PROVE TypeOK'
  BY <1>22 DEF InstallConfig, Replies, Bundles, NoReply, network, records, flight
<1>23. ASSUME NEW n \in Nodes, InstallBundle(n) PROVE TypeOK'
  BY <1>23 DEF InstallBundle, Replies, Bundles, NoReply, network, records, flight
<1>24. ASSUME NEW n \in Nodes, DropReply(n) PROVE TypeOK'
  BY <1>24 DEF DropReply, Replies, NoReply, network, records, flight
<1>25. ASSUME NEW n \in Nodes, SaveState(n) PROVE TypeOK'
  BY <1>25, Zenon DEF SaveState, Pins, Bundles, PinOf, network, records, flight
<1>26. ASSUME NEW n \in Nodes, CrashBeforeSave(n) PROVE TypeOK'
  BY <1>26, Zenon DEF CrashBeforeSave, network, records, flight
<1>27. ASSUME NEW n \in Nodes, loadReconciledState(n) PROVE TypeOK'
  BY <1>27, Zenon DEF loadReconciledState, Pins, Bundles, PinOf, network, records, flight
<1>28. ASSUME NEW n \in Nodes, Heartbeat(n) PROVE TypeOK'
  BY <1>28, Zenon DEF Heartbeat, Pins, network, flight, agents
<1>29. CASE UNCHANGED vars
  BY <1>29, Zenon DEF vars, network, records, flight, agents
<1> HIDE DEF TypeOK
<1>30. CASE Administrator
  BY <1>30, <1>1, <1>2, <1>3, <1>4, <1>5, <1>6, <1>7, <1>8, <1>9, <1>10, Zenon
     DEF Administrator
<1>31. ASSUME NEW n \in Nodes, Issuance(n) PROVE TypeOK'
  BY <1>31, <1>11, <1>12, <1>13, <1>14, <1>15, <1>16, <1>17, Zenon DEF Issuance
<1>32. ASSUME NEW n \in Nodes, Agent(n) PROVE TypeOK'
  BY <1>32, <1>18, <1>19, <1>20, <1>21, <1>22, <1>23, <1>24, <1>25, <1>26, <1>27, <1>28,
     Zenon DEF Agent
<1> QED
  BY <1>29, <1>30, <1>31, <1>32, Zenon DEF Next

\* Type correctness of the network, the node records and the agents.
THEOREM Typing == Spec => []TypeOK
<1>1. Init => TypeOK
  BY TypeInit, Zenon
<1>2. TypeOK /\ [Next]_vars => TypeOK'
  BY TypeStep, Zenon
<1> QED
  BY <1>1, <1>2, PTL DEF Spec

-------------------------------------------------------------------------------

\* Phases whose trust bundle reaches the agents one at a time.
Staged == {"prepared", "finalizing", "aborting"}

\* A config of revision r carries the published trust bundle, or, where that is
\* still being handed out, its predecessor.
TrustOK(trust, r) ==
    \/ trust = networkTrustBundle
    \/ phase \in Staged /\ r < stage /\ trust = previous

\* The CAs a certificate in use may come from.
Issuers == IF phase = "rotating" THEN {ca, next} ELSE {ca}

NetworkInv ==
    /\ stage <= revision
    /\ phase # "stable" => stage >= 1
    /\ phase \in Staged => ca \in previous
    /\ phase = "prepared" => previous = {ca}
    /\ prepareAt <= revision
    /\ prepareAt = revision => other = "none"

\* Nothing is installed before the enrollment commits.
PendingInv(n) == status[n] = "pending" =>
    /\ live[n].revision = 0 /\ live[n].generation = 0
    /\ saved[n].revision = 0 /\ saved[n].trust = {} /\ idle(n)
    /\ applied[n] = 0 /\ appliedGen[n] = 0

\* The trust and the certificates of a node, in use, pinned and on their way.
TrustInv(n) == Active(n) =>
    /\ authority[n] \in Issuers
    /\ live[n].revision # 0 =>
          TrustOK(live[n].trust, live[n].revision) /\ live[n].authority \in Issuers
    /\ saved[n].trust # {} => TrustOK(saved[n].trust, saved[n].revision)
    /\ inbox[n].kind # "none" =>
          TrustOK(inbox[n].trust, inbox[n].revision) /\ inbox[n].authority \in Issuers

\* The revisions a node reported, saved, runs and was last sent.
OrderInv(n) == Active(n) =>
    /\ applied[n] <= saved[n].revision /\ saved[n].revision <= live[n].revision
    /\ live[n].revision <= revision
    /\ inbox[n].kind # "none" =>
          /\ live[n].revision <= inbox[n].revision /\ inbox[n].revision <= revision
          /\ inbox[n].revision # 0

\* The certificate generations, and that a generation names one certificate.
CertInv(n) == Active(n) =>
    /\ appliedGen[n] <= live[n].generation /\ live[n].generation <= generation[n]
    /\ live[n].revision # 0 /\ live[n].generation = generation[n] =>
          live[n].authority = authority[n]
    /\ inbox[n].kind # "none" =>
          /\ live[n].generation <= inbox[n].generation /\ inbox[n].generation <= generation[n]
          /\ inbox[n].generation = generation[n] => inbox[n].authority = authority[n]

\* One request at a time, and a config is asked for only when all is saved.
AgentInv(n) == Active(n) =>
    /\ unsaved[n] => live[n].revision # 0
    /\ inbox[n].kind # "none" => ~unsaved[n]
    /\ inbox[n].kind = "config" => agrees(n)

NodeInv(n) == PendingInv(n) /\ TrustInv(n) /\ OrderInv(n) /\ CertInv(n) /\ AgentInv(n)

IInv == TypeOK /\ NetworkInv /\ OneTransition /\ \A n \in Nodes : NodeInv(n)

-----------------------------------------------------------------------------
(* What an action leaves alone.  The invariant of a node reads the network *)
(* document's trust and the node's own record and agent, and tolerates a   *)
(* growing revision.                                                       *)

trustView   == <<ca, phase, next, previous, stage>>
nodeView(n) == <<status[n], authority[n], generation[n], applied[n], appliedGen[n],
                 live[n], saved[n], inbox[n], unsaved[n]>>

\* The numbers of a node's record and agent are integers.
NodeInts(n) ==
    /\ generation[n] \in Int /\ applied[n] \in Int /\ appliedGen[n] \in Int
    /\ live[n].revision \in Int /\ live[n].generation \in Int
    /\ saved[n].revision \in Int /\ inbox[n].generation \in Int
    /\ inbox[n].revision \in Int /\ inbox[n].revision >= 0

\* NodeInts is part of type correctness.
LEMMA NodeTypes == ASSUME TypeOK, NEW n \in Nodes PROVE NodeInts(n)
<1>1. live[n].revision \in Revisions /\ live[n].generation \in Generations
  BY Zenon DEF TypeOK, Bundles
<1>2. saved[n].revision \in Revisions
  BY Zenon DEF TypeOK, Pins
<1>3. inbox[n].revision \in Revisions /\ inbox[n].generation \in Generations
  BY Zenon DEF TypeOK, Replies
<1>4. generation[n] \in Generations /\ applied[n] \in Revisions /\ appliedGen[n] \in Generations
  BY Zenon DEF TypeOK
<1> QED
  BY <1>1, <1>2, <1>3, <1>4, BoundsAssumption DEF NodeInts, Revisions, Generations

\* The published trust and the CAs in use depend on the trust view alone.
LEMMA TrustFrame ==
    ASSUME UNCHANGED trustView
    PROVE  /\ UNCHANGED <<networkTrustBundle, networkSigningAuthority, Issuers>>
           /\ \A trust, r : TrustOK(trust, r)' <=> TrustOK(trust, r)
BY Zenon DEF trustView, networkTrustBundle, networkSigningAuthority, Issuers, TrustOK

\* What the control plane publishes is acceptable at every revision.
LEMMA Published == \A r : TrustOK(networkTrustBundle, r)
BY Zenon DEF TrustOK

\* The control plane signs with a CA in use.
LEMMA SignerOK == networkSigningAuthority \in Issuers
BY Zenon DEF networkSigningAuthority, Issuers

\* A step that leaves a node alone preserves its invariant if its trust and its
\* certificates remain acceptable.
LEMMA NodeRepublish ==
    ASSUME NEW n \in Nodes, NodeInts(n), NodeInv(n), UNCHANGED nodeView(n),
           revision \in Int, revision' \in Int, revision <= revision', TrustInv(n)'
    PROVE  NodeInv(n)'
<1>1. PendingInv(n)' /\ CertInv(n)' /\ AgentInv(n)'
  BY Zenon DEF NodeInv, PendingInv, CertInv, AgentInv, Active, idle, agrees, nodeView
<1>2. OrderInv(n)'
  BY DEF NodeInv, NodeInts, OrderInv, Active, nodeView
<1> QED
  BY <1>1, <1>2, Zenon DEF NodeInv

\* The invariant of a node survives every step that changes neither the published
\* trust nor the node.
LEMMA NodeFrame ==
    ASSUME NEW n \in Nodes, NodeInts(n), NodeInv(n), UNCHANGED nodeView(n),
           revision \in Int, revision' \in Int, revision <= revision', UNCHANGED trustView
    PROVE  NodeInv(n)'
<1>1. UNCHANGED Issuers /\ \A trust, r : TrustOK(trust, r)' <=> TrustOK(trust, r)
  BY TrustFrame, Zenon
<1>2. TrustInv(n)'
  BY <1>1, Zenon DEF NodeInv, TrustInv, Active, nodeView
<1> QED
  BY <1>2, NodeRepublish, Zenon

\* What the step lemmas use of the invariant: the network's part,
LEMMA NetworkFacts ==
    ASSUME IInv, TypeOK'
    PROVE  /\ NetworkInv /\ OneTransition
           /\ revision \in Int /\ revision >= 1 /\ revision' \in Int
           /\ stage \in Int /\ prepareAt \in Int
BY BoundsAssumption DEF IInv, TypeOK, Revisions

\* a node's part,
LEMMA NodeFacts == ASSUME IInv, NEW n \in Nodes PROVE NodeInv(n) /\ NodeInts(n)
BY NodeTypes, Zenon DEF IInv

\* and that what it keeps of the nodes are functions on Nodes.
LEMMA Domains ==
    ASSUME IInv
    PROVE  /\ status \in [Nodes -> {"pending", "active", "revoked"}]
           /\ authority \in [Nodes -> Nat] /\ generation \in [Nodes -> Generations]
           /\ applied \in [Nodes -> Revisions] /\ appliedGen \in [Nodes -> Generations]
           /\ live \in [Nodes -> Bundles] /\ saved \in [Nodes -> Pins]
           /\ inbox \in [Nodes -> Replies] /\ unsaved \in [Nodes -> BOOLEAN]
BY Zenon DEF IInv, TypeOK

\* The invariant survives a step that changes neither the published trust, nor a
\* certificate, nor an agent.
LEMMA ControlFrame ==
    ASSUME IInv, TypeOK', NetworkInv', OneTransition', revision <= revision',
           UNCHANGED <<trustView, status, authority, generation, applied, appliedGen, agents>>
    PROVE  IInv'
<1>1. \A m \in Nodes : UNCHANGED nodeView(m)
  BY Zenon DEF nodeView, agents
<1>2. \A m \in Nodes : NodeInv(m)'
  BY <1>1, NetworkFacts, NodeFacts, NodeFrame, Zenon
<1> QED
  BY <1>2, Zenon DEF IInv

\* The invariant survives a step of one node that preserves the node's own.
LEMMA RecordFrame ==
    ASSUME IInv, TypeOK', NEW n \in Nodes, NetworkInv', OneTransition', NodeInv(n)',
           UNCHANGED trustView, revision <= revision',
           \A m \in Nodes \ {n} : UNCHANGED nodeView(m)
    PROVE  IInv'
<1>1. \A m \in Nodes \ {n} : NodeInv(m)'
  BY NetworkFacts, NodeFacts, NodeFrame, Zenon
<1> QED
  BY <1>1, Zenon DEF IInv

-----------------------------------------------------------------------------
(* The administrator's steps.                                              *)

\* A preflight, another transition and another change of the configuration
\* preserve the invariant.
LEMMA OtherConfigInv ==
    ASSUME IInv, TypeOK',
           \/ PreparePreflight \/ FinishOther \/ ChangeConfig
           \/ \E kind \in Transitions : StartOther(kind)
    PROVE  IInv'
<1>1. NetworkInv' /\ OneTransition' /\ revision <= revision'
  BY NetworkFacts
     DEF PreparePreflight, FinishOther, ChangeConfig, StartOther, nextConfigRevision,
         network, flight, NetworkInv, OneTransition
<1>2. UNCHANGED <<trustView, status, authority, generation, applied, appliedGen, agents>>
  BY Zenon DEF PreparePreflight, FinishOther, ChangeConfig, StartOther, network, records, trustView
<1> QED
  BY <1>1, <1>2, ControlFrame, Zenon

\* "prepare": what agents hold becomes the predecessor of the new bundle.
LEMMA PrepareInv == ASSUME IInv, TypeOK', Prepare PROVE IInv'
<1>1. NetworkInv' /\ OneTransition'
  BY NetworkFacts DEF Prepare, nextConfigRevision, flight, NetworkInv,
     OneTransition, Staged
<1>2. /\ revision' = revision + 1 /\ revision \in Int /\ Issuers' = Issuers
      /\ \A trust : \A r \in Int :
            trust = networkTrustBundle /\ r <= revision => TrustOK(trust, r)'
  BY NetworkFacts
     DEF Prepare, nextConfigRevision, NetworkInv, TrustOK, Issuers, Staged, networkTrustBundle
<1>3. \A trust, r : TrustOK(trust, r) => trust = networkTrustBundle
  BY Zenon DEF Prepare, TrustOK, Staged
<1>4. ASSUME NEW m \in Nodes PROVE NodeInv(m)'
  <2>1. /\ NodeInv(m) /\ NodeInts(m) /\ TrustInv(m) /\ OrderInv(m) /\ CertInv(m)
        /\ UNCHANGED nodeView(m)
    BY NodeFacts, Zenon DEF NodeInv, Prepare, nodeView, records, agents
  <2>2. Active(m) =>
          /\ live[m].revision # 0 => live[m].trust = networkTrustBundle
          /\ saved[m].trust # {} => saved[m].trust = networkTrustBundle
          /\ inbox[m].kind # "none" => inbox[m].trust = networkTrustBundle
    BY <1>3, <2>1, Zenon DEF TrustInv
  <2>3. TrustInv(m)'
    BY <1>2, <2>1, <2>2 DEF TrustInv, OrderInv, NodeInts, Active, nodeView
  <2> QED
    BY <1>2, <2>1, <2>3, NetworkFacts, NodeRepublish
<1> QED
  BY <1>1, <1>4, Zenon DEF IInv

\* "activate": every agent already holds the dual bundle, which stays.
LEMMA ActivateInv == ASSUME IInv, TypeOK', Activate PROVE IInv'
<1>1. NetworkInv' /\ OneTransition'
  BY NetworkFacts DEF Activate, nextConfigRevision, flight, NetworkInv,
     OneTransition, Staged
<1>2. /\ revision' = revision + 1 /\ revision \in Int /\ Issuers \subseteq Issuers'
      /\ \A trust : \A r \in Int :
            trust = networkTrustBundle /\ r <= revision => TrustOK(trust, r)'
  BY NetworkFacts, Zenon
     DEF Activate, nextConfigRevision, NetworkInv, TrustOK, Issuers, Staged, networkTrustBundle
<1>3. ASSUME NEW m \in Nodes PROVE NodeInv(m)'
  <2>1. /\ NodeInv(m) /\ NodeInts(m) /\ TrustInv(m) /\ OrderInv(m) /\ CertInv(m)
        /\ UNCHANGED nodeView(m)
    BY NodeFacts, Zenon DEF NodeInv, Activate, nodeView, records, agents
  <2>2. Active(m) =>
          /\ live[m].revision # 0 => live[m].trust = networkTrustBundle
          /\ saved[m].trust # {} => saved[m].trust = networkTrustBundle
          /\ inbox[m].kind # "none" => inbox[m].trust = networkTrustBundle
    BY <2>1, NetworkFacts
       DEF Activate, TrustInv, OrderInv, NodeInts, TrustOK, Staged, Active,
           allConverged, caRotationNodeConverged, NetworkInv
  <2>3. TrustInv(m)'
    BY <1>2, <2>1, <2>2 DEF TrustInv, OrderInv, NodeInts, Active, nodeView
  <2> QED
    BY <1>2, <2>1, <2>3, NetworkFacts, NodeRepublish
<1> QED
  BY <1>1, <1>3, Zenon DEF IInv

\* "finalize": every agent holds the dual bundle and a certificate of the new CA.
LEMMA FinalizeInv == ASSUME IInv, TypeOK', Finalize PROVE IInv'
<1>1. NetworkInv' /\ OneTransition'
  BY NetworkFacts DEF Finalize, nextConfigRevision, networkTrustBundle, flight, NetworkInv,
     OneTransition, Staged
<1>2. /\ revision' = revision + 1 /\ revision \in Int /\ next \in Issuers'
      /\ \A trust : \A r \in Int :
            trust = networkTrustBundle /\ r <= revision => TrustOK(trust, r)'
  BY NetworkFacts
     DEF Finalize, nextConfigRevision, NetworkInv, TrustOK, Issuers, Staged, networkTrustBundle
<1>3. ASSUME NEW m \in Nodes PROVE NodeInv(m)'
  <2>1. /\ NodeInv(m) /\ NodeInts(m) /\ TrustInv(m) /\ OrderInv(m) /\ CertInv(m)
        /\ UNCHANGED nodeView(m)
    BY NodeFacts, Zenon DEF NodeInv, Finalize, nodeView, records, agents
  <2>2. Active(m) =>
          /\ authority[m] = next
          /\ live[m].revision # 0 =>
                live[m].trust = networkTrustBundle /\ live[m].authority = next
          /\ saved[m].trust # {} => saved[m].trust = networkTrustBundle
          /\ inbox[m].kind # "none" =>
                inbox[m].trust = networkTrustBundle /\ inbox[m].authority = next
    BY <2>1, NetworkFacts
       DEF Finalize, TrustInv, OrderInv, CertInv, NodeInts, TrustOK, Staged, Active,
           allConverged, caRotationNodeConverged, NetworkInv
  <2>3. TrustInv(m)'
    BY <1>2, <2>1, <2>2 DEF TrustInv, OrderInv, NodeInts, Active, nodeView
  <2> QED
    BY <1>2, <2>1, <2>3, NetworkFacts, NodeRepublish
<1> QED
  BY <1>1, <1>3, Zenon DEF IInv

\* "abort": agents hold the dual bundle or still the old one, which is published again.
LEMMA AbortInv == ASSUME IInv, TypeOK', Abort PROVE IInv'
<1>1. NetworkInv' /\ OneTransition'
  BY NetworkFacts DEF Abort, nextConfigRevision, networkTrustBundle, flight, NetworkInv,
     OneTransition, Staged
<1>2. /\ revision' = revision + 1 /\ revision \in Int /\ Issuers' = Issuers
      /\ \A trust : \A r \in Int : TrustOK(trust, r) /\ r <= revision => TrustOK(trust, r)'
  BY NetworkFacts
     DEF Abort, nextConfigRevision, NetworkInv, TrustOK, Issuers, Staged, networkTrustBundle
<1>3. ASSUME NEW m \in Nodes PROVE NodeInv(m)'
  <2>1. /\ NodeInv(m) /\ NodeInts(m) /\ TrustInv(m) /\ OrderInv(m) /\ CertInv(m)
        /\ UNCHANGED nodeView(m)
    BY NodeFacts, Zenon DEF NodeInv, Abort, nodeView, records, agents
  <2>2. TrustInv(m)'
    BY <1>2, <2>1 DEF TrustInv, OrderInv, NodeInts, Active, nodeView
  <2> QED
    BY <1>2, <2>1, <2>2, NetworkFacts, NodeRepublish
<1> QED
  BY <1>1, <1>3, Zenon DEF IInv

\* "complete": every agent holds the closing bundle.
LEMMA CompleteInv == ASSUME IInv, TypeOK', Complete PROVE IInv'
<1>1. NetworkInv' /\ OneTransition'
  BY NetworkFacts DEF Complete, nextConfigRevision, flight, NetworkInv,
     OneTransition, Staged
<1>2. /\ revision' = revision + 1 /\ revision \in Int /\ Issuers' = Issuers
      /\ \A trust : \A r \in Int :
            trust = networkTrustBundle /\ r <= revision => TrustOK(trust, r)'
  BY NetworkFacts, Zenon
     DEF Complete, nextConfigRevision, NetworkInv, TrustOK, Issuers, Staged, networkTrustBundle
<1>3. ASSUME NEW m \in Nodes PROVE NodeInv(m)'
  <2>1. /\ NodeInv(m) /\ NodeInts(m) /\ TrustInv(m) /\ OrderInv(m) /\ CertInv(m)
        /\ UNCHANGED nodeView(m)
    BY NodeFacts, Zenon DEF NodeInv, Complete, nodeView, records, agents
  <2>2. Active(m) =>
          /\ live[m].revision # 0 => live[m].trust = networkTrustBundle
          /\ saved[m].trust # {} => saved[m].trust = networkTrustBundle
          /\ inbox[m].kind # "none" => inbox[m].trust = networkTrustBundle
    BY <2>1, NetworkFacts
       DEF Complete, TrustInv, OrderInv, NodeInts, TrustOK, Staged, Active,
           allConverged, caRotationNodeConverged, NetworkInv
  <2>3. TrustInv(m)'
    BY <1>2, <2>1, <2>2 DEF TrustInv, OrderInv, NodeInts, Active, nodeView
  <2> QED
    BY <1>2, <2>1, <2>3, NetworkFacts, NodeRepublish
<1> QED
  BY <1>1, <1>3, Zenon DEF IInv

-----------------------------------------------------------------------------
(* Claims, recovery results, enrollment, renewal and revocation.           *)

\* A claim, its release and a recovery result preserve the invariant.
LEMMA ClaimInv ==
    ASSUME IInv, TypeOK', NEW n \in Nodes,
           \/ EnrollClaim(n) \/ RenewClaim(n) \/ ReleaseClaim(n)
           \/ RecoverAgent(n) \/ ExpireReplay(n)
    PROVE  IInv'
<1>1. UNCHANGED <<network, prepareAt, status, authority, generation, applied, appliedGen,
                  agents>>
  BY Zenon DEF EnrollClaim, RenewClaim, ReleaseClaim, RecoverAgent, ExpireReplay, records, flight
<1>2. NetworkInv' /\ OneTransition' /\ revision <= revision' /\ UNCHANGED trustView
  BY <1>1, NetworkFacts DEF network, NetworkInv, OneTransition, trustView
<1> QED
  BY <1>1, <1>2, ControlFrame, Zenon

\* Revocation preserves the invariant: it promises nothing about a revoked node.
LEMMA RevokeNodeInv == ASSUME IInv, TypeOK', NEW n \in Nodes, RevokeNode(n) PROVE IInv'
<1>1. NetworkInv' /\ OneTransition' /\ revision <= revision' /\ UNCHANGED trustView
  BY NetworkFacts DEF RevokeNode, nextConfigRevision, NetworkInv, OneTransition, trustView
<1>2. \A m \in Nodes \ {n} : UNCHANGED nodeView(m)
  BY Domains, Zenon DEF RevokeNode, agents, nodeView
<1>3. status'[n] = "revoked"
  BY Domains, Zenon DEF RevokeNode
<1>4. NodeInv(n)'
  BY <1>3, Zenon DEF NodeInv, PendingInv, TrustInv, OrderInv, CertInv, AgentInv, Active
<1> QED
  BY <1>1, <1>2, <1>4, RecordFrame, Zenon

\* Enroll's commit preserves the invariant: its agent has nothing installed yet, and
\* the CA it signed with is still the one in use.
LEMMA EnrollCommitInv == ASSUME IInv, TypeOK', NEW n \in Nodes, EnrollCommit(n) PROVE IInv'
<1>1. NetworkInv' /\ OneTransition' /\ revision <= revision' /\ UNCHANGED trustView
  BY NetworkFacts DEF EnrollCommit, nextConfigRevision, NetworkInv, OneTransition, trustView
<1>2. \A m \in Nodes \ {n} : UNCHANGED nodeView(m)
  BY Domains, Zenon DEF EnrollCommit, agents, nodeView
<1>3. /\ status[n] = "pending" /\ status'[n] = "active"
      /\ authority'[n] \in Issuers /\ generation'[n] = 1
      /\ UNCHANGED <<applied[n], appliedGen[n], live[n], saved[n], inbox[n], unsaved[n]>>
  BY Domains, SignerOK, Zenon DEF EnrollCommit, agents
<1>4. /\ live'[n].revision = 0 /\ live'[n].generation = 0 /\ saved'[n].revision = 0
      /\ saved'[n].trust = {} /\ inbox'[n].kind = "none" /\ ~unsaved'[n]
      /\ applied'[n] = 0 /\ appliedGen'[n] = 0
  BY <1>3, NodeFacts, Zenon DEF NodeInv, PendingInv, idle
<1>5. UNCHANGED Issuers /\ revision' \in Int /\ revision' >= 1
  BY <1>1, NetworkFacts, TrustFrame
<1>6. NodeInv(n)'
  BY <1>3, <1>4, <1>5 DEF NodeInv, PendingInv, TrustInv, OrderInv, CertInv, AgentInv, Active
<1> QED
  BY <1>1, <1>2, <1>6, RecordFrame, Zenon

\* Renew's commit preserves the invariant: it signed with the CA in use, and its
\* answer carries what is published now.
LEMMA RenewCommitInv == ASSUME IInv, TypeOK', NEW n \in Nodes, RenewCommit(n) PROVE IInv'
<1>1. UNCHANGED network /\ UNCHANGED prepareAt
  BY Zenon DEF RenewCommit
<1>2. NetworkInv' /\ OneTransition' /\ revision <= revision' /\ UNCHANGED trustView
  BY <1>1, NetworkFacts DEF network, NetworkInv, OneTransition, trustView
<1>3. \A m \in Nodes \ {n} : UNCHANGED nodeView(m)
  BY Domains, Zenon DEF RenewCommit, nodeView
<1>4. /\ Active(n) /\ UNCHANGED status[n]
      /\ authority'[n] \in Issuers /\ generation'[n] = generation[n] + 1
      /\ UNCHANGED <<applied[n], appliedGen[n], live[n], saved[n], unsaved[n]>>
  BY Domains, SignerOK, Zenon DEF RenewCommit
<1>5. \/ UNCHANGED inbox[n]
      \/ /\ idle(n) /\ inbox'[n].kind = "bundle"
         /\ inbox'[n].revision = revision /\ inbox'[n].trust = networkTrustBundle
         /\ inbox'[n].authority = authority'[n] /\ inbox'[n].generation = generation'[n]
  BY Domains, Zenon DEF RenewCommit
<1>6. /\ PendingInv(n) /\ TrustInv(n) /\ OrderInv(n) /\ CertInv(n) /\ AgentInv(n)
      /\ NodeInts(n) /\ revision \in Int /\ revision >= 1
  BY NodeFacts, NetworkFacts, Zenon DEF NodeInv
<1>7. /\ UNCHANGED <<Issuers, revision>>
      /\ \A trust, r : TrustOK(trust, r)' <=> TrustOK(trust, r)
  BY <1>1, <1>2, TrustFrame, Zenon DEF network
<1>8. PendingInv(n)' /\ AgentInv(n)'
  BY <1>4, <1>5, <1>6, Zenon DEF PendingInv, AgentInv, Active, idle, agrees
<1>9. TrustInv(n)'
  BY <1>4, <1>5, <1>6, <1>7, Published, Zenon DEF TrustInv, Active
<1>10. OrderInv(n)'
  BY <1>4, <1>5, <1>6, <1>7 DEF OrderInv, NodeInts, Active
<1>11. CertInv(n)'
  BY <1>4, <1>5, <1>6 DEF CertInv, NodeInts, Active
<1> QED
  BY <1>2, <1>3, <1>8, <1>9, <1>10, <1>11, RecordFrame, Zenon DEF NodeInv

-------------------------------------------------------------------------------

agent(n) == <<live[n], saved[n], inbox[n], unsaved[n]>>

\* The invariant survives a step of one agent that preserves the node's own.
LEMMA AgentFrame ==
    ASSUME IInv, TypeOK', NEW n \in Nodes, NodeInv(n)', UNCHANGED <<network, records, flight>>,
           \A m \in Nodes \ {n} : UNCHANGED agent(m)
    PROVE  IInv'
<1>1. NetworkInv' /\ OneTransition' /\ revision <= revision' /\ UNCHANGED trustView
  BY NetworkFacts DEF network, flight, NetworkInv, OneTransition, trustView
<1>2. \A m \in Nodes \ {n} : UNCHANGED nodeView(m)
  BY Zenon DEF records, agent, nodeView
<1> QED
  BY <1>1, <1>2, RecordFrame, Zenon

\* What an agent's step keeps: the control plane's documents.
Kept(n) ==
    /\ UNCHANGED <<revision, Issuers, status[n], authority[n], generation[n], applied[n],
                   appliedGen[n]>>
    /\ \A trust, r : TrustOK(trust, r)' <=> TrustOK(trust, r)

\* A step of the agent alone keeps them.
LEMMA KeptRecords ==
    ASSUME NEW n \in Nodes, UNCHANGED <<network, records, flight>>
    PROVE  Kept(n)
<1>1. UNCHANGED trustView
  BY Zenon DEF network, trustView
<1> QED
  BY <1>1, TrustFrame, Zenon DEF Kept, network, records

\* The agent fetches an answer: it carries what is published now.
LEMMA FetchInv ==
    ASSUME IInv, TypeOK', NEW n \in Nodes,
           FetchEnrollment(n) \/ FetchConfig(n) \/ FetchBundle(n)
    PROVE  IInv'
<1>1. /\ UNCHANGED <<network, records, flight>>
      /\ \A m \in Nodes \ {n} : UNCHANGED agent(m)
  BY Domains, Zenon DEF FetchEnrollment, FetchConfig, FetchBundle, agent
<1>2. /\ Active(n) /\ idle(n) /\ UNCHANGED <<live[n], saved[n], unsaved[n]>>
      /\ inbox'[n].revision = revision /\ inbox'[n].trust = networkTrustBundle
      /\ inbox'[n].authority = authority[n] /\ inbox'[n].generation = generation[n]
      /\ inbox'[n].kind = "config" => agrees(n)
  BY Domains DEF FetchEnrollment, FetchConfig, FetchBundle, signConfig
<1>3. /\ Kept(n) /\ NodeInts(n) /\ revision \in Int /\ revision >= 1
      /\ PendingInv(n) /\ TrustInv(n) /\ OrderInv(n) /\ CertInv(n) /\ AgentInv(n)
  BY <1>1, KeptRecords, NetworkFacts, NodeFacts, Zenon DEF NodeInv
<1>4. PendingInv(n)' /\ AgentInv(n)'
  BY <1>2, <1>3, Zenon DEF PendingInv, AgentInv, Active, Kept, agrees, idle
<1>5. TrustInv(n)'
  BY <1>2, <1>3, Published, Zenon DEF TrustInv, Active, Kept
<1>6. OrderInv(n)'
  BY <1>2, <1>3 DEF OrderInv, NodeInts, Active, Kept
<1>7. CertInv(n)'
  BY <1>2, <1>3 DEF CertInv, NodeInts, Active, Kept
<1> QED
  BY <1>1, <1>4, <1>5, <1>6, <1>7, AgentFrame, Zenon DEF NodeInv

\* Older revisions may carry what newer ones carry.
LEMMA TrustOlder ==
    ASSUME NetworkInv, stage \in Int, NEW trust, NEW r \in Int, r >= 0, TrustOK(trust, r)
    PROVE  TrustOK(trust, 0)
BY DEF TrustOK

\* InstallEnrollment pins the trust of the answer before anything is live.
LEMMA InstallEnrollmentInv == ASSUME IInv, TypeOK', NEW n \in Nodes, InstallEnrollment(n) PROVE IInv'
<1>1. /\ UNCHANGED <<network, records, flight>>
      /\ \A m \in Nodes \ {n} : UNCHANGED agent(m)
  BY Domains, Zenon DEF InstallEnrollment, agent
<1>2. /\ UNCHANGED <<live[n], unsaved[n]>> /\ inbox[n].kind = "enroll" /\ inbox'[n].kind = "bundle"
      /\ saved[n].revision = 0 /\ saved'[n].revision = 0 /\ saved'[n].trust = inbox[n].trust
      /\ inbox'[n].revision = inbox[n].revision /\ inbox'[n].trust = inbox[n].trust
      /\ inbox'[n].authority = inbox[n].authority
      /\ inbox'[n].generation = inbox[n].generation
  BY Domains, Zenon DEF InstallEnrollment, asBundle
<1>3. /\ Kept(n) /\ NodeInts(n) /\ revision \in Int /\ revision >= 1
      /\ PendingInv(n) /\ TrustInv(n) /\ OrderInv(n) /\ CertInv(n) /\ AgentInv(n)
  BY <1>1, KeptRecords, NetworkFacts, NodeFacts, Zenon DEF NodeInv
<1>4. PendingInv(n)' /\ AgentInv(n)'
  BY <1>2, <1>3, Zenon DEF PendingInv, AgentInv, Active, Kept, idle
<1>5. TrustInv(n)'
  BY <1>2, <1>3, NetworkFacts, TrustOlder, Zenon DEF TrustInv, Active, Kept, NodeInts
<1>6. OrderInv(n)'
  BY <1>2, <1>3, Zenon DEF OrderInv, NodeInts, Active, Kept
<1>7. CertInv(n)'
  BY <1>2, <1>3, Zenon DEF CertInv, NodeInts, Active, Kept
<1> QED
  BY <1>1, <1>4, <1>5, <1>6, <1>7, AgentFrame, Zenon DEF NodeInv

\* A config is activated over the trust and the certificate it was checked against.
LEMMA InstallConfigInv == ASSUME IInv, TypeOK', NEW n \in Nodes, InstallConfig(n) PROVE IInv'
<1>1. /\ UNCHANGED <<network, records, flight>>
      /\ \A m \in Nodes \ {n} : UNCHANGED agent(m)
  BY Domains, Zenon DEF InstallConfig, agent
<1>2. /\ inbox[n].kind = "config" /\ inbox'[n].kind = "none" /\ unsaved'[n]
      /\ UNCHANGED saved[n] /\ inbox[n].trust = saved[n].trust
      /\ live'[n].revision = inbox[n].revision /\ live'[n].trust = live[n].trust
      /\ live'[n].authority = live[n].authority /\ live'[n].generation = live[n].generation
  BY Domains, Zenon DEF InstallConfig, NoReply
<1>3. /\ Kept(n) /\ NodeInts(n) /\ revision \in Int /\ revision >= 1
      /\ PendingInv(n) /\ TrustInv(n) /\ OrderInv(n) /\ CertInv(n) /\ AgentInv(n)
  BY <1>1, KeptRecords, NetworkFacts, NodeFacts, Zenon DEF NodeInv
<1>4. PendingInv(n)' /\ AgentInv(n)'
  BY <1>2, <1>3, Zenon DEF PendingInv, AgentInv, Active, Kept, idle, OrderInv
<1>5. TrustInv(n)'
  BY <1>2, <1>3, Zenon DEF TrustInv, Active, Kept, AgentInv, agrees
<1>6. OrderInv(n)'
  BY <1>2, <1>3 DEF OrderInv, NodeInts, Active, Kept
<1>7. CertInv(n)'
  BY <1>2, <1>3, Zenon DEF CertInv, NodeInts, Active, Kept, AgentInv, agrees
<1> QED
  BY <1>1, <1>4, <1>5, <1>6, <1>7, AgentFrame, Zenon DEF NodeInv

\* A bundle replaces the trust and the certificate by those it carries.
LEMMA InstallBundleInv == ASSUME IInv, TypeOK', NEW n \in Nodes, InstallBundle(n) PROVE IInv'
<1>1. /\ UNCHANGED <<network, records, flight>>
      /\ \A m \in Nodes \ {n} : UNCHANGED agent(m)
  BY Domains, Zenon DEF InstallBundle, agent
<1>2. /\ inbox[n].kind = "bundle" /\ inbox'[n].kind = "none" /\ unsaved'[n] /\ UNCHANGED saved[n]
      /\ live'[n].revision = inbox[n].revision /\ live'[n].trust = inbox[n].trust
      /\ live'[n].authority = inbox[n].authority
      /\ live'[n].generation = inbox[n].generation
  BY Domains, Zenon DEF InstallBundle, NoReply
<1>3. /\ Kept(n) /\ NodeInts(n) /\ revision \in Int /\ revision >= 1
      /\ PendingInv(n) /\ TrustInv(n) /\ OrderInv(n) /\ CertInv(n) /\ AgentInv(n)
  BY <1>1, KeptRecords, NetworkFacts, NodeFacts, Zenon DEF NodeInv
<1>4. PendingInv(n)' /\ AgentInv(n)'
  BY <1>2, <1>3, Zenon DEF PendingInv, AgentInv, Active, Kept, idle, OrderInv
<1>5. TrustInv(n)'
  BY <1>2, <1>3, Zenon DEF TrustInv, Active, Kept
<1>6. OrderInv(n)'
  BY <1>2, <1>3 DEF OrderInv, NodeInts, Active, Kept
<1>7. CertInv(n)'
  BY <1>2, <1>3 DEF CertInv, NodeInts, Active, Kept
<1> QED
  BY <1>1, <1>4, <1>5, <1>6, <1>7, AgentFrame, Zenon DEF NodeInv

\* An answer that is lost or refused leaves the agent as it was.
LEMMA DropReplyInv == ASSUME IInv, TypeOK', NEW n \in Nodes, DropReply(n) PROVE IInv'
<1>1. /\ UNCHANGED <<network, records, flight>>
      /\ \A m \in Nodes \ {n} : UNCHANGED agent(m)
  BY Domains, Zenon DEF DropReply, agent
<1>2. /\ UNCHANGED <<live[n], saved[n], unsaved[n]>>
      /\ inbox[n].kind # "none" /\ inbox'[n].kind = "none"
  BY Domains, Zenon DEF DropReply, NoReply
<1>3. /\ Kept(n) /\ NodeInts(n) /\ revision \in Int /\ revision >= 1
      /\ PendingInv(n) /\ TrustInv(n) /\ OrderInv(n) /\ CertInv(n) /\ AgentInv(n)
  BY <1>1, KeptRecords, NetworkFacts, NodeFacts, Zenon DEF NodeInv
<1>4. PendingInv(n)' /\ AgentInv(n)'
  BY <1>2, <1>3, Zenon DEF PendingInv, AgentInv, Active, Kept, idle
<1>5. TrustInv(n)'
  BY <1>2, <1>3, Zenon DEF TrustInv, Active, Kept
<1>6. OrderInv(n)'
  BY <1>2, <1>3, Zenon DEF OrderInv, NodeInts, Active, Kept
<1>7. CertInv(n)'
  BY <1>2, <1>3, Zenon DEF CertInv, NodeInts, Active, Kept
<1> QED
  BY <1>1, <1>4, <1>5, <1>6, <1>7, AgentFrame, Zenon DEF NodeInv

\* The state file records the live bundle.
LEMMA SaveStateInv == ASSUME IInv, TypeOK', NEW n \in Nodes, SaveState(n) PROVE IInv'
<1>1. /\ UNCHANGED <<network, records, flight>>
      /\ \A m \in Nodes \ {n} : UNCHANGED agent(m)
  BY Domains, Zenon DEF SaveState, agent
<1>2. /\ UNCHANGED <<live[n], inbox[n]>> /\ unsaved[n] /\ ~unsaved'[n]
      /\ saved'[n].revision = live[n].revision /\ saved'[n].trust = live[n].trust
      /\ saved'[n].generation = live[n].generation
  BY Domains, Zenon DEF SaveState, PinOf
<1>3. /\ Kept(n) /\ NodeInts(n) /\ revision \in Int /\ revision >= 1
      /\ PendingInv(n) /\ TrustInv(n) /\ OrderInv(n) /\ CertInv(n) /\ AgentInv(n)
  BY <1>1, KeptRecords, NetworkFacts, NodeFacts, Zenon DEF NodeInv
<1>4. PendingInv(n)' /\ AgentInv(n)'
  BY <1>2, <1>3, Zenon DEF PendingInv, AgentInv, Active, Kept, idle, agrees
<1>5. TrustInv(n)'
  BY <1>2, <1>3, Zenon DEF TrustInv, Active, Kept, AgentInv
<1>6. OrderInv(n)'
  BY <1>2, <1>3 DEF OrderInv, NodeInts, Active, Kept
<1>7. CertInv(n)'
  BY <1>2, <1>3, Zenon DEF CertInv, NodeInts, Active, Kept
<1> QED
  BY <1>1, <1>4, <1>5, <1>6, <1>7, AgentFrame, Zenon DEF NodeInv

\* A crash after the symlink moved leaves the older record of the state file.
LEMMA CrashBeforeSaveInv == ASSUME IInv, TypeOK', NEW n \in Nodes, CrashBeforeSave(n) PROVE IInv'
<1>1. /\ UNCHANGED <<network, records, flight>>
      /\ \A m \in Nodes \ {n} : UNCHANGED agent(m)
  BY Domains, Zenon DEF CrashBeforeSave, agent
<1>2. UNCHANGED <<live[n], saved[n], inbox[n]>> /\ unsaved[n] /\ ~unsaved'[n]
  BY Domains, Zenon DEF CrashBeforeSave
<1>3. /\ Kept(n) /\ NodeInts(n) /\ revision \in Int /\ revision >= 1
      /\ PendingInv(n) /\ TrustInv(n) /\ OrderInv(n) /\ CertInv(n) /\ AgentInv(n)
  BY <1>1, KeptRecords, NetworkFacts, NodeFacts, Zenon DEF NodeInv
<1>4. PendingInv(n)' /\ AgentInv(n)'
  BY <1>2, <1>3, Zenon DEF PendingInv, AgentInv, Active, Kept, idle, agrees
<1>5. TrustInv(n)'
  BY <1>2, <1>3, Zenon DEF TrustInv, Active, Kept
<1>6. OrderInv(n)'
  BY <1>2, <1>3, Zenon DEF OrderInv, NodeInts, Active, Kept
<1>7. CertInv(n)'
  BY <1>2, <1>3, Zenon DEF CertInv, NodeInts, Active, Kept
<1> QED
  BY <1>1, <1>4, <1>5, <1>6, <1>7, AgentFrame, Zenon DEF NodeInv

\* After a restart the state file catches up with the live bundle.
LEMMA ReconciledInv == ASSUME IInv, TypeOK', NEW n \in Nodes, loadReconciledState(n) PROVE IInv'
<1>1. /\ UNCHANGED <<network, records, flight>>
      /\ \A m \in Nodes \ {n} : UNCHANGED agent(m)
  BY Domains, Zenon DEF loadReconciledState, agent
<1>2. /\ UNCHANGED <<live[n], inbox[n], unsaved[n]>> /\ idle(n) /\ live[n].revision # 0
      /\ saved'[n].revision = live[n].revision /\ saved'[n].trust = live[n].trust
      /\ saved'[n].generation = live[n].generation
  BY Domains, Zenon DEF loadReconciledState, PinOf
<1>3. /\ Kept(n) /\ NodeInts(n) /\ revision \in Int /\ revision >= 1
      /\ PendingInv(n) /\ TrustInv(n) /\ OrderInv(n) /\ CertInv(n) /\ AgentInv(n)
  BY <1>1, KeptRecords, NetworkFacts, NodeFacts, Zenon DEF NodeInv
<1>4. PendingInv(n)' /\ AgentInv(n)'
  BY <1>2, <1>3, Zenon DEF PendingInv, AgentInv, Active, Kept, idle, agrees
<1>5. TrustInv(n)'
  BY <1>2, <1>3, Zenon DEF TrustInv, Active, Kept
<1>6. OrderInv(n)'
  <2>1. /\ live[n].revision <= live[n].revision
        /\ applied[n] <= saved[n].revision /\ saved[n].revision <= live[n].revision
           => applied[n] <= live[n].revision
    BY <1>3 DEF NodeInts
  <2> QED
    BY <1>2, <1>3, <2>1, Zenon DEF OrderInv, Active, Kept
<1>7. CertInv(n)'
  BY <1>2, <1>3, Zenon DEF CertInv, NodeInts, Active, Kept
<1> QED
  BY <1>1, <1>4, <1>5, <1>6, <1>7, AgentFrame, Zenon DEF NodeInv

\* A heartbeat reports what is saved, and what is saved is live.
LEMMA HeartbeatInv == ASSUME IInv, TypeOK', NEW n \in Nodes, Heartbeat(n) PROVE IInv'
<1>1. UNCHANGED <<network, flight, status, authority, generation, agents>>
  BY Zenon DEF Heartbeat
<1>2. NetworkInv' /\ OneTransition' /\ revision <= revision' /\ UNCHANGED trustView
  BY <1>1, NetworkFacts DEF network, flight, NetworkInv, OneTransition, trustView
<1>3. \A m \in Nodes \ {n} : UNCHANGED nodeView(m)
  BY Domains, Zenon DEF Heartbeat, agents, nodeView
<1>4. /\ Active(n) /\ inbox[n].kind = "none" /\ saved[n].generation = live[n].generation
      /\ UNCHANGED <<live[n], saved[n], inbox[n], unsaved[n]>>
      /\ UNCHANGED <<revision, status[n], authority[n], generation[n]>>
      /\ applied'[n] = saved[n].revision /\ appliedGen'[n] = saved[n].generation
  BY Domains, Zenon DEF Heartbeat, agents, network, idle, agrees
<1>5. /\ NodeInts(n) /\ revision \in Int
      /\ PendingInv(n) /\ TrustInv(n) /\ OrderInv(n) /\ CertInv(n) /\ AgentInv(n)
  BY NetworkFacts, NodeFacts, Zenon DEF NodeInv
<1>6. UNCHANGED Issuers /\ \A trust, r : TrustOK(trust, r)' <=> TrustOK(trust, r)
  BY <1>2, TrustFrame, Zenon
<1>7. PendingInv(n)' /\ TrustInv(n)' /\ AgentInv(n)'
  BY <1>4, <1>5, <1>6, Zenon DEF PendingInv, TrustInv, AgentInv, Active
<1>8. OrderInv(n)'
  BY <1>4, <1>5 DEF OrderInv, NodeInts, Active
<1>9. CertInv(n)'
  BY <1>4, <1>5 DEF CertInv, NodeInts, Active
<1> QED
  BY <1>2, <1>3, <1>7, <1>8, <1>9, RecordFrame, Zenon DEF NodeInv

-----------------------------------------------------------------------------
(* The invariant, and what follows from it.                                *)

\* Every step of the control plane and of the agents preserves the invariant.
LEMMA InvStep == IInv /\ [Next]_vars => IInv'
<1> SUFFICES ASSUME IInv, [Next]_vars PROVE IInv'
  BY Zenon
<1>1. TypeOK'
  BY TypeStep, Zenon DEF IInv
<1>2. CASE Administrator
  BY <1>1, <1>2, Zenon, PrepareInv, ActivateInv, FinalizeInv, AbortInv, CompleteInv,
     OtherConfigInv, RevokeNodeInv DEF Administrator
<1>3. ASSUME NEW n \in Nodes, Issuance(n) PROVE IInv'
  BY <1>1, <1>3, Zenon, ClaimInv, EnrollCommitInv, RenewCommitInv DEF Issuance
<1>4. ASSUME NEW n \in Nodes, Agent(n) PROVE IInv'
  BY <1>1, <1>4, Zenon, FetchInv, InstallEnrollmentInv, InstallConfigInv, InstallBundleInv,
     DropReplyInv, SaveStateInv, CrashBeforeSaveInv, ReconciledInv, HeartbeatInv DEF Agent
<1>5. CASE UNCHANGED vars
  <2>1. NetworkInv' /\ OneTransition' /\ revision <= revision'
    BY <1>5, NetworkFacts, <1>1 DEF vars, network, flight, NetworkInv, OneTransition
  <2> QED
    BY <1>1, <1>5, <2>1, ControlFrame, Zenon DEF vars, network, records, trustView
<1> QED
  BY <1>2, <1>3, <1>4, <1>5, Zenon DEF Next

\* The empty control plane and unenrolled agents satisfy the invariant.
LEMMA InvInit == Init => IInv
<1> SUFFICES ASSUME Init PROVE IInv
  BY Zenon
<1>1. NetworkInv /\ OneTransition
  BY DEF Init, NetworkInv, OneTransition, Staged
<1>2. ASSUME NEW n \in Nodes PROVE NodeInv(n)
  BY Zenon DEF Init, NodeInv, PendingInv, TrustInv, OrderInv, CertInv, AgentInv, Active, idle,
         NoBundle, NoPin, NoReply
<1> QED
  BY <1>1, <1>2, TypeInit, Zenon DEF IInv

\* The inductive invariant holds in every reachable state, whatever the nodes and
\* the bounds.
THEOREM Invariant == Spec => []IInv
<1>1. Init => IInv
  BY InvInit, Zenon
<1>2. IInv /\ [Next]_vars => IInv'
  BY InvStep, Zenon
<1> QED
  BY <1>1, <1>2, PTL DEF Spec

\* ca_rotation.go's promise, for any number of nodes: no two managed peers are ever
\* left without a common trust root.
THEOREM PeersShareTrust == Spec => []SharedTrust
<1>1. IInv => SharedTrust
  <2> SUFFICES ASSUME IInv, NEW a \in Nodes, NEW b \in Nodes, Installed(a), Installed(b)
               PROVE  live[b].authority \in live[a].trust
    BY Zenon DEF SharedTrust
  <2>0. TrustInv(a) /\ TrustInv(b)
    BY NodeFacts, Zenon DEF NodeInv
  <2>1. live[b].authority \in Issuers /\ TrustOK(live[a].trust, live[a].revision)
    BY <2>0, Zenon DEF TrustInv, Installed
  <2>2. Issuers \subseteq networkTrustBundle
    BY Zenon DEF Issuers, networkTrustBundle
  <2>3. phase \in Staged => Issuers \subseteq previous
    BY Zenon DEF IInv, NetworkInv, Issuers, Staged
  <2> QED
    BY <2>1, <2>2, <2>3, Zenon DEF TrustOK
<1> QED
  BY <1>1, Invariant, PTL

\* VerifySignedConfig never meets a pin it must refuse.
THEOREM NoAgentStranded == Spec => []PinAccepted
<1>1. IInv => PinAccepted
  BY NodeFacts, Zenon DEF NodeInv, TrustInv, TrustOK, PinAccepted
<1> QED
  BY <1>1, Invariant, PTL

\* No other transition overlaps a CA rotation.
THEOREM TransitionsExclude == Spec => []OneTransition
<1>1. IInv => OneTransition
  BY Zenon DEF IInv
<1> QED
  BY <1>1, Invariant, PTL

\* Convergence is judged on installed configuration.
THEOREM ReportsAreTrue == Spec => []ReportsInstalled
<1>1. IInv => ReportsInstalled
  BY NodeFacts, Zenon DEF NodeInv, OrderInv, CertInv, ReportsInstalled
<1> QED
  BY <1>1, Invariant, PTL

\* A step that replaces the network's CA is a Finalize at which every managed node
\* already runs a certificate of the new CA.
LEMMA RetireStep ==
    IInv /\ [Next]_vars => (ca' # ca => \A n \in Nodes : Active(n) => live[n].authority = ca')
<1> SUFFICES ASSUME IInv, [Next]_vars, ca' # ca, NEW n \in Nodes, Active(n)
             PROVE  live[n].authority = ca'
  BY Zenon
<1>1. Finalize
  BY Zenon DEF Next, Administrator, Issuance, Agent, PreparePreflight, Prepare, Activate, Abort,
         Complete, StartOther, FinishOther, ChangeConfig, RevokeNode, EnrollClaim,
         EnrollCommit, RenewClaim, RenewCommit, ReleaseClaim, RecoverAgent, ExpireReplay,
         FetchEnrollment, InstallEnrollment, FetchConfig, FetchBundle, InstallConfig,
         InstallBundle, DropReply, SaveState, CrashBeforeSave, loadReconciledState,
         Heartbeat, vars, network
<1>2. authority[n] = next /\ appliedGen[n] >= generation[n] /\ applied[n] >= stage /\ ca' = next
  BY <1>1, Zenon DEF Finalize, allConverged, caRotationNodeConverged
<1>3. stage >= 1 /\ stage \in Int
  BY <1>1 DEF Finalize, IInv, TypeOK, Revisions, NetworkInv
<1>4. NodeInts(n) /\ OrderInv(n) /\ CertInv(n)
  BY NodeFacts, Zenon DEF NodeInv
<1> QED
  BY <1>2, <1>3, <1>4 DEF NodeInts, OrderInv, CertInv

\* The old CA is retired only when no managed node uses it.
THEOREM RetiredUnused == Spec => RetireOnlyUnused
<1>1. IInv /\ [Next]_vars =>
        [ca' # ca => \A n \in Nodes : Active(n) => live[n].authority = ca']_vars
  BY RetireStep, Zenon
<1> QED
  BY <1>1, Invariant, PTL DEF Spec, RetireOnlyUnused

===============================================================================
