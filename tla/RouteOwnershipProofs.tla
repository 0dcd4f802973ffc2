------------------------ MODULE RouteOwnershipProofs ------------------------
(***************************************************************************)
(* That published routes are authorised, for any gateways, prefixes and    *)
(* bounds.  It rests on signings that end before the transition they began *)
(* in moves.                                                               *)
(***************************************************************************)
EXTENDS RouteOwnershipInv

\* The certificates and runtimes of a gateway that waits for generation g: it had
\* prefixes before, it is to have after, and ran one of seen when the wait began.
Staged(n, g, before, after, seen) ==
    /\ claim[n] \subseteq {after}
    /\ g <= generation[n] + 1
    /\ generation[n] < g => cert[n] = before
    /\ generation[n] >= g => cert[n] = after
    /\ live[n].generation # 0 =>
          /\ live[n].generation < g => live[n].subnets \in seen
          /\ live[n].generation >= g => live[n].subnets = after

\* A gateway that waits for nothing signs for, holds and runs what it publishes.
Rests(n) ==
    /\ claim[n] \subseteq {routed[n]}
    /\ cert[n] = routed[n]
    /\ live[n].generation # 0 => live[n].subnets = routed[n]

\* The gateway the network's transition waits for.
Waits(n) ==
    \/ transfer.phase \in {"preparing_target", "cleaning_target"} /\ n = transfer.target
    \/ transfer.phase = "cleaning_source" /\ n = transfer.source
    \/ routeProfileEditIncludesNode(n)

\* What the gateway of each phase had, is to have and may run.
PreparingTarget(n) == transfer.phase = "preparing_target" /\ n = transfer.target =>
    Staged(n, transfer.targetGeneration, transfer.targetOriginal,
           transfer.targetOriginal \cup transfer.routes, {transfer.targetOriginal})
CleaningTarget(n) == transfer.phase = "cleaning_target" /\ n = transfer.target =>
    Staged(n, transfer.targetGeneration, transfer.targetOriginal \cup transfer.routes,
           transfer.targetOriginal,
           {transfer.targetOriginal, transfer.targetOriginal \cup transfer.routes})
CleaningSource(n) == transfer.phase = "cleaning_source" /\ n = transfer.source =>
    Staged(n, transfer.sourceGeneration, transfer.sourceOriginal,
           transfer.sourceOriginal \ transfer.routes, {transfer.sourceOriginal})
PreparingOwner(n) == edit.phase = "preparing_owner" /\ n = edit.node =>
    Staged(n, edit.prepared, edit.original, edit.original \cup edit.desired, {edit.original})
CleaningOwner(n) == edit.phase = "cleaning_owner" /\ n = edit.node =>
    Staged(n, edit.cleanup, edit.original \cup edit.desired, edit.desired,
           {edit.original \cup edit.desired})
CleaningCancelled(n) == edit.phase = "cleaning_cancelled_owner" /\ n = edit.node =>
    Staged(n, edit.cleanup, edit.original \cup edit.desired, edit.original,
           {edit.original, edit.original \cup edit.desired})

AuthorityInv(n) == Active(n) =>
    /\ PreparingTarget(n) /\ CleaningTarget(n) /\ CleaningSource(n)
    /\ PreparingOwner(n) /\ CleaningOwner(n) /\ CleaningCancelled(n)
    /\ ~Waits(n) => Rests(n)

\* A gateway runs and reports certificates it was issued, and none before it enrolled.
RuntimeInv(n) ==
    /\ status[n] \in {"unused", "pending"} => live[n].generation = 0 /\ claim[n] = {}
    /\ Active(n) => generation[n] >= 1
    /\ appliedGen[n] <= live[n].generation
    /\ live[n].generation <= generation[n]
    /\ live[n].generation = generation[n] /\ generation[n] # 0 => live[n].subnets = cert[n]

IInv == SnapshotInv /\ \A n \in Nodes : RuntimeInv(n) /\ AuthorityInv(n)

-----------------------------------------------------------------------------
(* What gateways hold and run.                                             *)

\* The numbers of a node's record and agent.
NodeInts(n) ==
    /\ generation[n] \in Nat /\ appliedGen[n] \in Nat
    /\ live[n].generation \in Nat

LEMMA NodeTypes == ASSUME TypeOK, NEW n \in Nodes PROVE NodeInts(n)
BY BoundsAssumption DEF TypeOK, NodeInts, Generations

LEMMA TransitionInts ==
    ASSUME TypeOK
    PROVE  /\ transfer.targetGeneration \in Nat /\ transfer.sourceGeneration \in Nat
           /\ edit.prepared \in Nat /\ edit.cleanup \in Nat
BY BoundsAssumption DEF TypeOK, Transfers, Edits, Generations

\* What the invariants of a node read of its record and agent.
nodeView(n) == <<status[n], routed[n], cert[n], generation[n], appliedGen[n], claim[n], live[n]>>

\* A step of one gateway leaves every other node alone.
LEMMA OthersAlone ==
    ASSUME TypeOK, NEW k \in Nodes, NEW n \in Nodes \ {k},
           rotateNodeCertificate(k) \/ Gateway(k)
    PROVE  UNCHANGED <<transfer, edit, nodeView(n)>>
<1> USE DEF TypeOK, nodeView, documents, issued, reports, flight
<1>1. CASE rotateNodeCertificate(k)
  BY <1>1, Zenon DEF rotateNodeCertificate
<1>2. CASE Enroll(k)
  BY <1>2, Zenon DEF Enroll
<1>3. CASE RenewClaim(k)
  BY <1>3, Zenon DEF RenewClaim
<1>4. CASE RenewCommit(k)
  BY <1>4, Zenon DEF RenewCommit
<1>5. CASE releaseRenewalClaim(k)
  BY <1>5, Zenon DEF releaseRenewalClaim
<1>6. CASE RecoverAgent(k)
  BY <1>6, Zenon DEF RecoverAgent
<1>7. CASE InstallBundle(k)
  BY <1>7, Zenon DEF InstallBundle
<1>8. CASE Heartbeat(k)
  BY <1>8, Zenon DEF Heartbeat
<1> QED
  BY <1>1, <1>2, <1>3, <1>4, <1>5, <1>6, <1>7, <1>8, Zenon DEF Gateway

\* A gateway runs and reports only what it was issued.
LEMMA RuntimeStep ==
    ASSUME TypeOK, [Next]_vars, NEW n \in Nodes, RuntimeInv(n)
    PROVE  RuntimeInv(n)'
<1> USE DEF RuntimeInv, Active
<1>0. NodeInts(n)
  BY NodeTypes, Zenon
<1>1. CASE UNCHANGED <<status[n], cert[n], generation[n], appliedGen[n], claim[n], live[n]>>
  BY <1>1, Zenon
<1>2. ASSUME NEW k \in Nodes, rotateNodeCertificate(k) \/ Gateway(k), k # n PROVE RuntimeInv(n)'
  BY <1>1, <1>2, OthersAlone, Zenon DEF nodeView
<1>3. CASE rotateNodeCertificate(n)
  BY <1>0, <1>3 DEF rotateNodeCertificate, NodeInts, TypeOK, reports
<1>4. CASE Enroll(n)
  BY <1>0, <1>4 DEF Enroll, NodeInts, TypeOK, reports, flight
<1>5. CASE RenewClaim(n)
  BY <1>5, Zenon DEF RenewClaim, TypeOK, issued, reports
<1>6. CASE RenewCommit(n)
  BY <1>0, <1>6 DEF RenewCommit, NodeInts, TypeOK, reports
<1>7. CASE releaseRenewalClaim(n)
  BY <1>7, Zenon DEF releaseRenewalClaim, TypeOK, issued, reports
<1>8. CASE RecoverAgent(n)
  BY <1>8, Zenon DEF RecoverAgent, issued, reports
<1>9. CASE InstallBundle(n)
  BY <1>0, <1>9 DEF InstallBundle, NodeInts, TypeOK, issued, reports, flight
<1>10. CASE Heartbeat(n)
  BY <1>0, <1>10 DEF Heartbeat, NodeInts, TypeOK, issued, flight
<1>11. ASSUME NEW k \in Nodes, revokeNode(k) PROVE RuntimeInv(n)'
  BY <1>11, Zenon DEF revokeNode, revoked, TypeOK, issued, reports
<1>12. ASSUME NEW k \in Nodes, NEW m \in Nodes, replaceNode(k, m) PROVE RuntimeInv(n)'
  BY <1>12, Zenon DEF replaceNode, revoked, TypeOK, issued, reports
<1>13. \/ \E src, tgt \in Nodes, routes \in SUBSET Prefixes : startRouteTransfer(src, tgt, routes)
       \/ PromoteTransfer \/ CompleteTransfer \/ CancelTransfer \/ FinishCancelTransfer
       \/ \E m \in Nodes, desired \in Profiles : startRouteProfileEdit(m, desired)
       \/ PromoteEdit \/ CompleteEdit \/ CancelEdit \/ FinishCancelEdit
       \/ \E p \in Prefixes : updateNetworkRoutePolicy(p)
       \/ UNCHANGED vars
      => UNCHANGED <<status, cert, generation, appliedGen, claim, live>>
  BY Zenon DEF startRouteTransfer, PromoteTransfer, CompleteTransfer, CancelTransfer,
     FinishCancelTransfer, startRouteProfileEdit, PromoteEdit, CompleteEdit, CancelEdit,
     FinishCancelEdit, updateNetworkRoutePolicy, vars, issued, reports, flight
<1> HIDE DEF RuntimeInv, Active
<1>14. ASSUME NEW k \in Nodes, rotateNodeCertificate(k) \/ Gateway(k) PROVE RuntimeInv(n)'
  BY <1>14, <1>2, <1>3, <1>4, <1>5, <1>6, <1>7, <1>8, <1>9, <1>10, Zenon DEF Gateway
<1>15. UNCHANGED <<status, cert, generation, appliedGen, claim, live>> => RuntimeInv(n)'
  BY <1>1, Zenon
<1> QED
  BY <1>11, <1>12, <1>13, <1>14, <1>15, Zenon DEF Next, Administrator, updateNodeGroups

\* The authority of a node survives a step that leaves it and the transitions alone.
LEMMA AuthorityFrame ==
    ASSUME NEW n \in Nodes, AuthorityInv(n), UNCHANGED <<transfer, edit, nodeView(n)>>
    PROVE  AuthorityInv(n)'
BY ZenonT(40) DEF AuthorityInv, PreparingTarget, CleaningTarget, CleaningSource, PreparingOwner,
   CleaningOwner, CleaningCancelled, Staged, Rests, Waits, routeProfileEditIncludesNode, routeProfileEditActive,
   routeProfileEditTerminal, Active, nodeView

\* A converged gateway runs the certificate its transition waited for.
LEMMA ConvergedRuns ==
    ASSUME TypeOK, NEW n \in Nodes, RuntimeInv(n), NEW g \in Nat, g >= 1,
           routeTransferNodeConverged(n, g), NEW b, NEW a, NEW s, Staged(n, g, b, a, s)
    PROVE  Active(n) /\ claim[n] \subseteq {a} /\ cert[n] = a /\ live[n].subnets = a
<1>1. NodeInts(n)
  BY NodeTypes, Zenon
<1>2. live[n].generation = generation[n] /\ generation[n] >= g /\ Active(n)
  BY <1>1 DEF NodeInts, RuntimeInv, routeTransferNodeConverged
<1> QED
  BY <1>1, <1>2 DEF Staged, NodeInts

\* Two transitions exclude each other, and a node outside both rests.
LEMMA Phases ==
    ASSUME TypeOK, TransitionInv
    PROVE  /\ routeTransferActive => routeProfileEditTerminal
           /\ transfer.phase \in TransferPhases /\ edit.phase \in EditPhases
BY Zenon DEF TransitionInv, validateNetworkRouteProfileEdit, routeProfileEditActive, routeTransferActive,
   TypeOK, Transfers, Edits

\* A certificate signed now authorises what the gateway is to have.
LEMMA ClaimAuthority ==
    ASSUME TypeOK, TransitionInv, NEW n \in Nodes, AuthorityInv(n), RenewClaim(n)
    PROVE  AuthorityInv(n)'
<1>1. /\ claim'[n] = {certificateRoutedSubnets(n)}
      /\ UNCHANGED <<transfer, edit, status, routed, cert, generation, live>>
  BY Zenon DEF RenewClaim, TypeOK, documents, issued
<1>2. routeTransferActive => routeProfileEditTerminal
  BY Phases, Zenon
<1> USE DEF routeTransferActive, routeTransferTerminal, routeProfileEditTerminal
<1>3. transfer.phase = "preparing_target" /\ n = transfer.target =>
          certificateRoutedSubnets(n) = transfer.targetOriginal \cup transfer.routes
  BY <1>2, Zenon DEF certificateRoutedSubnets
<1>4. transfer.phase = "cleaning_target" /\ n = transfer.target =>
          certificateRoutedSubnets(n) = transfer.targetOriginal
  BY <1>2, Zenon DEF certificateRoutedSubnets
<1>5. transfer.phase = "cleaning_source" /\ n = transfer.source =>
          certificateRoutedSubnets(n) = transfer.sourceOriginal \ transfer.routes
  BY <1>2, Zenon DEF certificateRoutedSubnets, TransitionInv, validateNetworkRouteTransfer
<1>6. edit.phase = "preparing_owner" /\ n = edit.node =>
          certificateRoutedSubnets(n) = edit.original \cup edit.desired
  BY <1>2, Zenon DEF certificateRoutedSubnets
<1>7. edit.phase = "cleaning_owner" /\ n = edit.node => certificateRoutedSubnets(n) = edit.desired
  BY <1>2, Zenon DEF certificateRoutedSubnets
<1>8. edit.phase = "cleaning_cancelled_owner" /\ n = edit.node =>
          certificateRoutedSubnets(n) = edit.original
  BY <1>2, Zenon DEF certificateRoutedSubnets
<1>9. ~Waits(n) => certificateRoutedSubnets(n) = routed[n]
  BY Zenon DEF certificateRoutedSubnets, Waits, routeProfileEditIncludesNode, routeProfileEditActive
<1> QED
  BY <1>1, <1>3, <1>4, <1>5, <1>6, <1>7, <1>8, <1>9, Zenon
     DEF AuthorityInv, PreparingTarget, CleaningTarget, CleaningSource, PreparingOwner,
   CleaningOwner, CleaningCancelled, Staged, Rests, Waits, routeProfileEditIncludesNode, routeProfileEditActive,
         Active

\* The steps of a gateway other than a claim move it along its transition.
LEMMA GatewayAuthority ==
    ASSUME TypeOK, TransitionInv, NEW n \in Nodes, RuntimeInv(n), AuthorityInv(n),
           rotateNodeCertificate(n) \/ Gateway(n)
    PROVE  AuthorityInv(n)'
<1>0. NodeInts(n)
  BY NodeTypes, Zenon
<1> USE DEF AuthorityInv, PreparingTarget, CleaningTarget, CleaningSource, PreparingOwner,
   CleaningOwner, CleaningCancelled, Staged, Rests, Waits, routeProfileEditIncludesNode,
            routeProfileEditActive, routeProfileEditTerminal, Active
<1>1. CASE rotateNodeCertificate(n)
  BY <1>0, <1>1, Zenon DEF rotateNodeCertificate, inTransition, routeTransferIncludesNode,
     routeTransferActive, routeTransferTerminal, TypeOK
<1>2. CASE Enroll(n)
  <2>1. ~Waits(n)
    BY <1>2, Zenon DEF Enroll, TransitionInv, validateNetworkRouteTransfer,
       validateNetworkRouteProfileEdit, routeTransferActive, routeTransferTerminal
  <2> QED
    BY <1>2, <2>1, Zenon DEF Enroll, RuntimeInv, TypeOK, flight
<1>3. CASE RenewCommit(n)
  <2>1. /\ cert'[n] \in claim[n] /\ claim'[n] = {} /\ generation'[n] = generation[n] + 1
        /\ UNCHANGED <<transfer, edit, status, routed, live>>
    BY <1>3 DEF RenewCommit, TypeOK, documents
  <2>2. /\ transfer.targetGeneration \in Nat /\ transfer.sourceGeneration \in Nat
        /\ edit.prepared \in Nat /\ edit.cleanup \in Nat
    BY TransitionInts, Zenon
  <2> HIDE DEF AuthorityInv, PreparingTarget, CleaningTarget, CleaningSource, PreparingOwner,
               CleaningOwner, CleaningCancelled, Staged, Rests, Waits,
               routeProfileEditIncludesNode, routeProfileEditActive, routeProfileEditTerminal
  <2>3. CASE Active(n)
    <3>0. /\ PreparingTarget(n) /\ CleaningTarget(n) /\ CleaningSource(n)
          /\ PreparingOwner(n) /\ CleaningOwner(n) /\ CleaningCancelled(n)
          /\ ~Waits(n) => Rests(n)
      BY <2>3, Zenon DEF AuthorityInv
    <3>1. PreparingTarget(n)'
      BY <1>0, <2>1, <2>2, <3>0 DEF PreparingTarget, Staged, NodeInts, RuntimeInv
    <3>2. CleaningTarget(n)'
      BY <1>0, <2>1, <2>2, <3>0 DEF CleaningTarget, Staged, NodeInts, RuntimeInv
    <3>3. CleaningSource(n)'
      BY <1>0, <2>1, <2>2, <3>0 DEF CleaningSource, Staged, NodeInts, RuntimeInv
    <3>4. PreparingOwner(n)'
      BY <1>0, <2>1, <2>2, <3>0 DEF PreparingOwner, Staged, NodeInts, RuntimeInv
    <3>5. CleaningOwner(n)'
      BY <1>0, <2>1, <2>2, <3>0 DEF CleaningOwner, Staged, NodeInts, RuntimeInv
    <3>6. CleaningCancelled(n)'
      BY <1>0, <2>1, <2>2, <3>0 DEF CleaningCancelled, Staged, NodeInts, RuntimeInv
    <3>7. ~Waits(n)' => Rests(n)'
      BY <2>1, <3>0, Zenon DEF Waits, Rests, routeProfileEditIncludesNode, routeProfileEditActive,
         routeProfileEditTerminal
    <3> QED
      BY <3>1, <3>2, <3>3, <3>4, <3>5, <3>6, <3>7, Zenon DEF AuthorityInv
  <2> QED
    BY <1>3, <2>3, Zenon DEF RenewCommit
<1>4. CASE releaseRenewalClaim(n)
  BY <1>4, Zenon DEF releaseRenewalClaim, TypeOK, documents, issued
<1>5. CASE InstallBundle(n)
  BY <1>0, <1>5, Zenon DEF InstallBundle, NodeInts, TypeOK, documents, issued, flight
<1>6. CASE RecoverAgent(n) \/ Heartbeat(n)
  BY <1>6, Zenon DEF RecoverAgent, Heartbeat, documents, issued, flight
<1> HIDE DEF AuthorityInv
<1> QED
  BY ClaimAuthority, <1>1, <1>2, <1>3, <1>4, <1>5, <1>6, Zenon DEF Gateway

\* The requests of a transfer: a signing for its gateway ends before it moves.
LEMMA TransferAuthority ==
    ASSUME SlowSigning = FALSE, TypeOK, TransitionInv, NEW n \in Nodes, RuntimeInv(n),
           AuthorityInv(n),
           \/ \E src, tgt \in Nodes, routes \in SUBSET Prefixes : startRouteTransfer(src, tgt, routes)
           \/ PromoteTransfer \/ CompleteTransfer \/ CancelTransfer \/ FinishCancelTransfer
    PROVE  AuthorityInv(n)'
<1>0. /\ NodeInts(n) /\ transfer \in Transfers /\ edit \in Edits /\ routed \in [Nodes -> Profiles]
      /\ transfer.targetGeneration \in Nat /\ transfer.sourceGeneration \in Nat
  BY NodeTypes, TransitionInts, Zenon DEF TypeOK
<1>i. transfer.targetGeneration \in Nat /\ transfer.sourceGeneration \in Nat
  BY TransitionInts, Zenon
<1>e. routeTransferActive => routeProfileEditTerminal
  BY Phases, Zenon
<1>v. TransferFits /\ validateNetworkRouteTransfer
  BY Zenon DEF TransitionInv
<1> USE DEF routeTransferActive, routeTransferTerminal, routeProfileEditActive,
            routeProfileEditTerminal, Waits, routeProfileEditIncludesNode, Active
<1> DEFINE Quiet == PreparingOwner(n) /\ CleaningOwner(n) /\ CleaningCancelled(n)
<1>q. routeProfileEditTerminal => Quiet
  BY Zenon DEF PreparingOwner, CleaningOwner, CleaningCancelled
<1>1. ASSUME NEW src \in Nodes, NEW tgt \in Nodes, NEW routes \in SUBSET Prefixes,
             startRouteTransfer(src, tgt, routes)
      PROVE  AuthorityInv(n)'
  <2>1. /\ transfer' = [phase |-> "preparing_target", source |-> src, target |-> tgt,
                        routes |-> routes, sourceOriginal |-> routed[src],
                        targetOriginal |-> routed[tgt],
                        targetGeneration |-> generation[tgt] + 1, sourceGeneration |-> 0]
        /\ UNCHANGED <<edit, status, routed, cert, generation, claim, live>>
        /\ claim[tgt] = {} /\ routeProfileEditTerminal /\ routeTransferTerminal
    BY <1>1, Zenon DEF startRouteTransfer, settled, issued, flight
  <2>2. CASE Active(n)
    <3>1. Rests(n)
      BY <2>1, <2>2, Zenon DEF AuthorityInv
    <3>2. Quiet'
      BY <2>1, Zenon DEF PreparingOwner, CleaningOwner, CleaningCancelled
    <3>3. PreparingTarget(n)'
      BY <1>0, <2>1, <2>2, <3>1 DEF PreparingTarget, Staged, Rests, NodeInts, RuntimeInv
    <3>4. CleaningTarget(n)' /\ CleaningSource(n)'
      BY <2>1, Zenon DEF CleaningTarget, CleaningSource
    <3>5. Rests(n)'
      BY <2>1, <3>1, Zenon DEF Rests
    <3> QED
      BY <3>2, <3>3, <3>4, <3>5, Zenon DEF AuthorityInv
  <2> QED
    BY <2>1, <2>2, Zenon DEF AuthorityInv
<1>2. CASE PromoteTransfer
  <2>1. /\ transfer.phase = "preparing_target" /\ routeProfileEditTerminal
        /\ transfer.source \in Nodes /\ transfer.target \in Nodes
        /\ transfer.source # transfer.target /\ transfer.targetGeneration >= 1
        /\ routed[transfer.source] = transfer.sourceOriginal
        /\ routed[transfer.target] = transfer.targetOriginal
    BY <1>2, <1>e, <1>v, Zenon DEF PromoteTransfer, TransferFits, validateNetworkRouteTransfer
  <2>2. /\ transfer'.phase = "cleaning_source" /\ transfer'.source = transfer.source
        /\ transfer'.target = transfer.target /\ transfer'.routes = transfer.routes
        /\ transfer'.sourceOriginal = transfer.sourceOriginal
        /\ transfer'.sourceGeneration = generation[transfer.source] + 1
        /\ UNCHANGED <<edit, status, cert, generation, claim, live>>
        /\ claim[transfer.source] = {} /\ routed' = promotedRouted
    BY <1>0, <1>2, Zenon DEF PromoteTransfer, settled, issued, flight, Transfers
  <2>3. Quiet' /\ PreparingTarget(n)' /\ CleaningTarget(n)'
    BY <2>1, <2>2, Zenon DEF PreparingTarget, CleaningTarget, PreparingOwner, CleaningOwner,
       CleaningCancelled
  <2>4. CASE Active(n) /\ n = transfer.target
    <3>1. /\ claim[n] \subseteq {transfer.targetOriginal \cup transfer.routes}
          /\ cert[n] = transfer.targetOriginal \cup transfer.routes
          /\ live[n].subnets = transfer.targetOriginal \cup transfer.routes
      <4>1. Staged(n, transfer.targetGeneration, transfer.targetOriginal,
                   transfer.targetOriginal \cup transfer.routes, {transfer.targetOriginal})
        BY <2>1, <2>4, Zenon DEF AuthorityInv, PreparingTarget
      <4>2. routeTransferNodeConverged(n, transfer.targetGeneration)
        BY <1>2, <2>4, Zenon DEF PromoteTransfer
      <4>3. transfer.targetGeneration \in Nat /\ transfer.targetGeneration >= 1
        BY <1>i, <2>1, Zenon
      <4> QED
        BY <4>1, <4>2, <4>3, ConvergedRuns, SMT
    <3>2. routed'[n] = transfer.targetOriginal \cup transfer.routes
      BY <2>1, <2>2, <2>4, Zenon DEF promotedRouted
    <3>3. Rests(n)' /\ CleaningSource(n)'
      BY <2>1, <2>2, <2>4, <3>1, <3>2, Zenon DEF Rests, CleaningSource
    <3> QED
      BY <2>3, <3>3, Zenon DEF AuthorityInv
  <2>5. CASE Active(n) /\ n = transfer.source
    <3>1. Rests(n)
      BY <2>1, <2>5, Zenon DEF AuthorityInv
    <3>2. CleaningSource(n)'
      <4>1. /\ cert[n] = transfer.sourceOriginal /\ claim[n] = {}
            /\ live[n].generation # 0 => live[n].subnets = transfer.sourceOriginal
        BY <2>1, <2>2, <2>5, <3>1, Zenon DEF Rests
      <4>2. /\ generation[n] \in Nat /\ live[n].generation \in Nat
            /\ live[n].generation <= generation[n]
        BY <1>0, Zenon DEF NodeInts, RuntimeInv
      <4>3. /\ generation'[n] < transfer'.sourceGeneration
            /\ live'[n].generation < transfer'.sourceGeneration
        BY <2>2, <2>5, <4>2
      <4>4. Staged(n, transfer.sourceGeneration, transfer.sourceOriginal,
                   transfer.sourceOriginal \ transfer.routes, {transfer.sourceOriginal})'
        <5>1. /\ cert'[n] = cert[n] /\ claim'[n] = claim[n] /\ live'[n] = live[n]
              /\ transfer'.sourceOriginal = transfer.sourceOriginal
              /\ transfer'.sourceGeneration = generation[n] + 1 /\ generation'[n] = generation[n]
          BY <2>2, <2>5, Zenon
        <5> QED
          BY <5>1, <4>1, <4>2, <4>3 DEF Staged
      <4> QED
        BY <4>4, Zenon DEF CleaningSource
    <3>3. Waits(n)'
      BY <2>2, <2>5, Zenon
    <3> QED
      BY <2>3, <3>2, <3>3, Zenon DEF AuthorityInv
  <2>6. CASE Active(n) /\ n \notin {transfer.source, transfer.target}
    <3>1. Rests(n)
      BY <2>1, <2>6, Zenon DEF AuthorityInv
    <3>2. routed'[n] = routed[n]
      BY <2>2, <2>6, Zenon DEF promotedRouted
    <3>3. Rests(n)' /\ CleaningSource(n)'
      BY <2>2, <2>6, <3>1, <3>2, Zenon DEF Rests, CleaningSource
    <3> QED
      BY <2>3, <3>3, Zenon DEF AuthorityInv
  <2> QED
    BY <2>2, <2>4, <2>5, <2>6, Zenon DEF AuthorityInv
<1>3. CASE CompleteTransfer
  <2>1. /\ transfer.phase = "cleaning_source" /\ routeProfileEditTerminal
        /\ transfer.source \in Nodes /\ transfer.sourceGeneration >= 1
        /\ routed[transfer.source] = transfer.sourceOriginal \ transfer.routes
    BY <1>0, <1>3, <1>e, <1>v, Zenon DEF CompleteTransfer, TransferFits, validateNetworkRouteTransfer
  <2>2. /\ transfer'.phase = "completed"
        /\ UNCHANGED <<edit, status, routed, cert, generation, claim, live>>
    BY <1>0, <1>3, Zenon DEF CompleteTransfer, issued, flight, Transfers
  <2>3. Quiet' /\ PreparingTarget(n)' /\ CleaningTarget(n)' /\ CleaningSource(n)'
    BY <2>1, <2>2, Zenon DEF PreparingTarget, CleaningTarget, CleaningSource, PreparingOwner,
       CleaningOwner, CleaningCancelled
  <2>4. CASE Active(n) /\ n = transfer.source
    <3>1. /\ claim[n] \subseteq {transfer.sourceOriginal \ transfer.routes}
          /\ cert[n] = transfer.sourceOriginal \ transfer.routes
          /\ live[n].subnets = transfer.sourceOriginal \ transfer.routes
      <4>1. Staged(n, transfer.sourceGeneration, transfer.sourceOriginal,
                   transfer.sourceOriginal \ transfer.routes, {transfer.sourceOriginal})
        BY <2>1, <2>4, Zenon DEF AuthorityInv, CleaningSource
      <4>2. routeTransferNodeConverged(n, transfer.sourceGeneration)
        BY <1>3, <2>4, Zenon DEF CompleteTransfer
      <4>3. transfer.sourceGeneration \in Nat /\ transfer.sourceGeneration >= 1
        BY <1>i, <2>1, Zenon
      <4> QED
        BY <4>1, <4>2, <4>3, ConvergedRuns, SMT
    <3>2. Rests(n)'
      BY <2>1, <2>2, <2>4, <3>1, Zenon DEF Rests
    <3> QED
      BY <2>3, <3>2, Zenon DEF AuthorityInv
  <2>5. CASE Active(n) /\ n # transfer.source
    <3>1. Rests(n)
      BY <2>1, <2>5, Zenon DEF AuthorityInv
    <3>2. Rests(n)'
      BY <2>2, <3>1, Zenon DEF Rests
    <3> QED
      BY <2>3, <3>2, Zenon DEF AuthorityInv
  <2> QED
    BY <2>2, <2>4, <2>5, Zenon DEF AuthorityInv
<1>4. CASE CancelTransfer
  <2>1. /\ transfer.phase = "preparing_target" /\ routeProfileEditTerminal
        /\ transfer.target \in Nodes /\ routed[transfer.target] = transfer.targetOriginal
    BY <1>4, <1>e, <1>v, Zenon DEF CancelTransfer, TransferFits, validateNetworkRouteTransfer
  <2>2. /\ UNCHANGED <<edit, status, routed, cert, generation, claim, live>>
        /\ claim[transfer.target] = {}
    BY <1>4, Zenon DEF CancelTransfer, settled, issued, flight
  <2>3. Quiet' /\ CleaningSource(n)' /\ PreparingTarget(n)'
    <3>1. transfer'.phase \in {"cancelled", "cleaning_target"}
      BY <1>0, <1>4, Zenon DEF CancelTransfer, Transfers
    <3> QED
      BY <2>1, <2>2, <3>1, Zenon DEF PreparingTarget, CleaningSource, PreparingOwner,
         CleaningOwner, CleaningCancelled
  <2>4. CASE Active(n) /\ n = transfer.target /\ transfer' = [transfer EXCEPT !.phase = "cancelled"]
    <3>1. generation[n] < transfer.targetGeneration
      BY <1>0, <1>4, <2>4, Zenon DEF CancelTransfer, Transfers
    <3>2. PreparingTarget(n)
      BY <2>4, Zenon DEF AuthorityInv
    <3>3. Rests(n)'
      BY <1>0, <2>1, <2>2, <2>4, <3>1, <3>2 DEF PreparingTarget, Staged, Rests, NodeInts, RuntimeInv
    <3>4. CleaningTarget(n)'
      BY <1>0, <2>4, Zenon DEF CleaningTarget, Transfers
    <3> QED
      BY <2>3, <3>3, <3>4, Zenon DEF AuthorityInv
  <2>5. CASE /\ Active(n) /\ n = transfer.target
             /\ generation[transfer.target] \in transfer.targetGeneration..(MaxGeneration - 1)
             /\ transfer' = [transfer EXCEPT !.phase = "cleaning_target",
                                !.targetGeneration = generation[transfer.target] + 1]
    <3>1. generation[n] >= transfer.targetGeneration
      BY <1>0, <2>5, BoundsAssumption DEF NodeInts
    <3>2. PreparingTarget(n)
      BY <2>5, Zenon DEF AuthorityInv
    <3>3. /\ transfer'.phase = "cleaning_target" /\ transfer'.target = n
          /\ transfer'.targetGeneration = generation[n] + 1
          /\ transfer'.targetOriginal = transfer.targetOriginal
          /\ transfer'.routes = transfer.routes
      BY <1>0, <2>5, Zenon DEF Transfers
    <3>4. CleaningTarget(n)' /\ Waits(n)'
      BY <1>0, <2>1, <2>2, <2>5, <3>1, <3>2, <3>3
         DEF PreparingTarget, CleaningTarget, Staged, NodeInts, RuntimeInv
    <3> QED
      BY <2>3, <3>4, Zenon DEF AuthorityInv
  <2>6. CASE Active(n) /\ n # transfer.target
    <3>1. Rests(n)
      BY <2>1, <2>6, Zenon DEF AuthorityInv
    <3>2. transfer'.target = transfer.target
      BY <1>0, <1>4, Zenon DEF CancelTransfer, Transfers
    <3>3. Rests(n)' /\ CleaningTarget(n)'
      BY <2>2, <2>6, <3>1, <3>2, Zenon DEF Rests, CleaningTarget
    <3> QED
      BY <2>3, <3>3, Zenon DEF AuthorityInv
  <2>7. \/ transfer' = [transfer EXCEPT !.phase = "cancelled"]
        \/ /\ generation[transfer.target] \in transfer.targetGeneration..(MaxGeneration - 1)
           /\ transfer' = [transfer EXCEPT !.phase = "cleaning_target",
                                !.targetGeneration = generation[transfer.target] + 1]
    BY <1>4, Zenon DEF CancelTransfer
  <2> QED
    BY <2>2, <2>4, <2>5, <2>6, <2>7, Zenon DEF AuthorityInv
<1>5. CASE FinishCancelTransfer
  <2>1. /\ transfer.phase = "cleaning_target" /\ routeProfileEditTerminal
        /\ transfer.target \in Nodes /\ transfer.targetGeneration >= 1
        /\ routed[transfer.target] = transfer.targetOriginal
    BY <1>0, <1>5, <1>e, <1>v, Zenon DEF FinishCancelTransfer, TransferFits, validateNetworkRouteTransfer
  <2>2. /\ transfer'.phase = "cancelled"
        /\ UNCHANGED <<edit, status, routed, cert, generation, claim, live>>
    BY <1>0, <1>5, Zenon DEF FinishCancelTransfer, issued, flight, Transfers
  <2>3. Quiet' /\ PreparingTarget(n)' /\ CleaningTarget(n)' /\ CleaningSource(n)'
    BY <2>1, <2>2, Zenon DEF PreparingTarget, CleaningTarget, CleaningSource, PreparingOwner,
       CleaningOwner, CleaningCancelled
  <2>4. CASE Active(n) /\ n = transfer.target
    <3>1. /\ claim[n] \subseteq {transfer.targetOriginal}
          /\ cert[n] = transfer.targetOriginal /\ live[n].subnets = transfer.targetOriginal
      <4>1. Staged(n, transfer.targetGeneration, transfer.targetOriginal \cup transfer.routes,
                   transfer.targetOriginal,
                   {transfer.targetOriginal, transfer.targetOriginal \cup transfer.routes})
        BY <2>1, <2>4, Zenon DEF AuthorityInv, CleaningTarget
      <4>2. routeTransferNodeConverged(n, transfer.targetGeneration)
        BY <1>5, <2>4, Zenon DEF FinishCancelTransfer
      <4>3. transfer.targetGeneration \in Nat /\ transfer.targetGeneration >= 1
        BY <1>i, <2>1, Zenon
      <4> QED
        BY <4>1, <4>2, <4>3, ConvergedRuns, SMT
    <3>2. Rests(n)'
      BY <2>1, <2>2, <2>4, <3>1, Zenon DEF Rests
    <3> QED
      BY <2>3, <3>2, Zenon DEF AuthorityInv
  <2>5. CASE Active(n) /\ n # transfer.target
    <3>1. Rests(n)
      BY <2>1, <2>5, Zenon DEF AuthorityInv
    <3>2. Rests(n)'
      BY <2>2, <3>1, Zenon DEF Rests
    <3> QED
      BY <2>3, <3>2, Zenon DEF AuthorityInv
  <2> QED
    BY <2>2, <2>4, <2>5, Zenon DEF AuthorityInv
<1> QED
  BY <1>1, <1>2, <1>3, <1>4, <1>5, Zenon

\* The requests of an edit, under the same condition.
LEMMA EditAuthority ==
    ASSUME SlowSigning = FALSE, TypeOK, TransitionInv, NEW n \in Nodes, RuntimeInv(n),
           AuthorityInv(n),
           \/ \E k \in Nodes, desired \in Profiles : startRouteProfileEdit(k, desired)
           \/ PromoteEdit \/ CompleteEdit \/ CancelEdit \/ FinishCancelEdit
    PROVE  AuthorityInv(n)'
<1>0. /\ NodeInts(n) /\ edit \in Edits /\ routed \in [Nodes -> Profiles]
      /\ edit.prepared \in Nat /\ edit.cleanup \in Nat
  BY NodeTypes, TransitionInts, Zenon DEF TypeOK
<1>v. EditFits /\ validateNetworkRouteProfileEdit
  BY Zenon DEF TransitionInv
<1> USE DEF routeTransferActive, routeTransferTerminal, routeProfileEditActive,
            routeProfileEditTerminal, Waits, routeProfileEditIncludesNode, Active
<1> DEFINE Quiet == PreparingTarget(n) /\ CleaningTarget(n) /\ CleaningSource(n)
<1>q. ASSUME UNCHANGED transfer, routeTransferTerminal PROVE Quiet'
  BY <1>q, Zenon DEF PreparingTarget, CleaningTarget, CleaningSource
<1>f. ASSUME Active(n), routeTransferTerminal, n # edit.node \/ routeProfileEditTerminal
      PROVE  Rests(n)
  BY <1>f, Zenon DEF AuthorityInv
<1>1. ASSUME NEW k \in Nodes, NEW desired \in Profiles, startRouteProfileEdit(k, desired)
      PROVE  AuthorityInv(n)'
  <2>1. /\ UNCHANGED <<transfer, status, cert, generation, claim, live>>
        /\ claim[k] = {} /\ routeProfileEditTerminal /\ routeTransferTerminal
        /\ \/ /\ edit' = [phase |-> "preparing_owner", node |-> k, original |-> routed[k],
                          desired |-> desired, prepared |-> generation[k] + 1, cleanup |-> 0]
              /\ UNCHANGED routed
           \/ /\ desired \subseteq routed[k]
              /\ edit' = [phase |-> "cleaning_owner", node |-> k, original |-> routed[k],
                          desired |-> desired, prepared |-> 0, cleanup |-> generation[k] + 1]
              /\ routed' = [routed EXCEPT ![k] = desired]
    BY <1>1, Zenon DEF startRouteProfileEdit, settled, issued, flight
  <2>2. Quiet'
    BY <1>q, <2>1, Zenon
  <2>3. CASE Active(n) /\ n = k
    <3>1. Rests(n)
      BY <1>f, <2>1, <2>3, Zenon
    <3>2. PreparingOwner(n)'
      BY <1>0, <2>1, <2>3, <3>1 DEF PreparingOwner, Staged, Rests, NodeInts, RuntimeInv
    <3>3. CleaningOwner(n)'
      <4>1. CASE /\ desired \subseteq routed[n]
                 /\ edit' = [phase |-> "cleaning_owner", node |-> n, original |-> routed[n],
                             desired |-> desired, prepared |-> 0, cleanup |-> generation[n] + 1]
        <5>1. routed[n] \cup desired = routed[n]
          BY <4>1, Zenon
        <5>2. claim'[n] \subseteq {desired} /\ cert'[n] = routed[n]
          BY <2>1, <2>3, <3>1, Zenon DEF Rests
        <5> QED
          BY <1>0, <2>1, <2>3, <3>1, <4>1, <5>1, <5>2 DEF CleaningOwner, Staged, Rests, NodeInts, RuntimeInv
      <4>2. CASE edit'.phase = "preparing_owner"
        BY <4>2, Zenon DEF CleaningOwner
      <4> QED
        BY <2>1, <2>3, <4>1, <4>2
    <3>4. CleaningCancelled(n)' /\ Waits(n)'
      BY <2>1, <2>3 DEF CleaningCancelled
    <3> QED
      BY <2>2, <3>2, <3>3, <3>4, Zenon DEF AuthorityInv
  <2>4. CASE Active(n) /\ n # k
    <3>1. Rests(n)
      BY <1>f, <2>1, <2>4, Zenon
    <3>2. PreparingOwner(n)' /\ CleaningOwner(n)' /\ CleaningCancelled(n)'
      BY <2>1, <2>4 DEF PreparingOwner, CleaningOwner, CleaningCancelled
    <3>3. Rests(n)'
      BY <1>0, <2>1, <2>4, <3>1, Zenon DEF Rests
    <3> QED
      BY <2>2, <3>2, <3>3, Zenon DEF AuthorityInv
  <2> QED
    BY <2>1, <2>3, <2>4, Zenon DEF AuthorityInv
<1>2. CASE PromoteEdit
  <2>1. /\ edit.phase = "preparing_owner" /\ routeTransferTerminal
        /\ edit.node \in Nodes /\ Active(edit.node) /\ routed[edit.node] = edit.original
        /\ edit.prepared \in {generation[edit.node], generation[edit.node] + 1}
    BY <1>2, <1>v, Zenon DEF PromoteEdit, EditFits, validateNetworkRouteProfileEdit,
       editGenerationFits, routeProfileEditDesiredGeneration
  <2>2. /\ UNCHANGED <<transfer, status, cert, generation, claim, live>>
        /\ routed' = [routed EXCEPT ![edit.node] = edit.desired]
        /\ claim[edit.node] = {}
        /\ \/ edit' = [edit EXCEPT !.phase = "cleaning_owner",
                          !.cleanup = generation[edit.node] + 1]
           \/ /\ edit.original \ edit.desired = {}
              /\ edit' = [edit EXCEPT !.phase = "completed"]
    BY <1>2, Zenon DEF PromoteEdit, settled, issued, flight, routeProfileEditRemovals
  <2>3. Quiet'
    BY <1>q, <2>1, <2>2, Zenon
  <2>4. CASE Active(n) /\ n = edit.node
    <3>1. /\ claim[n] = {} /\ cert[n] = edit.original \cup edit.desired
          /\ live[n].subnets = edit.original \cup edit.desired
          /\ live[n].generation <= generation[n]
      <4>1. Staged(n, edit.prepared, edit.original, edit.original \cup edit.desired,
                   {edit.original})
        BY <2>1, <2>4, Zenon DEF AuthorityInv, PreparingOwner
      <4>2. routeTransferNodeConverged(n, edit.prepared)
        BY <1>2, <2>4, Zenon DEF PromoteEdit
      <4>3. edit.prepared >= 1
        BY <1>0, <2>1, <2>4 DEF NodeInts, RuntimeInv
      <4> QED
        BY <1>0, <2>2, <2>4, <4>1, <4>2, <4>3, ConvergedRuns DEF RuntimeInv
    <3>2. CASE edit' = [edit EXCEPT !.phase = "cleaning_owner",
                          !.cleanup = generation[edit.node] + 1]
      <4>1. /\ edit'.phase = "cleaning_owner" /\ edit'.node = n
            /\ edit'.cleanup = generation[n] + 1
            /\ edit'.original = edit.original /\ edit'.desired = edit.desired
        BY <1>0, <2>4, <3>2, Zenon DEF Edits
      <4>2. CleaningOwner(n)'
        BY <1>0, <2>2, <3>1, <4>1 DEF CleaningOwner, Staged, NodeInts
      <4>3. PreparingOwner(n)' /\ CleaningCancelled(n)' /\ Waits(n)'
        BY <4>1, Zenon DEF PreparingOwner, CleaningCancelled
      <4> QED
        BY <2>3, <4>2, <4>3, Zenon DEF AuthorityInv
    <3>3. CASE /\ edit.original \ edit.desired = {}
               /\ edit' = [edit EXCEPT !.phase = "completed"]
      <4>1. edit'.phase = "completed" /\ edit.original \cup edit.desired = edit.desired
        BY <1>0, <3>3, Zenon DEF Edits
      <4>2. Rests(n)'
        BY <1>0, <2>2, <2>4, <3>1, <4>1, Zenon DEF Rests
      <4>3. PreparingOwner(n)' /\ CleaningOwner(n)' /\ CleaningCancelled(n)'
        BY <4>1, Zenon DEF PreparingOwner, CleaningOwner, CleaningCancelled
      <4> QED
        BY <2>3, <4>2, <4>3, Zenon DEF AuthorityInv
    <3> QED
      BY <2>2, <3>2, <3>3, Zenon
  <2>5. CASE Active(n) /\ n # edit.node
    <3>1. Rests(n)
      BY <1>f, <2>1, <2>5, Zenon
    <3>2. edit'.node = edit.node
      BY <1>0, <2>2, Zenon DEF Edits
    <3>3. Rests(n)' /\ PreparingOwner(n)' /\ CleaningOwner(n)' /\ CleaningCancelled(n)'
      BY <1>0, <2>2, <2>5, <3>1, <3>2, Zenon DEF Rests, PreparingOwner, CleaningOwner, CleaningCancelled
    <3> QED
      BY <2>3, <3>3, Zenon DEF AuthorityInv
  <2> QED
    BY <2>2, <2>4, <2>5, Zenon DEF AuthorityInv
<1>3. ASSUME NEW after \in Profiles, NEW before, NEW seen, NEW phase, phase \in {"completed", "cancelled"},
             routeTransferTerminal, routeProfileEditActive, edit.node \in Nodes,
             routed[edit.node] = after,
             routeTransferNodeConverged(edit.node, edit.cleanup),
             n = edit.node /\ Active(n) => edit.cleanup >= 1 /\ Staged(n, edit.cleanup, before, after, seen),
             edit' = [edit EXCEPT !.phase = phase],
             UNCHANGED <<transfer, status, routed, cert, generation, claim, live>>
      PROVE  AuthorityInv(n)'
  <2>1. edit'.phase = phase
    BY <1>0, <1>3, Zenon DEF Edits
  <2>2. Quiet'
    BY <1>q, <1>3, Zenon
  <2>3. PreparingOwner(n)' /\ CleaningOwner(n)' /\ CleaningCancelled(n)'
    BY <1>3, <2>1, Zenon DEF PreparingOwner, CleaningOwner, CleaningCancelled
  <2>4. CASE Active(n) /\ n = edit.node
    <3>1. claim[n] \subseteq {after} /\ cert[n] = after /\ live[n].subnets = after
      BY <1>0, <1>3, <2>4, ConvergedRuns
    <3>2. Rests(n)'
      BY <1>3, <2>4, <3>1, Zenon DEF Rests
    <3> QED
      BY <2>2, <2>3, <3>2, Zenon DEF AuthorityInv
  <2>5. CASE Active(n) /\ n # edit.node
    <3>1. Rests(n)
      BY <1>f, <1>3, <2>5, Zenon
    <3>2. Rests(n)'
      BY <1>3, <3>1, Zenon DEF Rests
    <3> QED
      BY <2>2, <2>3, <3>2, Zenon DEF AuthorityInv
  <2> QED
    BY <1>3, <2>4, <2>5, Zenon DEF AuthorityInv
<1>g. edit.phase \in {"cleaning_owner", "cleaning_cancelled_owner"} =>
          /\ routeTransferTerminal /\ edit.node \in Nodes /\ Active(edit.node)
          /\ edit.cleanup \in {generation[edit.node], generation[edit.node] + 1}
          /\ routed[edit.node] = IF edit.phase = "cleaning_owner" THEN edit.desired
                                                                  ELSE edit.original
  BY <1>v, Zenon DEF EditFits, validateNetworkRouteProfileEdit, editGenerationFits,
     routeProfileEditDesiredGeneration
<1>4. CASE CompleteEdit
  <2>1. /\ edit.phase = "cleaning_owner" /\ edit' = [edit EXCEPT !.phase = "completed"]
        /\ routeTransferNodeConverged(edit.node, edit.cleanup)
        /\ UNCHANGED <<transfer, status, routed, cert, generation, claim, live>>
    BY <1>4, Zenon DEF CompleteEdit, issued, flight
  <2>2. /\ n = edit.node => edit.cleanup >= 1
        /\ edit.desired \in Profiles
    BY <1>0, <1>g, <2>1 DEF Edits, NodeInts, RuntimeInv
  <2>3. n = edit.node /\ Active(n) =>
          Staged(n, edit.cleanup, edit.original \cup edit.desired, edit.desired,
                 {edit.original \cup edit.desired})
    BY <2>1, Zenon DEF AuthorityInv, CleaningOwner
  <2> QED
    BY <1>3, <1>g, <2>1, <2>2, <2>3, Zenon
<1>5. CASE CancelEdit
  <2>1. /\ edit.phase = "preparing_owner" /\ routeTransferTerminal
        /\ edit.node \in Nodes /\ routed[edit.node] = edit.original
    BY <1>5, <1>v, Zenon DEF CancelEdit, EditFits, validateNetworkRouteProfileEdit
  <2>2. /\ UNCHANGED <<transfer, status, routed, cert, generation, claim, live>>
        /\ claim[edit.node] = {}
        /\ \/ /\ generation[edit.node] < edit.prepared
              /\ edit' = [edit EXCEPT !.phase = "cancelled"]
           \/ /\ generation[edit.node] \in edit.prepared..(MaxGeneration - 1)
              /\ edit' = [edit EXCEPT !.phase = "cleaning_cancelled_owner",
                              !.cleanup = generation[edit.node] + 1]
    BY <1>5, Zenon DEF CancelEdit, settled, issued, flight
  <2>3. Quiet'
    BY <1>q, <2>1, <2>2, Zenon
  <2>4. CASE /\ Active(n) /\ n = edit.node /\ generation[edit.node] < edit.prepared
             /\ edit' = [edit EXCEPT !.phase = "cancelled"]
    <3>1. edit'.phase = "cancelled"
      BY <1>0, <2>4, Zenon DEF Edits
    <3>2. PreparingOwner(n)
      BY <2>4, Zenon DEF AuthorityInv
    <3>3. Rests(n)'
      BY <1>0, <2>1, <2>2, <2>4, <3>2 DEF PreparingOwner, Staged, Rests, NodeInts, RuntimeInv
    <3>4. PreparingOwner(n)' /\ CleaningOwner(n)' /\ CleaningCancelled(n)'
      BY <3>1, Zenon DEF PreparingOwner, CleaningOwner, CleaningCancelled
    <3> QED
      BY <2>3, <3>3, <3>4, Zenon DEF AuthorityInv
  <2>5. CASE /\ Active(n) /\ n = edit.node
             /\ generation[edit.node] \in edit.prepared..(MaxGeneration - 1)
             /\ edit' = [edit EXCEPT !.phase = "cleaning_cancelled_owner",
                              !.cleanup = generation[edit.node] + 1]
    <3>1. generation[n] >= edit.prepared
      BY <1>0, <2>5, BoundsAssumption DEF NodeInts
    <3>2. PreparingOwner(n)
      BY <2>5, Zenon DEF AuthorityInv
    <3>3. /\ edit'.phase = "cleaning_cancelled_owner" /\ edit'.node = n
          /\ edit'.cleanup = generation[n] + 1
          /\ edit'.original = edit.original /\ edit'.desired = edit.desired
      BY <1>0, <2>5, Zenon DEF Edits
    <3>4. CleaningCancelled(n)'
      BY <1>0, <2>1, <2>2, <2>5, <3>1, <3>2, <3>3
         DEF PreparingOwner, CleaningCancelled, Staged, NodeInts, RuntimeInv
    <3>5. PreparingOwner(n)' /\ CleaningOwner(n)' /\ Waits(n)'
      BY <3>3, Zenon DEF PreparingOwner, CleaningOwner
    <3> QED
      BY <2>3, <3>4, <3>5, Zenon DEF AuthorityInv
  <2>6. CASE Active(n) /\ n # edit.node
    <3>1. Rests(n)
      BY <1>f, <2>1, <2>6, Zenon
    <3>2. edit'.node = edit.node
      BY <1>0, <2>2, Zenon DEF Edits
    <3>3. Rests(n)' /\ PreparingOwner(n)' /\ CleaningOwner(n)' /\ CleaningCancelled(n)'
      BY <2>2, <2>6, <3>1, <3>2, Zenon DEF Rests, PreparingOwner, CleaningOwner, CleaningCancelled
    <3> QED
      BY <2>3, <3>3, Zenon DEF AuthorityInv
  <2> QED
    BY <2>2, <2>4, <2>5, <2>6, Zenon DEF AuthorityInv
<1>6. CASE FinishCancelEdit
  <2>1. /\ edit.phase = "cleaning_cancelled_owner" /\ edit' = [edit EXCEPT !.phase = "cancelled"]
        /\ routeTransferNodeConverged(edit.node, edit.cleanup)
        /\ UNCHANGED <<transfer, status, routed, cert, generation, claim, live>>
    BY <1>6, Zenon DEF FinishCancelEdit, issued, flight
  <2>2. /\ n = edit.node => edit.cleanup >= 1
        /\ edit.original \in Profiles
    BY <1>0, <1>g, <2>1 DEF Edits, NodeInts, RuntimeInv
  <2>3. n = edit.node /\ Active(n) =>
          Staged(n, edit.cleanup, edit.original \cup edit.desired, edit.original,
                 {edit.original, edit.original \cup edit.desired})
    BY <2>1, Zenon DEF AuthorityInv, CleaningCancelled
  <2> QED
    BY <1>3, <1>g, <2>1, <2>2, <2>3, Zenon
<1> QED
  BY <1>1, <1>2, <1>4, <1>5, <1>6, Zenon

\* Revoking and replacing a node leave every node that stays active as it was.
LEMMA MembershipAuthority ==
    ASSUME TypeOK, NEW n \in Nodes, AuthorityInv(n),
           \/ \E k \in Nodes : revokeNode(k)
           \/ \E k, m \in Nodes : replaceNode(k, m)
    PROVE  AuthorityInv(n)'
<1>1. /\ UNCHANGED <<transfer, edit, cert, generation, appliedGen, live>>
      /\ Active(n)' => UNCHANGED <<status[n], routed[n], claim[n]>>
  <2>1. ASSUME NEW k \in Nodes, revokeNode(k)
        PROVE  /\ UNCHANGED <<transfer, edit, cert, generation, appliedGen, live>>
               /\ Active(n)' => UNCHANGED <<status[n], routed[n], claim[n]>>
    BY <2>1, Zenon DEF revokeNode, revoked, issued, reports, Active, TypeOK
  <2>2. ASSUME NEW k \in Nodes, NEW m \in Nodes, replaceNode(k, m)
        PROVE  /\ UNCHANGED <<transfer, edit, cert, generation, appliedGen, live>>
               /\ Active(n)' => UNCHANGED <<status[n], routed[n], claim[n]>>
    BY <2>2 DEF replaceNode, revoked, issued, reports, Active, TypeOK
  <2> QED
    BY <2>1, <2>2, Zenon
<1>2. CASE Active(n)'
  <2>1. UNCHANGED <<transfer, edit, nodeView(n)>>
    BY <1>1, <1>2, Zenon DEF nodeView
  <2> QED
    BY <2>1, AuthorityFrame, Zenon
<1> QED
  BY <1>2, Zenon DEF AuthorityInv

LEMMA AuthorityStep ==
    ASSUME SlowSigning = FALSE, TypeOK, TransitionInv, NEW n \in Nodes, RuntimeInv(n),
           AuthorityInv(n), [Next]_vars
    PROVE  AuthorityInv(n)'
<1>1. ASSUME NEW k \in Nodes, rotateNodeCertificate(k) \/ Gateway(k)
      PROVE  AuthorityInv(n)'
  <2>1. CASE k = n
    BY <1>1, <2>1, GatewayAuthority, Zenon
  <2>2. CASE k # n
    <3>1. UNCHANGED <<transfer, edit, nodeView(n)>>
      BY <1>1, <2>2, OthersAlone, Zenon
    <3> QED
      BY <3>1, AuthorityFrame, Zenon
  <2> QED
    BY <2>1, <2>2, Zenon
<1>2. ASSUME NEW p \in Prefixes, updateNetworkRoutePolicy(p) PROVE AuthorityInv(n)'
  <2>1. UNCHANGED <<transfer, edit, nodeView(n)>>
    BY <1>2, Zenon DEF updateNetworkRoutePolicy, nodeView, issued, reports, flight
  <2> QED
    BY <2>1, AuthorityFrame, Zenon
<1>3. CASE UNCHANGED vars
  <2>1. UNCHANGED <<transfer, edit, nodeView(n)>>
    BY <1>3, Zenon DEF vars, documents, nodeView, issued, reports, flight
  <2> QED
    BY <2>1, AuthorityFrame, Zenon
<1>4. CASE Administrator
  <2>1. ASSUME \/ \E src, tgt \in Nodes, routes \in SUBSET Prefixes :
                      startRouteTransfer(src, tgt, routes)
               \/ PromoteTransfer \/ CompleteTransfer \/ CancelTransfer \/ FinishCancelTransfer
        PROVE  AuthorityInv(n)'
    BY <2>1, TransferAuthority, Zenon
  <2>2. ASSUME \/ \E k \in Nodes, desired \in Profiles : startRouteProfileEdit(k, desired)
               \/ PromoteEdit \/ CompleteEdit \/ CancelEdit \/ FinishCancelEdit
        PROVE  AuthorityInv(n)'
    BY <2>2, EditAuthority, Zenon
  <2>3. ASSUME \/ \E k \in Nodes : revokeNode(k)
               \/ \E k, m \in Nodes : replaceNode(k, m)
        PROVE  AuthorityInv(n)'
    BY <2>3, MembershipAuthority, Zenon
  <2> QED
    BY <1>1, <1>2, <1>4, <2>1, <2>2, <2>3, Zenon DEF Administrator, updateNodeGroups
<1> QED
  BY <1>1, <1>3, <1>4, Zenon DEF Next

LEMMA InvInit == Init => IInv
<1> SUFFICES ASSUME Init PROVE IInv
  BY Zenon
<1>1. SnapshotInv
  BY SnapshotInit, Zenon
<1>2. ASSUME NEW n \in Nodes PROVE RuntimeInv(n) /\ AuthorityInv(n)
  <2>1. transfer.phase = "none" /\ edit.phase = "none"
    BY Zenon DEF Init, NoTransfer, NoEdit
  <2>2. CASE n \in Enrolled
    <3>1. /\ status[n] = "active" /\ routed[n] = Profile[n] /\ cert[n] = Profile[n]
          /\ generation[n] = Issued[n] /\ appliedGen[n] = Issued[n] /\ claim[n] = {}
          /\ live[n].generation = Issued[n] /\ live[n].subnets = Profile[n]
      BY <2>2, NodesAssumption, Zenon DEF Init, Enrolled
    <3>2. Issued[n] \in Nat /\ Issued[n] >= 1
      BY BoundsAssumption
    <3>3. RuntimeInv(n)
      BY <3>1, <3>2 DEF RuntimeInv, Active
    <3>4. Rests(n)
      BY <3>1, Zenon DEF Rests
    <3> QED
      BY <2>1, <3>3, <3>4, Zenon DEF AuthorityInv, PreparingTarget, CleaningTarget, CleaningSource,
         PreparingOwner, CleaningOwner, CleaningCancelled
  <2>3. CASE n \notin Enrolled
    <3>1. /\ status[n] # "active" /\ generation[n] = 0 /\ appliedGen[n] = 0 /\ claim[n] = {}
          /\ live[n].generation = 0
      BY <2>3, Zenon DEF Init, NoBundle
    <3> QED
      BY <3>1 DEF RuntimeInv, AuthorityInv, Active
  <2> QED
    BY <2>2, <2>3, Zenon
<1> QED
  BY <1>1, <1>2, Zenon DEF IInv

\* What the authority of every gateway says of the prefixes it publishes.
LEMMA AuthorityEnough == IInv => AuthorityFollowsRoutes
<1> SUFFICES ASSUME IInv, NEW n \in Nodes, Active(n), live[n].generation # 0
             PROVE  /\ routed[n] \subseteq live[n].subnets
                    /\ ~inTransition(n) => live[n].subnets = routed[n]
  BY Zenon DEF AuthorityFollowsRoutes, PublishedIsAuthorised, RestingAuthorityIsExact
<1>0. TypeOK /\ TransitionInv /\ AuthorityInv(n) /\ NodeInts(n)
  BY NodeTypes, Zenon DEF IInv, SnapshotInv
<1> USE DEF routeTransferActive, routeTransferTerminal, routeProfileEditActive,
            routeProfileEditTerminal
<1>1. CASE ~Waits(n)
  BY <1>0, <1>1, Zenon DEF AuthorityInv, Rests
<1>2. CASE Waits(n)
  <2>1. inTransition(n)
    BY <1>2, Zenon DEF Waits, inTransition, routeTransferIncludesNode, routeProfileEditIncludesNode
  <2>2. CASE transfer.phase = "preparing_target" /\ n = transfer.target
    <3>1. routed[n] = transfer.targetOriginal
      BY <1>0, <2>2, Zenon DEF TransitionInv, validateNetworkRouteTransfer
    <3>2. live[n].subnets \in {transfer.targetOriginal, transfer.targetOriginal \cup transfer.routes}
      BY <1>0, <2>2, BoundsAssumption
         DEF AuthorityInv, PreparingTarget, Staged, NodeInts, TypeOK, Transfers, Generations
    <3> QED
      BY <2>1, <3>1, <3>2, Zenon
  <2>3. CASE transfer.phase = "cleaning_target" /\ n = transfer.target
    <3>1. routed[n] = transfer.targetOriginal
      BY <1>0, <2>3, Zenon DEF TransitionInv, validateNetworkRouteTransfer
    <3>2. live[n].subnets \in {transfer.targetOriginal, transfer.targetOriginal \cup transfer.routes}
      BY <1>0, <2>3, BoundsAssumption
         DEF AuthorityInv, CleaningTarget, Staged, NodeInts, TypeOK, Transfers, Generations
    <3> QED
      BY <2>1, <3>1, <3>2, Zenon
  <2>4. CASE transfer.phase = "cleaning_source" /\ n = transfer.source
    <3>1. routed[n] = transfer.sourceOriginal \ transfer.routes
      BY <1>0, <2>4, Zenon DEF TransitionInv, validateNetworkRouteTransfer
    <3>2. live[n].subnets \in {transfer.sourceOriginal, transfer.sourceOriginal \ transfer.routes}
      BY <1>0, <2>4, BoundsAssumption
         DEF AuthorityInv, CleaningSource, Staged, NodeInts, TypeOK, Transfers, Generations
    <3> QED
      BY <2>1, <3>1, <3>2, Zenon
  <2>5. CASE routeProfileEditActive /\ n = edit.node
    <3>1. routed[n] = IF edit.phase = "cleaning_owner" THEN edit.desired ELSE edit.original
      BY <1>0, <2>5, Zenon DEF TransitionInv, validateNetworkRouteProfileEdit
    <3>2. CASE edit.phase = "preparing_owner"
      <4>1. live[n].subnets \in {edit.original, edit.original \cup edit.desired}
        BY <1>0, <2>5, <3>2, BoundsAssumption
           DEF AuthorityInv, PreparingOwner, Staged, NodeInts, TypeOK, Edits, Generations
      <4> QED
        BY <2>1, <3>1, <3>2, <4>1, Zenon
    <3>3. CASE edit.phase = "cleaning_owner"
      <4>1. live[n].subnets \in {edit.desired, edit.original \cup edit.desired}
        BY <1>0, <2>5, <3>3, BoundsAssumption
           DEF AuthorityInv, CleaningOwner, Staged, NodeInts, TypeOK, Edits, Generations
      <4> QED
        BY <2>1, <3>1, <3>3, <4>1, Zenon
    <3>4. CASE edit.phase = "cleaning_cancelled_owner"
      <4>1. live[n].subnets \in {edit.original, edit.original \cup edit.desired}
        BY <1>0, <2>5, <3>4, BoundsAssumption
           DEF AuthorityInv, CleaningCancelled, Staged, NodeInts, TypeOK, Edits, Generations
      <4> QED
        BY <2>1, <3>1, <3>4, <4>1, Zenon
    <3> QED
      BY <1>0, <2>5, <3>2, <3>3, <3>4, Phases, Zenon DEF EditPhases
  <2> QED
    BY <1>2, <2>2, <2>3, <2>4, <2>5, Zenon DEF Waits, routeProfileEditIncludesNode
<1> QED
  BY <1>1, <1>2, Zenon

\* When no signing outlasts a move of its gateway's transition, every prefix a network
\* publishes is authorised by the certificate its gateway runs, and a gateway outside
\* every transition runs authority for exactly what it publishes: startRouteTransfer,
\* startRouteProfileEdit and the requests that follow them stage certificates before
\* routes and withdraw routes before certificates.
THEOREM RoutesAreAuthorised == ASSUME SlowSigning = FALSE PROVE Spec => []AuthorityFollowsRoutes
<1>1. Init => IInv
  BY InvInit, Zenon
<1>2. IInv /\ [Next]_vars => IInv'
  <2> SUFFICES ASSUME IInv, [Next]_vars PROVE IInv'
    BY Zenon
  <2>1. SnapshotInv'
    BY SnapshotStep, Zenon DEF IInv
  <2>2. ASSUME NEW n \in Nodes PROVE RuntimeInv(n)' /\ AuthorityInv(n)'
    <3>1. TypeOK /\ TransitionInv /\ RuntimeInv(n) /\ AuthorityInv(n)
      BY Zenon DEF IInv, SnapshotInv
    <3>2. RuntimeInv(n)'
      BY <3>1, RuntimeStep, Zenon
    <3>3. AuthorityInv(n)'
      BY <3>1, AuthorityStep, Zenon
    <3> QED
      BY <3>2, <3>3, Zenon
  <2> QED
    BY <2>1, <2>2, Zenon DEF IInv
<1>3. IInv => AuthorityFollowsRoutes
  BY AuthorityEnough, Zenon
<1> QED
  BY <1>1, <1>2, <1>3, PTL DEF Spec
=============================================================================
