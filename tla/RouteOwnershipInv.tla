------------------------- MODULE RouteOwnershipInv -------------------------
(***************************************************************************)
(* What RouteOwnership keeps however long a signing takes, for any         *)
(* gateways, prefixes and bounds: the types, the snapshots of a transition *)
(* and the owner of a moving prefix.                                       *)
(***************************************************************************)
EXTENDS RouteOwnership, FiniteSetTheorems, TLAPS

\* A transition is between nodes of the network, and what it stages fits a node record.
TransferFits == routeTransferActive =>
    /\ transfer.source \in Nodes /\ transfer.target \in Nodes
    /\ transfer.targetOriginal \cup transfer.routes \in Profiles
EditFits == routeProfileEditActive =>
    edit.node \in Nodes /\ edit.original \cup edit.desired \in Profiles
TransitionInv ==
    TransferFits /\ EditFits /\ validateNetworkRouteTransfer /\ validateNetworkRouteProfileEdit

\* An identity that is not active yet was not enrolled from the start.
LateIdentities == \A n \in Nodes : status[n] \in {"unused", "pending"} => n \notin Enrolled

\* A policy names exactly the active owners of its prefix.
PolicyInv == \A p \in Prefixes : policies[p] \in {{}, activeRouteOwners(p)}

SnapshotInv ==
    TypeOK /\ TransitionInv /\ PolicyInv /\ LateIdentities /\ TransferHasOneOwner

-----------------------------------------------------------------------------
(* Types.                                                                  *)

\* Part of a node's prefixes fits a node record.
LEMMA Subprofile == ASSUME NEW s \in Profiles, NEW t \in SUBSET s PROVE t \in Profiles
<1>1. s \in SUBSET Prefixes /\ Cardinality(s) <= MaxSubnets
  BY Zenon DEF Profiles
<1>2. IsFiniteSet(s)
  BY <1>1, ProfileAssumption, FS_Subset, Zenon
<1>3. Cardinality(t) <= Cardinality(s) /\ IsFiniteSet(t)
  BY <1>2, FS_Subset, Zenon
<1>4. Cardinality(t) \in Int /\ Cardinality(s) \in Int
  BY <1>2, <1>3, FS_CardinalityType
<1> QED
  BY <1>1, <1>3, <1>4, BoundsAssumption DEF Profiles

\* Whatever phase a transition is in, a certificate fits a node record.
LEMMA Signable ==
    ASSUME TypeOK, TransitionInv, NEW n \in Nodes PROVE certificateRoutedSubnets(n) \in Profiles
<1>1. routed[n] \in Profiles /\ transfer.targetOriginal \in Profiles
      /\ edit.desired \in Profiles /\ edit.original \in Profiles
  BY Zenon DEF TypeOK, Transfers, Edits
<1>2. transfer.phase = "preparing_target" => transfer.targetOriginal \cup transfer.routes \in Profiles
  BY Zenon DEF TransitionInv, TransferFits, routeTransferActive, routeTransferTerminal
<1>3. edit.phase = "preparing_owner" => edit.original \cup edit.desired \in Profiles
  BY Zenon DEF TransitionInv, EditFits, routeProfileEditActive,
       routeProfileEditTerminal
<1> QED
  BY <1>1, <1>2, <1>3, Zenon DEF certificateRoutedSubnets

\* The records of a network before any transition are well typed.
LEMMA TypeInit == Init => TypeOK
<1> SUFFICES ASSUME Init PROVE TypeOK
  BY Zenon
<1> USE BoundsAssumption, ProfileAssumption DEF Revisions, Generations
<1>1. transfer \in Transfers
  BY DEF Init, NoTransfer, Transfers, TransferPhases
<1>2. edit \in Edits
  BY DEF Init, NoEdit, Edits, EditPhases
<1>3. live \in [Nodes -> [revision : Revisions, generation : Generations, subnets : Profiles]]
  BY DEF Init, NoBundle
<1> QED
  BY <1>1, <1>2, <1>3 DEF Init, TypeOK

\* Moving a transition on keeps its record well typed.
LEMMA TransferUpdate ==
    ASSUME NEW t \in Transfers, NEW ph \in TransferPhases
    PROVE  /\ [t EXCEPT !.phase = ph] \in Transfers
           /\ \A g \in Generations :
                 /\ [t EXCEPT !.phase = ph, !.targetGeneration = g] \in Transfers
                 /\ [t EXCEPT !.phase = ph, !.sourceGeneration = g] \in Transfers
BY Zenon DEF Transfers

LEMMA EditUpdate ==
    ASSUME NEW e \in Edits, NEW ph \in EditPhases
    PROVE  /\ [e EXCEPT !.phase = ph] \in Edits
           /\ \A g \in Generations : [e EXCEPT !.phase = ph, !.cleanup = g] \in Edits
BY Zenon DEF Edits

\* Every request and every agent step keeps the records well typed.
LEMMA TypeStep == TypeOK /\ TransitionInv /\ [Next]_vars => TypeOK'
<1> SUFFICES ASSUME TypeOK, TransitionInv, [Next]_vars PROVE TypeOK'
  BY Zenon
<1> USE NodesAssumption, ProfileAssumption, BoundsAssumption
        DEF TypeOK, Revisions, Generations, documents, issued, reports, flight,
            nextConfigRevision
<1>a. /\ {"cleaning_source", "cleaning_target", "completed", "cancelled"} \subseteq TransferPhases
      /\ {"cleaning_owner", "cleaning_cancelled_owner", "completed", "cancelled"} \subseteq EditPhases
  BY Zenon DEF TransferPhases, EditPhases
<1>1. ASSUME NEW src \in Nodes, NEW tgt \in Nodes, NEW routes \in SUBSET Prefixes,
             startRouteTransfer(src, tgt, routes)
      PROVE  TypeOK'
  BY <1>1 DEF startRouteTransfer, Transfers, TransferPhases
<1>2. CASE PromoteTransfer
  <2>1. transfer.targetOriginal \cup transfer.routes \in Profiles
    BY <1>2, Zenon DEF PromoteTransfer, TransitionInv, TransferFits, routeTransferActive, routeTransferTerminal
  <2>2. transfer.sourceOriginal \ transfer.routes \in Profiles
    BY Subprofile DEF Transfers
  <2>3. promotedRouted \in [Nodes -> Profiles]
    BY <2>1, <2>2, Zenon DEF promotedRouted
  <2>4. policies' \in [Prefixes -> SUBSET Nodes]
    BY <1>2, Zenon DEF PromoteTransfer, reconcileNetworkRoutePolicies, OwnersIn
  <2>5. transfer.source \in Nodes
    BY <1>2, Zenon DEF PromoteTransfer, TransitionInv, TransferFits, routeTransferActive, routeTransferTerminal
  <2>6. transfer' \in Transfers
    <3>1. generation[transfer.source] + 1 \in Generations
      BY <1>2, <2>5 DEF PromoteTransfer
    <3> QED
      BY <1>a, <1>2, <3>1, TransferUpdate, Zenon DEF PromoteTransfer
  <2> QED
    BY <1>2, <2>3, <2>4, <2>6 DEF PromoteTransfer
<1>3. CASE CompleteTransfer
  BY <1>3, <1>a, TransferUpdate, Zenon DEF CompleteTransfer
<1>4. CASE CancelTransfer
  <2>1. transfer.target \in Nodes
    BY <1>4, Zenon DEF CancelTransfer, TransitionInv, TransferFits, routeTransferActive, routeTransferTerminal
  <2>2. transfer.targetGeneration \in Generations
    BY Zenon DEF Transfers
  <2>3. generation[transfer.target] \in transfer.targetGeneration..(MaxGeneration - 1)
            => generation[transfer.target] + 1 \in Generations
    BY <2>1, <2>2
  <2>4. \/ transfer' = [transfer EXCEPT !.phase = "cancelled"]
        \/ \E g \in Generations :
              transfer' = [transfer EXCEPT !.phase = "cleaning_target", !.targetGeneration = g]
    BY <1>4, <2>3, Zenon DEF CancelTransfer
  <2>5. transfer' \in Transfers
    <3>1. CASE transfer' = [transfer EXCEPT !.phase = "cancelled"]
      BY <1>a, <3>1, TransferUpdate, Zenon
    <3>2. ASSUME NEW g \in Generations,
                 transfer' = [transfer EXCEPT !.phase = "cleaning_target", !.targetGeneration = g]
          PROVE  transfer' \in Transfers
      BY <1>a, <3>2, TransferUpdate, Zenon
    <3> QED
      BY <2>4, <3>1, <3>2, Zenon
  <2> QED
    BY <1>4, <2>5 DEF CancelTransfer
<1>5. CASE FinishCancelTransfer
  BY <1>5, <1>a, TransferUpdate, Zenon DEF FinishCancelTransfer
<1>6. ASSUME NEW n \in Nodes, NEW desired \in Profiles, startRouteProfileEdit(n, desired)
      PROVE  TypeOK'
  <2>1. \A st, rt : reconcileNetworkRoutePolicies(st, rt) => policies' \in [Prefixes -> SUBSET Nodes]
    BY DEF reconcileNetworkRoutePolicies, OwnersIn
  <2>2. routed[n] \in Profiles /\ generation[n] + 1 \in Generations
    BY <1>6 DEF startRouteProfileEdit
  <2>3. edit' \in Edits
    BY <1>6, <2>2 DEF startRouteProfileEdit, Edits, EditPhases
  <2>4. routed' = routed \/ routed' = [routed EXCEPT ![n] = desired]
    BY <1>6, Zenon DEF startRouteProfileEdit
  <2>5. policies' = policies \/ reconcileNetworkRoutePolicies(status, routed')
    BY <1>6, Zenon DEF startRouteProfileEdit
  <2>6. policies' \in [Prefixes -> SUBSET Nodes]
    BY <2>1, <2>5, Zenon
  <2>7. routed' \in [Nodes -> Profiles]
    BY <2>4, Zenon
  <2> QED
    BY <1>6, <2>3, <2>6, <2>7 DEF startRouteProfileEdit
<1>7. CASE PromoteEdit
  <2>1. policies' \in [Prefixes -> SUBSET Nodes]
    BY <1>7, Zenon DEF PromoteEdit, reconcileNetworkRoutePolicies, OwnersIn
  <2>2. edit.node \in Nodes
    BY <1>7, Zenon DEF PromoteEdit, TransitionInv, EditFits, routeProfileEditActive,
       routeProfileEditTerminal
  <2>3. generation[edit.node] < MaxGeneration => generation[edit.node] + 1 \in Generations
    BY <2>2
  <2>a. \/ edit' = [edit EXCEPT !.phase = "completed"]
        \/ \E g \in Generations : edit' = [edit EXCEPT !.phase = "cleaning_owner", !.cleanup = g]
    BY <1>7, <2>3, Zenon DEF PromoteEdit
  <2>b. edit' \in Edits
    <3>1. CASE edit' = [edit EXCEPT !.phase = "completed"]
      BY <1>a, <3>1, EditUpdate, Zenon
    <3>2. ASSUME NEW g \in Generations,
                 edit' = [edit EXCEPT !.phase = "cleaning_owner", !.cleanup = g]
          PROVE  edit' \in Edits
      BY <1>a, <3>2, EditUpdate, Zenon
    <3> QED
      BY <2>a, <3>1, <3>2, Zenon
  <2>4. routed' \in [Nodes -> Profiles]
    BY <1>7, <2>2, Zenon DEF PromoteEdit, Edits
  <2> QED
    BY <1>7, <2>1, <2>b, <2>4 DEF PromoteEdit
<1>8. CASE CompleteEdit
  BY <1>8, <1>a, EditUpdate, Zenon DEF CompleteEdit
<1>9. CASE CancelEdit
  <2>1. edit.node \in Nodes
    BY <1>9, Zenon DEF CancelEdit, TransitionInv, EditFits, routeProfileEditActive,
       routeProfileEditTerminal
  <2>2. edit.prepared \in Generations
    BY Zenon DEF Edits
  <2>3. generation[edit.node] \in edit.prepared..(MaxGeneration - 1)
            => generation[edit.node] + 1 \in Generations
    BY <2>1, <2>2
  <2>4. \/ edit' = [edit EXCEPT !.phase = "cancelled"]
        \/ \E g \in Generations :
              edit' = [edit EXCEPT !.phase = "cleaning_cancelled_owner", !.cleanup = g]
    BY <1>9, <2>3, Zenon DEF CancelEdit
  <2>5. edit' \in Edits
    <3>1. CASE edit' = [edit EXCEPT !.phase = "cancelled"]
      BY <1>a, <3>1, EditUpdate, Zenon
    <3>2. ASSUME NEW g \in Generations,
                 edit' = [edit EXCEPT !.phase = "cleaning_cancelled_owner", !.cleanup = g]
          PROVE  edit' \in Edits
      BY <1>a, <3>2, EditUpdate, Zenon
    <3> QED
      BY <2>4, <3>1, <3>2, Zenon
  <2> QED
    BY <1>9, <2>5 DEF CancelEdit
<1>10. CASE FinishCancelEdit
  BY <1>10, <1>a, EditUpdate, Zenon DEF FinishCancelEdit
<1>11. ASSUME NEW p \in Prefixes, updateNetworkRoutePolicy(p) PROVE TypeOK'
  BY <1>11 DEF updateNetworkRoutePolicy, activeRouteOwners, OwnersIn
<1>12. ASSUME NEW n \in Nodes, rotateNodeCertificate(n) PROVE TypeOK'
  BY <1>12 DEF rotateNodeCertificate
<1>13. ASSUME NEW n \in Nodes, revokeNode(n) PROVE TypeOK'
  BY <1>13 DEF revokeNode, revoked, reconcileNetworkRoutePolicies, OwnersIn
<1>14. ASSUME NEW n \in Nodes, NEW m \in Nodes, replaceNode(n, m) PROVE TypeOK'
  <2>1. policies' \in [Prefixes -> SUBSET Nodes]
    BY <1>14, Zenon DEF replaceNode, revoked, reconcileNetworkRoutePolicies, OwnersIn
  <2> QED
    BY <1>14, <2>1 DEF replaceNode, revoked
<1>15. ASSUME NEW n \in Nodes, Enroll(n) PROVE TypeOK'
  BY <1>15 DEF Enroll, reconcileNetworkRoutePolicies, OwnersIn
<1>16. ASSUME NEW n \in Nodes, RenewClaim(n) PROVE TypeOK'
  <2>1. certificateRoutedSubnets(n) \in Profiles
    BY Signable, Zenon
  <2> QED
    BY <1>16, <2>1, Zenon DEF RenewClaim
<1>17. ASSUME NEW n \in Nodes, RenewCommit(n) PROVE TypeOK'
  BY <1>17 DEF RenewCommit
<1>18. ASSUME NEW n \in Nodes, releaseRenewalClaim(n) PROVE TypeOK'
  BY <1>18, Zenon DEF releaseRenewalClaim
<1>19. ASSUME NEW n \in Nodes, RecoverAgent(n) PROVE TypeOK'
  BY <1>19 DEF RecoverAgent
<1>20. ASSUME NEW n \in Nodes, InstallBundle(n) PROVE TypeOK'
  BY <1>20 DEF InstallBundle
<1>21. ASSUME NEW n \in Nodes, Heartbeat(n) PROVE TypeOK'
  BY <1>21, Zenon DEF Heartbeat
<1>22. CASE UNCHANGED vars
  BY <1>22, Zenon DEF vars
<1> HIDE DEF TypeOK
<1>23. CASE Administrator
  BY <1>23, <1>1, <1>2, <1>3, <1>4, <1>5, <1>6, <1>7, <1>8, <1>9, <1>10, <1>11, <1>12, <1>13,
     <1>14, Zenon DEF Administrator, updateNodeGroups
<1>24. ASSUME NEW n \in Nodes, Gateway(n) PROVE TypeOK'
  BY <1>24, <1>15, <1>16, <1>17, <1>18, <1>19, <1>20, <1>21, Zenon DEF Gateway
<1> QED
  BY <1>22, <1>23, <1>24, Zenon DEF Next

-----------------------------------------------------------------------------
(* The snapshots of a transition.                                          *)

\* The requests that move a transition, an owner or a policy; every other step leaves
\* the transitions, the statuses, the published prefixes and the policies alone.
LEMMA StepCases ==
    ASSUME [Next]_vars
    PROVE  \/ \E src, tgt \in Nodes, routes \in SUBSET Prefixes : startRouteTransfer(src, tgt, routes)
           \/ PromoteTransfer \/ CompleteTransfer \/ CancelTransfer \/ FinishCancelTransfer
           \/ \E n \in Nodes, desired \in Profiles : startRouteProfileEdit(n, desired)
           \/ PromoteEdit \/ CompleteEdit \/ CancelEdit \/ FinishCancelEdit
           \/ \E p \in Prefixes : updateNetworkRoutePolicy(p)
           \/ \E n \in Nodes : Enroll(n) \/ revokeNode(n)
           \/ \E n, m \in Nodes : replaceNode(n, m)
           \/ /\ UNCHANGED <<transfer, edit, policies, status, routed>>
              /\ \/ \E n \in Nodes : rotateNodeCertificate(n) \/ RenewCommit(n)
                 \/ UNCHANGED generation
<1>1. \A n \in Nodes : rotateNodeCertificate(n) \/ RenewCommit(n)
                         => UNCHANGED <<transfer, edit, policies, status, routed>>
  BY Zenon DEF rotateNodeCertificate, RenewCommit, documents
<1>2. \A n \in Nodes : RenewClaim(n) \/ releaseRenewalClaim(n) \/ RecoverAgent(n)
                         \/ InstallBundle(n) \/ Heartbeat(n)
                         => UNCHANGED <<transfer, edit, policies, status, routed, generation>>
  BY Zenon DEF RenewClaim, releaseRenewalClaim, RecoverAgent, InstallBundle, Heartbeat,
     documents, issued
<1>3. UNCHANGED vars => UNCHANGED <<transfer, edit, policies, status, routed, generation>>
  BY Zenon DEF vars, documents, issued
<1> QED
  BY <1>1, <1>2, <1>3, Zenon DEF Next, Administrator, Gateway, updateNodeGroups

\* An active transfer keeps its participants and its snapshots.
LEMMA TransferStep ==
    ASSUME TypeOK, TransitionInv, [Next]_vars
    PROVE  TransferFits' /\ validateNetworkRouteTransfer'
<1> USE DEF TransferFits, validateNetworkRouteTransfer, routeTransferActive, routeTransferTerminal,
            Active
<1>1. ASSUME NEW src \in Nodes, NEW tgt \in Nodes, NEW routes \in SUBSET Prefixes,
             startRouteTransfer(src, tgt, routes)
      PROVE  TransferFits' /\ validateNetworkRouteTransfer'
  <2>1. routed[tgt] \cup routes \in Profiles
    BY <1>1, Zenon DEF startRouteTransfer, Profiles, TypeOK
  <2>2. generation[tgt] \in Nat
    BY BoundsAssumption DEF TypeOK, Generations
  <2> QED
    BY <1>1, <2>1, <2>2 DEF startRouteTransfer
<1>2. CASE PromoteTransfer
  <2>1. transfer.source \in Nodes /\ transfer.target \in Nodes /\ transfer \in Transfers
    BY <1>2, Zenon DEF PromoteTransfer, TransitionInv, TypeOK
  <2>2. generation[transfer.source] \in Nat
    BY <2>1, BoundsAssumption DEF TypeOK, Generations
  <2> QED
    BY <1>2, <2>1, <2>2 DEF PromoteTransfer, promotedRouted, TransitionInv, Transfers
<1>3. CASE CompleteTransfer \/ FinishCancelTransfer
  BY <1>3, Zenon DEF CompleteTransfer, FinishCancelTransfer, TypeOK, Transfers
<1>4. CASE CancelTransfer
  <2>1. transfer.target \in Nodes /\ transfer \in Transfers
    BY <1>4, Zenon DEF CancelTransfer, TransitionInv, TypeOK
  <2>2. generation[transfer.target] \in Nat
    BY <2>1, BoundsAssumption DEF TypeOK, Generations
  <2>3. CASE transfer' = [transfer EXCEPT !.phase = "cancelled"]
    BY <2>1, <2>3, Zenon DEF Transfers
  <2>4. CASE transfer' = [transfer EXCEPT !.phase = "cleaning_target",
                              !.targetGeneration = generation[transfer.target] + 1]
    BY <1>4, <2>1, <2>2, <2>4 DEF CancelTransfer, TransitionInv, Transfers
  <2> QED
    BY <1>4, <2>3, <2>4, Zenon DEF CancelTransfer
<1>5. ASSUME NEW n \in Nodes, NEW desired \in Profiles, startRouteProfileEdit(n, desired)
      PROVE  TransferFits' /\ validateNetworkRouteTransfer'
  BY <1>5, Zenon DEF startRouteProfileEdit
<1>6. CASE PromoteEdit
  BY <1>6, Zenon DEF PromoteEdit, TransitionInv, validateNetworkRouteProfileEdit, routeProfileEditActive,
     routeProfileEditTerminal
<1>7. ASSUME NEW n \in Nodes, Enroll(n) PROVE TransferFits' /\ validateNetworkRouteTransfer'
  BY <1>7, Zenon DEF Enroll, TransitionInv, TypeOK
<1>8. ASSUME NEW n \in Nodes, revokeNode(n) PROVE TransferFits' /\ validateNetworkRouteTransfer'
  BY <1>8, Zenon DEF revokeNode, revoked, inTransition, routeTransferIncludesNode, TransitionInv, TypeOK
<1>9. ASSUME NEW n \in Nodes, NEW m \in Nodes, replaceNode(n, m)
      PROVE  TransferFits' /\ validateNetworkRouteTransfer'
  BY <1>9, Zenon DEF replaceNode, revoked, inTransition, routeTransferIncludesNode, TransitionInv, TypeOK
<1>10. CASE UNCHANGED <<transfer, status, routed>>
  BY <1>10, Zenon DEF TransitionInv
<1>11. CompleteEdit \/ CancelEdit \/ FinishCancelEdit \/ (\E p \in Prefixes : updateNetworkRoutePolicy(p))
         => UNCHANGED <<transfer, status, routed>>
  BY Zenon DEF CompleteEdit, CancelEdit, FinishCancelEdit, updateNetworkRoutePolicy
<1> HIDE DEF TransferFits, validateNetworkRouteTransfer
<1> QED
  BY StepCases, <1>1, <1>2, <1>3, <1>4, <1>5, <1>6, <1>7, <1>8, <1>9, <1>10, <1>11, Zenon

\* An active edit keeps its owner, its snapshots and its place among the generations.
LEMMA EditStep ==
    ASSUME TypeOK, TransitionInv, [Next]_vars
    PROVE  EditFits' /\ validateNetworkRouteProfileEdit'
<1> USE DEF EditFits, validateNetworkRouteProfileEdit, routeProfileEditActive,
            routeProfileEditTerminal, routeTransferTerminal, editGenerationFits,
            routeProfileEditIncludesNode, routeProfileEditDesiredGeneration,
            routeProfileEditAdditions, routeProfileEditRemovals, Active
<1>0. edit \in Edits /\ EditFits /\ validateNetworkRouteProfileEdit
  BY Zenon DEF TransitionInv, TypeOK
<1>i. \A n \in Nodes : generation[n] \in Nat
  BY BoundsAssumption DEF TypeOK, Generations
<1>1. ASSUME NEW n \in Nodes, NEW desired \in Profiles, startRouteProfileEdit(n, desired)
      PROVE  EditFits' /\ validateNetworkRouteProfileEdit'
  <2>1. routed[n] \cup desired \in Profiles /\ routed[n] \in Profiles /\ desired \in SUBSET Prefixes
    BY <1>1, Zenon DEF startRouteProfileEdit, Profiles, TypeOK
  <2>2. CASE edit' = [phase |-> "preparing_owner", node |-> n, original |-> routed[n],
                      desired |-> desired, prepared |-> generation[n] + 1, cleanup |-> 0]
             /\ desired \ routed[n] # {} /\ UNCHANGED routed
    BY <1>1, <1>i, <2>1, <2>2 DEF startRouteProfileEdit, issued
  <2>3. CASE edit' = [phase |-> "cleaning_owner", node |-> n, original |-> routed[n],
                      desired |-> desired, prepared |-> 0, cleanup |-> generation[n] + 1]
             /\ desired \subseteq routed[n] /\ routed' = [routed EXCEPT ![n] = desired]
    BY <1>1, <1>i, <2>1, <2>3, Zenon DEF startRouteProfileEdit, issued, TypeOK
  <2> QED
    BY <1>1, <2>2, <2>3, Zenon DEF startRouteProfileEdit
<1>2. CASE PromoteEdit
  <2>1. edit.node \in Nodes
    BY <1>0, <1>2, Zenon DEF PromoteEdit
  <2>2. CASE edit' = [edit EXCEPT !.phase = "cleaning_owner",
                                  !.cleanup = generation[edit.node] + 1]
             /\ routeProfileEditRemovals(edit) # {}
    BY <1>0, <1>2, <1>i, <2>1, <2>2, Zenon DEF PromoteEdit, issued, Edits, TypeOK
  <2>3. CASE edit' = [edit EXCEPT !.phase = "completed"]
    BY <1>0, <2>3, Zenon DEF Edits
  <2> QED
    BY <1>2, <2>2, <2>3, Zenon DEF PromoteEdit
<1>3. CASE CompleteEdit \/ FinishCancelEdit
  BY <1>0, <1>3, Zenon DEF CompleteEdit, FinishCancelEdit, Edits
<1>4. CASE CancelEdit
  <2>1. edit.node \in Nodes
    BY <1>0, <1>4, Zenon DEF CancelEdit
  <2>2. CASE edit' = [edit EXCEPT !.phase = "cancelled"]
    BY <1>0, <2>2, Zenon DEF Edits
  <2>3. CASE edit' = [edit EXCEPT !.phase = "cleaning_cancelled_owner",
                          !.cleanup = generation[edit.node] + 1]
    BY <1>0, <1>4, <1>i, <2>1, <2>3, Zenon DEF CancelEdit, issued, Edits
  <2> QED
    BY <1>4, <2>2, <2>3, Zenon DEF CancelEdit
<1>5. ASSUME NEW src \in Nodes, NEW tgt \in Nodes, NEW routes \in SUBSET Prefixes,
             startRouteTransfer(src, tgt, routes)
      PROVE  EditFits' /\ validateNetworkRouteProfileEdit'
  BY <1>5, Zenon DEF startRouteTransfer
<1>6. CASE PromoteTransfer \/ CompleteTransfer \/ CancelTransfer \/ FinishCancelTransfer
  <2>1. transfer.phase \in {"preparing_target", "cleaning_source", "cleaning_target"}
    BY <1>6, Zenon DEF PromoteTransfer, CompleteTransfer, CancelTransfer, FinishCancelTransfer
  <2>2. UNCHANGED edit
    BY <1>6, Zenon DEF PromoteTransfer, CompleteTransfer, CancelTransfer, FinishCancelTransfer
  <2> QED
    BY <1>0, <2>1, <2>2, Zenon
<1>7. ASSUME NEW n \in Nodes, Enroll(n) PROVE EditFits' /\ validateNetworkRouteProfileEdit'
  BY <1>0, <1>7, Zenon DEF Enroll, TypeOK
<1>8. ASSUME NEW n \in Nodes, revokeNode(n) PROVE EditFits' /\ validateNetworkRouteProfileEdit'
  BY <1>0, <1>8, Zenon DEF revokeNode, revoked, inTransition, issued, TypeOK
<1>9. ASSUME NEW n \in Nodes, NEW m \in Nodes, replaceNode(n, m)
      PROVE  EditFits' /\ validateNetworkRouteProfileEdit'
  BY <1>0, <1>9, Zenon DEF replaceNode, revoked, inTransition, issued, TypeOK
<1>10. CASE UNCHANGED <<transfer, edit, status, routed, generation>>
  BY <1>0, <1>10, Zenon
<1>11. (\E p \in Prefixes : updateNetworkRoutePolicy(p))
         => UNCHANGED <<transfer, edit, status, routed, generation>>
  BY Zenon DEF updateNetworkRoutePolicy, issued
<1>12. ASSUME NEW n \in Nodes, rotateNodeCertificate(n) \/ RenewCommit(n)
       PROVE  EditFits' /\ validateNetworkRouteProfileEdit'
  <2>1. /\ generation' = [generation EXCEPT ![n] = @ + 1]
        /\ UNCHANGED <<transfer, edit, status, routed>>
    BY <1>12, Zenon DEF rotateNodeCertificate, RenewCommit, documents
  <2>2. routeProfileEditDesiredGeneration' = routeProfileEditDesiredGeneration
    BY <2>1, Zenon
  <2>3. routeProfileEditIncludesNode(n) =>
            routeProfileEditDesiredGeneration \in {generation[n] + 1, generation[n] + 2}
    <3> HIDE DEF routeProfileEditDesiredGeneration
    <3>1. RenewCommit(n) => editGenerationFits(n, generation[n] + 1)
      BY Zenon DEF RenewCommit
    <3>2. rotateNodeCertificate(n) => ~routeProfileEditIncludesNode(n)
      BY Zenon DEF rotateNodeCertificate, inTransition
    <3> QED
      BY <1>12, <1>i, <3>1, <3>2
  <2>4. routeProfileEditActive => editGenerationFits(edit.node, generation[edit.node])'
    <3> HIDE DEF routeProfileEditDesiredGeneration
    <3> QED
      BY <1>0, <1>i, <2>1, <2>2, <2>3 DEF TypeOK
  <2> QED
    BY <1>0, <2>1, <2>4, Zenon
<1> HIDE DEF EditFits, validateNetworkRouteProfileEdit
<1> QED
  BY StepCases, <1>1, <1>2, <1>3, <1>4, <1>5, <1>6, <1>7, <1>8, <1>9, <1>10, <1>11, <1>12, Zenon

\* A policy rewritten to the owners of the new document names exactly those.
LEMMA Reconciled ==
    ASSUME NEW st, NEW rt, reconcileNetworkRoutePolicies(st, rt),
           \A p \in Prefixes : OwnersIn(st, rt, p) = OwnersIn(status', routed', p)
    PROVE  PolicyInv'
BY Zenon DEF reconcileNetworkRoutePolicies, PolicyInv, activeRouteOwners

\* No request leaves a policy behind the owners of its prefix.
LEMMA PolicyStep == ASSUME TypeOK, PolicyInv, [Next]_vars PROVE PolicyInv'
<1>1. CASE PromoteTransfer
  BY <1>1, Reconciled, Zenon DEF PromoteTransfer
<1>2. ASSUME NEW n \in Nodes, NEW desired \in Profiles, startRouteProfileEdit(n, desired)
      PROVE  PolicyInv'
  <2>1. CASE UNCHANGED <<routed, policies>>
    BY <1>2, <2>1, Zenon DEF startRouteProfileEdit, PolicyInv, activeRouteOwners, OwnersIn
  <2>2. CASE reconcileNetworkRoutePolicies(status, routed')
    BY <1>2, <2>2, Reconciled, Zenon DEF startRouteProfileEdit
  <2> QED
    BY <1>2, <2>1, <2>2, Zenon DEF startRouteProfileEdit
<1>3. CASE PromoteEdit
  BY <1>3, Reconciled, Zenon DEF PromoteEdit
<1>4. ASSUME NEW p \in Prefixes, updateNetworkRoutePolicy(p) PROVE PolicyInv'
  BY <1>4 DEF updateNetworkRoutePolicy, PolicyInv, activeRouteOwners, OwnersIn, TypeOK
<1>5. ASSUME NEW n \in Nodes, Enroll(n) PROVE PolicyInv'
  BY <1>5, Reconciled, Zenon DEF Enroll
<1>6. ASSUME NEW n \in Nodes, revokeNode(n) PROVE PolicyInv'
  BY <1>6, Reconciled, Zenon DEF revokeNode, revoked
<1>7. ASSUME NEW n \in Nodes, NEW m \in Nodes, replaceNode(n, m) PROVE PolicyInv'
  <2>1. \A p \in Prefixes :
            OwnersIn([status EXCEPT ![n] = "revoked"], routed, p) = OwnersIn(status', routed', p)
    BY <1>7, Zenon DEF replaceNode, OwnersIn, TypeOK
  <2> QED
    BY <1>7, <2>1, Reconciled, Zenon DEF replaceNode, revoked
<1>8. CASE UNCHANGED <<policies, status, routed>>
  BY <1>8, Zenon DEF PolicyInv, activeRouteOwners, OwnersIn
<1>9. \/ \E src, tgt \in Nodes, routes \in SUBSET Prefixes : startRouteTransfer(src, tgt, routes)
      \/ CompleteTransfer \/ CancelTransfer \/ FinishCancelTransfer
      \/ CompleteEdit \/ CancelEdit \/ FinishCancelEdit
      => UNCHANGED <<policies, status, routed>>
  BY Zenon DEF startRouteTransfer, CompleteTransfer, CancelTransfer, FinishCancelTransfer,
     CompleteEdit, CancelEdit, FinishCancelEdit
<1> QED
  BY StepCases, <1>1, <1>2, <1>3, <1>4, <1>5, <1>6, <1>7, <1>8, <1>9, Zenon

\* An identity comes into use by enrolling, after the start.
LEMMA IdentityStep == ASSUME TypeOK, LateIdentities, [Next]_vars PROVE LateIdentities'
<1> USE DEF LateIdentities, TypeOK
<1>1. ASSUME NEW n \in Nodes, Enroll(n) PROVE LateIdentities'
  BY <1>1, Zenon DEF Enroll
<1>2. ASSUME NEW n \in Nodes, revokeNode(n) PROVE LateIdentities'
  BY <1>2, Zenon DEF revokeNode
<1>3. ASSUME NEW n \in Nodes, NEW m \in Nodes, replaceNode(n, m) PROVE LateIdentities'
  BY <1>3, Zenon DEF replaceNode, Active
<1>4. CASE UNCHANGED status
  BY <1>4, Zenon
<1>5. \/ \E src, tgt \in Nodes, routes \in SUBSET Prefixes : startRouteTransfer(src, tgt, routes)
      \/ PromoteTransfer \/ CompleteTransfer \/ CancelTransfer \/ FinishCancelTransfer
      \/ \E n \in Nodes, desired \in Profiles : startRouteProfileEdit(n, desired)
      \/ PromoteEdit \/ CompleteEdit \/ CancelEdit \/ FinishCancelEdit
      \/ \E p \in Prefixes : updateNetworkRoutePolicy(p)
      => UNCHANGED status
  BY Zenon DEF startRouteTransfer, PromoteTransfer, CompleteTransfer, CancelTransfer,
     FinishCancelTransfer, startRouteProfileEdit, PromoteEdit, CompleteEdit, CancelEdit,
     FinishCancelEdit, updateNetworkRoutePolicy
<1> HIDE DEF LateIdentities, TypeOK
<1> QED
  BY StepCases, <1>1, <1>2, <1>3, <1>4, <1>5, Zenon

\* The owner of a moving prefix changes at promotion and at no other step.
LEMMA OwnerStep ==
    ASSUME SnapshotInv, [Next]_vars PROVE TransferHasOneOwner'
<1> USE DEF TransferHasOneOwner, routeTransferActive, routeTransferTerminal, transferOwner,
            activeRouteOwners, OwnersIn
<1>0. /\ TypeOK /\ TransferHasOneOwner /\ LateIdentities /\ TransferFits
      /\ validateNetworkRouteTransfer /\ validateNetworkRouteProfileEdit
  BY Zenon DEF SnapshotInv, TransitionInv
<1>1. ASSUME NEW src \in Nodes, NEW tgt \in Nodes, NEW routes \in SUBSET Prefixes,
             startRouteTransfer(src, tgt, routes)
      PROVE  TransferHasOneOwner'
  BY <1>1, Zenon DEF startRouteTransfer
<1>2. CASE PromoteTransfer
  <2>1. /\ transfer \in Transfers /\ transfer.source \in Nodes /\ transfer.target \in Nodes
        /\ transfer.source # transfer.target /\ Active(transfer.target)
    BY <1>0, <1>2, Zenon DEF PromoteTransfer, TypeOK, TransferFits, validateNetworkRouteTransfer
  <2>2. /\ UNCHANGED status /\ routed' = promotedRouted
        /\ transfer'.phase = "cleaning_source" /\ transfer'.routes = transfer.routes
        /\ transfer'.target = transfer.target
    BY <1>2, <2>1, Zenon DEF PromoteTransfer, Transfers
  <2>3. ASSUME NEW p \in transfer.routes, NEW n \in Nodes
        PROVE  /\ p \in promotedRouted[transfer.target]
               /\ p \in promotedRouted[n] => n = transfer.target \/ (n # transfer.source /\ p \in routed[n])
    <3>1. promotedRouted[transfer.target] = transfer.targetOriginal \cup transfer.routes
      BY <2>1, Zenon DEF promotedRouted
    <3>2. promotedRouted[transfer.source] = transfer.sourceOriginal \ transfer.routes
      BY <2>1, Zenon DEF promotedRouted
    <3>3. n \notin {transfer.source, transfer.target} => promotedRouted[n] = routed[n]
      BY Zenon DEF promotedRouted
    <3>4. CASE n = transfer.source
      BY <3>1, <3>2, <3>4, Zenon
    <3>5. CASE n = transfer.target
      BY <3>1, <3>5, Zenon
    <3>6. CASE n \notin {transfer.source, transfer.target}
      BY <3>1, <3>3, <3>6, Zenon
    <3> QED
      BY <3>4, <3>5, <3>6, Zenon
  <2>4. ASSUME NEW p \in transfer.routes, NEW n \in Enrolled, n \in Nodes, Active(n), p \in routed[n]
        PROVE  n = transfer.source
    BY <1>0, <1>2, <2>4, Zenon DEF PromoteTransfer, Active
  <2> QED
    BY <2>1, <2>2, <2>3, <2>4, Zenon DEF Active, Enrolled
<1>3. CASE CompleteTransfer \/ FinishCancelTransfer
  BY <1>0, <1>3, Zenon DEF CompleteTransfer, FinishCancelTransfer, TypeOK, Transfers
<1>4. CASE CancelTransfer
  <2>1. \/ transfer' = [transfer EXCEPT !.phase = "cancelled"]
        \/ transfer' = [transfer EXCEPT !.phase = "cleaning_target",
                              !.targetGeneration = generation[transfer.target] + 1]
    BY <1>4, Zenon DEF CancelTransfer
  <2>2. /\ transfer'.phase \in {"cancelled", "cleaning_target"}
        /\ transfer'.source = transfer.source /\ transfer'.routes = transfer.routes
    BY <1>0, <2>1, Zenon DEF TypeOK, Transfers
  <2> QED
    BY <1>0, <1>4, <2>2, Zenon DEF CancelTransfer
<1>5. ASSUME NEW n \in Nodes, NEW desired \in Profiles, startRouteProfileEdit(n, desired)
      PROVE  TransferHasOneOwner'
  BY <1>5, Zenon DEF startRouteProfileEdit
<1>6. CASE PromoteEdit
  BY <1>0, <1>6, Zenon DEF PromoteEdit, validateNetworkRouteProfileEdit, routeProfileEditActive,
     routeProfileEditTerminal
<1>7. ASSUME NEW n \in Nodes, Enroll(n) PROVE TransferHasOneOwner'
  BY <1>0, <1>7, Zenon DEF Enroll, LateIdentities, validateNetworkRouteTransfer, TransferFits, Active, TypeOK
<1>8. ASSUME NEW n \in Nodes, revokeNode(n) PROVE TransferHasOneOwner'
  BY <1>0, <1>8 DEF revokeNode, revoked, inTransition, routeTransferIncludesNode, TypeOK, TransferFits
<1>9. ASSUME NEW n \in Nodes, NEW m \in Nodes, replaceNode(n, m) PROVE TransferHasOneOwner'
  BY <1>0, <1>9 DEF replaceNode, revoked, inTransition, routeTransferIncludesNode, TypeOK, TransferFits
<1>10. CASE UNCHANGED <<transfer, status, routed>>
  BY <1>0, <1>10, Zenon
<1>11. CompleteEdit \/ CancelEdit \/ FinishCancelEdit \/ (\E p \in Prefixes : updateNetworkRoutePolicy(p))
         => UNCHANGED <<transfer, status, routed>>
  BY Zenon DEF CompleteEdit, CancelEdit, FinishCancelEdit, updateNetworkRoutePolicy
<1> HIDE DEF TransferHasOneOwner
<1> QED
  BY StepCases, <1>1, <1>2, <1>3, <1>4, <1>5, <1>6, <1>7, <1>8, <1>9, <1>10, <1>11, Zenon

\* A network begins without transitions and policies.
LEMMA SnapshotInit == Init => SnapshotInv
<1> SUFFICES ASSUME Init PROVE SnapshotInv
  BY Zenon
<1>1. TypeOK
  BY TypeInit, Zenon
<1>2. routeTransferTerminal /\ routeProfileEditTerminal
  BY Zenon DEF Init, NoTransfer, NoEdit, routeTransferTerminal, routeProfileEditTerminal
<1>3. TransitionInv /\ TransferHasOneOwner
  BY <1>2, Zenon DEF TransitionInv, TransferFits, EditFits, validateNetworkRouteTransfer,
     validateNetworkRouteProfileEdit, TransferHasOneOwner, routeTransferActive,
     routeProfileEditActive
<1>4. PolicyInv /\ LateIdentities
  BY Zenon DEF Init, PolicyInv, LateIdentities
<1> QED
  BY <1>1, <1>3, <1>4, Zenon DEF SnapshotInv

LEMMA SnapshotStep == SnapshotInv /\ [Next]_vars => SnapshotInv'
<1> SUFFICES ASSUME SnapshotInv, [Next]_vars PROVE SnapshotInv'
  BY Zenon
<1>1. TypeOK /\ TransitionInv /\ PolicyInv /\ LateIdentities
  BY Zenon DEF SnapshotInv
<1>2. TypeOK'
  BY <1>1, TypeStep, Zenon
<1>3. TransitionInv'
  BY <1>1, TransferStep, EditStep, Zenon DEF TransitionInv
<1>4. PolicyInv' /\ LateIdentities' /\ TransferHasOneOwner'
  BY <1>1, PolicyStep, IdentityStep, OwnerStep, Zenon
<1> QED
  BY <1>2, <1>3, <1>4, Zenon DEF SnapshotInv

\* The types and the snapshots, for any gateways, prefixes and bounds, and however long
\* a signing takes.
THEOREM Snapshots == Spec => []SnapshotInv
<1>1. Init => SnapshotInv
  BY SnapshotInit, Zenon
<1>2. SnapshotInv /\ [Next]_vars => SnapshotInv'
  BY SnapshotStep, Zenon
<1> QED
  BY <1>1, <1>2, PTL DEF Spec

\* What validateStateGraph demands of transitions and policies holds after every
\* operation, so none is refused because a transition is under way.
THEOREM TransitionsKeepTheirSnapshots == Spec => []SnapshotsHold
<1>1. SnapshotInv => SnapshotsHold
  BY Zenon DEF SnapshotInv, TransitionInv, PolicyInv, SnapshotsHold
<1> QED
  BY <1>1, Snapshots, PTL

\* A moving prefix has one published gateway, the source until promotion and the target
\* from then on.
THEOREM MovingPrefixHasOneGateway == Spec => []TransferHasOneOwner
<1>1. SnapshotInv => TransferHasOneOwner
  BY Zenon DEF SnapshotInv
<1> QED
  BY <1>1, Snapshots, PTL
=============================================================================
