--------------------------- MODULE RouteOwnership ---------------------------
(***************************************************************************)
(* Which gateway publishes which routed prefix, and which gateway's        *)
(* certificate authorises it: route transfers                              *)
(* (internal/control/route_transfer.go), route-profile edits               *)
(* (route_profile_edit.go), stored route policies (route_policies.go), and *)
(* the renewals, enrollments, replacements and recoveries that run beside  *)
(* them (service.go).                                                      *)
(*                                                                         *)
(* One network.  A routed-subnet list is a set of prefixes; two prefixes   *)
(* are equal or disjoint.  A host certificate is its generation and the    *)
(* prefixes it authorises.  A signed config is its revision: rendering is  *)
(* a function of the document, so the digest adds nothing to the revision. *)
(* Time (a renewal falling due, a claim five minutes old) may pass at any  *)
(* moment.  A gateway is the node that routes for a prefix.                *)
(***************************************************************************)
EXTENDS Integers, FiniteSets

CONSTANTS
    Nodes,          \* node identities, used and still unused
    Prefixes,       \* canonical routed prefixes
    Profile,        \* the prefixes each node is created with
    Pending,        \* nodes created and not yet enrolled
    Spares,         \* identities a replacement may still take
    Issued,         \* how many certificates each enrolled node has had
    Recoverable,    \* the nodes an administrator may issue a recovery token for
    SlowSigning,    \* a signing may still run when a route transition moves
    MaxSubnets,     \* maxRoutedSubnetsPerNode
    MaxGateways,    \* maxRoutePolicyGateways
    MaxRevision,    \* where nextConfigRevision refuses to advance
    MaxGeneration   \* where a certificate generation refuses to advance

Profiles == {s \in SUBSET Prefixes : Cardinality(s) <= MaxSubnets}

ASSUME NodesAssumption ==
    /\ Pending \subseteq Nodes /\ Spares \subseteq Nodes /\ Recoverable \subseteq Nodes
    /\ Pending \cap Spares = {}
ASSUME ProfileAssumption ==
    IsFiniteSet(Prefixes) /\ Profile \in [Nodes -> Profiles] /\ {} \in Profiles
ASSUME BoundsAssumption ==
    /\ SlowSigning \in BOOLEAN
    /\ MaxSubnets \in Nat /\ MaxGateways \in Nat
    /\ MaxRevision \in Nat \ {0} /\ MaxGeneration \in Nat \ {0}
    /\ Issued \in [Nodes -> 1..MaxGeneration]

VARIABLES
    revision,       \* ConfigRevision
    transfer,       \* RouteTransfer
    edit,           \* RouteProfileEdit
    policies,       \* RoutePolicies: the gateways stored for a prefix, {}: no policy
    status, routed, \* Status and RoutedSubnets of each node
    cert,           \* the prefixes the node's authoritative certificate authorises
    generation,     \* CertificateGeneration
    applied, appliedGen,
    claim,          \* prefixes an in-flight renewal is signing for, as a set of at most one
    recovered,      \* RoutedSubnets in the node's used recovery record, likewise
    live            \* what the gateway runs

documents == <<revision, transfer, edit, policies>>
issued    == <<cert, generation>>
reports   == <<applied, appliedGen>>
flight    == <<claim, recovered>>
vars      == <<documents, status, routed, issued, reports, flight, live>>

NoTransfer == [phase |-> "none", source |-> "none", target |-> "none", routes |-> {},
               sourceOriginal |-> {}, targetOriginal |-> {},
               targetGeneration |-> 0, sourceGeneration |-> 0]
NoEdit     == [phase |-> "none", node |-> "none", original |-> {}, desired |-> {},
               prepared |-> 0, cleanup |-> 0]
NoBundle   == [revision |-> 0, generation |-> 0, subnets |-> {}]

Active(n) == status[n] = "active"

-----------------------------------------------------------------------------
(* Reads of the two transition records.                                    *)

routeTransferTerminal == transfer.phase \in {"none", "completed", "cancelled"}
routeTransferActive   == ~routeTransferTerminal

routeProfileEditTerminal == edit.phase \in {"none", "completed", "cancelled"}
routeProfileEditActive   == ~routeProfileEditTerminal

routeTransferIncludesNode(n)    == routeTransferActive /\ n \in {transfer.source, transfer.target}
routeProfileEditIncludesNode(n) == routeProfileEditActive /\ n = edit.node
inTransition(n) == routeTransferIncludesNode(n) \/ routeProfileEditIncludesNode(n)

routeProfileEditAdditions(e) == e.desired \ e.original
routeProfileEditRemovals(e)  == e.original \ e.desired

routeProfileEditDesiredGeneration ==
    CASE edit.phase = "preparing_owner" -> edit.prepared
      [] edit.phase \in {"cleaning_owner", "cleaning_cancelled_owner"} -> edit.cleanup
      [] OTHER -> 0

\* The prefixes a certificate signed for the node now would authorise.
certificateRoutedSubnets(n) ==
    CASE transfer.phase = "preparing_target" /\ n = transfer.target ->
            transfer.targetOriginal \cup transfer.routes
      [] transfer.phase = "cleaning_target" /\ n = transfer.target -> transfer.targetOriginal
      [] edit.phase = "preparing_owner" /\ n = edit.node -> edit.original \cup edit.desired
      [] edit.phase = "cleaning_owner" /\ n = edit.node -> edit.desired
      [] edit.phase = "cleaning_cancelled_owner" /\ n = edit.node -> edit.original
      [] OTHER -> routed[n]

networkCertificateProfileRenewalRequired(n) ==
    \/ /\ transfer.phase \in {"preparing_target", "cleaning_target"} /\ n = transfer.target
       /\ generation[n] < transfer.targetGeneration
    \/ /\ transfer.phase = "cleaning_source" /\ n = transfer.source
       /\ generation[n] < transfer.sourceGeneration
    \/ /\ routeTransferTerminal /\ n = edit.node
       /\ generation[n] < routeProfileEditDesiredGeneration

\* A heartbeat reported exactly the current certificate and config.  It was also
\* healthy with Nebula running: an unhealthy report only makes the administrator's
\* request fail, which is a request not made.
routeTransferNodeConverged(n, desired) ==
    /\ Active(n)
    /\ generation[n] >= desired
    /\ appliedGen[n] = generation[n]
    /\ applied[n] = revision

OwnersIn(st, rt, p) == {n \in Nodes : st[n] = "active" /\ p \in rt[n]}
activeRouteOwners(p) == OwnersIn(status, routed, p)

\* Every stored policy is rewritten to the owners of the new document, and
\* dropped with its last owner.
reconcileNetworkRoutePolicies(st, rt) ==
    policies' = [p \in Prefixes |-> IF policies[p] = {} THEN {} ELSE OwnersIn(st, rt, p)]

nextConfigRevision ==
    /\ revision < MaxRevision
    /\ revision' = revision + 1

\* validateStateGraph: a used recovery record shows the node's routed subnets.
recoveryRecordsMatch(rt) == \A n \in Nodes : \A s \in recovered[n] : s = rt[n]

\* validateRoutedSubnetsForNode: a prefix another node holds may be shared only
\* while that node is active.
sharable(n, subnets) ==
    \A m \in Nodes \ {n} : status[m] = "pending" => routed[m] \cap subnets = {}

\* No renewal of the node is being signed, unless signing may take that long.
settled(n) == SlowSigning \/ claim[n] = {}

-----------------------------------------------------------------------------
(* Route transfers.  A request carries the revision its author read; a     *)
(* stale or repeated one changes nothing, so a step is a request at the    *)
(* current revision that the transaction accepts.                          *)

\* Mutant: ownership is compared with the source only.
StartSharedTransfer(src, tgt, routes) ==
    /\ src # tgt /\ routes # {}
    /\ routeTransferTerminal /\ routeProfileEditTerminal
    /\ Active(src) /\ Active(tgt)
    /\ routes \subseteq routed[src]
    /\ Cardinality(routed[tgt] \cup routes) <= MaxSubnets
    /\ generation[tgt] < MaxGeneration
    /\ settled(tgt)
    /\ nextConfigRevision
    /\ transfer' = [phase |-> "preparing_target", source |-> src, target |-> tgt,
                    routes |-> routes, sourceOriginal |-> routed[src],
                    targetOriginal |-> routed[tgt],
                    targetGeneration |-> generation[tgt] + 1, sourceGeneration |-> 0]
    /\ UNCHANGED <<edit, policies, status, routed, issued, reports, flight, live>>

startRouteTransfer(src, tgt, routes) ==
    /\ src # tgt /\ routes # {}
    /\ routeTransferTerminal /\ routeProfileEditTerminal
    /\ Active(src) /\ Active(tgt)
    /\ routes \subseteq routed[src]
    /\ \A p \in routes : activeRouteOwners(p) = {src}
    /\ Cardinality(routed[tgt] \cup routes) <= MaxSubnets
    /\ generation[tgt] < MaxGeneration
    /\ settled(tgt)
    /\ nextConfigRevision
    /\ transfer' = [phase |-> "preparing_target", source |-> src, target |-> tgt,
                    routes |-> routes, sourceOriginal |-> routed[src],
                    targetOriginal |-> routed[tgt],
                    targetGeneration |-> generation[tgt] + 1, sourceGeneration |-> 0]
    /\ UNCHANGED <<edit, policies, status, routed, issued, reports, flight, live>>

promotedRouted ==
    [n \in Nodes |->
        CASE n = transfer.source -> transfer.sourceOriginal \ transfer.routes
          [] n = transfer.target -> transfer.targetOriginal \cup transfer.routes
          [] OTHER -> routed[n]]

\* Mutant: promotion does not wait for the target's heartbeat.
PromoteWhenIssued ==
    /\ transfer.phase = "preparing_target"
    /\ generation[transfer.target] >= transfer.targetGeneration
    /\ generation[transfer.source] < MaxGeneration
    /\ settled(transfer.source)
    /\ nextConfigRevision
    /\ routed' = promotedRouted
    /\ recoveryRecordsMatch(routed')
    /\ reconcileNetworkRoutePolicies(status, routed')
    /\ transfer' = [transfer EXCEPT !.phase = "cleaning_source",
                        !.sourceGeneration = generation[transfer.source] + 1]
    /\ UNCHANGED <<edit, status, issued, reports, flight, live>>

\* Advance while preparing: ownership and peers' routes move in one revision.
PromoteTransfer ==
    /\ transfer.phase = "preparing_target"
    /\ routeTransferNodeConverged(transfer.target, transfer.targetGeneration)
    /\ generation[transfer.source] < MaxGeneration
    /\ settled(transfer.source)
    /\ nextConfigRevision
    /\ routed' = promotedRouted
    /\ recoveryRecordsMatch(routed')
    /\ reconcileNetworkRoutePolicies(status, routed')
    /\ transfer' = [transfer EXCEPT !.phase = "cleaning_source",
                        !.sourceGeneration = generation[transfer.source] + 1]
    /\ UNCHANGED <<edit, status, issued, reports, flight, live>>

\* Advance while the source is cleaning: only the receipt changes.
CompleteTransfer ==
    /\ transfer.phase = "cleaning_source"
    /\ routeTransferNodeConverged(transfer.source, transfer.sourceGeneration)
    /\ transfer' = [transfer EXCEPT !.phase = "completed"]
    /\ UNCHANGED <<revision, edit, policies, status, routed, issued, reports, flight, live>>

\* Mutant: a cancelled preparation never cleans the target's certificate.
CancelWithoutCleanup ==
    /\ transfer.phase = "preparing_target"
    /\ settled(transfer.target)
    /\ nextConfigRevision
    /\ transfer' = [transfer EXCEPT !.phase = "cancelled"]
    /\ UNCHANGED <<edit, policies, status, routed, issued, reports, flight, live>>

\* Cancel while preparing: cleanup is needed once the staged certificate exists.
CancelTransfer ==
    /\ transfer.phase = "preparing_target"
    /\ settled(transfer.target)
    /\ nextConfigRevision
    /\ \/ /\ generation[transfer.target] < transfer.targetGeneration
          /\ transfer' = [transfer EXCEPT !.phase = "cancelled"]
       \/ /\ generation[transfer.target] \in transfer.targetGeneration..(MaxGeneration - 1)
          /\ transfer' = [transfer EXCEPT !.phase = "cleaning_target",
                              !.targetGeneration = generation[transfer.target] + 1]
    /\ UNCHANGED <<edit, policies, status, routed, issued, reports, flight, live>>

FinishCancelTransfer ==
    /\ transfer.phase = "cleaning_target"
    /\ routeTransferNodeConverged(transfer.target, transfer.targetGeneration)
    /\ transfer' = [transfer EXCEPT !.phase = "cancelled"]
    /\ UNCHANGED <<revision, edit, policies, status, routed, issued, reports, flight, live>>

\* The "advance" of routeTransferDocument's available actions.
advanceOffered ==
    \/ /\ transfer.phase = "preparing_target"
       /\ routeTransferNodeConverged(transfer.target, transfer.targetGeneration)
    \/ /\ transfer.phase = "cleaning_source"
       /\ routeTransferNodeConverged(transfer.source, transfer.sourceGeneration)

\* What validateStateGraph demands of an active transfer.
validateNetworkRouteTransfer ==
    routeTransferActive =>
        /\ Active(transfer.source) /\ Active(transfer.target)
        /\ transfer.source # transfer.target
        /\ transfer.routes # {} /\ transfer.routes \subseteq transfer.sourceOriginal
        /\ transfer.targetGeneration >= 1
        /\ (transfer.phase = "cleaning_source") <=> (transfer.sourceGeneration >= 1)
        /\ IF transfer.phase = "cleaning_source"
           THEN /\ routed[transfer.source] = transfer.sourceOriginal \ transfer.routes
                /\ routed[transfer.target] = transfer.targetOriginal \cup transfer.routes
           ELSE /\ routed[transfer.source] = transfer.sourceOriginal
                /\ routed[transfer.target] = transfer.targetOriginal

-----------------------------------------------------------------------------
(* Route-profile edits: additions are certificate-first, removals are      *)
(* route-first.                                                            *)

\* At most MaxGateways nodes hold or reserve a prefix once n adds it.
gatewaysFit(n, subnets) ==
    \A p \in subnets :
        Cardinality({n} \cup {m \in Nodes : status[m] \in {"pending", "active"} /\ p \in routed[m]})
            <= MaxGateways

startRouteProfileEdit(n, desired) ==
    /\ routeTransferTerminal /\ routeProfileEditTerminal
    /\ Active(n) /\ generation[n] < MaxGeneration
    /\ desired # routed[n]
    /\ Cardinality(routed[n] \cup desired) <= MaxSubnets
    /\ sharable(n, desired) /\ gatewaysFit(n, desired \ routed[n])
    /\ settled(n)
    /\ nextConfigRevision
    /\ \/ /\ desired \ routed[n] # {}
          /\ edit' = [phase |-> "preparing_owner", node |-> n, original |-> routed[n],
                      desired |-> desired, prepared |-> generation[n] + 1, cleanup |-> 0]
          /\ UNCHANGED <<routed, policies>>
       \/ /\ desired \subseteq routed[n]
          /\ edit' = [phase |-> "cleaning_owner", node |-> n, original |-> routed[n],
                      desired |-> desired, prepared |-> 0, cleanup |-> generation[n] + 1]
          /\ routed' = [routed EXCEPT ![n] = desired]
          /\ recoveryRecordsMatch(routed')
          /\ reconcileNetworkRoutePolicies(status, routed')
    /\ UNCHANGED <<transfer, status, issued, reports, flight, live>>

PromoteEdit ==
    /\ edit.phase = "preparing_owner"
    /\ routeTransferNodeConverged(edit.node, edit.prepared)
    /\ settled(edit.node)
    /\ nextConfigRevision
    /\ routed' = [routed EXCEPT ![edit.node] = edit.desired]
    /\ recoveryRecordsMatch(routed')
    /\ reconcileNetworkRoutePolicies(status, routed')
    /\ \/ /\ routeProfileEditRemovals(edit) # {} /\ generation[edit.node] < MaxGeneration
          /\ edit' = [edit EXCEPT !.phase = "cleaning_owner",
                          !.cleanup = generation[edit.node] + 1]
       \/ /\ routeProfileEditRemovals(edit) = {}
          /\ edit' = [edit EXCEPT !.phase = "completed"]
    /\ UNCHANGED <<transfer, status, issued, reports, flight, live>>

CompleteEdit ==
    /\ edit.phase = "cleaning_owner"
    /\ routeTransferNodeConverged(edit.node, edit.cleanup)
    /\ edit' = [edit EXCEPT !.phase = "completed"]
    /\ UNCHANGED <<revision, transfer, policies, status, routed, issued, reports, flight, live>>

CancelEdit ==
    /\ edit.phase = "preparing_owner"
    /\ settled(edit.node)
    /\ nextConfigRevision
    /\ \/ /\ generation[edit.node] < edit.prepared
          /\ edit' = [edit EXCEPT !.phase = "cancelled"]
       \/ /\ generation[edit.node] \in edit.prepared..(MaxGeneration - 1)
          /\ edit' = [edit EXCEPT !.phase = "cleaning_cancelled_owner",
                          !.cleanup = generation[edit.node] + 1]
    /\ UNCHANGED <<transfer, policies, status, routed, issued, reports, flight, live>>

FinishCancelEdit ==
    /\ edit.phase = "cleaning_cancelled_owner"
    /\ routeTransferNodeConverged(edit.node, edit.cleanup)
    /\ edit' = [edit EXCEPT !.phase = "cancelled"]
    /\ UNCHANGED <<revision, transfer, policies, status, routed, issued, reports, flight, live>>

-----------------------------------------------------------------------------
(* The rest of the control plane, as far as routes see it.                 *)

\* A policy names every current active owner of its prefix.
updateNetworkRoutePolicy(p) ==
    /\ routeTransferTerminal /\ routeProfileEditTerminal
    /\ activeRouteOwners(p) # {}
    /\ nextConfigRevision
    /\ policies' = [policies EXCEPT ![p] = activeRouteOwners(p)]
    /\ UNCHANGED <<transfer, edit, status, routed, issued, reports, flight, live>>

\* A pending node's prefixes cannot change, so its two transactions are one step.
\* The code increments without nextConfigRevision's check: the bound is the model's.
Enroll(n) ==
    /\ status[n] = "pending"
    /\ status' = [status EXCEPT ![n] = "active"]
    /\ cert' = [cert EXCEPT ![n] = routed[n]]
    /\ generation' = [generation EXCEPT ![n] = 1]
    /\ IF routed[n] # {} THEN nextConfigRevision ELSE UNCHANGED revision
    /\ reconcileNetworkRoutePolicies(status', routed)
    /\ UNCHANGED <<transfer, edit, routed, reports, flight, live>>

\* Renew, first transaction: the subnets to sign are fixed with the claim.
RenewClaim(n) ==
    /\ Active(n) /\ generation[n] < MaxGeneration
    /\ claim' = [claim EXCEPT ![n] = {certificateRoutedSubnets(n)}]
    /\ UNCHANGED <<documents, status, routed, issued, reports, recovered, live>>

\* validateNetworkRouteProfileEdit: the owner's generation is the desired one or
\* the one before it.
editGenerationFits(n, g) ==
    routeProfileEditIncludesNode(n) =>
        routeProfileEditDesiredGeneration \in {g, g + 1}

\* What validateStateGraph demands of an active edit.
validateNetworkRouteProfileEdit ==
    routeProfileEditActive =>
        /\ routeTransferTerminal /\ Active(edit.node)
        /\ edit.desired # edit.original
        /\ (edit.prepared = 0) <=> (routeProfileEditAdditions(edit) = {})
        /\ edit.phase = "cleaning_owner" => routeProfileEditRemovals(edit) # {}
        /\ editGenerationFits(edit.node, generation[edit.node])
        /\ routed[edit.node] = IF edit.phase = "cleaning_owner" THEN edit.desired
                                                              ELSE edit.original

\* Mutant: the graph is not validated against the edit's generation.
RenewAnyGeneration(n) ==
    /\ Active(n) /\ generation[n] < MaxGeneration
    /\ \E subnets \in claim[n] : cert' = [cert EXCEPT ![n] = subnets]
    /\ generation' = [generation EXCEPT ![n] = @ + 1]
    /\ claim' = [claim EXCEPT ![n] = {}]
    /\ UNCHANGED <<documents, status, routed, reports, recovered, live>>

\* Renew, second transaction: neither the revision nor the route phase is compared
\* with those of the claim.
RenewCommit(n) ==
    /\ Active(n) /\ generation[n] < MaxGeneration
    /\ editGenerationFits(n, generation[n] + 1)
    /\ \E subnets \in claim[n] : cert' = [cert EXCEPT ![n] = subnets]
    /\ generation' = [generation EXCEPT ![n] = @ + 1]
    /\ claim' = [claim EXCEPT ![n] = {}]
    /\ UNCHANGED <<documents, status, routed, reports, recovered, live>>

\* Signing failed, or the second transaction was refused.
releaseRenewalClaim(n) ==
    /\ claim[n] # {}
    /\ claim' = [claim EXCEPT ![n] = {}]
    /\ UNCHANGED <<documents, status, routed, issued, reports, recovered, live>>

\* An administrator rotates the certificate: the commit compares everything the
\* preflight read, so the two are one step.
rotateNodeCertificate(n) ==
    /\ Active(n) /\ ~inTransition(n)
    /\ generation[n] < MaxGeneration
    /\ nextConfigRevision
    /\ cert' = [cert EXCEPT ![n] = routed[n]]
    /\ generation' = [generation EXCEPT ![n] = @ + 1]
    /\ claim' = [claim EXCEPT ![n] = {}]
    /\ recovered' = [recovered EXCEPT ![n] = {}]
    /\ UNCHANGED <<transfer, edit, policies, status, routed, reports, live>>

\* The groups a certificate carries are not part of this model.
updateNodeGroups(n) == rotateNodeCertificate(n)

\* The used record keeps the whole bootstrap it answered with.
RecoverAgent(n) ==
    /\ Active(n) /\ n \in Recoverable
    /\ recovered' = [recovered EXCEPT ![n] = {routed[n]}]
    /\ UNCHANGED <<documents, status, routed, issued, reports, claim, live>>

\* What revoking a node does to its own and to the network's document.
revoked(n) ==
    /\ ~inTransition(n)
    /\ nextConfigRevision
    /\ claim' = [claim EXCEPT ![n] = {}]
    /\ recovered' = [recovered EXCEPT ![n] = {}]
    /\ reconcileNetworkRoutePolicies([status EXCEPT ![n] = "revoked"], routed)
    /\ UNCHANGED <<transfer, edit, issued, reports, live>>

revokeNode(n) ==
    /\ status[n] \in {"pending", "active"}
    /\ status' = [status EXCEPT ![n] = "revoked"]
    /\ UNCHANGED routed
    /\ revoked(n)

\* The successor keeps the prefixes and is pending until it enrolls.
replaceNode(n, m) ==
    /\ Active(n) /\ status[m] = "unused"
    /\ sharable(n, routed[n])
    /\ status' = [status EXCEPT ![n] = "revoked", ![m] = "pending"]
    /\ routed' = [routed EXCEPT ![m] = routed[n]]
    /\ revoked(n)

-----------------------------------------------------------------------------
(* The gateways' agents.                                                   *)

\* The agent installs the bundle it is answered: CA, certificate and config of
\* one document.
InstallBundle(n) ==
    /\ Active(n)
    /\ live' = [live EXCEPT ![n] = [revision |-> revision, generation |-> generation[n],
                                    subnets |-> cert[n]]]
    /\ UNCHANGED <<documents, status, routed, issued, reports, flight>>

Heartbeat(n) ==
    /\ Active(n) /\ live[n].generation # 0
    /\ live[n].revision >= applied[n] /\ live[n].generation >= appliedGen[n]
    /\ live[n].revision = revision => live[n].generation = generation[n]
    /\ applied' = [applied EXCEPT ![n] = live[n].revision]
    /\ appliedGen' = [appliedGen EXCEPT ![n] = live[n].generation]
    /\ UNCHANGED <<documents, status, routed, issued, flight, live>>

-----------------------------------------------------------------------------
Enrolled == Nodes \ (Pending \cup Spares)

Init ==
    /\ revision = 1 /\ transfer = NoTransfer /\ edit = NoEdit
    /\ policies = [p \in Prefixes |-> {}]
    /\ status = [n \in Nodes |-> IF n \in Enrolled THEN "active"
                                 ELSE IF n \in Pending THEN "pending" ELSE "unused"]
    /\ routed = [n \in Nodes |-> IF n \in Spares THEN {} ELSE Profile[n]]
    /\ cert = [n \in Nodes |-> IF n \in Enrolled THEN Profile[n] ELSE {}]
    /\ generation = [n \in Nodes |-> IF n \in Enrolled THEN Issued[n] ELSE 0]
    /\ applied = [n \in Nodes |-> IF n \in Enrolled THEN 1 ELSE 0]
    /\ appliedGen = [n \in Nodes |-> IF n \in Enrolled THEN Issued[n] ELSE 0]
    /\ claim = [n \in Nodes |-> {}] /\ recovered = [n \in Nodes |-> {}]
    /\ live = [n \in Nodes |->
                 IF n \in Enrolled
                 THEN [revision |-> 1, generation |-> Issued[n], subnets |-> Profile[n]]
                 ELSE NoBundle]

Administrator ==
    \/ \E src, tgt \in Nodes, routes \in SUBSET Prefixes : startRouteTransfer(src, tgt, routes)
    \/ PromoteTransfer \/ CompleteTransfer \/ CancelTransfer \/ FinishCancelTransfer
    \/ \E n \in Nodes, desired \in Profiles : startRouteProfileEdit(n, desired)
    \/ PromoteEdit \/ CompleteEdit \/ CancelEdit \/ FinishCancelEdit
    \/ \E p \in Prefixes : updateNetworkRoutePolicy(p)
    \/ \E n \in Nodes : rotateNodeCertificate(n) \/ updateNodeGroups(n) \/ revokeNode(n)
    \/ \E n, m \in Nodes : replaceNode(n, m)

Gateway(n) ==
    \/ Enroll(n) \/ RenewClaim(n) \/ RenewCommit(n) \/ releaseRenewalClaim(n)
    \/ RecoverAgent(n) \/ InstallBundle(n) \/ Heartbeat(n)

Next == Administrator \/ \E n \in Nodes : Gateway(n)

Spec == Init /\ [][Next]_vars

-----------------------------------------------------------------------------
(* Properties.                                                             *)

TransferPhases == {"none", "preparing_target", "cleaning_source", "cleaning_target",
                   "completed", "cancelled"}
EditPhases     == {"none", "preparing_owner", "cleaning_owner", "cleaning_cancelled_owner",
                   "completed", "cancelled"}
Revisions      == 0..MaxRevision
Generations    == 0..MaxGeneration

Transfers == [phase : TransferPhases, source : Nodes \cup {"none"}, target : Nodes \cup {"none"},
              routes : SUBSET Prefixes, sourceOriginal : Profiles, targetOriginal : Profiles,
              targetGeneration : Generations, sourceGeneration : Generations]
Edits     == [phase : EditPhases, node : Nodes \cup {"none"}, original : Profiles,
              desired : Profiles, prepared : Generations, cleanup : Generations]

\* Every field holds a value of the document; in particular no node record, staged
\* certificate or claim ever holds more than MaxSubnets prefixes
\* (maxRoutedSubnetsPerNode) although transitions take unions.
TypeOK ==
    /\ revision \in 1..MaxRevision
    /\ transfer \in Transfers /\ edit \in Edits
    /\ policies \in [Prefixes -> SUBSET Nodes]
    /\ status \in [Nodes -> {"unused", "pending", "active", "revoked"}]
    /\ routed \in [Nodes -> Profiles] /\ cert \in [Nodes -> Profiles]
    /\ generation \in [Nodes -> Generations]
    /\ applied \in [Nodes -> Revisions] /\ appliedGen \in [Nodes -> Generations]
    /\ claim \in [Nodes -> SUBSET Profiles] /\ recovered \in [Nodes -> SUBSET Profiles]
    /\ live \in [Nodes -> [revision : Revisions, generation : Generations,
                           subnets : Profiles]]

\* Peers are told to route a prefix through a gateway only while the certificate that
\* gateway runs authorises the prefix: additions and transfers are certificate-first.
PublishedIsAuthorised ==
    \A n \in Nodes : Active(n) /\ live[n].generation # 0 => routed[n] \subseteq live[n].subnets

\* A gateway outside every transition runs a certificate for exactly the prefixes it
\* publishes: completion and cancellation never leave staged or moved authority behind.
RestingAuthorityIsExact ==
    \A n \in Nodes :
        Active(n) /\ live[n].generation # 0 /\ ~inTransition(n) => live[n].subnets = routed[n]

\* What peers are told and what certificates authorise never part: additions are
\* certificate-first, removals are route-first, and no transition leaves a surplus.
AuthorityFollowsRoutes == PublishedIsAuthorised /\ RestingAuthorityIsExact

\* The gateway a transferred prefix belongs to in the current phase.
transferOwner == IF transfer.phase = "cleaning_source" THEN transfer.target ELSE transfer.source

\* A prefix being transferred has one published gateway at every moment: the source
\* until promotion, the target from promotion on.  The one exception is an identity
\* that held the prefix while pending (a replacement, say) and enrolled since.
TransferHasOneOwner ==
    routeTransferActive =>
        \A p \in transfer.routes :
            activeRouteOwners(p) \cap (Enrolled \cup {transferOwner}) = {transferOwner}

\* What the graph check demands of an active transfer, of an active edit and of the
\* stored policies holds after every other operation, so no lifecycle operation is
\* refused because a transition is under way: participants stay active, ownership equals
\* the phase's snapshot, the two transitions exclude each other, and a policy names
\* exactly the active owners of its prefix.
SnapshotsHold ==
    /\ TypeOK
    /\ validateNetworkRouteTransfer /\ validateNetworkRouteProfileEdit
    /\ \A p \in Prefixes : policies[p] \in {{}, activeRouteOwners(p)}

\* The node a transition waits for, with the generation it must report.
awaited ==
    CASE transfer.phase \in {"preparing_target", "cleaning_target"} ->
            {<<transfer.target, transfer.targetGeneration>>}
      [] transfer.phase = "cleaning_source" -> {<<transfer.source, transfer.sourceGeneration>>}
      [] routeProfileEditActive -> {<<edit.node, routeProfileEditDesiredGeneration>>}
      [] OTHER -> {}

=============================================================================
