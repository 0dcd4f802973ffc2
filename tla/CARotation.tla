----------------------------- MODULE CARotation -----------------------------
(***************************************************************************)
(* Guided replacement of a network's Nebula CA: the control plane's        *)
(* five-step record (internal/control/ca_rotation.go), the certificate     *)
(* issuance it races with (Enroll and Renew in internal/control/service.go)*)
(* and the node agents that poll, install and report                       *)
(* (internal/nodeagent/agent.go).                                          *)
(*                                                                         *)
(* One network.  A CA certificate is a positive number, numbered in the    *)
(* order the control plane accepts them; a trust bundle is the set of CAs  *)
(* it concatenates, and its SHA-256 is the set itself.  A host certificate *)
(* is identified by its generation; what matters of it is the CA that      *)
(* signed it.  Wall-clock windows (a claim older than five minutes, a      *)
(* renewal that falls due, a recovery result that expires) are steps that  *)
(* may happen at any time.                                                 *)
(***************************************************************************)
EXTENDS Integers, FiniteSets

CONSTANTS
    Nodes,          \* the managed nodes of the network
    Lighthouses,    \* the nodes whose enrollment changes every peer's config
    Recoverable,    \* the nodes an administrator may issue a recovery token for
    Transitions,    \* the other transitions in use: "firewall", "route"
    MaxRevision,    \* where nextConfigRevision refuses to advance
    MaxGeneration   \* where a certificate generation refuses to advance

ASSUME NodesAssumption == Lighthouses \subseteq Nodes /\ Recoverable \subseteq Nodes
ASSUME TransitionsAssumption == Transitions \subseteq {"firewall", "route"}
ASSUME BoundsAssumption == MaxRevision \in Nat \ {0} /\ MaxGeneration \in Nat \ {0}

VARIABLES
    \* The network document.
    ca,             \* CACertificate
    phase,          \* CARotation.Phase
    next,           \* CARotation.NextCACertificate, 0 when empty
    minted,         \* the last CA the control plane accepted
    previous,       \* CARotation.PreviousTrustBundleSHA256, {} when empty
    stage,          \* CARotation.StageConfigRevision
    revision,       \* ConfigRevision
    other,          \* the firewall or route transition in progress, if any
    \* The node documents.
    status, authority, generation, applied, appliedGen,
    replay,         \* the signing CA in a used recovery record's result, 0: no record
    replayLive,     \* that record has not expired
    \* Requests being served: the slow calls between two transactions.
    prepareAt,      \* revision a "prepare" preflight accepted, 0: none in flight
    claim,          \* CA chosen by the node's in-flight enroll or renew claim, 0: none
    \* The agents.
    live,           \* the bundle behind the agent's `current' symlink
    saved,          \* what the agent's state file records of it
    inbox,          \* the last response, not yet acted upon
    unsaved         \* the bundle is live and the state file not yet written

network == <<ca, phase, next, minted, previous, stage, revision, other>>
records == <<status, authority, generation, applied, appliedGen, replay, replayLive>>
flight  == <<prepareAt, claim>>
agents  == <<live, saved, inbox, unsaved>>
vars    == <<network, records, flight, agents>>

Phases == {"stable", "prepared", "rotating", "finalizing", "aborting"}

NoBundle == [revision |-> 0, trust |-> {}, authority |-> 0, generation |-> 0]
NoPin    == [revision |-> 0, trust |-> {}, generation |-> 0]
NoReply  == [kind |-> "none", revision |-> 0, trust |-> {}, previous |-> {},
             authority |-> 0, generation |-> 0, required |-> FALSE]

Active(n) == status[n] = "active"

\* The agent is between two requests: nothing answered, nothing half installed.
idle(n) == inbox[n].kind = "none" /\ ~unsaved[n]

\* What the state file keeps of an installed bundle, and whether it does.
PinOf(b) == [revision |-> b.revision, trust |-> b.trust, generation |-> b.generation]

agrees(n) ==
    /\ live[n].revision # 0
    /\ saved[n].revision = live[n].revision /\ saved[n].trust = live[n].trust
    /\ saved[n].generation = live[n].generation

-----------------------------------------------------------------------------
(* Pure reads of the network document. *)

\* Mutant: dual trust ends with activation.
TrustPreparedOnly == IF phase = "prepared" THEN {ca, next} ELSE {ca}

networkTrustBundle ==
    IF phase \in {"prepared", "rotating"} THEN {ca, next} ELSE {ca}

networkSigningAuthority == IF phase = "rotating" THEN next ELSE ca

networkCARotationRequired(n) == phase = "rotating" /\ authority[n] # next

\* Mutant: a new certificate counts as soon as it is issued.
ConvergedWhenIssued(n) ==
    CASE phase = "stable" -> TRUE
      [] phase = "rotating" -> authority[n] = next /\ applied[n] >= stage
      [] OTHER -> applied[n] >= stage

caRotationNodeConverged(n) ==
    CASE phase = "stable" -> TRUE
      [] phase = "rotating" ->
            /\ authority[n] = next
            /\ appliedGen[n] >= generation[n]
            /\ applied[n] >= stage
      [] OTHER -> applied[n] >= stage

allConverged == \A n \in Nodes : Active(n) => caRotationNodeConverged(n)

noLiveReplay == \A n \in Nodes : replay[n] # 0 => ~replayLive[n]

\* Dropping every expired recovery result of the network; live ones refuse the
\* whole mutation.
pruneExpiredNetworkRecoveryReplays ==
    /\ noLiveReplay
    /\ replay' = [n \in Nodes |-> 0]
    /\ replayLive' = [n \in Nodes |-> FALSE]

nextConfigRevision ==
    /\ revision < MaxRevision
    /\ revision' = revision + 1

\* The signed config (and, for a bootstrap, the CA and certificate) of a node.
signConfig(n, kind) ==
    [kind |-> kind, revision |-> revision, trust |-> networkTrustBundle,
     previous |-> previous, authority |-> authority[n],
     generation |-> generation[n], required |-> networkCARotationRequired(n)]

-----------------------------------------------------------------------------
(* updateNetworkCARotation: an administrator's five actions.  A request    *)
(* carries the revision its author read, and a stale one changes nothing,  *)
(* so only requests at the current revision are steps.                     *)

\* "prepare" looks at the document, then creates a CA outside any transaction.
\* Of two concurrent requests only one can find its revision still current.
PreparePreflight ==
    /\ phase = "stable" /\ other = "none"
    /\ prepareAt' = revision
    /\ UNCHANGED <<network, records, claim, agents>>

Prepare ==
    /\ prepareAt = revision
    /\ phase = "stable" /\ other # "firewall"
    /\ pruneExpiredNetworkRecoveryReplays
    /\ nextConfigRevision
    /\ phase' = "prepared"
    /\ next' = minted + 1 /\ minted' = minted + 1
    /\ previous' = {ca}
    /\ stage' = revision + 1
    /\ prepareAt' = 0
    /\ UNCHANGED <<ca, other, status, authority, generation, applied, appliedGen,
                   claim, agents>>

Activate ==
    /\ phase = "prepared" /\ allConverged
    /\ nextConfigRevision
    /\ phase' = "rotating"
    /\ stage' = revision + 1
    /\ UNCHANGED <<ca, next, minted, previous, other, records, flight, agents>>

Finalize ==
    /\ phase = "rotating" /\ allConverged
    /\ pruneExpiredNetworkRecoveryReplays
    /\ nextConfigRevision
    /\ phase' = "finalizing"
    /\ previous' = networkTrustBundle
    /\ ca' = next
    /\ next' = 0
    /\ stage' = revision + 1
    /\ UNCHANGED <<minted, other, status, authority, generation, applied, appliedGen,
                   flight, agents>>

Abort ==
    /\ phase = "prepared"
    /\ pruneExpiredNetworkRecoveryReplays
    /\ nextConfigRevision
    /\ phase' = "aborting"
    /\ previous' = networkTrustBundle
    /\ next' = 0
    /\ stage' = revision + 1
    /\ UNCHANGED <<ca, minted, other, status, authority, generation, applied, appliedGen,
                   flight, agents>>

\* Mutant: completion does not wait for the closing trust bundle.
CompleteEarly ==
    /\ phase \in {"finalizing", "aborting"}
    /\ nextConfigRevision
    /\ phase' = "stable"
    /\ next' = 0 /\ previous' = {} /\ stage' = 0
    /\ UNCHANGED <<ca, minted, other, records, flight, agents>>

Complete ==
    /\ phase \in {"finalizing", "aborting"} /\ allConverged
    /\ nextConfigRevision
    /\ phase' = "stable"
    /\ next' = 0 /\ previous' = {} /\ stage' = 0
    /\ UNCHANGED <<ca, minted, other, records, flight, agents>>

-----------------------------------------------------------------------------
(* The rest of the control plane, as far as a rotation sees it.            *)

\* A firewall rollout, a route transfer or a route-profile edit begins: each
\* is refused during a CA rotation and moves the revision.
StartOther(kind) ==
    /\ phase = "stable" /\ other = "none"
    /\ nextConfigRevision
    /\ other' = kind
    /\ UNCHANGED <<ca, phase, next, minted, previous, stage, records, flight, agents>>

\* The last step of a route transition leaves the revision alone.
FinishOther ==
    /\ other # "none"
    /\ other' = "none"
    /\ IF other = "firewall" THEN nextConfigRevision ELSE UNCHANGED revision
    /\ UNCHANGED <<ca, phase, next, minted, previous, stage, records, flight, agents>>

\* Relay and DNS edits, cancelled pending nodes and archived nodes move the
\* revision in every phase.
ChangeConfig ==
    /\ nextConfigRevision
    /\ UNCHANGED <<ca, phase, next, minted, previous, stage, other, records, flight, agents>>

\* Enroll, first transaction: claim the token and fix the signing CA.  A claim
\* five minutes old may be taken over, which forgets the older one.
EnrollClaim(n) ==
    /\ status[n] = "pending"
    /\ claim' = [claim EXCEPT ![n] = networkSigningAuthority]
    /\ UNCHANGED <<network, records, prepareAt, agents>>

\* Enroll, second transaction: refused when the signing CA moved meanwhile.
EnrollCommit(n) ==
    /\ status[n] = "pending"
    /\ claim[n] # 0 /\ claim[n] = networkSigningAuthority
    /\ status' = [status EXCEPT ![n] = "active"]
    /\ authority' = [authority EXCEPT ![n] = claim[n]]
    /\ generation' = [generation EXCEPT ![n] = 1]
    /\ claim' = [claim EXCEPT ![n] = 0]
    /\ IF n \in Lighthouses THEN nextConfigRevision ELSE UNCHANGED revision
    /\ UNCHANGED <<ca, phase, next, minted, previous, stage, other, applied, appliedGen,
                   replay, replayLive, prepareAt, agents>>

\* Mutant: the claim fixes the CA of the stable phase.
RenewClaimOldCA(n) ==
    /\ Active(n) /\ idle(n) /\ saved[n].trust # {}
    /\ generation[n] < MaxGeneration
    /\ claim' = [claim EXCEPT ![n] = ca]
    /\ UNCHANGED <<network, records, prepareAt, agents>>

\* Renew, first transaction: due by time, or because the phase requires it.
RenewClaim(n) ==
    /\ Active(n) /\ idle(n) /\ saved[n].trust # {}
    /\ generation[n] < MaxGeneration
    /\ claim' = [claim EXCEPT ![n] = networkSigningAuthority]
    /\ UNCHANGED <<network, records, prepareAt, agents>>

\* Renew, second transaction, and its answer.  validateStateGraph refuses a
\* certificate whose CA differs from the one in the node's used recovery record.
RenewCommit(n) ==
    /\ Active(n)
    /\ claim[n] # 0 /\ claim[n] = networkSigningAuthority
    /\ generation[n] < MaxGeneration
    /\ replay[n] \in {0, claim[n]}
    /\ authority' = [authority EXCEPT ![n] = claim[n]]
    /\ generation' = [generation EXCEPT ![n] = @ + 1]
    /\ claim' = [claim EXCEPT ![n] = 0]
    /\ inbox' = IF idle(n)
                THEN [inbox EXCEPT ![n] =
                        [kind |-> "bundle", revision |-> revision,
                         trust |-> networkTrustBundle, previous |-> previous,
                         authority |-> claim[n], generation |-> generation[n] + 1,
                         required |-> FALSE]]
                ELSE inbox
    /\ UNCHANGED <<network, status, applied, appliedGen, replay, replayLive, prepareAt,
                   live, saved, unsaved>>

\* Signing failed, or the second transaction was refused: the claim is released.
ReleaseClaim(n) ==
    /\ claim[n] # 0
    /\ claim' = [claim EXCEPT ![n] = 0]
    /\ UNCHANGED <<network, records, prepareAt, agents>>

\* RecoverAgent commits a new bearer and stores the bundle it answered with;
\* every other record of the node is dropped.
RecoverAgent(n) ==
    /\ Active(n) /\ n \in Recoverable
    /\ replay' = [replay EXCEPT ![n] = authority[n]]
    /\ replayLive' = [replayLive EXCEPT ![n] = TRUE]
    /\ UNCHANGED <<network, status, authority, generation, applied, appliedGen,
                   flight, agents>>

ExpireReplay(n) ==
    /\ replayLive[n]
    /\ replayLive' = [replayLive EXCEPT ![n] = FALSE]
    /\ UNCHANGED <<network, status, authority, generation, applied, appliedGen, replay,
                   flight, agents>>

RevokeNode(n) ==
    /\ status[n] # "revoked"
    /\ nextConfigRevision
    /\ status' = [status EXCEPT ![n] = "revoked"]
    /\ claim' = [claim EXCEPT ![n] = 0]
    /\ replay' = [replay EXCEPT ![n] = 0]
    /\ replayLive' = [replayLive EXCEPT ![n] = FALSE]
    /\ UNCHANGED <<ca, phase, next, minted, previous, stage, other, authority, generation,
                   applied, appliedGen, prepareAt, agents>>

-----------------------------------------------------------------------------
(* The agent.  It is single-threaded under a process lock: one request at  *)
(* a time, and an answer is acted upon or dropped before the next.         *)

\* An enrollment answer is installed like any other bootstrap.
asBundle(reply) ==
    [kind |-> "bundle", revision |-> reply.revision, trust |-> reply.trust,
     previous |-> reply.previous, authority |-> reply.authority,
     generation |-> reply.generation, required |-> reply.required]

\* meshctl enroll, first answer or a resumed one: allowed until the state file
\* records an applied revision.
FetchEnrollment(n) ==
    /\ Active(n) /\ idle(n) /\ saved[n].revision = 0
    /\ inbox' = [inbox EXCEPT ![n] = signConfig(n, "enroll")]
    /\ UNCHANGED <<network, records, flight, live, saved, unsaved>>

\* InstallEnrollment first persists the pins with no applied revision.
InstallEnrollment(n) ==
    /\ inbox[n].kind = "enroll" /\ saved[n].revision = 0
    /\ saved' = [saved EXCEPT ![n] = [revision |-> 0, trust |-> inbox[n].trust,
                                      generation |-> inbox[n].generation]]
    /\ inbox' = [inbox EXCEPT ![n] = asBundle(inbox[n])]
    /\ UNCHANGED <<network, records, flight, live, unsaved>>

\* Sync asks for the signed config only once the state file agrees with `current'.
FetchConfig(n) ==
    /\ Active(n) /\ idle(n) /\ agrees(n)
    /\ inbox' = [inbox EXCEPT ![n] = signConfig(n, "config")]
    /\ UNCHANGED <<network, records, flight, live, saved, unsaved>>

\* The bootstrap: for changed trust, a changed certificate, a failed renewal or
\* an unusable `current'.  A replayed renewal answers the same way.
FetchBundle(n) ==
    /\ Active(n) /\ idle(n) /\ saved[n].trust # {}
    /\ inbox' = [inbox EXCEPT ![n] = signConfig(n, "bundle")]
    /\ UNCHANGED <<network, records, flight, live, saved, unsaved>>

VerifySignedConfig(n) ==
    /\ saved[n].trust \in {inbox[n].trust, inbox[n].previous}
    /\ inbox[n].revision >= saved[n].revision
    /\ inbox[n].generation >= saved[n].generation

\* A config with unchanged trust and certificate is activated over them.
InstallConfig(n) ==
    /\ inbox[n].kind = "config"
    /\ VerifySignedConfig(n)
    /\ inbox[n].trust = saved[n].trust
    /\ ~inbox[n].required
    /\ inbox[n].generation = live[n].generation
    /\ inbox[n].revision # saved[n].revision
    /\ live' = [live EXCEPT ![n] =
                   [revision |-> inbox[n].revision, trust |-> live[n].trust,
                    authority |-> live[n].authority, generation |-> live[n].generation]]
    /\ unsaved' = [unsaved EXCEPT ![n] = TRUE]
    /\ inbox' = [inbox EXCEPT ![n] = NoReply]
    /\ UNCHANGED <<network, records, flight, saved>>

InstallBundle(n) ==
    /\ inbox[n].kind = "bundle"
    /\ VerifySignedConfig(n)
    /\ live' = [live EXCEPT ![n] =
                   [revision |-> inbox[n].revision, trust |-> inbox[n].trust,
                    authority |-> inbox[n].authority, generation |-> inbox[n].generation]]
    /\ unsaved' = [unsaved EXCEPT ![n] = TRUE]
    /\ inbox' = [inbox EXCEPT ![n] = NoReply]
    /\ UNCHANGED <<network, records, flight, saved>>

\* The answer is lost, refused by VerifySignedConfig or by the activator, or only
\* tells the agent to bootstrap or to renew instead.
DropReply(n) ==
    /\ inbox[n].kind # "none"
    /\ inbox' = [inbox EXCEPT ![n] = NoReply]
    /\ UNCHANGED <<network, records, flight, live, saved, unsaved>>

SaveState(n) ==
    /\ unsaved[n]
    /\ saved' = [saved EXCEPT ![n] = PinOf(live[n])]
    /\ unsaved' = [unsaved EXCEPT ![n] = FALSE]
    /\ UNCHANGED <<network, records, flight, live, inbox>>

\* The agent dies after `current' moved and before the state file did.
CrashBeforeSave(n) ==
    /\ unsaved[n]
    /\ unsaved' = [unsaved EXCEPT ![n] = FALSE]
    /\ UNCHANGED <<network, records, flight, live, saved, inbox>>

\* loadReconciledState adopts a live bundle that verifies under the saved pin.
loadReconciledState(n) ==
    /\ idle(n) /\ live[n].revision # 0
    /\ live[n].trust = saved[n].trust /\ ~agrees(n)
    /\ saved' = [saved EXCEPT ![n] = PinOf(live[n])]
    /\ UNCHANGED <<network, records, flight, live, inbox, unsaved>>

\* The agent reports what its state file and live bundle agree on.  A request
\* that arrives late is one sent earlier: its sequence number keeps it from
\* following a newer one.
Heartbeat(n) ==
    /\ Active(n) /\ idle(n) /\ agrees(n)
    /\ saved[n].revision \in applied[n]..revision
    /\ saved[n].generation \in appliedGen[n]..generation[n]
    /\ saved[n].revision = revision => saved[n].generation = generation[n]
    /\ applied' = [applied EXCEPT ![n] = saved[n].revision]
    /\ appliedGen' = [appliedGen EXCEPT ![n] = saved[n].generation]
    /\ UNCHANGED <<network, status, authority, generation, replay, replayLive, flight, agents>>

-----------------------------------------------------------------------------
Init ==
    /\ ca = 1 /\ phase = "stable" /\ next = 0 /\ minted = 1 /\ previous = {} /\ stage = 0
    /\ revision = 1 /\ other = "none"
    /\ status = [n \in Nodes |-> "pending"]
    /\ authority = [n \in Nodes |-> 0] /\ generation = [n \in Nodes |-> 0]
    /\ applied = [n \in Nodes |-> 0] /\ appliedGen = [n \in Nodes |-> 0]
    /\ replay = [n \in Nodes |-> 0] /\ replayLive = [n \in Nodes |-> FALSE]
    /\ prepareAt = 0 /\ claim = [n \in Nodes |-> 0]
    /\ live = [n \in Nodes |-> NoBundle] /\ saved = [n \in Nodes |-> NoPin]
    /\ inbox = [n \in Nodes |-> NoReply] /\ unsaved = [n \in Nodes |-> FALSE]

Administrator ==
    \/ PreparePreflight \/ Prepare \/ Activate \/ Finalize \/ Abort \/ Complete
    \/ \E kind \in Transitions : StartOther(kind)
    \/ FinishOther \/ ChangeConfig
    \/ \E n \in Nodes : RevokeNode(n)

Issuance(n) ==
    \/ EnrollClaim(n) \/ EnrollCommit(n) \/ RenewClaim(n) \/ RenewCommit(n)
    \/ ReleaseClaim(n) \/ RecoverAgent(n) \/ ExpireReplay(n)

Agent(n) ==
    \/ FetchEnrollment(n) \/ InstallEnrollment(n) \/ FetchConfig(n) \/ FetchBundle(n)
    \/ InstallConfig(n) \/ InstallBundle(n) \/ DropReply(n) \/ SaveState(n)
    \/ CrashBeforeSave(n) \/ loadReconciledState(n)
    \/ Heartbeat(n)

Next == Administrator \/ \E n \in Nodes : Issuance(n) \/ Agent(n)

Spec == Init /\ [][Next]_vars

-----------------------------------------------------------------------------
(* Properties.                                                             *)

Revisions   == 0..MaxRevision
Generations == 0..MaxGeneration
Bundles == [revision : Revisions, trust : SUBSET Nat, authority : Nat, generation : Generations]
Pins    == [revision : Revisions, trust : SUBSET Nat, generation : Generations]
Replies == [kind : {"none", "enroll", "config", "bundle"}, revision : Revisions,
            trust : SUBSET Nat, previous : SUBSET Nat, authority : Nat,
            generation : Generations, required : BOOLEAN]

\* Type correctness of the network document, the node documents and the agents.
TypeOK ==
    /\ ca \in Nat /\ phase \in Phases /\ next \in Nat /\ minted \in Nat \ {0}
    /\ previous \in SUBSET Nat /\ stage \in Revisions /\ revision \in Revisions \ {0}
    /\ other \in {"none", "firewall", "route"}
    /\ status \in [Nodes -> {"pending", "active", "revoked"}]
    /\ authority \in [Nodes -> Nat] /\ generation \in [Nodes -> Generations]
    /\ applied \in [Nodes -> Revisions] /\ appliedGen \in [Nodes -> Generations]
    /\ replay \in [Nodes -> Nat] /\ replayLive \in [Nodes -> BOOLEAN]
    /\ prepareAt \in Revisions /\ claim \in [Nodes -> Nat]
    /\ live \in [Nodes -> Bundles] /\ saved \in [Nodes -> Pins]
    /\ inbox \in [Nodes -> Replies] /\ unsaved \in [Nodes -> BOOLEAN]

Installed(n) == Active(n) /\ live[n].revision # 0

\* The promise at the head of ca_rotation.go: in no phase, and under no order of
\* polls, lost answers and crashes, are there two managed peers (or one and
\* itself) of which one does not trust the CA of the certificate the other runs.
SharedTrust ==
    \A a, b \in Nodes :
        Installed(a) /\ Installed(b) => live[b].authority \in live[a].trust

\* No agent is stranded: what VerifySignedConfig pins is always the bundle the
\* control plane publishes or the one it names as its predecessor, a crash
\* between activation and the state file included.
PinAccepted ==
    \A n \in Nodes : Active(n) /\ saved[n].trust # {}
        => saved[n].trust \in {networkTrustBundle, previous}

\* A CA rotation never overlaps a firewall rollout or a route transition, though
\* "prepare" re-reads only part of what its preflight read.
OneTransition == other # "none" => phase = "stable"

\* The document never credits an agent with more than its state file and its
\* live bundle hold: convergence is judged on installed configuration only.
ReportsInstalled ==
    \A n \in Nodes : Active(n) =>
        /\ applied[n] <= saved[n].revision /\ saved[n].revision <= live[n].revision
        /\ appliedGen[n] <= live[n].generation

\* The old CA key is given up only when every managed node runs a certificate of
\* the new one.
RetireOnlyUnused ==
    [][ca' # ca => \A n \in Nodes : Active(n) => live[n].authority = ca']_vars

-----------------------------------------------------------------------------
(* Liveness.  Agents poll on a timer and retry every failed request, the   *)
(* control plane serves what it accepts: an operation that keeps being     *)
(* possible is eventually carried out.  Administrators owe nothing.        *)

AgentFairness(n) ==
    /\ WF_vars(DropReply(n))
    /\ SF_vars(FetchEnrollment(n)) /\ SF_vars(InstallEnrollment(n))
    /\ SF_vars(FetchBundle(n)) /\ SF_vars(InstallBundle(n))
    /\ SF_vars(SaveState(n)) /\ SF_vars(loadReconciledState(n))
    /\ SF_vars(RenewClaim(n)) /\ SF_vars(RenewCommit(n))

FairSpec == Spec /\ \A n \in Nodes : AgentFairness(n)

\* A node still on the old CA when the rotation is active.
Due(n) == phase = "rotating" /\ Active(n) /\ authority[n] # next

\* The rotation goes on without this node, or its generations are exhausted.
Moot(n) == phase # "rotating" \/ ~Active(n) \/ generation[n] = MaxGeneration

\* "rotating" forces every node onto the replacement CA: an agent that keeps
\* polling gets a certificate of the new CA, however often it crashes or loses an
\* answer, unless a used recovery record stands in the way.
RotationRenews ==
    \A n \in Nodes : Due(n) ~> (authority[n] = next \/ Moot(n) \/ replay[n] # 0)

=============================================================================
