---------------------------- MODULE ReleaseTrust ----------------------------
(***************************************************************************)
(* How a release reaches a Linux host, from the offline authoring tools    *)
(* (cmd/mesh-release) over the immutable origin (internal/releaseorigin)   *)
(* to the installer's trust decision (internal/release, and online.go,     *)
(* root_store.go, online_intake.go, verify.go and installer.go of          *)
(* internal/linuxinstall).                                                 *)
(*                                                                         *)
(* The ROOT CEREMONY publishes successor roots, each signed by a threshold *)
(* of the old and of the new root keys.  The RELEASE ENGINEER turns an     *)
(* artifact into a release and a channel manifest, a bundle, a generation  *)
(* of the origin and (the ASSEMBLER) an offline snapshot.  The HOST keeps  *)
(* an append-only history of root updates, the installer state with its    *)
(* high water, and three lock files; invocations of mesh-install by two    *)
(* operators interleave over them one step at a time.                      *)
(*                                                                         *)
(* A key is a string, a signature is membership in a set of signers, a     *)
(* digest is the document without its signatures, and a time is a number   *)
(* of days.  What the transaction does after its journal is prepared is    *)
(* the subject of LinuxInstall; here it either completes or is undone.     *)
(***************************************************************************)
EXTENDS Naturals, Sequences, FiniteSets

CONSTANT
    Scenes       \* the publishing plans and the hosts they are followed on

VARIABLES
    scene,       \* the plan of this behaviour, its last day, and how many crashes,
                 \* failed syncs, undone activations and reselections it may see
    now,         \* the day
    faults,      \* faults so far
    roots,       \* root updates the ceremony has released, oldest first
    ceremony,    \* [next, step]: the next proposal and how far it is
    engineer,    \* [next, step, release, bundle, done]
    origin,      \* [generations, serving, cached]
    assembler,   \* [step, inputs]: an offline snapshot in the making
    media,       \* the offline snapshot an operator carries to the host
    trust,       \* the host's root store: [history, durable, pending]
    state,       \* installer state: [found, schema, high, active, pending]
    locks,       \* holders of the lock files: [intake, roots, state]
    workspace,   \* a directory is left or in use in the online intake
    work         \* the invocations of mesh-install

vars == <<scene, now, faults, roots, ceremony, engineer, origin, assembler,
          media, trust, state, locks, workspace, work>>

publisher == <<roots, ceremony, engineer, origin, assembler, media>>
host == <<trust, state, locks, workspace, work>>

(* The first operator retries install-online until it succeeds; the second  *)
(* makes the attempts scene.second lists, each "online" or "offline".       *)
Procs == {"first", "second"}

-----------------------------------------------------------------------------
(* Documents. *)

Threshold == 2

NoManifest == [epoch |-> 0, sequence |-> 0, floor |-> 0, build |-> 0,
               expires |-> 0, signers |-> {}]
NoChannel == [pins |-> NoManifest, expires |-> 0, signers |-> {}]
NoBundle == [updates |-> <<>>, channel |-> NoChannel, release |-> NoManifest]
NoRelease == [release |-> NoManifest, channel |-> NoChannel, root |-> 0, verified |-> 0]

(* The bytes a manifest's digest covers: signatures are kept beside them. *)
Digest(m) == [m EXCEPT !.signers = {}]

Larger(a, b) == IF a > b THEN a ELSE b

(* validateRoot and validateRootRole: positive floors and two disjoint      *)
(* roles, each able to reach its threshold.                                 *)
ValidRoot(r) ==
    /\ Cardinality(r.rootKeys) >= Threshold
    /\ Cardinality(r.releaseKeys) >= Threshold
    /\ r.rootKeys \cap r.releaseKeys = {}
    /\ r.epoch > 0 /\ r.sequence > 0 /\ r.floor > 0

(* ParseRoot accepts the one encoding of a valid versioned root. *)
ParseRoot(r) == r.version > 0 /\ ValidRoot(r)

(* sameRootRole: keys and threshold of the release role are unchanged. *)
SameReleaseRole(p, r) == p.releaseKeys = r.releaseKeys

ValidateRootSuccessor(p, r) ==
    /\ r.version = p.version + 1
    /\ r.floor >= p.floor
    /\ r.epoch \in {p.epoch, p.epoch + 1}
    /\ r.epoch = p.epoch => SameReleaseRole(p, r) /\ r.sequence >= p.sequence

(* collectSignatureVotes: distinct trusted keys that signed the bytes. *)
Votes(signers, keys) == Cardinality(signers \cap keys)

(* Mutant: the successor's own keys are enough. *)
TransitionByNewKeys(p, u) ==
    /\ ParseRoot(u.root) /\ ValidateRootSuccessor(p, u.root)
    /\ Votes(u.signers, u.root.rootKeys) >= Threshold

VerifyRootTransition(p, u) ==
    /\ ParseRoot(u.root) /\ ValidateRootSuccessor(p, u.root)
    /\ Votes(u.signers, p.rootKeys) >= Threshold
    /\ Votes(u.signers, u.root.rootKeys) >= Threshold

ValidateCurrentRoot(r, t) == t < r.expires

(* canonicalRootUpdate: a root with at least one signature. *)
ParseRootUpdate(u) == ParseRoot(u.root) /\ u.signers # {}

(* The compiled trust a host starts from: a version 1 root of epoch 1. *)
LoadBootstrap(r) == ParseRoot(r) /\ r.version = 1 /\ r.epoch = 1

(* The root of version v in a history of updates. *)
RootVersion(h, v) == IF v = 1 THEN scene.first ELSE h[v - 1].root
Current(h) == RootVersion(h, Len(h) + 1)

(* replay: every update of the history follows from the one before it. *)
Replays(h) == \A i \in 1..Len(h) : VerifyRootTransition(RootVersion(h, i), h[i])

(* validateCommon and validateManifestReleaseEpoch: the position and the    *)
(* floor a document of the root's epoch must reach.                         *)
ParseReleaseManifest(m, r, sequence, floor, t) ==
    /\ m.epoch = r.epoch
    /\ m.sequence >= sequence
    /\ m.floor >= floor
    /\ t < m.expires

(* parseChannelManifest: a channel repeats the position of the release it   *)
(* pins and expires on its own.                                             *)
ParseChannelManifest(c, r, sequence, floor, t) ==
    /\ ParseReleaseManifest(c.pins, r, sequence, floor, t)
    /\ t < c.expires

(* Mutant: one release signature is enough. *)
SingleSignature(m, r) ==
    Votes(m.signers, r.releaseKeys) >= 1

(* VerifyManifest's threshold over the release role. *)
VerifyManifest(m, r) ==
    Votes(m.signers, r.releaseKeys) >= Threshold

(* Both documents are signed, and the channel pins exactly this release. *)
VerifyChannelRelease(c, m, r, sequence, floor, t) ==
    /\ ParseChannelManifest(c, r, sequence, floor, t)
    /\ VerifyManifest(c, r)
    /\ c.pins = Digest(m)
    /\ ParseReleaseManifest(m, r, sequence, floor, t)
    /\ VerifyManifest(m, r)
    /\ m.floor <= scene.supported

(* validateBundle, and the descriptor of a snapshot: root updates of        *)
(* consecutive versions and signatures on both manifests.                   *)
Consecutive(updates) ==
    \A i \in 1..Len(updates) :
        ParseRootUpdate(updates[i]) /\ updates[i].root.version = updates[1].root.version + i - 1
ValidateBundle(b) ==
    Consecutive(b.updates) /\ b.channel.signers # {} /\ b.release.signers # {}
ValidateSnapshotDescriptor(b) ==
    Consecutive(b.updates) /\ b.channel # NoChannel /\ b.release # NoManifest

-----------------------------------------------------------------------------
(* The publisher. *)

PublisherInit ==
    /\ scene \in Scenes
    /\ now = 0 /\ faults = 0
    /\ roots = <<>>
    /\ ceremony = [next |-> 1, step |-> "idle"]
    /\ engineer = [next |-> 1, step |-> "idle", release |-> NoManifest, channel |-> NoChannel,
                   bundle |-> NoBundle, staged |-> {}, done |-> {}]
    /\ origin = [generations |-> {}, serving |-> NoBundle, cached |-> {}]
    /\ assembler = [step |-> "idle", inputs |-> NoBundle]
    /\ media = NoBundle

Proposal == scene.roots[ceremony.next]

(* The root a proposal becomes as successor of the latest released root. *)
ProposedUpdate ==
    [root |-> [version |-> Len(roots) + 2, epoch |-> Proposal.epoch,
               sequence |-> Proposal.sequence, floor |-> Proposal.floor,
               expires |-> Proposal.expires, rootKeys |-> Proposal.rootKeys,
               releaseKeys |-> Proposal.releaseKeys],
     signers |-> Proposal.signers]

(* createRoot: canonical, valid and a legal successor, or refused. *)
CreateRoot ==
    /\ ceremony.step = "idle" /\ ceremony.next <= Len(scene.roots)
    /\ ceremony' = IF /\ ParseRoot(ProposedUpdate.root)
                      /\ ValidateRootSuccessor(Current(roots), ProposedUpdate.root)
                   THEN [ceremony EXCEPT !.step = "signing"]
                   ELSE [ceremony EXCEPT !.next = @ + 1]
    /\ UNCHANGED <<scene, now, faults, roots, engineer, origin, assembler, media, host>>

(* assembleRootUpdate: both thresholds, or nothing is written. *)
AssembleRootUpdate ==
    /\ ceremony.step = "signing"
    /\ roots' = IF VerifyRootTransition(Current(roots), ProposedUpdate)
                THEN Append(roots, ProposedUpdate) ELSE roots
    /\ ceremony' = [next |-> ceremony.next + 1, step |-> "idle"]
    /\ UNCHANGED <<scene, now, faults, engineer, origin, assembler, media, host>>

Plan == scene.releases[engineer.next]

Abandon == [engineer EXCEPT !.step = "idle", !.next = @ + 1, !.release = NoManifest,
                            !.channel = NoChannel, !.staged = {}]

(* readStableCurrentRoot: the root file the engineer is given is the latest *)
(* released one, and must not have expired.                                 *)
StableCurrentRoot == ValidateCurrentRoot(Current(roots), now)

(* validateReleaseManifestOptions. *)
ReleaseOptions(plan) == plan.sequence > 0 /\ plan.floor > 0 /\ now < plan.expires

(* One security receipt per platform artifact, for exactly its bytes; on    *)
(* Windows the Authenticode receipts of the same artifact as well.          *)
DarwinReceipt(plan) == plan.receipts.darwin = plan.build
LinuxReceipt(plan) == plan.receipts.linux = plan.build
WindowsReceipts(plan) ==
    plan.receipts.windows = plan.build /\ plan.receipts.authenticode = plan.build

(* createRootedReleaseManifestUsing: under the latest root, at or above its *)
(* floors and with a receipt for every artifact.                            *)
CreateReleaseManifest ==
    /\ engineer.step = "idle" /\ engineer.next <= Len(scene.releases)
    /\ ceremony.next > Plan.after
    /\ LET root == Current(roots)
           m == [epoch |-> root.epoch, sequence |-> Plan.sequence, floor |-> Plan.floor,
                 build |-> Plan.build, expires |-> Plan.expires, signers |-> {}]
       IN  engineer' =
             IF /\ StableCurrentRoot
                /\ ReleaseOptions(Plan)
                /\ DarwinReceipt(Plan) /\ LinuxReceipt(Plan) /\ WindowsReceipts(Plan)
                /\ ParseReleaseManifest(m, root, root.sequence, root.floor, now)
             THEN [engineer EXCEPT !.step = "drafted", !.release = m]
             ELSE Abandon
    /\ UNCHANGED <<scene, now, faults, roots, ceremony, origin, assembler, media, host>>

(* createRootedChannelManifestUsing: the release is parsed again under the  *)
(* root that is latest NOW, which may have moved since it was drafted.      *)
CreateChannelManifest ==
    /\ engineer.step = "drafted"
    /\ LET root == Current(roots)
           c == [pins |-> engineer.release, expires |-> Plan.channelExpires, signers |-> {}]
       IN  engineer' =
             IF /\ StableCurrentRoot
                /\ ParseReleaseManifest(engineer.release, root, root.sequence, root.floor, now)
                /\ ParseChannelManifest(c, root, root.sequence, root.floor, now)
             THEN [engineer EXCEPT !.step = "pinned", !.channel = c]
             ELSE Abandon
    /\ UNCHANGED <<scene, now, faults, roots, ceremony, origin, assembler, media, host>>

(* mesh-release sign, once per custodian who takes part. *)
SignManifest ==
    /\ engineer.step = "pinned"
    /\ engineer' = [engineer EXCEPT !.step = "signed", !.release.signers = Plan.signers,
                                    !.channel.signers = Plan.signers]
    /\ UNCHANGED <<scene, now, faults, roots, ceremony, origin, assembler, media, host>>

(* assembleOnlineBundleUsing: both manifests and every root update so far;  *)
(* assembling establishes no trust.                                         *)
AssembleOnlineBundle ==
    /\ engineer.step = "signed"
    /\ LET b == [updates |-> roots, channel |-> engineer.channel, release |-> engineer.release]
       IN  engineer' = IF ValidateBundle(b)
                       THEN [engineer EXCEPT !.step = "assembled", !.bundle = b,
                                             !.done = @ \cup {b}]
                       ELSE Abandon
    /\ UNCHANGED <<scene, now, faults, roots, ceremony, origin, assembler, media, host>>

(* The objects of a generation: the allowlist, what it lists, the receipt. *)
Listed == {"bundle", "artifact"}
ExactTree == Listed \cup {"index", "receipt"}

(* PublishGeneration refuses a generation that exists, which is inspected   *)
(* (LoadGeneration) instead; otherwise the listed objects are copied.       *)
StageGeneration ==
    /\ engineer.step = "assembled"
    /\ engineer' = IF engineer.bundle \in origin.generations
                   THEN [engineer EXCEPT !.step = "published"]
                   ELSE [engineer EXCEPT !.step = "staged", !.staged = Listed]
    /\ UNCHANGED <<scene, now, faults, roots, ceremony, origin, assembler, media, host>>

(* The index and the receipt are written and the tree is sealed. *)
SealGeneration ==
    /\ engineer.step = "staged"
    /\ engineer' = [engineer EXCEPT !.step = "sealed",
                                    !.staged = @ \cup {"index", "receipt"}]
    /\ UNCHANGED <<scene, now, faults, roots, ceremony, origin, assembler, media, host>>

(* inspectGeneration and the no-replace rename. *)
PublishGeneration ==
    /\ engineer.step = "sealed" /\ engineer.staged = ExactTree
    /\ engineer' = [engineer EXCEPT !.step = "renamed", !.staged = {}]
    /\ origin' = [origin EXCEPT !.generations = @ \cup {engineer.bundle}]
    /\ UNCHANGED <<scene, now, faults, roots, ceremony, assembler, media, host>>

(* The parent directory sync that ends PublishGeneration. *)
SyncGeneration ==
    /\ engineer.step = "renamed"
    /\ engineer' = [engineer EXCEPT !.step = "published"]
    /\ UNCHANGED <<scene, now, faults, roots, ceremony, origin, assembler, media, host>>

(* Any of these steps fails or is killed, and the command is given again:   *)
(* the staging directory is left behind and never used again.               *)
PublishFails ==
    /\ engineer.step \in {"staged", "sealed", "renamed"} /\ faults < scene.faults
    /\ faults' = faults + 1
    /\ engineer' = [engineer EXCEPT !.step = "assembled", !.staged = {}]
    /\ UNCHANGED <<scene, now, roots, ceremony, origin, assembler, media, host>>

(* The operator restarts mesh-origin on the new generation. *)
ServeGeneration ==
    /\ engineer.step = "published"
    /\ origin' = [origin EXCEPT !.serving = engineer.bundle,
                                !.cached = @ \cup {engineer.bundle}]
    /\ engineer' = Abandon
    /\ UNCHANGED <<scene, now, faults, roots, ceremony, assembler, media, host>>

(* A retained generation is selected again (docs/release-trust.md:382), and *)
(* later given up for the newest one.                                       *)
SelectRetained ==
    /\ engineer.step = "idle" /\ faults < scene.faults
    /\ \E b \in origin.generations \ {origin.serving} :
          origin' = [origin EXCEPT !.serving = b]
    /\ faults' = faults + 1
    /\ UNCHANGED <<scene, now, roots, ceremony, engineer, assembler, media, host>>

SelectNewest ==
    /\ engineer.step = "idle" /\ engineer.bundle \in origin.generations
    /\ origin.serving # engineer.bundle
    /\ origin' = [origin EXCEPT !.serving = engineer.bundle]
    /\ UNCHANGED <<scene, now, faults, roots, ceremony, engineer, assembler, media, host>>

(* openSnapshotInputs: the manifests are opened, then the root updates,     *)
(* while the engineer may be putting other files in their place.            *)
OpenSnapshotManifests ==
    /\ assembler.step = "idle" /\ scene.offline /\ media = NoBundle
    /\ engineer.bundle # NoBundle
    /\ assembler' = [step |-> "manifests",
                     inputs |-> [engineer.bundle EXCEPT !.updates = <<>>]]
    /\ UNCHANGED <<scene, now, faults, roots, ceremony, engineer, origin, media, host>>

OpenSnapshotRootUpdates ==
    /\ assembler.step = "manifests"
    /\ assembler' = [step |-> "opened",
                     inputs |-> [assembler.inputs EXCEPT !.updates = engineer.bundle.updates]]
    /\ UNCHANGED <<scene, now, faults, roots, ceremony, engineer, origin, media, host>>

(* Mutant: the inputs are not compared with their paths before publication. *)
AssembleUnchecked ==
    /\ assembler.step = "opened"
    /\ media' = assembler.inputs
    /\ assembler' = [step |-> "idle", inputs |-> NoBundle]
    /\ UNCHANGED <<scene, now, faults, roots, ceremony, engineer, origin, host>>

(* validateAllSnapshotInputs: every path still names the file opened. *)
SnapshotInputsUnchanged == assembler.inputs = engineer.bundle

(* assembleSnapshotUsing: write, validateAllSnapshotInputs, read back and   *)
(* rename; inputs that changed under the assembler leave nothing published. *)
AssembleSnapshot ==
    /\ assembler.step = "opened"
    /\ media' = IF SnapshotInputsUnchanged /\ ValidateSnapshotDescriptor(assembler.inputs)
                THEN assembler.inputs ELSE media
    /\ assembler' = [step |-> "idle", inputs |-> NoBundle]
    /\ UNCHANGED <<scene, now, faults, roots, ceremony, engineer, origin, host>>

PublisherNext ==
    \/ CreateRoot \/ AssembleRootUpdate
    \/ CreateReleaseManifest \/ CreateChannelManifest \/ SignManifest
    \/ AssembleOnlineBundle
    \/ StageGeneration \/ SealGeneration \/ PublishGeneration \/ SyncGeneration
    \/ PublishFails \/ ServeGeneration
    \/ SelectRetained \/ SelectNewest
    \/ OpenSnapshotManifests \/ OpenSnapshotRootUpdates \/ AssembleSnapshot

-----------------------------------------------------------------------------
(* The host: what an invocation of mesh-install holds, and how it ends. *)

Blank == [found |-> FALSE, schema |-> "v3", high |-> NoRelease,
          active |-> NoRelease, pending |-> FALSE]

Idle(runs) == [at |-> "idle", phase |-> "roots", t |-> 0, bundle |-> NoBundle,
               seen |-> Blank, candidate |-> NoRelease, runs |-> runs]

HostInit ==
    /\ trust = [history |-> <<>>, durable |-> 0, pending |-> FALSE, lost |-> FALSE]
    /\ state = scene.host
    /\ locks = [intake |-> "", roots |-> "", state |-> ""]
    /\ workspace = FALSE
    /\ work = [p \in Procs |-> Idle(0)]

At(p, step) == work[p].at = step

Wants(p, kind) ==
    IF p = "first" THEN kind = "online"
    ELSE work[p].runs < Len(scene.second) /\ scene.second[work[p].runs + 1] = kind

Attempts(p) == IF p = "first" THEN 0 ELSE work[p].runs + 1

Free(names) == \A l \in names : locks[l] = ""
Take(p, names) == [l \in DOMAIN locks |-> IF l \in names THEN p ELSE locks[l]]
Drop(p, names) == [l \in DOMAIN locks |-> IF l \in names /\ locks[l] = p THEN "" ELSE locks[l]]

Proceed(p, step) ==
    /\ work' = [work EXCEPT ![p].at = step]
    /\ UNCHANGED <<locks, workspace>>

(* Every return, successful or not: the deferred clean-up removes the       *)
(* workspace this invocation owns and closes the locks it still holds.      *)
Finish(p) ==
    /\ locks' = Drop(p, DOMAIN locks)
    /\ workspace' = (workspace /\ locks.intake # p)
    /\ work' = [work EXCEPT ![p] = Idle(work[p].runs)]

-----------------------------------------------------------------------------
(* The installer state: migration and the trust decision. *)

(* reconcilePending: a file that was never renamed is removed. *)
ReconcilePending == [trust EXCEPT !.pending = FALSE]

(* MigrateV2: only over an empty root history, and only a quiescent state. *)
CanMigrate == state.schema = "v2" => trust.history = <<>> /\ ~state.pending
MigrateV2 == [state EXCEPT !.schema = "v3", !.high.root = 1,
                           !.active.root = IF state.active = NoRelease THEN 0 ELSE 1]

(* validateRootVerificationInputs, and what a persisted state demands. *)
PriorAdmits(root, prior) ==
    /\ ParseRoot(root) /\ LoadBootstrap(scene.first)
    /\ prior.found => /\ (prior.schema = "v2" => root.version = 1)
                      /\ prior.high.release.epoch <= root.epoch
                      /\ ~prior.pending

(* signedMetadataDigests: both manifests are the accepted ones. *)
SameMetadata(r, q) ==
    Digest(r.release) = Digest(q.release) /\ Digest(r.channel) = Digest(q.channel)

(* The exact accepted metadata under the very root that accepted it: the    *)
(* decision is repeated as of its own time.                                 *)
Resuming(b, root, prior) ==
    prior.found /\ SameMetadata(b, prior.high) /\ root.version = prior.high.root

(* releaseIdentity of a verified bundle. *)
Candidate(b, t, root, prior) ==
    [release |-> b.release, channel |-> b.channel, root |-> root.version,
     verified |-> IF Resuming(b, root, prior) THEN prior.high.verified ELSE t]

(* compareReleasePosition *)
SamePosition(m, n) == m.epoch = n.epoch /\ m.sequence = n.sequence
Below(m, n) == m.epoch < n.epoch \/ (m.epoch = n.epoch /\ m.sequence < n.sequence)

MinimumSequence(root, prior) ==
    IF prior.found /\ prior.high.release.epoch = root.epoch
    THEN Larger(root.sequence, prior.high.release.sequence) ELSE root.sequence

MinimumFloor(root, prior) ==
    IF prior.found THEN Larger(root.floor, prior.high.release.floor) ELSE root.floor

(* A second document at the accepted position must be the accepted one,     *)
(* decided under the same root at the same time.                            *)
SameDecision(c, prior) ==
    prior.found /\ SamePosition(c.release, prior.high.release)
        => /\ SameMetadata(c, prior.high)
           /\ c.root = prior.high.root
           /\ c.verified = prior.high.verified

(* verifySignedCandidateWithRoots with the current root as the authority. *)
VerifySignedCandidate(b, t, root, prior) ==
    LET c == Candidate(b, t, root, prior)
    IN  /\ ValidateCurrentRoot(root, t)
        /\ PriorAdmits(root, prior)
        /\ ValidateCurrentRoot(root, c.verified)
        /\ VerifyChannelRelease(b.channel, b.release, root, MinimumSequence(root, prior),
                                MinimumFloor(root, prior), c.verified)
        /\ SameDecision(c, prior)

(* State.CheckCandidate, once more before the journal is prepared. *)
CheckCandidate(prior, c) ==
    prior.found =>
        /\ c.release.floor >= prior.high.release.floor
        /\ \/ /\ Below(prior.high.release, c.release)
              /\ c.root >= prior.high.root
           \/ /\ SamePosition(c.release, prior.high.release)
              /\ SameDecision(c, prior)

-----------------------------------------------------------------------------
(* mesh-install install-online: intake, roots, candidate, artifact. *)

(* applyOnlineUsing begins: one clock reading governs the attempt. *)
StartOnline(p) ==
    /\ At(p, "idle") /\ Wants(p, "online") /\ LoadBootstrap(scene.first)
    /\ work' = [work EXCEPT ![p].at = "intake", ![p].phase = "roots", ![p].t = now,
                            ![p].runs = Attempts(p)]
    /\ UNCHANGED <<scene, now, faults, publisher, trust, state, locks, workspace>>

(* acquireOnlineIntake: the lock is tried once. *)
AcquireOnlineIntake(p) ==
    /\ At(p, "intake")
    /\ IF Free({"intake"})
       THEN /\ locks' = Take(p, {"intake"})
            /\ work' = [work EXCEPT ![p].at = "reconcile"]
            /\ UNCHANGED workspace
       ELSE Finish(p)
    /\ UNCHANGED <<scene, now, faults, publisher, trust, state>>

(* Mutant: an intake that is not empty is refused. *)
ReconcileRefuses(p) ==
    /\ At(p, "reconcile")
    /\ work' = IF workspace THEN [work EXCEPT ![p] = Idle(work[p].runs)]
               ELSE [work EXCEPT ![p].at = "fetch"]
    /\ locks' = IF workspace THEN Drop(p, DOMAIN locks) ELSE locks
    /\ UNCHANGED <<scene, now, faults, publisher, trust, state, workspace>>

(* reconcileUsing: what an interrupted attempt left in the intake goes. *)
Reconcile(p) ==
    /\ At(p, "reconcile")
    /\ workspace' = FALSE
    /\ work' = [work EXCEPT ![p].at = "fetch"]
    /\ UNCHANGED <<scene, now, faults, publisher, trust, state, locks>>

(* FetchBundle: the bundle served now, or one a cache still holds. *)
FetchBundle(p, b) ==
    /\ At(p, "fetch")
    /\ b \in origin.cached /\ ValidateBundle(b)
    /\ work' = [work EXCEPT ![p].at = "roots", ![p].bundle = b]
    /\ UNCHANGED <<scene, now, faults, publisher, trust, state, locks, workspace>>

FetchFails(p) ==
    /\ At(p, "fetch")
    /\ Finish(p)
    /\ UNCHANGED <<scene, now, faults, publisher, trust, state>>

(* RootStore.Acquire: lock, drop a pending file, replay the history. *)
AcquireRoots(p) ==
    /\ At(p, "roots")
    /\ IF Free({"roots"}) /\ Replays(trust.history)
       THEN /\ locks' = Take(p, {"roots"})
            /\ trust' = ReconcilePending
            /\ work' = [work EXCEPT ![p].at = "advance"]
            /\ UNCHANGED workspace
       ELSE Finish(p) /\ UNCHANGED trust
    /\ UNCHANGED <<scene, now, faults, publisher, state>>

(* Mutant: roots advance without a look at the installer state. *)
AdvanceUnconditionally(p) ==
    /\ At(p, "advance")
    /\ Proceed(p, "chain")
    /\ UNCHANGED <<scene, now, faults, publisher, trust, state>>

(* validateOnlineStateBeforeRootAdvance, under the state lock: migrate a    *)
(* version 2 state, refuse an unfinished transaction.                       *)
ValidateBeforeRootAdvance(p) ==
    /\ At(p, "advance")
    /\ IF Free({"state"}) /\ CanMigrate
       THEN /\ state' = IF state.schema = "v2" THEN MigrateV2 ELSE state
            /\ IF state.pending THEN Finish(p) ELSE Proceed(p, "chain")
       ELSE Finish(p) /\ UNCHANGED state
    /\ UNCHANGED <<scene, now, faults, publisher, trust>>

(* The bundle disagrees with the accepted root of the same version. *)
Equivocates(b) ==
    LET n == Len(trust.history)
    IN  n > 0 /\ n <= Len(b.updates) /\ b.updates[n].root # trust.history[n].root

Owed(b) == Len(b.updates) > Len(trust.history)

(* ApplyChain: one transition is verified and published before the next;    *)
(* the last root must be current.                                           *)
ApplyChain(p) ==
    /\ At(p, "chain")
    /\ LET b == work[p].bundle
           top == Current(trust.history)
       IN  IF Equivocates(b) THEN Finish(p) /\ UNCHANGED trust
           ELSE IF Owed(b)
           THEN IF VerifyRootTransition(top, b.updates[Len(trust.history) + 1])
                THEN trust' = [trust EXCEPT !.pending = TRUE] /\ Proceed(p, "rename")
                ELSE Finish(p) /\ UNCHANGED trust
           ELSE /\ UNCHANGED trust
                /\ IF ~ValidateCurrentRoot(top, work[p].t) THEN Finish(p)
                   ELSE IF work[p].phase = "apply" THEN Proceed(p, "verify")
                   ELSE /\ locks' = Drop(p, {"roots"})
                        /\ work' = [work EXCEPT ![p].at = "authenticate"]
                        /\ UNCHANGED workspace
    /\ UNCHANGED <<scene, now, faults, publisher, state>>

(* publish: the rename makes the update visible ... *)
RenameRoot(p) ==
    /\ At(p, "rename")
    /\ trust' = [trust EXCEPT !.pending = FALSE,
                   !.history = Append(@, work[p].bundle.updates[Len(@) + 1])]
    /\ Proceed(p, "sync")
    /\ UNCHANGED <<scene, now, faults, publisher, state>>

(* ... and the directory sync makes it durable, unless it fails. *)
SyncRoot(p) ==
    /\ At(p, "sync")
    /\ \/ /\ trust' = [trust EXCEPT !.durable = Len(trust.history)]
          /\ Proceed(p, "chain")
          /\ UNCHANGED faults
       \/ /\ faults < scene.faults /\ faults' = faults + 1
          /\ Finish(p)
          /\ UNCHANGED trust
    /\ UNCHANGED <<scene, now, publisher, state>>

(* authenticateOnlineCandidate: under the state lock and then the root lock *)
(* the metadata must be acceptable before an artifact is requested.         *)
AuthenticateOnlineCandidate(p) ==
    /\ At(p, "authenticate")
    /\ IF /\ Free({"state", "roots"})
          /\ VerifySignedCandidate(work[p].bundle, work[p].t, Current(trust.history), state)
       THEN trust' = ReconcilePending /\ Proceed(p, "workspace")
       ELSE Finish(p) /\ UNCHANGED trust
    /\ UNCHANGED <<scene, now, faults, publisher, state>>

NewWorkspace(p) ==
    /\ At(p, "workspace")
    /\ workspace' = TRUE
    /\ work' = [work EXCEPT ![p].at = "artifact"]
    /\ UNCHANGED <<scene, now, faults, publisher, trust, state, locks>>

(* fetchArtifact: the exact bytes the manifest names; an origin that has    *)
(* moved on may no longer list them.                                        *)
FetchArtifact(p) ==
    /\ At(p, "artifact")
    /\ \/ Proceed(p, "materialize")
       \/ work[p].bundle # origin.serving /\ Finish(p)
    /\ UNCHANGED <<scene, now, faults, publisher, trust, state>>

(* materializeSnapshotUsing: the bundle and the sealed artifact become a    *)
(* snapshot directory, descriptor last, which must read back as itself.     *)
MaterializeSnapshot(p) ==
    /\ At(p, "materialize")
    /\ IF ValidateSnapshotDescriptor(work[p].bundle)
       THEN Proceed(p, "quiescent") ELSE Finish(p)
    /\ UNCHANGED <<scene, now, faults, publisher, trust, state>>

-----------------------------------------------------------------------------
(* applySnapshotAt: shared by both commands. *)

(* mesh-install install: the operator names a snapshot directory. *)
StartOffline(p) ==
    /\ At(p, "idle") /\ Wants(p, "offline") /\ media # NoBundle
    /\ work' = [work EXCEPT ![p].at = "quiescent", ![p].t = now, ![p].runs = Attempts(p),
                            ![p].bundle = NoBundle]
    /\ UNCHANGED <<scene, now, faults, publisher, trust, state, locks, workspace>>

(* loadQuiescentSnapshotState: both locks for the length of one read. *)
LoadQuiescentState(p) ==
    /\ At(p, "quiescent")
    /\ IF Free({"roots", "state"}) /\ CanMigrate
       THEN LET loaded == IF state.schema = "v2" THEN MigrateV2 ELSE state
            IN  /\ state' = loaded
                /\ trust' = ReconcilePending
                /\ IF state.pending THEN Finish(p)
                   ELSE /\ work' = [work EXCEPT ![p].at = "open", ![p].seen = loaded]
                        /\ UNCHANGED <<locks, workspace>>
       ELSE Finish(p) /\ UNCHANGED <<trust, state>>
    /\ UNCHANGED <<scene, now, faults, publisher>>

(* OpenMetadataSnapshot, after the preflight over the services: the         *)
(* materialized workspace, or what the medium holds now.                    *)
OpenMetadataSnapshot(p) ==
    /\ At(p, "open")
    /\ LET b == IF work[p].bundle = NoBundle THEN media ELSE work[p].bundle
       IN  work' = [work EXCEPT ![p].at = "relock", ![p].bundle = b, ![p].phase = "apply"]
    /\ UNCHANGED <<scene, now, faults, publisher, trust, state, locks, workspace>>

(* Root lock, then state lock; the state must be the one read before. *)
Relock(p) ==
    /\ At(p, "relock")
    /\ IF Free({"roots", "state"}) /\ work[p].seen = state
       THEN /\ locks' = Take(p, {"roots", "state"})
            /\ trust' = ReconcilePending
            /\ work' = [work EXCEPT ![p].at = "chain"]
            /\ UNCHANGED workspace
       ELSE Finish(p) /\ UNCHANGED trust
    /\ UNCHANGED <<scene, now, faults, publisher, state>>

(* Verification under both locks, CaptureArtifact and                       *)
(* stageAndPublishCandidate, after which the root lock is released.         *)
VerifyAndStage(p) ==
    /\ At(p, "verify")
    /\ LET b == work[p].bundle
           root == Current(trust.history)
       IN  IF VerifySignedCandidate(b, work[p].t, root, state)
           THEN /\ locks' = Drop(p, {"roots"})
                /\ work' = [work EXCEPT ![p].at = "prepare",
                              ![p].candidate = Candidate(b, work[p].t, root, state)]
                /\ UNCHANGED workspace
           ELSE Finish(p)
    /\ UNCHANGED <<scene, now, faults, publisher, trust, state>>

(* sameAuthenticatedReleaseIgnoringInstalledID *)
SameIdentity(a, c) == SameMetadata(a, c) /\ a.root = c.root /\ a.verified = c.verified

(* prepareRootedActivationState and Commit: an active release is left, any  *)
(* other candidate becomes the high water and a pending transaction.        *)
Prepare(p) ==
    /\ At(p, "prepare")
    /\ LET c == work[p].candidate
       IN  IF \/ SameIdentity(state.active, c)
              \/ ~CheckCandidate(state, c)
           THEN Finish(p) /\ UNCHANGED state
           ELSE /\ state' = [state EXCEPT !.found = TRUE, !.high = c, !.pending = TRUE]
                /\ Proceed(p, "execute")
    /\ UNCHANGED <<scene, now, faults, publisher, trust>>

Completed == [state EXCEPT !.active = state.high, !.pending = FALSE]

(* Mutant: compensation puts the high water back as well. *)
UndoneWithHighWater == [state EXCEPT !.pending = FALSE, !.high = state.active]

Undone == [state EXCEPT !.pending = FALSE]

(* executePreparedTransaction completes, or compensates a failed target. *)
Execute(p) ==
    /\ At(p, "execute")
    /\ \/ state' = Completed /\ UNCHANGED faults
       \/ /\ faults < scene.faults /\ faults' = faults + 1
          /\ state' = Undone
    /\ Finish(p)
    /\ UNCHANGED <<scene, now, publisher, trust>>

(* mesh-install recover: the one transaction the journal names. *)
RecoverInstallation ==
    /\ state.pending /\ Free({"state"})
    /\ \/ state' = Completed /\ UNCHANGED faults
       \/ /\ faults < scene.faults /\ faults' = faults + 1
          /\ state' = Undone
    /\ UNCHANGED <<scene, now, publisher, trust, locks, workspace, work>>

-----------------------------------------------------------------------------
(* Faults and time. *)

(* One invocation is killed: its flocks go with it, its files stay. *)
Kill(p) ==
    /\ ~At(p, "idle") /\ faults < scene.faults
    /\ faults' = faults + 1
    /\ locks' = Drop(p, DOMAIN locks)
    /\ work' = [work EXCEPT ![p] = Idle(work[p].runs)]
    /\ UNCHANGED <<scene, now, publisher, trust, state, workspace>>

(* The host loses power: updates that were renamed and never synced may be  *)
(* gone, and what the next boot finds is durable.                           *)
PowerLoss ==
    /\ faults < scene.faults
    /\ \E p \in Procs : ~At(p, "idle")
    /\ faults' = faults + 1
    /\ \E n \in trust.durable..Len(trust.history) :
          trust' = [trust EXCEPT !.history = SubSeq(@, 1, n), !.durable = n,
                                 !.lost = @ \/ n < Len(trust.history)]
    /\ locks' = [l \in DOMAIN locks |-> ""]
    /\ work' = [p \in Procs |-> Idle(work[p].runs)]
    /\ UNCHANGED <<scene, now, publisher, state, workspace>>

Tick ==
    /\ now < scene.days
    /\ now' = now + 1
    /\ UNCHANGED <<scene, faults, publisher, host>>

OnlineStep(p) ==
    \/ AcquireOnlineIntake(p) \/ Reconcile(p) \/ FetchFails(p)
    \/ AcquireRoots(p) \/ ValidateBeforeRootAdvance(p)
    \/ AuthenticateOnlineCandidate(p) \/ NewWorkspace(p) \/ FetchArtifact(p)
    \/ MaterializeSnapshot(p)

ApplyStep(p) ==
    \/ ApplyChain(p) \/ RenameRoot(p) \/ SyncRoot(p)
    \/ LoadQuiescentState(p) \/ OpenMetadataSnapshot(p) \/ Relock(p)
    \/ VerifyAndStage(p) \/ Prepare(p) \/ Execute(p)

Runs(p) == \/ OnlineStep(p) \/ ApplyStep(p)
           \/ \E b \in origin.cached : FetchBundle(p, b)

HostNext ==
    \/ \E p \in Procs : StartOnline(p) \/ StartOffline(p) \/ Runs(p) \/ Kill(p)
    \/ RecoverInstallation \/ PowerLoss

Init == PublisherInit /\ HostInit

Next == PublisherNext \/ HostNext \/ Tick

-----------------------------------------------------------------------------
(* Fairness.  The people with a plan finish it; the first operator retries  *)
(* and runs mesh-install recover when told to; a running process takes its  *)
(* steps; a cache that is asked for ever eventually revalidates.            *)

Fairness ==
    /\ WF_vars(PublisherNext)
    /\ \A p \in Procs : WF_vars(Runs(p))
    /\ WF_vars(StartOnline("first"))
    /\ WF_vars(RecoverInstallation)
    /\ SF_vars(FetchBundle("first", engineer.bundle))

Spec == Init /\ [][Next]_vars /\ Fairness

-----------------------------------------------------------------------------
(* Properties. *)

Steps == {"idle", "intake", "reconcile", "fetch", "roots", "advance", "chain", "rename",
          "sync", "authenticate", "workspace", "artifact", "materialize", "quiescent", "open",
          "relock", "verify", "prepare", "execute"}

TypeOK ==
    /\ now \in 0..scene.days /\ faults \in 0..scene.faults
    /\ ceremony.step \in {"idle", "signing"}
    /\ engineer.step \in {"idle", "drafted", "pinned", "signed", "assembled", "staged", "sealed",
                         "renamed", "published"}
    /\ trust.durable \in 0..Len(trust.history)
    /\ state.schema \in {"v2", "v3"} /\ {state.found, state.pending} \subseteq BOOLEAN
    /\ \A l \in DOMAIN locks : locks[l] \in Procs \cup {""}
    /\ workspace \in BOOLEAN
    /\ \A p \in Procs : work[p].at \in Steps

(* A release the host accepted or runs carries a threshold of signatures by *)
(* the release keys of the root it was accepted under, meets that root's    *)
(* floors and was built from an artifact with a security receipt.           *)
Authorised(r) ==
    r # NoRelease =>
        LET root == RootVersion(roots, r.root)
        IN  /\ Cardinality(r.release.signers \cap root.releaseKeys) >= 2
            /\ Cardinality(r.channel.signers \cap root.releaseKeys) >= 2
            /\ r.channel.pins = Digest(r.release)
            /\ r.release.epoch = root.epoch
            /\ r.release.sequence >= root.sequence /\ r.release.floor >= root.floor
            /\ \A i \in 1..Len(scene.releases) :
                  scene.releases[i].build = r.release.build
                      => \A f \in DOMAIN scene.releases[i].receipts :
                             scene.releases[i].receipts[f] = r.release.build

(* Trust: the root history is a prefix of what the ceremony released, each  *)
(* entry signed by two keys of its predecessor and two of its own; what was *)
(* accepted and what runs was authorised; no root advanced over a version 2 *)
(* state or over an unfinished transaction, whoever advanced it; an attempt *)
(* keeps its workspace until it ends; and whatever reaches the origin or a  *)
(* medium is one set of files that was assembled together.  The one excuse  *)
(* is a power loss after a failed directory sync (root_store.go:576): a     *)
(* later attempt takes the entry for durable.                               *)
TrustHolds ==
    /\ TypeOK
    /\ \A i \in 1..Len(trust.history) :
          LET u == trust.history[i]
              p == RootVersion(trust.history, i)
          IN  /\ i <= Len(roots) /\ u = roots[i]
              /\ Cardinality(u.signers \cap p.rootKeys) >= 2
              /\ Cardinality(u.signers \cap u.root.rootKeys) >= 2
              /\ u.root.epoch = p.epoch => u.root.sequence >= p.sequence
    /\ state.schema = "v3" => Authorised(state.high) /\ Authorised(state.active)
    /\ trust.lost \/ state.high.root <= Len(trust.history) + 1
    /\ state.schema = "v2" => trust.history = <<>>
    /\ state.pending => trust.lost \/ state.high.root = Len(trust.history) + 1
    /\ \A p \in Procs :
          locks.intake = p /\ work[p].at \notin {"reconcile", "fetch", "roots", "advance",
                                                "authenticate", "workspace"}
              => workspace \/ work[p].phase = "roots"
    /\ origin.generations \subseteq engineer.done
    /\ media \in engineer.done \cup {NoBundle}

(* What a step may do to trust: the accepted position only rises, and to a  *)
(* release accepted under the root that is current at the moment of the     *)
(* commit, although the root lock was released before it                    *)
(* (installer.go:189); its security floor never falls; only the accepted    *)
(* release becomes active; and the root history only grows, except for an   *)
(* entry whose sync failed.                                                 *)
TrustAdvances ==
    [][/\ state'.high # state.high /\ state.schema = "v3" =>
            /\ Below(state.high.release, state'.high.release)
            /\ state'.high.release.floor >= state.high.release.floor
            /\ state'.high.root = Len(trust.history) + 1
            /\ state'.pending
       /\ state'.active # state.active /\ state.schema = "v3" => state'.active = state.high
       /\ \/ /\ Len(trust'.history) >= Len(trust.history)
             /\ SubSeq(trust'.history, 1, Len(trust.history)) = trust.history
          \/ /\ Len(trust'.history) >= trust.durable
             /\ trust'.history = SubSeq(trust.history, 1, Len(trust'.history))]_vars

Planned == ceremony.next > Len(scene.roots) /\ engineer.next > Len(scene.releases)

(* The newest release is the accepted one, and its root has been succeeded. *)
Outlived ==
    /\ Digest(state.high.release) = Digest(engineer.bundle.release)
    /\ state.high.root <= Len(trust.history)

(* A host whose operator keeps retrying install-online, over crashes, stale *)
(* caches, another operator's attempts and rotated roots, ends up running   *)
(* the newest published release.  The one excuse: after an undone           *)
(* activation a root rotation makes the accepted release inadmissible       *)
(* (verify.go:223), until a later release is published.                     *)
ReleaseArrives ==
    []<>(/\ Planned
         /\ \/ Digest(state.active.release) = Digest(engineer.bundle.release)
            \/ Outlived)

=============================================================================
