--------------------------- MODULE AgentCredential ---------------------------
(* The bearer credential of one enrolled node: its ordinary rotation with a    *)
(* grace window, and its administrative recovery with a one-time token.  Both  *)
(* ends are modelled: the node's record and its recovery records in the        *)
(* control document (internal/control/service.go) and the agent's durable      *)
(* state file (internal/nodeagent/agent.go), which exchange requests whose     *)
(* answers may be lost or given up on while the server is still working.       *)
(*                                                                             *)
(* Bearers and recovery tokens are random secrets; here they are the numbers   *)
(* 1, 2, ... in the order they are generated, 0 standing for "none".  The      *)
(* control plane keeps hashes only, and a hash stands for its secret.          *)
EXTENDS Naturals, FiniteSets

CONSTANTS
    Slots,            \* requests the server can be working on at one time
    MaxBearers,       \* bearers ever generated, the enrolled one included
    MaxTokens,        \* recovery tokens ever issued
    MaxClock,         \* the clock stops here
    InitialExpiry,    \* when the enrolled credential expires
    Life,             \* lifetime of a credential (90 days)
    Grace,            \* lifetime of a rotated-out credential (1 hour)
    Ttl,              \* lifetime of a recovery token (30 minutes)
    Lease,            \* a recovery claim younger than this excludes others
    Window,           \* a credential is rotated this long before it expires
    OverRotation,     \* recovery may begin over an incomplete rotation
    AnyToken,         \* the operator may supply a token that was superseded
    Drops,            \* the administrator may rotate the node's certificate
    LongOutage,       \* the agent may miss the grace window of a rotation
    SlowCommit        \* the server may take longer than that to commit one

ASSUME CredentialAssumption ==
    /\ IsFiniteSet(Slots)
    /\ {MaxBearers, MaxTokens, MaxClock, InitialExpiry, Life, Grace, Ttl, Lease, Window} \subseteq Nat
    /\ MaxBearers >= 1 /\ 2 * Grace < Life /\ Lease <= Ttl /\ Ttl <= Life /\ InitialExpiry > 0
    /\ {OverRotation, AnyToken, Drops, LongOutage, SlowCommit} \subseteq BOOLEAN

VARIABLES
    clock,
    node,         \* the credential fields of the node's record
    recoveries,   \* the node's AgentRecoveries
    requests,     \* what each slot of the server is working on
    agent,        \* the agent's durable credential state
    op,           \* where the agent is in the operation it is running
    reply,        \* the answer that reached the agent
    minted,       \* bearers generated so far
    issued,       \* recovery tokens issued so far
    held          \* every bearer that was ever the node's current one

vars == <<clock, node, recoveries, requests, agent, op, reply, minted, issued, held>>

Bearers == 0..MaxBearers
Tokens == 0..MaxTokens
Times == 0..(MaxClock + Life + InitialExpiry)
Ops == {"idle", "synced", "rotating", "retrying", "recovering", "confirming"}

Idle == [kind |-> "none", waited |-> FALSE, auth |-> 0, new |-> 0, token |-> 0, phase |-> "none", at |-> 0]
NoReply == [kind |-> "none", gen |-> 0, expires |-> 0]
Unauthorized == [NoReply EXCEPT !.kind = "unauthorized"]
Failed == [NoReply EXCEPT !.kind = "error"]
Credential(g, e) == [kind |-> "ok", gen |-> g, expires |-> e]

NodeRecords ==
    [status : {"active", "revoked"}, current : Bearers, expires : Times,
     previous : Bearers, grace : Times, gen : Nat]
RecoveryRecords ==
    [token : Tokens, expires : Times, claim : Slots \cup {0}, claimedAt : Times,
     claimNew : Bearers, claimGen : Nat, used : BOOLEAN, gen : Nat, credential : Times]
RequestRecords ==
    [kind : {"none", "rotate", "recover"}, waited : BOOLEAN, auth : Bearers, new : Bearers,
     token : Tokens, at : 0..MaxClock,
     phase : {"none", "sent", "preflighted", "claimed", "refused", "conflicted"}]
AgentRecords ==
    [bearer : Bearers, pending : Bearers, token : Tokens, advance : BOOLEAN,
     gen : Nat, expires : Times]
Replies == [kind : {"none", "ok", "unauthorized", "error"}, gen : Nat, expires : Times]

(* One type invariant: the shapes of the documents and messages.               *)
TypeOK ==
    /\ clock \in 0..MaxClock
    /\ node \in NodeRecords
    /\ recoveries \subseteq RecoveryRecords
    /\ requests \in [Slots -> RequestRecords]
    /\ agent \in AgentRecords
    /\ op \in Ops
    /\ reply \in Replies
    /\ minted \in 1..MaxBearers
    /\ issued \in Tokens
    /\ held \subseteq Bearers

Init ==
    /\ clock = 0
    /\ node = [status |-> "active", current |-> 1, expires |-> InitialExpiry,
               previous |-> 0, grace |-> 0, gen |-> 1]
    /\ recoveries = {}
    /\ requests = [s \in Slots |-> Idle]
    /\ agent = [bearer |-> 1, pending |-> 0, token |-> 0, advance |-> FALSE,
                gen |-> 1, expires |-> InitialExpiry]
    /\ op = "idle"
    /\ reply = NoReply
    /\ minted = 1
    /\ issued = 0
    /\ held = {1}

-----------------------------------------------------------------------------
(* What the control plane asks of a bearer.                                    *)

(* agentCredentialMatch, its second result. *)
IsCurrent(b, at) == b # 0 /\ b = node.current /\ at < node.expires

(* agentCredentialMatch, its first result: current, or within its grace. *)
Matches(b, at) == IsCurrent(b, at) \/ (b # 0 /\ b = node.previous /\ at < node.grace)

(* findAgent: the node a bearer authenticates. *)
Authenticates(b, at) == node.status = "active" /\ Matches(b, at)

(* strictCredentialHashInUse, within the node: its two credentials and what    *)
(* its committed recoveries handed out.                                        *)
HashInUse(b) ==
    \/ b \in {node.current, node.previous}
    \/ \E r \in recoveries : r.used /\ r.claimNew = b

(* A token selects its record unless it is unused and out of date. *)
Selected(token, at) == {r \in recoveries : r.token = token /\ (r.used \/ at < r.expires)}

Unclaimed(r) == [r EXCEPT !.claim = 0, !.claimedAt = 0, !.claimNew = 0, !.claimGen = 0]

(* The server answers: the agent hears it when it still waits for this slot.   *)
Answer(s, answer) ==
    /\ requests' = [requests EXCEPT ![s] = Idle]
    /\ reply' = IF requests[s].waited THEN answer ELSE reply

(* The agent hands a request to a free slot of the server. *)
Send(s, request) ==
    /\ requests[s] = Idle
    /\ requests' = [requests EXCEPT ![s] = request]

Rotation(auth, new) ==
    [kind |-> "rotate", waited |-> TRUE, auth |-> auth, new |-> new, token |-> 0,
     phase |-> "sent", at |-> 0]
Recovery(token, new) ==
    [kind |-> "recover", waited |-> TRUE, auth |-> 0, new |-> new, token |-> token,
     phase |-> "sent", at |-> 0]

-----------------------------------------------------------------------------
(* The control plane.                                                          *)

(* RotateAgentCredential reads the clock once and preflights the bearer. *)
RotatePreflight(s) ==
    /\ requests[s].kind = "rotate" /\ requests[s].phase = "sent"
    /\ IF Authenticates(requests[s].auth, clock)
       THEN /\ requests' = [requests EXCEPT ![s].phase = "preflighted", ![s].at = clock]
            /\ UNCHANGED reply
       ELSE Answer(s, Unauthorized)
    /\ UNCHANGED <<clock, node, recoveries, agent, op, minted, issued, held>>

(* What its transaction decides, with the time read before the preflight: a    *)
(* bearer that asks again for the hash that is already current gets the same   *)
(* answer, and a bearer in its grace window gets nothing else.                 *)
RotateVerdict(q) ==
    IF ~Authenticates(q.auth, q.at) \/ (~IsCurrent(q.auth, q.at) /\ node.current # q.new) THEN "unauthorized"
    ELSE IF node.current = q.new THEN "replay"
    ELSE IF HashInUse(q.new) THEN "conflict"
    ELSE "rotate"

Rotated(q) ==
    [node EXCEPT !.previous = node.current, !.grace = q.at + Grace,
                 !.current = q.new, !.expires = q.at + Life, !.gen = @ + 1]

RotateAnswerFresh(q) == Credential(node.gen, q.at + Life)
RotateAnswer(q) == IF q.at < node.expires THEN Credential(node.gen, node.expires) ELSE Failed

RotateCommit(s) ==
    LET q == requests[s]
        verdict == RotateVerdict(q)
    IN  /\ q.kind = "rotate" /\ q.phase = "preflighted"
        /\ \/ /\ verdict = "rotate"
              /\ node' = Rotated(q)
              /\ held' = held \cup {q.new}
              /\ Answer(s, Credential(node.gen + 1, q.at + Life))
           \/ /\ verdict # "rotate"
              /\ Answer(s, CASE verdict = "unauthorized" -> Unauthorized
                             [] verdict = "conflict" -> Failed
                             [] verdict = "replay" -> RotateAnswer(q))
              /\ UNCHANGED <<node, held>>
        /\ UNCHANGED <<clock, recoveries, agent, op, minted, issued>>

(* preflightAgentRecovery. *)
RecoverPreflight(s) ==
    /\ requests[s].kind = "recover" /\ requests[s].phase = "sent"
    /\ IF node.status = "active" /\ Selected(requests[s].token, clock) # {}
       THEN /\ requests' = [requests EXCEPT ![s].phase = "preflighted"]
            /\ UNCHANGED reply
       ELSE Answer(s, Unauthorized)
    /\ UNCHANGED <<clock, node, recoveries, agent, op, minted, issued, held>>

(* The claim transaction of RecoverAgent, for the record r the token selects:  *)
(* a used record replays its exact result, an unused one is claimed for this   *)
(* request unless another one claimed it within the lease.                     *)
Replays(r, q) ==
    r.claimNew = q.new /\ r.gen = node.gen /\ r.credential = node.expires /\ node.current = q.new

RecoverClaimOf(s, r) ==
    LET q == requests[s] IN
    \/ /\ r.used
       /\ Answer(s, IF Replays(r, q) THEN Credential(r.gen, r.credential) ELSE Unauthorized)
       /\ UNCHANGED recoveries
    \/ /\ ~r.used /\ HashInUse(q.new)
       /\ Answer(s, Failed)
       /\ UNCHANGED recoveries
    \/ /\ ~r.used /\ ~HashInUse(q.new) /\ r.claim # 0 /\ clock - r.claimedAt < Lease
       /\ Answer(s, Unauthorized)
       /\ UNCHANGED recoveries
    \/ /\ ~r.used /\ ~HashInUse(q.new) /\ ~(r.claim # 0 /\ clock - r.claimedAt < Lease)
       /\ recoveries' = (recoveries \ {r}) \cup
            {[r EXCEPT !.claim = s, !.claimedAt = clock, !.claimNew = q.new, !.claimGen = node.gen]}
       /\ requests' = [requests EXCEPT ![s].phase = "claimed"]
       /\ UNCHANGED reply

RecoverClaim(s) ==
    LET q == requests[s]
        selected == Selected(q.token, clock)
    IN  /\ q.kind = "recover" /\ q.phase = "preflighted"
        /\ IF node.status # "active" \/ selected = {}
           THEN Answer(s, Unauthorized) /\ UNCHANGED recoveries
           ELSE \E r \in selected : RecoverClaimOf(s, r)
        /\ UNCHANGED <<clock, node, agent, op, minted, issued, held>>

(* Whether the commit transaction still finds the claim it made: the record    *)
(* is there, unused, unexpired and held by this request, and the generation    *)
(* is the claimed one.                                                         *)
ClaimStands(s, r) ==
    /\ r.token = requests[s].token /\ ~r.used /\ clock < r.expires
    /\ r.claim = s /\ r.claimNew = requests[s].new
    /\ node.status = "active" /\ node.gen = r.claimGen

(* The record as the commit leaves it: used, with the credential it gave. *)
Committed(r) == [r EXCEPT !.used = TRUE, !.gen = node.gen + 1, !.credential = clock + Life]

(* The commit transaction of RecoverAgent: the new credential replaces the     *)
(* current one without grace, the record keeps the result, and every other     *)
(* record of the node goes.                                                    *)
RecoverCommit(s) ==
    LET q == requests[s]
        gen == node.gen + 1
        expires == clock + Life
    IN  /\ q.kind = "recover" /\ q.phase = "claimed"
        /\ \/ /\ HashInUse(q.new) \/ ~\E r \in recoveries : ClaimStands(s, r)
              /\ requests' = [requests EXCEPT ![s].phase =
                   IF \E r \in recoveries : ClaimStands(s, r) THEN "conflicted" ELSE "refused"]
              /\ UNCHANGED <<node, recoveries, reply, held>>
           \/ \E r \in recoveries :
                /\ ClaimStands(s, r) /\ ~HashInUse(q.new)
                /\ node' = [node EXCEPT !.current = q.new, !.previous = 0, !.grace = 0,
                                        !.expires = expires, !.gen = gen]
                /\ recoveries' = {Committed(r)}
                /\ held' = held \cup {q.new}
                /\ Answer(s, Credential(gen, expires))
        /\ UNCHANGED <<clock, agent, op, minted, issued>>

(* releaseAgentRecoveryClaim after a failed commit, and the refusal sent. *)
RecoverRelease(s) ==
    LET mine(r) == r.token = requests[s].token /\ ~r.used /\ r.claim = s IN
    /\ requests[s].kind = "recover" /\ requests[s].phase \in {"refused", "conflicted"}
    /\ recoveries' = {IF mine(r) THEN Unclaimed(r) ELSE r : r \in recoveries}
    /\ Answer(s, IF requests[s].phase = "refused" THEN Unauthorized ELSE Failed)
    /\ UNCHANGED <<clock, node, agent, op, minted, issued, held>>

(* IssueAgentRecovery: unused records of the node go, a used one stays. *)
RetainedAll == recoveries
Retained == {r \in recoveries : r.used}

IssueRecovery ==
    /\ node.status = "active" /\ issued < MaxTokens
    /\ issued' = issued + 1
    /\ recoveries' = Retained \cup
         {[token |-> issued + 1, expires |-> clock + Ttl, claim |-> 0, claimedAt |-> 0, claimNew |-> 0,
           claimGen |-> 0, used |-> FALSE, gen |-> 0, credential |-> 0]}
    /\ UNCHANGED <<clock, node, requests, agent, op, reply, minted, held>>

(* RotateNodeCertificate (and a change of the node's groups): every recovery   *)
(* record of the node goes, used ones included.                                *)
RotateNodeCertificate ==
    /\ Drops /\ node.status = "active" /\ recoveries # {}
    /\ recoveries' = {}
    /\ UNCHANGED <<clock, node, requests, agent, op, reply, minted, issued, held>>

(* Revocation clears both credentials and every recovery record. *)
RevokeNode ==
    /\ node.status = "active"
    /\ node' = [node EXCEPT !.status = "revoked", !.current = 0, !.expires = 0, !.previous = 0, !.grace = 0]
    /\ recoveries' = {}
    /\ UNCHANGED <<clock, requests, agent, op, reply, minted, issued, held>>

(* The server process dies, or the connection does: the request is gone, and   *)
(* a claim it made stays behind.                                               *)
LoseRequest(s) ==
    /\ requests[s] # Idle
    /\ Answer(s, Failed)
    /\ UNCHANGED <<clock, node, recoveries, agent, op, minted, issued, held>>

-----------------------------------------------------------------------------
(* The agent.                                                                  *)

(* The agent stops waiting: a deadline, a lost answer, a crash of its process. *)
(* The server may go on with the request.                                      *)
Abandon ==
    /\ op # "idle"
    /\ op' = "idle"
    /\ reply' = NoReply
    /\ requests' = [s \in Slots |-> [requests[s] EXCEPT !.waited = FALSE]]
    /\ UNCHANGED <<clock, node, recoveries, agent, minted, issued, held>>

(* The cycle of the agent daemon begins with a Sync under the active bearer,   *)
(* which a pending recovery forbids; nothing later runs when it fails.         *)
CycleSync ==
    /\ op = "idle" /\ agent.token = 0
    /\ Authenticates(agent.bearer, clock)
    /\ op' = "synced"
    /\ UNCHANGED <<clock, node, recoveries, requests, agent, reply, minted, issued, held>>

lifecycleDue == agent.expires <= clock + Window

(* RotateCredential: the pending bearer is generated and saved before the      *)
(* request that carries its hash.                                              *)
RotateBegin(s) ==
    LET fresh == agent.pending = 0
        pending == IF fresh THEN minted + 1 ELSE agent.pending
    IN  /\ op = "synced" /\ lifecycleDue
        /\ fresh => minted < MaxBearers
        /\ minted' = IF fresh THEN minted + 1 ELSE minted
        /\ agent' = [agent EXCEPT !.pending = pending]
        /\ Send(s, Rotation(agent.bearer, pending))
        /\ op' = "rotating"
        /\ UNCHANGED <<clock, node, recoveries, reply, issued, held>>

(* A 401 for the active bearer: the pending one may be current already. *)
RotateRetry(s) ==
    /\ op = "rotating" /\ reply.kind = "unauthorized"
    /\ Send(s, Rotation(agent.pending, agent.pending))
    /\ reply' = NoReply
    /\ op' = "retrying"
    /\ UNCHANGED <<clock, node, recoveries, agent, minted, issued, held>>

(* validateCredentialRotation, and the state file with the new bearer. *)
validateCredentialRotation ==
    /\ reply.gen = agent.gen + 1
    /\ reply.expires > clock + Grace

RotateFinish ==
    /\ op \in {"rotating", "retrying"} /\ reply.kind = "ok"
    /\ agent' = IF validateCredentialRotation
                THEN [agent EXCEPT !.bearer = agent.pending, !.pending = 0,
                                   !.gen = reply.gen, !.expires = reply.expires]
                ELSE agent
    /\ op' = "idle"
    /\ reply' = NoReply
    /\ UNCHANGED <<clock, node, recoveries, requests, minted, issued, held>>

(* The operation ends with an error: nothing more is saved. *)
GiveUp ==
    /\ \/ op = "rotating" /\ reply.kind = "error"
       \/ op \in {"retrying", "recovering"} /\ reply.kind \in {"unauthorized", "error"}
    /\ op' = "idle"
    /\ reply' = NoReply
    /\ UNCHANGED <<clock, node, recoveries, requests, agent, minted, issued, held>>

(* RecoverCredential, up to its request.  The operator supplies a token, or    *)
(* none to resume.  A first token discards what rotation left pending; another *)
(* one than the journalled token replaces the journal, but only after the      *)
(* server rejected the pending bearer.                                         *)
replacePendingRecovery(token) ==
    /\ agent.token # 0 /\ token \notin {0, agent.token}
    /\ ~Authenticates(agent.pending, clock)
    /\ agent' = [agent EXCEPT !.token = token, !.pending = minted + 1, !.advance = TRUE]

RecoverFirst(token) ==
    /\ agent.token = 0 /\ token # 0
    /\ OverRotation \/ agent.pending = 0
    /\ agent' = [agent EXCEPT !.token = token, !.pending = minted + 1, !.advance = FALSE]

RecoverBegin(s, token) ==
    /\ op = "idle" /\ minted < MaxBearers
    /\ token \in 1..issued /\ (AnyToken \/ token = issued)
    /\ RecoverFirst(token) \/ replacePendingRecovery(token)
    /\ minted' = minted + 1
    /\ Send(s, Recovery(token, minted + 1))
    /\ op' = "recovering"
    /\ UNCHANGED <<clock, node, recoveries, reply, issued, held>>

(* The same, resuming the journal: the exact request again. *)
RecoverResume(s) ==
    /\ op = "idle" /\ agent.token # 0
    /\ Send(s, Recovery(agent.token, agent.pending))
    /\ op' = "recovering"
    /\ UNCHANGED <<clock, node, recoveries, agent, reply, minted, issued, held>>

(* What verifyRecoveredAgentBundle asks of the receipt: the generation is the  *)
(* next one, or merely a later one for a replaced journal, and the credential  *)
(* is still good.                                                              *)
ReceiptAcceptedNext(gen, expires) ==
    /\ gen = agent.gen + 1
    /\ expires > clock
ReceiptAccepted(gen, expires) ==
    /\ IF agent.advance THEN gen > agent.gen ELSE gen = agent.gen + 1
    /\ expires > clock

RecoverVerify ==
    /\ op = "recovering" /\ reply.kind = "ok"
    /\ IF ReceiptAccepted(reply.gen, reply.expires)
       THEN op' = "confirming" /\ UNCHANGED reply
       ELSE op' = "idle" /\ reply' = NoReply
    /\ UNCHANGED <<clock, node, recoveries, requests, agent, minted, issued, held>>

(* The bootstrap under the pending bearer confirms the receipt, and the state  *)
(* file takes the new bearer; otherwise the journal stays.                     *)
RecoverConfirm ==
    LET confirmed == /\ Authenticates(agent.pending, clock)
                     /\ node.gen = reply.gen /\ node.expires = reply.expires
    IN  /\ op = "confirming"
        /\ agent' = IF confirmed
                    THEN [bearer |-> agent.pending, pending |-> 0, token |-> 0, advance |-> FALSE,
                          gen |-> reply.gen, expires |-> reply.expires]
                    ELSE agent
        /\ op' = "idle"
        /\ reply' = NoReply
        /\ UNCHANGED <<clock, node, recoveries, requests, minted, issued, held>>

(* A rotation the server committed and the agent has not adopted. *)
RotationIncomplete == agent.token = 0 /\ agent.pending # 0 /\ node.current = agent.pending

Committing(s) == requests[s].kind = "rotate" /\ requests[s].phase = "preflighted"

Tick ==
    /\ clock < MaxClock
    /\ LongOutage \/ (RotationIncomplete => clock + 1 < node.grace)
    /\ SlowCommit \/ \A s \in Slots : Committing(s) => clock + 1 < requests[s].at + Grace
    /\ clock' = clock + 1
    /\ UNCHANGED <<node, recoveries, requests, agent, op, reply, minted, issued, held>>

-----------------------------------------------------------------------------
Server(s) ==
    \/ RotatePreflight(s) \/ RotateCommit(s)
    \/ RecoverPreflight(s) \/ RecoverClaim(s) \/ RecoverCommit(s) \/ RecoverRelease(s)

Next ==
    \/ Tick \/ IssueRecovery \/ RotateNodeCertificate \/ RevokeNode
    \/ Abandon \/ CycleSync \/ RotateFinish \/ GiveUp \/ RecoverVerify \/ RecoverConfirm
    \/ \E s \in Slots :
         \/ Server(s) \/ LoseRequest(s)
         \/ RotateBegin(s) \/ RotateRetry(s) \/ RecoverResume(s)
         \/ \E token \in 1..MaxTokens : RecoverBegin(s, token)

Spec == Init /\ [][Next]_vars

-----------------------------------------------------------------------------
(* When the agent's active bearer is the node's current one, the generation    *)
(* and the expiry in its state file are the authoritative ones: a replayed     *)
(* answer of RotateAgentCredential or RecoverAgent says what the first said.   *)
AdoptedMatches ==
    agent.bearer = node.current => agent.gen = node.gen /\ agent.expires = node.expires

(* The secret of a live current credential is in the agent's state file,       *)
(* active or pending: journalling before sending, the probe before a journal   *)
(* is replaced and the invalidation of unused tokens by IssueAgentRecovery     *)
(* together mean that no commit, however late, hands the node to a bearer that *)
(* nobody kept.                                                                *)
SecretKept ==
    node.status = "active" /\ clock < node.expires => node.current \in {agent.bearer, agent.pending}

(* The conditions validateStateGraph puts on a committed recovery against its  *)
(* node hold after every operation, so that it never refuses one: the record   *)
(* is one generation past its claim, not past the node, and at the node's      *)
(* generation it is the node's credential.                                     *)
RecordsMatchNode ==
    \A r \in recoveries : r.used =>
        /\ r.gen = r.claimGen + 1 /\ r.gen <= node.gen
        /\ r.gen = node.gen => r.credential = node.expires /\ r.claimNew = node.current

(* The two ends agree about every bearer: the generation advances once for     *)
(* each that became current, however often a rotation or a recovery is sent    *)
(* again after a lost answer, and AdoptedMatches and RecordsMatchNode hold of  *)
(* well-formed documents.                                                      *)
CredentialsMatch ==
    TypeOK /\ node.gen = Cardinality(held) /\ AdoptedMatches /\ RecordsMatchNode

(* When recovery was interrupted and its pending bearer authenticates, so that *)
(* RecoverCredential refuses to replace the journal and asks for an exact      *)
(* resume, that resume is answered and its receipt accepted, as long as no     *)
(* certificate rotation removed the committed result.                          *)
ResumeFinishes ==
    /\ op = "idle" /\ agent.token # 0 /\ Authenticates(agent.pending, clock)
    /\ \E r \in recoveries : r.used
    => \E r \in recoveries :
            /\ r.token = agent.token /\ r.used /\ Replays(r, Recovery(agent.token, agent.pending))
            /\ ReceiptAccepted(r.gen, r.credential)
=============================================================================
