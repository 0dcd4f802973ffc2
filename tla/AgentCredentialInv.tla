------------------------- MODULE AgentCredentialInv -------------------------
(***************************************************************************)
(* What the node's record and the agent's state file keep true of each     *)
(* other, for any number of requests at work in the server, any lifetimes  *)
(* and any order of answers, losses and clock readings.                    *)
(*                                                                         *)
(* A bearer becomes current at most once: the request that would make it   *)
(* current again names as its authority a bearer that has itself been      *)
(* replaced, or a token whose record is used.                              *)
(***************************************************************************)
EXTENDS AgentCredential, TLAPS

\* A token that the server would still honour.
Unused(token) == \E r \in recoveries : ~r.used /\ r.token = token

\* The bearers on both sides.
BearerInv ==
    /\ held \subseteq 1..minted
    /\ agent.bearer \in held /\ agent.bearer # agent.pending
    /\ agent.pending <= minted
    /\ node.previous <= minted
    /\ node.status = "active" => node.current \in held
    /\ node.status = "revoked" => node.current = 0
    /\ agent.bearer = node.current /\ agent.pending # 0 => agent.pending \notin held
    /\ agent.token <= issued
    /\ agent.token # 0 => agent.pending # 0
    /\ agent.token # 0 /\ Unused(agent.token) => agent.pending \notin held

\* A request that the server is working on.
RotateInv(q) ==
    /\ q.new \in 1..minted /\ q.auth \in 1..minted
    /\ q.auth # q.new => q.auth \in held
    /\ q.auth # q.new /\ q.auth = node.current => q.new \notin held
    /\ agent.token # 0 => q.new # agent.pending
    /\ q.waited => op \in {"rotating", "retrying"}

RecoverInv(q) ==
    /\ q.new \in 1..minted /\ q.token \in 1..issued
    /\ Unused(q.token) => q.new \notin held
    /\ agent.token = 0 => q.new # agent.pending
    /\ q.waited => op = "recovering"

WaitInv(q) == q.waited => q.kind # "none" /\ reply.kind = "none" /\ q.new = agent.pending

RequestInv ==
    /\ \A s \in Slots :
         /\ requests[s].kind = "rotate" => RotateInv(requests[s])
         /\ requests[s].kind = "recover" => RecoverInv(requests[s])
         /\ WaitInv(requests[s])
    /\ \A s, t \in Slots :
         /\ requests[s].kind = "rotate" /\ requests[t].kind = "recover" =>
              requests[s].new # requests[t].new
         /\ requests[s].waited /\ requests[t].waited => s = t

\* Where the agent is, and what the answer in its hands says.
OpInv ==
    /\ op \in {"idle", "synced"} => reply.kind = "none"
    /\ op \in {"synced", "rotating", "retrying"} => agent.token = 0
    /\ op \in {"rotating", "retrying"} => agent.pending # 0
    /\ op \in {"recovering", "confirming"} => agent.token # 0
    /\ op = "confirming" => reply.kind = "ok"

ReplyInv ==
    reply.kind = "ok" =>
        /\ agent.pending \in held
        /\ node.current = agent.pending => reply.gen = node.gen /\ reply.expires = node.expires

\* A committed recovery agrees with its node.
Agrees(r) ==
    r.used =>
        /\ r.gen = r.claimGen + 1 /\ r.gen <= node.gen
        /\ r.gen = node.gen => r.credential = node.expires /\ r.claimNew = node.current

Records == \A r \in recoveries : Agrees(r) /\ r.token \in 1..issued

Core == AdoptedMatches /\ BearerInv /\ RequestInv /\ OpInv /\ ReplyInv

AInv == TypeOK /\ Records /\ Core

-----------------------------------------------------------------------------
(* Types. *)

LEMMA Constants ==
    /\ MaxBearers \in Nat /\ MaxTokens \in Nat /\ MaxClock \in Nat /\ InitialExpiry \in Nat
    /\ Life \in Nat /\ Grace \in Nat /\ Ttl \in Nat
    /\ MaxBearers >= 1 /\ Grace <= Life /\ Ttl <= Life
BY CredentialAssumption

LEMMA TimeFacts ==
    /\ 0 \in Times /\ InitialExpiry \in Times
    /\ \A t \in 0..MaxClock : t \in Times /\ t + Life \in Times /\ t + Grace \in Times /\ t + Ttl \in Times
    /\ \A t \in Times : t \in Nat
BY Constants DEF Times

LEMMA IdleFacts ==
    /\ Idle \in RequestRecords /\ Idle.kind = "none" /\ Idle.waited = FALSE
    /\ NoReply \in Replies /\ NoReply.kind = "none"
    /\ Unauthorized \in Replies /\ Unauthorized.kind = "unauthorized"
    /\ Failed \in Replies /\ Failed.kind = "error"
    /\ \A g \in Nat, e \in Times :
         /\ Credential(g, e) \in Replies /\ Credential(g, e).kind = "ok"
         /\ Credential(g, e).gen = g /\ Credential(g, e).expires = e
BY Constants, TimeFacts
   DEF Idle, NoReply, Unauthorized, Failed, Credential, RequestRecords, Replies, Bearers, Tokens

LEMMA Fields ==
    ASSUME TypeOK
    PROVE  /\ clock \in Nat /\ minted \in Nat /\ issued \in Nat
           /\ node.status \in {"active", "revoked"} /\ node.current \in Nat /\ node.previous \in Nat
           /\ node.expires \in Nat /\ node.grace \in Nat /\ node.gen \in Nat
           /\ agent.bearer \in Nat /\ agent.pending \in Nat /\ agent.token \in Nat
           /\ agent.advance \in BOOLEAN /\ agent.gen \in Nat /\ agent.expires \in Nat
           /\ reply.kind \in {"none", "ok", "unauthorized", "error"}
           /\ reply.gen \in Nat /\ reply.expires \in Nat
           /\ \A s \in Slots :
                /\ requests[s].kind \in {"none", "rotate", "recover"} /\ requests[s].waited \in BOOLEAN
                /\ requests[s].auth \in Nat /\ requests[s].new \in Nat /\ requests[s].token \in Nat
           /\ \A r \in recoveries :
                r.token \in Nat /\ r.used \in BOOLEAN /\ r.gen \in Nat /\ r.claimGen \in Nat
<1>0. (\A b \in Bearers : b \in Nat) /\ (\A t \in Tokens : t \in Nat)
  BY Constants DEF Bearers, Tokens
<1>1. clock \in Nat /\ minted \in Nat /\ issued \in Nat
  BY Constants DEF TypeOK, Tokens
<1>2. /\ node.status \in {"active", "revoked"} /\ node.current \in Nat /\ node.previous \in Nat
      /\ node.expires \in Nat /\ node.grace \in Nat /\ node.gen \in Nat
  <2>1. /\ node.status \in {"active", "revoked"} /\ node.current \in Bearers
        /\ node.previous \in Bearers /\ node.expires \in Times /\ node.grace \in Times
        /\ node.gen \in Nat
    BY Zenon DEF TypeOK, NodeRecords
  <2> QED
    BY <2>1, <1>0, TimeFacts, Zenon
<1>3. /\ agent.bearer \in Nat /\ agent.pending \in Nat /\ agent.token \in Nat
      /\ agent.advance \in BOOLEAN /\ agent.gen \in Nat /\ agent.expires \in Nat
  <2>1. /\ agent.bearer \in Bearers /\ agent.pending \in Bearers /\ agent.token \in Tokens
        /\ agent.advance \in BOOLEAN /\ agent.gen \in Nat /\ agent.expires \in Times
    BY Zenon DEF TypeOK, AgentRecords
  <2> QED
    BY <2>1, <1>0, TimeFacts, Zenon
<1>4. /\ reply.kind \in {"none", "ok", "unauthorized", "error"}
      /\ reply.gen \in Nat /\ reply.expires \in Nat
  BY TimeFacts, Zenon DEF TypeOK, Replies
<1>5. \A s \in Slots :
        /\ requests[s].kind \in {"none", "rotate", "recover"} /\ requests[s].waited \in BOOLEAN
        /\ requests[s].auth \in Nat /\ requests[s].new \in Nat /\ requests[s].token \in Nat
  BY Constants DEF TypeOK, RequestRecords, Bearers, Tokens
<1>6. \A r \in recoveries :
        r.token \in Nat /\ r.used \in BOOLEAN /\ r.gen \in Nat /\ r.claimGen \in Nat
  BY Constants DEF TypeOK, RecoveryRecords, Tokens
<1> QED
  BY <1>1, <1>2, <1>3, <1>4, <1>5, <1>6, Zenon

\* The server answers one slot.
LEMMA AnswerFacts ==
    ASSUME TypeOK, NEW s \in Slots, NEW a \in Replies, Answer(s, a)
    PROVE  /\ requests' \in [Slots -> RequestRecords] /\ requests'[s] = Idle
           /\ \A t \in Slots \ {s} : requests'[t] = requests[t]
           /\ reply' \in Replies
           /\ requests[s].waited => reply' = a
           /\ ~requests[s].waited => reply' = reply
BY IdleFacts, Zenon DEF TypeOK, Answer

\* A request goes on to its next phase.
LEMMA PhaseFacts ==
    ASSUME TypeOK, NEW s \in Slots,
           NEW phase \in {"none", "sent", "preflighted", "claimed", "refused", "conflicted"},
           NEW at \in 0..MaxClock,
           \/ requests' = [requests EXCEPT ![s].phase = phase]
           \/ requests' = [requests EXCEPT ![s].phase = phase, ![s].at = at]
    PROVE  /\ requests' \in [Slots -> RequestRecords]
           /\ requests'[s].kind = requests[s].kind /\ requests'[s].auth = requests[s].auth
           /\ requests'[s].new = requests[s].new /\ requests'[s].token = requests[s].token
           /\ requests'[s].waited = requests[s].waited
           /\ \A t \in Slots \ {s} : requests'[t] = requests[t]
<1>1. CASE requests' = [requests EXCEPT ![s].phase = phase]
  BY <1>1 DEF TypeOK, RequestRecords
<1>2. CASE requests' = [requests EXCEPT ![s].phase = phase, ![s].at = at]
  <2>1. requests[s] \in RequestRecords /\ requests'[s] = [requests[s] EXCEPT !.phase = phase, !.at = at]
        /\ \A t \in Slots \ {s} : requests'[t] = requests[t]
    BY <1>2, Zenon DEF TypeOK
  <2>2. requests'[s] = [kind |-> requests[s].kind, waited |-> requests[s].waited,
                        auth |-> requests[s].auth, new |-> requests[s].new,
                        token |-> requests[s].token, at |-> at, phase |-> phase]
    BY <2>1, Zenon DEF RequestRecords
  <2>3. requests'[s] \in RequestRecords
    BY <2>1, <2>2, Zenon DEF RequestRecords
  <2>4. requests' = [requests EXCEPT ![s] = requests'[s]]
    BY <1>2, Zenon DEF TypeOK
  <2> QED
    BY <2>1, <2>2, <2>3, <2>4, Zenon DEF TypeOK
<1> QED
  BY <1>1, <1>2, Zenon

LEMMA SendFacts ==
    ASSUME TypeOK, NEW s \in Slots, NEW q \in RequestRecords, Send(s, q)
    PROVE  /\ requests' \in [Slots -> RequestRecords] /\ requests'[s] = q
           /\ requests[s].kind = "none" /\ ~requests[s].waited
           /\ \A t \in Slots \ {s} : requests'[t] = requests[t]
BY IdleFacts, Zenon DEF TypeOK, Send

LEMMA RotationFacts ==
    ASSUME NEW auth \in Bearers, NEW new \in Bearers
    PROVE  /\ Rotation(auth, new) \in RequestRecords
           /\ Rotation(auth, new).kind = "rotate" /\ Rotation(auth, new).waited
           /\ Rotation(auth, new).auth = auth /\ Rotation(auth, new).new = new
<1>1. 0 \in Tokens /\ 0 \in 0..MaxClock
  BY Constants DEF Tokens
<1> QED
  BY <1>1, Zenon DEF RequestRecords, Rotation

LEMMA RecoveryFacts ==
    ASSUME NEW token \in Tokens, NEW new \in Bearers
    PROVE  /\ Recovery(token, new) \in RequestRecords
           /\ Recovery(token, new).kind = "recover" /\ Recovery(token, new).waited
           /\ Recovery(token, new).token = token /\ Recovery(token, new).new = new
<1>1. 0 \in Bearers /\ 0 \in 0..MaxClock
  BY Constants DEF Bearers
<1> QED
  BY <1>1, Zenon DEF RequestRecords, Recovery
\* The records of the control document and of the agent, as the operations leave them.
LEMMA NodeUpdates ==
    ASSUME TypeOK
    PROVE  /\ \A s \in Slots :
                /\ Rotated(requests[s]) \in NodeRecords
                /\ Rotated(requests[s]).status = node.status
                /\ Rotated(requests[s]).previous = node.current
                /\ Rotated(requests[s]).current = requests[s].new
                /\ Rotated(requests[s]).expires = requests[s].at + Life
                /\ Rotated(requests[s]).gen = node.gen + 1
           /\ [node EXCEPT !.status = "revoked", !.current = 0, !.expires = 0, !.previous = 0,
                           !.grace = 0] \in NodeRecords
           /\ \A b \in Bearers, e \in Times :
                [node EXCEPT !.current = b, !.previous = 0, !.grace = 0,
                             !.expires = e, !.gen = node.gen + 1] \in NodeRecords
<1>0. node.gen + 1 \in Nat /\ 0 \in Bearers /\ 0 \in Times /\ node \in NodeRecords
  BY Constants, TimeFacts, Fields DEF Bearers, TypeOK
<1>1. ASSUME NEW s \in Slots
      PROVE  /\ Rotated(requests[s]) \in NodeRecords
             /\ Rotated(requests[s]).status = node.status
             /\ Rotated(requests[s]).previous = node.current
             /\ Rotated(requests[s]).current = requests[s].new
             /\ Rotated(requests[s]).expires = requests[s].at + Life
             /\ Rotated(requests[s]).gen = node.gen + 1
  <2>1. requests[s].new \in Bearers /\ requests[s].at \in 0..MaxClock
    BY Zenon DEF TypeOK, RequestRecords
  <2>2. requests[s].at + Grace \in Times /\ requests[s].at + Life \in Times
    BY <2>1, TimeFacts, Zenon
  <2> QED
    BY <2>1, <2>2, <1>0, Zenon DEF Rotated, NodeRecords
<1>2. [node EXCEPT !.status = "revoked", !.current = 0, !.expires = 0, !.previous = 0,
                   !.grace = 0] \in NodeRecords
  BY <1>0, Zenon DEF NodeRecords
<1>3. ASSUME NEW b \in Bearers, NEW e \in Times
      PROVE  [node EXCEPT !.current = b, !.previous = 0, !.grace = 0,
                          !.expires = e, !.gen = node.gen + 1] \in NodeRecords
  BY <1>0, Zenon DEF NodeRecords
<1> QED
  BY <1>1, <1>2, <1>3, Zenon

LEMMA RecordUpdates ==
    ASSUME TypeOK, NEW r \in recoveries
    PROVE  /\ Unclaimed(r) \in RecoveryRecords /\ Unclaimed(r).used = r.used
           /\ Unclaimed(r).token = r.token
           /\ Committed(r) \in RecoveryRecords /\ Committed(r).used
           /\ Committed(r).token = r.token /\ Committed(r).gen = node.gen + 1
           /\ Committed(r).credential = clock + Life /\ Committed(r).claimNew = r.claimNew
           /\ Committed(r).claimGen = r.claimGen
           /\ \A s \in Slots :
                LET c == [r EXCEPT !.claim = s, !.claimedAt = clock, !.claimNew = requests[s].new,
                                   !.claimGen = node.gen]
                IN  c \in RecoveryRecords /\ c.used = r.used /\ c.token = r.token
<1>0. /\ node.gen \in Nat /\ node.gen + 1 \in Nat /\ 0 \in Bearers /\ 0 \in Times /\ clock \in Times
      /\ clock + Life \in Times /\ r \in RecoveryRecords
      /\ \A s \in Slots : requests[s].new \in Bearers
  BY Constants, TimeFacts, Fields DEF Bearers, TypeOK, RequestRecords
<1>1. /\ Unclaimed(r) \in RecoveryRecords /\ Unclaimed(r).used = r.used
      /\ Unclaimed(r).token = r.token
  BY <1>0, Zenon DEF Unclaimed, RecoveryRecords
<1>2. /\ Committed(r) \in RecoveryRecords /\ Committed(r).used
      /\ Committed(r).token = r.token /\ Committed(r).gen = node.gen + 1
      /\ Committed(r).credential = clock + Life /\ Committed(r).claimNew = r.claimNew
      /\ Committed(r).claimGen = r.claimGen
  BY <1>0, Zenon DEF Committed, RecoveryRecords
<1>3. ASSUME NEW s \in Slots
      PROVE  LET c == [r EXCEPT !.claim = s, !.claimedAt = clock, !.claimNew = requests[s].new,
                                !.claimGen = node.gen]
             IN  c \in RecoveryRecords /\ c.used = r.used /\ c.token = r.token
  BY <1>0, Zenon DEF RecoveryRecords
<1> QED
  BY <1>1, <1>2, <1>3, Zenon
LEMMA ServerTypes ==
    ASSUME TypeOK, NEW s \in Slots, Server(s) \/ LoseRequest(s) PROVE TypeOK'
<1> DEFINE R == requests' \in [Slots -> RequestRecords] /\ reply' \in Replies
<1>t. /\ clock \in 0..MaxClock /\ node \in NodeRecords /\ recoveries \subseteq RecoveryRecords
      /\ agent \in AgentRecords /\ op \in Ops /\ reply \in Replies
      /\ minted \in 1..MaxBearers /\ issued \in Tokens /\ held \subseteq Bearers
  BY Zenon DEF TypeOK
<1>a. ASSUME NEW a \in Replies, Answer(s, a) PROVE R
  BY <1>a, AnswerFacts, Zenon
<1>p. ASSUME NEW phase \in {"none", "sent", "preflighted", "claimed", "refused", "conflicted"},
             \/ requests' = [requests EXCEPT ![s].phase = phase]
             \/ requests' = [requests EXCEPT ![s].phase = phase, ![s].at = clock],
             reply' = reply
      PROVE  R
  BY <1>p, <1>t, PhaseFacts, Zenon
<1>n. /\ node.gen \in Nat /\ node.gen + 1 \in Nat /\ node.expires \in Times
      /\ requests[s].new \in Bearers /\ requests[s].at + Life \in Times /\ clock + Life \in Times
  BY <1>t, Fields, TimeFacts DEF TypeOK, NodeRecords, RequestRecords
<1>i. Unauthorized \in Replies /\ Failed \in Replies /\ NoReply \in Replies
  BY IdleFacts, Zenon
<1> HIDE DEF R
<1>1. CASE RotatePreflight(s)
  <2>1. R
    BY <1>1, <1>a, <1>p, <1>i, Zenon DEF RotatePreflight
  <2> QED
    BY <1>1, <2>1, <1>t, Zenon DEF RotatePreflight, TypeOK, R
<1>2. CASE RotateCommit(s)
  <2>1. RotateAnswer(requests[s]) \in Replies
    BY <1>n, <1>i, IdleFacts, Zenon DEF RotateAnswer
  <2>2. RotateVerdict(requests[s]) \in {"unauthorized", "conflict", "replay", "rotate"}
    BY Zenon DEF RotateVerdict
  <2>3. CASE /\ node' = Rotated(requests[s]) /\ held' = held \cup {requests[s].new}
             /\ Answer(s, Credential(node.gen + 1, requests[s].at + Life))
    <3>1. R
      BY <2>3, <1>a, <1>n, IdleFacts, Zenon
    <3>2. node' \in NodeRecords /\ held' \subseteq Bearers
      BY <2>3, <1>t, <1>n, NodeUpdates, Zenon
    <3> QED
      BY <1>2, <3>1, <3>2, <1>t, Zenon DEF RotateCommit, TypeOK, R
  <2>4. CASE /\ RotateVerdict(requests[s]) # "rotate" /\ UNCHANGED <<node, held>>
             /\ Answer(s, CASE RotateVerdict(requests[s]) = "unauthorized" -> Unauthorized
                            [] RotateVerdict(requests[s]) = "conflict" -> Failed
                            [] RotateVerdict(requests[s]) = "replay" -> RotateAnswer(requests[s]))
    <3>1. R
      BY <2>4, <2>1, <2>2, <1>a, <1>i, Zenon
    <3> QED
      BY <1>2, <2>4, <3>1, <1>t, Zenon DEF RotateCommit, TypeOK, R
  <2> QED
    BY <1>2, <2>3, <2>4, Zenon DEF RotateCommit
<1>3. CASE RecoverPreflight(s)
  <2>1. R
    BY <1>3, <1>a, <1>p, <1>i, Zenon DEF RecoverPreflight
  <2> QED
    BY <1>3, <2>1, <1>t, Zenon DEF RecoverPreflight, TypeOK, R
<1>4. CASE RecoverClaim(s)
  <2>1. ASSUME NEW r \in recoveries, RecoverClaimOf(s, r)
        PROVE  R /\ recoveries' \subseteq RecoveryRecords
    <3>1. Credential(r.gen, r.credential) \in Replies
      BY <1>t, IdleFacts, Zenon DEF RecoveryRecords
    <3>2. CASE recoveries' = recoveries /\ \E a \in Replies : Answer(s, a)
      BY <3>2, <1>a, <1>t, Zenon
    <3>3. CASE /\ recoveries' = (recoveries \ {r}) \cup
                    {[r EXCEPT !.claim = s, !.claimedAt = clock, !.claimNew = requests[s].new,
                               !.claimGen = node.gen]}
               /\ requests' = [requests EXCEPT ![s].phase = "claimed"] /\ reply' = reply
      BY <3>3, <1>p, <1>t, RecordUpdates, Zenon
    <3> QED
      BY <2>1, <3>1, <3>2, <3>3, <1>i, Zenon DEF RecoverClaimOf
  <2>2. R /\ recoveries' \subseteq RecoveryRecords
    BY <1>4, <2>1, <1>a, <1>i, <1>t, Zenon DEF RecoverClaim, Selected
  <2> QED
    BY <1>4, <2>2, <1>t, Zenon DEF RecoverClaim, TypeOK, R
<1>5. CASE RecoverCommit(s)
  <2>1. CASE /\ requests' = [requests EXCEPT ![s].phase =
                   IF \E r \in recoveries : ClaimStands(s, r) THEN "conflicted" ELSE "refused"]
             /\ UNCHANGED <<node, recoveries, reply, held>>
    <3>1. R
      BY <2>1, <1>p, Zenon
    <3> QED
      BY <1>5, <2>1, <3>1, <1>t, Zenon DEF RecoverCommit, TypeOK, R
  <2>2. ASSUME NEW r \in recoveries,
               node' = [node EXCEPT !.current = requests[s].new, !.previous = 0, !.grace = 0,
                                    !.expires = clock + Life, !.gen = node.gen + 1],
               recoveries' = {Committed(r)}, held' = held \cup {requests[s].new},
               Answer(s, Credential(node.gen + 1, clock + Life))
        PROVE  TypeOK'
    <3>1. R
      BY <2>2, <1>a, <1>n, IdleFacts, Zenon
    <3>2. node' \in NodeRecords /\ held' \subseteq Bearers /\ recoveries' \subseteq RecoveryRecords
      BY <2>2, <1>t, <1>n, NodeUpdates, RecordUpdates, Zenon
    <3> QED
      BY <1>5, <3>1, <3>2, <1>t, Zenon DEF RecoverCommit, TypeOK, R
  <2> QED
    BY <1>5, <2>1, <2>2, Zenon DEF RecoverCommit
<1>6. CASE RecoverRelease(s)
  <2>1. R
    BY <1>6, <1>a, <1>i, Zenon DEF RecoverRelease
  <2>2. recoveries' \subseteq RecoveryRecords
    BY <1>6, <1>t, RecordUpdates, Zenon DEF RecoverRelease
  <2> QED
    BY <1>6, <2>1, <2>2, <1>t, Zenon DEF RecoverRelease, TypeOK, R
<1>7. CASE LoseRequest(s)
  <2>1. R
    BY <1>7, <1>a, <1>i, Zenon DEF LoseRequest
  <2> QED
    BY <1>7, <2>1, <1>t, Zenon DEF LoseRequest, TypeOK, R
<1> QED
  BY <1>1, <1>2, <1>3, <1>4, <1>5, <1>6, <1>7, Zenon DEF Server

\* What the agent's operations make of its state.
LEMMA AgentUpdates ==
    ASSUME TypeOK
    PROVE  /\ \A b \in Bearers :
                LET a == [agent EXCEPT !.pending = b]
                IN  /\ a \in AgentRecords /\ a.bearer = agent.bearer /\ a.pending = b
                    /\ a.token = agent.token /\ a.advance = agent.advance
                    /\ a.gen = agent.gen /\ a.expires = agent.expires
           /\ \A b \in Bearers, t \in Tokens, v \in BOOLEAN :
                LET a == [agent EXCEPT !.token = t, !.pending = b, !.advance = v]
                IN  /\ a \in AgentRecords /\ a.bearer = agent.bearer /\ a.pending = b
                    /\ a.token = t /\ a.advance = v
                    /\ a.gen = agent.gen /\ a.expires = agent.expires
           /\ LET a == [agent EXCEPT !.bearer = agent.pending, !.pending = 0,
                                     !.gen = reply.gen, !.expires = reply.expires]
              IN  /\ a \in AgentRecords /\ a.bearer = agent.pending /\ a.pending = 0
                  /\ a.token = agent.token /\ a.advance = agent.advance
                  /\ a.gen = reply.gen /\ a.expires = reply.expires
           /\ LET a == [bearer |-> agent.pending, pending |-> 0, token |-> 0, advance |-> FALSE,
                        gen |-> reply.gen, expires |-> reply.expires]
              IN  a \in AgentRecords
<1>1. agent \in AgentRecords /\ reply \in Replies /\ 0 \in Bearers /\ 0 \in Tokens
  BY Constants DEF TypeOK, Bearers, Tokens
<1>2. \A b \in Bearers :
        LET a == [agent EXCEPT !.pending = b]
        IN  /\ a \in AgentRecords /\ a.bearer = agent.bearer /\ a.pending = b
            /\ a.token = agent.token /\ a.advance = agent.advance
            /\ a.gen = agent.gen /\ a.expires = agent.expires
  BY <1>1, Zenon DEF AgentRecords
<1>3. \A b \in Bearers, t \in Tokens, v \in BOOLEAN :
        LET a == [agent EXCEPT !.token = t, !.pending = b, !.advance = v]
        IN  /\ a \in AgentRecords /\ a.bearer = agent.bearer /\ a.pending = b
            /\ a.token = t /\ a.advance = v
            /\ a.gen = agent.gen /\ a.expires = agent.expires
  BY <1>1, ZenonT(40) DEF AgentRecords
<1>4. LET a == [agent EXCEPT !.bearer = agent.pending, !.pending = 0,
                             !.gen = reply.gen, !.expires = reply.expires]
      IN  /\ a \in AgentRecords /\ a.bearer = agent.pending /\ a.pending = 0
          /\ a.token = agent.token /\ a.advance = agent.advance
          /\ a.gen = reply.gen /\ a.expires = reply.expires
  BY <1>1, Zenon DEF AgentRecords, Replies
<1>5. LET a == [bearer |-> agent.pending, pending |-> 0, token |-> 0, advance |-> FALSE,
                gen |-> reply.gen, expires |-> reply.expires]
      IN  a \in AgentRecords
  BY <1>1, Zenon DEF AgentRecords, Replies
<1> QED
  BY <1>2, <1>3, <1>4, <1>5, Zenon
LEMMA AbandonFacts ==
    ASSUME TypeOK, Abandon
    PROVE  /\ requests' \in [Slots -> RequestRecords]
           /\ \A s \in Slots :
                /\ requests'[s].kind = requests[s].kind /\ requests'[s].auth = requests[s].auth
                /\ requests'[s].new = requests[s].new /\ requests'[s].token = requests[s].token
                /\ ~requests'[s].waited
<1>1. requests' = [s \in Slots |-> [requests[s] EXCEPT !.waited = FALSE]]
  BY Zenon DEF Abandon
<1> QED
  BY <1>1, ZenonT(40) DEF TypeOK, RequestRecords

LEMMA TypeStep ==
    ASSUME TypeOK, Next PROVE TypeOK'
<1>t. /\ clock \in 0..MaxClock /\ node \in NodeRecords /\ recoveries \subseteq RecoveryRecords
      /\ requests \in [Slots -> RequestRecords]
      /\ agent \in AgentRecords /\ op \in Ops /\ reply \in Replies
      /\ minted \in 1..MaxBearers /\ issued \in Tokens /\ held \subseteq Bearers
  BY Zenon DEF TypeOK
<1>i. NoReply \in Replies
  BY IdleFacts, Zenon
<1>b. /\ agent.bearer \in Bearers /\ agent.pending \in Bearers /\ agent.token \in Tokens
      /\ minted < MaxBearers => minted + 1 \in Bearers /\ minted + 1 \in 1..MaxBearers
  BY <1>t, Constants DEF AgentRecords, Bearers
<1>1. CASE Tick
  BY <1>1, <1>t, Constants DEF Tick, TypeOK
<1>2. CASE IssueRecovery
  <2>1. /\ issued + 1 \in Tokens /\ clock + Ttl \in Times /\ 0 \in Times /\ 0 \in Bearers
        /\ 0 \in Nat
    BY <1>2, <1>t, Constants, TimeFacts DEF IssueRecovery, Tokens, Bearers
  <2>2. [token |-> issued + 1, expires |-> clock + Ttl, claim |-> 0, claimedAt |-> 0,
         claimNew |-> 0, claimGen |-> 0, used |-> FALSE, gen |-> 0, credential |-> 0]
           \in RecoveryRecords
    BY <2>1, Zenon DEF RecoveryRecords
  <2> QED
    BY <1>2, <2>1, <2>2, <1>t, Zenon DEF IssueRecovery, Retained, TypeOK
<1>3. CASE RotateNodeCertificate
  BY <1>3, <1>t, Zenon DEF RotateNodeCertificate, TypeOK
<1>4. CASE RevokeNode
  <2>1. node' \in NodeRecords
    BY <1>4, NodeUpdates, Zenon DEF RevokeNode
  <2> QED
    BY <1>4, <2>1, <1>t, Zenon DEF RevokeNode, TypeOK
<1>5. CASE Abandon
  <2>1. requests' \in [Slots -> RequestRecords]
    BY <1>5, AbandonFacts, Zenon
  <2> QED
    BY <1>5, <2>1, <1>t, <1>i, Zenon DEF Abandon, TypeOK, Ops
<1>6. CASE CycleSync
  BY <1>6, <1>t, Zenon DEF CycleSync, TypeOK, Ops
<1>7. CASE RotateFinish
  <2>1. agent' \in AgentRecords
    BY <1>7, <1>t, AgentUpdates, Zenon DEF RotateFinish
  <2> QED
    BY <1>7, <2>1, <1>t, <1>i, Zenon DEF RotateFinish, TypeOK, Ops
<1>8. CASE GiveUp
  BY <1>8, <1>t, <1>i, Zenon DEF GiveUp, TypeOK, Ops
<1>9. CASE RecoverVerify
  BY <1>9, <1>t, <1>i, Zenon DEF RecoverVerify, TypeOK, Ops
<1>10. CASE RecoverConfirm
  <2>1. agent' \in AgentRecords
    BY <1>10, <1>t, AgentUpdates, Zenon DEF RecoverConfirm
  <2> QED
    BY <1>10, <2>1, <1>t, <1>i, Zenon DEF RecoverConfirm, TypeOK, Ops
<1>11. ASSUME NEW s \in Slots, RotateBegin(s) PROVE TypeOK'
  <2> DEFINE pending == IF agent.pending = 0 THEN minted + 1 ELSE agent.pending
  <2>1. pending \in Bearers /\ minted' \in 1..MaxBearers
    BY <1>11, <1>t, <1>b, Zenon DEF RotateBegin
  <2>2. agent' \in AgentRecords
    BY <1>11, <2>1, AgentUpdates, Zenon DEF RotateBegin
  <2>3. requests' \in [Slots -> RequestRecords]
    BY <1>11, <2>1, <1>b, RotationFacts, SendFacts, Zenon DEF RotateBegin
  <2> QED
    BY <1>11, <2>1, <2>2, <2>3, <1>t, Zenon DEF RotateBegin, TypeOK, Ops
<1>12. ASSUME NEW s \in Slots, RotateRetry(s) PROVE TypeOK'
  <2>1. requests' \in [Slots -> RequestRecords]
    BY <1>12, <1>b, RotationFacts, SendFacts, Zenon DEF RotateRetry
  <2> QED
    BY <1>12, <2>1, <1>t, <1>i, Zenon DEF RotateRetry, TypeOK, Ops
<1>13. ASSUME NEW s \in Slots, RecoverResume(s) PROVE TypeOK'
  <2>1. requests' \in [Slots -> RequestRecords]
    BY <1>13, <1>b, RecoveryFacts, SendFacts, Zenon DEF RecoverResume
  <2> QED
    BY <1>13, <2>1, <1>t, Zenon DEF RecoverResume, TypeOK, Ops
<1>14. ASSUME NEW s \in Slots, NEW token \in 1..MaxTokens, RecoverBegin(s, token) PROVE TypeOK'
  <2>1. token \in Tokens /\ minted + 1 \in Bearers /\ minted' \in 1..MaxBearers
    BY <1>14, <1>b, Constants DEF RecoverBegin, Tokens
  <2>2. agent' \in AgentRecords
    <3>1. CASE RecoverFirst(token)
      BY <3>1, <2>1, AgentUpdates, Zenon DEF RecoverFirst
    <3>2. CASE replacePendingRecovery(token)
      BY <3>2, <2>1, AgentUpdates, Zenon DEF replacePendingRecovery
    <3> QED
      BY <1>14, <3>1, <3>2, Zenon DEF RecoverBegin
  <2>3. requests' \in [Slots -> RequestRecords]
    BY <1>14, <2>1, RecoveryFacts, SendFacts, Zenon DEF RecoverBegin
  <2> QED
    BY <1>14, <2>1, <2>2, <2>3, <1>t, Zenon DEF RecoverBegin, TypeOK, Ops
<1> QED
  BY <1>1, <1>2, <1>3, <1>4, <1>5, <1>6, <1>7, <1>8, <1>9, <1>10, <1>11, <1>12, <1>13, <1>14,
     ServerTypes, Zenon DEF Next

-----------------------------------------------------------------------------
(* The records of the control document. *)

LEMMA RecordsStep ==
    ASSUME TypeOK, Records, Next PROVE Records'
<1>f. ASSUME UNCHANGED <<node, issued, recoveries>> PROVE Records'
  BY <1>f, Zenon DEF Records, Agrees
<1>i. issued \in Nat /\ node.gen \in Nat
  BY Fields, Zenon
<1>1. CASE IssueRecovery
  <2>1. ASSUME NEW r \in recoveries' PROVE Agrees(r)' /\ r.token \in 1..issued'
    <3>1. CASE r \in recoveries
      BY <3>1, <1>1, <1>i DEF Records, Agrees, IssueRecovery
    <3>2. CASE r \notin recoveries
      BY <3>2, <2>1, <1>1, <1>i DEF Agrees, IssueRecovery, Retained
    <3> QED
      BY <3>1, <3>2, Zenon
  <2> QED
    BY <2>1, Zenon DEF Records
<1>2. CASE RotateNodeCertificate \/ RevokeNode
  BY <1>2, Zenon DEF Records, RotateNodeCertificate, RevokeNode
<1>3. ASSUME NEW s \in Slots, RotateCommit(s) PROVE Records'
  <2>1. CASE node' = Rotated(requests[s])
    <3>1. node'.gen = node.gen + 1 /\ UNCHANGED <<recoveries, issued>>
      BY <1>3, <2>1, NodeUpdates, Zenon DEF RotateCommit
    <3>2. ASSUME NEW r \in recoveries PROVE Agrees(r)' /\ r.token \in 1..issued'
      <4>1. Agrees(r) /\ r.gen \in Nat /\ r.token \in 1..issued
        BY <3>2, Fields, Zenon DEF Records
      <4> QED
        BY <4>1, <3>1, <1>i DEF Agrees
    <3> QED
      BY <3>1, <3>2, Zenon DEF Records
  <2>2. CASE UNCHANGED node
    BY <1>3, <2>2, <1>f, Zenon DEF RotateCommit
  <2> QED
    BY <1>3, <2>1, <2>2, Zenon DEF RotateCommit
<1>4. ASSUME NEW s \in Slots, RecoverClaim(s) PROVE Records'
  <2>1. UNCHANGED <<node, issued>>
    BY <1>4, Zenon DEF RecoverClaim
  <2>2. ASSUME NEW r \in recoveries, RecoverClaimOf(s, r) PROVE Records'
    <3>1. CASE UNCHANGED recoveries
      BY <3>1, <2>1, <1>f, Zenon
    <3>2. CASE /\ ~r.used
               /\ recoveries' = (recoveries \ {r}) \cup
                    {[r EXCEPT !.claim = s, !.claimedAt = clock, !.claimNew = requests[s].new,
                               !.claimGen = node.gen]}
      <4> DEFINE c == [r EXCEPT !.claim = s, !.claimedAt = clock, !.claimNew = requests[s].new,
                                !.claimGen = node.gen]
      <4>1. c.used = r.used /\ c.token = r.token
        BY RecordUpdates, Zenon
      <4>2. recoveries' = (recoveries \ {r}) \cup {c}
        BY <3>2, Zenon
      <4> HIDE DEF c
      <4> QED
        BY <4>1, <4>2, <3>2, <2>1, Zenon DEF Records, Agrees
    <3> QED
      BY <2>2, <3>1, <3>2, Zenon DEF RecoverClaimOf
  <2> QED
    BY <1>4, <2>1, <2>2, <1>f, Zenon DEF RecoverClaim, Selected
<1>5. ASSUME NEW s \in Slots, RecoverCommit(s) PROVE Records'
  <2>1. CASE UNCHANGED <<node, recoveries>>
    BY <1>5, <2>1, <1>f, Zenon DEF RecoverCommit
  <2>2. ASSUME NEW r \in recoveries, ClaimStands(s, r),
               node' = [node EXCEPT !.current = requests[s].new, !.previous = 0, !.grace = 0,
                                    !.expires = clock + Life, !.gen = node.gen + 1],
               recoveries' = {Committed(r)}
        PROVE  Records'
    <3>1. /\ node'.gen = node.gen + 1 /\ node'.expires = clock + Life
          /\ node'.current = requests[s].new
      BY <2>2, Zenon DEF TypeOK, NodeRecords
    <3>2. issued' = issued /\ r.token \in 1..issued
      BY <1>5, Zenon DEF RecoverCommit, Records
    <3>3. /\ Committed(r).used /\ Committed(r).token = r.token
          /\ Committed(r).gen = node.gen + 1 /\ Committed(r).credential = clock + Life
          /\ Committed(r).claimNew = requests[s].new /\ Committed(r).claimGen = node.gen
      BY <2>2, RecordUpdates, Zenon DEF ClaimStands
    <3>4. PICK d : d = Committed(r)
      BY Zenon
    <3>5. /\ d.gen = d.claimGen + 1 /\ d.gen = node'.gen /\ d.credential = node'.expires
          /\ d.claimNew = node'.current /\ d.token \in 1..issued' /\ recoveries' = {d}
      BY <3>1, <3>2, <3>3, <3>4, <2>2, Zenon
    <3> QED
      BY <3>1, <3>5, <1>i DEF Records, Agrees
  <2> QED
    BY <1>5, <2>1, <2>2, Zenon DEF RecoverCommit
<1>6. ASSUME NEW s \in Slots, RecoverRelease(s) PROVE Records'
  <2>1. UNCHANGED <<node, issued>>
    BY <1>6, Zenon DEF RecoverRelease
  <2>2. ASSUME NEW r \in recoveries' PROVE Agrees(r)' /\ r.token \in 1..issued
    <3>1. PICK q \in recoveries : r = q \/ (~q.used /\ r = Unclaimed(q))
      BY <1>6, <2>2, Zenon DEF RecoverRelease
    <3>2. CASE r = q
      BY <3>2, <2>1, Zenon DEF Records, Agrees
    <3>3. CASE ~q.used /\ r = Unclaimed(q)
      <4>1. ~r.used /\ r.token = q.token
        BY <3>3, RecordUpdates, Zenon
      <4> QED
        BY <4>1, Zenon DEF Records, Agrees
    <3> QED
      BY <3>1, <3>2, <3>3, Zenon
  <2> QED
    BY <2>1, <2>2, Zenon DEF Records
<1>7. CASE \/ Tick \/ Abandon \/ CycleSync \/ RotateFinish \/ GiveUp \/ RecoverVerify \/ RecoverConfirm
  BY <1>7, <1>f, Zenon DEF Tick, Abandon, CycleSync, RotateFinish, GiveUp, RecoverVerify, RecoverConfirm
<1>8. ASSUME NEW s \in Slots,
             \/ RotatePreflight(s) \/ RecoverPreflight(s) \/ LoseRequest(s)
             \/ RotateBegin(s) \/ RotateRetry(s) \/ RecoverResume(s)
             \/ \E token \in 1..MaxTokens : RecoverBegin(s, token)
      PROVE  Records'
  BY <1>8, <1>f, Zenon DEF RotatePreflight, RecoverPreflight, LoseRequest, RotateBegin, RotateRetry,
     RecoverResume, RecoverBegin
<1> QED
  BY <1>1, <1>2, <1>3, <1>4, <1>5, <1>6, <1>7, <1>8, Zenon DEF Next, Server
-----------------------------------------------------------------------------
(* Both sides of the exchange. *)

\* A request that ends, or goes on asking for the same.
Continues(s) ==
    \/ requests'[s].kind = "none" /\ ~requests'[s].waited
    \/ /\ requests'[s].kind = requests[s].kind /\ requests'[s].auth = requests[s].auth
       /\ requests'[s].new = requests[s].new /\ requests'[s].token = requests[s].token
       /\ requests'[s].waited => requests[s].waited

\* The tokens the server still honours are honoured already.
TokensKept == \A token \in 1..issued : Unused(token)' => Unused(token)

LEMMA NoWaiting ==
    ASSUME TypeOK, RequestInv, op \in {"idle", "synced", "confirming"} \/ reply.kind # "none"
    PROVE  \A s \in Slots : ~requests[s].waited
<1>1. SUFFICES ASSUME NEW s \in Slots, requests[s].waited PROVE FALSE
  BY Zenon
<1>2. requests[s].kind \in {"rotate", "recover"} /\ reply.kind = "none"
  BY <1>1, Fields, Zenon DEF RequestInv, WaitInv
<1>3. op \in {"rotating", "retrying", "recovering"}
  BY <1>1, <1>2, Zenon DEF RequestInv, RotateInv, RecoverInv
<1> QED
  BY <1>2, <1>3, Zenon

LEMMA Positive ==
    ASSUME TypeOK, BearerInv
    PROVE  /\ agent.bearer \in 1..minted /\ agent.bearer # 0 /\ 0 \notin held
           /\ \A b \in held : b \in Nat /\ 1 <= b /\ b <= minted
           /\ minted + 1 \notin held
BY Fields DEF BearerInv

\* Steps after which the node's bearer, the agent's and the requests are what they were.
LEMMA QuietStep ==
    ASSUME TypeOK, AdoptedMatches, BearerInv, RequestInv,
           \A s \in Slots : Continues(s),
           UNCHANGED <<agent, held, minted>>,
           issued' \in Nat, issued <= issued', TokensKept,
           \/ node' = node
           \/ node'.status = "revoked" /\ node'.current = 0 /\ node'.previous = 0
              /\ node'.gen = node.gen,
           \A s \in Slots : requests'[s].waited => op' = op /\ reply'.kind = "none"
    PROVE  AdoptedMatches' /\ BearerInv' /\ RequestInv'
<1>f. /\ issued \in Nat /\ minted \in Nat /\ agent.token \in Nat /\ agent.bearer # 0
      /\ \A s \in Slots : requests[s].token \in Nat /\ requests[s].kind \in {"none", "rotate", "recover"}
  BY Fields, Positive, Zenon
<1>n. /\ node'.gen = node.gen
      /\ node'.current = node.current \/ node'.current = 0
      /\ agent.bearer = node'.current => node' = node
      /\ node'.previous <= minted
      /\ node'.status = "active" => node' = node
      /\ node'.status = "revoked" => node'.current = 0
  BY <1>f DEF BearerInv
<1>1. AdoptedMatches'
  BY <1>n, Zenon DEF AdoptedMatches
<1>2. BearerInv'
  <2>1. agent.token # 0 /\ Unused(agent.token)' => Unused(agent.token)
    BY <1>f DEF BearerInv, TokensKept
  <2>2. /\ agent.bearer = node'.current /\ agent.pending # 0 => agent.pending \notin held
        /\ node'.status = "active" => node'.current \in held
    BY <1>n, Zenon DEF BearerInv
  <2>3. agent.token <= issued'
    BY <1>f DEF BearerInv
  <2>4. PICK t : t = agent.token
    BY Zenon
  <2>5. agent'.token # 0 /\ Unused(agent.token)' => Unused(agent.token)
    BY <2>1, <2>4, Zenon
  <2> QED
    BY <1>n, <2>2, <2>3, <2>5, Zenon DEF BearerInv
<1>3. RequestInv'
  <2>1. ASSUME NEW s \in Slots, requests'[s].kind = "rotate" PROVE RotateInv(requests[s])'
    <3>1. /\ requests[s].kind = "rotate" /\ RotateInv(requests[s])
          /\ requests'[s].auth = requests[s].auth /\ requests'[s].new = requests[s].new
          /\ requests'[s].waited => op' = op /\ requests[s].waited
      BY <2>1, Zenon DEF RequestInv, Continues
    <3>2. requests[s].auth \in 1..minted => requests[s].auth # 0
      BY <1>f
    <3> QED
      BY <3>1, <3>2, <1>n, Zenon DEF RotateInv
  <2>2. ASSUME NEW s \in Slots, requests'[s].kind = "recover" PROVE RecoverInv(requests[s])'
    <3>1. /\ requests[s].kind = "recover" /\ RecoverInv(requests[s])
          /\ requests'[s].token = requests[s].token /\ requests'[s].new = requests[s].new
          /\ requests'[s].waited => op' = op /\ requests[s].waited
      BY <2>2, Zenon DEF RequestInv, Continues
    <3>2. PICK token : token = requests[s].token
      BY Zenon
    <3>3. token \in 1..issued /\ (Unused(token)' => Unused(token))
      BY <3>1, <3>2, Zenon DEF RecoverInv, TokensKept
    <3>4. Unused(requests[s].token)' => requests[s].new \notin held
      BY <3>1, <3>2, <3>3, Zenon DEF RecoverInv
    <3>5. requests'[s].token \in 1..issued'
      BY <3>1, <3>2, <3>3, <1>f
    <3> QED
      BY <3>1, <3>4, <3>5, Zenon DEF RecoverInv
  <2>3. ASSUME NEW s \in Slots PROVE WaitInv(requests[s])'
    <3>1. CASE requests'[s].waited
      BY <3>1 DEF Continues, RequestInv, WaitInv
    <3> QED
      BY <3>1, Zenon DEF WaitInv
  <2>4. ASSUME NEW s \in Slots, NEW t \in Slots
        PROVE  /\ requests'[s].kind = "rotate" /\ requests'[t].kind = "recover" =>
                    requests'[s].new # requests'[t].new
               /\ requests'[s].waited /\ requests'[t].waited => s = t
    BY Continues(s), Continues(t) DEF Continues, RequestInv
  <2> QED
    BY <2>1, <2>2, <2>3, <2>4, Zenon DEF RequestInv
<1> QED
  BY <1>1, <1>2, <1>3, Zenon

\* Steps after which the node has a bearer it never had.
LEMMA AdvanceStep ==
    ASSUME TypeOK, AdoptedMatches, BearerInv, RequestInv, OpInv, ReplyInv,
           NEW s \in Slots, NEW e \in Times,
           Answer(s, Credential(node.gen + 1, e)),
           requests[s].kind # "none", requests[s].new \in 1..minted,
           requests[s].new \notin held,
           node'.current = requests[s].new, node'.gen = node.gen + 1, node'.expires = e,
           node'.previous <= minted, node'.status = "active",
           held' = held \cup {requests[s].new},
           UNCHANGED <<agent, op, minted, issued>>,
           \A token \in 1..issued : Unused(token)' => requests[s].kind = "rotate" /\ Unused(token)
    PROVE  AdoptedMatches' /\ BearerInv' /\ RequestInv' /\ OpInv' /\ ReplyInv'
<1> DEFINE q == requests[s]
<1>b. PICK b : b = q.new
  BY Zenon
<1>f. /\ issued \in Nat /\ minted \in Nat /\ agent.token \in Nat /\ agent.bearer # 0
      /\ agent.bearer \in held /\ b \notin held /\ b \in 1..minted
      /\ held' = held \cup {b} /\ node'.current = b /\ node.gen + 1 \in Nat
      /\ \A t \in Slots : requests[t].token \in Nat /\ requests[t].kind \in {"none", "rotate", "recover"}
  BY <1>b, Fields, Positive DEF BearerInv
<1>a. /\ requests'[s].kind = "none" /\ ~requests'[s].waited
      /\ \A t \in Slots \ {s} : requests'[t] = requests[t]
      /\ requests[s].waited => reply'.kind = "ok" /\ reply'.gen = node'.gen /\ reply'.expires = node'.expires
      /\ ~requests[s].waited => reply' = reply
  <2>1. Credential(node.gen + 1, e) \in Replies
    BY <1>f, IdleFacts, Zenon
  <2> QED
    BY <2>1, <1>f, AnswerFacts, IdleFacts
<1>w. \A t \in Slots : requests'[t].waited => t # s /\ requests[t].waited /\ reply' = reply
  BY <1>a, Zenon DEF RequestInv
<1>1. AdoptedMatches'
  BY <1>f, Zenon DEF AdoptedMatches
<1>2. BearerInv'
  <2>1. agent.token # 0 /\ Unused(agent.token)' => agent.pending \notin held'
    <3>1. PICK t : t = agent.token
      BY Zenon
    <3>2. SUFFICES ASSUME t # 0, Unused(t)' PROVE agent.pending \notin held'
      BY <3>1, Zenon
    <3>3. Unused(t) /\ q.kind = "rotate"
      BY <3>1, <3>2, <1>f DEF BearerInv
    <3>4. agent.pending \notin held /\ b # agent.pending
      BY <3>1, <3>2, <3>3, <1>b, Zenon DEF BearerInv, RequestInv, RotateInv
    <3> QED
      BY <3>4, <1>f, Zenon
  <2> QED
    BY <1>f, <2>1, Zenon DEF BearerInv
<1>3. RequestInv'
  <2>1. ASSUME NEW t \in Slots, requests'[t].kind = "rotate" PROVE RotateInv(requests[t])'
    <3>1. RotateInv(requests[t]) /\ requests'[t] = requests[t] /\ t # s
      BY <2>1, <1>a, Zenon DEF RequestInv
    <3> QED
      BY <3>1, <1>f, Zenon DEF RotateInv
  <2>2. ASSUME NEW t \in Slots, requests'[t].kind = "recover" PROVE RecoverInv(requests[t])'
    <3>1. RecoverInv(requests[t]) /\ requests'[t] = requests[t] /\ t # s /\ requests[t].kind = "recover"
      BY <2>2, <1>a, Zenon DEF RequestInv
    <3>2. PICK token : token = requests[t].token
      BY Zenon
    <3>3. Unused(token)' => Unused(token) /\ q.kind = "rotate"
      BY <3>1, <3>2, Zenon DEF RecoverInv
    <3>4. q.kind = "rotate" => requests[t].new # b
      BY <3>1, <1>b, Zenon DEF RequestInv
    <3>5. Unused(requests[t].token)' => requests[t].new \notin held'
      BY <3>1, <3>2, <3>3, <3>4, <1>f, Zenon DEF RecoverInv
    <3> QED
      BY <3>1, <3>5, Zenon DEF RecoverInv
  <2>3. ASSUME NEW t \in Slots PROVE WaitInv(requests[t])'
    BY <1>a, <1>w DEF WaitInv, RequestInv
  <2>4. ASSUME NEW u \in Slots, NEW t \in Slots
        PROVE  /\ requests'[u].kind = "rotate" /\ requests'[t].kind = "recover" =>
                    requests'[u].new # requests'[t].new
               /\ requests'[u].waited /\ requests'[t].waited => u = t
    BY <1>a, Zenon DEF RequestInv
  <2> QED
    BY <2>1, <2>2, <2>3, <2>4, Zenon DEF RequestInv
<1>4. OpInv'
  <2>1. CASE q.waited
    <3>1. op \in {"rotating", "retrying", "recovering"}
      BY <2>1, <1>f, Zenon DEF RequestInv, RotateInv, RecoverInv
    <3> QED
      BY <3>1, Zenon DEF OpInv
  <2>2. CASE ~q.waited
    BY <2>2, <1>a, Zenon DEF OpInv
  <2> QED
    BY <2>1, <2>2, Zenon
<1>5. ReplyInv'
  <2>1. CASE q.waited
    <3>1. agent.pending = b
      BY <2>1, <1>b, Zenon DEF RequestInv, WaitInv
    <3> QED
      BY <2>1, <3>1, <1>a, <1>f, Zenon DEF ReplyInv
  <2>2. CASE ~q.waited
    BY <2>2, <1>a, <1>f, Zenon DEF ReplyInv
  <2> QED
    BY <2>1, <2>2, Zenon
<1> QED
  BY <1>1, <1>2, <1>3, <1>4, <1>5, Zenon
\* The agent takes over its pending bearer.
LEMMA AdoptStep ==
    ASSUME TypeOK, AdoptedMatches, BearerInv, RequestInv, ReplyInv,
           reply.kind = "ok", agent.pending # 0,
           agent'.bearer = agent.pending, agent'.pending = 0, agent'.token = 0,
           agent'.gen = reply.gen, agent'.expires = reply.expires,
           op' = "idle", reply' = NoReply,
           UNCHANGED <<node, recoveries, requests, minted, issued, held>>
    PROVE  AdoptedMatches' /\ BearerInv' /\ RequestInv' /\ OpInv' /\ ReplyInv'
<1>f. /\ issued \in Nat /\ minted \in Nat /\ reply'.kind = "none"
      /\ \A s \in Slots : ~requests[s].waited
      /\ agent.pending \in held
      /\ node.current = agent.pending => reply.gen = node.gen /\ reply.expires = node.expires
  BY Fields, NoWaiting, IdleFacts, Zenon DEF ReplyInv
<1>1. AdoptedMatches'
  BY <1>f, Zenon DEF AdoptedMatches
<1>2. BearerInv'
  BY <1>f DEF BearerInv
<1>3. RequestInv'
  <2>1. ASSUME NEW s \in Slots, requests[s].kind = "rotate" PROVE RotateInv(requests[s])'
    BY <2>1, <1>f, Zenon DEF RequestInv, RotateInv
  <2>2. ASSUME NEW s \in Slots, requests[s].kind = "recover" PROVE RecoverInv(requests[s])'
    <3>1. RecoverInv(requests[s]) /\ ~requests[s].waited /\ requests[s].new # 0
      BY <2>2, <1>f DEF RequestInv, RecoverInv
    <3>2. Unused(requests[s].token)' => Unused(requests[s].token)
      BY Zenon DEF Unused
    <3> QED
      BY <3>1, <3>2, Zenon DEF RecoverInv
  <2> QED
    BY <2>1, <2>2, <1>f, Zenon DEF RequestInv, WaitInv
<1>4. OpInv' /\ ReplyInv'
  BY <1>f, Zenon DEF OpInv, ReplyInv
<1> QED
  BY <1>1, <1>2, <1>3, <1>4, Zenon

\* The agent sends one request: what is true of it alone, and of it beside the others.
LEMMA SendStep ==
    ASSUME TypeOK, RequestInv, NEW s \in Slots, NEW q \in RequestRecords,
           Send(s, q), q.waited, q.kind \in {"rotate", "recover"},
           q.kind = "rotate" => RotateInv(q)', q.kind = "recover" => RecoverInv(q)',
           reply'.kind = "none", q.new = agent'.pending,
           \A t \in Slots : ~requests[t].waited,
           \A t \in Slots \ {s} :
              /\ requests[t].kind = "rotate" =>
                   RotateInv(requests[t])' /\ (q.kind = "recover" => requests[t].new # q.new)
              /\ requests[t].kind = "recover" =>
                   RecoverInv(requests[t])' /\ (q.kind = "rotate" => requests[t].new # q.new)
    PROVE  RequestInv'
<1>1. requests'[s] = q /\ \A t \in Slots \ {s} : requests'[t] = requests[t]
  BY SendFacts, Zenon
<1>2. ASSUME NEW t \in Slots
      PROVE  /\ requests'[t].kind = "rotate" => RotateInv(requests[t])'
             /\ requests'[t].kind = "recover" => RecoverInv(requests[t])'
             /\ WaitInv(requests[t])'
  <2>1. CASE t = s
    <3>1. requests'[t] = q
      BY <2>1, <1>1, Zenon
    <3>2. /\ requests'[t].kind = "rotate" => RotateInv(requests[t])'
          /\ requests'[t].kind = "recover" => RecoverInv(requests[t])'
      BY <3>1, Zenon DEF RotateInv, RecoverInv
    <3> QED
      BY <3>1, <3>2, Zenon DEF WaitInv
  <2>2. CASE t # s
    <3>1. requests'[t] = requests[t] /\ t \in Slots \ {s}
      BY <2>2, <1>1, Zenon
    <3>2. /\ requests'[t].kind = "rotate" => RotateInv(requests[t])'
          /\ requests'[t].kind = "recover" => RecoverInv(requests[t])'
      BY <3>1, Zenon
    <3> QED
      BY <3>1, <3>2, Zenon DEF WaitInv
  <2> QED
    BY <2>1, <2>2, Zenon
<1>3. ASSUME NEW u \in Slots, NEW t \in Slots
      PROVE  /\ requests'[u].kind = "rotate" /\ requests'[t].kind = "recover" =>
                  requests'[u].new # requests'[t].new
             /\ requests'[u].waited /\ requests'[t].waited => u = t
  BY <1>1 DEF RequestInv
<1> QED
  BY <1>2, <1>3, Zenon DEF RequestInv
LEMMA SendingStep ==
    ASSUME TypeOK, AdoptedMatches, BearerInv, RequestInv, OpInv, ReplyInv, NEW s \in Slots,
           \/ RotateBegin(s) \/ RotateRetry(s) \/ RecoverResume(s)
           \/ \E token \in 1..MaxTokens : RecoverBegin(s, token)
    PROVE  AdoptedMatches' /\ BearerInv' /\ RequestInv' /\ OpInv' /\ ReplyInv'
<1>f. /\ issued \in Nat /\ minted \in Nat /\ agent.pending \in Nat /\ agent.bearer \in Nat
      /\ agent.token \in Nat /\ agent.bearer # 0 /\ agent.bearer \in held
      /\ agent.bearer \in 1..minted /\ minted + 1 \notin held /\ 0 \notin held
      /\ agent.bearer \in Bearers /\ agent.pending \in Bearers /\ agent.token \in Tokens
      /\ \A t \in Slots : requests[t].new \in Nat /\ requests[t].auth \in Nat
  BY Fields, Positive, Zenon DEF BearerInv, TypeOK, AgentRecords
<1>r. \A t \in Slots :
        /\ requests[t].kind = "rotate" => RotateInv(requests[t])
        /\ requests[t].kind = "recover" => RecoverInv(requests[t])
  BY Zenon DEF RequestInv
<1>1. CASE RotateBegin(s)
  <2>1. /\ op = "synced" /\ op' = "rotating" /\ agent.token = 0 /\ reply.kind = "none"
        /\ UNCHANGED <<node, recoveries, reply, issued, held>>
        /\ \A t \in Slots : ~requests[t].waited
    BY <1>1, NoWaiting, Zenon DEF RotateBegin, OpInv
  <2>2. PICK pending \in Bearers :
           /\ agent' = [agent EXCEPT !.pending = pending]
           /\ Send(s, Rotation(agent.bearer, pending))
           /\ pending = IF agent.pending = 0 THEN minted + 1 ELSE agent.pending
           /\ minted' = IF agent.pending = 0 THEN minted + 1 ELSE minted
    <3>1. (IF agent.pending = 0 THEN minted + 1 ELSE agent.pending) \in Bearers
      BY <1>1, <1>f, Constants DEF RotateBegin, Bearers
    <3> QED
      BY <1>1, <3>1, Zenon DEF RotateBegin
  <2>3. /\ agent'.bearer = agent.bearer /\ agent'.pending = pending /\ agent'.token = 0
        /\ agent'.gen = agent.gen /\ agent'.expires = agent.expires
    BY <2>1, <2>2, AgentUpdates, Zenon
  <2>4. /\ minted <= minted' /\ minted' \in Nat /\ pending \in 1..minted' /\ pending # agent.bearer
        /\ agent.bearer = node.current => pending \notin held
        /\ \A t \in Slots : requests[t].kind = "recover" => requests[t].new # pending
        /\ \A b \in 1..minted : b \in 1..minted'
    <3>1. CASE agent.pending = 0
      BY <3>1, <2>2, <1>f, <1>r DEF RecoverInv
    <3>2. CASE agent.pending # 0
      BY <3>2, <2>1, <2>2, <1>f, <1>r DEF RecoverInv, BearerInv
    <3> QED
      BY <3>1, <3>2, Zenon
  <2>5. AdoptedMatches'
    BY <2>1, <2>3, Zenon DEF AdoptedMatches
  <2>6. BearerInv'
    <3>1. held \subseteq 1..minted' /\ node.previous <= minted' /\ pending <= minted'
      BY <2>4, <1>f, Fields DEF BearerInv
    <3> QED
      BY <3>1, <2>1, <2>3, <2>4, Zenon DEF BearerInv
  <2>7. RequestInv'
    <3>1. PICK q \in RequestRecords :
             /\ q = Rotation(agent.bearer, pending) /\ q.kind = "rotate" /\ q.waited
             /\ q.auth = agent.bearer /\ q.new = pending
      BY <1>f, RotationFacts, Zenon
    <3>2. RotateInv(q)'
      BY <3>1, <2>1, <2>3, <2>4, <1>f, Zenon DEF RotateInv
    <3>3. ASSUME NEW t \in Slots \ {s}
          PROVE  /\ requests[t].kind = "rotate" => RotateInv(requests[t])'
                 /\ requests[t].kind = "recover" => RecoverInv(requests[t])' /\ requests[t].new # q.new
      <4>1. requests'[t] = requests[t] /\ ~requests[t].waited
        BY <2>1, <2>2, <3>1, SendFacts
      <4>2. Unused(requests[t].token)' => Unused(requests[t].token)
        BY <4>1, <2>1, Zenon DEF Unused
      <4>3. requests[t].kind = "rotate" => RotateInv(requests[t])'
        BY <4>1, <2>1, <2>3, <2>4, <1>r, Zenon DEF RotateInv
      <4>4. requests[t].kind = "recover" => RecoverInv(requests[t])'
        BY <4>1, <4>2, <2>1, <2>3, <2>4, <1>r, Zenon DEF RecoverInv
      <4> QED
        BY <4>3, <4>4, <3>1, <2>4, Zenon
    <3> QED
      BY <2>1, <2>2, <2>3, <3>1, <3>2, <3>3, SendStep
  <2>8. OpInv' /\ ReplyInv'
    BY <2>1, <2>3, <2>4 DEF OpInv, ReplyInv
  <2> QED
    BY <2>5, <2>6, <2>7, <2>8, Zenon
<1>2. CASE RotateRetry(s)
  <2>1. /\ op = "rotating" /\ op' = "retrying" /\ agent.token = 0 /\ agent.pending # 0
        /\ reply'.kind = "none" /\ Send(s, Rotation(agent.pending, agent.pending))
        /\ UNCHANGED <<node, recoveries, agent, minted, issued, held>>
        /\ \A t \in Slots : ~requests[t].waited
    BY <1>2, NoWaiting, IdleFacts, Zenon DEF RotateRetry, OpInv
  <2>2. AdoptedMatches' /\ BearerInv' /\ OpInv' /\ ReplyInv'
    BY <2>1, Zenon DEF AdoptedMatches, BearerInv, OpInv, ReplyInv, Unused
  <2>3. PICK q \in RequestRecords :
             /\ q = Rotation(agent.pending, agent.pending) /\ q.kind = "rotate" /\ q.waited
             /\ q.auth = agent.pending /\ q.new = agent.pending
    BY <1>f, RotationFacts, Zenon
  <2>4. RotateInv(q)'
    BY <2>1, <2>3, <1>f DEF RotateInv, BearerInv
  <2>5. ASSUME NEW t \in Slots \ {s}
        PROVE  /\ requests[t].kind = "rotate" => RotateInv(requests[t])'
               /\ requests[t].kind = "recover" => RecoverInv(requests[t])' /\ requests[t].new # q.new
    <3>1. requests'[t] = requests[t] /\ ~requests[t].waited
      BY <2>1, <2>3, SendFacts
    <3>2. Unused(requests[t].token)' => Unused(requests[t].token)
      BY <3>1, <2>1, Zenon DEF Unused
    <3> QED
      BY <3>1, <3>2, <2>1, <2>3, <1>r, Zenon DEF RotateInv, RecoverInv
  <2>6. RequestInv'
    BY <2>1, <2>3, <2>4, <2>5, SendStep, Zenon
  <2> QED
    BY <2>2, <2>6, Zenon
<1>3. CASE RecoverResume(s)
  <2>1. /\ op = "idle" /\ op' = "recovering" /\ agent.token # 0 /\ agent.pending # 0
        /\ reply.kind = "none" /\ Send(s, Recovery(agent.token, agent.pending))
        /\ UNCHANGED <<node, recoveries, agent, reply, minted, issued, held>>
        /\ \A t \in Slots : ~requests[t].waited
    BY <1>3, NoWaiting, Zenon DEF RecoverResume, OpInv, BearerInv
  <2>2. AdoptedMatches' /\ BearerInv' /\ OpInv' /\ ReplyInv'
    BY <2>1, Zenon DEF AdoptedMatches, BearerInv, OpInv, ReplyInv, Unused
  <2>3. PICK q \in RequestRecords :
             /\ q = Recovery(agent.token, agent.pending) /\ q.kind = "recover" /\ q.waited
             /\ q.token = agent.token /\ q.new = agent.pending
    BY <1>f, RecoveryFacts, Zenon
  <2>4. RecoverInv(q)'
    <3>1. Unused(q.token)' => Unused(agent.token)
      BY <2>1, <2>3, Zenon DEF Unused
    <3> QED
      BY <3>1, <2>1, <2>3, <1>f DEF RecoverInv, BearerInv
  <2>5. ASSUME NEW t \in Slots \ {s}
        PROVE  /\ requests[t].kind = "rotate" => RotateInv(requests[t])' /\ requests[t].new # q.new
               /\ requests[t].kind = "recover" => RecoverInv(requests[t])'
    <3>1. requests'[t] = requests[t] /\ ~requests[t].waited
      BY <2>1, <2>3, SendFacts, Zenon
    <3>2. Unused(requests[t].token)' => Unused(requests[t].token)
      BY <3>1, <2>1, Zenon DEF Unused
    <3> QED
      BY <3>1, <3>2, <2>1, <2>3, <1>r, Zenon DEF RotateInv, RecoverInv
  <2>6. RequestInv'
    BY <2>1, <2>3, <2>4, <2>5, SendStep, Zenon
  <2> QED
    BY <2>2, <2>6, Zenon
<1>4. ASSUME NEW token \in 1..MaxTokens, RecoverBegin(s, token)
      PROVE  AdoptedMatches' /\ BearerInv' /\ RequestInv' /\ OpInv' /\ ReplyInv'
  <2>1. /\ op = "idle" /\ op' = "recovering" /\ token \in 1..issued /\ token # 0
        /\ token \in Tokens /\ minted + 1 \in Bearers /\ reply.kind = "none"
        /\ Send(s, Recovery(token, minted + 1)) /\ minted' = minted + 1
        /\ UNCHANGED <<node, recoveries, reply, issued, held>>
        /\ \A t \in Slots : ~requests[t].waited
    BY <1>4, <1>f, NoWaiting, Constants DEF RecoverBegin, OpInv, Tokens, Bearers
  <2>2. /\ agent'.bearer = agent.bearer /\ agent'.pending = minted + 1 /\ agent'.token = token
        /\ agent'.gen = agent.gen /\ agent'.expires = agent.expires
    <3>1. CASE RecoverFirst(token)
      BY <3>1, Zenon DEF RecoverFirst, TypeOK, AgentRecords
    <3>2. CASE replacePendingRecovery(token)
      BY <3>2, Zenon DEF replacePendingRecovery, TypeOK, AgentRecords
    <3> QED
      BY <1>4, <3>1, <3>2, Zenon DEF RecoverBegin
  <2>3. AdoptedMatches' /\ OpInv' /\ ReplyInv'
    BY <2>1, <2>2, Zenon DEF AdoptedMatches, OpInv, ReplyInv
  <2>4. BearerInv'
    <3>1. held \subseteq 1..minted' /\ node.previous <= minted'
      BY <2>1, <1>f, Fields DEF BearerInv
    <3>2. minted + 1 <= minted' /\ minted + 1 # 0 /\ agent.bearer # minted + 1 /\ token <= issued
      BY <2>1, <1>f
    <3> QED
      BY <3>1, <3>2, <2>1, <2>2, <1>f, Zenon DEF BearerInv
  <2>5. PICK q \in RequestRecords :
             /\ q = Recovery(token, minted + 1) /\ q.kind = "recover" /\ q.waited
             /\ q.token = token /\ q.new = minted + 1
    BY <2>1, RecoveryFacts
  <2>6. RecoverInv(q)'
    BY <2>1, <2>2, <2>5, <1>f DEF RecoverInv
  <2>7. ASSUME NEW t \in Slots \ {s}
        PROVE  /\ requests[t].kind = "rotate" => RotateInv(requests[t])' /\ requests[t].new # q.new
               /\ requests[t].kind = "recover" => RecoverInv(requests[t])'
    <3>1. requests'[t] = requests[t] /\ ~requests[t].waited
      BY <2>1, <2>5, SendFacts, Zenon
    <3>2. Unused(requests[t].token)' => Unused(requests[t].token)
      BY <3>1, <2>1, Zenon DEF Unused
    <3>3. \A b \in 1..minted : b \in 1..minted' /\ b # minted + 1
      BY <2>1, <1>f
    <3>4. requests[t].kind = "rotate" => RotateInv(requests[t])' /\ requests[t].new # q.new
      BY <3>1, <3>3, <2>1, <2>2, <2>5, <1>r, Zenon DEF RotateInv
    <3>5. requests[t].kind = "recover" => RecoverInv(requests[t])'
      BY <3>1, <3>2, <3>3, <2>1, <2>2, <1>r, Zenon DEF RecoverInv
    <3> QED
      BY <3>4, <3>5, Zenon
  <2>8. RequestInv'
    BY <2>1, <2>2, <2>5, <2>6, <2>7, SendStep, Zenon
  <2> QED
    BY <2>3, <2>4, <2>8, Zenon
<1> QED
  BY <1>1, <1>2, <1>3, <1>4, Zenon
\* A slot of the server goes on with its request, or answers it.
LEMMA Continuing ==
    ASSUME TypeOK, RequestInv, NEW s \in Slots,
           \/ \E a \in Replies : Answer(s, a)
           \/ /\ \E phase \in {"none", "sent", "preflighted", "claimed", "refused", "conflicted"} :
                   \/ requests' = [requests EXCEPT ![s].phase = phase]
                   \/ requests' = [requests EXCEPT ![s].phase = phase, ![s].at = clock]
              /\ reply' = reply,
           op' = op
    PROVE  /\ \A t \in Slots : Continues(t)
           /\ \A t \in Slots : requests'[t].waited => op' = op /\ reply'.kind = "none"
<1>1. ASSUME NEW a \in Replies, Answer(s, a)
      PROVE  /\ \A t \in Slots : Continues(t)
             /\ \A t \in Slots : requests'[t].waited => reply'.kind = "none"
  <2>1. /\ requests'[s] = Idle /\ \A t \in Slots \ {s} : requests'[t] = requests[t]
        /\ ~requests[s].waited => reply' = reply
    BY <1>1, AnswerFacts, Zenon
  <2> QED
    BY <2>1, IdleFacts DEF Continues, RequestInv, WaitInv
<1>2. ASSUME NEW phase \in {"none", "sent", "preflighted", "claimed", "refused", "conflicted"},
             \/ requests' = [requests EXCEPT ![s].phase = phase]
             \/ requests' = [requests EXCEPT ![s].phase = phase, ![s].at = clock],
             reply' = reply
      PROVE  /\ \A t \in Slots : Continues(t)
             /\ \A t \in Slots : requests'[t].waited => reply'.kind = "none"
  <2>1. clock \in 0..MaxClock
    BY Zenon DEF TypeOK
  <2>2. /\ requests'[s].kind = requests[s].kind /\ requests'[s].auth = requests[s].auth
        /\ requests'[s].new = requests[s].new /\ requests'[s].token = requests[s].token
        /\ requests'[s].waited = requests[s].waited
        /\ \A t \in Slots \ {s} : requests'[t] = requests[t]
    BY <1>2, <2>1, PhaseFacts, Zenon
  <2> QED
    BY <1>2, <2>2, Zenon DEF Continues, RequestInv, WaitInv
<1> QED
  BY <1>1, <1>2, Zenon

\* An answer reaches an agent whose operation awaits it.
LEMMA AnswerHeard ==
    ASSUME TypeOK, BearerInv, RequestInv, OpInv, ReplyInv, NEW s \in Slots, NEW a \in Replies,
           Answer(s, a), UNCHANGED <<node, agent, op, held>>,
           a.kind # "none",
           /\ requests[s].waited /\ a.kind = "ok"
           => /\ node.status = "active" /\ node.current = requests[s].new
              /\ a.gen = node.gen /\ a.expires = node.expires
    PROVE  OpInv' /\ ReplyInv'
<1>1. CASE requests[s].waited
  <2>1. reply' = a /\ requests[s].new = agent.pending /\ requests[s].kind \in {"rotate", "recover"}
    BY <1>1, AnswerFacts, Fields, Zenon DEF RequestInv, WaitInv
  <2>2. op \in {"rotating", "retrying", "recovering"}
    BY <1>1, <2>1, Zenon DEF RequestInv, RotateInv, RecoverInv
  <2> QED
    BY <1>1, <2>1, <2>2, Zenon DEF OpInv, ReplyInv, BearerInv
<1>2. CASE ~requests[s].waited
  BY <1>2, AnswerFacts, Zenon DEF OpInv, ReplyInv
<1> QED
  BY <1>1, <1>2, Zenon
LEMMA ServerStep ==
    ASSUME TypeOK, Records, Core, NEW s \in Slots, Server(s) \/ LoseRequest(s) PROVE Core'
<1>c. AdoptedMatches /\ BearerInv /\ RequestInv /\ OpInv /\ ReplyInv
  BY Zenon DEF Core
<1>q. ASSUME \A t \in Slots : Continues(t),
             \A t \in Slots : requests'[t].waited => op' = op /\ reply'.kind = "none",
             UNCHANGED <<agent, held, minted, issued, node>>, TokensKept, OpInv', ReplyInv'
      PROVE  Core'
  <2>1. issued' \in Nat /\ issued <= issued'
    BY <1>q, Fields
  <2> QED
    BY <1>c, <1>q, <2>1, QuietStep, Zenon DEF Core
<1>a. ASSUME NEW a \in Replies, Answer(s, a), UNCHANGED <<node, agent, op, minted, issued, held>>,
             TokensKept, a.kind # "none",
             /\ requests[s].waited /\ a.kind = "ok"
             => /\ node.status = "active" /\ node.current = requests[s].new
                /\ a.gen = node.gen /\ a.expires = node.expires
      PROVE  Core'
  BY <1>c, <1>a, <1>q, Continuing, AnswerHeard, Zenon
<1>p. ASSUME NEW phase \in {"none", "sent", "preflighted", "claimed", "refused", "conflicted"},
             \/ requests' = [requests EXCEPT ![s].phase = phase]
             \/ requests' = [requests EXCEPT ![s].phase = phase, ![s].at = clock],
             UNCHANGED <<node, agent, op, reply, minted, issued, held>>, TokensKept
      PROVE  Core'
  <2>1. OpInv' /\ ReplyInv'
    BY <1>c, <1>p, Zenon DEF OpInv, ReplyInv
  <2> QED
    BY <1>c, <1>p, <1>q, <2>1, Continuing, Zenon
<1>k. UNCHANGED recoveries => TokensKept
  BY Zenon DEF TokensKept, Unused
<1>i. /\ Unauthorized \in Replies /\ Unauthorized.kind = "unauthorized"
      /\ Failed \in Replies /\ Failed.kind = "error"
  BY IdleFacts, Zenon
<1>1. CASE RotatePreflight(s)
  <2>1. UNCHANGED <<node, agent, op, minted, issued, held, recoveries>>
    BY <1>1, Zenon DEF RotatePreflight
  <2> QED
    BY <1>1, <2>1, <1>a, <1>p, <1>k, <1>i, Zenon DEF RotatePreflight
<1>2. CASE RotateCommit(s)
  <2>0. UNCHANGED <<agent, op, minted, issued, recoveries>> /\ TokensKept
    BY <1>2, <1>k, Zenon DEF RotateCommit
  <2>1. ASSUME RotateVerdict(requests[s]) = "rotate",
               node' = Rotated(requests[s]), held' = held \cup {requests[s].new},
               Answer(s, Credential(node.gen + 1, requests[s].at + Life))
        PROVE  Core'
    <3>1. /\ requests[s].kind = "rotate" /\ RotateInv(requests[s])
          /\ node.status = "active" /\ node.current = requests[s].auth
          /\ node.current # requests[s].new
      BY <1>2, <2>1, <1>c, Zenon DEF RotateCommit, RotateVerdict, Authenticates, IsCurrent, RequestInv
    <3>2. requests[s].new \in 1..minted /\ requests[s].new \notin held
      BY <3>1, Zenon DEF RotateInv
    <3>3. /\ node'.status = "active" /\ node'.current = requests[s].new
          /\ node'.gen = node.gen + 1 /\ node'.expires = requests[s].at + Life
          /\ node'.previous = node.current
      BY <2>1, <3>1, NodeUpdates, Zenon
    <3>4. node.current <= minted
      BY <3>1, <1>c, Positive, Zenon DEF BearerInv
    <3>5. PICK e \in Times : e = requests[s].at + Life
      BY TimeFacts, Zenon DEF TypeOK, RequestRecords
    <3>6. \A token \in 1..issued : Unused(token)' => requests[s].kind = "rotate" /\ Unused(token)
      BY <2>0, <3>1, Zenon DEF Unused
    <3> QED
      BY <1>c, <2>0, <2>1, <3>1, <3>2, <3>3, <3>4, <3>5, <3>6, AdvanceStep, Zenon DEF Core
  <2>2. ASSUME RotateVerdict(requests[s]) # "rotate", UNCHANGED <<node, held>>,
               Answer(s, CASE RotateVerdict(requests[s]) = "unauthorized" -> Unauthorized
                           [] RotateVerdict(requests[s]) = "conflict" -> Failed
                           [] RotateVerdict(requests[s]) = "replay" -> RotateAnswer(requests[s]))
        PROVE  Core'
    <3>1. CASE RotateVerdict(requests[s]) = "unauthorized"
      BY <2>0, <2>2, <3>1, <1>a, <1>i, Zenon
    <3>2. CASE RotateVerdict(requests[s]) = "conflict"
      BY <2>0, <2>2, <3>2, <1>a, <1>i, Zenon
    <3>3. CASE RotateVerdict(requests[s]) = "replay"
      <4>1. node.status = "active" /\ node.current = requests[s].new
        BY <3>3, Zenon DEF RotateVerdict, Authenticates
      <4>2. Answer(s, RotateAnswer(requests[s]))
        BY <2>2, <3>3, Zenon
      <4>3. CASE requests[s].at < node.expires
        <5>1. node.gen \in Nat /\ node.expires \in Times
          BY Zenon DEF TypeOK, NodeRecords
        <5>2. PICK a \in Replies :
                 /\ a = Credential(node.gen, node.expires) /\ a.kind = "ok"
                 /\ a.gen = node.gen /\ a.expires = node.expires
          BY <5>1, IdleFacts
        <5>3. Answer(s, a)
          BY <4>2, <4>3, <5>2, Zenon DEF RotateAnswer
        <5> QED
          BY <2>0, <2>2, <4>1, <5>2, <5>3, <1>a, Zenon
      <4>4. CASE ~(requests[s].at < node.expires)
        <5>1. Answer(s, Failed)
          BY <4>2, <4>4, Zenon DEF RotateAnswer
        <5> QED
          BY <2>0, <2>2, <5>1, <1>a, <1>i, Zenon
      <4> QED
        BY <4>3, <4>4, Zenon
    <3> QED
      BY <2>2, <3>1, <3>2, <3>3, Zenon DEF RotateVerdict
  <2> QED
    BY <1>2, <2>1, <2>2, Zenon DEF RotateCommit
<1>3. CASE RecoverPreflight(s)
  <2>1. UNCHANGED <<node, agent, op, minted, issued, held, recoveries>>
    BY <1>3, Zenon DEF RecoverPreflight
  <2> QED
    BY <1>3, <2>1, <1>a, <1>p, <1>k, <1>i, Zenon DEF RecoverPreflight
<1>4. CASE RecoverClaim(s)
  <2>0. UNCHANGED <<node, agent, op, minted, issued, held>>
    BY <1>4, Zenon DEF RecoverClaim
  <2>1. CASE Answer(s, Unauthorized) /\ UNCHANGED recoveries
    BY <2>0, <2>1, <1>a, <1>k, <1>i, Zenon
  <2>2. ASSUME NEW r \in recoveries, RecoverClaimOf(s, r), node.status = "active" PROVE Core'
    <3>1. CASE Answer(s, Unauthorized) /\ UNCHANGED recoveries
      BY <2>1, <3>1, Zenon
    <3>2. CASE Answer(s, Failed) /\ UNCHANGED recoveries
      BY <2>0, <3>2, <1>a, <1>k, <1>i, Zenon
    <3>3. CASE /\ r.used /\ Replays(r, requests[s])
               /\ Answer(s, Credential(r.gen, r.credential)) /\ UNCHANGED recoveries
      <4>1. PICK a \in Replies :
               /\ a = Credential(r.gen, r.credential) /\ a.kind = "ok"
               /\ a.gen = r.gen /\ a.expires = r.credential
        BY IdleFacts DEF TypeOK, RecoveryRecords
      <4>2. Answer(s, a) /\ a.gen = node.gen /\ a.expires = node.expires
            /\ node.current = requests[s].new
        BY <3>3, <4>1, Zenon DEF Replays
      <4> QED
        BY <2>0, <2>2, <3>3, <4>1, <4>2, <1>a, <1>k, Zenon
    <3>4. CASE /\ ~r.used
               /\ recoveries' = (recoveries \ {r}) \cup
                    {[r EXCEPT !.claim = s, !.claimedAt = clock, !.claimNew = requests[s].new,
                               !.claimGen = node.gen]}
               /\ requests' = [requests EXCEPT ![s].phase = "claimed"] /\ UNCHANGED reply
      <4> DEFINE c == [r EXCEPT !.claim = s, !.claimedAt = clock, !.claimNew = requests[s].new,
                                !.claimGen = node.gen]
      <4>1. c.used = r.used /\ c.token = r.token
        BY RecordUpdates, Zenon
      <4>2. recoveries' = (recoveries \ {r}) \cup {c}
        BY <3>4, Zenon
      <4> HIDE DEF c
      <4>3. TokensKept
        BY <4>1, <4>2, <3>4, Zenon DEF TokensKept, Unused
      <4> QED
        BY <2>0, <3>4, <4>3, <1>p, Zenon
    <3> QED
      BY <2>2, <3>1, <3>2, <3>3, <3>4, Zenon DEF RecoverClaimOf
  <2> QED
    BY <1>4, <2>1, <2>2, Zenon DEF RecoverClaim, Selected, TypeOK, NodeRecords
<1>5. CASE RecoverCommit(s)
  <2>0. UNCHANGED <<agent, op, minted, issued>> /\ requests[s].kind = "recover"
    BY <1>5, Zenon DEF RecoverCommit
  <2>1. CASE /\ requests' = [requests EXCEPT ![s].phase =
                   IF \E r \in recoveries : ClaimStands(s, r) THEN "conflicted" ELSE "refused"]
             /\ UNCHANGED <<node, recoveries, reply, held>>
    BY <2>0, <2>1, <1>p, <1>k, Zenon
  <2>2. ASSUME NEW r \in recoveries, ClaimStands(s, r),
               node' = [node EXCEPT !.current = requests[s].new, !.previous = 0, !.grace = 0,
                                    !.expires = clock + Life, !.gen = node.gen + 1],
               recoveries' = {Committed(r)}, held' = held \cup {requests[s].new},
               Answer(s, Credential(node.gen + 1, clock + Life))
        PROVE  Core'
    <3>1. Unused(requests[s].token) /\ node.status = "active"
      BY <2>2, Zenon DEF ClaimStands, Unused
    <3>2. requests[s].new \in 1..minted /\ requests[s].new \notin held
      BY <3>1, <2>0, <1>c, Zenon DEF RequestInv, RecoverInv
    <3>3. /\ node'.status = "active" /\ node'.current = requests[s].new
          /\ node'.gen = node.gen + 1 /\ node'.expires = clock + Life
          /\ node'.previous = 0
      BY <2>2, <3>1, Zenon DEF TypeOK, NodeRecords
    <3>4. 0 <= minted
      BY Fields
    <3>5. PICK e \in Times : e = clock + Life
      BY TimeFacts, Zenon DEF TypeOK
    <3>6. \A token \in 1..issued : ~Unused(token)'
      <4>1. PICK d : d = Committed(r) /\ d.used
        BY RecordUpdates, Zenon
      <4>2. recoveries' = {d}
        BY <2>2, <4>1, Zenon
      <4> QED
        BY <4>1, <4>2, Zenon DEF Unused
    <3> QED
      BY <1>c, <2>0, <2>2, <3>2, <3>3, <3>4, <3>5, <3>6, AdvanceStep, Zenon DEF Core
  <2> QED
    BY <1>5, <2>1, <2>2, Zenon DEF RecoverCommit
<1>6. CASE RecoverRelease(s)
  <2>0. UNCHANGED <<node, agent, op, minted, issued, held>>
    BY <1>6, Zenon DEF RecoverRelease
  <2>1. TokensKept
    <3>1. ASSUME NEW r \in recoveries' PROVE \E q \in recoveries : r.used = q.used /\ r.token = q.token
      <4>1. PICK q \in recoveries : r = q \/ r = Unclaimed(q)
        BY <1>6, <3>1, Zenon DEF RecoverRelease
      <4> QED
        BY <4>1, RecordUpdates, Zenon
    <3> QED
      BY <3>1, Zenon DEF TokensKept, Unused
  <2> QED
    BY <1>6, <2>0, <2>1, <1>a, <1>i, Zenon DEF RecoverRelease
<1>7. CASE LoseRequest(s)
  <2>1. UNCHANGED <<node, agent, op, minted, issued, held, recoveries>>
    BY <1>7, Zenon DEF LoseRequest
  <2> QED
    BY <1>7, <2>1, <1>a, <1>k, <1>i, Zenon DEF LoseRequest
<1> QED
  BY <1>1, <1>2, <1>3, <1>4, <1>5, <1>6, <1>7, Zenon DEF Server
LEMMA OtherStep ==
    ASSUME TypeOK, Records, Core,
           \/ Tick \/ IssueRecovery \/ RotateNodeCertificate \/ RevokeNode
           \/ Abandon \/ CycleSync \/ RotateFinish \/ GiveUp \/ RecoverVerify \/ RecoverConfirm
    PROVE  Core'
<1>c. AdoptedMatches /\ BearerInv /\ RequestInv /\ OpInv /\ ReplyInv
  BY Zenon DEF Core
<1>f. issued \in Nat /\ NoReply.kind = "none"
  BY Fields, IdleFacts, Zenon
<1>q. ASSUME \A s \in Slots : Continues(s),
             \A s \in Slots : requests'[s].waited => op' = op /\ reply'.kind = "none",
             UNCHANGED <<agent, held, minted>>, issued' \in Nat, issued <= issued', TokensKept,
             \/ node' = node
             \/ node'.status = "revoked" /\ node'.current = 0 /\ node'.previous = 0
                /\ node'.gen = node.gen,
             OpInv', ReplyInv'
      PROVE  Core'
  BY <1>c, <1>q, QuietStep, Zenon DEF Core
<1>k. UNCHANGED recoveries \/ recoveries' = {} => TokensKept
  BY Zenon DEF TokensKept, Unused
<1>s. UNCHANGED requests => \A s \in Slots : Continues(s)
  BY Zenon DEF Continues
<1>w. \A s \in Slots : requests[s].waited => reply.kind = "none"
  BY <1>c, Zenon DEF RequestInv, WaitInv
<1>1. CASE Tick \/ RotateNodeCertificate
  <2>1. /\ UNCHANGED <<node, requests, agent, op, reply, minted, issued, held>>
        /\ UNCHANGED recoveries \/ recoveries' = {}
    BY <1>1, Zenon DEF Tick, RotateNodeCertificate
  <2>2. OpInv' /\ ReplyInv'
    BY <1>c, <2>1, Zenon DEF OpInv, ReplyInv
  <2> QED
    BY <2>1, <2>2, <1>f, <1>q, <1>k, <1>s, <1>w
<1>2. CASE IssueRecovery
  <2>1. UNCHANGED <<node, requests, agent, op, reply, minted, held>> /\ issued' = issued + 1
    BY <1>2, Zenon DEF IssueRecovery
  <2>2. OpInv' /\ ReplyInv'
    BY <1>c, <2>1, Zenon DEF OpInv, ReplyInv
  <2>3. TokensKept
    BY <1>2, <1>f DEF IssueRecovery, Retained, TokensKept, Unused
  <2> QED
    BY <2>1, <2>2, <2>3, <1>f, <1>q, <1>s, <1>w
<1>3. CASE RevokeNode
  <2>1. /\ UNCHANGED <<requests, agent, op, reply, minted, issued, held>> /\ recoveries' = {}
        /\ node'.status = "revoked" /\ node'.current = 0 /\ node'.previous = 0
        /\ node'.gen = node.gen
    BY <1>3, Zenon DEF RevokeNode, TypeOK, NodeRecords
  <2>2. OpInv'
    BY <1>c, <2>1, Zenon DEF OpInv
  <2>3. reply.kind = "ok" => agent.pending # 0
    BY <1>c, Zenon DEF OpInv, BearerInv, TypeOK, Ops
  <2>4. ReplyInv'
    BY <1>c, <2>1, <2>3, Zenon DEF ReplyInv
  <2> QED
    BY <2>1, <2>2, <2>4, <1>f, <1>q, <1>k, <1>s, <1>w
<1>4. CASE Abandon
  <2>1. /\ UNCHANGED <<node, recoveries, agent, minted, issued, held>>
        /\ op' = "idle" /\ reply' = NoReply
    BY <1>4, Zenon DEF Abandon
  <2>2. OpInv' /\ ReplyInv'
    BY <2>1, <1>f, Zenon DEF OpInv, ReplyInv
  <2>3. \A s \in Slots : Continues(s) /\ ~requests'[s].waited
    BY <1>4, AbandonFacts, Zenon DEF Continues
  <2> QED
    BY <2>1, <2>2, <2>3, <1>f, <1>q, <1>k
<1>5. CASE CycleSync
  <2>1. /\ UNCHANGED <<node, recoveries, requests, agent, reply, minted, issued, held>>
        /\ op = "idle" /\ op' = "synced" /\ agent.token = 0
    BY <1>5, Zenon DEF CycleSync
  <2>2. OpInv' /\ ReplyInv'
    BY <1>c, <2>1, Zenon DEF OpInv, ReplyInv
  <2>3. \A s \in Slots : ~requests'[s].waited
    BY <1>c, <2>1, NoWaiting, Zenon
  <2> QED
    BY <2>1, <2>2, <2>3, <1>f, <1>q, <1>k, <1>s
<1>6. ASSUME UNCHANGED <<node, recoveries, requests, agent, minted, issued, held>>,
             \/ op' = "idle" /\ reply' = NoReply
             \/ op = "recovering" /\ op' = "confirming" /\ UNCHANGED reply /\ reply.kind = "ok",
             reply.kind # "none"
      PROVE  Core'
  <2>1. \A s \in Slots : ~requests'[s].waited
    BY <1>c, <1>6, NoWaiting, Zenon
  <2>2. CASE op' = "idle" /\ reply' = NoReply
    <3>1. OpInv' /\ ReplyInv'
      BY <2>2, <1>f, Zenon DEF OpInv, ReplyInv
    <3> QED
      BY <1>6, <2>1, <3>1, <1>f, <1>q, <1>k, <1>s
  <2>3. CASE op = "recovering" /\ op' = "confirming" /\ UNCHANGED reply /\ reply.kind = "ok"
    <3>1. OpInv' /\ ReplyInv'
      BY <1>c, <1>6, <2>3, Zenon DEF OpInv, ReplyInv
    <3> QED
      BY <1>6, <2>1, <3>1, <1>f, <1>q, <1>k, <1>s
  <2> QED
    BY <1>6, <2>2, <2>3, Zenon
<1>7. CASE GiveUp
  BY <1>7, <1>6, Zenon DEF GiveUp
<1>8. CASE RecoverVerify
  BY <1>8, <1>6, Zenon DEF RecoverVerify
<1>9. ASSUME reply.kind = "ok", agent.pending # 0,
             agent'.bearer = agent.pending, agent'.pending = 0, agent'.token = 0,
             agent'.gen = reply.gen, agent'.expires = reply.expires,
             op' = "idle", reply' = NoReply,
             UNCHANGED <<node, recoveries, requests, minted, issued, held>>
      PROVE  Core'
  BY <1>c, <1>9, AdoptStep, Zenon DEF Core
<1>10. CASE RotateFinish
  <2>1. /\ reply.kind = "ok" /\ agent.pending # 0 /\ agent.token = 0
        /\ op' = "idle" /\ reply' = NoReply
        /\ UNCHANGED <<node, recoveries, requests, minted, issued, held>>
    BY <1>10, <1>c, Zenon DEF RotateFinish, OpInv
  <2>2. CASE agent' = agent
    BY <2>1, <2>2, <1>6, Zenon
  <2>3. CASE agent' = [agent EXCEPT !.bearer = agent.pending, !.pending = 0,
                                    !.gen = reply.gen, !.expires = reply.expires]
    <3>1. /\ agent'.bearer = agent.pending /\ agent'.pending = 0 /\ agent'.token = 0
          /\ agent'.gen = reply.gen /\ agent'.expires = reply.expires
      BY <2>1, <2>3, AgentUpdates, Zenon
    <3> QED
      BY <2>1, <3>1, <1>9, Zenon
  <2> QED
    BY <1>10, <2>2, <2>3, Zenon DEF RotateFinish
<1>11. CASE RecoverConfirm
  <2>1. /\ reply.kind = "ok" /\ agent.pending # 0
        /\ op' = "idle" /\ reply' = NoReply
        /\ UNCHANGED <<node, recoveries, requests, minted, issued, held>>
    BY <1>11, <1>c, Zenon DEF RecoverConfirm, OpInv, BearerInv
  <2>2. CASE agent' = agent
    BY <2>1, <2>2, <1>6, Zenon
  <2>3. CASE agent' = [bearer |-> agent.pending, pending |-> 0, token |-> 0, advance |-> FALSE,
                       gen |-> reply.gen, expires |-> reply.expires]
    BY <2>1, <2>3, <1>9, Zenon
  <2> QED
    BY <1>11, <2>2, <2>3, Zenon DEF RecoverConfirm
<1> QED
  BY <1>1, <1>2, <1>3, <1>4, <1>5, <1>7, <1>8, <1>10, <1>11, Zenon

LEMMA InvStep ==
    ASSUME AInv, [Next]_vars PROVE AInv'
<1>t. TypeOK /\ Records /\ Core
  BY Zenon DEF AInv
<1>1. CASE Next
  <2>1. TypeOK' /\ Records'
    BY <1>t, <1>1, TypeStep, RecordsStep, Zenon
  <2>2. ASSUME NEW s \in Slots,
               \/ RotateBegin(s) \/ RotateRetry(s) \/ RecoverResume(s)
               \/ \E token \in 1..MaxTokens : RecoverBegin(s, token)
        PROVE  Core'
    BY <1>t, <2>2, SendingStep, Zenon DEF Core
  <2>3. Core'
    BY <1>t, <1>1, <2>2, ServerStep, OtherStep, Zenon DEF Next
  <2> QED
    BY <2>1, <2>3, Zenon DEF AInv
<1>2. CASE UNCHANGED vars
  <2>1. TypeOK' /\ Records'
    BY <1>t, <1>2, Zenon DEF vars, TypeOK, Records, Agrees
  <2>2. AdoptedMatches' /\ BearerInv' /\ OpInv' /\ ReplyInv'
    BY <1>t, <1>2, Zenon DEF vars, Core, AdoptedMatches, BearerInv, OpInv, ReplyInv, Unused
  <2>3. RequestInv'
    BY <1>t, <1>2, Zenon DEF vars, Core, RequestInv, RotateInv, RecoverInv, WaitInv, Unused
  <2> QED
    BY <2>1, <2>2, <2>3, Zenon DEF AInv, Core
<1> QED
  BY <1>1, <1>2, Zenon

LEMMA InvInit == ASSUME Init PROVE AInv
<1>1. TypeOK
  <2>1. 1 \in Bearers /\ 0 \in Bearers /\ 0 \in Tokens /\ 1 \in 1..MaxBearers /\ 0 \in 0..MaxClock
    BY Constants DEF Bearers, Tokens
  <2>2. node \in NodeRecords
    BY <2>1, TimeFacts, Zenon DEF Init, NodeRecords
  <2>3. agent \in AgentRecords
    BY <2>1, TimeFacts, Zenon DEF Init, AgentRecords
  <2> QED
    BY <2>1, <2>2, <2>3, IdleFacts, Zenon DEF Init, TypeOK, Ops
<1>2. Records
  BY Zenon DEF Init, Records
<1>3. AdoptedMatches
  BY Zenon DEF Init, AdoptedMatches
<1>4. BearerInv
  BY DEF Init, BearerInv, Unused
<1>5. RequestInv
  BY IdleFacts, Zenon DEF Init, RequestInv, WaitInv
<1>6. OpInv /\ ReplyInv
  BY IdleFacts, Zenon DEF Init, OpInv, ReplyInv
<1> QED
  BY <1>1, <1>2, <1>3, <1>4, <1>5, <1>6, Zenon DEF AInv, Core

\* The invariant holds for every setting of the constants.
THEOREM CredentialInvariant == Spec => []AInv
<1>1. Init => AInv
  BY InvInit, Zenon
<1>2. AInv /\ [Next]_vars => AInv'
  BY InvStep, Zenon
<1> QED
  BY <1>1, <1>2, PTL DEF Spec
=============================================================================
