----------------------- MODULE AgentCredentialProofs -----------------------
(***************************************************************************)
(* What follows from AInv for any operator: the two ends agree about every *)
(* bearer.  And what no commit, however late, takes from an agent: the     *)
(* secret of its node's credential, and the end of a recovery it began.    *)
(* These two rest on an operator who begins a recovery only when no        *)
(* rotation is pending and supplies the token issued last.                 *)
(***************************************************************************)
EXTENDS AgentCredentialInv, FiniteSetTheorems

\* With an operator who begins a recovery only when no rotation is pending and supplies the
\* newest token, nobody but the agent's own pending bearer can become current.
KeptInv ==
    /\ \A r \in recoveries : ~r.used => r.token = issued
    /\ \A s \in Slots :
         /\ /\ requests[s].kind = "rotate"
            /\ requests[s].auth = node.current /\ requests[s].auth # requests[s].new
            => /\ requests[s].auth = agent.bearer /\ requests[s].new = agent.pending
               /\ agent.token = 0
         /\ requests[s].kind = "recover" /\ Unused(requests[s].token) =>
               agent.token = requests[s].token /\ requests[s].new = agent.pending
    /\ agent.pending # 0 => agent.pending # node.previous
    /\ node.status = "active" =>
         /\ agent.token = 0 => node.current \in {agent.bearer, agent.pending}
         /\ reply.kind = "ok" => node.current = agent.pending

ResumeInv ==
    node.status = "active" /\ agent.token # 0 =>
        /\ IF agent.advance THEN node.gen >= agent.gen
           ELSE node.gen = agent.gen \/ (node.gen = agent.gen + 1 /\ node.current = agent.pending)
        /\ node.current = agent.pending =>
             /\ node.gen > agent.gen
             /\ \A r \in recoveries : r.used => r.token = agent.token /\ r.gen = node.gen

BInv == KeptInv /\ SecretKept /\ ResumeInv
-----------------------------------------------------------------------------
LEMMA KeptFields ==
    ASSUME AInv
    PROVE  /\ issued \in Nat /\ minted \in Nat /\ clock \in Nat
           /\ agent.pending \in Nat /\ agent.token \in Nat /\ agent.bearer # 0
           /\ agent.bearer \in held /\ agent.bearer # agent.pending /\ agent.gen \in Nat
           /\ node.gen \in Nat /\ node.expires \in Nat /\ node.previous \in Nat
           /\ node.status \in {"active", "revoked"}
           /\ node.status = "active" => node.current \in held
           /\ node.status = "revoked" => node.current = 0
           /\ 0 \notin held /\ minted + 1 \notin held
           /\ agent.token # 0 => agent.pending # 0
           /\ \A s \in Slots : requests[s].kind \in {"none", "rotate", "recover"}
           /\ \A s \in Slots : requests[s].kind = "rotate" => RotateInv(requests[s])
           /\ \A s \in Slots : requests[s].kind = "recover" => RecoverInv(requests[s])
           /\ \A s \in Slots : requests[s].waited => requests[s].new = agent.pending
<1>1. TypeOK /\ BearerInv /\ RequestInv
  BY Zenon DEF AInv, Core
<1>2. /\ issued \in Nat /\ minted \in Nat /\ clock \in Nat
      /\ agent.pending \in Nat /\ agent.token \in Nat /\ agent.gen \in Nat
      /\ node.gen \in Nat /\ node.expires \in Nat /\ node.previous \in Nat
      /\ node.status \in {"active", "revoked"}
      /\ \A s \in Slots : requests[s].kind \in {"none", "rotate", "recover"}
  BY <1>1, Fields, Zenon
<1>3. agent.bearer # 0 /\ 0 \notin held /\ minted + 1 \notin held
  BY <1>1, Positive, Zenon
<1>4. /\ agent.bearer \in held /\ agent.bearer # agent.pending
      /\ node.status = "active" => node.current \in held
      /\ node.status = "revoked" => node.current = 0
      /\ agent.token # 0 => agent.pending # 0
  BY <1>1, Zenon DEF BearerInv
<1>5. /\ \A s \in Slots : requests[s].kind = "rotate" => RotateInv(requests[s])
      /\ \A s \in Slots : requests[s].kind = "recover" => RecoverInv(requests[s])
      /\ \A s \in Slots : requests[s].waited => requests[s].new = agent.pending
  BY <1>1, Zenon DEF RequestInv, WaitInv
<1> QED
  BY <1>2, <1>3, <1>4, <1>5, Zenon

\* Steps after which the node's bearer, the agent's and the requests are what they were.
LEMMA KeptQuiet ==
    ASSUME AInv, BInv, \A s \in Slots : Continues(s), UNCHANGED agent,
           clock <= clock', clock' \in Nat, TokensKept,
           \/ node' = node
           \/ node'.status = "revoked" /\ node'.current = 0 /\ node'.previous = 0,
           \A r \in recoveries' : ~r.used => r.token = issued',
           \A r \in recoveries' : r.used =>
              \E q \in recoveries : q.used /\ q.token = r.token /\ q.gen = r.gen,
           reply'.kind = "ok" /\ node'.status = "active" => node.current = agent.pending
    PROVE  BInv'
<1>k. KeptInv /\ SecretKept /\ ResumeInv
  BY Zenon DEF BInv
<1>n. /\ node'.current = node.current \/ node'.current = 0
      /\ node'.status = "active" => node' = node
      /\ node'.previous = node.previous \/ node'.previous = 0
  BY Zenon
<1>1. KeptInv'
  <2>1. ASSUME NEW s \in Slots, requests'[s].kind = "rotate",
               requests'[s].auth = node'.current, requests'[s].auth # requests'[s].new
        PROVE  requests'[s].auth = agent.bearer /\ requests'[s].new = agent.pending /\ agent.token = 0
    <3>1. /\ requests[s].kind = "rotate" /\ requests'[s].auth = requests[s].auth
          /\ requests'[s].new = requests[s].new
      BY <2>1, Zenon DEF Continues
    <3>2. requests[s].auth \in 1..minted /\ minted \in Nat
      BY <3>1, KeptFields, Zenon DEF RotateInv
    <3>3. requests[s].auth # 0
      BY <3>2
    <3> QED
      BY <2>1, <3>1, <3>3, <1>n, <1>k, Zenon DEF KeptInv
  <2>2. ASSUME NEW s \in Slots, requests'[s].kind = "recover", Unused(requests[s].token)'
        PROVE  agent.token = requests'[s].token /\ requests'[s].new = agent.pending
    <3>1. /\ requests[s].kind = "recover" /\ requests'[s].token = requests[s].token
          /\ requests'[s].new = requests[s].new
      BY <2>2, Zenon DEF Continues
    <3>2. PICK token : token = requests[s].token
      BY Zenon
    <3>3. token \in 1..issued /\ Unused(token)'
      BY <3>1, <3>2, <2>2, KeptFields, Zenon DEF RecoverInv
    <3>4. Unused(requests[s].token)
      BY <3>2, <3>3, Zenon DEF TokensKept
    <3> QED
      BY <3>1, <3>4, <1>k, Zenon DEF KeptInv
  <2>3. agent.pending # 0 => agent.pending # node'.previous
    BY <1>n, <1>k, Zenon DEF KeptInv
  <2>4. node'.status = "active" =>
          /\ agent.token = 0 => node'.current \in {agent.bearer, agent.pending}
          /\ reply'.kind = "ok" => node'.current = agent.pending
    BY <1>n, <1>k, Zenon DEF KeptInv
  <2> QED
    BY <2>1, <2>2, <2>3, <2>4, Zenon DEF KeptInv
<1>2. SecretKept'
  BY <1>n, <1>k, KeptFields DEF SecretKept
<1>3. ResumeInv'
  BY <1>n, <1>k DEF ResumeInv
<1> QED
  BY <1>1, <1>2, <1>3, Zenon DEF BInv
\* The bearer that becomes current is the agent's pending one.
LEMMA KeptAdvance ==
    ASSUME AInv, BInv, NEW s \in Slots, NEW a \in Replies, Answer(s, a),
           agent.pending # 0, agent.pending \notin held,
           node'.current = agent.pending, node'.status = "active",
           node'.previous # agent.pending, UNCHANGED <<agent, issued>>,
           \A r \in recoveries' : ~r.used => r \in recoveries, ResumeInv'
    PROVE  BInv'
<1>k. KeptInv /\ SecretKept
  BY Zenon DEF BInv
<1>a. requests'[s].kind = "none" /\ \A t \in Slots \ {s} : requests'[t] = requests[t]
  BY AnswerFacts, IdleFacts, Zenon DEF AInv
<1>1. ASSUME NEW t \in Slots, requests'[t].kind = "rotate",
             requests'[t].auth = node'.current, requests'[t].auth # requests'[t].new
      PROVE  FALSE
  <2>1. requests'[t] = requests[t] /\ requests[t].kind = "rotate"
    BY <1>1, <1>a, Zenon
  <2> QED
    BY <1>1, <2>1, KeptFields, Zenon DEF RotateInv
<1>2. ASSUME NEW t \in Slots, requests'[t].kind = "recover", Unused(requests[t].token)'
      PROVE  agent.token = requests'[t].token /\ requests'[t].new = agent.pending
  <2>1. requests'[t] = requests[t] /\ requests[t].kind = "recover"
    BY <1>2, <1>a, Zenon
  <2>2. Unused(requests[t].token)
    BY <1>2, <2>1, Zenon DEF Unused
  <2> QED
    BY <2>1, <2>2, <1>k, Zenon DEF KeptInv
<1>3. KeptInv'
  BY <1>1, <1>2, <1>k, Zenon DEF KeptInv
<1>4. SecretKept'
  BY Zenon DEF SecretKept
<1> QED
  BY <1>3, <1>4, Zenon DEF BInv

LEMMA KeptServer ==
    ASSUME AInv, BInv, NEW s \in Slots, Server(s) \/ LoseRequest(s) PROVE BInv'
<1>c. TypeOK /\ Records /\ AdoptedMatches /\ BearerInv /\ RequestInv /\ OpInv /\ ReplyInv
  BY Zenon DEF AInv, Core
<1>k. KeptInv /\ ResumeInv
  BY Zenon DEF BInv
<1>q. ASSUME \A t \in Slots : Continues(t), UNCHANGED <<agent, node, clock, issued>>,
             \A r \in recoveries' : \E q \in recoveries :
                 q.used = r.used /\ q.token = r.token /\ (q.used => q.gen = r.gen),
             reply'.kind = "ok" /\ node.status = "active" => node.current = agent.pending
      PROVE  BInv'
  <2>1. TokensKept
    BY <1>q DEF TokensKept, Unused
  <2>2. \A r \in recoveries' : ~r.used => r.token = issued'
    BY <1>q, <1>k DEF KeptInv
  <2>3. clock <= clock' /\ clock' \in Nat
    BY <1>q, KeptFields
  <2> QED
    BY <1>q, <2>1, <2>2, <2>3, KeptQuiet, Zenon
<1>a. ASSUME NEW a \in Replies, Answer(s, a), UNCHANGED <<clock, node, agent, op, issued>>,
             \A r \in recoveries' : \E q \in recoveries :
                 q.used = r.used /\ q.token = r.token /\ (q.used => q.gen = r.gen),
             a.kind = "ok" => node.current = requests[s].new
      PROVE  BInv'
  <2>1. requests[s].waited \/ reply' = reply
    BY <1>a, <1>c, AnswerFacts, Zenon
  <2>2. requests[s].waited => reply' = a /\ requests[s].new = agent.pending
    BY <1>a, <1>c, AnswerFacts, KeptFields, Zenon
  <2>3. reply'.kind = "ok" /\ node.status = "active" => node.current = agent.pending
    BY <2>1, <2>2, <1>a, <1>k, Zenon DEF KeptInv
  <2> QED
    BY <1>a, <1>c, <1>q, <2>3, Continuing, Zenon
<1>p. ASSUME NEW phase \in {"none", "sent", "preflighted", "claimed", "refused", "conflicted"},
             \/ requests' = [requests EXCEPT ![s].phase = phase]
             \/ requests' = [requests EXCEPT ![s].phase = phase, ![s].at = clock],
             UNCHANGED <<clock, node, agent, op, reply, issued>>,
             \A r \in recoveries' : \E q \in recoveries :
                 q.used = r.used /\ q.token = r.token /\ (q.used => q.gen = r.gen)
      PROVE  BInv'
  <2>1. reply'.kind = "ok" /\ node.status = "active" => node.current = agent.pending
    BY <1>p, <1>k, Zenon DEF KeptInv
  <2> QED
    BY <1>p, <1>c, <1>q, <2>1, Continuing, Zenon
<1>r. UNCHANGED recoveries =>
        \A r \in recoveries' : \E q \in recoveries :
            q.used = r.used /\ q.token = r.token /\ (q.used => q.gen = r.gen)
  BY Zenon
<1>i. /\ Unauthorized \in Replies /\ Unauthorized.kind = "unauthorized"
      /\ Failed \in Replies /\ Failed.kind = "error"
  BY IdleFacts, Zenon
<1>1. CASE RotatePreflight(s)
  <2>1. UNCHANGED <<clock, node, agent, op, issued, recoveries>>
    BY <1>1, Zenon DEF RotatePreflight
  <2> QED
    BY <1>1, <2>1, <1>a, <1>p, <1>r, <1>i, Zenon DEF RotatePreflight
<1>2. CASE RotateCommit(s)
  <2>0. UNCHANGED <<clock, agent, op, issued, recoveries>>
    BY <1>2, Zenon DEF RotateCommit
  <2>1. ASSUME RotateVerdict(requests[s]) = "rotate", node' = Rotated(requests[s]),
               Answer(s, Credential(node.gen + 1, requests[s].at + Life))
        PROVE  BInv'
    <3>1. /\ requests[s].kind = "rotate" /\ RotateInv(requests[s])
          /\ node.status = "active" /\ node.current = requests[s].auth
          /\ node.current # requests[s].new
      BY <1>2, <2>1, KeptFields, Zenon DEF RotateCommit, RotateVerdict, Authenticates, IsCurrent
    <3>2. /\ requests[s].auth = agent.bearer /\ requests[s].new = agent.pending
          /\ agent.token = 0
      BY <3>1, <1>k, Zenon DEF KeptInv
    <3>3. agent.pending # 0 /\ agent.pending \notin held /\ agent.bearer # agent.pending
      BY <3>1, <3>2, KeptFields DEF RotateInv
    <3>4. /\ node'.status = "active" /\ node'.current = agent.pending
          /\ node'.previous = agent.bearer
      BY <2>1, <3>1, <3>2, <1>c, NodeUpdates, Zenon
    <3>5. ResumeInv'
      BY <2>0, <3>2, Zenon DEF ResumeInv
    <3>6. PICK a \in Replies : a = Credential(node.gen + 1, requests[s].at + Life)
      <4>1. requests[s].at + Life \in Times /\ node.gen + 1 \in Nat
        BY <1>c, TimeFacts, KeptFields DEF TypeOK, RequestRecords
      <4> QED
        BY <4>1, IdleFacts, Zenon
    <3> QED
      BY <2>0, <2>1, <3>3, <3>4, <3>5, <3>6, KeptAdvance, Zenon
  <2>2. ASSUME RotateVerdict(requests[s]) # "rotate", UNCHANGED node,
               Answer(s, CASE RotateVerdict(requests[s]) = "unauthorized" -> Unauthorized
                           [] RotateVerdict(requests[s]) = "conflict" -> Failed
                           [] RotateVerdict(requests[s]) = "replay" -> RotateAnswer(requests[s]))
        PROVE  BInv'
    <3>1. CASE RotateVerdict(requests[s]) = "unauthorized"
      BY <2>0, <2>2, <3>1, <1>a, <1>r, <1>i, Zenon
    <3>2. CASE RotateVerdict(requests[s]) = "conflict"
      BY <2>0, <2>2, <3>2, <1>a, <1>r, <1>i, Zenon
    <3>3. CASE RotateVerdict(requests[s]) = "replay"
      <4>1. node.current = requests[s].new /\ Answer(s, RotateAnswer(requests[s]))
        BY <2>2, <3>3, Zenon DEF RotateVerdict
      <4>2. PICK a \in Replies : a = RotateAnswer(requests[s])
        <5>1. node.gen \in Nat /\ node.expires \in Times
          BY <1>c, Zenon DEF TypeOK, NodeRecords
        <5> QED
          BY <5>1, IdleFacts, Zenon DEF RotateAnswer
      <4> QED
        BY <2>0, <2>2, <4>1, <4>2, <1>a, <1>r, Zenon
    <3> QED
      BY <2>2, <3>1, <3>2, <3>3, Zenon DEF RotateVerdict
  <2> QED
    BY <1>2, <2>1, <2>2, Zenon DEF RotateCommit
<1>3. CASE RecoverPreflight(s)
  <2>1. UNCHANGED <<clock, node, agent, op, issued, recoveries>>
    BY <1>3, Zenon DEF RecoverPreflight
  <2> QED
    BY <1>3, <2>1, <1>a, <1>p, <1>r, <1>i, Zenon DEF RecoverPreflight
<1>4. CASE RecoverClaim(s)
  <2>0. UNCHANGED <<clock, node, agent, op, issued>>
    BY <1>4, Zenon DEF RecoverClaim
  <2>1. CASE Answer(s, Unauthorized) /\ UNCHANGED recoveries
    BY <2>0, <2>1, <1>a, <1>r, <1>i, Zenon
  <2>2. ASSUME NEW r \in recoveries, RecoverClaimOf(s, r) PROVE BInv'
    <3>1. CASE Answer(s, Unauthorized) /\ UNCHANGED recoveries
      BY <2>1, <3>1, Zenon
    <3>2. CASE Answer(s, Failed) /\ UNCHANGED recoveries
      BY <2>0, <3>2, <1>a, <1>r, <1>i, Zenon
    <3>3. CASE /\ Replays(r, requests[s])
               /\ Answer(s, Credential(r.gen, r.credential)) /\ UNCHANGED recoveries
      <4>1. PICK a \in Replies : a = Credential(r.gen, r.credential)
        BY <1>c, IdleFacts, Zenon DEF TypeOK, RecoveryRecords
      <4>2. Answer(s, a) /\ node.current = requests[s].new
        BY <3>3, <4>1, Zenon DEF Replays
      <4> QED
        BY <2>0, <3>3, <4>2, <1>a, <1>r, Zenon
    <3>4. CASE /\ ~r.used
               /\ recoveries' = (recoveries \ {r}) \cup
                    {[r EXCEPT !.claim = s, !.claimedAt = clock, !.claimNew = requests[s].new,
                               !.claimGen = node.gen]}
               /\ requests' = [requests EXCEPT ![s].phase = "claimed"] /\ UNCHANGED reply
      <4> DEFINE c == [r EXCEPT !.claim = s, !.claimedAt = clock, !.claimNew = requests[s].new,
                                !.claimGen = node.gen]
      <4>1. c.used = r.used /\ c.token = r.token
        BY <1>c, RecordUpdates, Zenon
      <4>2. recoveries' = (recoveries \ {r}) \cup {c}
        BY <3>4, Zenon
      <4> HIDE DEF c
      <4>3. \A d \in recoveries' : \E q \in recoveries :
               q.used = d.used /\ q.token = d.token /\ (q.used => q.gen = d.gen)
        BY <4>1, <4>2, <3>4, Zenon
      <4> QED
        BY <2>0, <3>4, <4>3, <1>p, Zenon
    <3> QED
      BY <2>2, <3>1, <3>2, <3>3, <3>4, Zenon DEF RecoverClaimOf
  <2> QED
    BY <1>4, <2>1, <2>2, Zenon DEF RecoverClaim, Selected
<1>5. CASE RecoverCommit(s)
  <2>0. UNCHANGED <<clock, agent, op, issued>> /\ requests[s].kind = "recover"
    BY <1>5, Zenon DEF RecoverCommit
  <2>1. CASE /\ requests' = [requests EXCEPT ![s].phase =
                   IF \E r \in recoveries : ClaimStands(s, r) THEN "conflicted" ELSE "refused"]
             /\ UNCHANGED <<node, recoveries, reply, held>>
    BY <2>0, <2>1, <1>p, <1>r, Zenon
  <2>2. ASSUME NEW r \in recoveries, ClaimStands(s, r),
               node' = [node EXCEPT !.current = requests[s].new, !.previous = 0, !.grace = 0,
                                    !.expires = clock + Life, !.gen = node.gen + 1],
               recoveries' = {Committed(r)},
               Answer(s, Credential(node.gen + 1, clock + Life))
        PROVE  BInv'
    <3>1. /\ Unused(requests[s].token) /\ node.status = "active" /\ r.token = requests[s].token
      BY <2>2, Zenon DEF ClaimStands, Unused
    <3>2. /\ requests[s].new \in 1..minted /\ requests[s].new \notin held
          /\ agent.token = requests[s].token /\ requests[s].new = agent.pending
          /\ requests[s].token \in 1..issued
      BY <3>1, <2>0, <1>k, KeptFields, Zenon DEF KeptInv, RecoverInv
    <3>3. agent.pending # 0 /\ agent.pending \notin held
      BY <3>2, KeptFields
    <3>4. /\ node'.status = "active" /\ node'.current = agent.pending
          /\ node'.gen = node.gen + 1 /\ node'.previous = 0
      BY <2>2, <3>1, <3>2, <1>c, Zenon DEF TypeOK, NodeRecords
    <3>5. PICK d : d = Committed(r)
      BY Zenon
    <3>d. d.used /\ d.token = agent.token /\ d.gen = node'.gen
      BY <2>2, <3>1, <3>2, <3>4, <3>5, <1>c, RecordUpdates, Zenon
    <3>e. recoveries' = {d}
      BY <2>2, <3>5, Zenon
    <3>6. agent.token # 0 /\ node.current # agent.pending
      <4>1. requests[s].token # 0
        BY <3>2, KeptFields
      <4> QED
        BY <4>1, <3>1, <3>2, <3>3, KeptFields, ZenonT(40)
    <3>7. ResumeInv'
      <4>1. /\ node.gen \in Nat /\ agent.gen \in Nat
            /\ IF agent.advance THEN node.gen >= agent.gen ELSE node.gen = agent.gen
        BY <3>1, <3>6, <1>k, KeptFields, Zenon DEF ResumeInv
      <4>2. /\ IF agent.advance THEN node.gen + 1 >= agent.gen ELSE node.gen + 1 = agent.gen + 1
            /\ node.gen + 1 > agent.gen
        BY <4>1
      <4>3. \A q \in recoveries' : q.used => q.token = agent.token /\ q.gen = node'.gen
        BY <3>d, <3>e, Zenon
      <4>4. /\ IF agent.advance THEN node'.gen >= agent.gen
               ELSE node'.gen = agent.gen \/ (node'.gen = agent.gen + 1 /\ node'.current = agent.pending)
            /\ node'.gen > agent.gen
        BY <4>2, <3>4, Zenon
      <4> QED
        BY <2>0, <4>3, <4>4, Zenon DEF ResumeInv
    <3>8. PICK a \in Replies : a = Credential(node.gen + 1, clock + Life)
      <4>1. clock + Life \in Times /\ node.gen + 1 \in Nat
        BY <1>c, TimeFacts, KeptFields DEF TypeOK
      <4> QED
        BY <4>1, IdleFacts, Zenon
    <3>9. node'.previous # agent.pending /\ \A q \in recoveries' : ~q.used => q \in recoveries
      BY <3>3, <3>4, <3>d, <3>e, Zenon
    <3> QED
      BY <2>0, <2>2, <3>3, <3>4, <3>7, <3>8, <3>9, KeptAdvance, Zenon
  <2> QED
    BY <1>5, <2>1, <2>2, Zenon DEF RecoverCommit
<1>6. CASE RecoverRelease(s)
  <2>0. UNCHANGED <<clock, node, agent, op, issued>>
    BY <1>6, Zenon DEF RecoverRelease
  <2>1. ASSUME NEW d \in recoveries'
        PROVE  \E q \in recoveries : q.used = d.used /\ q.token = d.token /\ (q.used => q.gen = d.gen)
    <3>1. PICK q \in recoveries : d = q \/ (d = Unclaimed(q) /\ ~q.used)
      BY <1>6, <2>1, Zenon DEF RecoverRelease
    <3>2. CASE d = q
      BY <3>2, Zenon
    <3>3. CASE d = Unclaimed(q) /\ ~q.used
      <4>1. d.used = q.used /\ d.token = q.token
        BY <3>3, <1>c, RecordUpdates, Zenon
      <4> QED
        BY <3>3, <4>1, Zenon
    <3> QED
      BY <3>1, <3>2, <3>3, Zenon
  <2> QED
    BY <1>6, <2>0, <2>1, <1>a, <1>i, Zenon DEF RecoverRelease
<1>7. CASE LoseRequest(s)
  <2>1. UNCHANGED <<clock, node, agent, op, issued, recoveries>>
    BY <1>7, Zenon DEF LoseRequest
  <2> QED
    BY <1>7, <2>1, <1>a, <1>r, <1>i, Zenon DEF LoseRequest
<1> QED
  BY <1>1, <1>2, <1>3, <1>4, <1>5, <1>6, <1>7, Zenon DEF Server

\* Nothing is signed and nothing is asked anew: the answer is taken up, or thrown away.
LEMMA KeptRest ==
    ASSUME AInv, BInv, \A s \in Slots : Continues(s), UNCHANGED <<agent, node, recoveries, issued>>,
           clock <= clock', clock' \in Nat, reply' = reply \/ reply' = NoReply
    PROVE  BInv'
<1>1. TokensKept
  BY Zenon DEF TokensKept, Unused
<1>2. \A r \in recoveries' : ~r.used => r.token = issued'
  BY Zenon DEF BInv, KeptInv
<1>3. reply'.kind = "ok" /\ node'.status = "active" => node.current = agent.pending
  BY IdleFacts, Zenon DEF BInv, KeptInv
<1>4. \A r \in recoveries' : r.used =>
         \E q \in recoveries : q.used /\ q.token = r.token /\ q.gen = r.gen
  BY Zenon
<1> QED
  BY <1>1, <1>2, <1>3, <1>4, KeptQuiet, Zenon

\* The agent takes over its pending bearer, which is the node's.
LEMMA KeptAdopt ==
    ASSUME AInv, BInv, reply.kind = "ok", agent.pending # 0,
           agent'.bearer = agent.pending, agent'.pending = 0, agent'.token = 0,
           reply' = NoReply, UNCHANGED <<clock, node, recoveries, requests, issued>>
    PROVE  BInv'
<1>k. KeptInv /\ agent.pending \in held
  BY Zenon DEF BInv, AInv, Core, ReplyInv
<1>1. ASSUME NEW s \in Slots, requests[s].kind = "rotate",
             requests[s].auth = node.current, requests[s].auth # requests[s].new
      PROVE  FALSE
  <2>1. requests[s].new = agent.pending /\ RotateInv(requests[s])
    BY <1>1, <1>k, KeptFields, Zenon DEF KeptInv
  <2> QED
    BY <1>1, <2>1, <1>k, Zenon DEF RotateInv
<1>2. ASSUME NEW s \in Slots, requests[s].kind = "recover", Unused(requests[s].token)
      PROVE  FALSE
  <2>1. requests[s].new = agent.pending /\ RecoverInv(requests[s])
    BY <1>2, <1>k, KeptFields, Zenon DEF KeptInv
  <2> QED
    BY <1>2, <2>1, <1>k, Zenon DEF RecoverInv
<1>3. \A s \in Slots : Unused(requests[s].token)' => Unused(requests[s].token)
  BY Zenon DEF Unused
<1>4. node.status = "active" => node.current = agent.pending
  BY <1>k, Zenon DEF KeptInv
<1>5. KeptInv'
  BY <1>1, <1>2, <1>3, <1>4, <1>k, IdleFacts, Zenon DEF KeptInv
<1>6. SecretKept' /\ ResumeInv'
  BY <1>4, Zenon DEF SecretKept, ResumeInv
<1> QED
  BY <1>5, <1>6, Zenon DEF BInv

\* The agent asks again for what its state file already says.
LEMMA KeptSend ==
    ASSUME AInv, BInv, NEW s \in Slots, NEW q \in RequestRecords, Send(s, q),
           q.kind = "rotate" => q.auth = q.new,
           q.kind = "recover" => q.token = agent.token /\ q.new = agent.pending,
           UNCHANGED <<clock, agent, node, recoveries, issued>>,
           reply' = reply \/ reply' = NoReply
    PROVE  BInv'
<1>k. KeptInv /\ TypeOK
  BY Zenon DEF BInv, AInv
<1>1. requests'[s] = q /\ \A t \in Slots \ {s} : requests'[t] = requests[t]
  BY <1>k, SendFacts, Zenon
<1>2. ASSUME NEW t \in Slots, requests'[t].kind = "rotate",
             requests'[t].auth = node'.current, requests'[t].auth # requests'[t].new
      PROVE  /\ requests'[t].auth = agent'.bearer /\ requests'[t].new = agent'.pending
             /\ agent'.token = 0
  BY <1>1, <1>2, <1>k, ZenonT(40) DEF KeptInv
<1>3. ASSUME NEW t \in Slots, requests'[t].kind = "recover", Unused(requests[t].token)'
      PROVE  agent'.token = requests'[t].token /\ requests'[t].new = agent'.pending
  <2>1. CASE t = s
    BY <2>1, <1>1, <1>3, Zenon
  <2>2. CASE t # s
    <3>1. requests'[t] = requests[t]
      BY <2>2, <1>1, Zenon
    <3>2. Unused(requests[t].token)
      BY <1>3, <3>1, Zenon DEF Unused
    <3> QED
      BY <3>1, <3>2, <1>3, <1>k, Zenon DEF KeptInv
  <2> QED
    BY <2>1, <2>2, Zenon
<1>4. KeptInv'
  BY <1>2, <1>3, <1>k, IdleFacts, Zenon DEF KeptInv
<1>5. SecretKept' /\ ResumeInv'
  BY Zenon DEF BInv, SecretKept, ResumeInv
<1> QED
  BY <1>4, <1>5, Zenon DEF BInv

\* Rotation under the active bearer, for a pending one that is fresh or was kept.
LEMMA KeptRotate ==
    ASSUME AInv, BInv, NEW s \in Slots, RotateBegin(s) PROVE BInv'
<1>k. KeptInv /\ TypeOK /\ BearerInv /\ OpInv
  BY Zenon DEF BInv, AInv, Core
<1>1. /\ agent.token = 0 /\ reply.kind = "none"
      /\ UNCHANGED <<clock, node, recoveries, reply, issued, held>>
  BY <1>k, Zenon DEF RotateBegin, OpInv
<1>2. PICK pending :
         /\ pending = IF agent.pending = 0 THEN minted + 1 ELSE agent.pending
         /\ agent' = [agent EXCEPT !.pending = pending]
         /\ Send(s, Rotation(agent.bearer, pending))
         /\ agent.pending = 0 => minted < MaxBearers
  BY Zenon DEF RotateBegin
<1>b. agent.bearer \in Bearers /\ pending \in Bearers
  <2>1. agent.bearer \in Bearers /\ agent.pending \in Bearers
    BY <1>k, Zenon DEF TypeOK, AgentRecords
  <2>2. minted < MaxBearers => minted + 1 \in Bearers
    BY <1>k, Constants DEF TypeOK, Bearers
  <2> QED
    BY <1>2, <2>1, <2>2, Zenon
<1>3. /\ agent'.bearer = agent.bearer /\ agent'.pending = pending /\ agent'.token = 0
  BY <1>1, <1>2, <1>b, <1>k, AgentUpdates, Zenon
<1>4. PICK q \in RequestRecords :
         /\ Send(s, q) /\ q.kind = "rotate" /\ q.auth = agent.bearer /\ q.new = pending
  <2>1. /\ Rotation(agent.bearer, pending) \in RequestRecords
        /\ Rotation(agent.bearer, pending).kind = "rotate"
        /\ Rotation(agent.bearer, pending).auth = agent.bearer
        /\ Rotation(agent.bearer, pending).new = pending
    BY <1>b, RotationFacts, ZenonT(40)
  <2> QED
    BY <1>2, <2>1, Zenon
<1>5. requests'[s] = q /\ \A t \in Slots \ {s} : requests'[t] = requests[t]
  BY <1>4, <1>k, SendFacts, Zenon
<1>6. ASSUME NEW t \in Slots, requests'[t].kind = "rotate",
             requests'[t].auth = node'.current, requests'[t].auth # requests'[t].new
      PROVE  requests'[t].auth = agent.bearer /\ requests'[t].new = pending
  <2>1. CASE t = s
    BY <2>1, <1>4, <1>5, Zenon
  <2>2. CASE t # s
    <3>1. requests'[t] = requests[t]
      BY <2>2, <1>5, Zenon
    <3>2. /\ requests[t].auth = agent.bearer /\ requests[t].new = agent.pending
          /\ RotateInv(requests[t])
      BY <1>1, <1>6, <3>1, <1>k, KeptFields, Zenon DEF KeptInv
    <3>3. requests[t].new # 0
      BY <3>2, KeptFields DEF RotateInv
    <3> QED
      BY <3>1, <3>2, <3>3, <1>2, Zenon
  <2> QED
    BY <2>1, <2>2, Zenon
<1>7. ASSUME NEW t \in Slots, requests'[t].kind = "recover", Unused(requests[t].token)'
      PROVE  FALSE
  <2>1. t # s /\ requests'[t] = requests[t]
    BY <1>7, <1>4, <1>5, Zenon
  <2>2. Unused(requests[t].token) /\ RecoverInv(requests[t])
    BY <1>1, <1>7, <2>1, KeptFields, Zenon DEF Unused
  <2>3. requests[t].token # 0
    BY <2>2, KeptFields DEF RecoverInv
  <2> QED
    BY <2>1, <2>2, <2>3, <1>1, <1>7, <1>k, Zenon DEF KeptInv
<1>8. pending # 0 => pending # node.previous
  <2>1. minted + 1 # node.previous
    BY <1>k, KeptFields DEF BearerInv
  <2> QED
    BY <2>1, <1>2, <1>k, Zenon DEF KeptInv
<1>9. node.status = "active" => node.current \in {agent.bearer, pending}
  <2>1. node.status = "active" => node.current # 0 /\ node.current \in {agent.bearer, agent.pending}
    BY <1>1, <1>k, KeptFields, Zenon DEF KeptInv
  <2> QED
    BY <2>1, <1>2, Zenon
<1>10. KeptInv'
  BY <1>1, <1>3, <1>6, <1>7, <1>8, <1>9, <1>k, Zenon DEF KeptInv
<1>11. SecretKept' /\ ResumeInv'
  BY <1>1, <1>3, <1>9, Zenon DEF SecretKept, ResumeInv
<1> QED
  BY <1>10, <1>11, Zenon DEF BInv

\* Recovery with the newest token: the bearer it replaces is not the node's.
LEMMA KeptRecover ==
    ASSUME AInv, BInv, OverRotation = FALSE, AnyToken = FALSE,
           NEW s \in Slots, NEW token \in 1..MaxTokens, RecoverBegin(s, token)
    PROVE  BInv'
<1>k. KeptInv /\ SecretKept /\ ResumeInv /\ TypeOK /\ BearerInv /\ OpInv /\ AdoptedMatches
  BY Zenon DEF BInv, AInv, Core
<1>1. /\ token = issued /\ reply.kind = "none" /\ minted < MaxBearers
      /\ UNCHANGED <<clock, node, recoveries, reply, issued, held>>
      /\ Send(s, Recovery(token, minted + 1))
  BY <1>k, Zenon DEF RecoverBegin, OpInv
<1>b. token \in Tokens /\ token # 0 /\ minted + 1 \in Bearers /\ minted + 1 # node.previous
  BY <1>1, <1>k, Constants, KeptFields DEF TypeOK, Tokens, Bearers, BearerInv
<1>2. PICK new : new = minted + 1
  BY Zenon
<1>3. PICK q \in RequestRecords :
         /\ Send(s, q) /\ q.kind = "recover" /\ q.token = token /\ q.new = new
  BY <1>1, <1>b, <1>2, RecoveryFacts, ZenonT(40)
<1>4. requests'[s] = q /\ \A t \in Slots \ {s} : requests'[t] = requests[t]
  BY <1>3, <1>k, SendFacts, Zenon
<1>5. PICK advance \in BOOLEAN :
         /\ agent' = [agent EXCEPT !.token = token, !.pending = new, !.advance = advance]
         /\ advance = (agent.token # 0)
         /\ agent.token = 0 => agent.pending = 0
         /\ agent.token # 0 => token # agent.token /\ ~Authenticates(agent.pending, clock)
  <2>1. CASE RecoverFirst(token)
    BY <2>1, <1>2, Zenon DEF RecoverFirst
  <2>2. CASE replacePendingRecovery(token)
    BY <2>2, <1>2, Zenon DEF replacePendingRecovery
  <2> QED
    BY <2>1, <2>2, Zenon DEF RecoverBegin
<1>6. /\ agent'.bearer = agent.bearer /\ agent'.pending = new /\ agent'.token = token
      /\ agent'.advance = advance /\ agent'.gen = agent.gen
  <2>1. new \in Bearers /\ token \in Tokens /\ agent \in AgentRecords
    BY <1>2, <1>b, <1>k, Zenon DEF TypeOK
  <2>2. agent' = [agent EXCEPT !.token = token, !.pending = new, !.advance = advance]
    BY <1>5, Zenon
  <2> QED
    BY <2>1, <2>2, Zenon DEF AgentRecords
<1>7. ASSUME NEW t \in Slots, requests'[t].kind = "rotate",
             requests'[t].auth = node'.current, requests'[t].auth # requests'[t].new
      PROVE  FALSE
  <2>1. t # s /\ requests'[t] = requests[t]
    BY <1>7, <1>3, <1>4, Zenon
  <2>2. /\ requests[t].new = agent.pending /\ agent.token = 0 /\ RotateInv(requests[t])
    BY <1>1, <1>7, <2>1, <1>k, KeptFields, Zenon DEF KeptInv
  <2>3. requests[t].new # 0
    BY <2>2, KeptFields DEF RotateInv
  <2> QED
    BY <2>2, <2>3, <1>5, Zenon
<1>8. ASSUME NEW t \in Slots, t # s, requests'[t].kind = "recover", Unused(requests[t].token)'
      PROVE  FALSE
  <2>1. requests'[t] = requests[t]
    BY <1>8, <1>4, Zenon
  <2>2. Unused(requests[t].token) /\ RecoverInv(requests[t])
    BY <1>1, <1>8, <2>1, KeptFields, Zenon DEF Unused
  <2>3. requests[t].token # 0
    BY <2>2, KeptFields DEF RecoverInv
  <2>4. agent.token = requests[t].token /\ requests[t].token = issued
    BY <2>1, <2>2, <1>8, <1>k, Zenon DEF KeptInv, Unused
  <2> QED
    BY <2>3, <2>4, <1>1, <1>5, Zenon
<1>9. node.status = "active" => node.current # new /\ node.current # 0
  BY <1>2, KeptFields, Zenon
<1>10. KeptInv'
  <2>1. ASSUME NEW t \in Slots, requests'[t].kind = "recover", Unused(requests[t].token)'
        PROVE  agent'.token = requests'[t].token /\ requests'[t].new = agent'.pending
    BY <2>1, <1>3, <1>4, <1>6, <1>8, Zenon
  <2> QED
    BY <2>1, <1>1, <1>2, <1>b, <1>6, <1>7, <1>k, Zenon DEF KeptInv
<1>11. SecretKept'
  <2>1. ASSUME node.status = "active", clock < node.expires PROVE node.current = agent.bearer
    <3>1. node.current \in {agent.bearer, agent.pending}
      BY <2>1, <1>k, Zenon DEF SecretKept
    <3>2. CASE node.current = agent.pending
      BY <2>1, <3>2, <1>5, <1>9, Zenon DEF Authenticates, Matches, IsCurrent
    <3> QED
      BY <3>1, <3>2, Zenon
  <2> QED
    BY <2>1, <1>1, <1>6, Zenon DEF SecretKept
<1>12. ResumeInv'
  <2>1. ASSUME node.status = "active"
        PROVE  IF advance THEN node.gen >= agent.gen ELSE node.gen = agent.gen
    <3>1. CASE agent.token = 0
      BY <2>1, <3>1, <1>5, <1>9, <1>k, Zenon DEF KeptInv, AdoptedMatches
    <3>2. CASE agent.token # 0
      <4>1. \/ node.gen >= agent.gen
            \/ node.gen = agent.gen
            \/ node.gen = agent.gen + 1
        BY <2>1, <3>2, <1>k, Zenon DEF ResumeInv
      <4>2. node.gen >= agent.gen
        BY <4>1, KeptFields
      <4> QED
        BY <3>2, <4>2, <1>5, Zenon
    <3> QED
      BY <3>1, <3>2, Zenon
  <2> QED
    BY <2>1, <1>1, <1>6, <1>9, Zenon DEF ResumeInv
<1> QED
  BY <1>10, <1>11, <1>12, Zenon DEF BInv

LEMMA KeptInit == Init => BInv
<1> SUFFICES ASSUME Init PROVE BInv
  BY Zenon
<1>1. /\ recoveries = {} /\ reply.kind = "none" /\ node.current = agent.bearer
      /\ agent.pending = 0 /\ agent.token = 0
      /\ \A s \in Slots : requests[s].kind = "none"
  BY Zenon DEF Init, NoReply, Idle
<1> QED
  BY <1>1, Zenon DEF BInv, KeptInv, SecretKept, ResumeInv

LEMMA KeptStep ==
    ASSUME AInv, BInv, OverRotation = FALSE, AnyToken = FALSE, [Next]_vars PROVE BInv'
<1>k. KeptInv /\ TypeOK /\ OpInv
  BY Zenon DEF BInv, AInv, Core
<1>s. UNCHANGED requests => \A s \in Slots : Continues(s)
  BY Zenon DEF Continues
<1>c. UNCHANGED clock => clock <= clock' /\ clock' \in Nat
  BY KeptFields
<1>1. CASE Tick
  <2>1. clock <= clock' /\ clock' \in Nat
    BY <1>1, KeptFields DEF Tick
  <2> QED
    BY <1>1, <2>1, <1>s, KeptRest, Zenon DEF Tick
<1>2. CASE IssueRecovery
  <2>1. /\ UNCHANGED <<clock, node, requests, agent, reply>> /\ issued' = issued + 1
        /\ \A r \in recoveries' : IF r.used THEN r \in recoveries ELSE r.token = issued + 1
    <3>1. PICK f : f = [token |-> issued + 1, expires |-> clock + Ttl, claim |-> 0,
                        claimedAt |-> 0, claimNew |-> 0, claimGen |-> 0, used |-> FALSE,
                        gen |-> 0, credential |-> 0]
      BY Zenon
    <3>2. ~f.used /\ f.token = issued + 1
      BY <3>1, Zenon
    <3>3. recoveries' = {r \in recoveries : r.used} \cup {f}
      BY <1>2, <3>1, Zenon DEF IssueRecovery, Retained
    <3>4. UNCHANGED <<clock, node, requests, agent, reply>> /\ issued' = issued + 1
      BY <1>2, Zenon DEF IssueRecovery
    <3> QED
      BY <3>2, <3>3, <3>4, Zenon
  <2>2. issued + 1 \notin 1..issued
    BY KeptFields
  <2>3. TokensKept
    BY <2>1, <2>2, Zenon DEF TokensKept, Unused
  <2>4. reply'.kind = "ok" /\ node'.status = "active" => node.current = agent.pending
    BY <2>1, <1>k, Zenon DEF KeptInv
  <2>5. \A r \in recoveries' : ~r.used => r.token = issued'
    BY <2>1, Zenon
  <2>6. \A r \in recoveries' : r.used =>
           \E q \in recoveries : q.used /\ q.token = r.token /\ q.gen = r.gen
    BY <2>1, Zenon
  <2> QED
    BY <2>1, <2>3, <2>4, <2>5, <2>6, <1>s, <1>c, KeptQuiet, Zenon
<1>3. ASSUME recoveries' = {}, UNCHANGED <<clock, requests, agent, reply, issued>>,
             \/ node' = node
             \/ node'.status = "revoked" /\ node'.current = 0 /\ node'.previous = 0
      PROVE  BInv'
  <2>1. TokensKept
    BY <1>3, Zenon DEF TokensKept, Unused
  <2>2. reply'.kind = "ok" /\ node'.status = "active" => node.current = agent.pending
    BY <1>3, <1>k, Zenon DEF KeptInv
  <2> QED
    BY <1>3, <2>1, <2>2, <1>s, <1>c, KeptQuiet, Zenon
<1>4. CASE RotateNodeCertificate
  BY <1>3, <1>4, Zenon DEF RotateNodeCertificate
<1>5. CASE RevokeNode
  <2>1. node'.status = "revoked" /\ node'.current = 0 /\ node'.previous = 0
    BY <1>5, <1>k, Zenon DEF RevokeNode, TypeOK, NodeRecords
  <2> QED
    BY <1>3, <1>5, <2>1, Zenon DEF RevokeNode
<1>6. CASE Abandon
  <2>1. \A s \in Slots : Continues(s)
    BY <1>6, <1>k, AbandonFacts, Zenon DEF Continues
  <2> QED
    BY <1>6, <2>1, <1>c, KeptRest, Zenon DEF Abandon
<1>7. CASE CycleSync \/ GiveUp \/ RecoverVerify
  <2>1. /\ UNCHANGED <<clock, node, recoveries, requests, agent, issued>>
        /\ reply' = reply \/ reply' = NoReply
    BY <1>7, Zenon DEF CycleSync, GiveUp, RecoverVerify
  <2> QED
    BY <2>1, <1>s, <1>c, KeptRest, Zenon
<1>8. CASE RotateFinish
  <2>1. /\ UNCHANGED <<clock, node, recoveries, requests, issued>> /\ reply' = NoReply
        /\ reply.kind = "ok" /\ agent.token = 0 /\ agent.pending # 0
    BY <1>8, <1>k, Zenon DEF RotateFinish, OpInv
  <2>2. CASE agent' = agent
    BY <2>1, <2>2, <1>s, <1>c, KeptRest, Zenon
  <2>3. CASE agent' = [agent EXCEPT !.bearer = agent.pending, !.pending = 0,
                                    !.gen = reply.gen, !.expires = reply.expires]
    <3>1. agent'.bearer = agent.pending /\ agent'.pending = 0 /\ agent'.token = 0
      BY <2>1, <2>3, <1>k, AgentUpdates, Zenon
    <3> QED
      BY <2>1, <3>1, KeptAdopt, Zenon
  <2> QED
    BY <1>8, <2>2, <2>3, Zenon DEF RotateFinish
<1>9. CASE RecoverConfirm
  <2>1. /\ UNCHANGED <<clock, node, recoveries, requests, issued>> /\ reply' = NoReply
        /\ reply.kind = "ok" /\ agent.pending # 0
    BY <1>9, <1>k, KeptFields, Zenon DEF RecoverConfirm, OpInv
  <2>2. CASE agent' = agent
    BY <2>1, <2>2, <1>s, <1>c, KeptRest, Zenon
  <2>3. CASE agent' = [bearer |-> agent.pending, pending |-> 0, token |-> 0, advance |-> FALSE,
                       gen |-> reply.gen, expires |-> reply.expires]
    <3>1. agent'.bearer = agent.pending /\ agent'.pending = 0 /\ agent'.token = 0
      BY <2>3, Zenon
    <3> QED
      BY <2>1, <3>1, KeptAdopt, Zenon
  <2> QED
    BY <1>9, <2>2, <2>3, Zenon DEF RecoverConfirm
<1>10. ASSUME NEW s \in Slots, RotateRetry(s) PROVE BInv'
  <2>1. agent.pending \in Bearers
    BY <1>k, Zenon DEF TypeOK, AgentRecords
  <2> QED
    <3>1. PICK q : q = Rotation(agent.pending, agent.pending)
      BY Zenon
    <3>2. q \in RequestRecords /\ q.kind = "rotate" /\ q.auth = q.new
      BY <2>1, <3>1, RotationFacts
    <3> QED
      BY <1>10, <3>1, <3>2, KeptSend, Zenon DEF RotateRetry
<1>11. ASSUME NEW s \in Slots, RecoverResume(s) PROVE BInv'
  <2>1. agent.pending \in Bearers /\ agent.token \in Tokens
    BY <1>k, Zenon DEF TypeOK, AgentRecords
  <2> QED
    BY <1>11, <2>1, RecoveryFacts, KeptSend, Zenon DEF RecoverResume
<1>12. CASE UNCHANGED vars
  BY <1>12, <1>s, <1>c, KeptRest, Zenon DEF vars
<1> QED
  BY <1>1, <1>2, <1>4, <1>5, <1>6, <1>7, <1>8, <1>9, <1>10, <1>11, <1>12,
     KeptServer, KeptRotate, KeptRecover, Zenon DEF Next

-----------------------------------------------------------------------------
\* Of a bearer that became current, the node counts one generation.
Counted == IsFiniteSet(held) /\ node.gen = Cardinality(held)

\* Only the commits of RotateAgentCredential and RecoverAgent make a bearer current, and it
\* is one the node never had.
LEMMA HeldStep ==
    ASSUME AInv, [Next]_vars
    PROVE  \/ held' = held /\ node'.gen = node.gen
           \/ \E b : b \notin held /\ held' = held \cup {b} /\ node'.gen = node.gen + 1
<1> DEFINE Goal == \/ held' = held /\ node'.gen = node.gen
                   \/ \E b : b \notin held /\ held' = held \cup {b} /\ node'.gen = node.gen + 1
<1>c. TypeOK
  BY Zenon DEF AInv
<1>1. ASSUME NEW s \in Slots, RotateCommit(s) PROVE Goal
  <2>1. CASE UNCHANGED <<node, held>>
    BY <2>1, Zenon
  <2>2. ASSUME RotateVerdict(requests[s]) = "rotate", node' = Rotated(requests[s]),
               held' = held \cup {requests[s].new}
        PROVE  Goal
    <3>1. /\ requests[s].auth = node.current /\ node.current # requests[s].new
          /\ RotateInv(requests[s])
      BY <1>1, <2>2, KeptFields, Zenon DEF RotateCommit, RotateVerdict, Authenticates, IsCurrent
    <3>2. requests[s].new \notin held
      BY <3>1, Zenon DEF RotateInv
    <3>3. node'.gen = node.gen + 1
      BY <2>2, <1>c, NodeUpdates, Zenon
    <3> QED
      BY <2>2, <3>2, <3>3, Zenon
  <2> QED
    BY <1>1, <2>1, <2>2, Zenon DEF RotateCommit
<1>2. ASSUME NEW s \in Slots, RecoverCommit(s) PROVE Goal
  <2>1. CASE UNCHANGED <<node, held>>
    BY <2>1, Zenon
  <2>2. ASSUME NEW r \in recoveries, ClaimStands(s, r), held' = held \cup {requests[s].new},
               node' = [node EXCEPT !.current = requests[s].new, !.previous = 0, !.grace = 0,
                                    !.expires = clock + Life, !.gen = node.gen + 1]
        PROVE  Goal
    <3>1. Unused(requests[s].token) /\ RecoverInv(requests[s])
      BY <1>2, <2>2, KeptFields, Zenon DEF RecoverCommit, ClaimStands, Unused
    <3>2. requests[s].new \notin held
      BY <3>1, Zenon DEF RecoverInv
    <3>3. node'.gen = node.gen + 1
      BY <2>2, <1>c, Zenon DEF TypeOK, NodeRecords
    <3> QED
      BY <2>2, <3>2, <3>3, Zenon
  <2> QED
    BY <1>2, <2>1, <2>2, Zenon DEF RecoverCommit
<1>3. CASE RevokeNode
  BY <1>3, <1>c, Zenon DEF RevokeNode, TypeOK, NodeRecords
<1>4. CASE \/ Tick \/ IssueRecovery \/ RotateNodeCertificate \/ Abandon \/ CycleSync
           \/ RotateFinish \/ GiveUp \/ RecoverVerify \/ RecoverConfirm \/ UNCHANGED vars
  BY <1>4, Zenon DEF Tick, IssueRecovery, RotateNodeCertificate, Abandon, CycleSync,
     RotateFinish, GiveUp, RecoverVerify, RecoverConfirm, vars
<1>5. ASSUME NEW s \in Slots,
             \/ RotatePreflight(s) \/ RecoverPreflight(s) \/ RecoverClaim(s) \/ RecoverRelease(s)
             \/ LoseRequest(s) \/ RotateBegin(s) \/ RotateRetry(s) \/ RecoverResume(s)
             \/ \E token \in 1..MaxTokens : RecoverBegin(s, token)
      PROVE  Goal
  BY <1>5, Zenon DEF RotatePreflight, RecoverPreflight, RecoverClaim, RecoverRelease,
     LoseRequest, RotateBegin, RotateRetry, RecoverResume, RecoverBegin
<1> QED
  BY <1>1, <1>2, <1>3, <1>4, <1>5, Zenon DEF Next, Server

\* The two ends agree about every bearer, whatever is lost, late or repeated and whichever
\* tokens the operator uses: RotateAgentCredential and RecoverAgent count a bearer once,
\* what the agent adopted is what they recorded, and validateStateGraph never has reason to
\* refuse a committed recovery.
THEOREM EndsAgree == Spec => []CredentialsMatch
<1>1. Init => Counted
  <2>1. IsFiniteSet({1}) /\ Cardinality({1}) = 1
    BY FS_Singleton, Zenon
  <2>2. Init => held = {1} /\ node.gen = 1
    BY DEF Init
  <2> QED
    BY <2>1, <2>2, Zenon DEF Counted
<1>2. AInv /\ Counted /\ [Next]_vars => Counted'
  <2> SUFFICES ASSUME AInv, Counted, [Next]_vars PROVE Counted'
    BY Zenon
  <2>1. CASE held' = held /\ node'.gen = node.gen
    BY <2>1, Zenon DEF Counted
  <2>2. ASSUME NEW b, b \notin held, held' = held \cup {b}, node'.gen = node.gen + 1
        PROVE  Counted'
    <3>1. IsFiniteSet(held \cup {b}) /\ Cardinality(held \cup {b}) = Cardinality(held) + 1
      BY <2>2, FS_AddElement, Zenon DEF Counted
    <3> QED
      BY <2>2, <3>1, Zenon DEF Counted
  <2> QED
    BY <2>1, <2>2, HeldStep, Zenon
<1>3. AInv /\ Counted => CredentialsMatch
  BY Zenon DEF AInv, Records, Agrees, Core, Counted, CredentialsMatch, RecordsMatchNode
<1> QED
  BY <1>1, <1>2, <1>3, CredentialInvariant, PTL DEF Spec

\* The same operator for both results below: a recovery begins only when no rotation is
\* pending, with the token issued last.
THEOREM BearersKept ==
    ASSUME OverRotation = FALSE, AnyToken = FALSE PROVE Spec => []BInv
<1>1. Init => BInv
  BY KeptInit, Zenon
<1>2. AInv /\ BInv /\ [Next]_vars => BInv'
  BY KeptStep, Zenon
<1> QED
  BY <1>1, <1>2, CredentialInvariant, PTL DEF Spec

\* No commit, however late, hands the node to a bearer that nobody kept: the agent saves a
\* bearer before it sends its hash (RotateCredential, RecoverCredential), probes the pending
\* one before it replaces a journal, and IssueAgentRecovery withdraws older tokens.
THEOREM NoSecretLost ==
    ASSUME OverRotation = FALSE, AnyToken = FALSE PROVE Spec => []SecretKept
<1>1. BInv => SecretKept
  BY Zenon DEF BInv
<1> QED
  BY <1>1, BearersKept, PTL

\* An interrupted recovery whose bearer is the node's can be resumed: RecoverAgent replays
\* the committed result and verifyRecoveredAgentBundle accepts it.
THEOREM RecoveryResumes ==
    ASSUME OverRotation = FALSE, AnyToken = FALSE PROVE Spec => []ResumeFinishes
<1>1. AInv /\ BInv => ResumeFinishes
  <2> SUFFICES ASSUME AInv, BInv, agent.token # 0, Authenticates(agent.pending, clock),
                      NEW r \in recoveries, r.used
               PROVE  /\ r.token = agent.token /\ Replays(r, Recovery(agent.token, agent.pending))
                      /\ ReceiptAccepted(r.gen, r.credential)
    BY Zenon DEF ResumeFinishes
  <2>1. node.status = "active" /\ node.current = agent.pending /\ clock < node.expires
    BY Zenon DEF BInv, KeptInv, Authenticates, Matches, IsCurrent
  <2>2. /\ r.token = agent.token /\ r.gen = node.gen /\ node.gen > agent.gen
        /\ IF agent.advance THEN node.gen >= agent.gen
           ELSE node.gen = agent.gen \/ node.gen = agent.gen + 1
    BY <2>1, Zenon DEF BInv, ResumeInv
  <2>3. r.credential = node.expires /\ r.claimNew = node.current
    BY <2>2, Zenon DEF AInv, Records, Agrees
  <2>4. Recovery(agent.token, agent.pending).new = agent.pending
    BY Zenon DEF Recovery
  <2>5. IF agent.advance THEN node.gen > agent.gen ELSE node.gen = agent.gen + 1
    BY <2>2, KeptFields
  <2>6. node.expires > clock
    BY <2>1, KeptFields, Zenon
  <2> QED
    BY <2>1, <2>2, <2>3, <2>4, <2>5, <2>6, Zenon DEF Replays, ReceiptAccepted
<1> QED
  BY <1>1, BearersKept, CredentialInvariant, PTL
=============================================================================
