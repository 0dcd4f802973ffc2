------------------------------ MODULE Identity ------------------------------
(***************************************************************************)
(* Administrator identity: the sessions, login attempts, recovery          *)
(* ("break-glass") codes, desktop authorizations and audit events of       *)
(* internal/identity, kept in one document by a file or a PostgreSQL       *)
(* store, and the HTTP handlers of internal/httpapi that use them.         *)
(*                                                                         *)
(* A handler is a process: each of its store calls is one step, and the    *)
(* time a call is given was read from the clock at some moment since the   *)
(* previous step, so it may already be old when the call gets the lock.    *)
(* The server may stop at any moment and come back with another policy;    *)
(* a document whose rename was not synced may then be the older one.       *)
(***************************************************************************)
EXTENDS Integers, FiniteSets, TLC

CONSTANTS
    Requests,     \* HTTP requests being served at the same time
    Codes,        \* recovery-code identifiers an operator may use
    Users,        \* subjects the OIDC provider may authenticate
    Roles,        \* the role each user is bound to, "none" without a binding
    Policies,     \* identity configurations an operator may start the server with
    Scenes,       \* starting points: the store, its maxIdentityAuditEvents, the OIDC
                  \* flow's MaxConcurrentCompletions, what is under way, and the
                  \* routes clients use
    MaxTime,      \* the clock stops here
    MaxCalls,     \* requests made
    MaxFaults,    \* failed writes, failed syncs, failed discoveries, restarts
    MaxSessions   \* maxSessions

VARIABLES
    doc,       \* the document the store serves
    older,     \* what a crash may bring back: doc itself once the rename is synced
    scene,     \* the starting point chosen, with the store's backend
    policy,    \* the running server's identity policy, NoPolicy when it is down
    provider,  \* cached OIDC provider bundle: "none", "asking" or "ready"
    bucket,    \* tokens left to each kind of rate-limited route
    now,
    work,      \* request -> what it is doing
    calls, faults,
    issued,    \* history: how many sessions, attempts and desktop requests were made
    held,      \* history: sessions handed to a client, with the grant they used
    closed     \* history: sessions whose revocation was acknowledged

vars == <<doc, older, scene, policy, provider, bucket, now, work, calls,
          faults, issued, held, closed>>

-----------------------------------------------------------------------------
(* Configuration. *)

\* Durations, in ticks of the clock.  A recovery session is shorter.
IdleTTL == 2
AbsoluteTTL == 3
TouchInterval == 1
LoginAttemptTTL == 2
DesktopLifetime == 2
DesktopGrace == 1
CodeLifetime == 3
\* The sign-on routes' burst and slots.
Burst == 1
Slots == 2
Full == [kind \in {"start", "callback"} |-> Burst]

NoPolicy == [mode |-> "down", browser |-> FALSE, bearer |-> FALSE, codes |-> FALSE]

\* normalizeOIDC: an access policy names somebody.
normalizeOIDC == \E u \in Users : Roles[u] # "none"

\* IdentityConfig.Normalized: which combinations are a policy at all.
Normalized(c) ==
    CASE c.mode = "legacy-token" -> c.bearer /\ ~c.codes
      [] c.mode = "hybrid" -> c.bearer /\ normalizeOIDC
      [] c.mode = "oidc" -> ~c.bearer /\ ~c.browser /\ c.codes /\ normalizeOIDC

\* A policy's fingerprint covers all it says, so a session of another policy
\* is a session of another fingerprint.
PolicyFingerprint(c) == c

\* breakGlassCodeState
CodeState(c, t) ==
    CASE c.used -> "used"
      [] c.revoked -> "revoked"
      [] ~c.used /\ ~c.revoked /\ t >= c.expires -> "expired"
      [] OTHER -> "usable"

CountUsableBreakGlassCodes(d, t) ==
    Cardinality({c \in d.codes : CodeState(c, t) = "usable"})

\* MinimumUsableCodes; the code's floor is two.
MinimumUsableCodes == 1

NoPrincipal == [kind |-> "none", id |-> "none"]

\* validateState: what every document the store commits or opens satisfies.
distinct(records) == \A a, b \in records : a.id = b.id => a = b
validateSession(s) == s.seen < s.idle /\ s.idle =< s.absolute /\ s.version > 0
validateDesktop(r) == (r.state = "pending") <=> (r.principal = NoPrincipal)
validateState(d) ==
    /\ Cardinality(d.sessions) =< MaxSessions /\ Cardinality(d.audit) =< scene.events
    /\ distinct(d.attempts) /\ distinct(d.sessions) /\ distinct(d.codes) /\ distinct(d.desktops)
    /\ \A s \in d.sessions : validateSession(s)
    /\ \A c \in d.codes : ~(c.used /\ c.revoked)
    /\ \A r \in d.desktops : validateDesktop(r)

\* OpenFileStore: the store opens only over a document that validates.
OpenFileStore(d) == validateState(d)

\* httpapi.New: a server over the policy starts.
Starts(c, d, t) ==
    /\ Normalized(c) /\ OpenFileStore(d)
    /\ c.mode = "oidc" => CountUsableBreakGlassCodes(d, t) >= MinimumUsableCodes

OIDCEnabled(c) == c.mode \in {"hybrid", "oidc"}

sessionTTLs(kind) == IF kind = "break_glass" THEN <<1, 2>> ELSE <<IdleTTL, AbsoluteTTL>>

-----------------------------------------------------------------------------
(* Principals and what they may do. *)

NewLegacyPrincipal == [kind |-> "legacy_admin", id |-> "legacy"]
NewBreakGlassPrincipal(c) == [kind |-> "break_glass", id |-> c]
NewOIDCPrincipal(u) == [kind |-> "oidc_admin", id |-> u]

RoleForPrincipal(p, c) ==
    IF p.kind # "oidc_admin" THEN "admin"
    ELSE IF OIDCEnabled(c) THEN Roles[p.id] ELSE "none"

RoleAllows(role, permission) ==
    permission \in CASE role = "viewer" -> {"session", "read"}
                     [] role = "operator" -> {"session", "read", "write"}
                     [] role = "admin" -> {"session", "read", "write", "security",
                                           "identity", "audit"}
                     [] OTHER -> {}

\* Which permission each administrator route asks for, by group of handlers.
\* "session" stands for routes that only need an authenticated administrator.
Asks(permission, routes) == [route \in routes |-> permission]

SessionRoutes == Asks("session", {"session", "logout", "desktopDecision"})
IdentityRoutes == Asks("identity", {"listBreakGlassCodes", "registerCode", "revokeCode",
                                    "listSessions", "revokeSession"})
NetworkRoutes ==
    Asks("read", {"listNetworks", "getFleetHealthCollection", "getRuntimeTelemetryCollection",
                  "getFleetHealth", "getNetworkReadiness", "installGuide"})
    @@ Asks("write", {"createNetwork"}) @@ Asks("security", {"retireNetwork"})
PolicyRoutes ==
    Asks("read", {"getNetworkDNS", "getNetworkRoutePolicies", "getNetworkRelays",
                  "getNetworkCARotation", "getNetworkFirewallRollout"})
    @@ Asks("write", {"updateNetworkRoutePolicy", "updateNetworkDNS", "updateNetworkRelays"})
    @@ Asks("security", {"updateNetworkCARotation"})
TransferRoutes ==
    Asks("read", {"getNetworkRouteTransfer", "getNodeRouteProfileEdit"})
    @@ Asks("write", {"updateNetworkFirewallRollout", "startNetworkRouteTransfer",
                      "advanceNetworkRouteTransfer", "cancelNetworkRouteTransfer",
                      "startNodeRouteProfileEdit", "advanceNodeRouteProfileEdit",
                      "cancelNodeRouteProfileEdit"})
NodeRoutes ==
    Asks("read", {"getFirewallPolicy", "listNodes"})
    @@ Asks("write", {"previewFirewallPolicy", "updateFirewallPolicy", "createNode",
                      "updateNodeTopology", "reissueEnrollment", "cancelPendingEnrollment"})
    @@ Asks("security", {"issueAgentRecovery"})
NodeSecurityRoutes ==
    Asks("security", {"revokeNode", "revokeNodeWithReceipt", "rotateNodeCertificate",
                      "updateNodeGroups", "archiveNode", "replaceNode"})
AuditRoutes == Asks("audit", {"audit"})

ControlRoutes == NetworkRoutes @@ PolicyRoutes @@ TransferRoutes @@ NodeRoutes
                 @@ NodeSecurityRoutes @@ AuditRoutes
Permission == SessionRoutes @@ IdentityRoutes @@ ControlRoutes

AdminRoutes == DOMAIN Permission
\* Routes that leave the identity document alone.
Inspections == DOMAIN ControlRoutes \cup {"session", "listSessions", "listBreakGlassCodes"}
\* The rate-limited routes, and which of the two limits each counts against.
LimitedRoutes == [route \in {"oidcStart", "desktopStart"} |-> "start"]
                 @@ [route \in {"oidcCallback", "oidcDenied", "desktopComplete"} |-> "callback"]

-----------------------------------------------------------------------------
(* The document and the operations on it. *)

Bearer == 0          \* the credential of a direct administrator call
NoSession == [id |-> 0, principal |-> NoPrincipal, policy |-> NoPolicy, seen |-> 0,
              idle |-> 0, absolute |-> 0, version |-> 0, revoked |-> FALSE]

Event(type, session, target) == [type |-> type, actor |-> session, target |-> target]

\* appendIdentityAudit
AuditFull(d) == Cardinality(d.audit) >= scene.events

sessionOf(d, id) == CHOOSE s \in d.sessions : s.id = id
hasSession(d, id) == \E s \in d.sessions : s.id = id

\* pruneExpired
pruneExpired(d, t) ==
    [d EXCEPT !.attempts = {a \in @ : t < a.expires},
              !.sessions = {s \in @ : t < s.idle /\ t < s.absolute},
              !.codes = {c \in @ : t < c.expires},
              !.desktops = {r \in @ : t < r.expires}]

\* AuthenticateSession: the session the token opens at time t.
Live(s, t) == ~s.revoked /\ s.seen =< t /\ t < s.idle /\ t < s.absolute
Authenticates(s, t) == Live(s, t) /\ s.policy = PolicyFingerprint(policy)

\* Mutant: the caller that authenticateRequest found is trusted.
trustCaller(d, actor, t) == TRUE

\* authenticateAuditCaller: the actor of an audited mutation, checked in the
\* same update as the mutation.
auditCaller(d, actor, t) ==
    actor = Bearer \/ \E s \in d.sessions : s.id = actor /\ Live(s, t)

\* CreateLoginAttempt
CreateLoginAttempt(d, id, t) ==
    LET e == pruneExpired(d, t)
    IN  [e EXCEPT !.attempts = @ \cup {[id |-> id, expires |-> t + LoginAttemptTTL]}]

\* ConsumeLoginAttempt: an attempt is removed by the first callback that names
\* it, used or expired.
ConsumeLoginAttempt(d, id, t) ==
    IF \E a \in d.attempts : a.id = id
    THEN [d EXCEPT !.attempts = {a \in @ : a.id # id}]
    ELSE pruneExpired(d, t)
attemptUsable(d, id, t) == \E a \in d.attempts : a.id = id /\ t < a.expires

\* CreateSession: refused when the sessions or the audit are full.
CreateSession(d, id, principal, t) ==
    LET e == pruneExpired(d, t)
        ttl == sessionTTLs(principal.kind)
    IN  [e EXCEPT
           !.sessions = @ \cup {[id |-> id, principal |-> principal,
                                 policy |-> PolicyFingerprint(policy), seen |-> t,
                                 idle |-> t + ttl[1], absolute |-> t + ttl[2],
                                 version |-> 1, revoked |-> FALSE]},
           !.audit = @ \cup {Event("created", id, id)}]
sessionRefused(d, t) ==
    AuditFull(d) \/ Cardinality(pruneExpired(d, t).sessions) >= MaxSessions

\* TouchSession: a compare-and-set on the version the caller read.
touched(s, t) ==
    LET ttl == sessionTTLs(s.principal.kind)
        idle == IF t + ttl[1] > s.absolute THEN s.absolute ELSE t + ttl[1]
    IN  [s EXCEPT !.seen = t, !.idle = idle, !.version = @ + 1]
TouchSession(d, s, t) ==
    [d EXCEPT !.sessions = {o \in @ : o.id # s.id} \cup {touched(s, t)}]
touchDenied(d, s, t) ==
    \/ ~hasSession(d, s.id)
    \/ LET o == sessionOf(d, s.id) IN o.revoked \/ t >= o.idle \/ t >= o.absolute
touchConflicts(d, s, t) ==
    LET o == sessionOf(d, s.id) IN o.version # s.version \/ t < o.seen

\* revokeSession
RevokeSession(d, id, actor) ==
    [d EXCEPT !.sessions = {IF s.id = id THEN [s EXCEPT !.revoked = TRUE, !.version = @ + 1]
                                         ELSE s : s \in @},
              !.audit = @ \cup {Event("revoked", actor, id)}]
revokeRefused(d, id, actor, t) == ~auditCaller(d, actor, t) \/ AuditFull(d)

\* RegisterBreakGlassCodeAs
RegisterBreakGlassCode(d, id, actor, t) ==
    LET e == pruneExpired(d, t)
    IN  IF \E c \in e.codes : c.id = id THEN e
        ELSE [e EXCEPT !.codes = @ \cup {[id |-> id, expires |-> t + CodeLifetime,
                                          used |-> FALSE, revoked |-> FALSE]},
                       !.audit = @ \cup {Event("registered", actor, id)}]

\* Mutant: the use of a code is recorded, the code stays usable.
RecordBreakGlassUse(d, id) ==
    [d EXCEPT !.audit = @ \cup {Event("consumed", Bearer, id)}]

\* consumeBreakGlassCode
ConsumeBreakGlassCode(d, id) ==
    [d EXCEPT !.codes = {IF c.id = id THEN [c EXCEPT !.used = TRUE] ELSE c : c \in @},
              !.audit = @ \cup {Event("consumed", Bearer, id)}]
codeUsable(d, id, t) == \E c \in d.codes : c.id = id /\ CodeState(c, t) = "usable"

\* RevokeBreakGlassCodeAs
RevokeBreakGlassCode(d, id, actor) ==
    [d EXCEPT !.codes = {IF c.id = id THEN [c EXCEPT !.revoked = TRUE] ELSE c : c \in @},
              !.audit = @ \cup {Event("withdrawn", actor, id)}]

\* CreateDesktopAuthorization: expired requests are kept for a grace period,
\* so that the application learns that its request expired.
CreateDesktopAuthorization(d, id, t) ==
    [d EXCEPT !.desktops = {r \in @ : t < r.expires + DesktopGrace} \cup
                            {[id |-> id, state |-> "pending", principal |-> NoPrincipal,
                              expires |-> t + DesktopLifetime, polled |-> -1]}]

\* DecideDesktopAuthorization
DecideDesktopAuthorization(d, id, state, principal) ==
    [d EXCEPT !.desktops = {IF r.id = id THEN [r EXCEPT !.state = state, !.principal = principal]
                                         ELSE r : r \in @}]
decisionRefused(d, id, t) ==
    ~ \E r \in d.desktops : r.id = id /\ t < r.expires /\ r.state = "pending"

\* PollDesktopAuthorization: a decided or expired request is removed by the
\* poll that learns of it.
PollDesktopAuthorization(d, r, t) ==
    [d EXCEPT !.desktops =
        IF t < r.expires /\ r.state = "pending"
        THEN {IF o = r THEN [r EXCEPT !.polled = t] ELSE o : o \in @}
        ELSE @ \ {r}]
pollTooSoon(r, t) == r.polled # -1 /\ t < r.polled + 1

-----------------------------------------------------------------------------
(* The store around the document. *)

Idle == [op |-> "none", pc |-> "idle", arg |-> 0, cred |-> 0, since |-> 0, at |-> 0,
         copy |-> NoSession, tries |-> 0, who |-> NoPrincipal]

Fault == faults < MaxFaults /\ faults' = faults + 1

\* update: the new document is written beside the old one, renamed over it and
\* the directory synced.  ok, failed and unsure are what the request does next.
\*   - a write that fails changes nothing;
\*   - a rename whose sync fails is visible, and may be lost by a crash;
\*   - a commit whose answer is lost leaves PostgreSQL in either state.
\* Before anything else a file store syncs a rename it still owes.
FileUpdateFails(r, next, failed, unsure) ==
    \/ doc' = doc /\ older' \in {doc, older} /\ work' = [work EXCEPT ![r] = failed]
    \/ doc' = next /\ older' = doc /\ work' = [work EXCEPT ![r] = unsure]
PostgresUpdateFails(r, next, failed, unsure) ==
    /\ doc' \in {doc, next} /\ older' = doc'
    /\ work' \in {[work EXCEPT ![r] = unsure]} \cup
                 {[work EXCEPT ![r] = failed] : d \in {doc'} \cap {doc}}
Update(r, next, ok, failed, unsure) ==
    IF ~validateState(next)
    THEN /\ older' = doc /\ work' = [work EXCEPT ![r] = failed]
         /\ UNCHANGED <<doc, faults>>
    ELSE \/ /\ doc' = next /\ older' = next
            /\ work' = [work EXCEPT ![r] = ok]
            /\ UNCHANGED faults
         \/ /\ Fault
            /\ IF scene.backend = "file" THEN FileUpdateFails(r, next, failed, unsure)
                                         ELSE PostgresUpdateFails(r, next, failed, unsure)

\* A mutation that ends in an error leaves the document alone.
Refuse(r, then) ==
    /\ older' = doc
    /\ work' = [work EXCEPT ![r] = then]
    /\ UNCHANGED <<doc, faults>>

\* view
View(r, then) == Refuse(r, then)

Unrelated == UNCHANGED <<scene, policy, provider, bucket, now, calls>>
NoAnswer == UNCHANGED <<issued, held, closed>>

\* The moments the handler may have read the clock for its next store call.
Clock(w) == w.since..now
Goto(w, pc) == [w EXCEPT !.pc = pc, !.since = now]

-----------------------------------------------------------------------------
(* Requests. *)

Begin(r, op, arg, cred) ==
    /\ policy # NoPolicy
    /\ op \in scene.routes
    /\ work[r] = Idle
    /\ calls < MaxCalls
    /\ calls' = calls + 1
    /\ work' = [work EXCEPT ![r] =
                  [Idle EXCEPT !.op = op, !.arg = arg, !.cred = cred, !.since = now,
                               !.pc = IF op \in AdminRoutes THEN "authenticate"
                                      ELSE IF op \in DOMAIN LimitedRoutes THEN "limited"
                                      ELSE op]]
    /\ UNCHANGED <<doc, older, scene, policy, provider, bucket, now, faults,
                   issued, held, closed>>

Call(r) ==
    \/ OIDCEnabled(policy) /\ Begin(r, "oidcStart", 0, 0)
    \/ \E a \in 1..issued.attempt, op \in {"oidcCallback", "oidcDenied"} :
          OIDCEnabled(policy) /\ Begin(r, op, a, 0)
    \/ Begin(r, "desktopStart", 0, 0)
    \/ \E d \in 1..issued.desktop : Begin(r, "desktopComplete", d, 0)
    \/ Begin(r, "login", 0, 0)
    \/ \E c \in Codes : policy.codes /\ Begin(r, "breakGlassLogin", c, 0)
    \/ \E cred \in {h.id : h \in held} \cup {Bearer} :
          \/ Begin(r, "logout", 0, cred)
          \/ \E d \in 1..issued.desktop : Begin(r, "desktopDecision", d, cred)
          \/ \E op \in Inspections \cap scene.routes : Begin(r, op, 0, cred)
          \/ \E h \in held : Begin(r, "revokeSession", h.id, cred)
          \/ \E c \in Codes, op \in {"registerCode", "revokeCode"} :
                policy.codes /\ Begin(r, op, c, cred)

\* oidcLimited: a token of the route's bucket and one of its slots, or nothing.
Allow(kind) == bucket[kind] > 0
Serving(kind) == {q \in Requests : /\ work[q].op \in DOMAIN LimitedRoutes
                                   /\ LimitedRoutes[work[q].op] = kind
                                   /\ work[q].pc # "limited"}
Limited(r) ==
    LET kind == LimitedRoutes[work[r].op] IN
    /\ work[r].pc = "limited"
    /\ bucket' = IF Allow(kind) THEN [bucket EXCEPT ![kind] = @ - 1] ELSE bucket
    /\ work' = [work EXCEPT ![r] = IF Allow(kind) /\ Cardinality(Serving(kind)) < Slots
                                   THEN Goto(@, @.op) ELSE Idle]
    /\ UNCHANGED <<doc, older, scene, policy, provider, now, calls, faults,
                   issued, held, closed>>

\* createSession, the last call of every login.  The client holds the session
\* only when the store said that it is there.
createSession(r, t, grant) ==
    LET w == work[r]
        id == issued.session + 1
    IN  IF sessionRefused(doc, t)
        THEN Refuse(r, Idle) /\ UNCHANGED <<issued, held>>
        ELSE /\ Update(r, CreateSession(doc, id, w.who, t), Idle, Idle, Idle)
             /\ issued' = [issued EXCEPT !.session = id]
             /\ held' = IF faults' = faults
                        THEN held \cup {[id |-> id, grant |-> grant]} ELSE held

CreateStep(r) ==
    LET w == work[r] IN
    /\ w.pc = "create"
    /\ \E t \in IF w.op = "breakGlassLogin" THEN {w.at} ELSE Clock(w) :
         createSession(r, t, IF w.op = "login" THEN <<w.op, issued.session + 1>>
                                               ELSE <<w.op, w.arg>>)
    /\ Unrelated /\ UNCHANGED closed

\* login: the administrator token, typed in a browser.
login(r) ==
    /\ work[r].pc = "login"
    /\ work' = [work EXCEPT ![r] = IF policy.browser
                                   THEN [Goto(@, "create") EXCEPT !.who = NewLegacyPrincipal]
                                   ELSE Idle]
    /\ UNCHANGED <<doc, older, faults>> /\ Unrelated /\ NoAnswer

\* breakGlassLogin: the code is used up before the session exists, and both
\* calls are given the same reading of the clock.
breakGlassLogin(r) ==
    LET w == work[r] IN
    /\ w.pc = "breakGlassLogin"
    /\ \E t \in Clock(w) :
         IF codeUsable(doc, w.arg, t) /\ ~AuditFull(doc)
         THEN Update(r, ConsumeBreakGlassCode(doc, w.arg),
                     [Goto(w, "create") EXCEPT !.who = NewBreakGlassPrincipal(w.arg), !.at = t],
                     Idle, Idle)
         ELSE Refuse(r, Idle)
    /\ Unrelated /\ NoAnswer

-----------------------------------------------------------------------------
(* OIDC sign-on. *)

\* Requests holding one of the flow's completion slots.
Completing == {q \in Requests : work[q].pc \in {"provider", "discovering", "waiting",
                                                "attempt", "consume", "exchange"}}

\* Where a request goes once the provider is known.
Provided(w) == Goto(w, IF w.op = "oidcStart" THEN "attempt" ELSE "consume")

\* acquireCompletion; a refused sign-on is recorded without the provider.
acquireCompletion(r) ==
    /\ work[r].pc \in {"oidcStart", "oidcCallback", "oidcDenied"}
    /\ Cardinality(Completing) < scene.completions
    /\ work' = [work EXCEPT ![r] = IF @.op = "oidcDenied" THEN Provided(@)
                                                          ELSE Goto(@, "provider")]
    /\ UNCHANGED <<doc, older, faults>> /\ Unrelated /\ NoAnswer

\* providerBundle: the first request asks, the others wait for its answer.
providerBundle(r) ==
    /\ work[r].pc = "provider"
    /\ provider' = IF provider = "none" THEN "asking" ELSE provider
    /\ work' = [work EXCEPT ![r] = CASE provider = "ready" -> Provided(@)
                                     [] provider = "asking" -> Goto(@, "waiting")
                                     [] provider = "none" -> Goto(@, "discovering")]
    /\ UNCHANGED <<doc, older, scene, policy, bucket, now, calls, faults,
                   issued, held, closed>>

\* Mutant: a failed discovery is returned without completing the flight.
discoverForgotten(r) ==
    LET waiters == {q \in Requests : work[q].pc = "waiting"} \cup {r} IN
    /\ work[r].pc = "discovering"
    /\ \/ /\ provider' = "ready"
          /\ work' = [q \in Requests |-> IF q \in waiters THEN Provided(work[q]) ELSE work[q]]
          /\ UNCHANGED faults
       \/ Fault /\ provider' = "none" /\ work' = [work EXCEPT ![r] = Idle]
    /\ UNCHANGED <<doc, older, scene, policy, bucket, now, calls, issued, held, closed>>

\* discover: every request that waits shares the outcome; only success is kept.
discover(r) ==
    LET waiters == {q \in Requests : work[q].pc = "waiting"} \cup {r} IN
    /\ work[r].pc = "discovering"
    /\ \/ /\ provider' = "ready"
          /\ work' = [q \in Requests |-> IF q \in waiters THEN Provided(work[q]) ELSE work[q]]
          /\ UNCHANGED faults
       \/ /\ Fault
          /\ provider' = "none"
          /\ work' = [q \in Requests |-> IF q \in waiters THEN Idle ELSE work[q]]
    /\ UNCHANGED <<doc, older, scene, policy, bucket, now, calls, issued, held, closed>>

\* OIDCFlow.Start
oidcStart(r) ==
    LET w == work[r] IN
    /\ w.pc = "attempt"
    /\ \E t \in Clock(w) :
         Update(r, CreateLoginAttempt(doc, issued.attempt + 1, t), Idle, Idle, Idle)
    /\ issued' = [issued EXCEPT !.attempt = @ + 1]
    /\ Unrelated /\ UNCHANGED <<held, closed>>

\* OIDCFlow.Complete and ConsumeAuthorizationError: the attempt is used up
\* before the provider is asked for a token.
consumeAttempt(r) ==
    LET w == work[r] IN
    /\ w.pc = "consume"
    /\ \E t \in Clock(w) :
         Update(r, ConsumeLoginAttempt(doc, w.arg, t),
                IF attemptUsable(doc, w.arg, t) /\ w.op = "oidcCallback"
                THEN Goto(w, "exchange") ELSE Idle,
                Idle, Idle)
    /\ Unrelated /\ NoAnswer

\* validateIDTokenClaims: the token answers this attempt, is recent, has the
\* required assurance and names a subject the policy gives access.
hasAccess(subject) == Roles[subject] # "none"
validateIDTokenClaims(c) == c.nonce /\ c.fresh /\ c.assured /\ hasAccess(c.subject)

exchange(r) ==
    /\ work[r].pc = "exchange"
    /\ \E c \in [nonce : BOOLEAN, fresh : BOOLEAN, assured : BOOLEAN, subject : Users] :
         work' = [work EXCEPT ![r] = IF validateIDTokenClaims(c)
                                     THEN [Goto(@, "create") EXCEPT !.who = NewOIDCPrincipal(c.subject)]
                                     ELSE Idle]
    /\ UNCHANGED <<doc, older, faults>> /\ Unrelated /\ NoAnswer

-----------------------------------------------------------------------------
(* Signing a desktop application in. *)

desktopAuthorizationStart(r) ==
    LET w == work[r] IN
    /\ w.pc = "desktopStart"
    /\ \E t \in Clock(w) :
         Update(r, CreateDesktopAuthorization(doc, issued.desktop + 1, t), Idle, Idle, Idle)
    /\ issued' = [issued EXCEPT !.desktop = @ + 1]
    /\ Unrelated /\ UNCHANGED <<held, closed>>

\* The poll that finds an approval uses it up and then makes the session.
desktopAuthorizationComplete(r) ==
    LET w == work[r]
        found == {d \in doc.desktops : d.id = w.arg}
    IN
    /\ w.pc = "desktopComplete"
    /\ \E t \in Clock(w) :
         IF found = {} \/ \E d \in found : pollTooSoon(d, t)
         THEN Refuse(r, Idle)
         ELSE \E d \in found :
                Update(r, PollDesktopAuthorization(doc, d, t),
                       IF /\ t < d.expires /\ d.state = "approved"
                          /\ RoleForPrincipal(d.principal, policy) # "none"
                       THEN [Goto(w, "create") EXCEPT !.who = d.principal] ELSE Idle,
                       Idle, Idle)
    /\ Unrelated /\ NoAnswer

-----------------------------------------------------------------------------
(* Administrator requests: authenticate, extend the session, act. *)

Actor(w) == w.copy.id
Principal(w) == IF w.cred = Bearer THEN NewLegacyPrincipal ELSE w.copy.principal

\* authenticateRequest
authenticateRequest(r) ==
    LET w == work[r] IN
    /\ w.pc = "authenticate"
    /\ IF w.cred = Bearer
       THEN /\ work' = [work EXCEPT ![r] = IF policy.bearer THEN Goto(w, "handler") ELSE Idle]
            /\ UNCHANGED <<doc, older, faults>>
       ELSE \E t \in Clock(w) :
              View(r, IF /\ hasSession(doc, w.cred)
                         /\ Authenticates(sessionOf(doc, w.cred), t)
                         /\ RoleForPrincipal(sessionOf(doc, w.cred).principal, policy) # "none"
                      THEN [Goto(w, "touch") EXCEPT !.copy = sessionOf(doc, w.cred)]
                      ELSE Idle)
    /\ Unrelated /\ NoAnswer

\* touchSessionIfDue: one reading of the clock for all of its attempts.  The
\* same touch made by another request counts as this one's.
touchRepeated(o, s, t) ==
    o.version = s.version + 1 /\ o.seen = t /\ o.idle = touched(s, t).idle
touchSessionIfDue(r) ==
    LET w == work[r] IN
    /\ w.pc = "touch"
    /\ \E t \in IF w.tries = 0 THEN Clock(w) ELSE {w.at} :
         IF t < w.copy.seen + TouchInterval
         THEN /\ work' = [work EXCEPT ![r] = Goto(w, "handler")]
              /\ UNCHANGED <<doc, older, faults>>
         ELSE IF touchDenied(doc, w.copy, t)
         THEN Refuse(r, Idle)
         ELSE IF touchRepeated(sessionOf(doc, w.copy.id), w.copy, t)
         THEN View(r, [Goto(w, "handler") EXCEPT !.copy = sessionOf(doc, w.copy.id)])
         ELSE IF touchConflicts(doc, w.copy, t)
         THEN Refuse(r, [Goto(w, "again") EXCEPT !.at = t, !.tries = @ + 1])
         ELSE Update(r, TouchSession(doc, w.copy, t),
                     [Goto(w, "handler") EXCEPT !.copy = touched(w.copy, t)], Idle, Idle)
    /\ Unrelated /\ NoAnswer

\* The re-authentication after a lost race; three races end the request.
touchAgain(r) ==
    LET w == work[r] IN
    /\ w.pc = "again"
    /\ View(r, IF /\ w.tries < 3
                  /\ hasSession(doc, w.cred)
                  /\ Authenticates(sessionOf(doc, w.cred), w.at)
               THEN [Goto(w, "touch") EXCEPT !.copy = sessionOf(doc, w.cred)]
               ELSE Idle)
    /\ Unrelated /\ NoAnswer

\* authorized: the role is the one the session's principal has under the policy.
Authorized(w) ==
    /\ RoleAllows(RoleForPrincipal(Principal(w), policy), Permission[w.op])
    /\ w.op \in {"logout", "desktopDecision"} => w.cred # Bearer
    /\ w.op \in {"registerCode", "revokeCode"} => Principal(w).kind # "break_glass"

\* The acknowledgement of a revocation, when the store gave one.
Acknowledge(id) == closed' = IF faults' = faults THEN closed \cup {id} ELSE closed

\* logout and DELETE /sessions/{id}.  Only the second counts a session that is
\* already revoked as done.
revokeHandler(r, id, t) ==
    LET w == work[r]
        actor == Actor(w)
    IN
    IF ~hasSession(doc, id)
    THEN Refuse(r, Idle) /\ UNCHANGED closed
    ELSE IF sessionOf(doc, id).revoked
    THEN /\ Refuse(r, Idle)
         /\ IF w.op = "revokeSession" THEN Acknowledge(id) ELSE UNCHANGED closed
    ELSE IF revokeRefused(doc, id, actor, t)
    THEN Refuse(r, Idle) /\ UNCHANGED closed
    ELSE Update(r, RevokeSession(doc, id, actor), Idle, Idle, Idle) /\ Acknowledge(id)

registerHandler(r, t) ==
    LET w == work[r]
        same == {c \in pruneExpired(doc, t).codes : c.id = w.arg}
    IN
    IF \/ ~auditCaller(doc, Actor(w), t)
       \/ \E c \in same : c.expires # t + CodeLifetime
       \/ same = {} /\ AuditFull(doc)
    THEN Refuse(r, Idle)
    ELSE Update(r, RegisterBreakGlassCode(doc, w.arg, Actor(w), t), Idle, Idle, Idle)

withdrawHandler(r, t) ==
    LET w == work[r]
        found == {c \in doc.codes : c.id = w.arg}
    IN
    IF \/ ~auditCaller(doc, Actor(w), t)
       \/ found = {}
       \/ \E c \in found : c.used \/ c.revoked \/ AuditFull(doc)
    THEN Refuse(r, Idle)
    ELSE Update(r, RevokeBreakGlassCode(doc, w.arg, Actor(w)), Idle, Idle, Idle)

decisionHandler(r, t) ==
    LET w == work[r] IN
    \E state \in {"approved", "denied"} :
      IF decisionRefused(doc, w.arg, t)
      THEN Refuse(r, Idle)
      ELSE Update(r, DecideDesktopAuthorization(doc, w.arg, state, w.copy.principal),
                  Idle, Idle, Idle)

\* The handlers behind the administrator routes.
handler(r) ==
    LET w == work[r] IN
    /\ w.pc = "handler"
    /\ IF ~Authorized(w) \/ w.op \in Inspections
       THEN work' = [work EXCEPT ![r] = Idle] /\ UNCHANGED <<doc, older, faults, closed>>
       ELSE \E t \in Clock(w) :
              CASE w.op = "logout" -> revokeHandler(r, w.copy.id, t)
                [] w.op = "revokeSession" -> revokeHandler(r, w.arg, t)
                [] w.op = "registerCode" -> registerHandler(r, t) /\ UNCHANGED closed
                [] w.op = "revokeCode" -> withdrawHandler(r, t) /\ UNCHANGED closed
                [] w.op = "desktopDecision" -> decisionHandler(r, t) /\ UNCHANGED closed
    /\ Unrelated /\ UNCHANGED <<issued, held>>

-----------------------------------------------------------------------------
Step(r) ==
    \/ Limited(r) \/ login(r) \/ breakGlassLogin(r) \/ CreateStep(r)
    \/ acquireCompletion(r) \/ providerBundle(r) \/ discover(r) \/ oidcStart(r)
    \/ consumeAttempt(r) \/ exchange(r)
    \/ desktopAuthorizationStart(r) \/ desktopAuthorizationComplete(r)
    \/ authenticateRequest(r) \/ touchSessionIfDue(r) \/ touchAgain(r) \/ handler(r)

\* The token bucket refills as time passes.
Tick ==
    /\ now < MaxTime
    /\ now' = now + 1
    /\ bucket' = Full
    /\ UNCHANGED <<doc, older, scene, policy, provider, work, calls, faults,
                   issued, held, closed>>

\* The server dies, or is stopped, and is started again: OpenFileStore finds
\* whichever document the disk kept, and New refuses a policy that does not
\* stand on it.
Restart ==
    /\ Fault
    /\ doc' \in {doc, older} /\ older' = doc'
    /\ policy' \in {c \in Policies : Starts(c, doc', now)} \cup {NoPolicy}
    /\ work' = [r \in Requests |-> Idle]
    /\ provider' = "none" /\ bucket' = Full
    /\ UNCHANGED <<scene, now, calls, issued, held, closed>>

\* A server that runs: one administrator session, one recovery code, and
\* perhaps a sign-on or a desktop request under way.
Hybrid == [mode |-> "hybrid", browser |-> TRUE, bearer |-> TRUE, codes |-> TRUE]
FirstCode == CHOOSE c \in Codes : TRUE
Document(a, d) ==
    [attempts |-> {[id |-> i, expires |-> LoginAttemptTTL] : i \in 1..a},
     sessions |-> {[id |-> 1, principal |-> NewLegacyPrincipal, policy |-> PolicyFingerprint(Hybrid),
                    seen |-> 0, idle |-> IdleTTL, absolute |-> AbsoluteTTL, version |-> 1,
                    revoked |-> FALSE]},
     codes |-> {[id |-> FirstCode, expires |-> CodeLifetime, used |-> FALSE, revoked |-> FALSE]},
     desktops |-> {[id |-> 1, state |-> st, expires |-> DesktopLifetime, polled |-> -1,
                    principal |-> IF st = "pending" THEN NoPrincipal ELSE NewLegacyPrincipal]
                   : st \in d},
     audit |-> {Event("created", 1, 1), Event("registered", Bearer, FirstCode)}]

Init ==
    /\ scene \in Scenes
    /\ doc = Document(scene.attempts, scene.desktops)
    /\ older = doc
    /\ issued = [session |-> 1, attempt |-> scene.attempts, desktop |-> Cardinality(scene.desktops)]
    /\ policy = Hybrid
    /\ provider = "none" /\ bucket = Full /\ now = 0
    /\ work = [r \in Requests |-> Idle]
    /\ calls = 0 /\ faults = 0
    /\ held = {[id |-> 1, grant |-> <<"login", 1>>]}
    /\ closed = {}

Next == Tick \/ Restart \/ \E r \in Requests : Call(r) \/ Step(r)

\* A request the server has taken is served: every wait inside it is for
\* another request or for a bounded network call.
Fairness == \A r \in Requests : WF_vars(work[r] # Idle /\ Step(r))

Spec == Init /\ [][Next]_vars /\ Fairness

-----------------------------------------------------------------------------
\* A code, a sign-on or a desktop approval gives at most one session that a
\* client holds, however requests, failed writes and restarts fall; every
\* session and every used or withdrawn code has its audit event, also after a
\* restart, and the audit stays within its bound; and a session whose
\* revocation was acknowledged never opens again.
Granted == \A g, h \in held : g.grant = h.grant => g = h
Audited ==
    /\ Cardinality(doc.audit) =< scene.events
    /\ \A s \in doc.sessions :
         /\ Event("created", s.id, s.id) \in doc.audit
         /\ s.revoked => \E e \in doc.audit : e.type = "revoked" /\ e.target = s.id
    /\ \A h \in held : Event("created", h.id, h.id) \in doc.audit
    /\ \A c \in doc.codes :
         /\ c.used => Event("consumed", Bearer, c.id) \in doc.audit
         /\ c.revoked => \E e \in doc.audit : e.type = "withdrawn" /\ e.target = c.id
RevokedStaysOut == \A s \in doc.sessions : s.id \in closed => s.revoked
SessionsAccounted == Granted /\ Audited /\ RevokedStaysOut

\* A session that was revoked while its request was under way does not act:
\* whoever an audit event names as its actor was live when it was written.
ActsLive ==
    \A e \in doc'.audit \ doc.audit :
      e.actor = Bearer \/ e.type = "created"
      \/ \E s \in doc.sessions : s.id = e.actor /\ ~s.revoked
ActorsAreLive == [][ActsLive]_vars

\* Every request is answered: none waits forever for a slot, for another
\* request's discovery or for a session others keep extending.
Answered == \A r \in Requests : []<>(work[r] = Idle)
=============================================================================
