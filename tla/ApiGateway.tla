----------------------------- MODULE ApiGateway -----------------------------
(***************************************************************************)
(* What a request goes through before and after the orchestration service: *)
(* the middlewares (api/middleware.py), the authenticators and permissions *)
(* (security/), the sliding-window rate limiter (security/rate_limiter.py),*)
(* the routes (api/routes/) and the handlers of exceptions (api/app.py).   *)
(*                                                                         *)
(* Nothing on that way suspends before the service is called, and the lock *)
(* of the limiter is never held over a suspension: up to the service, a    *)
(* request is one step.  What the service may answer is modelled in        *)
(* RunService and ExecutionBackend; here it is any of its outcomes.        *)
(*                                                                         *)
(* Time passes in ticks, TicksPerSecond of them in a second.               *)
(***************************************************************************)
EXTENDS Integers, FiniteSets

CONSTANTS
    Principals,      \* the subjects of API keys and of tokens
    RoleOf,          \* the role of each
    Addresses,       \* client addresses
    PublicLimit,     \* rate_limit_public_per_minute
    PrincipalLimit,  \* rate_limit_authenticated_per_minute
    Window,          \* window_seconds, in ticks
    TicksPerSecond,
    MaxKeys,         \* max_keys
    MaxTime,         \* bound on the clock
    Deployments,     \* the configurations considered
    NONE

Role == {"admin", "operator", "reviewer", "viewer"}
BuiltIn == {"dev-admin", "test-runner"}
Subjects == Principals \cup BuiltIn
Keys == Subjects \cup Addresses

ASSUME GatewayAssumption ==
    /\ RoleOf \in [Principals -> Role]
    /\ PublicLimit \in Nat \ {0} /\ PrincipalLimit \in Nat \ {0}
    /\ Window \in Nat \ {0} /\ TicksPerSecond \in Nat \ {0}
    /\ MaxKeys \in Nat /\ MaxTime \in Nat
    /\ Deployments \subseteq [environment : {"production", "development", "test"},
                              auth : BOOLEAN, keys : BOOLEAN, jwt : BOOLEAN,
                              limits : BOOLEAN]
    /\ IsFiniteSet(Keys)
    /\ Principals \cap BuiltIn = {} /\ Subjects \cap Addresses = {}
    /\ NONE \notin Keys

VARIABLES
    deployment,  \* FrameworkSettings
    now,         \* time.time()
    windows,     \* the limiter's _store: stamps <<time, number>> of each key
    last         \* the request answered last, at this time, and its response

vars == <<deployment, now, windows, last>>

Limit == [k \in Keys |-> IF k \in Addresses THEN PublicLimit ELSE PrincipalLimit]

-----------------------------------------------------------------------------
(* Authentication.  An authenticator returns a subject, or one of          *)
(* "missing" and "failed", which both become 401.                          *)

Credential ==
    [scheme : {"api_key", "bearer"}, is : {"valid", "invalid"}, who : Principals]
        \cup [scheme : {"test"}, is : {"valid"}, who : Principals]
        \cup [scheme : {"api_key", "bearer"}, is : {"empty"}, who : {NONE}]
        \cup {[scheme |-> "none", is |-> "empty", who |-> NONE]}

\* An Authorization header of another scheme is malformed for this one.
HashedAPIKey(c) ==
    CASE c.scheme = "api_key" /\ c.is = "valid" -> c.who
      [] c.scheme = "none" \/ (c.scheme = "api_key" /\ c.is = "empty") -> "missing"
      [] OTHER -> "failed"

BearerToken(c) ==
    CASE c.scheme = "bearer" /\ c.is = "valid" -> c.who
      [] c.scheme = "bearer" /\ c.is = "invalid" -> "failed"
      [] OTHER -> "missing"

DevelopmentBypass(c) == "dev-admin"

\* Headers and keys made for tests name a subject and its role; they are not valid
\* for the other authenticators.  Everybody else is an admin.
TestRunner(c) == IF c.scheme = "test" THEN c.who ELSE "test-runner"

\* Mutant: a production deployment without keys falls back to the test identity.
AuthenticatorsOpen(d) ==
    IF ~d.auth THEN {"bypass"}
    ELSE LET configured == {a \in {"key", "token"} :
                               (a = "key" /\ d.keys) \/ (a = "token" /\ d.jwt)}
         IN  IF configured = {} THEN {"test"} ELSE configured

\* get_authenticator: {} when the configuration is refused.
Authenticators(d) ==
    IF ~d.auth
    THEN IF d.environment = "production" THEN {} ELSE {"bypass"}
    ELSE LET configured == {a \in {"key", "token", "test"} :
                               \/ a = "key" /\ d.keys
                               \/ a = "token" /\ d.jwt
                               \/ a = "test" /\ d.environment = "test"}
         IN  IF configured = {} /\ d.environment # "production"
             THEN {"test"} ELSE configured

Verdict(a, c) ==
    CASE a = "key" -> HashedAPIKey(c)
      [] a = "token" -> BearerToken(c)
      [] a = "test" -> TestRunner(c)
      [] a = "bypass" -> DevelopmentBypass(c)

\* CompositeAuthenticator: the first that succeeds, keys before tokens before
\* the test identity; a failure of one does not stop the others.
Identify(d, c) ==
    LET accepted == {a \in Authenticators(d) : Verdict(a, c) \in Subjects}
        first == CHOOSE a \in accepted :
                    /\ "key" \in accepted => a = "key"
                    /\ "token" \in accepted => a \in {"key", "token"}
    IN  IF accepted = {} THEN NONE ELSE Verdict(first, c)

RoleOfSubject(s) == IF s \in BuiltIn THEN "admin" ELSE RoleOf[s]

\* ROLE_PERMISSIONS and has_permission.
MayDo(s, permission) ==
    LET role == RoleOfSubject(s)
        reading == {"runs:read", "runs:stream", "hitl:read"}
        deciding == {"hitl:approve", "hitl:reject", "hitl:modify"}
    IN  permission \in
            CASE role \in {"admin", "operator"} ->
                    reading \cup deciding \cup {"runs:create", "runs:cancel", "metrics:read"}
              [] role = "reviewer" -> reading \cup deciding
              [] role = "viewer" -> reading \cup {"metrics:read"}

-----------------------------------------------------------------------------
(* check_rate_limit.                                                       *)

\* Mutant: one tick too early out of the window.
InWindowShort(stamps, t) == {s \in stamps : s[1] > t - Window + 1}
InWindow(stamps, t) == {s \in stamps : s[1] > t - Window}

\* Stale keys are forgotten when there are too many.
Stale(k) ==
    /\ Cardinality({j \in Keys : windows[j] # {}}) > MaxKeys
    /\ \A s \in windows[k] : s[1] < now - 2 * Window

Swept == [k \in Keys |-> IF Stale(k) THEN {} ELSE windows[k]]

\* Mutant: one request too many.
GrantsOneMore(k) == Cardinality(InWindow(windows[k], now)) <= Limit[k]
Grants(k) == Cardinality(InWindow(windows[k], now)) < Limit[k]

\* A granted request is the next of its time.
Stamp(k) == <<now, Cardinality({s \in windows[k] : s[1] = now}) + 1>>

Record(k) ==
    windows' = [Swept EXCEPT ![k] =
                   IF Grants(k) THEN InWindow(windows[k], now) \cup {Stamp(k)}
                                ELSE InWindow(windows[k], now)]

\* Mutant: the wait is counted from the latest request.
RetryAfterLatest(k, wait) ==
    \E s \in InWindow(windows[k], now) :
        /\ \A u \in InWindow(windows[k], now) : u[1] <= s[1]
        /\ wait = Window - (now - s[1])

\* The wait is counted from the first request of the window.
RetryAfter(k, wait) ==
    \E s \in InWindow(windows[k], now) :
        /\ \A u \in InWindow(windows[k], now) : s[1] <= u[1]
        /\ wait = Window - (now - s[1])

\* The Retry-After header: int(retry_after) or 1, in ticks again.
HeaderWait(wait) ==
    IF wait < TicksPerSecond THEN TicksPerSecond
    ELSE (wait \div TicksPerSecond) * TicksPerSecond

-----------------------------------------------------------------------------
(* Responses.                                                              *)

Responses == {200, 201, 202, 400, 401, 403, 404, 409, 413, 422, 429, 500, 504}

Response == [route : {"none", "health", "create", "read", "cancel", "stream",
                      "review", "decide", "verdictless", "metrics", "scrape"},
             who : Subjects \cup {NONE}, key : Keys \cup {NONE},
             status : Responses \cup {0}, wait : 0 .. Window]

Respond(route, who, status) ==
    last' = [route |-> route, who |-> who, key |-> NONE,
             status |-> status, wait |-> 0]

\* A request that is counted: refused with 429, or one of the statuses.
Counted(route, who, k, statuses) ==
    IF Grants(k)
    THEN \E st \in statuses :
            last' = [route |-> route, who |-> who, key |-> k,
                     status |-> st, wait |-> 0]
    ELSE \E wait \in 1 .. Window :
            /\ RetryAfter(k, wait)
            /\ last' = [route |-> route, who |-> who, key |-> k,
                        status |-> 429, wait |-> wait]

Silence == [route |-> "none", who |-> NONE, key |-> NONE, status |-> 0, wait |-> 0]

Init ==
    /\ deployment \in Deployments
    /\ now = 0
    /\ windows = [k \in Keys |-> {}]
    /\ last = Silence

\* The response has been sent; until then no other request is looked at.
Sent ==
    /\ last # Silence
    /\ last' = Silence
    /\ UNCHANGED <<deployment, now, windows>>

Tick ==
    /\ last = Silence /\ now < MaxTime
    /\ now' = now + 1
    /\ UNCHANGED <<deployment, windows, last>>

\* What middlewares find wrong with a request: its correlation ID, its size.
Flaws == {"none", "correlation", "size"}
FlawStatus(f) == IF f = "correlation" THEN 422 ELSE 413

\* GET /health, /ready.  The public limiter is the outermost middleware: it
\* counts requests that the others refuse.
PublicRequest(address, flaw) ==
    /\ IF deployment.limits
       THEN /\ Counted("health", NONE, address,
                       {IF flaw = "none" THEN 200 ELSE FlawStatus(flaw)})
            /\ Record(address)
       ELSE /\ Respond("health", NONE, IF flaw = "none" THEN 200 ELSE FlawStatus(flaw))
            /\ UNCHANGED windows
    /\ UNCHANGED <<deployment, now>>

\* A middleware answers before any dependency is resolved.
FlawedRequest(flaw) ==
    /\ flaw # "none"
    /\ Respond("none", NONE, FlawStatus(flaw))
    /\ UNCHANGED <<deployment, now, windows>>

\* create_run: accepted, done, queue full, deadline, key conflict, other errors;
\* 422 for a payload that is not valid, which is seen after the dependencies.
CreateStatus == {201, 202, 400, 409, 422, 429, 500, 504}
\* The routes that look a run up, and cancel_run_endpoint.
ReadStatus == {200, 404}
CancelStatus == {200, 400, 404}

\* A route, its permission and what it answers.  The scrape of GET /metrics is
\* checked in the same order where it is authenticated.
CreateRoute == <<"create", "runs:create", CreateStatus>>
ReadRoute == <<"read", "runs:read", ReadStatus>>
CancelRoute == <<"cancel", "runs:cancel", CancelStatus>>
ReviewRoute == <<"review", "hitl:read", ReadStatus>>
MetricsRoute == <<"metrics", "metrics:read", ReadStatus>>

Protected == {CreateRoute, ReadRoute, CancelRoute, ReviewRoute, MetricsRoute}

\* get_authenticator refuses the configuration: a framework error, 400.
Misconfigured == Authenticators(deployment) = {}

\* Mutant: the limiter is asked before the permission.
ProtectedRequestCountsAll(p, c) ==
    LET who == Identify(deployment, c)
    IN  /\ IF Misconfigured THEN Respond(p[1], NONE, 400) /\ UNCHANGED windows
           ELSE IF who = NONE THEN Respond(p[1], NONE, 401) /\ UNCHANGED windows
           ELSE /\ Counted(p[1], who, who, IF MayDo(who, p[2]) THEN p[3] ELSE {403})
                /\ Record(who)
        /\ UNCHANGED <<deployment, now>>

\* A route with require_permission and require_rate_limit, in that order.
ProtectedRequest(p, c) ==
    LET who == Identify(deployment, c)
    IN  /\ \/ Misconfigured /\ Respond(p[1], NONE, 400) /\ UNCHANGED windows
           \/ /\ ~Misconfigured /\ who = NONE
              /\ Respond(p[1], NONE, 401) /\ UNCHANGED windows
           \/ /\ who # NONE /\ ~MayDo(who, p[2])
              /\ Respond(p[1], who, 403) /\ UNCHANGED windows
           \/ /\ who # NONE /\ MayDo(who, p[2])
              /\ IF deployment.limits
                 THEN Counted(p[1], who, who, p[3]) /\ Record(who)
                 ELSE (\E st \in p[3] : Respond(p[1], who, st)) /\ UNCHANGED windows
        /\ UNCHANGED <<deployment, now>>

\* GET /metrics asks for no identity outside production (prometheus_metrics_require_auth
\* by default).
ScrapeRequest ==
    /\ deployment.environment # "production"
    /\ Respond("scrape", NONE, 200)
    /\ UNCHANGED <<deployment, now, windows>>

\* GET /runs/{id}/events has a permission and no rate limit.
StreamRequest(c) ==
    LET who == Identify(deployment, c)
    IN  /\ IF Misconfigured THEN Respond("stream", NONE, 400)
           ELSE IF who = NONE THEN Respond("stream", NONE, 401)
           ELSE IF ~MayDo(who, "runs:stream") THEN Respond("stream", who, 403)
           ELSE \E st \in ReadStatus : Respond("stream", who, st)
        /\ UNCHANGED <<deployment, now, windows>>

Verdicts == {"approved", "modified", "rejected", "timeout", "unknown"}

\* The permission a decision needs depends on its status, TIMEOUT and PENDING
\* need none.
VerdictPermissions(v) ==
    CASE v = "approved" -> {"hitl:approve"}
      [] v = "modified" -> {"hitl:modify"}
      [] v = "rejected" -> {"hitl:reject"}
      [] OTHER -> {}

\* POST /runs/{id}/human-review: counted before its status and its permission
\* are looked at.
DecideStatus(who, v) ==
    IF v = "unknown" THEN {422}
    ELSE IF \E permission \in VerdictPermissions(v) : ~MayDo(who, permission) THEN {403}
    ELSE {200, 400, 404, 500}

DecideRequest(c, v) ==
    LET who == Identify(deployment, c)
        route == IF v \in {"approved", "modified", "rejected"} THEN "decide" ELSE "verdictless"
    IN  /\ \/ Misconfigured /\ Respond(route, NONE, 400) /\ UNCHANGED windows
           \/ /\ ~Misconfigured /\ who = NONE
              /\ Respond(route, NONE, 401) /\ UNCHANGED windows
           \/ /\ who # NONE
              /\ IF deployment.limits
                 THEN Counted(route, who, who, DecideStatus(who, v)) /\ Record(who)
                 ELSE /\ \E st \in DecideStatus(who, v) : Respond(route, who, st)
                      /\ UNCHANGED windows
        /\ UNCHANGED <<deployment, now>>

Request ==
    \/ \E a \in Addresses, f \in Flaws : PublicRequest(a, f)
    \/ \E f \in Flaws : FlawedRequest(f)
    \/ \E p \in Protected, c \in Credential : ProtectedRequest(p, c)
    \/ ScrapeRequest
    \/ \E c \in Credential : StreamRequest(c)
    \/ \E c \in Credential, v \in Verdicts : DecideRequest(c, v)

Next == Tick \/ Sent \/ (last = Silence /\ Request)

Spec == Init /\ [][Next]_vars

-----------------------------------------------------------------------------
(* Properties.                                                             *)

\* The variables keep their types; a key has no more stamps than its limit at
\* one time.
TypeOK ==
    /\ deployment \in Deployments
    /\ now \in 0 .. MaxTime
    /\ windows \in [Keys -> SUBSET ((0 .. MaxTime) \X (1 .. PublicLimit + PrincipalLimit))]
    /\ \A k \in Keys : \A s \in windows[k] : s[1] <= now /\ s[2] <= Limit[k]
    /\ last \in Response

\* check_rate_limit is a sliding window, although it prunes a key only when the
\* key is used again and forgets keys in a sweep: at most Limit requests are
\* granted in any window, and none is refused before.
Quota == INSTANCE RequestQuota WITH
    recent <- [k \in Keys |-> InWindow(windows[k], now)],
    answer <- IF last.key = NONE THEN {}
              ELSE {[key |-> last.key, granted |-> last.wait = 0]}

ImplementsQuota == Quota!Spec

\* The wait a refused client is told is exact: the next place of its window
\* becomes free then and not before.  The header drops the fraction of a second,
\* so it is at most one second off.
RetryAfterIsExact ==
    last.wait > 0 =>
        LET key == last.key
            due == now + last.wait
        IN  /\ Cardinality(InWindow(windows[key], due)) < Limit[key]
            /\ Cardinality(InWindow(windows[key], due - 1)) = Limit[key]
            /\ HeaderWait(last.wait) - last.wait \in (1 - TicksPerSecond) .. (TicksPerSecond - 1)

\* Deployments that know identities of their own and ask for them.
Guarded(d) ==
    \/ d.environment = "production"
    \/ d.environment = "development" /\ d.auth /\ (d.keys \/ d.jwt)

\* get_authenticator: the identities built into the code, which are admins, are
\* never let in nor given a quota by a production deployment, however it is
\* configured, nor by a development one that has keys or a token secret.
BuiltInStayOut ==
    Guarded(deployment) =>
        /\ last.who \notin BuiltIn
        /\ \A s \in BuiltIn : windows[s] = {}

\* Requests of others never cost a principal its quota: stamps are added only
\* for the principal that was identified, and not when the route refuses it the
\* permission, except for decisions.
RefusedTakesNoQuota ==
    [][\A k \in Keys :
          Cardinality(InWindow(windows'[k], now')) > Cardinality(InWindow(windows[k], now))
          => /\ last'.key = k
             /\ k \in Subjects => last'.who = k
             /\ last'.status = 403 => last'.route = "decide"]_vars
=============================================================================
