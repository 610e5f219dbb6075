------------------------------- MODULE Gateway -------------------------------
(***************************************************************************)
(* From a client's request to the handler that serves it, in the two ways  *)
(* the API is deployed: as one process, or split into auth, users and core *)
(* behind the gateway (src/app.module.ts, src/services).  In the split the *)
(* gateway picks the process by the path's prefix, then everything is as   *)
(* in one process: the router picks a handler, and the guards of           *)
(* src/core.module.ts run in their order, the throttler before the access  *)
(* token and the roles.                                                    *)
(*                                                                         *)
(* A path is the sequence of its segments.  A token is the role of its     *)
(* user, or "none"; Access has the accounts behind it.  The throttler's    *)
(* counters live in a process, by handler and by the address its requests  *)
(* come from; no process trusts X-Forwarded-For, so behind the gateway     *)
(* that is the gateway's.                                                  *)
(*                                                                         *)
(* An operator X_<bug> is X as a plausible bug would have it; the          *)
(* specification does not use it.                                          *)
(***************************************************************************)
EXTENDS Naturals, Sequences, FiniteSets, SequencesExt

CONSTANTS
    Client,         \* the addresses clients send from
    Sent,           \* the requests this instance sends, with their tokens
    LoginLimit,     \* 5 in a window, of POST /api/auth/login
    RefreshLimit,   \* 10, of POST /api/auth/refresh
    DefaultLimit,   \* 100, of any other handler
    Ttl,            \* the window, 60 seconds, in ticks
    MaxTime,        \* bound: the ticks of a behaviour
    MaxSent,        \* bound: its requests
    MaxStops        \* bound: the times a process ends

VARIABLES
    deployment,     \* "monolith" or "split"
    up,             \* the processes that run
    counters,       \* counters[k]: the throttler's record of a key, where any
    now,            \* the time
    stops,          \* for the properties: when a process ended
    log             \* for the properties: the requests, with their answers

vars == <<deployment, up, counters, now, stops, log>>

ASSUME LimitsPositive == {LoginLimit, RefreshLimit, DefaultLimit, Ttl} \subseteq Nat \ {0}
ASSUME TimeIsANumber == MaxTime \in Nat

Token   == {"none", "VIEWER", "STAFF", "ADMIN"}
Process == [monolith |-> {"app"}, split |-> {"auth", "users", "core"}]

-----------------------------------------------------------------------------
(* The controllers: their handlers in the order of declaration, each behind *)
(* the global prefix *)

Handler(verb, path, roles) ==
    [verb |-> verb, path |-> <<"api">> \o path, roles |-> roles, public |-> FALSE,
     limit |-> DefaultLimit]

Anyone == {}                   \* no @Roles
Admin  == {"ADMIN"}
Staff  == {"ADMIN", "STAFF"}

AuthController_noThrottle ==
    <<[Handler("POST", <<"auth", "login">>, Anyone) EXCEPT !.public = TRUE],
      [Handler("POST", <<"auth", "refresh">>, Anyone) EXCEPT !.public = TRUE],
      Handler("POST", <<"auth", "logout">>, Anyone)>>

AuthController ==
    <<[Handler("POST", <<"auth", "login">>, Anyone)
          EXCEPT !.public = TRUE, !.limit = LoginLimit],
      [Handler("POST", <<"auth", "refresh">>, Anyone)
          EXCEPT !.public = TRUE, !.limit = RefreshLimit],
      Handler("POST", <<"auth", "logout">>, Anyone)>>

UsersController ==
    <<Handler("GET",    <<"users", "me">>,  Anyone),
      Handler("GET",    <<"users">>,        Admin),
      Handler("GET",    <<"users", ":id">>, Admin),
      Handler("POST",   <<"users">>,        Admin),
      Handler("PATCH",  <<"users", ":id">>, Admin),
      Handler("DELETE", <<"users", ":id">>, Admin)>>

CustomersController ==
    <<Handler("GET",    <<"customers">>,        Anyone),
      Handler("GET",    <<"customers", ":id">>, Anyone),
      Handler("POST",   <<"customers">>,        Staff),
      Handler("PATCH",  <<"customers", ":id">>, Staff),
      Handler("DELETE", <<"customers", ":id">>, Staff)>>

InvoicesController ==
    <<Handler("GET",   <<"invoices">>,                  Anyone),
      Handler("GET",   <<"invoices", ":id">>,           Anyone),
      Handler("POST",  <<"invoices">>,                  Staff),
      Handler("PATCH", <<"invoices", ":id">>,           Staff),
      Handler("PATCH", <<"invoices", ":id", "status">>, Staff)>>

DashboardController == <<Handler("GET", <<"dashboard", "summary">>, Anyone)>>

HealthController ==
    <<[Handler("GET", <<"health">>, Anyone) EXCEPT !.public = TRUE]>>

\* The modules each process imports.
AuthService  == AuthController \o HealthController
UsersService == UsersController \o HealthController
CoreService  == CustomersController \o InvoicesController
                  \o DashboardController \o HealthController
App          == AuthController \o UsersController \o CoreService

Imports == [app |-> App, auth |-> AuthService, users |-> UsersService,
            core |-> CoreService]

-----------------------------------------------------------------------------
(* Routing *)

\* Express' router, by the verb and the segments.  That it also lets HEAD
\* through to a GET, ignores the case of letters and forgives a last slash is
\* left out.
Matches(handler, request) ==
    /\ handler.verb = request.verb /\ Len(handler.path) = Len(request.path)
    /\ \A k \in DOMAIN handler.path :
          handler.path[k] \in {":id", request.path[k]}

\* The gateway's table.
routes ==
    {[prefix |-> <<"api", "auth">>,      target |-> "auth"],
     [prefix |-> <<"api", "users">>,     target |-> "users"],
     [prefix |-> <<"api", "customers">>, target |-> "core"],
     [prefix |-> <<"api", "invoices">>,  target |-> "core"],
     [prefix |-> <<"api", "dashboard">>, target |-> "core"]}

pathRewrite_stripped(prefix, path) == path

pathRewrite(prefix, path) == prefix \o path

\* Express cuts the prefix off, pathRewrite puts it back.
Forwarded(route, request) ==
    [request EXCEPT !.path =
        pathRewrite(route.prefix, SubSeq(@, Len(route.prefix) + 1, Len(@)))]

\* Where a request ends up: the process, and the first of its handlers that
\* matches the path that got there, as an index into its Imports, or 0.
Arrival(process, request) ==
    [process |-> process,
     index   |-> SelectInSeq(Imports[process], LAMBDA h : Matches(h, request))]

Nowhere == [process |-> "none", index |-> 0]

Reached(request) ==
    IF deployment = "monolith" THEN Arrival("app", request)
    ELSE LET through == {rt \in routes : IsPrefix(rt.prefix, request.path)} IN
         IF through = {} THEN Nowhere
         ELSE LET route == CHOOSE rt \in through : TRUE
              IN  Arrival(route.target, Forwarded(route, request))

-----------------------------------------------------------------------------
(* The guards *)

Address(client) == IF deployment = "monolith" THEN client ELSE "gateway"

Key_perAddress(there, client) ==
    [process |-> there.process, handler |-> 0, address |-> Address(client)]

Key(there, client) ==
    [process |-> there.process, handler |-> there.index,
     address |-> Address(client)]

\* hits[n]: when the n-th request was, if it counts.
Fresh == [hits |-> <<>>, until |-> 0]

\* f with v at k.
Put(f, k, v) == [j \in DOMAIN f \cup {k} |-> IF j = k THEN v ELSE f[j]]

CounterOf(key) == IF key \in DOMAIN counters THEN counters[key] ELSE Fresh

\* ThrottlerStorageService.increment.  Each hit counts for Ttl; one more than
\* the limit blocks the key for Ttl, in which nothing is counted; the first
\* request after it stops afresh.
Increment(counter, limit) ==
    LET live == {n \in DOMAIN counter.hits : now < counter.hits[n] + Ttl}
        hit(hits) == Put(hits, Len(log) + 1, now)
    IN  IF counter.until > now THEN counter
        ELSE IF counter.until # 0 THEN [hits |-> hit(<<>>), until |-> 0]
        ELSE [hits  |-> hit(Restrict(counter.hits, live)),
              until |-> IF Cardinality(live) >= limit THEN now + Ttl ELSE 0]

JwtAuthGuard(handler, token) == handler.public \/ token # "none"

RolesGuard(handler, token) == handler.roles = {} \/ token \in handler.roles

\* The guards of a handler in their order; the filter makes a thrown refusal
\* the answer.
Guarded(handler, token, counter) ==
    IF counter.until > now THEN "tooMany"
    ELSE IF ~JwtAuthGuard(handler, token) THEN "unauthorized"
    ELSE IF ~RolesGuard(handler, token) THEN "forbidden" ELSE "handled"

\* What a request is answered now, and what it leaves of the counters.
Served(client, request, token) ==
    LET there == Reached(request) IN
    IF there.process \in up /\ there.index # 0
    THEN LET handler == Imports[there.process][there.index]
             key     == Key(there, client)
             counter == Increment(CounterOf(key), handler.limit)
         IN  [answer   |-> Guarded(handler, token, counter),
              counters |-> Put(counters, key, counter)]
    ELSE [answer   |-> IF there.process \in up \cup {"none"} THEN "notFound"
                                                            ELSE "unreachable",
          counters |-> counters]

-----------------------------------------------------------------------------
(* Steps *)

Init ==
    /\ deployment \in DOMAIN Process
    /\ up = Process[deployment]
    /\ counters = <<>>
    /\ now = 0
    /\ stops = <<>>
    /\ log = <<>>

Ask(client, sent) ==
    /\ Len(log) < MaxSent
    /\ LET served == Served(client, sent.request, sent.token)
       IN  /\ counters' = served.counters
           /\ log' = Append(log, [client |-> client, request |-> sent.request,
                                  at |-> now, answer |-> served.answer])
    /\ UNCHANGED <<deployment, up, now, stops>>

\* The counters a process keeps are in its memory.
Forget_nothing(p) == counters

Forget(p) == Restrict(counters, {k \in DOMAIN counters : k.process # p})

\* A process ends, and its throttler's memory with it.
Stop(p) ==
    /\ p \in up /\ Len(stops) < MaxStops
    /\ up' = up \ {p}
    /\ stops' = Append(stops, [process |-> p, at |-> now])
    /\ counters' = Forget(p)
    /\ UNCHANGED <<deployment, now, log>>

Start(p) ==
    /\ p \in Process[deployment] \ up
    /\ up' = up \cup {p}
    /\ UNCHANGED <<deployment, counters, now, stops, log>>

Tick ==
    /\ now < MaxTime
    /\ now' = now + 1
    /\ UNCHANGED <<deployment, up, counters, stops, log>>

Next ==
    \/ \E client \in Client, sent \in Sent : Ask(client, sent)
    \/ \E p \in Process[deployment] : Stop(p) \/ Start(p)
    \/ Tick

Spec == Init /\ [][Next]_vars

-----------------------------------------------------------------------------
(* Properties *)

\* A counter holds at most one hit more than the largest limit, and is kept by
\* a process that runs.
TypeOK ==
    /\ deployment \in DOMAIN Process
    /\ up \subseteq Process[deployment]
    /\ now \in 0..MaxTime
    /\ \A k \in DOMAIN counters :
          /\ k.process \in up
          /\ counters[k].until \in 0..(MaxTime + Ttl)
          /\ Cardinality(DOMAIN counters[k].hits) \in
                1..(1 + Max({LoginLimit, RefreshLimit, DefaultLimit}))

\* README.md, lines 125-145: the routes and who may use them, where "staff" is
\* the table's "ADMIN and STAFF".  "7" is an id.
Row(verb, path, access) ==
    [request |-> [verb |-> verb, path |-> <<"api">> \o path], access |-> access]

Documented ==
    {Row("POST",   <<"auth", "login">>,     "public"),
     Row("POST",   <<"auth", "refresh">>,   "public"),
     Row("POST",   <<"auth", "logout">>,    "auth"),
     Row("GET",    <<"users", "me">>,       "auth"),
     Row("GET",    <<"users">>,             "admin"),
     Row("GET",    <<"users", "7">>,        "admin"),
     Row("POST",   <<"users">>,             "admin"),
     Row("PATCH",  <<"users", "7">>,        "admin"),
     Row("DELETE", <<"users", "7">>,        "admin"),
     Row("GET",    <<"customers">>,         "auth"),
     Row("GET",    <<"customers", "7">>,    "auth"),
     Row("POST",   <<"customers">>,         "staff"),
     Row("PATCH",  <<"customers", "7">>,    "staff"),
     Row("DELETE", <<"customers", "7">>,    "staff"),
     Row("GET",    <<"invoices">>,          "auth"),
     Row("GET",    <<"invoices", "7">>,     "auth"),
     Row("POST",   <<"invoices">>,          "staff"),
     Row("PATCH",  <<"invoices", "7">>,     "staff"),
     Row("PATCH",  <<"invoices", "7", "status">>, "staff"),
     Row("GET",    <<"dashboard", "summary">>, "auth"),
     Row("GET",    <<"health">>,            "public")}

Granted == [public |-> Token, auth |-> Token \ {"none"},
            admin  |-> {"ADMIN"}, staff |-> {"ADMIN", "STAFF"}]

Allowed(access, token) ==
    IF token \in Granted[access] THEN "handled"
    ELSE IF token = "none" THEN "unauthorized" ELSE "forbidden"

\* The process that the split makes responsible for a route.
Owner(request) ==
    IF deployment = "monolith" THEN "app"
    ELSE IF request.path[2] \in {"auth", "users"} THEN request.path[2] ELSE "core"

\* In either deployment, at any time, each documented request is answered as
\* the README's table says, unless the process that owns its route is down
\* or the throttler refuses; a process that is down takes no other route with
\* it.  The exception is GET /api/health, which the gateway does not forward
\* although README.md, line 83, gives it on the gateway's port (gateway/main.ts,
\* lines 39-61, and the guards of core.module.ts).
AnswersAsDocumented ==
    \A row \in Documented, token \in Token, client \in Client :
        LET answer == Served(client, row.request, token).answer IN
        IF deployment = "split" /\ row.request.path[2] = "health"
        THEN answer = "notFound"
        ELSE IF Owner(row.request) \notin up THEN answer = "unreachable"
        ELSE answer \in {Allowed(row.access, token), "tooMany"}

Login == [verb |-> "POST", path |-> <<"api", "auth", "login">>]

\* From one address no more logins get through to the handler within a window
\* than the limit, and as many again for each time its process ended in
\* that window (auth.controller.ts, lines 33-35).
LoginBudget ==
    \A client \in Client :
        Cardinality({k \in DOMAIN log :
            /\ log[k].request = Login /\ log[k].answer = "handled"
            /\ Address(log[k].client) = Address(client)
            /\ now < log[k].at + Ttl})
          <= LoginLimit * (1 + Cardinality({k \in DOMAIN stops :
                /\ stops[k].process = Owner(Login)
                /\ now < stops[k].at + Ttl}))

\* Whoever is told to slow down shares an address with clients that sent more
\* requests to that one handler than its limit, within the last two windows;
\* what they sent to other handlers is not held against them.
RefusalsEarned ==
    \A k \in DOMAIN log : log[k].answer = "tooMany" =>
        LET there == Reached(log[k].request) IN
        Cardinality({n \in 1..k :
            /\ Reached(log[n].request) = there
            /\ Address(log[n].client) = Address(log[k].client)
            /\ log[k].at < log[n].at + 2 * Ttl})
          > Imports[there.process][there.index].limit

-----------------------------------------------------------------------------
(* Why *)

\* What the throttler counts the k-th request under.
KeyOf(k) == Key(Reached(log[k].request), log[k].client)

limitOf(key) == Imports[key.process][key.handler].limit

\* A counter holds requests of its own, as many as its handler's limit or,
\* while it blocks, the one more that was refused; what it blocks with is less
\* than two windows old when the block ends, and no longer live.
CountersInv ==
    \A key \in DOMAIN counters : \E c \in {counters[key]} :
        /\ \A n \in DOMAIN c.hits :
              n \in DOMAIN log /\ KeyOf(n) = key /\ c.hits[n] = log[n].at
        /\ c.until = 0 => Cardinality(DOMAIN c.hits) <= limitOf(key)
        /\ c.until # 0 =>
              /\ Cardinality(DOMAIN c.hits) = limitOf(key) + 1
              /\ \E n \in DOMAIN c.hits : log[n].answer # "handled"
              /\ \A n \in DOMAIN c.hits :
                    c.hits[n] + Ttl <= c.until /\ c.until < c.hits[n] + 2 * Ttl

Through(key, t) == {k \in DOMAIN log : /\ log[k].answer = "handled"
                                      /\ KeyOf(k) = key /\ t < log[k].at + Ttl}

Ends(process, t) == {k \in DOMAIN stops : /\ stops[k].process = process
                                         /\ t < stops[k].at + Ttl}

Covered(key, t) ==
    LET through == Through(key, t) IN
    Cardinality(through)
      <= limitOf(key) * Cardinality(Ends(key.process, t))
           + Cardinality(through \cap DOMAIN CounterOf(key).hits)

\* From now on, whatever got through and is not in the counter has been
\* forgotten when the process ended.
BudgetInv ==
    \A p \in DOMAIN Imports, a \in Client \cup {"gateway"} :
        \A i \in DOMAIN Imports[p], t \in now..(MaxTime + Ttl) :
            Covered([process |-> p, handler |-> i, address |-> a], t)
=============================================================================
