---------------------------- MODULE GatewayProofs ----------------------------
(***************************************************************************)
(* Theorems about Gateway: where requests go in either deployment and whom *)
(* the guards let in, and what the throttler's counters are worth, for any *)
(* clients, requests, limits, windows and ends of processes.               *)
(***************************************************************************)
EXTENDS Gateway, FiniteSetTheorems, SequenceTheorems, TLAPS

-----------------------------------------------------------------------------
(* The handlers and their limits *)

Limits == {LoginLimit, RefreshLimit, DefaultLimit}

\* The handlers of a controller with n of them.
Of(controller, n) == {controller[i] : i \in 1..n}

Handlers ==
    Of(AuthController, 3) \cup Of(UsersController, 6)
      \cup Of(CustomersController, 5) \cup Of(InvoicesController, 5)
      \cup Of(DashboardController, 1) \cup Of(HealthController, 1)

\* Every handler has one of the three limits.
LEMMA LimitsAre ==
    /\ \A p \in DOMAIN Imports :
          /\ Imports[p] \in Seq(Handlers)
          /\ \A i \in DOMAIN Imports[p] : Imports[p][i].limit \in Limits
    /\ AuthController \in Seq(Handlers) /\ UsersController \in Seq(Handlers)
    /\ CustomersController \in Seq(Handlers) /\ InvoicesController \in Seq(Handlers)
    /\ DashboardController \in Seq(Handlers) /\ HealthController \in Seq(Handlers)
    /\ CoreService \in Seq(Handlers)
<1>1. /\ AuthController \in Seq(Of(AuthController, 3))
      /\ \A h \in Of(AuthController, 3) : h.limit \in Limits
  <2>1. \A i \in 1..3 : AuthController[i].limit \in Limits
    <3>1. AuthController[1].limit = LoginLimit
      BY DEF AuthController, Handler
    <3>2. AuthController[2].limit = RefreshLimit
      BY DEF AuthController, Handler
    <3>3. AuthController[3].limit = DefaultLimit
      BY DEF AuthController, Handler
    <3>4. \A i \in 1..3 : i = 1 \/ i = 2 \/ i = 3
      OBVIOUS
    <3> QED BY <3>1, <3>2, <3>3, <3>4 DEF Limits
  <2>2. AuthController \in Seq(Of(AuthController, 3))
    BY DEF Of, AuthController
  <2> QED BY <2>1, <2>2 DEF Of
<1>2. /\ UsersController \in Seq(Of(UsersController, 6))
      /\ \A h \in Of(UsersController, 6) : h.limit \in Limits
  <2>1. \A i \in 1..6 : UsersController[i].limit \in Limits
    BY DEF UsersController, Handler, Limits
  <2>2. UsersController \in Seq(Of(UsersController, 6))
    BY DEF Of, UsersController
  <2> QED BY <2>1, <2>2 DEF Of
<1>3. /\ CustomersController \in Seq(Of(CustomersController, 5))
      /\ \A h \in Of(CustomersController, 5) : h.limit \in Limits
  <2>1. \A i \in 1..5 : CustomersController[i].limit \in Limits
    BY DEF CustomersController, Handler, Limits
  <2>2. CustomersController \in Seq(Of(CustomersController, 5))
    BY DEF Of, CustomersController
  <2> QED BY <2>1, <2>2 DEF Of
<1>4. /\ InvoicesController \in Seq(Of(InvoicesController, 5))
      /\ \A h \in Of(InvoicesController, 5) : h.limit \in Limits
  <2>1. \A i \in 1..5 : InvoicesController[i].limit \in Limits
    BY DEF InvoicesController, Handler, Limits
  <2>2. InvoicesController \in Seq(Of(InvoicesController, 5))
    BY DEF Of, InvoicesController
  <2> QED BY <2>1, <2>2 DEF Of
<1>5. /\ DashboardController \in Seq(Of(DashboardController, 1))
      /\ \A h \in Of(DashboardController, 1) : h.limit \in Limits
  <2>1. \A i \in 1..1 : DashboardController[i].limit \in Limits
    BY DEF DashboardController, Handler, Limits
  <2>2. DashboardController \in Seq(Of(DashboardController, 1))
    BY DEF Of, DashboardController
  <2> QED BY <2>1, <2>2 DEF Of
<1>6. /\ HealthController \in Seq(Of(HealthController, 1))
      /\ \A h \in Of(HealthController, 1) : h.limit \in Limits
  <2>1. \A i \in 1..1 : HealthController[i].limit \in Limits
    BY DEF HealthController, Handler, Limits
  <2>2. HealthController \in Seq(Of(HealthController, 1))
    <3>1. PICK h : HealthController = <<h>>
      BY DEF HealthController
    <3>2. h \in Of(HealthController, 1)
      BY <3>1 DEF Of
    <3> QED BY <3>1, <3>2
  <2> QED BY <2>1, <2>2 DEF Of
<1>7. \A h \in Handlers : h.limit \in Limits
  BY <1>1, <1>2, <1>3, <1>4, <1>5, <1>6 DEF Handlers
<1>8. /\ AuthController \in Seq(Handlers) /\ UsersController \in Seq(Handlers)
      /\ CustomersController \in Seq(Handlers) /\ InvoicesController \in Seq(Handlers)
      /\ DashboardController \in Seq(Handlers) /\ HealthController \in Seq(Handlers)
  BY <1>1, <1>2, <1>3, <1>4, <1>5, <1>6, SeqMonotonic DEF Handlers
<1>9. /\ AuthService \in Seq(Handlers) /\ UsersService \in Seq(Handlers)
      /\ CoreService \in Seq(Handlers)
  BY <1>8 DEF AuthService, UsersService, CoreService
<1>10. App \in Seq(Handlers)
  BY <1>8, <1>9 DEF App
<1>11. \A p \in DOMAIN Imports : Imports[p] \in Seq(Handlers)
  BY <1>9, <1>10 DEF Imports
<1> QED BY <1>7, <1>8, <1>9, <1>11, ElementOfSeq, LenProperties

-----------------------------------------------------------------------------
(* Routes *)

LEMMA LeastOf ==
    ASSUME NEW I \in SUBSET Nat, I # {}
    PROVE  Min(I) \in I /\ \A i \in I : Min(I) <= i
<1> DEFINE less == {ss \in Nat \X Nat : ss[1] < ss[2]}
<1>1. PICK m \in I : \A i \in I : ~(<<i, m>> \in less)
  <2>1. IsWellFoundedOn(less, Nat)
    BY NatLessThanWellFounded DEF OpToRel
  <2> HIDE DEF less
  <2> QED BY <2>1, WFMin
<1>2. ASSUME NEW i \in I PROVE m <= i
  <2>1. ~(i < m)
    BY <1>1
  <2> QED BY <2>1
<1> QED BY <1>2 DEF Min

\* A request arrives at no handler or at one of the process's.
LEMMA ArrivesSomewhere ==
    ASSUME NEW p \in DOMAIN Imports, NEW request, NEW there,
           there = Arrival(p, request)
    PROVE  /\ there.process = p /\ there.index \in {0} \cup DOMAIN Imports[p]
           /\ there = [process |-> p, index |-> there.index]
           /\ 1 \in DOMAIN Imports[p] /\ Matches(Imports[p][1], request)
                 => there = [process |-> p, index |-> 1]
<1> DEFINE I == {i \in 1..Len(Imports[p]) : Matches(Imports[p][i], request)}
<1>1. DOMAIN Imports[p] = 1..Len(Imports[p]) /\ Len(Imports[p]) \in Nat
  BY LimitsAre, LenProperties
<1>2. there = [process |-> p, index |-> IF I # {} THEN Min(I) ELSE 0]
  BY DEF Arrival, SelectInSeq
<1>3. I \in SUBSET Nat /\ I \in SUBSET (1..Len(Imports[p]))
  OBVIOUS
<1>4. I # {} => Min(I) \in I /\ \A i \in I : Min(I) <= i
  BY <1>3, LeastOf
<1>5. 1 \in DOMAIN Imports[p] /\ Matches(Imports[p][1], request) => 1 \in I
  BY <1>1
<1>6. 1 \in I => Min(I) = 1
  BY <1>3, <1>4
<1> HIDE DEF I
<1>7. /\ there.index = (IF I # {} THEN Min(I) ELSE 0) /\ there.process = p
      /\ there = [process |-> p, index |-> there.index]
  BY <1>2
<1>8. there.index \in {0} \cup DOMAIN Imports[p]
  BY <1>1, <1>3, <1>4, <1>7
<1>9. 1 \in I => there = [process |-> p, index |-> 1]
  BY <1>2, <1>6
<1> QED BY <1>5, <1>7, <1>8, <1>9

\* A request arrives at the first of the process's handlers that match it.
LEMMA ArrivesFirst ==
    ASSUME NEW p \in DOMAIN Imports, NEW request, NEW there,
           there = Arrival(p, request),
           NEW j \in DOMAIN Imports[p], Matches(Imports[p][j], request)
    PROVE  /\ there.process = p /\ there.index \in DOMAIN Imports[p]
           /\ there.index # 0 /\ there.index <= j
           /\ Matches(Imports[p][there.index], request)
<1> DEFINE I == {i \in 1..Len(Imports[p]) : Matches(Imports[p][i], request)}
<1>1. DOMAIN Imports[p] = 1..Len(Imports[p]) /\ Len(Imports[p]) \in Nat
  BY LimitsAre, LenProperties
<1>2. there = [process |-> p, index |-> IF I # {} THEN Min(I) ELSE 0]
  BY DEF Arrival, SelectInSeq
<1>3. I \in SUBSET Nat /\ I \in SUBSET (DOMAIN Imports[p]) /\ j \in I
  BY <1>1
<1>4. Min(I) \in I /\ Min(I) <= j
  BY <1>3, LeastOf
<1>5. \A i \in I : Matches(Imports[p][i], request) /\ i # 0
  BY <1>1
<1> HIDE DEF I
<1>6. there.process = p /\ there.index = Min(I)
  BY <1>2, <1>3
<1> QED BY <1>3, <1>4, <1>5, <1>6

\* What the gateway cuts off a path is what pathRewrite puts back.
LEMMA ForwardedWhole ==
    ASSUME NEW S, NEW path \in Seq(S), NEW verb, NEW request,
           request = [verb |-> verb, path |-> path],
           NEW rt, rt.prefix \in Seq(S), IsPrefix(rt.prefix, path)
    PROVE  Forwarded(rt, request) = request
<1>1. PICK pre, n, m : pre = rt.prefix /\ n = Len(pre) /\ m = Len(path)
  OBVIOUS
<1>2. n \in Nat /\ m \in Nat /\ n <= m /\ SubSeq(pre, 1, n) = SubSeq(path, 1, n)
  BY <1>1, LenProperties DEF IsPrefix
<1>3. pre = SubSeq(path, 1, n)
  BY <1>1, <1>2, SubSeqFull
<1>4. SubSeq(path, 1, n) \o SubSeq(path, n + 1, m) = SubSeq(path, 1, m)
  <2>1. /\ 1 \in 1..(Len(path) + 1) /\ n \in (1 - 1)..Len(path)
        /\ m \in n..Len(path)
    BY <1>1, <1>2
  <2> QED BY <2>1, ConcatAdjacentSubSeq
<1>5. pre \o SubSeq(path, n + 1, m) = path
  BY <1>1, <1>3, <1>4, SubSeqFull
<1>6. Forwarded(rt, request) = [request EXCEPT !.path = pre \o SubSeq(path, n + 1, m)]
  BY <1>1 DEF Forwarded, pathRewrite
<1> QED BY <1>5, <1>6

\* A path of n segments, the first of them "api", then s and, where it goes on,
\* t and "status".
Spells(path, n, s, t) ==
    /\ \E S : path \in Seq(S)
    /\ Len(path) = n /\ path[1] = "api" /\ path[2] = s
    /\ n > 2 => path[3] = t
    /\ n > 3 => path[4] = "status"

LEMMA Spelled ==
    ASSUME NEW s, NEW t
    PROVE  /\ Spells(<<"api">> \o <<s>>, 2, s, t)
           /\ Spells(<<"api">> \o <<s, t>>, 3, s, t)
           /\ Spells(<<"api">> \o <<s, t, "status">>, 4, s, t)
<1> DEFINE S == {"api", "status", s, t}
<1>1. /\ <<"api">> \in Seq(S) /\ <<s>> \in Seq(S)
      /\ <<s, t>> \in Seq(S) /\ <<s, t, "status">> \in Seq(S)
  OBVIOUS
<1>2. ASSUME NEW q \in Seq(S), NEW n, n = Len(q) + 1, n \in 2..4, q[1] = s,
             n > 2 => q[2] = t, n > 3 => q[3] = "status"
      PROVE  Spells(<<"api">> \o q, n, s, t)
  <2>1. PICK a : a = <<"api">>
    OBVIOUS
  <2>2. a \in Seq(S) /\ Len(a) = 1 /\ a[1] = "api"
    BY <1>1, <2>1
  <2> HIDE DEF S
  <2>3. a \o q \in Seq(S)
    BY <2>2, ConcatProperties
  <2>4. PICK path : path = a \o q
    OBVIOUS
  <2>5. Len(path) = n
    <3>1. Len(path) = Len(a) + Len(q)
      BY <2>2, <2>4, ConcatProperties
    <3>2. Len(q) \in Nat
      BY LenProperties
    <3> QED BY <1>2, <2>2, <3>1, <3>2
  <2>a. \A i \in 1..(Len(a) + Len(q)) :
           path[i] = IF i <= Len(a) THEN a[i] ELSE q[i - Len(a)]
    BY <1>2, <2>2, <2>4, ConcatProperties
  <2>b. /\ Len(a) = 1 /\ Len(q) = n - 1 /\ n \in 2..4
        /\ Len(a) + Len(q) = n
    BY <1>2, <2>2, LenProperties
  <2>6. ASSUME NEW i, i = 1 PROVE path[i] = a[1]
    BY <2>6, <2>a, <2>b
  <2>7. ASSUME NEW i, i = 2 PROVE path[i] = q[1]
    BY <2>7, <2>a, <2>b
  <2>8. ASSUME NEW i, i = 3, n > 2 PROVE path[i] = q[2]
    BY <2>8, <2>a, <2>b
  <2>9. ASSUME NEW i, i = 4, n > 3 PROVE path[i] = q[3]
    BY <2>9, <2>a, <2>b
  <2>10. Spells(path, n, s, t)
    BY <1>2, <2>2, <2>3, <2>4, <2>5, <2>6, <2>7, <2>8, <2>9 DEF Spells
  <2> QED BY <2>1, <2>4, <2>10
<1>3. Spells(<<"api">> \o <<s>>, 2, s, t)
  <2>1. PICK q : q = <<s>>
    OBVIOUS
  <2>2. PICK n : n = 2
    OBVIOUS
  <2>3. /\ q \in Seq(S) /\ n = Len(q) + 1 /\ n \in 2..4 /\ q[1] = s
        /\ (n > 2 => q[2] = t) /\ (n > 3 => q[3] = "status")
    BY <2>1, <2>2
  <2>4. Spells(<<"api">> \o q, n, s, t)
    BY <1>2, <2>3, Zenon
  <2> QED BY <2>1, <2>2, <2>4, Zenon
<1>4. Spells(<<"api">> \o <<s, t>>, 3, s, t)
  <2>1. PICK q : q = <<s, t>>
    OBVIOUS
  <2>2. PICK n : n = 3
    OBVIOUS
  <2>3. /\ q \in Seq(S) /\ n = Len(q) + 1 /\ n \in 2..4 /\ q[1] = s
        /\ (n > 2 => q[2] = t) /\ (n > 3 => q[3] = "status")
    BY <2>1, <2>2
  <2>4. Spells(<<"api">> \o q, n, s, t)
    BY <1>2, <2>3, Zenon
  <2> QED BY <2>1, <2>2, <2>4, Zenon
<1>5. Spells(<<"api">> \o <<s, t, "status">>, 4, s, t)
  <2>1. PICK q : q = <<s, t, "status">>
    OBVIOUS
  <2>2. PICK n : n = 4
    OBVIOUS
  <2>3. /\ q \in Seq(S) /\ n = Len(q) + 1 /\ n \in 2..4 /\ q[1] = s
        /\ (n > 2 => q[2] = t) /\ (n > 3 => q[3] = "status")
    BY <2>1, <2>2
  <2>4. Spells(<<"api">> \o q, n, s, t)
    BY <1>2, <2>3, Zenon
  <2> QED BY <2>1, <2>2, <2>4, Zenon
<1> QED BY <1>3, <1>4, <1>5

\* A handler with n segments, s and t matches a request with m, u and w, if and
\* only if they match segment by segment.
MatchesBySegment(h, n, s, t, r, m, u, w) ==
    Matches(h, r) <=> /\ h.verb = r.verb /\ n = m /\ s \in {":id", u}
                      /\ n > 2 => t \in {":id", w}

LEMMA MatchingIs ==
    ASSUME NEW h, NEW n \in 2..4, NEW s, NEW t, Spells(h.path, n, s, t),
           NEW r, NEW m \in 2..4, NEW u, NEW w, Spells(r.path, m, u, w)
    PROVE  MatchesBySegment(h, n, s, t, r, m, u, w)
<1>1. /\ DOMAIN h.path = 1..n /\ Len(h.path) = n /\ Len(r.path) = m
      /\ h.path[1] = "api" /\ h.path[2] = s /\ r.path[1] = "api" /\ r.path[2] = u
      /\ (n > 2 => h.path[3] = t) /\ (m > 2 => r.path[3] = w)
      /\ (n > 3 => h.path[4] = "status") /\ (m > 3 => r.path[4] = "status")
  BY LenProperties DEF Spells
<1>2. ASSUME Matches(h, r)
      PROVE  /\ h.verb = r.verb /\ n = m /\ s \in {":id", u}
             /\ n > 2 => t \in {":id", w}
  <2>1. /\ h.verb = r.verb /\ n = m
        /\ \A k \in 1..n : h.path[k] \in {":id", r.path[k]}
    BY <1>1, <1>2 DEF Matches
  <2>2. 2 \in 1..n /\ (n > 2 => 3 \in 1..n)
    OBVIOUS
  <2> QED BY <1>1, <2>1, <2>2
<1>3. ASSUME h.verb = r.verb, n = m, s \in {":id", u}, n > 2 => t \in {":id", w}
      PROVE  Matches(h, r)
  <2>1. \A k \in 1..n : k = 1 \/ k = 2 \/ (k = 3 /\ n > 2) \/ (k = 4 /\ n > 3)
    OBVIOUS
  <2>2. \A k \in 1..n : h.path[k] \in {":id", r.path[k]}
    BY <1>1, <1>3, <2>1
  <2> QED BY <1>1, <1>3, <2>2 DEF Matches
<1> QED BY <1>2, <1>3 DEF MatchesBySegment

\* Who may use a route, by its verb and its segments.
Rule(verb, n, s, t) ==
    IF s = "health" \/ (s = "auth" /\ t \in {"login", "refresh"}) THEN "public"
    ELSE IF s = "users" /\ ~(verb = "GET" /\ n = 3 /\ t = "me") THEN "admin"
    ELSE IF s \in {"customers", "invoices"} /\ verb # "GET" THEN "staff"
    ELSE "auth"

\* The decorators that make a route's access what it is.
Grants(h, access) ==
    /\ h.public = (access = "public")
    /\ h.roles = IF access = "admin" THEN Admin
                 ELSE IF access = "staff" THEN Staff ELSE Anyone

\* A handler whose decorators say what the rule says.
RuledAs(h, verb, n, s, t) ==
    /\ h.verb = verb /\ Spells(h.path, n, s, t)
    /\ s # ":id" /\ (t = ":id" => s \in {"users", "customers", "invoices"})
    /\ (s = "auth" => n = 3)
    /\ Grants(h, Rule(verb, n, s, t))

Ruled(h) == \E verb, s, t : \E n \in 2..4 : RuledAs(h, verb, n, s, t)

LEMMA AuthRuled ==
    /\ RuledAs(AuthController[1], "POST", 3, "auth", "login")
    /\ RuledAs(AuthController[2], "POST", 3, "auth", "refresh")
    /\ RuledAs(AuthController[3], "POST", 3, "auth", "logout")
<1>1. RuledAs(AuthController[1], "POST", 3, "auth", "login")
  BY Spelled DEF RuledAs, Grants, Rule, AuthController, Handler
<1>2. RuledAs(AuthController[2], "POST", 3, "auth", "refresh")
  BY Spelled DEF RuledAs, Grants, Rule, AuthController, Handler
<1>3. RuledAs(AuthController[3], "POST", 3, "auth", "logout")
  BY Spelled DEF RuledAs, Grants, Rule, AuthController, Handler
<1> QED BY <1>1, <1>2, <1>3

LEMMA UsersRuled ==
    /\ RuledAs(UsersController[1], "GET", 3, "users", "me")
    /\ RuledAs(UsersController[2], "GET", 2, "users", "-")
    /\ RuledAs(UsersController[3], "GET", 3, "users", ":id")
    /\ RuledAs(UsersController[4], "POST", 2, "users", "-")
    /\ RuledAs(UsersController[5], "PATCH", 3, "users", ":id")
    /\ RuledAs(UsersController[6], "DELETE", 3, "users", ":id")
<1>1. RuledAs(UsersController[1], "GET", 3, "users", "me")
  BY Spelled DEF RuledAs, Grants, Rule, UsersController, Handler
<1>2. RuledAs(UsersController[2], "GET", 2, "users", "-")
  BY Spelled DEF RuledAs, Grants, Rule, UsersController, Handler
<1>3. RuledAs(UsersController[3], "GET", 3, "users", ":id")
  BY Spelled DEF RuledAs, Grants, Rule, UsersController, Handler
<1>4. RuledAs(UsersController[4], "POST", 2, "users", "-")
  BY Spelled DEF RuledAs, Grants, Rule, UsersController, Handler
<1>5. RuledAs(UsersController[5], "PATCH", 3, "users", ":id")
  BY Spelled DEF RuledAs, Grants, Rule, UsersController, Handler
<1>6. RuledAs(UsersController[6], "DELETE", 3, "users", ":id")
  BY Spelled DEF RuledAs, Grants, Rule, UsersController, Handler
<1> QED BY <1>1, <1>2, <1>3, <1>4, <1>5, <1>6

LEMMA CustomersRuled ==
    /\ RuledAs(CustomersController[1], "GET", 2, "customers", "-")
    /\ RuledAs(CustomersController[2], "GET", 3, "customers", ":id")
    /\ RuledAs(CustomersController[3], "POST", 2, "customers", "-")
    /\ RuledAs(CustomersController[4], "PATCH", 3, "customers", ":id")
    /\ RuledAs(CustomersController[5], "DELETE", 3, "customers", ":id")
<1>1. RuledAs(CustomersController[1], "GET", 2, "customers", "-")
  BY Spelled DEF RuledAs, Grants, Rule, CustomersController, Handler
<1>2. RuledAs(CustomersController[2], "GET", 3, "customers", ":id")
  BY Spelled DEF RuledAs, Grants, Rule, CustomersController, Handler
<1>3. RuledAs(CustomersController[3], "POST", 2, "customers", "-")
  BY Spelled DEF RuledAs, Grants, Rule, CustomersController, Handler
<1>4. RuledAs(CustomersController[4], "PATCH", 3, "customers", ":id")
  BY Spelled DEF RuledAs, Grants, Rule, CustomersController, Handler
<1>5. RuledAs(CustomersController[5], "DELETE", 3, "customers", ":id")
  BY Spelled DEF RuledAs, Grants, Rule, CustomersController, Handler
<1> QED BY <1>1, <1>2, <1>3, <1>4, <1>5

LEMMA InvoicesRuled ==
    /\ RuledAs(InvoicesController[1], "GET", 2, "invoices", "-")
    /\ RuledAs(InvoicesController[2], "GET", 3, "invoices", ":id")
    /\ RuledAs(InvoicesController[3], "POST", 2, "invoices", "-")
    /\ RuledAs(InvoicesController[4], "PATCH", 3, "invoices", ":id")
    /\ RuledAs(InvoicesController[5], "PATCH", 4, "invoices", ":id")
<1>1. RuledAs(InvoicesController[1], "GET", 2, "invoices", "-")
  BY Spelled DEF RuledAs, Grants, Rule, InvoicesController, Handler
<1>2. RuledAs(InvoicesController[2], "GET", 3, "invoices", ":id")
  BY Spelled DEF RuledAs, Grants, Rule, InvoicesController, Handler
<1>3. RuledAs(InvoicesController[3], "POST", 2, "invoices", "-")
  BY Spelled DEF RuledAs, Grants, Rule, InvoicesController, Handler
<1>4. RuledAs(InvoicesController[4], "PATCH", 3, "invoices", ":id")
  BY Spelled DEF RuledAs, Grants, Rule, InvoicesController, Handler
<1>5. RuledAs(InvoicesController[5], "PATCH", 4, "invoices", ":id")
  BY Spelled DEF RuledAs, Grants, Rule, InvoicesController, Handler
<1> QED BY <1>1, <1>2, <1>3, <1>4, <1>5

LEMMA DashboardRuled ==
    /\ RuledAs(DashboardController[1], "GET", 3, "dashboard", "summary")
<1>1. RuledAs(DashboardController[1], "GET", 3, "dashboard", "summary")
  BY Spelled DEF RuledAs, Grants, Rule, DashboardController, Handler
<1> QED BY <1>1

LEMMA HealthRuled ==
    /\ RuledAs(HealthController[1], "GET", 2, "health", "-")
<1>1. RuledAs(HealthController[1], "GET", 2, "health", "-")
  BY Spelled DEF RuledAs, Grants, Rule, HealthController, Handler
<1> QED BY <1>1

LEMMA AllRuled == \A h \in Handlers : Ruled(h)
<1>1. \A h \in Of(AuthController, 3) : Ruled(h)
  <2>1. \A i \in 1..3 : i = 1 \/ i = 2 \/ i = 3
    OBVIOUS
  <2> QED BY <2>1, AuthRuled DEF Of, Ruled
<1>2. \A h \in Of(UsersController, 6) : Ruled(h)
  <2>1. \A i \in 1..6 : i = 1 \/ i = 2 \/ i = 3 \/ i = 4 \/ i = 5 \/ i = 6
    OBVIOUS
  <2> QED BY <2>1, UsersRuled DEF Of, Ruled
<1>3. \A h \in Of(CustomersController, 5) : Ruled(h)
  <2>1. \A i \in 1..5 : i = 1 \/ i = 2 \/ i = 3 \/ i = 4 \/ i = 5
    OBVIOUS
  <2> QED BY <2>1, CustomersRuled DEF Of, Ruled
<1>4. \A h \in Of(InvoicesController, 5) : Ruled(h)
  <2>1. \A i \in 1..5 : i = 1 \/ i = 2 \/ i = 3 \/ i = 4 \/ i = 5
    OBVIOUS
  <2> QED BY <2>1, InvoicesRuled DEF Of, Ruled
<1>5. \A h \in Of(DashboardController, 1) : Ruled(h)
  <2>1. \A i \in 1..1 : i = 1
    OBVIOUS
  <2> QED BY <2>1, DashboardRuled DEF Of, Ruled
<1>6. \A h \in Of(HealthController, 1) : Ruled(h)
  <2>1. \A i \in 1..1 : i = 1
    OBVIOUS
  <2> QED BY <2>1, HealthRuled DEF Of, Ruled
<1> QED BY <1>1, <1>2, <1>3, <1>4, <1>5, <1>6 DEF Handlers

\* What the list j of handlers is, when it is s followed by t.
Joins(j, s, t) ==
    /\ j \in Seq(Handlers) /\ DOMAIN j = 1..(Len(s) + Len(t))
    /\ Len(s) \in Nat /\ Len(t) \in Nat /\ Len(j) = Len(s) + Len(t)
    /\ Range(j) = Range(s) \cup Range(t)
    /\ \A i \in 1..Len(s) : j[i] = s[i]
    /\ \A i \in 1..Len(t) : j[Len(s) + i] = t[i]

LEMMA Joined ==
    ASSUME NEW s \in Seq(Handlers), NEW t \in Seq(Handlers), NEW j, j = s \o t
    PROVE  Joins(j, s, t)
<1>1. j \in Seq(Handlers) /\ Len(s) \in Nat /\ Len(t) \in Nat
  BY ConcatProperties, LenProperties
<1>2. Len(j) = Len(s) + Len(t)
  BY ConcatProperties
<1>3. DOMAIN j = 1..(Len(s) + Len(t))
  BY <1>1, <1>2, LenProperties
<1>4. Range(j) = Range(s) \cup Range(t)
  BY RangeConcatenation
<1>5. ASSUME NEW i \in 1..Len(s) PROVE j[i] = s[i]
  BY <1>1, ConcatProperties
<1>6. ASSUME NEW i \in 1..Len(t) PROVE j[Len(s) + i] = t[i]
  BY <1>1, ConcatProperties
<1> QED BY <1>1, <1>2, <1>3, <1>4, <1>5, <1>6 DEF Joins

\* How the lists of the processes are put together.
Lists(ci, cid, au) ==
    /\ Joins(AuthService, AuthController, HealthController)
    /\ Joins(UsersService, UsersController, HealthController)
    /\ Joins(ci, CustomersController, InvoicesController)
    /\ Joins(cid, ci, DashboardController)
    /\ Joins(CoreService, cid, HealthController)
    /\ Joins(au, AuthController, UsersController)
    /\ Joins(App, au, CoreService)

LEMMA ListsAre == \E ci, cid, au : Lists(ci, cid, au)
<1>1. PICK ci, cid, au :
         /\ ci = CustomersController \o InvoicesController
         /\ cid = ci \o DashboardController
         /\ au = AuthController \o UsersController
  OBVIOUS
<1>2. /\ Joins(AuthService, AuthController, HealthController)
      /\ Joins(UsersService, UsersController, HealthController)
      /\ Joins(ci, CustomersController, InvoicesController)
      /\ Joins(au, AuthController, UsersController)
  BY <1>1, LimitsAre, Joined DEF AuthService, UsersService
<1>3. Joins(cid, ci, DashboardController)
  <2>1. ci \in Seq(Handlers)
    BY <1>2 DEF Joins
  <2> QED BY <1>1, <2>1, LimitsAre, Joined
<1>4. Joins(CoreService, cid, HealthController)
  <2>1. cid \in Seq(Handlers) /\ CoreService = cid \o HealthController
    BY <1>1, <1>3 DEF Joins, CoreService
  <2> QED BY <2>1, LimitsAre, Joined
<1>5. Joins(App, au, CoreService)
  <2>1. au \in Seq(Handlers) /\ App = au \o CoreService
    BY <1>1, <1>2 DEF Joins, App
  <2> QED BY <2>1, LimitsAre, Joined
<1> QED BY <1>2, <1>3, <1>4, <1>5 DEF Lists

LEMMA Imported ==
    /\ Handlers \subseteq Range(App)
    /\ Of(AuthController, 3) \subseteq Range(AuthService)
    /\ Of(UsersController, 6) \subseteq Range(UsersService)
    /\ Of(CustomersController, 5) \cup Of(InvoicesController, 5)
         \cup Of(DashboardController, 1) \subseteq Range(CoreService)
<1>1. /\ Of(AuthController, 3) \subseteq Range(AuthController)
      /\ Of(UsersController, 6) \subseteq Range(UsersController)
      /\ Of(CustomersController, 5) \subseteq Range(CustomersController)
      /\ Of(InvoicesController, 5) \subseteq Range(InvoicesController)
      /\ Of(DashboardController, 1) \subseteq Range(DashboardController)
      /\ Of(HealthController, 1) \subseteq Range(HealthController)
  <2>1. Of(AuthController, 3) \subseteq Range(AuthController)
    BY DEF Of, Range, AuthController
  <2>2. Of(UsersController, 6) \subseteq Range(UsersController)
    BY DEF Of, Range, UsersController
  <2>3. Of(CustomersController, 5) \subseteq Range(CustomersController)
    BY DEF Of, Range, CustomersController
  <2>4. Of(InvoicesController, 5) \subseteq Range(InvoicesController)
    BY DEF Of, Range, InvoicesController
  <2>5. Of(DashboardController, 1) \subseteq Range(DashboardController)
    BY DEF Of, Range, DashboardController
  <2>6. Of(HealthController, 1) \subseteq Range(HealthController)
    <3>1. PICK h : HealthController = <<h>>
      BY DEF HealthController
    <3> QED BY <3>1 DEF Of, Range
  <2> QED BY <2>1, <2>2, <2>3, <2>4, <2>5, <2>6
<1>2. PICK ci, cid, au : Lists(ci, cid, au)
  BY ListsAre
<1>3. /\ Range(AuthService) = Range(AuthController) \cup Range(HealthController)
      /\ Range(UsersService) = Range(UsersController) \cup Range(HealthController)
      /\ Range(ci) = Range(CustomersController) \cup Range(InvoicesController)
      /\ Range(cid) = Range(ci) \cup Range(DashboardController)
      /\ Range(au) = Range(AuthController) \cup Range(UsersController)
      /\ Range(CoreService) = Range(cid) \cup Range(HealthController)
      /\ Range(App) = Range(au) \cup Range(CoreService)
  BY <1>2 DEF Lists, Joins
<1> QED BY <1>1, <1>3 DEF Handlers

LEMMA FirstOfUsers ==
    /\ \A i \in 1..3 : App[i] = AuthController[i]
    /\ 4 \in DOMAIN App /\ App[4] = UsersController[1]
    /\ 1 \in DOMAIN UsersService /\ UsersService[1] = UsersController[1]
<1>1. PICK ci, cid, au : Lists(ci, cid, au)
  BY ListsAre
<1>2. PICK a, u, c, h, app, users :
         /\ a = AuthController /\ u = UsersController /\ c = CoreService
         /\ h = HealthController /\ app = App /\ users = UsersService
  OBVIOUS
<1>3. Len(a) = 3 /\ Len(u) = 6
  BY <1>2 DEF AuthController, UsersController
<1>4. Joins(au, a, u) /\ Joins(app, au, c) /\ Joins(users, u, h)
  BY <1>1, <1>2 DEF Lists
<1>5. /\ Len(au) = 9 /\ (\A i \in 1..3 : au[i] = a[i])
      /\ au[Len(a) + 1] = u[1]
      /\ (\A i \in 1..9 : app[i] = au[i])
      /\ DOMAIN app = 1..(9 + Len(c)) /\ Len(c) \in Nat
      /\ DOMAIN users = 1..(6 + Len(h)) /\ Len(h) \in Nat /\ users[1] = u[1]
  BY <1>3, <1>4 DEF Joins
<1>6. /\ \A i \in 1..3 : app[i] = a[i]
      /\ 4 \in DOMAIN app /\ 1 \in DOMAIN users /\ users[1] = u[1]
  BY <1>5
<1>7. app[4] = u[1]
  <2>1. Len(a) + 1 = 4
    BY <1>3
  <2> QED BY <1>5, <2>1
<1> QED BY <1>2, <1>6, <1>7

\* The handlers of the controllers for a first segment.
Hosted(s) ==
    IF s = "auth" THEN Of(AuthController, 3)
    ELSE IF s = "users" THEN Of(UsersController, 6)
    ELSE IF s = "customers" THEN Of(CustomersController, 5)
    ELSE IF s = "invoices" THEN Of(InvoicesController, 5)
    ELSE IF s = "dashboard" THEN Of(DashboardController, 1)
    ELSE Of(HealthController, 1)

\* The second segments of the paths of the API.
Segments == {"auth", "users", "customers", "invoices", "dashboard", "health"}

\* A request for a path that starts with "api" and s.
Under(request, s) ==
    Len(request.path) >= 2 /\ request.path[1] = "api" /\ request.path[2] = s

LEMMA PrefixIs ==
    ASSUME NEW S, NEW path \in Seq(S), NEW request, request.path = path,
           NEW x, NEW pre, pre = <<"api", x>>
    PROVE  IsPrefix(pre, path) <=> Under(request, x)
<1>1. Len(pre) = 2 /\ pre[1] = "api" /\ pre[2] = x /\ Len(path) \in Nat
  BY LenProperties
<1>2. ASSUME Len(path) >= 2
      PROVE  SubSeq(pre, 1, 2) = SubSeq(path, 1, 2)
               <=> path[1] = "api" /\ path[2] = x
  <2>1. PICK T : T = S \cup {"api", x}
    OBVIOUS
  <2>2. /\ pre \in Seq(T) /\ path \in Seq(T)
        /\ \A i \in 1..2 : pre[i] \in T
        /\ \A i \in 1..2 : path[i] \in T
    <3>1. pre \in Seq(T)
      BY <2>1
    <3>2. path \in Seq(T)
      BY <2>1, SeqMonotonic
    <3>3. \A i \in 1..2 : i \in 1..Len(pre) /\ i \in 1..Len(path)
      BY <1>1, <1>2
    <3> QED BY <3>1, <3>2, <3>3, ElementOfSeq
  <2>3. PICK a, b : a = SubSeq(pre, 1, 2) /\ b = SubSeq(path, 1, 2)
    OBVIOUS
  <2>4. /\ a \in Seq(T) /\ Len(a) = 2 /\ \A i \in 1..2 : a[i] = pre[i]
    BY <2>2, <2>3, SubSeqProperties
  <2>5. /\ b \in Seq(T) /\ Len(b) = 2 /\ \A i \in 1..2 : b[i] = path[i]
    BY <2>2, <2>3, SubSeqProperties
  <2>6. a[1] = "api" /\ a[2] = x /\ b[1] = path[1] /\ b[2] = path[2]
    BY <1>1, <2>4, <2>5
  <2>7. \A i \in 1..2 : i = 1 \/ i = 2
    OBVIOUS
  <2>8. a = b <=> path[1] = "api" /\ path[2] = x
    BY <2>4, <2>5, <2>6, <2>7, SeqEqual
  <2> QED BY <2>3, <2>8
<1> QED BY <1>1, <1>2 DEF IsPrefix, Under

\* The process behind a second segment.
Target(s) == IF s \in {"auth", "users"} THEN s ELSE "core"

\* In the split a request goes whole to the process that its path's second
\* segment names, or nowhere.
LEMMA SplitReaches ==
    ASSUME deployment = "split", NEW S, NEW path \in Seq(S), NEW verb,
           NEW request, request = [verb |-> verb, path |-> path]
    PROVE  /\ \A s \in Segments \ {"health"} :
                 Under(request, s) => Reached(request) = Arrival(Target(s), request)
           /\ (\A s \in Segments \ {"health"} : ~Under(request, s))
                 => Reached(request) = Nowhere
<1>1. PICK through : through = {rt \in routes : IsPrefix(rt.prefix, path)}
  OBVIOUS
<1>2. \A rt \in routes : \E x \in Segments \ {"health"} :
         rt.prefix = <<"api", x>> /\ rt.target = Target(x)
  BY DEF routes, Segments, Target
<1>3. \A s \in Segments \ {"health"} : \E rt \in routes : rt.prefix = <<"api", s>>
  BY DEF routes, Segments
<1>4. \A x, pre : pre = <<"api", x>> => (IsPrefix(pre, path) <=> Under(request, x))
  BY PrefixIs
<1>5. \A rt \in routes : \E x \in Segments \ {"health"} :
         /\ rt.target = Target(x)
         /\ rt \in through <=> Under(request, x)
         /\ rt.prefix = <<"api", x>>
  BY <1>1, <1>2, <1>4
<1>6. ASSUME \A s \in Segments \ {"health"} : ~Under(request, s)
      PROVE  Reached(request) = Nowhere
  <2>1. through = {}
    BY <1>1, <1>5, <1>6
  <2> QED BY <1>1, <2>1 DEF Reached
<1>7. ASSUME NEW s \in Segments \ {"health"}, Under(request, s)
      PROVE  Reached(request) = Arrival(Target(s), request)
  <2>1. PICK route : route = CHOOSE rt \in through : TRUE
    OBVIOUS
  <2>2. through # {}
    <3>1. PICK rt \in routes : rt.prefix = <<"api", s>>
      BY <1>3
    <3>2. IsPrefix(rt.prefix, path)
      BY <1>4, <1>7, <3>1
    <3> QED BY <1>1, <3>1, <3>2
  <2>3. route \in routes /\ route \in through /\ IsPrefix(route.prefix, path)
    BY <1>1, <2>1, <2>2
  <2>4. PICK x \in Segments \ {"health"} :
           /\ route.target = Target(x) /\ Under(request, x)
           /\ route.prefix = <<"api", x>>
    BY <1>5, <2>3
  <2>5. x = s
    BY <1>7, <2>4 DEF Under
  <2>6. Reached(request) = Arrival(route.target, Forwarded(route, request))
    BY <1>1, <2>1, <2>2 DEF Reached
  <2>7. Forwarded(route, request) = request
    <3>1. PICK T : T = S \cup {"api", s}
      OBVIOUS
    <3>2. path \in Seq(T)
      BY <3>1, SeqMonotonic
    <3>3. route.prefix \in Seq(T)
      BY <2>4, <2>5, <3>1
    <3> QED BY <2>3, <3>2, <3>3, ForwardedWhole
  <2> QED BY <2>4, <2>5, <2>6, <2>7
<1> QED BY <1>6, <1>7

\* The gateway takes a request to the process that owns its path, whole.
LEMMA Routed ==
    ASSUME deployment \in DOMAIN Process,
           NEW request, NEW n \in 2..4, NEW s \in Segments, NEW w,
           request = [verb |-> request.verb, path |-> request.path],
           Spells(request.path, n, s, w)
    PROVE  IF deployment = "split" /\ s = "health" THEN Reached(request) = Nowhere
           ELSE /\ Reached(request) = Arrival(Owner(request), request)
                /\ Owner(request) \in DOMAIN Imports
                /\ Hosted(s) \subseteq Range(Imports[Owner(request)])
<1>1. CASE deployment = "monolith"
  <2>1. Owner(request) = "app" /\ Reached(request) = Arrival("app", request)
    BY <1>1 DEF Owner, Reached
  <2>2. "app" \in DOMAIN Imports /\ Imports["app"] = App
    BY DEF Imports
  <2>3. Hosted(s) \subseteq Handlers
    BY DEF Hosted, Handlers
  <2> QED BY <1>1, <2>1, <2>2, <2>3, Imported
<1>2. CASE deployment = "split"
  <2>1. PICK S, path : path = request.path /\ path \in Seq(S)
    BY DEF Spells
  <2>2. /\ Under(request, s) /\ request.path[2] = s
        /\ \A x : Under(request, x) => x = s
    BY DEF Spells, Under
  <2>3. /\ \A x \in Segments \ {"health"} :
              Under(request, x) => Reached(request) = Arrival(Target(x), request)
        /\ (\A x \in Segments \ {"health"} : ~Under(request, x))
              => Reached(request) = Nowhere
    BY <1>2, <2>1, SplitReaches
  <2>4. CASE s = "health"
    BY <1>2, <2>2, <2>3, <2>4
  <2>5. CASE s # "health"
    <3>1. Reached(request) = Arrival(Target(s), request)
      BY <2>2, <2>3, <2>5
    <3>2. Owner(request) = Target(s) /\ Target(s) \in DOMAIN Imports
      BY <1>2, <2>2 DEF Owner, Target, Imports
    <3>3. Hosted(s) \subseteq Range(Imports[Target(s)])
      BY <2>5, Imported DEF Hosted, Imports, Segments, Target
    <3> QED BY <2>5, <3>1, <3>2, <3>3
  <2> QED BY <2>4, <2>5
<1> QED BY <1>1, <1>2 DEF Process

LEMMA LoginHandler ==
    ASSUME NEW p \in {"app", "auth"}
    PROVE  /\ p \in DOMAIN Imports /\ 1 \in DOMAIN Imports[p]
           /\ Imports[p][1] = AuthController[1] /\ AuthController[1].limit = LoginLimit
<1>1. AuthController[1].limit = LoginLimit /\ Len(AuthController) = 3
  BY DEF AuthController, Handler
<1>2. PICK ci, cid, au : Lists(ci, cid, au)
  BY ListsAre
<1>3. /\ Joins(AuthService, AuthController, HealthController)
      /\ Joins(au, AuthController, UsersController) /\ Joins(App, au, CoreService)
  BY <1>2 DEF Lists
<1>4. /\ AuthService[1] = AuthController[1] /\ 1 \in DOMAIN AuthService
      /\ au[1] = AuthController[1] /\ Len(au) >= 1
  BY <1>1, <1>3 DEF Joins
<1>5. App[1] = AuthController[1] /\ 1 \in DOMAIN App
  BY <1>3, <1>4 DEF Joins
<1> QED BY <1>1, <1>4, <1>5 DEF Imports

\* In either deployment a login gets to the handler with its limit.
LEMMA LoginRoute ==
    ASSUME deployment \in DOMAIN Process
    PROVE  /\ Owner(Login) \in DOMAIN Imports
           /\ 1 \in DOMAIN Imports[Owner(Login)]
           /\ Reached(Login) = [process |-> Owner(Login), index |-> 1]
           /\ Imports[Owner(Login)][1].limit = LoginLimit
<1>1. PICK p, n, r, h : /\ p = Owner(Login) /\ n = 3 /\ r = Login
                       /\ h = AuthController[1]
  OBVIOUS
<1>2. p \in {"app", "auth"}
  BY <1>1 DEF Owner, Login
<1>3. /\ n \in 2..4 /\ r = [verb |-> r.verb, path |-> r.path] /\ r.verb = "POST"
      /\ Spells(r.path, n, "auth", "login")
  <2>1. <<"api", "auth", "login">> \in Seq({"api", "auth", "login"})
    OBVIOUS
  <2>2. r.path \in Seq({"api", "auth", "login"})
    BY <1>1, <2>1 DEF Login
  <2>3. /\ Len(r.path) = 3 /\ r.path[1] = "api" /\ r.path[2] = "auth"
        /\ r.path[3] = "login" /\ r.verb = "POST"
        /\ r = [verb |-> r.verb, path |-> r.path]
    BY <1>1 DEF Login
  <2> QED BY <1>1, <2>2, <2>3 DEF Spells
<1>4. Reached(r) = Arrival(p, r)
  <2>1. "auth" \in Segments
    BY DEF Segments
  <2> QED BY <1>1, <1>3, <2>1, Routed
<1>5. Matches(h, r)
  <2>1. h.verb = "POST" /\ Spells(h.path, n, "auth", "login")
    BY <1>1, AuthRuled DEF RuledAs
  <2>2. MatchesBySegment(h, n, "auth", "login", r, n, "auth", "login")
    BY <1>3, <2>1, MatchingIs
  <2> QED BY <1>3, <2>1, <2>2 DEF MatchesBySegment
<1>6. /\ p \in DOMAIN Imports /\ 1 \in DOMAIN Imports[p]
      /\ Imports[p][1] = h /\ h.limit = LoginLimit
  BY <1>1, <1>2, LoginHandler
<1>7. Arrival(p, r) = [process |-> p, index |-> 1]
  BY <1>5, <1>6, ArrivesSomewhere
<1> QED BY <1>1, <1>4, <1>6, <1>7

\* Where a request arrives is a process and an index, and no more.
LEMMA ReachedIs ==
    ASSUME NEW request, NEW there, there = Reached(request)
    PROVE  there = [process |-> there.process, index |-> there.index]
<1>1. there = Nowhere \/ \E p, r : there = Arrival(p, r)
  BY DEF Reached
<1> QED BY <1>1 DEF Nowhere, Arrival

LEMMA ServedByHandler ==
    ASSUME up \subseteq Process[deployment], deployment \in DOMAIN Process,
           NEW request, NEW there, there = Reached(request),
           there.process \in up, there.index # 0
    PROVE  /\ there.process \in DOMAIN Imports
           /\ there.index \in DOMAIN Imports[there.process]
           /\ there = [process |-> there.process, index |-> there.index]
<1>1. there.process \in {"app", "auth", "users", "core"}
  BY DEF Process
<1>2. there.process \in DOMAIN Imports
  BY <1>1 DEF Imports
<1>3. \/ there = Nowhere
      \/ \E p, r : p \in {"app"} \cup {rt.target : rt \in routes} /\ there = Arrival(p, r)
  BY DEF Reached
<1>4. PICK p, r : there = Arrival(p, r) /\ p \in DOMAIN Imports
  BY <1>1, <1>3 DEF Nowhere, routes, Imports
<1>5. /\ there.process = p /\ there.index \in {0} \cup DOMAIN Imports[p]
      /\ there = [process |-> p, index |-> there.index]
  BY <1>4, ArrivesSomewhere
<1> QED BY <1>2, <1>5

-----------------------------------------------------------------------------
(* The documented requests and their answers *)

\* A row of the README's table that says what the rule says.
RowAs(row, verb, n, s, w) ==
    /\ row.request = [verb |-> verb, path |-> row.request.path]
    /\ Spells(row.request.path, n, s, w)
    /\ s \in Segments /\ (s = "auth" => n = 3) /\ w # ":id"
    /\ row.access = Rule(verb, n, s, w)

\* And that one of its controllers' handlers is for.
Hosts(row, h, verb, n, s, w, t) ==
    /\ RowAs(row, verb, n, s, w) /\ RuledAs(h, verb, n, s, t)
    /\ h \in Hosted(s) /\ (n = 2 \/ t \in {":id", w})

HasHandler(row) ==
    \E h, verb, s, w, t : \E n \in 2..4 : Hosts(row, h, verb, n, s, w, t)

LEMMA AuthRows ==
    /\ HasHandler(Row("POST", <<"auth", "login">>, "public"))
    /\ HasHandler(Row("POST", <<"auth", "refresh">>, "public"))
    /\ HasHandler(Row("POST", <<"auth", "logout">>, "auth"))
<1>1. HasHandler(Row("POST", <<"auth", "login">>, "public"))
  <2>1. RowAs(Row("POST", <<"auth", "login">>, "public"), "POST", 3, "auth", "login")
    BY Spelled DEF RowAs, Row, Rule, Segments
  <2> QED BY <2>1, AuthRuled DEF HasHandler, Hosts, Hosted, Of
<1>2. HasHandler(Row("POST", <<"auth", "refresh">>, "public"))
  <2>1. RowAs(Row("POST", <<"auth", "refresh">>, "public"), "POST", 3, "auth", "refresh")
    BY Spelled DEF RowAs, Row, Rule, Segments
  <2> QED BY <2>1, AuthRuled DEF HasHandler, Hosts, Hosted, Of
<1>3. HasHandler(Row("POST", <<"auth", "logout">>, "auth"))
  <2>1. RowAs(Row("POST", <<"auth", "logout">>, "auth"), "POST", 3, "auth", "logout")
    BY Spelled DEF RowAs, Row, Rule, Segments
  <2> QED BY <2>1, AuthRuled DEF HasHandler, Hosts, Hosted, Of
<1> QED BY <1>1, <1>2, <1>3

LEMMA UsersRows ==
    /\ HasHandler(Row("GET", <<"users", "me">>, "auth"))
    /\ HasHandler(Row("GET", <<"users">>, "admin"))
    /\ HasHandler(Row("GET", <<"users", "7">>, "admin"))
    /\ HasHandler(Row("POST", <<"users">>, "admin"))
    /\ HasHandler(Row("PATCH", <<"users", "7">>, "admin"))
    /\ HasHandler(Row("DELETE", <<"users", "7">>, "admin"))
<1>1. HasHandler(Row("GET", <<"users", "me">>, "auth"))
  <2>1. RowAs(Row("GET", <<"users", "me">>, "auth"), "GET", 3, "users", "me")
    BY Spelled DEF RowAs, Row, Rule, Segments
  <2> QED BY <2>1, UsersRuled DEF HasHandler, Hosts, Hosted, Of
<1>2. HasHandler(Row("GET", <<"users">>, "admin"))
  <2>1. RowAs(Row("GET", <<"users">>, "admin"), "GET", 2, "users", "-")
    BY Spelled DEF RowAs, Row, Rule, Segments
  <2> QED BY <2>1, UsersRuled DEF HasHandler, Hosts, Hosted, Of
<1>3. HasHandler(Row("GET", <<"users", "7">>, "admin"))
  <2>1. RowAs(Row("GET", <<"users", "7">>, "admin"), "GET", 3, "users", "7")
    BY Spelled DEF RowAs, Row, Rule, Segments
  <2> QED BY <2>1, UsersRuled DEF HasHandler, Hosts, Hosted, Of
<1>4. HasHandler(Row("POST", <<"users">>, "admin"))
  <2>1. RowAs(Row("POST", <<"users">>, "admin"), "POST", 2, "users", "-")
    BY Spelled DEF RowAs, Row, Rule, Segments
  <2> QED BY <2>1, UsersRuled DEF HasHandler, Hosts, Hosted, Of
<1>5. HasHandler(Row("PATCH", <<"users", "7">>, "admin"))
  <2>1. RowAs(Row("PATCH", <<"users", "7">>, "admin"), "PATCH", 3, "users", "7")
    BY Spelled DEF RowAs, Row, Rule, Segments
  <2> QED BY <2>1, UsersRuled DEF HasHandler, Hosts, Hosted, Of
<1>6. HasHandler(Row("DELETE", <<"users", "7">>, "admin"))
  <2>1. RowAs(Row("DELETE", <<"users", "7">>, "admin"), "DELETE", 3, "users", "7")
    BY Spelled DEF RowAs, Row, Rule, Segments
  <2> QED BY <2>1, UsersRuled DEF HasHandler, Hosts, Hosted, Of
<1> QED BY <1>1, <1>2, <1>3, <1>4, <1>5, <1>6

LEMMA CustomersRows ==
    /\ HasHandler(Row("GET", <<"customers">>, "auth"))
    /\ HasHandler(Row("GET", <<"customers", "7">>, "auth"))
    /\ HasHandler(Row("POST", <<"customers">>, "staff"))
    /\ HasHandler(Row("PATCH", <<"customers", "7">>, "staff"))
    /\ HasHandler(Row("DELETE", <<"customers", "7">>, "staff"))
<1>1. HasHandler(Row("GET", <<"customers">>, "auth"))
  <2>1. RowAs(Row("GET", <<"customers">>, "auth"), "GET", 2, "customers", "-")
    BY Spelled DEF RowAs, Row, Rule, Segments
  <2> QED BY <2>1, CustomersRuled DEF HasHandler, Hosts, Hosted, Of
<1>2. HasHandler(Row("GET", <<"customers", "7">>, "auth"))
  <2>1. RowAs(Row("GET", <<"customers", "7">>, "auth"), "GET", 3, "customers", "7")
    BY Spelled DEF RowAs, Row, Rule, Segments
  <2> QED BY <2>1, CustomersRuled DEF HasHandler, Hosts, Hosted, Of
<1>3. HasHandler(Row("POST", <<"customers">>, "staff"))
  <2>1. RowAs(Row("POST", <<"customers">>, "staff"), "POST", 2, "customers", "-")
    BY Spelled DEF RowAs, Row, Rule, Segments
  <2> QED BY <2>1, CustomersRuled DEF HasHandler, Hosts, Hosted, Of
<1>4. HasHandler(Row("PATCH", <<"customers", "7">>, "staff"))
  <2>1. RowAs(Row("PATCH", <<"customers", "7">>, "staff"), "PATCH", 3, "customers", "7")
    BY Spelled DEF RowAs, Row, Rule, Segments
  <2> QED BY <2>1, CustomersRuled DEF HasHandler, Hosts, Hosted, Of
<1>5. HasHandler(Row("DELETE", <<"customers", "7">>, "staff"))
  <2>1. RowAs(Row("DELETE", <<"customers", "7">>, "staff"), "DELETE", 3, "customers", "7")
    BY Spelled DEF RowAs, Row, Rule, Segments
  <2> QED BY <2>1, CustomersRuled DEF HasHandler, Hosts, Hosted, Of
<1> QED BY <1>1, <1>2, <1>3, <1>4, <1>5

LEMMA InvoicesRows ==
    /\ HasHandler(Row("GET", <<"invoices">>, "auth"))
    /\ HasHandler(Row("GET", <<"invoices", "7">>, "auth"))
    /\ HasHandler(Row("POST", <<"invoices">>, "staff"))
    /\ HasHandler(Row("PATCH", <<"invoices", "7">>, "staff"))
    /\ HasHandler(Row("PATCH", <<"invoices", "7", "status">>, "staff"))
<1>1. HasHandler(Row("GET", <<"invoices">>, "auth"))
  <2>1. RowAs(Row("GET", <<"invoices">>, "auth"), "GET", 2, "invoices", "-")
    BY Spelled DEF RowAs, Row, Rule, Segments
  <2> QED BY <2>1, InvoicesRuled DEF HasHandler, Hosts, Hosted, Of
<1>2. HasHandler(Row("GET", <<"invoices", "7">>, "auth"))
  <2>1. RowAs(Row("GET", <<"invoices", "7">>, "auth"), "GET", 3, "invoices", "7")
    BY Spelled DEF RowAs, Row, Rule, Segments
  <2> QED BY <2>1, InvoicesRuled DEF HasHandler, Hosts, Hosted, Of
<1>3. HasHandler(Row("POST", <<"invoices">>, "staff"))
  <2>1. RowAs(Row("POST", <<"invoices">>, "staff"), "POST", 2, "invoices", "-")
    BY Spelled DEF RowAs, Row, Rule, Segments
  <2> QED BY <2>1, InvoicesRuled DEF HasHandler, Hosts, Hosted, Of
<1>4. HasHandler(Row("PATCH", <<"invoices", "7">>, "staff"))
  <2>1. RowAs(Row("PATCH", <<"invoices", "7">>, "staff"), "PATCH", 3, "invoices", "7")
    BY Spelled DEF RowAs, Row, Rule, Segments
  <2> QED BY <2>1, InvoicesRuled DEF HasHandler, Hosts, Hosted, Of
<1>5. HasHandler(Row("PATCH", <<"invoices", "7", "status">>, "staff"))
  <2>1. RowAs(Row("PATCH", <<"invoices", "7", "status">>, "staff"), "PATCH", 4, "invoices", "7")
    BY Spelled DEF RowAs, Row, Rule, Segments
  <2> QED BY <2>1, InvoicesRuled DEF HasHandler, Hosts, Hosted, Of
<1> QED BY <1>1, <1>2, <1>3, <1>4, <1>5

LEMMA DashboardRows ==
    /\ HasHandler(Row("GET", <<"dashboard", "summary">>, "auth"))
<1>1. HasHandler(Row("GET", <<"dashboard", "summary">>, "auth"))
  <2>1. RowAs(Row("GET", <<"dashboard", "summary">>, "auth"), "GET", 3, "dashboard", "summary")
    BY Spelled DEF RowAs, Row, Rule, Segments
  <2> QED BY <2>1, DashboardRuled DEF HasHandler, Hosts, Hosted, Of
<1> QED BY <1>1

LEMMA HealthRows ==
    /\ HasHandler(Row("GET", <<"health">>, "public"))
<1>1. HasHandler(Row("GET", <<"health">>, "public"))
  <2>1. RowAs(Row("GET", <<"health">>, "public"), "GET", 2, "health", "-")
    BY Spelled DEF RowAs, Row, Rule, Segments
  <2> QED BY <2>1, HealthRuled DEF HasHandler, Hosts, Hosted, Of
<1> QED BY <1>1

LEMMA AllRows == \A row \in Documented : HasHandler(row)
BY AuthRows, UsersRows, CustomersRows, InvoicesRows, DashboardRows, HealthRows
   DEF Documented

\* The guards let in whom the decorators name, unless the throttler refuses.
LEMMA GuardsGrant ==
    ASSUME NEW access \in DOMAIN Granted, NEW h, Grants(h, access),
           NEW token \in Token, NEW counter
    PROVE  Guarded(h, token, counter) \in {Allowed(access, token), "tooMany"}
<1>1. access \in {"public", "auth", "admin", "staff"}
  BY DEF Granted
<1>2. CASE access = "public"
  BY <1>2 DEF Guarded, JwtAuthGuard, RolesGuard, Allowed, Granted, Grants, Token, Anyone
<1>3. CASE access = "auth"
  BY <1>3 DEF Guarded, JwtAuthGuard, RolesGuard, Allowed, Granted, Grants, Token, Anyone
<1>4. CASE access = "admin"
  BY <1>4 DEF Guarded, JwtAuthGuard, RolesGuard, Allowed, Granted, Grants, Token, Admin
<1>5. CASE access = "staff"
  BY <1>5 DEF Guarded, JwtAuthGuard, RolesGuard, Allowed, Granted, Grants, Token, Staff
<1> QED BY <1>1, <1>2, <1>3, <1>4, <1>5

\* A request that arrives at a handler matches it.
LEMMA ArrivedMatches ==
    ASSUME NEW p \in DOMAIN Imports, NEW request, NEW there,
           there = Arrival(p, request), there.index # 0
    PROVE  /\ there.process = p /\ there.index \in DOMAIN Imports[p]
           /\ Imports[p][there.index] \in Handlers
           /\ Matches(Imports[p][there.index], request)
<1> DEFINE I == {i \in 1..Len(Imports[p]) : Matches(Imports[p][i], request)}
<1>1. DOMAIN Imports[p] = 1..Len(Imports[p]) /\ Len(Imports[p]) \in Nat
  BY LimitsAre, LenProperties
<1>2. there = [process |-> p, index |-> IF I # {} THEN Min(I) ELSE 0]
  BY DEF Arrival, SelectInSeq
<1>3. I \in SUBSET Nat /\ \A i \in I : i \in DOMAIN Imports[p] /\ Matches(Imports[p][i], request)
  BY <1>1
<1> HIDE DEF I
<1>4. there.process = p /\ there.index = Min(I) /\ I # {}
  BY <1>2
<1>5. there.index \in DOMAIN Imports[p] /\ Matches(Imports[p][there.index], request)
  BY <1>3, <1>4, LeastOf
<1> QED BY <1>1, <1>4, <1>5, LimitsAre, ElementOfSeq

\* Of the handlers that match GET /api/users/me, its own is the first.
LEMMA MeFirst ==
    ASSUME NEW request, request.verb = "GET", Spells(request.path, 3, "users", "me"),
           NEW p \in {"app", "users"}, NEW there, there = Arrival(p, request)
    PROVE  Imports[p][there.index] = UsersController[1]
<1>1. Matches(UsersController[1], request)
  <2>1. PICK n, h : n = 3 /\ h = UsersController[1]
    OBVIOUS
  <2>2. n \in 2..4 /\ Spells(h.path, n, "users", "me") /\ h.verb = "GET"
    BY <2>1, UsersRuled DEF RuledAs
  <2>3. MatchesBySegment(h, n, "users", "me", request, n, "users", "me")
    BY <2>1, <2>2, MatchingIs
  <2> QED BY <2>1, <2>2, <2>3 DEF MatchesBySegment
<1>2. CASE p = "users"
  <2>1. p \in DOMAIN Imports /\ Imports[p] = UsersService
    BY <1>2 DEF Imports
  <2>2. there.index \in DOMAIN Imports[p] /\ there.index <= 1
    BY <1>1, <2>1, FirstOfUsers, ArrivesFirst
  <2>3. there.index = 1
    BY <2>1, <2>2, LimitsAre, LenProperties
  <2> QED BY <2>1, <2>3, FirstOfUsers
<1>3. CASE p = "app"
  <2>1. p \in DOMAIN Imports /\ Imports[p] = App
    BY <1>3 DEF Imports
  <2>2. /\ there.index \in DOMAIN Imports[p] /\ there.index <= 4
        /\ Matches(Imports[p][there.index], request)
    BY <1>1, <2>1, FirstOfUsers, ArrivesFirst
  <2>3. there.index \in 1..4
    BY <2>1, <2>2, LimitsAre, LenProperties
  <2>4. ASSUME NEW i \in 1..3 PROVE ~Matches(AuthController[i], request)
    <3>1. PICK t : Spells(AuthController[i].path, 3, "auth", t)
      <4>1. i = 1 \/ i = 2 \/ i = 3
        OBVIOUS
      <4> QED BY <4>1, AuthRuled DEF RuledAs
    <3>2. PICK n, h : n = 3 /\ h = AuthController[i]
      OBVIOUS
    <3>3. n \in 2..4 /\ Spells(h.path, n, "auth", t) /\ Spells(request.path, n, "users", "me")
      BY <3>1, <3>2
    <3>4. MatchesBySegment(h, n, "auth", t, request, n, "users", "me")
      BY <3>3, MatchingIs
    <3> QED BY <3>2, <3>4 DEF MatchesBySegment
  <2>5. there.index \notin 1..3
    BY <2>1, <2>2, <2>4, FirstOfUsers
  <2>6. there.index = 4
    BY <2>3, <2>5
  <2> QED BY <2>1, <2>6, FirstOfUsers
<1> QED BY <1>2, <1>3

\* The rule for a request: who may use what it asks for.
RuleFor(request) ==
    Rule(request.verb, Len(request.path), request.path[2], request.path[3])

\* Whatever is requested, the handler it arrives at lets in whom the rule says.
\* GET /api/users/:id matches GET /api/users/me, too, but does not come first.
LEMMA HandlerByRule ==
    ASSUME NEW S, NEW path \in Seq(S), NEW request, request.path = path,
           NEW p \in DOMAIN Imports, path[2] = "users" => p \in {"app", "users"},
           NEW there, there = Arrival(p, request), there.index # 0
    PROVE  Grants(Imports[p][there.index], RuleFor(request))
<1>1. PICK g : g = Imports[p][there.index]
  OBVIOUS
<1>2. g \in Handlers /\ Matches(g, request)
  BY <1>1, ArrivedMatches
<1>3. PICK v, u, t : \E m \in 2..4 : RuledAs(g, v, m, u, t)
  BY <1>2, AllRuled DEF Ruled
<1>4. PICK m \in 2..4 : RuledAs(g, v, m, u, t)
  BY <1>3
<1>5. /\ g.verb = v /\ DOMAIN g.path = 1..m /\ Len(g.path) = m
      /\ g.path[1] = "api" /\ g.path[2] = u /\ (m > 2 => g.path[3] = t)
      /\ (m > 3 => g.path[4] = "status") /\ u # ":id"
      /\ (t = ":id" => u \in {"users", "customers", "invoices"})
      /\ (u = "auth" => m = 3)
  BY <1>4, LenProperties DEF RuledAs, Spells
<1>6. /\ request.verb = v /\ Len(path) = m
      /\ \A k \in 1..m : g.path[k] \in {":id", path[k]}
  BY <1>2, <1>5 DEF Matches
<1>7. /\ path[1] = "api" /\ path[2] = u /\ (m > 2 => t \in {":id", path[3]})
      /\ (m > 3 => path[4] = "status")
  <2>1. 1 \in 1..m /\ 2 \in 1..m /\ (m > 2 => 3 \in 1..m) /\ (m > 3 => 4 \in 1..m)
    OBVIOUS
  <2> QED BY <1>5, <1>6, <2>1
<1>8. CASE ~(u = "users" /\ v = "GET" /\ m = 3 /\ path[3] = "me")
  <2>1. Rule(v, m, u, t) = Rule(v, m, u, path[3])
    BY <1>5, <1>7, <1>8 DEF Rule
  <2> QED BY <1>1, <1>4, <1>6, <1>7, <2>1 DEF RuleFor, RuledAs
<1>9. CASE u = "users" /\ v = "GET" /\ m = 3 /\ path[3] = "me"
  <2>1. request.verb = "GET" /\ Spells(request.path, 3, "users", "me")
    BY <1>6, <1>7, <1>9 DEF Spells
  <2>2. g = UsersController[1]
    BY <1>1, <1>7, <1>9, <2>1, MeFirst
  <2>3. RuleFor(request) = "auth"
    BY <1>6, <1>7, <1>9 DEF RuleFor, Rule
  <2>4. Grants(UsersController[1], "auth")
    BY UsersRuled DEF RuledAs, Rule
  <2> QED BY <1>1, <2>2, <2>3, <2>4
<1> QED BY <1>8, <1>9

\* A documented request arrives, at the process that owns it, at a handler that
\* lets in whom the table says.
LEMMA Arrived ==
    ASSUME deployment \in DOMAIN Process, NEW row \in Documented,
           ~(deployment = "split" /\ row.request.path[2] = "health"),
           NEW there, there = Reached(row.request)
    PROVE  /\ there.process = Owner(row.request) /\ there.index # 0
           /\ Grants(Imports[there.process][there.index], row.access)
<1>1. PICK h, verb, s, w, t : \E n \in 2..4 : Hosts(row, h, verb, n, s, w, t)
  BY AllRows DEF HasHandler
<1>2. PICK n \in 2..4 : Hosts(row, h, verb, n, s, w, t)
  BY <1>1
<1>3. /\ RowAs(row, verb, n, s, w) /\ RuledAs(h, verb, n, s, t)
      /\ h \in Hosted(s) /\ (n = 2 \/ t \in {":id", w})
  BY <1>2 DEF Hosts
<1>4. /\ row.request = [verb |-> verb, path |-> row.request.path]
      /\ Spells(row.request.path, n, s, w) /\ s \in Segments
      /\ row.request.path[2] = s /\ row.request.verb = verb
  BY <1>3 DEF RowAs, Spells
<1>5. PICK p : p = Owner(row.request)
  OBVIOUS
<1>6. there = Arrival(p, row.request) /\ p \in DOMAIN Imports /\ h \in Range(Imports[p])
  BY <1>3, <1>4, <1>5, Routed
<1>7. Matches(h, row.request)
  <2>1. h.verb = row.request.verb /\ Spells(h.path, n, s, t)
    BY <1>3, <1>4 DEF RuledAs
  <2>2. PICK r : r = row.request
    OBVIOUS
  <2>3. MatchesBySegment(h, n, s, t, r, n, s, w)
    BY <1>4, <2>1, <2>2, MatchingIs
  <2>4. n > 2 => t \in {":id", w}
    BY <1>3
  <2> QED BY <2>1, <2>2, <2>3, <2>4 DEF MatchesBySegment
<1>8. PICK j \in DOMAIN Imports[p] : Imports[p][j] = h
  BY <1>6 DEF Range
<1>9. /\ there.process = p /\ there.index \in DOMAIN Imports[p] /\ there.index # 0
      /\ Matches(Imports[p][there.index], row.request)
  BY <1>6, <1>7, <1>8, ArrivesFirst
<1>10. Grants(Imports[p][there.index], row.access)
  <2>1. PICK S, path, r : r = row.request /\ path = r.path /\ path \in Seq(S)
    BY <1>4 DEF Spells
  <2>2. path[2] = "users" => p \in {"app", "users"}
    BY <1>5, <2>1 DEF Owner
  <2>3. Grants(Imports[p][there.index], RuleFor(r))
    BY <1>6, <1>9, <2>1, <2>2, HandlerByRule
  <2>4. RuleFor(r) = row.access
    <3>1. /\ r.verb = verb /\ Len(r.path) = n /\ r.path[2] = s
          /\ (n > 2 => r.path[3] = w) /\ (s = "auth" => n = 3)
          /\ row.access = Rule(verb, n, s, w)
      BY <1>3, <1>4, <2>1 DEF RowAs, Spells
    <3>2. Rule(verb, n, s, r.path[3]) = Rule(verb, n, s, w)
      BY <3>1 DEF Rule
    <3> QED BY <3>1, <3>2 DEF RuleFor
  <2> QED BY <2>3, <2>4
<1> QED BY <1>5, <1>9, <1>10

\* What any of the twenty-one requests is answered, in either deployment and
\* whichever processes run.
LEMMA RowAnswered ==
    ASSUME deployment \in DOMAIN Process, up \subseteq Process[deployment],
           NEW row \in Documented, NEW token \in Token, NEW client \in Client,
           NEW answer, answer = Served(client, row.request, token).answer
    PROVE  IF deployment = "split" /\ row.request.path[2] = "health"
           THEN answer = "notFound"
           ELSE IF Owner(row.request) \notin up THEN answer = "unreachable"
           ELSE answer \in {Allowed(row.access, token), "tooMany"}
<1>1. PICK there : there = Reached(row.request)
  OBVIOUS
<1>2. up \subseteq {"app", "auth", "users", "core"}
  BY DEF Process
<1>3. CASE deployment = "split" /\ row.request.path[2] = "health"
  <2>1. PICK h, verb, s, w, t : \E n \in 2..4 : Hosts(row, h, verb, n, s, w, t)
    BY AllRows DEF HasHandler
  <2>2. PICK n \in 2..4 : Hosts(row, h, verb, n, s, w, t)
    BY <2>1
  <2>3. RowAs(row, verb, n, s, w)
    BY <2>2 DEF Hosts
  <2>4. /\ row.request = [verb |-> row.request.verb, path |-> row.request.path]
        /\ Spells(row.request.path, n, s, w) /\ s \in Segments /\ s = "health"
    <3>1. row.request = [verb |-> verb, path |-> row.request.path]
      BY <2>3 DEF RowAs
    <3>2. row.request.verb = verb
      BY <3>1
    <3> QED BY <1>3, <2>3, <3>1, <3>2 DEF RowAs, Spells
  <2>5. there = Nowhere
    BY <1>1, <1>3, <2>4, Routed
  <2>6. there.process = "none" /\ there.index = 0
    BY <2>5 DEF Nowhere
  <2> QED BY <1>1, <1>3, <2>6 DEF Served
<1>4. CASE ~(deployment = "split" /\ row.request.path[2] = "health")
  <2>1. PICK p, handler : p = there.process /\ handler = Imports[p][there.index]
    OBVIOUS
  <2>2. p = Owner(row.request) /\ there.index # 0 /\ Grants(handler, row.access)
    BY <1>1, <1>4, <2>1, Arrived
  <2>3. CASE p \notin up
    <3>1. p # "none"
      BY <2>2 DEF Owner, Row, Documented
    <3> QED BY <1>1, <1>4, <2>1, <2>2, <2>3, <3>1 DEF Served
  <2>4. CASE p \in up
    <3>1. PICK counter : answer = Guarded(handler, token, counter)
      BY <1>1, <2>1, <2>2, <2>4 DEF Served
    <3>2. row.access \in DOMAIN Granted
      <4>1. \A x \in Documented : x.access \in {"public", "auth", "admin", "staff"}
        BY DEF Documented, Row
      <4> QED BY <4>1 DEF Granted
    <3>3. answer \in {Allowed(row.access, token), "tooMany"}
      BY <2>2, <3>1, <3>2, GuardsGrant
    <3> QED BY <1>4, <2>2, <2>4, <3>3
  <2> QED BY <2>3, <2>4
<1> QED BY <1>3, <1>4

\* What is answered to whom goes by the rule, if the request gets to a handler.
AnsweredByRule(request) ==
    \A client \in Client, token \in Token :
        Served(client, request, token).answer \in
            {"notFound", "unreachable", "tooMany", Allowed(RuleFor(request), token)}

LEMMA RequestAnswered ==
    ASSUME deployment \in DOMAIN Process, up \subseteq Process[deployment],
           NEW S, NEW path \in Seq(S), NEW verb,
           NEW request, request = [verb |-> verb, path |-> path]
    PROVE  AnsweredByRule(request)
<1> SUFFICES ASSUME NEW client \in Client, NEW token \in Token,
                    NEW answer, answer = Served(client, request, token).answer
             PROVE  answer \in {"notFound", "unreachable", "tooMany",
                                Allowed(RuleFor(request), token)}
  BY DEF AnsweredByRule
<1>1. PICK there, p, handler : /\ there = Reached(request) /\ p = there.process
                               /\ handler = Imports[there.process][there.index]
  OBVIOUS
<1>2. CASE ~(p \in up /\ there.index # 0)
  BY <1>1, <1>2 DEF Served
<1>3. CASE p \in up /\ there.index # 0
  <2>1. PICK counter : answer = Guarded(handler, token, counter)
    BY <1>1, <1>3 DEF Served
  <2>2. PICK q : /\ q \in DOMAIN Imports /\ there = Arrival(q, request)
                 /\ path[2] = "users" => q \in {"app", "users"}
    <3>1. CASE deployment = "monolith"
      BY <1>1, <3>1 DEF Reached, Imports
    <3>2. CASE deployment = "split"
      <4>1. PICK s \in Segments \ {"health"} : Under(request, s)
        <5>1. there # Nowhere
          BY <1>3 DEF Nowhere
        <5> QED BY <1>1, <3>2, <5>1, SplitReaches
      <4>2. there = Arrival(Target(s), request) /\ path[2] = s
        BY <1>1, <3>2, <4>1, SplitReaches DEF Under
      <4> QED BY <4>2 DEF Target, Imports
    <3> QED BY <3>1, <3>2 DEF Process
  <2>3. q = p
    BY <1>1, <2>2 DEF Arrival
  <2>4. Grants(handler, RuleFor(request))
    BY <1>1, <1>3, <2>2, <2>3, HandlerByRule
  <2>5. RuleFor(request) \in DOMAIN Granted
    BY DEF RuleFor, Rule, Granted
  <2> QED BY <2>1, <2>4, <2>5, GuardsGrant
<1> QED BY <1>2, <1>3

-----------------------------------------------------------------------------
(* One process and three *)

\* The handlers of a list that match, and the first of them.
Matching(seq, request) == {i \in DOMAIN seq : Matches(seq[i], request)}

First(seq, request) ==
    IF Matching(seq, request) = {} THEN "none" ELSE seq[Min(Matching(seq, request))]

\* The handler a request arrives at, if any.
HandlerAt(there) ==
    IF there.index = 0 THEN "none" ELSE Imports[there.process][there.index]

\* The router's answer in terms of lists.
LEMMA ArrivesAtFirst ==
    ASSUME NEW p \in DOMAIN Imports, NEW request
    PROVE  HandlerAt(Arrival(p, request)) = First(Imports[p], request)
<1>1. PICK I, there : I = Matching(Imports[p], request) /\ there = Arrival(p, request)
  OBVIOUS
<1>2. DOMAIN Imports[p] = 1..Len(Imports[p]) /\ Len(Imports[p]) \in Nat
  BY LimitsAre, LenProperties
<1>3. I = {i \in 1..Len(Imports[p]) : Matches(Imports[p][i], request)}
  BY <1>1, <1>2 DEF Matching
<1>4. there = [process |-> p, index |-> IF I # {} THEN Min(I) ELSE 0]
  BY <1>1, <1>3 DEF Arrival, SelectInSeq
<1>5. I \in SUBSET Nat /\ 0 \notin I
  BY <1>3
<1>6. I # {} => Min(I) # 0
  BY <1>5, LeastOf
<1> QED BY <1>1, <1>4, <1>6 DEF HandlerAt, First

\* Two lists in a row: the first that matches is the first list's, if any of it
\* does.
Chained(j, s, t, request) ==
    /\ Matching(j, request) = {} <=> Matching(s, request) = {} /\ Matching(t, request) = {}
    /\ First(j, request) = IF Matching(s, request) = {} THEN First(t, request)
                           ELSE First(s, request)

LEMMA FirstOfTwo ==
    ASSUME NEW s, NEW t, NEW j, Joins(j, s, t), s \in Seq(Handlers), t \in Seq(Handlers),
           NEW request
    PROVE  Chained(j, s, t, request)
<1>1. PICK J, I, K, n, m : /\ J = Matching(j, request) /\ I = Matching(s, request)
                           /\ K = Matching(t, request) /\ n = Len(s) /\ m = Len(t)
  OBVIOUS
<1>2. /\ n \in Nat /\ m \in Nat /\ DOMAIN j = 1..(n + m)
      /\ DOMAIN s = 1..n /\ DOMAIN t = 1..m
      /\ (\A i \in 1..n : j[i] = s[i]) /\ (\A i \in 1..m : j[n + i] = t[i])
  BY <1>1, LenProperties DEF Joins
<1>3. /\ J = {i \in 1..(n + m) : Matches(j[i], request)}
      /\ I = {i \in 1..n : Matches(s[i], request)}
      /\ K = {i \in 1..m : Matches(t[i], request)}
  BY <1>1, <1>2 DEF Matching
<1>4. \A i \in 1..n : i \in J <=> i \in I
  BY <1>2, <1>3
<1>5. \A i \in 1..m : n + i \in J <=> i \in K
  BY <1>2, <1>3
<1>6. \A i \in J : i \in 1..n \/ (i - n \in 1..m /\ n + (i - n) = i)
  BY <1>2, <1>3
<1>7. /\ J \in SUBSET Nat /\ I \in SUBSET (1..n) /\ K \in SUBSET (1..m)
      /\ I \in SUBSET Nat /\ K \in SUBSET Nat
  BY <1>2, <1>3
<1>8. J = {} <=> I = {} /\ K = {}
  BY <1>2, <1>4, <1>5, <1>6, <1>7
<1>9. ASSUME I # {} PROVE Min(J) = Min(I) /\ j[Min(J)] = s[Min(I)]
  <2>1. PICK a, b : a = Min(J) /\ b = Min(I)
    OBVIOUS
  <2>2. a \in J /\ b \in I /\ (\A i \in J : a <= i) /\ (\A i \in I : b <= i)
    BY <1>7, <1>8, <1>9, <2>1, LeastOf
  <2>3. b \in J /\ a <= b /\ b \in 1..n
    BY <1>4, <1>7, <2>2
  <2>4. a \in I
    BY <1>2, <1>4, <1>6, <1>7, <2>2, <2>3
  <2> QED BY <1>2, <1>7, <2>1, <2>2, <2>3, <2>4
<1>10. ASSUME I = {}, K # {} PROVE j[Min(J)] = t[Min(K)]
  <2>1. PICK a, b : a = Min(J) /\ b = Min(K)
    OBVIOUS
  <2>2. a \in J /\ b \in K /\ (\A i \in J : a <= i) /\ (\A i \in K : b <= i)
    BY <1>7, <1>8, <1>10, <2>1, LeastOf
  <2>3. n + b \in J /\ a <= n + b /\ b \in 1..m
    BY <1>5, <1>7, <2>2
  <2>4. a - n \in K /\ n + (a - n) = a
    BY <1>4, <1>5, <1>6, <1>10, <2>2
  <2>5. b <= a - n
    BY <2>2, <2>4
  <2>6. a = n + b
    BY <1>2, <1>7, <2>2, <2>3, <2>5
  <2> QED BY <1>2, <2>1, <2>3, <2>6
<1> QED BY <1>1, <1>8, <1>9, <1>10 DEF Chained, First

\* A handler matches requests for the paths of its controller only.
LEMMA OwnPathOnly ==
    ASSUME NEW s \in Segments, NEW h \in Hosted(s), NEW S, NEW path \in Seq(S),
           NEW request, request.path = path, Matches(h, request)
    PROVE  Under(request, s)
<1>1. PICK v, t : \E n \in 2..4 : RuledAs(h, v, n, s, t)
  <2>1. CASE s = "auth"
    BY <2>1, AuthRuled DEF Hosted, Of
  <2>2. CASE s = "users"
    BY <2>2, UsersRuled DEF Hosted, Of
  <2>3. CASE s = "customers"
    BY <2>3, CustomersRuled DEF Hosted, Of
  <2>4. CASE s = "invoices"
    BY <2>4, InvoicesRuled DEF Hosted, Of
  <2>5. CASE s = "dashboard"
    BY <2>5, DashboardRuled DEF Hosted, Of
  <2>6. CASE s = "health"
    BY <2>6, HealthRuled DEF Hosted, Of
  <2> QED BY <2>1, <2>2, <2>3, <2>4, <2>5, <2>6 DEF Segments
<1>2. PICK n \in 2..4 : RuledAs(h, v, n, s, t)
  BY <1>1
<1>3. /\ DOMAIN h.path = 1..n /\ Len(h.path) = n /\ h.path[1] = "api"
      /\ h.path[2] = s /\ s # ":id"
  BY <1>2, LenProperties DEF RuledAs, Spells
<1>4. /\ Len(request.path) = n
      /\ \A k \in 1..n : h.path[k] \in {":id", request.path[k]}
  BY <1>3 DEF Matches
<1>5. 1 \in 1..n /\ 2 \in 1..n /\ n >= 2
  OBVIOUS
<1> QED BY <1>3, <1>4, <1>5 DEF Under

\* The one request that the gateway keeps from the processes.
HealthCheck == [verb |-> "GET", path |-> <<"api", "health">>]

\* What a controller's handlers match is under the controller's segment.
LEMMA MatchingUnder ==
    ASSUME NEW S, NEW path \in Seq(S), NEW verb,
           NEW request, request = [verb |-> verb, path |-> path]
    PROVE  /\ Matching(AuthController, request) # {} => Under(request, "auth")
           /\ Matching(UsersController, request) # {} => Under(request, "users")
           /\ Matching(CustomersController, request) # {} => Under(request, "customers")
           /\ Matching(InvoicesController, request) # {} => Under(request, "invoices")
           /\ Matching(DashboardController, request) # {} => Under(request, "dashboard")
           /\ Matching(HealthController, request) # {} => request = HealthCheck
<1>1. ASSUME NEW s \in Segments, NEW controller,
             \A i \in DOMAIN controller : controller[i] \in Hosted(s),
             Matching(controller, request) # {}
      PROVE  Under(request, s)
  <2>1. PICK i \in DOMAIN controller : Matches(controller[i], request)
    BY <1>1 DEF Matching
  <2> QED BY <1>1, <2>1, OwnPathOnly
<1>2. /\ \A i \in DOMAIN AuthController : AuthController[i] \in Hosted("auth")
      /\ \A i \in DOMAIN UsersController : UsersController[i] \in Hosted("users")
      /\ \A i \in DOMAIN CustomersController : CustomersController[i] \in Hosted("customers")
      /\ \A i \in DOMAIN InvoicesController : InvoicesController[i] \in Hosted("invoices")
      /\ \A i \in DOMAIN DashboardController : DashboardController[i] \in Hosted("dashboard")
  <2>1. DOMAIN AuthController = 1..3 /\ DOMAIN UsersController = 1..6
    BY DEF AuthController, UsersController
  <2>2. /\ DOMAIN CustomersController = 1..5 /\ DOMAIN InvoicesController = 1..5
        /\ DOMAIN DashboardController = 1..1
    BY DEF CustomersController, InvoicesController, DashboardController
  <2> QED BY <2>1, <2>2 DEF Hosted, Of
<1>3. {"auth", "users", "customers", "invoices", "dashboard"} \subseteq Segments
  BY DEF Segments
<1>4. ASSUME Matching(HealthController, request) # {}
      PROVE  request = HealthCheck
  <2>1. PICK i \in DOMAIN HealthController : Matches(HealthController[i], request)
    BY <1>4 DEF Matching
  <2>2. i = 1
    <3>1. PICK g : HealthController = <<g>>
      BY DEF HealthController
    <3> QED BY <2>1, <3>1
  <2>3. PICK h : h = HealthController[1]
    OBVIOUS
  <2>4. /\ h.verb = "GET" /\ DOMAIN h.path = 1..2 /\ Len(h.path) = 2
        /\ h.path[1] = "api" /\ h.path[2] = "health"
    BY <2>3, HealthRuled, LenProperties DEF RuledAs, Spells
  <2>5. /\ verb = "GET" /\ Len(path) = 2
        /\ \A k \in 1..2 : h.path[k] \in {":id", path[k]}
    BY <2>1, <2>2, <2>3, <2>4 DEF Matches
  <2>6. path[1] = "api" /\ path[2] = "health"
    BY <2>4, <2>5
  <2>7. path = <<"api", "health">>
    <3>1. PICK T, q : T = S \cup {"api", "health"} /\ q = <<"api", "health">>
      OBVIOUS
    <3>2. path \in Seq(T)
      BY <3>1, SeqMonotonic
    <3>3. q \in Seq(T) /\ Len(q) = 2 /\ q[1] = "api" /\ q[2] = "health"
      BY <3>1
    <3>4. \A i_1 \in 1..2 : i_1 = 1 \/ i_1 = 2
      OBVIOUS
    <3>5. path = q
      BY <2>5, <2>6, <3>2, <3>3, <3>4, SeqEqual
    <3> QED BY <3>1, <3>5
  <2> QED BY <2>5, <2>7 DEF HealthCheck
<1> QED BY <1>1, <1>2, <1>3, <1>4

-----------------------------------------------------------------------------
(* The counters *)

LEMMA PutIs ==
    ASSUME NEW f, NEW k, NEW v
    PROVE  /\ DOMAIN Put(f, k, v) = DOMAIN f \cup {k} /\ Put(f, k, v)[k] = v
           /\ \A j \in DOMAIN f : j # k => Put(f, k, v)[j] = f[j]
BY DEF Put

Hits(n) == \A h \in SUBSET (1..n) : IsFiniteSet(h) /\ Cardinality(h) \in Nat

LEMMA HitsAreFinite == ASSUME NEW n \in Nat PROVE Hits(n)
<1>1. IsFiniteSet(1..n)
  BY FS_Interval
<1> QED BY <1>1, FS_Subset, FS_CardinalityType DEF Hits

\* A record of the throttler with a limit: what it holds was before now, and
\* is not live when a block ends.
Kept(c, L) ==
    /\ c.until \in Nat /\ c.until <= now + Ttl
    /\ DOMAIN c.hits \in SUBSET (1..Len(log))
    /\ \A n \in DOMAIN c.hits : c.hits[n] \in Nat /\ c.hits[n] <= now
    /\ c.until = 0 => Cardinality(DOMAIN c.hits) <= L
    /\ c.until # 0 =>
          /\ Cardinality(DOMAIN c.hits) = L + 1
          /\ \A n \in DOMAIN c.hits :
                c.hits[n] + Ttl <= c.until /\ c.until < c.hits[n] + 2 * Ttl

LEMMA Counting ==
    ASSUME now \in Nat, Len(log) \in Nat, NEW m, m = Len(log) + 1,
           NEW L \in Nat \ {0}, NEW c, Kept(c, L),
           NEW d, d = Increment(c, L)
    PROVE  /\ d.until \in Nat /\ d.until <= now + Ttl
           /\ DOMAIN d.hits \in SUBSET (DOMAIN c.hits \cup {m})
           /\ DOMAIN d.hits # {}
           /\ \A n \in DOMAIN d.hits :
                 d.hits[n] = IF n = m THEN now ELSE c.hits[n]
           /\ \A n \in DOMAIN c.hits :
                 now < c.hits[n] + Ttl => n \in DOMAIN d.hits
           /\ d.until <= now => d.until = 0 /\ m \in DOMAIN d.hits
           /\ d.until = 0 => Cardinality(DOMAIN d.hits) <= L
           /\ d.until # 0 =>
                 /\ Cardinality(DOMAIN d.hits) = L + 1
                 /\ \A n \in DOMAIN d.hits :
                       d.hits[n] + Ttl <= d.until /\ d.until < d.hits[n] + 2 * Ttl
           /\ d.until # 0 /\ d # c => m \in DOMAIN d.hits /\ d.until > now
<1>1. Ttl \in Nat \ {0}
  BY LimitsPositive
<1>2. Hits(Len(log)) /\ m \notin DOMAIN c.hits
  BY HitsAreFinite DEF Kept
<1>3. IsFiniteSet(DOMAIN c.hits) /\ Cardinality(DOMAIN c.hits) \in Nat
  BY <1>2 DEF Hits, Kept
<1>4. CASE c.until > now
  <2>1. d = c
    BY <1>4 DEF Increment
  <2>2. DOMAIN c.hits # {}
    BY <1>1, <1>3, <1>4, FS_EmptySet DEF Kept
  <2>3. /\ c.until # 0 /\ c.until > now
        /\ \A n \in DOMAIN c.hits : n # m
        /\ DOMAIN c.hits \in SUBSET (DOMAIN c.hits \cup {m})
    BY <1>2, <1>4
  <2>4. /\ c.until \in Nat /\ c.until <= now + Ttl
        /\ Cardinality(DOMAIN c.hits) = L + 1
        /\ \A n \in DOMAIN c.hits :
              c.hits[n] + Ttl <= c.until /\ c.until < c.hits[n] + 2 * Ttl
    BY <2>3 DEF Kept
  <2>5. ~(c.until <= now)
    BY <1>4, <2>4
  <2> QED BY <2>1, <2>2, <2>3, <2>4, <2>5, Zenon
<1>5. CASE ~(c.until > now) /\ c.until # 0
  <2>1. d = [hits |-> Put(<<>>, m, now), until |-> 0]
    BY <1>5 DEF Increment
  <2>2. DOMAIN d.hits = {m} /\ d.hits[m] = now /\ d.until = 0
    <3>1. PICK h : h = Put(<<>>, m, now)
      OBVIOUS
    <3>2. DOMAIN h = DOMAIN <<>> \cup {m} /\ h[m] = now
      BY <3>1 DEF Put
    <3>3. DOMAIN <<>> = {}
      OBVIOUS
    <3> QED BY <2>1, <3>1, <3>2, <3>3
  <2>3. Cardinality(DOMAIN d.hits) = 1
    BY <2>2, FS_Singleton
  <2>4. \A n \in DOMAIN c.hits : ~(now < c.hits[n] + Ttl)
    <3> SUFFICES ASSUME NEW n \in DOMAIN c.hits PROVE ~(now < c.hits[n] + Ttl)
      OBVIOUS
    <3>1. /\ c.hits[n] \in Nat /\ c.until \in Nat /\ c.hits[n] + Ttl <= c.until
      BY <1>5 DEF Kept
    <3> QED BY <1>1, <1>5, <3>1
  <2> QED BY <1>1, <2>2, <2>3, <2>4
<1>6. CASE ~(c.until > now) /\ c.until = 0
  <2>1. PICK live : live = {n \in DOMAIN c.hits : now < c.hits[n] + Ttl}
    OBVIOUS
  <2>2. d = [hits |-> Put(Restrict(c.hits, live), m, now),
             until |-> IF Cardinality(live) >= L THEN now + Ttl ELSE 0]
    BY <1>6, <2>1 DEF Increment
  <2>3. /\ DOMAIN Restrict(c.hits, live) = live
        /\ \A n \in live : Restrict(c.hits, live)[n] = c.hits[n]
    BY DEF Restrict
  <2>4. /\ DOMAIN d.hits = live \cup {m} /\ d.hits[m] = now
        /\ \A n \in live : n # m => d.hits[n] = c.hits[n]
        /\ d.until = IF Cardinality(live) >= L THEN now + Ttl ELSE 0
    <3>1. PICK f, h : f = Restrict(c.hits, live) /\ h = Put(f, m, now)
      OBVIOUS
    <3>2. /\ DOMAIN h = live \cup {m} /\ h[m] = now
          /\ \A n \in live : n # m => h[n] = f[n]
      BY <2>3, <3>1 DEF Put
    <3> QED BY <2>2, <2>3, <3>1, <3>2
  <2>5. /\ Cardinality(live) \in Nat /\ Cardinality(live) <= L
        /\ Cardinality(live \cup {m}) = Cardinality(live) + 1
    <3>1. live \in SUBSET DOMAIN c.hits /\ m \notin live
      BY <1>2, <2>1
    <3>2. /\ IsFiniteSet(live) /\ Cardinality(live) \in Nat
          /\ Cardinality(live) <= Cardinality(DOMAIN c.hits)
      BY <1>3, <3>1, FS_Subset, FS_CardinalityType
    <3>3. Cardinality(live \cup {m}) = Cardinality(live) + 1
      BY <3>1, <3>2, FS_AddElement
    <3> QED BY <1>3, <1>6, <3>2, <3>3 DEF Kept
  <2>6. \A n \in DOMAIN d.hits :
           /\ d.hits[n] = IF n = m THEN now ELSE c.hits[n]
           /\ d.hits[n] \in Nat /\ d.hits[n] <= now /\ now < d.hits[n] + Ttl
    BY <1>1, <2>1, <2>4 DEF Kept
  <2>7. CASE Cardinality(live) >= L
    <3>1. d.until = now + Ttl /\ Cardinality(live) = L
      BY <2>4, <2>5, <2>7
    <3> QED BY <1>1, <2>1, <2>4, <2>5, <2>6, <3>1
  <2>8. CASE ~(Cardinality(live) >= L)
    <3>1. d.until = 0 /\ Cardinality(live) < L
      BY <2>4, <2>5, <2>8
    <3> QED BY <1>1, <2>1, <2>4, <2>5, <2>6, <3>1
  <2> QED BY <2>7, <2>8
<1> QED BY <1>4, <1>5, <1>6

-----------------------------------------------------------------------------
(* The invariant *)

Answer ==
    {"handled", "tooMany", "unauthorized", "forbidden", "notFound", "unreachable"}

Entry == [client : Client, request : {s.request : s \in Sent}, at : Nat,
          answer : Answer]

End == [process : DOMAIN Imports, at : Nat]

\* The log and the ends are of the past; a counter is of a handler of a process
\* that runs, and never blocks for more than the window from now.
TypesInv ==
    /\ deployment \in DOMAIN Process /\ up \subseteq Process[deployment]
    /\ now \in 0..MaxTime
    /\ log \in Seq(Entry) /\ \A n \in DOMAIN log : log[n].at <= now
    /\ stops \in Seq(End) /\ \A n \in DOMAIN stops : stops[n].at <= now
    /\ \A k \in DOMAIN counters :
          /\ k.process \in up /\ k.process \in DOMAIN Imports
          /\ k.handler \in DOMAIN Imports[k.process]
          /\ counters[k].until \in Nat /\ counters[k].until <= now + Ttl
          /\ DOMAIN counters[k].hits # {}

IInv == TypesInv /\ CountersInv /\ BudgetInv /\ RefusalsEarned

LEMMA Deployed ==
    ASSUME deployment' = deployment
    PROVE  /\ \A r : Reached(r)' = Reached(r)
           /\ \A c : Address(c)' = Address(c)
           /\ \A there, c : Key(there, c)' = Key(there, c)
<1>1. \A r : Reached(r)' = Reached(r)
  BY DEF Reached
<1>2. \A c : Address(c)' = Address(c)
  BY DEF Address
<1>3. \A there, c : Key(there, c)' = Key(there, c)
  BY <1>2 DEF Key
<1> QED BY <1>1, <1>2, <1>3

\* The key of a handler, and its limit.
LEMMA KeyIs ==
    ASSUME NEW there, NEW client, NEW key, key = Key(there, client)
    PROVE  /\ key.process = there.process /\ key.handler = there.index
           /\ key.address = Address(client)
           /\ limitOf(key) = Imports[there.process][there.index].limit
BY DEF Key, limitOf

LEMMA LimitIsPositive ==
    ASSUME NEW p \in DOMAIN Imports, NEW i \in DOMAIN Imports[p]
    PROVE  Imports[p][i].limit \in Nat \ {0}
<1>1. Imports[p][i].limit \in Limits
  BY LimitsAre
<1> QED BY <1>1, LimitsPositive DEF Limits

LEMMA ThePast ==
    ASSUME TypesInv
    PROVE  /\ now \in Nat /\ Ttl \in Nat \ {0} /\ MaxTime \in Nat
           /\ Len(log) \in Nat /\ DOMAIN log = 1..Len(log)
           /\ \A n \in DOMAIN log : log[n].at \in Nat /\ log[n].at <= now
           /\ Len(stops) \in Nat /\ DOMAIN stops = 1..Len(stops)
           /\ \A n \in DOMAIN stops : stops[n].at \in Nat /\ stops[n].at <= now
<1>1. MaxTime \in Nat /\ Ttl \in Nat \ {0} /\ now \in Nat
  BY TimeIsANumber, LimitsPositive DEF TypesInv
<1>2. log \in Seq(Entry) /\ stops \in Seq(End)
  BY DEF TypesInv
<1>3. Len(log) \in Nat /\ DOMAIN log = 1..Len(log)
  BY <1>2, LenProperties
<1>4. Len(stops) \in Nat /\ DOMAIN stops = 1..Len(stops)
  BY <1>2, LenProperties
<1>5. ASSUME NEW n \in DOMAIN log PROVE log[n].at \in Nat
  <2>1. log[n] \in Entry
    BY <1>2, <1>3, ElementOfSeq
  <2> QED BY <2>1 DEF Entry
<1>6. ASSUME NEW n \in DOMAIN stops PROVE stops[n].at \in Nat
  <2>1. stops[n] \in End
    BY <1>2, <1>4, ElementOfSeq
  <2> QED BY <2>1 DEF End
<1> QED BY <1>1, <1>3, <1>4, <1>5, <1>6 DEF TypesInv

LEMMA CounterIsKept ==
    ASSUME TypesInv, CountersInv, NEW key, key.process \in DOMAIN Imports,
           key.handler \in DOMAIN Imports[key.process]
    PROVE  /\ limitOf(key) \in Nat \ {0} /\ Kept(CounterOf(key), limitOf(key))
           /\ \A n \in DOMAIN CounterOf(key).hits :
                 /\ n \in DOMAIN log /\ KeyOf(n) = key
                 /\ CounterOf(key).hits[n] = log[n].at
           /\ CounterOf(key).until # 0 =>
                 \E n \in DOMAIN CounterOf(key).hits : log[n].answer # "handled"
<1>1. limitOf(key) \in Nat \ {0}
  BY LimitIsPositive DEF limitOf
<1>2. CASE key \in DOMAIN counters
  <2>1. PICK c : c = counters[key]
    OBVIOUS
  <2>2. CounterOf(key) = c
    BY <1>2, <2>1 DEF CounterOf
  <2>3. /\ \A n \in DOMAIN c.hits :
              n \in DOMAIN log /\ KeyOf(n) = key /\ c.hits[n] = log[n].at
        /\ c.until = 0 => Cardinality(DOMAIN c.hits) <= limitOf(key)
        /\ c.until # 0 =>
              /\ Cardinality(DOMAIN c.hits) = limitOf(key) + 1
              /\ \E n \in DOMAIN c.hits : log[n].answer # "handled"
              /\ \A n \in DOMAIN c.hits :
                    c.hits[n] + Ttl <= c.until /\ c.until < c.hits[n] + 2 * Ttl
    BY <1>2, <2>1 DEF CountersInv
  <2>4. c.until \in Nat /\ c.until <= now + Ttl
    BY <1>2, <2>1 DEF TypesInv
  <2>5. \A n \in DOMAIN c.hits : c.hits[n] \in Nat /\ c.hits[n] <= now
    BY <2>3, ThePast
  <2>6. DOMAIN c.hits \in SUBSET (1..Len(log))
    BY <2>3, ThePast
  <2>7. Kept(c, limitOf(key))
    BY <2>3, <2>4, <2>5, <2>6 DEF Kept
  <2> QED BY <1>1, <2>2, <2>3, <2>7
<1>3. CASE key \notin DOMAIN counters
  <2>1. PICK c : c = CounterOf(key)
    OBVIOUS
  <2>2. c.until = 0 /\ DOMAIN c.hits = {}
    BY <1>3, <2>1 DEF CounterOf, Fresh
  <2>3. Cardinality(DOMAIN c.hits) = 0
    BY <2>2, FS_EmptySet
  <2>4. Kept(c, limitOf(key))
    BY <1>1, <2>2, <2>3, ThePast DEF Kept
  <2> QED BY <1>1, <2>1, <2>2, <2>4
<1> QED BY <1>2, <1>3

-----------------------------------------------------------------------------
(* A request *)

\* The m-th request either changes no counter and is neither handled nor
\* refused by the throttler, or is counted under its key, and refused as this
\* blocks.
Asked(client, sent, m) ==
    /\ deployment' = deployment /\ up' = up /\ now' = now /\ stops' = stops
    /\ log' \in Seq(Entry) /\ DOMAIN log' = DOMAIN log \cup {m}
    /\ m \notin DOMAIN log
    /\ \A n \in DOMAIN log : log'[n] = log[n]
    /\ log'[m].at = now /\ log'[m].client = client
    /\ log'[m].request = sent.request
    /\ \/ counters' = counters /\ log'[m].answer \notin {"handled", "tooMany"}
       \/ \E key, d :
             /\ key = Key(Reached(sent.request), client)
             /\ key.process \in up /\ key.process \in DOMAIN Imports
             /\ key.handler \in DOMAIN Imports[key.process]
             /\ d = Increment(CounterOf(key), limitOf(key))
             /\ counters' = Put(counters, key, d)
             /\ log'[m].answer = "tooMany" <=> d.until > now

LEMMA AskServes ==
    ASSUME TypesInv, NEW client \in Client, NEW sent \in Sent, Ask(client, sent),
           NEW m, m = Len(log) + 1
    PROVE  Asked(client, sent, m)
<1>1. PICK there : there = Reached(sent.request)
  OBVIOUS
<1>2. PICK served : served = Served(client, sent.request, sent.token)
  OBVIOUS
<1>3. PICK e : e = [client |-> client, request |-> sent.request, at |-> now,
                    answer |-> served.answer]
  OBVIOUS
<1>4. /\ counters' = served.counters /\ log' = Append(log, e)
      /\ UNCHANGED <<deployment, up, now, stops>>
  BY <1>2, <1>3 DEF Ask
<1>5. \/ /\ served.counters = counters
         /\ served.answer \in {"notFound", "unreachable"}
      \/ \E key, d :
            /\ key = Key(there, client)
            /\ key.process \in up /\ key.process \in DOMAIN Imports
            /\ key.handler \in DOMAIN Imports[key.process]
            /\ d = Increment(CounterOf(key), limitOf(key))
            /\ served.counters = Put(counters, key, d)
            /\ served.answer \in Answer \ {"notFound", "unreachable"}
            /\ served.answer = "tooMany" <=> d.until > now
  <2>1. CASE ~(there.process \in up /\ there.index # 0)
    BY <1>1, <1>2, <2>1 DEF Served
  <2>2. CASE there.process \in up /\ there.index # 0
    <3>1. /\ there.process \in DOMAIN Imports
          /\ there.index \in DOMAIN Imports[there.process]
      BY <1>1, <2>2, ServedByHandler DEF TypesInv
    <3>2. PICK key, handler, d :
             /\ key = Key(there, client)
             /\ handler = Imports[there.process][there.index]
             /\ d = Increment(CounterOf(key), handler.limit)
      OBVIOUS
    <3>3. /\ key.process = there.process /\ key.handler = there.index
          /\ limitOf(key) = handler.limit
      BY <3>2, KeyIs
    <3>4. /\ served.counters = Put(counters, key, d)
          /\ served.answer = Guarded(handler, sent.token, d)
      BY <1>1, <1>2, <2>2, <3>2 DEF Served
    <3>5. /\ Guarded(handler, sent.token, d) \in Answer \ {"notFound", "unreachable"}
          /\ Guarded(handler, sent.token, d) = "tooMany" <=> d.until > now
      BY DEF Guarded, Answer
    <3> QED BY <2>2, <3>1, <3>2, <3>3, <3>4, <3>5
  <2> QED BY <2>1, <2>2
<1>6. e \in Entry
  <2>1. served.answer \in Answer
    BY <1>5 DEF Answer
  <2>2. now \in Nat
    BY ThePast
  <2> QED BY <1>3, <2>1, <2>2 DEF Entry
<1>7. /\ log' \in Seq(Entry) /\ Len(log') = m /\ Len(log) \in Nat
      /\ DOMAIN log = 1..Len(log)
      /\ \A n \in 1..Len(log) : log'[n] = log[n]
      /\ log'[m] = e
  <2>1. log \in Seq(Entry)
    BY DEF TypesInv
  <2> QED BY <1>4, <1>6, <2>1, AppendProperties, ThePast
<1>8. DOMAIN log' = 1..m
  BY <1>7, LenProperties
<1>9. DOMAIN log' = DOMAIN log \cup {m} /\ m \notin DOMAIN log
  BY <1>7, <1>8
<1>10. /\ log'[m].at = now /\ log'[m].client = client
       /\ log'[m].request = sent.request /\ log'[m].answer = served.answer
  BY <1>3, <1>7
<1>11. \/ counters' = counters /\ log'[m].answer \notin {"handled", "tooMany"}
       \/ \E key, d :
             /\ key = Key(Reached(sent.request), client)
             /\ key.process \in up /\ key.process \in DOMAIN Imports
             /\ key.handler \in DOMAIN Imports[key.process]
             /\ d = Increment(CounterOf(key), limitOf(key))
             /\ counters' = Put(counters, key, d)
             /\ log'[m].answer = "tooMany" <=> d.until > now
  BY <1>1, <1>4, <1>5, <1>10
<1> QED BY <1>4, <1>7, <1>9, <1>10, <1>11 DEF Asked

\* What a request is counted under does not change.
LEMMA AskKeys ==
    ASSUME TypesInv, NEW client \in Client, NEW sent \in Sent, Ask(client, sent),
           NEW m, m = Len(log) + 1
    PROVE  /\ \A n \in DOMAIN log : KeyOf(n)' = KeyOf(n)
           /\ KeyOf(m)' = Key(Reached(sent.request), client)
<1>1. /\ deployment' = deployment
      /\ \A n \in DOMAIN log : log'[n] = log[n]
      /\ log'[m].client = client /\ log'[m].request = sent.request
  <2>1. Asked(client, sent, m)
    BY AskServes
  <2> QED BY <2>1 DEF Asked
<1>2. /\ \A r : Reached(r)' = Reached(r)
      /\ \A there, c : Key(there, c)' = Key(there, c)
  BY <1>1, Deployed
<1>3. \A r, c : Key(Reached(r), c)' = Key(Reached(r), c)
  BY <1>2
<1> QED BY <1>1, <1>3 DEF KeyOf

\* A counter in the log's terms.
Holds(c, key) ==
    /\ \A n \in DOMAIN c.hits :
          n \in DOMAIN log /\ KeyOf(n) = key /\ c.hits[n] = log[n].at
    /\ c.until = 0 => Cardinality(DOMAIN c.hits) <= limitOf(key)
    /\ c.until # 0 =>
          /\ Cardinality(DOMAIN c.hits) = limitOf(key) + 1
          /\ \E n \in DOMAIN c.hits : log[n].answer # "handled"
          /\ \A n \in DOMAIN c.hits :
                c.hits[n] + Ttl <= c.until /\ c.until < c.hits[n] + 2 * Ttl

LEMMA CountersHold ==
    CountersInv <=> \A key \in DOMAIN counters : Holds(counters[key], key)
BY DEF CountersInv, Holds

\* What a counter holds, it holds after the next request.
LEMMA StillHolds ==
    ASSUME TypesInv, NEW client \in Client, NEW sent \in Sent, Ask(client, sent),
           NEW key, NEW c, Holds(c, key)
    PROVE  Holds(c, key)'
<1>1. PICK m : m = Len(log) + 1
  OBVIOUS
<1>2. Asked(client, sent, m)
  BY <1>1, AskServes
<1>3. DOMAIN log' = DOMAIN log \cup {m} /\ \A n \in DOMAIN log : log'[n] = log[n]
  BY <1>2 DEF Asked
<1>4. \A n \in DOMAIN log : KeyOf(n)' = KeyOf(n)
  BY <1>1, AskKeys
<1> QED BY <1>3, <1>4 DEF Holds

LEMMA CountedHolds ==
    ASSUME TypesInv, CountersInv,
           NEW client \in Client, NEW sent \in Sent, Ask(client, sent),
           NEW m, m = Len(log) + 1,
           NEW key, key = Key(Reached(sent.request), client),
           key.process \in DOMAIN Imports, key.handler \in DOMAIN Imports[key.process],
           NEW d, d = Increment(CounterOf(key), limitOf(key)),
           log'[m].answer = "tooMany" <=> d.until > now
    PROVE  /\ Holds(d, key)'
           /\ d.until \in Nat /\ d.until <= now + Ttl /\ DOMAIN d.hits # {}
           /\ d.until <= now => m \in DOMAIN d.hits
           /\ \A n \in DOMAIN CounterOf(key).hits :
                 now < log[n].at + Ttl => n \in DOMAIN d.hits
<1>1. PICK c, L : c = CounterOf(key) /\ L = limitOf(key)
  OBVIOUS
<1>2. /\ L \in Nat \ {0} /\ Kept(c, L)
      /\ \A n \in DOMAIN c.hits :
            n \in DOMAIN log /\ KeyOf(n) = key /\ c.hits[n] = log[n].at
      /\ c.until # 0 => \E n \in DOMAIN c.hits : log[n].answer # "handled"
  BY <1>1, CounterIsKept
<1>3. now \in Nat /\ Len(log) \in Nat /\ Ttl \in Nat \ {0}
  BY ThePast
<1>4. d = Increment(c, L)
  BY <1>1
<1>5. /\ d.until \in Nat /\ d.until <= now + Ttl
      /\ DOMAIN d.hits \in SUBSET (DOMAIN c.hits \cup {m})
      /\ DOMAIN d.hits # {}
      /\ \A n \in DOMAIN d.hits : d.hits[n] = IF n = m THEN now ELSE c.hits[n]
      /\ \A n \in DOMAIN c.hits : now < c.hits[n] + Ttl => n \in DOMAIN d.hits
      /\ d.until <= now => d.until = 0 /\ m \in DOMAIN d.hits
      /\ d.until = 0 => Cardinality(DOMAIN d.hits) <= L
      /\ d.until # 0 =>
            /\ Cardinality(DOMAIN d.hits) = L + 1
            /\ \A n \in DOMAIN d.hits :
                  d.hits[n] + Ttl <= d.until /\ d.until < d.hits[n] + 2 * Ttl
      /\ d.until # 0 /\ d # c => m \in DOMAIN d.hits /\ d.until > now
  BY <1>2, <1>3, <1>4, Counting
<1>6. Asked(client, sent, m)
  BY AskServes
<1>7. /\ DOMAIN log' = DOMAIN log \cup {m} /\ \A n \in DOMAIN log : log'[n] = log[n]
      /\ log'[m].at = now /\ m \notin DOMAIN log
  BY <1>6 DEF Asked
<1>8. \A n \in DOMAIN log : KeyOf(n)' = KeyOf(n)
  BY AskKeys
<1>9. KeyOf(m)' = key
  BY AskKeys
<1>10. ASSUME NEW n \in DOMAIN d.hits
       PROVE  n \in DOMAIN log' /\ KeyOf(n)' = key /\ d.hits[n] = log'[n].at
  <2>1. CASE n = m
    BY <1>5, <1>7, <1>9, <2>1
  <2>2. CASE n # m
    <3>1. n \in DOMAIN c.hits /\ d.hits[n] = c.hits[n]
      BY <1>5, <2>2
    <3> QED BY <1>2, <1>7, <1>8, <3>1
  <2> QED BY <2>1, <2>2
<1>11. d.until # 0 => \E n \in DOMAIN d.hits : log'[n].answer # "handled"
  <2>1. CASE d.until # 0 /\ d = c
    <3>1. PICK n \in DOMAIN c.hits : log[n].answer # "handled"
      BY <1>2, <2>1
    <3>2. n \in DOMAIN log /\ log'[n] = log[n]
      BY <1>2, <1>7
    <3> QED BY <2>1, <3>1, <3>2
  <2>2. CASE d.until # 0 /\ d # c
    <3>1. m \in DOMAIN d.hits /\ d.until > now
      BY <1>5, <2>2
    <3> QED BY <3>1
  <2> QED BY <2>1, <2>2
<1>12. Holds(d, key)'
  BY <1>1, <1>5, <1>10, <1>11 DEF Holds
<1> QED BY <1>1, <1>2, <1>5, <1>12

LEMMA AskCounters ==
    ASSUME TypesInv, CountersInv,
           NEW client \in Client, NEW sent \in Sent, Ask(client, sent)
    PROVE  TypesInv' /\ CountersInv'
<1>1. PICK m : m = Len(log) + 1
  OBVIOUS
<1>2. Asked(client, sent, m)
  BY <1>1, AskServes
<1>3. \A n \in DOMAIN log' : log'[n].at <= now
  <2>1. DOMAIN log' = DOMAIN log \cup {m} /\ \A n \in DOMAIN log : log'[n] = log[n]
    BY <1>2 DEF Asked
  <2>2. log'[m].at = now /\ now \in Nat
    BY <1>2, ThePast DEF Asked
  <2> QED BY <2>1, <2>2, ThePast
<1>4. ASSUME NEW j \in DOMAIN counters'
      PROVE  /\ j.process \in up /\ j.process \in DOMAIN Imports
             /\ j.handler \in DOMAIN Imports[j.process]
             /\ counters'[j].until \in Nat /\ counters'[j].until <= now + Ttl
             /\ DOMAIN counters'[j].hits # {}
             /\ Holds(counters[j], j)'
  <2>1. ASSUME j \in DOMAIN counters, counters'[j] = counters[j]
        PROVE  /\ j.process \in up /\ j.process \in DOMAIN Imports
               /\ j.handler \in DOMAIN Imports[j.process]
               /\ counters'[j].until \in Nat /\ counters'[j].until <= now + Ttl
               /\ DOMAIN counters'[j].hits # {}
               /\ Holds(counters[j], j)'
    <3>1. PICK c : c = counters[j] /\ c = counters'[j]
      BY <2>1
    <3>2. Holds(c, j)
      BY <2>1, <3>1, CountersHold
    <3>3. Holds(c, j)'
      BY <3>2, StillHolds
    <3>4. Holds(counters[j], j)'
      BY <3>1, <3>3 DEF Holds
    <3> QED BY <2>1, <3>4 DEF TypesInv
  <2>2. CASE counters' = counters
    BY <1>4, <2>1, <2>2
  <2>3. ASSUME NEW key, NEW d,
               key = Key(Reached(sent.request), client),
               key.process \in up, key.process \in DOMAIN Imports,
               key.handler \in DOMAIN Imports[key.process],
               d = Increment(CounterOf(key), limitOf(key)),
               counters' = Put(counters, key, d),
               log'[m].answer = "tooMany" <=> d.until > now
        PROVE  /\ j.process \in up /\ j.process \in DOMAIN Imports
               /\ j.handler \in DOMAIN Imports[j.process]
               /\ counters'[j].until \in Nat /\ counters'[j].until <= now + Ttl
               /\ DOMAIN counters'[j].hits # {}
               /\ Holds(counters[j], j)'
    <3>1. /\ Holds(d, key)'
          /\ d.until \in Nat /\ d.until <= now + Ttl /\ DOMAIN d.hits # {}
      BY <1>1, <2>3, CountedHolds
    <3>2. /\ DOMAIN counters' = DOMAIN counters \cup {key} /\ counters'[key] = d
          /\ \A k \in DOMAIN counters : k # key => counters'[k] = counters[k]
      BY <2>3 DEF Put
    <3>3. CASE j = key
      <4>1. counters'[j] = d
        BY <3>2, <3>3
      <4>2. Holds(counters[j], j)'
        BY <3>1, <3>3, <4>1 DEF Holds
      <4> QED BY <2>3, <3>1, <3>3, <4>1, <4>2
    <3>4. CASE j # key
      <4>1. j \in DOMAIN counters /\ counters'[j] = counters[j]
        BY <1>4, <3>2, <3>4
      <4> QED BY <2>1, <4>1
    <3> QED BY <3>3, <3>4
  <2>4. \/ counters' = counters
        \/ \E key, d :
              /\ key = Key(Reached(sent.request), client)
              /\ key.process \in up /\ key.process \in DOMAIN Imports
              /\ key.handler \in DOMAIN Imports[key.process]
              /\ d = Increment(CounterOf(key), limitOf(key))
              /\ counters' = Put(counters, key, d)
              /\ log'[m].answer = "tooMany" <=> d.until > now
    BY <1>2 DEF Asked
  <2> QED BY <2>2, <2>3, <2>4
<1>5. CountersInv'
  <2>1. \A j \in DOMAIN counters' : Holds(counters[j], j)'
    BY <1>4
  <2> QED BY <2>1 DEF CountersInv, Holds
<1>6. TypesInv'
  <2>1. /\ deployment' = deployment /\ up' = up /\ now' = now /\ stops' = stops
        /\ log' \in Seq(Entry)
    BY <1>2 DEF Asked
  <2> QED BY <1>3, <1>4, <2>1 DEF TypesInv
<1> QED BY <1>5, <1>6

-----------------------------------------------------------------------------
(* What gets through *)

LEMMA BudgetAdds ==
    ASSUME NEW T, IsFiniteSet(T), NEW U, NEW H, NEW G, NEW m, NEW b \in Nat,
           T \subseteq U, U \subseteq T \cup {m}, T \cap H \subseteq G,
           m \in U => m \in G,
           Cardinality(T) <= b + Cardinality(T \cap H)
    PROVE  Cardinality(U) <= b + Cardinality(U \cap G)
<1>1. PICK I, J : I = T \cap H /\ J = U \cap G
  OBVIOUS
<1>2. IsFiniteSet(T \cup {m}) /\ Cardinality(T) \in Nat
  BY FS_AddElement, FS_CardinalityType
<1>3. IsFiniteSet(U) /\ Cardinality(U) \in Nat
  BY <1>2, FS_Subset, FS_CardinalityType, U \in SUBSET (T \cup {m})
<1>4. IsFiniteSet(J) /\ Cardinality(J) \in Nat
  BY <1>1, <1>3, FS_Subset, FS_CardinalityType, J \in SUBSET U
<1>5. /\ IsFiniteSet(I) /\ Cardinality(I) \in Nat
      /\ I \in SUBSET J /\ Cardinality(I) <= Cardinality(J)
  <2>1. I \in SUBSET T /\ I \in SUBSET J
    BY <1>1
  <2> QED BY <1>4, <2>1, FS_Subset, FS_CardinalityType
<1>6. CASE U = T
  BY <1>1, <1>2, <1>4, <1>5, <1>6
<1>7. CASE U # T
  <2>1. U = T \cup {m} /\ m \notin T /\ m \in G
    BY <1>7
  <2>2. Cardinality(U) = Cardinality(T) + 1
    BY <2>1, FS_AddElement
  <2>3. m \notin I /\ I \cup {m} \in SUBSET J
    BY <1>1, <1>5, <2>1
  <2>4. Cardinality(I) + 1 <= Cardinality(J)
    <3>1. Cardinality(I \cup {m}) = Cardinality(I) + 1
      BY <1>5, <2>3, FS_AddElement
    <3>2. Cardinality(I \cup {m}) <= Cardinality(J)
      BY <1>4, <2>3, FS_Subset
    <3> QED BY <3>1, <3>2
  <2> QED BY <1>1, <1>2, <1>4, <1>5, <2>2, <2>4
<1> QED BY <1>6, <1>7

LEMMA ThroughIsFinite ==
    ASSUME TypesInv, NEW key, NEW t
    PROVE  /\ Through(key, t) \in SUBSET (1..Len(log)) /\ IsFiniteSet(Through(key, t))
           /\ IsFiniteSet(Ends(key.process, t))
           /\ Cardinality(Ends(key.process, t)) \in Nat
<1>1. /\ Len(log) \in Nat /\ DOMAIN log = 1..Len(log)
      /\ Len(stops) \in Nat /\ DOMAIN stops = 1..Len(stops)
  BY ThePast
<1>2. /\ Through(key, t) \in SUBSET (1..Len(log))
      /\ Ends(key.process, t) \in SUBSET (1..Len(stops))
  BY <1>1 DEF Through, Ends
<1>3. IsFiniteSet(1..Len(log)) /\ IsFiniteSet(1..Len(stops))
  BY <1>1, FS_Interval
<1> QED BY <1>2, <1>3, FS_Subset, FS_CardinalityType

LEMMA AskCovered ==
    ASSUME TypesInv, CountersInv,
           NEW client \in Client, NEW sent \in Sent, Ask(client, sent),
           NEW key, key.process \in DOMAIN Imports,
           key.handler \in DOMAIN Imports[key.process],
           NEW t \in Nat, now <= t, Covered(key, t)
    PROVE  Covered(key, t)'
<1>1. PICK m : m = Len(log) + 1
  OBVIOUS
<1>2. Asked(client, sent, m)
  BY <1>1, AskServes
<1>3. PICK T, U, H, G :
         /\ T = Through(key, t) /\ U = Through(key, t)'
         /\ H = DOMAIN CounterOf(key).hits /\ G = DOMAIN CounterOf(key)'.hits
  OBVIOUS
<1>4. PICK b : b = limitOf(key) * Cardinality(Ends(key.process, t))
  OBVIOUS
<1>5. /\ now \in Nat /\ Ttl \in Nat \ {0}
      /\ \A n \in DOMAIN log : log[n].at \in Nat /\ log[n].at <= now
  BY ThePast
<1>6. IsFiniteSet(T) /\ b \in Nat
  <2>1. IsFiniteSet(T) /\ Cardinality(Ends(key.process, t)) \in Nat
    BY <1>3, ThroughIsFinite
  <2>2. limitOf(key) \in Nat
    BY CounterIsKept
  <2> QED BY <1>4, <2>1, <2>2
<1>7. /\ \A n \in DOMAIN log : KeyOf(n)' = KeyOf(n)
      /\ KeyOf(m)' = Key(Reached(sent.request), client)
  BY <1>1, AskKeys
<1>8. /\ DOMAIN log' = DOMAIN log \cup {m} /\ m \notin DOMAIN log
      /\ \A n \in DOMAIN log : log'[n] = log[n]
      /\ log'[m].at = now /\ stops' = stops
  BY <1>2 DEF Asked
<1>9. /\ T = {n \in DOMAIN log : log[n].answer = "handled" /\ KeyOf(n) = key
                                    /\ t < log[n].at + Ttl}
      /\ U = {n \in DOMAIN log' : log'[n].answer = "handled" /\ KeyOf(n)' = key
                                    /\ t < log'[n].at + Ttl}
  BY <1>3 DEF Through
<1>10. /\ T \subseteq U /\ U \subseteq T \cup {m}
       /\ m \in U => log'[m].answer = "handled" /\ KeyOf(m)' = key
       /\ \A n \in T : now < log[n].at + Ttl
  <2>1. \A n \in DOMAIN log : n \in T <=> n \in U
    BY <1>7, <1>8, <1>9
  <2>2. \A n \in T : now < log[n].at + Ttl
    BY <1>5, <1>9
  <2>3. T \subseteq DOMAIN log /\ U \subseteq DOMAIN log \cup {m}
    BY <1>8, <1>9
  <2>4. m \in U => log'[m].answer = "handled" /\ KeyOf(m)' = key
    BY <1>9
  <2> QED BY <2>1, <2>2, <2>3, <2>4
<1>11. T \cap H \subseteq G /\ (m \in U => m \in G)
  <2>1. CASE counters' = counters /\ log'[m].answer # "handled"
    <3>1. G = H
      BY <1>3, <2>1 DEF CounterOf
    <3> QED BY <1>10, <2>1, <3>1
  <2>2. ASSUME NEW k, NEW d,
               k = Key(Reached(sent.request), client),
               k.process \in up, k.process \in DOMAIN Imports,
               k.handler \in DOMAIN Imports[k.process],
               d = Increment(CounterOf(k), limitOf(k)),
               counters' = Put(counters, k, d),
               log'[m].answer = "tooMany" <=> d.until > now
        PROVE  T \cap H \subseteq G /\ (m \in U => m \in G)
    <3>1. /\ DOMAIN counters' = DOMAIN counters \cup {k} /\ counters'[k] = d
          /\ \A j \in DOMAIN counters : j # k => counters'[j] = counters[j]
      BY <2>2 DEF Put
    <3>2. CASE key = k
      <4>1. G = DOMAIN d.hits
        BY <1>3, <3>1, <3>2 DEF CounterOf
      <4>2. /\ d.until \in Nat
            /\ d.until <= now => m \in DOMAIN d.hits
            /\ \A n \in DOMAIN CounterOf(k).hits :
                  now < log[n].at + Ttl => n \in DOMAIN d.hits
        BY <1>1, <2>2, CountedHolds
      <4>3. m \in U => d.until <= now
        BY <1>5, <1>10, <2>2, <4>2
      <4> QED BY <1>3, <1>10, <3>2, <4>1, <4>2, <4>3
    <3>3. CASE key # k
      <4>1. CounterOf(key)' = CounterOf(key)
        BY <3>1, <3>3 DEF CounterOf
      <4>2. m \notin U
        BY <1>7, <1>10, <2>2, <3>3
      <4> QED BY <1>3, <4>1, <4>2
    <3> QED BY <3>2, <3>3
  <2>3. \/ counters' = counters /\ log'[m].answer \notin {"handled", "tooMany"}
        \/ \E k, d :
              /\ k = Key(Reached(sent.request), client)
              /\ k.process \in up /\ k.process \in DOMAIN Imports
              /\ k.handler \in DOMAIN Imports[k.process]
              /\ d = Increment(CounterOf(k), limitOf(k))
              /\ counters' = Put(counters, k, d)
              /\ log'[m].answer = "tooMany" <=> d.until > now
    BY <1>2 DEF Asked
  <2> QED BY <2>1, <2>2, <2>3
<1>12. Cardinality(T) <= b + Cardinality(T \cap H)
  BY <1>3, <1>4 DEF Covered
<1>13. Cardinality(U) <= b + Cardinality(U \cap G)
  BY <1>6, <1>10, <1>11, <1>12, BudgetAdds
<1>14. Ends(key.process, t)' = Ends(key.process, t)
  BY <1>8 DEF Ends
<1> QED BY <1>3, <1>4, <1>13, <1>14 DEF Covered

LEMMA AskBudget ==
    ASSUME IInv, NEW client \in Client, NEW sent \in Sent, Ask(client, sent)
    PROVE  BudgetInv'
<1>1. now' = now
  BY DEF Ask
<1>2. SUFFICES ASSUME NEW p \in DOMAIN Imports, NEW a \in Client \cup {"gateway"},
                      NEW i \in DOMAIN Imports[p], NEW t \in now..(MaxTime + Ttl)
               PROVE  Covered([process |-> p, handler |-> i, address |-> a], t)'
  BY <1>1, Zenon DEF BudgetInv
<1>3. PICK key : key = [process |-> p, handler |-> i, address |-> a]
  OBVIOUS
<1>4. Covered(key, t)
  BY <1>3 DEF IInv, BudgetInv
<1>5. t \in Nat /\ now <= t
  BY ThePast DEF IInv
<1>6. key.process = p /\ key.handler = i
  BY <1>3
<1>7. Covered(key, t)'
  BY <1>4, <1>5, <1>6, AskCovered DEF IInv
<1> QED BY <1>3, <1>7

\* Whoever is refused is blocked with what the counter holds.
LEMMA AskRefusals ==
    ASSUME IInv, NEW client \in Client, NEW sent \in Sent, Ask(client, sent)
    PROVE  RefusalsEarned'
<1>1. PICK m : m = Len(log) + 1
  OBVIOUS
<1>2. Asked(client, sent, m)
  BY <1>1, AskServes DEF IInv
<1>3. /\ DOMAIN log' = DOMAIN log \cup {m} /\ m \notin DOMAIN log
      /\ \A n \in DOMAIN log : log'[n] = log[n]
      /\ log'[m].at = now /\ deployment' = deployment
      /\ log'[m].client = client /\ log'[m].request = sent.request
  BY <1>2 DEF Asked
<1>4. Len(log) \in Nat /\ DOMAIN log = 1..Len(log)
  BY ThePast DEF IInv
<1>5. /\ \A r : Reached(r)' = Reached(r)
      /\ \A c : Address(c)' = Address(c)
  BY <1>3, Deployed
<1>6. SUFFICES ASSUME NEW k \in DOMAIN log', log'[k].answer = "tooMany",
                      NEW there, there = Reached(log'[k].request)
               PROVE  Cardinality({n \in 1..k :
                          /\ Reached(log'[n].request) = there
                          /\ Address(log'[n].client) = Address(log'[k].client)
                          /\ log'[k].at < log'[n].at + 2 * Ttl})
                        > Imports[there.process][there.index].limit
  BY <1>5 DEF RefusalsEarned
<1>7. CASE k \in DOMAIN log
  <2>1. \A n \in 1..k : n \in DOMAIN log /\ log'[n] = log[n]
    BY <1>3, <1>4, <1>7
  <2>2. {n \in 1..k : /\ Reached(log'[n].request) = there
                      /\ Address(log'[n].client) = Address(log'[k].client)
                      /\ log'[k].at < log'[n].at + 2 * Ttl}
          = {n \in 1..k : /\ Reached(log[n].request) = there
                          /\ Address(log[n].client) = Address(log[k].client)
                          /\ log[k].at < log[n].at + 2 * Ttl}
    BY <1>3, <1>7, <2>1
  <2>3. log[k].answer = "tooMany" /\ there = Reached(log[k].request)
    BY <1>3, <1>6, <1>7
  <2> QED BY <1>7, <2>2, <2>3 DEF IInv, RefusalsEarned
<1>8. CASE k = m
  <2>1. PICK key, d :
           /\ key = Key(Reached(sent.request), client)
           /\ key.process \in up /\ key.process \in DOMAIN Imports
           /\ key.handler \in DOMAIN Imports[key.process]
           /\ d = Increment(CounterOf(key), limitOf(key))
           /\ counters' = Put(counters, key, d)
           /\ log'[m].answer = "tooMany" <=> d.until > now
    BY <1>2, <1>6, <1>8 DEF Asked
  <2>2. Holds(d, key)' /\ d.until \in Nat
    BY <1>1, <2>1, CountedHolds DEF IInv
  <2>3. now \in Nat /\ Ttl \in Nat \ {0} /\ d.until > now
    BY <1>6, <1>8, <2>1, ThePast DEF IInv
  <2>4. PICK D : D = DOMAIN d.hits
    OBVIOUS
  <2>5. /\ Cardinality(D) = limitOf(key) + 1 /\ limitOf(key) \in Nat
        /\ \A n \in D : /\ n \in DOMAIN log' /\ KeyOf(n)' = key
                        /\ d.hits[n] = log'[n].at /\ d.until < d.hits[n] + 2 * Ttl
    <3>1. limitOf(key) \in Nat
      BY <2>1, CounterIsKept DEF IInv
    <3>2. d.until # 0
      BY <2>2, <2>3
    <3> QED BY <2>2, <2>4, <3>1, <3>2 DEF Holds
  <2>6. /\ there = Reached(sent.request) /\ key.address = Address(client)
        /\ key.process = there.process /\ key.handler = there.index
        /\ limitOf(key) = Imports[there.process][there.index].limit
    BY <1>3, <1>6, <1>8, <2>1, KeyIs
  <2>7. PICK S : S = {n \in 1..k :
                      /\ Reached(log'[n].request) = there
                      /\ Address(log'[n].client) = Address(log'[k].client)
                      /\ log'[k].at < log'[n].at + 2 * Ttl}
    OBVIOUS
  <2>8. ASSUME NEW n \in D PROVE n \in S
    <3>1. n \in 1..k
      BY <1>1, <1>3, <1>4, <1>8, <2>5
    <3>2. KeyOf(n)' = Key(Reached(log'[n].request), log'[n].client)
      <4>1. \A r, c : Key(r, c)' = Key(r, c)
        BY <1>3, Deployed
      <4> QED BY <1>5, <4>1 DEF KeyOf
    <3>3. PICK other : other = Reached(log'[n].request)
      OBVIOUS
    <3>4. /\ key.process = other.process /\ key.handler = other.index
          /\ key.address = Address(log'[n].client)
      BY <2>5, <3>2, <3>3, KeyIs
    <3>5. other = there
      <4>1. /\ other = [process |-> other.process, index |-> other.index]
            /\ there = [process |-> there.process, index |-> there.index]
        BY <2>6, <3>3, ReachedIs DEF IInv
      <4> QED BY <2>6, <3>4, <4>1
    <3>6. log'[n].at + 2 * Ttl > now
      <4>1. log'[n].at \in Nat
        BY <1>3, <1>4, <2>3, <2>5, ThePast DEF IInv
      <4> QED BY <2>2, <2>3, <2>5, <4>1
    <3> QED BY <1>3, <1>8, <2>6, <2>7, <3>1, <3>3, <3>4, <3>5, <3>6
  <2>9. IsFiniteSet(S) /\ Cardinality(S) \in Nat
    <3>1. S \in SUBSET (1..k) /\ k \in Nat
      BY <1>1, <1>4, <1>8, <2>7
    <3>2. IsFiniteSet(1..k)
      BY <3>1, FS_Interval
    <3> QED BY <3>1, <3>2, FS_Subset, FS_CardinalityType
  <2>10. Cardinality(D) <= Cardinality(S)
    BY <2>8, <2>9, FS_Subset, D \in SUBSET S
  <2> QED BY <2>5, <2>6, <2>7, <2>9, <2>10
<1> QED BY <1>3, <1>6, <1>7, <1>8

-----------------------------------------------------------------------------
(* The other steps *)

\* What a counter counts under is a matter of the deployment and the log.
LEMMA SameLog ==
    ASSUME UNCHANGED <<deployment, log>>
    PROVE  /\ \A n : KeyOf(n)' = KeyOf(n)
           /\ \A key, t : Through(key, t)' = Through(key, t)
           /\ RefusalsEarned => RefusalsEarned'
<1>1. /\ \A r : Reached(r)' = Reached(r)
      /\ \A c : Address(c)' = Address(c)
      /\ \A there, c : Key(there, c)' = Key(there, c)
  BY Deployed
<1>2. \A r, c : Key(Reached(r), c)' = Key(Reached(r), c)
  BY <1>1
<1>3. \A n : KeyOf(n)' = KeyOf(n)
  BY <1>2 DEF KeyOf
<1>4. \A key, t : Through(key, t)' = Through(key, t)
  BY <1>3 DEF Through
<1>5. RefusalsEarned => RefusalsEarned'
  BY <1>1 DEF RefusalsEarned
<1> QED BY <1>3, <1>4, <1>5

\* A process starts: it keeps no counters.
LEMMA StartStep ==
    ASSUME IInv, NEW p \in Process[deployment], Start(p)
    PROVE  IInv'
<1>1. /\ UNCHANGED <<deployment, counters, now, stops, log>>
      /\ up' = up \cup {p}
  BY DEF Start
<1>2. TypesInv'
  BY <1>1 DEF IInv, TypesInv
<1>3. /\ \A n : KeyOf(n)' = KeyOf(n)
      /\ \A key, t : Through(key, t)' = Through(key, t)
      /\ RefusalsEarned'
  BY <1>1, SameLog DEF IInv
<1>4. CountersInv'
  BY <1>1, <1>3 DEF IInv, CountersInv
<1>5. BudgetInv'
  <2>1. \A key, t : Covered(key, t) => Covered(key, t)'
    BY <1>1, <1>3 DEF Covered, Ends, CounterOf
  <2> QED BY <1>1, <2>1, Zenon DEF IInv, BudgetInv
<1> QED BY <1>2, <1>3, <1>4, <1>5 DEF IInv

LEMMA TickStep ==
    ASSUME IInv, Tick
    PROVE  IInv'
<1>1. /\ UNCHANGED <<deployment, up, counters, stops, log>>
      /\ now' = now + 1 /\ now < MaxTime
  BY DEF Tick
<1>2. now \in Nat /\ MaxTime \in Nat /\ Ttl \in Nat
  BY ThePast DEF IInv
<1>3. TypesInv'
  <2>1. now' \in 0..MaxTime
    BY <1>1, <1>2
  <2>2. \A n \in DOMAIN log : log[n].at <= now + 1
    BY <1>2, ThePast DEF IInv
  <2>3. \A n \in DOMAIN stops : stops[n].at <= now + 1
    BY <1>2, ThePast DEF IInv
  <2>4. \A k \in DOMAIN counters :
           counters[k].until \in Nat /\ counters[k].until <= now + 1 + Ttl
    BY <1>2 DEF IInv, TypesInv
  <2> QED BY <1>1, <2>1, <2>2, <2>3, <2>4 DEF IInv, TypesInv
<1>4. /\ \A n : KeyOf(n)' = KeyOf(n)
      /\ \A key, t : Through(key, t)' = Through(key, t)
      /\ RefusalsEarned'
  BY <1>1, SameLog DEF IInv
<1>5. CountersInv'
  BY <1>1, <1>4 DEF IInv, CountersInv
<1>6. BudgetInv'
  <2>1. \A key, t : Covered(key, t) => Covered(key, t)'
    BY <1>1, <1>4 DEF Covered, Ends, CounterOf
  <2>2. \A t \in now'..(MaxTime + Ttl) : t \in now..(MaxTime + Ttl)
    BY <1>1, <1>2
  <2> QED BY <2>1, <2>2, Zenon DEF IInv, BudgetInv
<1> QED BY <1>3, <1>4, <1>5, <1>6 DEF IInv

LEMMA StutterStep ==
    ASSUME IInv, UNCHANGED vars
    PROVE  IInv'
<1>1. UNCHANGED <<deployment, up, counters, now, stops, log>>
  BY DEF vars
<1>2. TypesInv'
  BY <1>1 DEF IInv, TypesInv
<1>3. /\ \A n : KeyOf(n)' = KeyOf(n)
      /\ \A key, t : Through(key, t)' = Through(key, t)
      /\ RefusalsEarned'
  BY <1>1, SameLog DEF IInv
<1>4. CountersInv'
  BY <1>1, <1>3 DEF IInv, CountersInv
<1>5. BudgetInv'
  <2>1. \A key, t : Covered(key, t) => Covered(key, t)'
    BY <1>1, <1>3 DEF Covered, Ends, CounterOf
  <2> QED BY <1>1, <2>1, Zenon DEF IInv, BudgetInv
<1> QED BY <1>2, <1>3, <1>4, <1>5 DEF IInv

\* Of what a counter holds, no more than the limit got through.
LEMMA HeldGotThrough ==
    ASSUME TypesInv, CountersInv, NEW key, key.process \in DOMAIN Imports,
           key.handler \in DOMAIN Imports[key.process], NEW t,
           NEW I, I = Through(key, t) \cap DOMAIN CounterOf(key).hits
    PROVE  Cardinality(I) \in Nat /\ Cardinality(I) <= limitOf(key)
<1>1. PICK c, H, L : c = CounterOf(key) /\ H = DOMAIN c.hits /\ L = limitOf(key)
  OBVIOUS
<1>2. /\ L \in Nat \ {0} /\ Kept(c, L)
      /\ c.until # 0 => \E n \in H : log[n].answer # "handled"
  BY <1>1, CounterIsKept
<1>3. IsFiniteSet(H) /\ Cardinality(H) \in Nat
  <2>1. Len(log) \in Nat
    BY ThePast
  <2> QED BY <1>1, <1>2, <2>1, HitsAreFinite DEF Kept, Hits
<1>4. I \in SUBSET H /\ \A n \in I : log[n].answer = "handled"
  BY <1>1 DEF Through
<1>5. IsFiniteSet(I) /\ Cardinality(I) \in Nat /\ Cardinality(I) <= Cardinality(H)
  BY <1>3, <1>4, FS_Subset, FS_CardinalityType
<1>6. CASE c.until = 0
  <2>1. Cardinality(H) <= L
    BY <1>1, <1>2, <1>6 DEF Kept
  <2> QED BY <1>1, <1>2, <1>3, <1>5, <2>1
<1>7. CASE c.until # 0
  <2>1. Cardinality(H) = L + 1
    BY <1>1, <1>2, <1>7 DEF Kept
  <2>2. PICK n \in H : log[n].answer # "handled"
    BY <1>2, <1>7
  <2>3. I # H
    BY <1>4, <2>2
  <2>4. Cardinality(I) # Cardinality(H)
    BY <1>3, <1>4, <2>3, FS_Subset
  <2> QED BY <1>1, <1>2, <1>5, <2>1, <2>4
<1> QED BY <1>6, <1>7

\* A process ends: what its counters held is forgotten, and its end counts.
LEMMA StopStep ==
    ASSUME IInv, NEW p \in Process[deployment], Stop(p)
    PROVE  IInv'
<1>1. /\ UNCHANGED <<deployment, now, log>>
      /\ p \in up /\ up' = up \ {p} /\ counters' = Forget(p)
  BY DEF Stop
<1>2. PICK e : e = [process |-> p, at |-> now] /\ stops' = Append(stops, e)
  BY DEF Stop
<1>3. PICK m : m = Len(stops) + 1
  OBVIOUS
<1>4. /\ now \in Nat /\ MaxTime \in Nat /\ Ttl \in Nat \ {0}
      /\ Len(stops) \in Nat /\ DOMAIN stops = 1..Len(stops)
      /\ \A n \in DOMAIN stops : stops[n].at \in Nat /\ stops[n].at <= now
      /\ \A n \in DOMAIN log : log[n].at \in Nat /\ log[n].at <= now
  BY ThePast DEF IInv
<1>5. /\ stops' \in Seq(End) /\ DOMAIN stops' = DOMAIN stops \cup {m}
      /\ m \notin DOMAIN stops
      /\ \A n \in DOMAIN stops : stops'[n] = stops[n]
      /\ stops'[m].process = p /\ stops'[m].at = now
  <2>1. p \in DOMAIN Imports
    BY <1>1 DEF IInv, TypesInv, Process, Imports
  <2>2. e \in End
    BY <1>2, <1>4, <2>1 DEF End
  <2>3. stops \in Seq(End)
    BY DEF IInv, TypesInv
  <2>4. /\ stops' \in Seq(End) /\ Len(stops') = m
        /\ \A n \in 1..Len(stops) : stops'[n] = stops[n]
        /\ stops'[m] = e
    BY <1>2, <1>3, <2>2, <2>3, AppendProperties
  <2>5. DOMAIN stops' = 1..m
    BY <2>4, LenProperties
  <2> QED BY <1>2, <1>3, <1>4, <2>4, <2>5
<1>6. /\ DOMAIN counters' = {k \in DOMAIN counters : k.process # p}
      /\ \A k \in DOMAIN counters' : counters'[k] = counters[k]
  BY <1>1 DEF Forget, Restrict
<1>7. TypesInv'
  <2>1. \A n \in DOMAIN stops' : stops'[n].at <= now
    BY <1>4, <1>5
  <2> QED BY <1>1, <1>5, <1>6, <2>1 DEF IInv, TypesInv
<1>8. /\ \A n : KeyOf(n)' = KeyOf(n)
      /\ \A key, t : Through(key, t)' = Through(key, t)
      /\ RefusalsEarned'
  BY <1>1, SameLog DEF IInv
<1>9. CountersInv'
  BY <1>1, <1>6, <1>8 DEF IInv, CountersInv
<1>10. ASSUME NEW q \in DOMAIN Imports, NEW a \in Client \cup {"gateway"},
              NEW i \in DOMAIN Imports[q], NEW t \in now..(MaxTime + Ttl)
       PROVE  Covered([process |-> q, handler |-> i, address |-> a], t)'
  <2>1. PICK key : key = [process |-> q, handler |-> i, address |-> a]
    OBVIOUS
  <2>2. key.process = q /\ key.handler = i
    BY <2>1
  <2>3. Covered(key, t)
    BY <2>1 DEF IInv, BudgetInv
  <2>4. Covered(key, t)'
    <3>1. CASE q # p
      <4>1. CounterOf(key)' = CounterOf(key)
        BY <1>6, <2>2, <3>1 DEF CounterOf
      <4>2. Ends(key.process, t)' = Ends(key.process, t)
        BY <1>5, <2>2, <3>1 DEF Ends
      <4> QED BY <1>8, <2>3, <4>1, <4>2 DEF Covered
    <3>2. CASE q = p
      <4>1. PICK T, E, F, I, L :
               /\ T = Through(key, t) /\ E = Ends(q, t) /\ F = Ends(q, t)'
               /\ I = T \cap DOMAIN CounterOf(key).hits /\ L = limitOf(key)
        OBVIOUS
      <4>2. Cardinality(T) <= L * Cardinality(E) + Cardinality(I)
        BY <2>2, <2>3, <4>1 DEF Covered
      <4>3. /\ Cardinality(I) \in Nat /\ Cardinality(I) <= L /\ L \in Nat
        BY <2>2, <4>1, HeldGotThrough, CounterIsKept DEF IInv
      <4>4. /\ IsFiniteSet(T) /\ Cardinality(T) \in Nat
            /\ IsFiniteSet(E) /\ Cardinality(E) \in Nat
        BY <2>2, <4>1, ThroughIsFinite, FS_CardinalityType DEF IInv
      <4>5. /\ E = {n \in DOMAIN stops : stops[n].process = q /\ t < stops[n].at + Ttl}
            /\ F = {n \in DOMAIN stops' : stops'[n].process = q /\ t < stops'[n].at + Ttl}
        BY <1>1, <4>1 DEF Ends
      <4>6. E \subseteq F /\ F \subseteq E \cup {m} /\ (t < now + Ttl => m \in F)
        BY <1>5, <3>2, <4>5
      <4>7. IsFiniteSet(F) /\ Cardinality(F) \in Nat
        BY <4>4, <4>6, FS_AddElement, FS_Subset, FS_CardinalityType,
           F \in SUBSET (E \cup {m})
      <4>8. Cardinality(T) <= L * Cardinality(F)
        <5>1. CASE t < now + Ttl
          <6>1. F = E \cup {m} /\ m \notin E
            BY <1>5, <4>5, <4>6, <5>1
          <6>2. Cardinality(F) = Cardinality(E) + 1
            BY <4>4, <6>1, FS_AddElement
          <6>3. L * (Cardinality(E) + 1) = L * Cardinality(E) + L
            BY <4>3, <4>4
          <6>4. L * Cardinality(E) \in Nat
            BY <4>3, <4>4
          <6> QED BY <4>2, <4>3, <4>4, <6>2, <6>3, <6>4
        <5>2. CASE ~(t < now + Ttl)
          <6>1. T = {}
            BY <1>4, <4>1, <5>2 DEF Through
          <6>2. Cardinality(T) = 0
            BY <6>1, FS_EmptySet
          <6>3. L * Cardinality(F) \in Nat
            BY <4>3, <4>7
          <6> QED BY <6>2, <6>3
        <5> QED BY <5>1, <5>2
      <4>9. Cardinality(Through(key, t)' \cap DOMAIN CounterOf(key)'.hits) = 0
        <5>1. key \notin DOMAIN counters'
          BY <1>6, <2>2, <3>2
        <5>2. DOMAIN CounterOf(key)'.hits = {}
          BY <5>1 DEF CounterOf, Fresh
        <5>3. Through(key, t)' \cap DOMAIN CounterOf(key)'.hits = {}
          BY <5>2
        <5> QED BY <5>3, FS_EmptySet
      <4>10. Through(key, t)' = T /\ Ends(key.process, t)' = F
        BY <1>8, <2>2, <4>1
      <4>11. L * Cardinality(F) \in Nat
        BY <4>3, <4>7
      <4> QED BY <4>1, <4>8, <4>9, <4>10, <4>11 DEF Covered
    <3> QED BY <3>1, <3>2
  <2> QED BY <2>1, <2>4
<1>11. BudgetInv'
  BY <1>1, <1>10, Zenon DEF BudgetInv
<1> QED BY <1>7, <1>8, <1>9, <1>11 DEF IInv

-----------------------------------------------------------------------------
(* The theorems *)

LEMMA InitInv == Init => IInv
<1> SUFFICES ASSUME Init PROVE IInv
  OBVIOUS
<1>1. /\ deployment \in DOMAIN Process /\ up = Process[deployment]
      /\ counters = <<>> /\ now = 0 /\ stops = <<>> /\ log = <<>>
  BY DEF Init
<1>2. /\ DOMAIN counters = {} /\ DOMAIN log = {} /\ DOMAIN stops = {}
      /\ log \in Seq(Entry) /\ stops \in Seq(End)
  BY <1>1
<1>3. TypesInv
  BY <1>1, <1>2, TimeIsANumber DEF TypesInv
<1>4. CountersInv /\ RefusalsEarned
  BY <1>2 DEF CountersInv, RefusalsEarned
<1>5. ASSUME NEW p \in DOMAIN Imports, NEW a \in Client \cup {"gateway"},
             NEW i \in DOMAIN Imports[p], NEW t \in now..(MaxTime + Ttl)
      PROVE  Covered([process |-> p, handler |-> i, address |-> a], t)
  <2>1. PICK key : key = [process |-> p, handler |-> i, address |-> a]
    OBVIOUS
  <2>2. key.process = p /\ key.handler = i
    BY <2>1
  <2>3. Through(key, t) = {} /\ Through(key, t) \cap DOMAIN CounterOf(key).hits = {}
    BY <1>2 DEF Through
  <2>4. /\ Cardinality(Through(key, t)) = 0
        /\ Cardinality(Through(key, t) \cap DOMAIN CounterOf(key).hits) = 0
    BY <2>3, FS_EmptySet
  <2>5. limitOf(key) * Cardinality(Ends(key.process, t)) \in Nat
    <3>1. limitOf(key) \in Nat
      BY <1>3, <1>4, <2>2, CounterIsKept
    <3>2. Cardinality(Ends(key.process, t)) \in Nat
      BY <1>3, ThroughIsFinite
    <3> QED BY <3>1, <3>2
  <2>6. Covered(key, t)
    BY <2>4, <2>5 DEF Covered
  <2> QED BY <2>1, <2>6
<1>6. BudgetInv
  BY <1>5, Zenon DEF BudgetInv
<1> QED BY <1>3, <1>4, <1>6 DEF IInv

LEMMA AskStep ==
    ASSUME IInv, NEW client \in Client, NEW sent \in Sent, Ask(client, sent)
    PROVE  IInv'
<1>1. TypesInv' /\ CountersInv'
  BY AskCounters DEF IInv
<1>2. BudgetInv'
  BY AskBudget
<1>3. RefusalsEarned'
  BY AskRefusals
<1> QED BY <1>1, <1>2, <1>3 DEF IInv

LEMMA Invariance == Spec => []IInv
<1>1. Init => IInv
  BY InitInv
<1>2. IInv /\ [Next]_vars => IInv'
  <2> SUFFICES ASSUME IInv, [Next]_vars PROVE IInv'
    OBVIOUS
  <2>1. CASE \E client \in Client, sent \in Sent : Ask(client, sent)
    BY <2>1, AskStep
  <2>2. CASE \E p \in Process[deployment] : Stop(p) \/ Start(p)
    BY <2>2, StopStep, StartStep
  <2>3. CASE Tick
    BY <2>3, TickStep
  <2>4. CASE UNCHANGED vars
    BY <2>4, StutterStep
  <2> QED BY <2>1, <2>2, <2>3, <2>4 DEF Next
<1> QED BY <1>1, <1>2, PTL DEF Spec

LEMMA MaxOfLimits ==
    Max(Limits) \in Nat /\ \A l \in Limits : l <= Max(Limits)
<1>1. Limits \in SUBSET Nat
  BY LimitsPositive DEF Limits
<1>2. \E x \in Limits : \A y \in Limits : x >= y
  BY LimitsPositive DEF Limits
<1>3. Max(Limits) \in Limits /\ \A y \in Limits : Max(Limits) >= y
  BY <1>2 DEF Max
<1> QED BY <1>1, <1>3

\* A counter holds at least one hit, at most one more than the largest limit,
\* and goes with its process, whatever is sent, when, by whom and however
\* often processes end (core.module.ts, line 25).
THEOREM TypeCorrect == Spec => []TypeOK
<1>1. IInv => TypeOK
  <2> SUFFICES ASSUME IInv PROVE TypeOK
    OBVIOUS
  <2>1. ASSUME NEW k \in DOMAIN counters
        PROVE  /\ k.process \in up
               /\ counters[k].until \in 0..(MaxTime + Ttl)
               /\ Cardinality(DOMAIN counters[k].hits) \in 1..(1 + Max(Limits))
    <3>1. PICK c, L : c = counters[k] /\ c = CounterOf(k) /\ L = limitOf(k)
      BY DEF CounterOf
    <3>2. /\ k.process \in up /\ k.process \in DOMAIN Imports
          /\ k.handler \in DOMAIN Imports[k.process]
          /\ c.until \in Nat /\ c.until <= now + Ttl /\ DOMAIN c.hits # {}
          /\ now \in 0..MaxTime
      BY <3>1 DEF IInv, TypesInv
    <3>3. now \in Nat /\ MaxTime \in Nat /\ Ttl \in Nat /\ Len(log) \in Nat
      BY ThePast DEF IInv
    <3>4. L \in Nat /\ Kept(c, L)
      BY <3>1, <3>2, CounterIsKept DEF IInv
    <3>5. IsFiniteSet(DOMAIN c.hits) /\ Cardinality(DOMAIN c.hits) \in Nat
      BY <3>3, <3>4, HitsAreFinite DEF Hits, Kept
    <3>6. Cardinality(DOMAIN c.hits) # 0
      BY <3>2, <3>5, FS_EmptySet
    <3>7. Cardinality(DOMAIN c.hits) <= L + 1
      BY <3>4, <3>5 DEF Kept
    <3>8. L <= Max(Limits) /\ Max(Limits) \in Nat
      BY <3>1, <3>2, MaxOfLimits, LimitsAre DEF limitOf
    <3> QED BY <3>1, <3>2, <3>3, <3>4, <3>5, <3>6, <3>7, <3>8
  <2> QED BY <2>1 DEF TypeOK, IInv, TypesInv, Limits
<1> QED BY <1>1, Invariance, PTL

\* Of the requests counted under a key no more get through in a window than its
\* handler's limit, and as many again for each time its process ended in it.
WithinLimit(key) ==
    Cardinality(Through(key, now))
      <= limitOf(key) * (1 + Cardinality(Ends(key.process, now)))

\* So it is for every handler of every process and every address requests come
\* from (core.module.ts, line 25, and auth.controller.ts, lines 34 and 46).
HandlerBudget ==
    \A p \in DOMAIN Imports, a \in Client \cup {"gateway"} :
        \A i \in DOMAIN Imports[p] :
            WithinLimit([process |-> p, handler |-> i, address |-> a])

LEMMA KeysAreWithinLimits ==
    ASSUME IInv, NEW p \in DOMAIN Imports, NEW a \in Client \cup {"gateway"},
           NEW i \in DOMAIN Imports[p], NEW key,
           key = [process |-> p, handler |-> i, address |-> a]
    PROVE  WithinLimit(key)
<1>1. key.process = p /\ key.handler = i
  OBVIOUS
<1>2. Covered(key, now)
  <2>1. now \in 0..MaxTime /\ MaxTime \in Nat /\ Ttl \in Nat
    BY ThePast DEF IInv, TypesInv
  <2>2. now \in now..(MaxTime + Ttl)
    BY <2>1
  <2> QED BY <2>2 DEF IInv, BudgetInv
<1>3. PICK T, E, I, L :
         /\ T = Through(key, now) /\ E = Ends(p, now) /\ L = limitOf(key)
         /\ I = T \cap DOMAIN CounterOf(key).hits
  OBVIOUS
<1>4. IsFiniteSet(T) /\ Cardinality(E) \in Nat
  BY <1>1, <1>3, ThroughIsFinite DEF IInv
<1>5. Cardinality(T) \in Nat
  BY <1>4, FS_CardinalityType
<1>6. Cardinality(I) \in Nat /\ Cardinality(I) <= L /\ L \in Nat
  BY <1>1, <1>3, HeldGotThrough, CounterIsKept DEF IInv
<1>7. Cardinality(T) <= L * Cardinality(E) + Cardinality(I)
  BY <1>1, <1>2, <1>3 DEF Covered
<1>8. L * (1 + Cardinality(E)) = L + L * Cardinality(E) /\ L * Cardinality(E) \in Nat
  BY <1>4, <1>6
<1>9. Cardinality(T) <= L * (1 + Cardinality(E))
  BY <1>5, <1>6, <1>7, <1>8
<1> QED BY <1>1, <1>3, <1>9 DEF WithinLimit

\* What LoginBudget says of logins holds of every handler: the limit of its
\* decorator, or the default, bounds what reaches it from an address
\* (auth.controller.ts, lines 33-35 and 45-47; core.module.ts, line 25).
THEOREM HandlersWithinLimits == Spec => []HandlerBudget
<1>1. IInv => HandlerBudget
  BY KeysAreWithinLimits DEF HandlerBudget
<1> QED BY <1>1, Invariance, PTL

\* However requests, windows and restarts fall, no more logins from an address
\* get through in a window than the limit, and as many again for each end of
\* the process (auth.controller.ts, lines 33-35).
THEOREM LoginsAreFew == Spec => []LoginBudget
<1>1. IInv => LoginBudget
  <2> SUFFICES ASSUME IInv, NEW client \in Client
               PROVE  Cardinality({k \in DOMAIN log :
                          /\ log[k].request = Login /\ log[k].answer = "handled"
                          /\ Address(log[k].client) = Address(client)
                          /\ now < log[k].at + Ttl})
                        <= LoginLimit * (1 + Cardinality({k \in DOMAIN stops :
                              /\ stops[k].process = Owner(Login)
                              /\ now < stops[k].at + Ttl}))
    BY DEF LoginBudget
  <2>1. PICK p, a, key :
           /\ p = Owner(Login) /\ a = Address(client)
           /\ key = [process |-> p, handler |-> 1, address |-> a]
    OBVIOUS
  <2>2. /\ p \in DOMAIN Imports /\ 1 \in DOMAIN Imports[p]
        /\ Reached(Login) = [process |-> p, index |-> 1]
        /\ Imports[p][1].limit = LoginLimit
    BY <2>1, LoginRoute DEF IInv, TypesInv
  <2>3. /\ key.process = p /\ key.handler = 1 /\ limitOf(key) = LoginLimit
        /\ a \in Client \cup {"gateway"}
    BY <2>1, <2>2 DEF limitOf, Address
  <2>4. WithinLimit(key)
    BY <2>1, <2>2, <2>3, KeysAreWithinLimits
  <2>5. PICK S, T, E :
           /\ S = {k \in DOMAIN log :
                     /\ log[k].request = Login /\ log[k].answer = "handled"
                     /\ Address(log[k].client) = Address(client)
                     /\ now < log[k].at + Ttl}
           /\ T = Through(key, now) /\ E = Ends(p, now)
    OBVIOUS
  <2>6. S \in SUBSET T
    <3>1. ASSUME NEW k \in S PROVE k \in T
      <4>1. KeyOf(k) = Key([process |-> p, index |-> 1], log[k].client)
        BY <2>2, <2>5 DEF KeyOf
      <4>2. KeyOf(k) = key
        BY <2>1, <2>5, <4>1 DEF Key
      <4> QED BY <2>5, <4>2 DEF Through
    <3> QED BY <3>1
  <2>7. IsFiniteSet(T) /\ Cardinality(E) \in Nat
    BY <2>3, <2>5, ThroughIsFinite DEF IInv
  <2>8. /\ Cardinality(S) \in Nat /\ Cardinality(T) \in Nat
        /\ Cardinality(S) <= Cardinality(T)
    BY <2>6, <2>7, FS_Subset, FS_CardinalityType
  <2>9. Cardinality(T) <= LoginLimit * (1 + Cardinality(E))
    BY <2>3, <2>4, <2>5 DEF WithinLimit
  <2>10. LoginLimit * (1 + Cardinality(E)) \in Nat
    BY <2>7, LimitsPositive
  <2>11. Cardinality(S) <= LoginLimit * (1 + Cardinality(E))
    BY <2>8, <2>9, <2>10
  <2> QED BY <2>1, <2>5, <2>11 DEF Ends
<1> QED BY <1>1, Invariance, PTL

\* Whoever the throttler refuses has, with those who share the address, sent
\* that one handler more than its limit within the last two windows, whatever
\* was sent elsewhere (core.module.ts, lines 25 and 40).
THEOREM RefusedForCause == Spec => []RefusalsEarned
<1>1. IInv => RefusalsEarned
  BY DEF IInv
<1> QED BY <1>1, Invariance, PTL

\* In either deployment, at any time, whichever processes run, the documented
\* requests are answered as the README's table says; a process that is down
\* takes no other route with it (README.md, lines 125-145, the controllers and
\* gateway/main.ts, lines 40-62).
THEOREM DocumentedAnswers == Spec => []AnswersAsDocumented
<1>1. IInv => AnswersAsDocumented
  <2> SUFFICES ASSUME IInv, NEW row \in Documented, NEW token \in Token,
                      NEW client \in Client, NEW answer,
                      answer = Served(client, row.request, token).answer
               PROVE  IF deployment = "split" /\ row.request.path[2] = "health"
                      THEN answer = "notFound"
                      ELSE IF Owner(row.request) \notin up THEN answer = "unreachable"
                      ELSE answer \in {Allowed(row.access, token), "tooMany"}
    BY DEF AnswersAsDocumented
  <2> QED BY RowAnswered DEF IInv, TypesInv
<1> QED BY <1>1, Invariance, PTL

\* Whatever verb and list of segments is requested of either deployment,
\* documented or not, at any time and whichever processes run: nobody gets to a handler but whom the rule for
\* the verb and the path's segments lets in, and a refusal says whether it is
\* the token or the role that is missing (the controllers' decorators and the
\* guards of core.module.ts; GET /api/users/me is not taken for an id).
THEOREM AccessByRule ==
    ASSUME NEW S, NEW path \in Seq(S), NEW verb,
           NEW request, request = [verb |-> verb, path |-> path]
    PROVE  Spec => []AnsweredByRule(request)
<1>1. IInv => AnsweredByRule(request)
  BY RequestAnswered DEF IInv, TypesInv
<1> QED BY <1>1, Invariance, PTL

\* Whatever verb and list of segments is requested, in the split it is handled by the very handler that
\* handles it in one process, or by none in either; but for GET /api/health,
\* which the gateway keeps from all three (gateway/main.ts, lines 40-62, and
\* app.module.ts).
THEOREM SplitServesAlike ==
    ASSUME deployment = "split", NEW S, NEW path \in Seq(S), NEW verb,
           NEW request, request = [verb |-> verb, path |-> path],
           request # HealthCheck
    PROVE  HandlerAt(Reached(request)) = HandlerAt(Arrival("app", request))
<1>1. PICK ci, cid, au : Lists(ci, cid, au)
  BY ListsAre
<1>2. PICK A, U, C, I, D, H :
         /\ A = AuthController /\ U = UsersController /\ C = CustomersController
         /\ I = InvoicesController /\ D = DashboardController /\ H = HealthController
  OBVIOUS
<1>3. /\ Joins(AuthService, A, H) /\ Joins(UsersService, U, H) /\ Joins(ci, C, I)
      /\ Joins(cid, ci, D) /\ Joins(CoreService, cid, H) /\ Joins(au, A, U)
      /\ Joins(App, au, CoreService)
  BY <1>1, <1>2 DEF Lists
<1>4. /\ A \in Seq(Handlers) /\ U \in Seq(Handlers) /\ C \in Seq(Handlers)
      /\ I \in Seq(Handlers) /\ D \in Seq(Handlers) /\ H \in Seq(Handlers)
      /\ ci \in Seq(Handlers) /\ cid \in Seq(Handlers) /\ au \in Seq(Handlers)
      /\ CoreService \in Seq(Handlers)
  BY <1>2, <1>3, LimitsAre DEF Joins
<1>5. /\ Chained(AuthService, A, H, request) /\ Chained(UsersService, U, H, request)
      /\ Chained(ci, C, I, request) /\ Chained(cid, ci, D, request)
      /\ Chained(CoreService, cid, H, request) /\ Chained(au, A, U, request)
      /\ Chained(App, au, CoreService, request)
  BY <1>3, <1>4, FirstOfTwo
<1>6. /\ Matching(A, request) # {} => Under(request, "auth")
      /\ Matching(U, request) # {} => Under(request, "users")
      /\ Matching(C, request) # {} => Under(request, "customers")
      /\ Matching(I, request) # {} => Under(request, "invoices")
      /\ Matching(D, request) # {} => Under(request, "dashboard")
      /\ Matching(H, request) = {}
  BY <1>2, MatchingUnder
<1>7. \A j : Matching(j, request) = {} => First(j, request) = "none"
  BY DEF First
<1>8. HandlerAt(Arrival("app", request)) = First(App, request)
  BY ArrivesAtFirst DEF Imports
<1>9. CASE \E s \in Segments \ {"health"} : Under(request, s)
  <2>1. PICK s \in Segments \ {"health"} : Under(request, s)
    BY <1>9
  <2>2. \A x : Under(request, x) => x = s
    BY <2>1 DEF Under
  <2>3. Reached(request) = Arrival(Target(s), request)
    BY <2>1, SplitReaches
  <2>4. CASE s = "auth"
    <3>1. HandlerAt(Reached(request)) = First(AuthService, request)
      BY <2>3, <2>4, ArrivesAtFirst DEF Imports, Target
    <3>2. First(AuthService, request) = First(App, request)
      BY <1>5, <1>6, <1>7, <2>2, <2>4 DEF Chained
    <3> QED BY <1>8, <3>1, <3>2
  <2>5. CASE s = "users"
    <3>1. HandlerAt(Reached(request)) = First(UsersService, request)
      BY <2>3, <2>5, ArrivesAtFirst DEF Imports, Target
    <3>2. First(UsersService, request) = First(App, request)
      BY <1>5, <1>6, <1>7, <2>2, <2>5 DEF Chained
    <3> QED BY <1>8, <3>1, <3>2
  <2>6. CASE s \in {"customers", "invoices", "dashboard"}
    <3>1. HandlerAt(Reached(request)) = First(CoreService, request)
      BY <2>3, <2>6, ArrivesAtFirst DEF Imports, Target
    <3>2. First(CoreService, request) = First(App, request)
      BY <1>5, <1>6, <2>2, <2>6 DEF Chained
    <3> QED BY <1>8, <3>1, <3>2
  <2> QED BY <2>1, <2>4, <2>5, <2>6 DEF Segments
<1>10. CASE \A s \in Segments \ {"health"} : ~Under(request, s)
  <2>1. HandlerAt(Reached(request)) = "none"
    <3>1. Reached(request) = Nowhere
      BY <1>10, SplitReaches
    <3> QED BY <3>1 DEF Nowhere, HandlerAt
  <2>2. First(App, request) = "none"
    <3>1. {"auth", "users", "customers", "invoices", "dashboard"}
            \subseteq Segments \ {"health"}
      BY DEF Segments
    <3> QED BY <1>5, <1>6, <1>7, <1>10, <3>1 DEF Chained
  <2> QED BY <1>8, <2>1, <2>2
<1> QED BY <1>9, <1>10
=============================================================================
