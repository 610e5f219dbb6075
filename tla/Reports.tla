------------------------------- MODULE Reports -------------------------------
(***************************************************************************)
(* What readers see while others write: the dashboard's summary            *)
(* (src/modules/dashboard/dashboard.service.ts) and a client that walks    *)
(* through a list page by page (src/common/utils/pagination.ts, the list   *)
(* methods of src/modules).  Prisma runs the statements of such a read in  *)
(* one transaction, but at READ COMMITTED, where each statement has its    *)
(* own snapshot; the pages of a walk are separate requests anyway.         *)
(*                                                                         *)
(* The invoices are those of InvoiceBook, the most their writers promise.  *)
(* A client row stands for a row of a list ordered by createdAt and cut to *)
(* deletedAt null: the customers', and the users', which reads the same.   *)
(* One reader is enough: reads change nothing.                             *)
(*                                                                         *)
(* An operator X_<bug> is X as a plausible bug would have it; the          *)
(* specification does not use it.                                          *)
(***************************************************************************)
EXTENDS InvoiceBook, Integers, FiniteSets, FiniteSetsExt

CONSTANTS
    Client,      \* the customers there may be
    Moment,      \* the values createdAt may take
    Deleted,     \* a client row with deletedAt set
    Now,         \* the current month, counted from year 0
    Limits,      \* the rows of a page a client may ask for
    Start,       \* what a read may find: its kind and the two tables
    MaxWrites    \* bound: the writes that overlap the read

VARIABLES
    clients,     \* clients[c]: Absent, Deleted or its createdAt
    reader,      \* the read in progress
    writes       \* how many writes there have been

vars == <<book, been, clients, reader, writes>>

ASSUME ValuesAreDated == Value \subseteq [issued : Int, total : Nat] /\ Now \in Int
ASSUME MomentsAreNumbers == Moment \subseteq Nat
ASSUME LimitsPositive == Limits \subseteq Nat \ {0}
ASSUME TablesAreFinite == IsFiniteSet(Invoice) /\ IsFiniteSet(Client)
ASSUME NoRowIsApart == Absent \notin Rows /\ {Absent, Deleted} \cap Moment = {}

\* What may be listed: all invoices, those of one status, the live clients.
List == DOMAIN Moves \cup {"ANY", "clients"}

ASSUME StartsAreTables ==
    Start \subseteq [reads   : List \cup {"summary"},
                     book    : [Invoice -> Rows \cup {Absent}],
                     clients : [Client -> Moment \cup {Absent, Deleted}]]

-----------------------------------------------------------------------------
(* The tables as a reader sees them *)

Shown(i) == book[i] # Absent
With(s)  == {i \in Invoice : Shown(i) /\ book[i].status = s}

\* The rows a list's where clause keeps.
Listed(list) ==
    CASE list = "clients" -> {c \in Client : clients[c] \in Moment}
      [] list = "ANY"     -> {i \in Invoice : Shown(i)}
      [] OTHER            -> With(list)

\* What the list is ordered by, the greatest first.
Key(list, r) == IF list = "clients" THEN clients[r] ELSE book[r].value.issued

\* The possible first n rows: the order of equal keys is open.
Firsts(list, rows, n) ==
    {S \in kSubset(Min({n, Cardinality(rows)}), rows) :
        \A s \in S, r \in rows \ S : Key(list, s) >= Key(list, r)}

-----------------------------------------------------------------------------
(* The summary *)

MonthsBack == 6

startOfMonthsAgo(n) == Now - n

monthFrom_inclusive == startOfMonthsAgo(MonthsBack)

monthFrom == startOfMonthsAgo(MonthsBack - 1)

SumOf(f, S) == MapThenSumSet(LAMBDA x : f[x], S)

Revenue(invoices) == MapThenSumSet(LAMBDA i : book[i].value.total, invoices)

\* The groupBy: revenuePaid.  counted, the rows it added up, is for the
\* properties only.
GroupByStatus ==
    /\ reader.kind = "summary" /\ reader.at = "groupBy"
    /\ reader' = [reader EXCEPT !.at = "monthly",
                                !.revenuePaid = Revenue(With("PAID")),
                                !.counted = [i \in With("PAID") |-> book[i]]]

\* The raw query, after the customer count and the recent invoices, which no
\* card is compared with: revenueByMonth, a sum for each month that has one.
RevenueByMonth ==
    LET paid   == {i \in With("PAID") : book[i].value.issued >= monthFrom}
        months == {book[i].value.issued : i \in paid}
    IN  /\ reader.kind = "summary" /\ reader.at = "monthly"
        /\ reader' = [reader EXCEPT !.at = "done",
              !.revenueByMonth = [m \in months |->
                  Revenue({i \in paid : book[i].value.issued = m})]]

-----------------------------------------------------------------------------
(* The walk *)

toPrismaPage_byRow(page, limit) == [skip |-> page - 1, take |-> limit]

toPrismaPage(page, limit) == [skip |-> (page - 1) * limit, take |-> limit]

totalPages_floor(total, limit) == Max({1, total \div limit})

totalPages_plusOne(total, limit) == (total \div limit) + 1

\* buildPageMeta: Math.max(1, Math.ceil(total / limit))
totalPages(total, limit) == Max({1, (total + limit - 1) \div limit})

\* The findMany of a page.
FindMany ==
    /\ reader.kind = "walk" /\ reader.at = "findMany"
    /\ LET rows == Listed(reader.list)
           arg  == toPrismaPage(reader.page, reader.limit)
       IN \E front \in Firsts(reader.list, rows, arg.skip) :
          \E data \in Firsts(reader.list, rows \ front, arg.take) :
             reader' = [reader EXCEPT !.at = "count",
                                      !.again = @ \cup (data \cap reader.got),
                                      !.got = @ \cup data]

\* Its count, then the response: the client asks for the next page while the
\* response says that there is one.
Count ==
    /\ reader.kind = "walk" /\ reader.at = "count"
    /\ reader' =
          IF reader.page < totalPages(Cardinality(Listed(reader.list)), reader.limit)
          THEN [reader EXCEPT !.at = "findMany", !.page = @ + 1]
          ELSE [reader EXCEPT !.at = "done"]

Read == /\ GroupByStatus \/ RevenueByMonth \/ FindMany \/ Count
        /\ UNCHANGED <<book, been, clients, writes>>

-----------------------------------------------------------------------------
(* The writers *)

\* For the properties: which rows stay in the list, each with its key and
\* with no other of that key, and how many left it or entered it, a row that
\* moves doing both.
Settled(list) == {r \in Listed(list) :
    \A other \in Listed(list) \ {r} : Key(list, other) # Key(list, r)}

Watch ==
    IF reader.kind = "summary" THEN UNCHANGED reader ELSE
    \E l \in {reader.list} :
    LET stay == {r \in Listed(l) \cap Listed(l)' : Key(l, r)' = Key(l, r)}
    IN  reader' = [reader EXCEPT
            !.stable  = @ \cap stay \cap Settled(l)',
            !.left    = @ + Cardinality(Listed(l) \ stay),
            !.entered = @ + Cardinality(Listed(l)' \ stay)]

Invoices ==
    /\ \E i \in Invoice, row \in Rows :
          /\ book' = [book EXCEPT ![i] = row]
          /\ Create(i) \/ Edit(i) \/ ChangeStatus(i)
    /\ UNCHANGED clients

\* A row appears with the createdAt its transaction began with, which may be
\* earlier than one that is already listed.
CreateClient(c) ==
    /\ clients[c] = Absent
    /\ \E t \in Moment : clients' = [clients EXCEPT ![c] = t]
    /\ UNCHANGED <<book, been>>

RemoveClient(c) ==
    /\ clients[c] \in Moment
    /\ clients' = [clients EXCEPT ![c] = Deleted]
    /\ UNCHANGED <<book, been>>

Write ==
    /\ writes < MaxWrites
    /\ writes' = writes + 1
    /\ Invoices \/ \E c \in Client : CreateClient(c) \/ RemoveClient(c)
    /\ Watch

-----------------------------------------------------------------------------

Summary == [kind |-> "summary", at |-> "groupBy", revenuePaid |-> 0,
            counted |-> <<>>, revenueByMonth |-> <<>>]

Walk(list, limit) ==
    [kind |-> "walk", at |-> "findMany", list |-> list, limit |-> limit,
     page |-> 1, got |-> {}, again |-> {}, left |-> 0, entered |-> 0,
     stable |-> Settled(list)]

ReadsInit ==
    /\ \E start \in Start :
          /\ book = start.book
          /\ clients = start.clients
          /\ \/ start.reads = "summary" /\ reader = Summary
             \/ /\ start.reads # "summary"
                /\ \E limit \in Limits : reader = Walk(start.reads, limit)
    /\ been = [i \in Invoice |-> IF Shown(i) THEN {book[i].status} ELSE {}]
    /\ writes = 0

ReadsNext == Read \/ Write

ReadsSpec == ReadsInit /\ [][ReadsNext]_vars

-----------------------------------------------------------------------------
(* Properties *)

TypeOK ==
    /\ \A i \in Invoice : book[i] \in Rows \cup {Absent}
    /\ \A c \in Client : clients[c] \in Moment \cup {Absent, Deleted}
    /\ \/ /\ reader.kind = "summary"
          /\ reader.at \in {"groupBy", "monthly", "done"}
          /\ reader.revenuePaid \in Nat
          /\ DOMAIN reader.revenueByMonth \subseteq {v.issued : v \in Value}
       \/ /\ reader.kind = "walk"
          /\ reader.at \in {"findMany", "count", "done"}
          /\ reader.list \in List /\ reader.limit \in Limits
          /\ reader.page \in 1..Max({1, Cardinality(Invoice), Cardinality(Client)})
          /\ reader.again \subseteq reader.got
          /\ reader.got \subseteq Invoice \cup Client

\* The revenue card and the revenue chart of one summary differ by the
\* invoices older than six months, which only the card counts, and by what
\* was paid between the two statements, which only the chart counts; unless
\* an overlapping write reached a paid invoice (summary, lines 17-45).
CardsAgree ==
    [][RevenueByMonth =>
         LET paid  == With("PAID")
             older == {i \in paid : book[i].value.issued <= Now - 6}
             since == paid \ DOMAIN reader.counted
         IN  (\A i \in DOMAIN reader.counted : book[i] = reader.counted[i]) =>
             SumOf(reader'.revenueByMonth, DOMAIN reader'.revenueByMonth)
               + Revenue(older)
             = reader.revenuePaid + Revenue(since)
      ]_vars

\* A walk to the last page misses a row that stayed in its place only if some
\* row left its own meanwhile, and no more rows than left: the rows behind it
\* move up across the page boundary (toPrismaPage, buildPageMeta, and the
\* order of the two statements of each list).
NoMoreMissedThanLeft ==
    reader.kind = "walk" /\ reader.at = "done" =>
        Cardinality(reader.stable \ reader.got) <= reader.left

\* It shows such a row twice only if some row entered, and no more rows than
\* entered.
NoMoreRepeatedThanEntered ==
    reader.kind = "walk" =>
        Cardinality(reader.again \cap reader.stable) <= reader.entered

-----------------------------------------------------------------------------
(* Why *)

\* How many rows the pages read so far have covered.
Covered == IF reader.at = "findMany" THEN (reader.page - 1) * reader.limit
                                     ELSE reader.page * reader.limit

\* How many rows stand before one of the list.
Before(list, r) ==
    Cardinality({other \in Listed(list) : Key(list, other) > Key(list, r)})

\* The rows that stayed, were not read and have slipped among the rows
\* covered; ...
Slipped == {r \in reader.stable \ reader.got : Before(reader.list, r) < Covered}

\* ... those that were read and are among the rows to come.
Repushed == {r \in reader.stable \cap reader.got :
                Before(reader.list, r) >= Covered}

\* Who leaves moves one row up at most, who enters one row down.
WalkInv ==
    reader.kind = "walk" =>
        /\ reader.stable \subseteq Settled(reader.list)
        /\ Cardinality(Slipped) <= reader.left
        /\ Cardinality(Repushed \cup (reader.again \cap reader.stable))
              <= reader.entered
        /\ reader.at = "done" =>
              Cardinality(reader.stable \ reader.got) <= reader.left

\* What the rows a summary counted came to is what its card says.
SummaryInv ==
    reader.kind = "summary" /\ reader.at = "monthly" =>
        /\ \A i \in DOMAIN reader.counted : reader.counted[i].status = "PAID"
        /\ reader.revenuePaid
             = SumOf([i \in DOMAIN reader.counted |->
                         reader.counted[i].value.total], DOMAIN reader.counted)
=============================================================================
