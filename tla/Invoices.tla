------------------------------ MODULE Invoices ------------------------------
(***************************************************************************)
(* The invoice service of the core process: InvoicesService.create, update *)
(* and changeStatus (src/modules/invoices/invoices.service.ts) running     *)
(* concurrently against PostgreSQL at its default isolation level, READ    *)
(* COMMITTED.                                                              *)
(*                                                                         *)
(* One step is one SQL statement or one COMMIT, which is where an await in *)
(* the service lets another request run.  A request is an element of       *)
(* Request and is handled once; its local variables (what getById          *)
(* returned, the number it computed, the rows its DELETE matched) are kept *)
(* beside its program counter.  A write is applied to the tables at        *)
(* COMMIT; the row locks it holds until then are read off the program      *)
(* counters.  A created invoice is named after the request that creates it *)
(* (its id is a fresh uuid).                                               *)
(*                                                                         *)
(* Data that no property tells apart is dropped: descriptions, dates other *)
(* than the year a number is taken for, serialization.  The item rows that *)
(* one create or edit inserts are one batch, of which only the writer and  *)
(* the amount in cents are kept.                                           *)
(*                                                                         *)
(* An operator X_<bug> is X as a plausible bug would have it.  The         *)
(* specification does not use it: it shows that a property can fail.       *)
(***************************************************************************)
EXTENDS Naturals, FiniteSets

CONSTANTS
    Request,    \* the HTTP requests handled in a behaviour
    Seed,       \* the invoices prisma/seed.ts put in the table
    Customer,   \* the customers the clients may name
    Year,       \* the years a number may be scoped to
    Inputs,     \* the request bodies this instance enumerates
    SeedBook,   \* what the seed may have written: functions on Seed
    PoolSize,   \* connection_limit of the process's database pool
    None        \* an optional field that is absent, SQL NULL

VARIABLES
    customers,  \* the customers whose deletedAt is null
    header,     \* the Invoice table: header[i] is a Row or NoRow
    items,      \* the InvoiceItem table: the batches of each invoice
    log,        \* the InvoiceStatusLog table, a set of rows
    pc,         \* where each request stands
    input,      \* the validated body and the user's role
    existing,   \* update, changeStatus: what getById returned
    number,     \* create: the sequence number computed from the count
    doomed      \* update: the batches its DELETE matches

vars == <<customers, header, items, log, pc, input, existing, number, doomed>>
locals == <<input, existing, number, doomed>>
tables == <<header, items, log>>

-----------------------------------------------------------------------------
(* Types *)

Status == {"DRAFT", "SENT", "PAID", "OVERDUE", "CANCELLED"}
Role   == {"ADMIN", "STAFF"}       \* RolesGuard lets no other role write

Invoice == Seed \cup Request
Writer  == Invoice                 \* a seeded invoice's rows are its own

Percent   == 0..100
Number    == [year : Year, seq : Nat]
Money     == [subtotal : Nat, taxRate : Percent, taxAmount : Nat, total : Nat]
Row       == [status : Status, number : Number, customer : Customer,
              money : Money, updatedBy : Request \cup {None}]
NoRow     == [status |-> "ABSENT"]
Batch     == [by : Writer, amount : Nat]
LogRow    == [invoice : Invoice, from : Status \cup {None}, to : Status,
              by : Writer]

\* createInvoiceSchema, updateInvoiceSchema and changeInvoiceStatusSchema,
\* with the role of the authenticated user.
CreateBody == [op : {"create"}, role : Role, customer : Customer, year : Year,
               taxRate : Percent, amount : Nat, status : {"DRAFT", "SENT"}]
UpdateBody == [op : {"update"}, role : Role, invoice : Invoice,
               customer : Customer \cup {None}, taxRate : Percent \cup {None},
               amount : Nat \cup {None}]
StatusBody == [op : {"changeStatus"}, role : Role, invoice : Invoice,
               status : {"SENT", "PAID", "CANCELLED"}]
Body       == CreateBody \cup UpdateBody \cup StatusBody
NoInput    == [op |-> "none"]

SeedRow == [status : Status, number : Number, customer : Customer,
            taxRate : Percent, amount : Nat]

InTx  == {"insert", "delete", "write", "commit"}
Final == {"done", "rejected", "conflict", "failed"}
PC    == {"idle", "customer", "header", "items", "begin"} \cup InTx \cup Final

ASSUME RequestsFinite   == IsFiniteSet(Request) /\ IsFiniteSet(Seed)
ASSUME SeedNotRequest   == Seed \cap Request = {}
ASSUME InputsAreBodies  == Inputs \subseteq Body
ASSUME PoolSizePositive == PoolSize \in Nat \ {0}
ASSUME SeedBookAssumption ==
    \A book \in SeedBook :
        /\ book \in [Seed -> SeedRow]
        /\ \A s, t \in Seed : book[s].number = book[t].number => s = t
ASSUME NoneIsNoStatus == None \notin Status
ASSUME NoneIsNoCustomer == None \notin Customer

-----------------------------------------------------------------------------
(* Helpers *)

TRANSITIONS == [s \in Status |->
    CASE s = "DRAFT"              -> {"SENT", "CANCELLED"}
      [] s \in {"SENT", "OVERDUE"} -> {"PAID", "CANCELLED"}
      [] OTHER                    -> {}]

MayChange_noTable(r, status) ==
    input[r].status = "CANCELLED" => input[r].role = "ADMIN"

MayChange_noAdmin(r, status) == input[r].status \in TRANSITIONS[status]

\* changeStatus goes on from this status; cancelling is for an ADMIN only.
MayChange(r, status) ==
    /\ input[r].status \in TRANSITIONS[status]
    /\ input[r].status = "CANCELLED" => input[r].role = "ADMIN"

Exists(i) == header[i] # NoRow

\* The sum of the amounts of a set of batches, counted cent by cent.
Sum(batches) == Cardinality(UNION {{b} \X (1 .. b.amount) : b \in batches})

\* Math.round((subtotalCents * taxRate) / 100) for a whole percentage.
Tax(subtotal, rate) == (subtotal * rate + 50) \div 100

computeTotals(amount, rate) ==
    [subtotal |-> amount, taxRate |-> rate, taxAmount |-> Tax(amount, rate),
     total |-> amount + Tax(amount, rate)]

\* The optional field of a body, or what getById returned for it.
OrElse(field, default) == IF field = None THEN default ELSE field

Numbers   == {header[i].number : i \in {j \in Invoice : Exists(j)}}
InYear(y) == {i \in Invoice : Exists(i) /\ header[i].number.year = y}

CountOf_allYears(y) == Cardinality({i \in Invoice : Exists(i)})

\* count where number startsWith INV-<year>-
CountOf(y) == Cardinality(InYear(y))

NextNumber_offByOne(y) == CountOf(y)

NextNumber(y) == CountOf(y) + 1

NumberOf(r) == [year |-> input[r].year, seq |-> number[r]]

Taken_noIndex(r) == FALSE

\* The unique index on number holds the request's number.
Taken(r) == NumberOf(r) \in Numbers

IsCreate(r) == input[r].op = "create"
IsUpdate(r) == input[r].op = "update"
IsStatus(r) == input[r].op = "changeStatus"

-----------------------------------------------------------------------------
(* The database pool and the row locks *)

\* A statement outside a transaction, and BEGIN, need a free connection.
PoolFree == Cardinality({r \in Request : pc[r] \in InTx}) < PoolSize

\* Another open transaction has inserted the same number: the unique index
\* makes this INSERT wait for it.
NumberLocked(r) ==
    \E q \in Request \ {r} : /\ pc[q] = "commit"
                             /\ IsCreate(q)
                             /\ NumberOf(q) = NumberOf(r)

\* Another open transaction has deleted one of the rows this DELETE matched.
ItemsLocked(r) ==
    \E q \in Request \ {r} : /\ pc[q] \in {"write", "commit"}
                             /\ IsUpdate(q)
                             /\ input[q].invoice = input[r].invoice
                             /\ doomed[q] \cap doomed[r] # {}

HeaderLocked_byLogInsert(r) ==
    \E q \in Request \ {r} : /\ pc[q] \in {"write", "commit"}
                             /\ IsStatus(q)
                             /\ input[q].invoice = input[r].invoice

\* Another open transaction has updated the header row.  The foreign-key
\* lock an INSERT of a status log or an item takes does not conflict.
HeaderLocked(r) ==
    \E q \in Request \ {r} : /\ pc[q] = "commit"
                             /\ ~IsCreate(q)
                             /\ input[q].invoice = input[r].invoice

-----------------------------------------------------------------------------
(* Initial state *)

SeededRow(s) == [status |-> s.status, number |-> s.number,
                 customer |-> s.customer,
                 money |-> computeTotals(s.amount, s.taxRate),
                 updatedBy |-> None]

Init ==
    /\ customers = Customer
    /\ \E book \in SeedBook :
        /\ header = [i \in Invoice |->
                        IF i \in Seed THEN SeededRow(book[i]) ELSE NoRow]
        /\ items = [i \in Invoice |->
                       IF i \in Seed
                       THEN {[by |-> i, amount |-> book[i].amount]} ELSE {}]
        /\ log = {[invoice |-> s, from |-> None, to |-> book[s].status,
                   by |-> s] : s \in Seed}
    /\ pc = [r \in Request |-> "idle"]
    /\ input = [r \in Request |-> NoInput]
    /\ existing = [r \in Request |-> NoRow]
    /\ number = [r \in Request |-> 0]
    /\ doomed = [r \in Request |-> {}]

-----------------------------------------------------------------------------
(* Steps of a request *)

Goto(r, label) == pc' = [pc EXCEPT ![r] = label]

\* The request passes the guards and the validation pipe and enters the
\* service.
Arrive(r) ==
    /\ pc[r] = "idle"
    /\ \E body \in Inputs :
        /\ input' = [input EXCEPT ![r] = body]
        /\ Goto(r, IF body.op = "create" THEN "customer" ELSE "header")
    /\ UNCHANGED <<customers, tables, existing, number, doomed>>

CustomerIsLive_unchecked(r) == TRUE

\* findFirst where deletedAt is null finds the customer of the body.
CustomerIsLive(r) == input[r].customer \in customers

\* assertCustomer, or BadRequest.
assertCustomer(r) ==
    /\ pc[r] = "customer"
    /\ PoolFree
    /\ Goto(r, IF CustomerIsLive(r) THEN "begin" ELSE "rejected")
    /\ UNCHANGED <<customers, tables, locals>>

\* getById, first SELECT: the header.  changeStatus needs nothing else of
\* it and decides here whether the transition is allowed.
ReadHeader(r) ==
    /\ pc[r] = "header"
    /\ PoolFree
    /\ LET i == input[r].invoice IN
        IF ~Exists(i)
        THEN Goto(r, "rejected") /\ UNCHANGED existing
        ELSE /\ existing' = [existing EXCEPT ![r] =
                   [status |-> header[i].status,
                    taxRate |-> header[i].money.taxRate, amount |-> 0]]
             /\ Goto(r, IF IsUpdate(r) THEN "items"
                        ELSE IF MayChange(r, header[i].status) THEN "begin"
                        ELSE "rejected")
    /\ UNCHANGED <<customers, tables, input, number, doomed>>

MayEdit_always(r) == TRUE

MayEdit(r) == existing[r].status = "DRAFT"

NamesCustomer_always(r) == TRUE

NamesCustomer(r) == input[r].customer # None

\* getById, second SELECT: the items; then the DRAFT check on the header
\* read before.
ReadItems(r) ==
    /\ pc[r] = "items"
    /\ PoolFree
    /\ existing' = [existing EXCEPT ![r].amount = Sum(items[input[r].invoice])]
    /\ Goto(r, IF ~MayEdit(r) THEN "rejected"
               ELSE IF NamesCustomer(r) THEN "customer" ELSE "begin")
    /\ UNCHANGED <<customers, tables, input, number, doomed>>

\* create: BEGIN and nextInvoiceNumber.
nextInvoiceNumber(r) ==
    /\ pc[r] = "begin"
    /\ IsCreate(r)
    /\ PoolFree
    /\ number' = [number EXCEPT ![r] = NextNumber(input[r].year)]
    /\ Goto(r, "insert")
    /\ UNCHANGED <<customers, tables, input, existing, doomed>>

\* create: INSERT of the invoice, its items and its first log row.
InsertInvoice(r) ==
    /\ pc[r] = "insert"
    /\ ~NumberLocked(r)
    /\ ~Taken(r)
    /\ Goto(r, "commit")
    /\ UNCHANGED <<customers, tables, locals>>

\* create: the number is taken, the unique index refuses the INSERT and the
\* transaction rolls back.
NumberTaken(r) ==
    /\ pc[r] = "insert"
    /\ ~NumberLocked(r)
    /\ Taken(r)
    /\ Goto(r, "conflict")
    /\ UNCHANGED <<customers, tables, locals>>

CommitCreate(r) ==
    /\ pc[r] = "commit"
    /\ IsCreate(r)
    /\ header' = [header EXCEPT ![r] =
          [status |-> input[r].status, number |-> NumberOf(r),
           customer |-> input[r].customer,
           money |-> computeTotals(input[r].amount, input[r].taxRate),
           updatedBy |-> None]]
    /\ items' = [items EXCEPT ![r] = {[by |-> r, amount |-> input[r].amount]}]
    /\ log' = log \cup {[invoice |-> r, from |-> None, to |-> input[r].status,
                         by |-> r]}
    /\ Goto(r, "done")
    /\ UNCHANGED <<customers, locals>>

Matched_none(r) == {}

\* deleteMany where invoiceId is the request's.
Matched(r) == items[input[r].invoice]

\* update: BEGIN and the start of deleteMany, whose snapshot fixes the rows
\* it matches.
StartDelete(r) ==
    /\ pc[r] = "begin"
    /\ IsUpdate(r)
    /\ PoolFree
    /\ doomed' = [doomed EXCEPT ![r] = Matched(r)]
    /\ Goto(r, "delete")
    /\ UNCHANGED <<customers, tables, input, existing, number>>

\* update: the end of deleteMany.  It waits for the transactions that have
\* locked a matched row and skips the rows they deleted.
FinishDelete(r) ==
    /\ pc[r] = "delete"
    /\ ~ItemsLocked(r)
    /\ doomed' = [doomed EXCEPT ![r] = @ \cap Matched(r)]
    /\ Goto(r, "write")
    /\ UNCHANGED <<customers, tables, input, existing, number>>

InsertLog_outsideTx(r) ==
    /\ pc[r] = "begin"
    /\ IsStatus(r)
    /\ PoolFree
    /\ log' = log \cup {[invoice |-> input[r].invoice,
                         from |-> existing[r].status,
                         to |-> input[r].status, by |-> r]}
    /\ Goto(r, "write")
    /\ UNCHANGED <<customers, header, items, locals>>

\* changeStatus: BEGIN and the INSERT of the log row.
InsertLog(r) ==
    /\ pc[r] = "begin"
    /\ IsStatus(r)
    /\ PoolFree
    /\ Goto(r, "write")
    /\ UNCHANGED <<customers, tables, locals>>

\* update, changeStatus: UPDATE of the header row, which waits for its lock
\* (and, for update, the INSERT of the new items).
WriteHeader(r) ==
    /\ pc[r] = "write"
    /\ ~HeaderLocked(r)
    /\ Goto(r, "commit")
    /\ UNCHANGED <<customers, tables, locals>>

\* What update merges from the body and from getById.
EditAmount(r)  == OrElse(input[r].amount, existing[r].amount)
EditTaxRate(r) == OrElse(input[r].taxRate, existing[r].taxRate)

EditMoney_readItems(r) == computeTotals(existing[r].amount, EditTaxRate(r))

EditMoney(r) == computeTotals(EditAmount(r), EditTaxRate(r))

CommitUpdate(r) ==
    /\ pc[r] = "commit"
    /\ IsUpdate(r)
    /\ LET i == input[r].invoice IN
        /\ header' = [header EXCEPT
              ![i].customer = OrElse(input[r].customer, @),
              ![i].money = EditMoney(r),
              ![i].updatedBy = r]
        /\ items' = [items EXCEPT ![i] =
              (@ \ doomed[r]) \cup {[by |-> r, amount |-> EditAmount(r)]}]
    /\ Goto(r, "done")
    /\ UNCHANGED <<customers, log, locals>>

CommitStatus_noLog(r) ==
    /\ pc[r] = "commit"
    /\ IsStatus(r)
    /\ header' = [header EXCEPT ![input[r].invoice].status = input[r].status,
                                ![input[r].invoice].updatedBy = r]
    /\ Goto(r, "done")
    /\ UNCHANGED <<customers, items, log, locals>>

CommitStatus(r) ==
    /\ pc[r] = "commit"
    /\ IsStatus(r)
    /\ LET i == input[r].invoice IN
        /\ header' = [header EXCEPT ![i].status = input[r].status,
                                    ![i].updatedBy = r]
        /\ log' = log \cup {[invoice |-> i, from |-> existing[r].status,
                             to |-> input[r].status, by |-> r]}
    /\ Goto(r, "done")
    /\ UNCHANGED <<customers, items, locals>>

\* The process dies, the client's connection or the database's is lost, the
\* pool or the interactive transaction times out: PostgreSQL rolls back.
Fail(r) ==
    /\ pc[r] \notin Final \cup {"idle"}
    /\ Goto(r, "failed")
    /\ UNCHANGED <<customers, tables, locals>>

\* CustomersService.remove: the soft delete of a live customer.
RemoveCustomer(c) ==
    /\ c \in customers
    /\ customers' = customers \ {c}
    /\ UNCHANGED <<tables, pc, locals>>

\* Every request has been answered.
Terminated ==
    /\ \A r \in Request : pc[r] \in Final
    /\ UNCHANGED vars

Step(r) ==
    \/ assertCustomer(r)
    \/ ReadHeader(r)
    \/ ReadItems(r)
    \/ nextInvoiceNumber(r)
    \/ InsertInvoice(r)
    \/ NumberTaken(r)
    \/ CommitCreate(r)
    \/ StartDelete(r)
    \/ FinishDelete(r)
    \/ InsertLog(r)
    \/ WriteHeader(r)
    \/ CommitUpdate(r)
    \/ CommitStatus(r)

Next ==
    \/ \E r \in Request : Arrive(r) \/ Step(r) \/ Fail(r)
    \/ \E c \in Customer : RemoveCustomer(c)
    \/ Terminated

Spec == Init /\ [][Next]_vars

\* The event loop runs every handler whose statement has completed, and
\* PostgreSQL wakes a waiter whose lock is released.  Nothing has to arrive
\* and nothing has to fail.
FairSpec == Spec /\ \A r \in Request : WF_vars(Step(r))

-----------------------------------------------------------------------------
(* Type invariant *)

ReadResult == [status : Status, taxRate : Percent, amount : Nat]

TablesType ==
    /\ customers \subseteq Customer
    /\ header \in [Invoice -> Row \cup {NoRow}]
    /\ \A s \in Seed : Exists(s)
    /\ items \in [Invoice -> SUBSET Batch]
    /\ \A i \in Invoice : IsFiniteSet(items[i])
    /\ log \subseteq LogRow

LocalsType ==
    /\ pc \in [Request -> PC]
    /\ input \in [Request -> Body \cup {NoInput}]
    /\ existing \in [Request -> ReadResult \cup {NoRow}]
    /\ number \in [Request -> Nat]
    /\ doomed \in [Request -> SUBSET Batch]

\* Which operations a stage has.
StageOfOp ==
    \A r \in Request :
        /\ pc[r] # "idle" => input[r] \in Body
        /\ pc[r] \in {"insert", "conflict"} => IsCreate(r)
        /\ pc[r] \in {"header", "write"} => ~IsCreate(r)
        /\ pc[r] \in {"items", "delete"} => IsUpdate(r)
        /\ pc[r] = "customer" => ~IsStatus(r)

\* The stages an update or a status change reaches after getById.
AfterRead(r) == \/ pc[r] \in {"items", "begin"} \cup InTx /\ ~IsCreate(r)
                \/ pc[r] = "customer" /\ IsUpdate(r)

\* What such a stage may rely on: the invoice was found and is never deleted.
StageAfterRead ==
    \A r \in Request :
        /\ AfterRead(r) => existing[r] # NoRow /\ Exists(input[r].invoice)
        /\ pc[r] = "customer" /\ IsUpdate(r) => input[r].customer # None

\* Every variable keeps its type, and each stage is reached only by the
\* operations that have it and with what they carry there.
TypeOK == TablesType /\ LocalsType /\ StageOfOp /\ StageAfterRead

-----------------------------------------------------------------------------
(* Numbering *)

\* Two invoices never share a number, however the counting transactions
\* overlap (nextInvoiceNumber and the unique index on number).
UniqueNumber ==
    \A i, j \in Invoice :
        Exists(i) /\ Exists(j) /\ header[i].number = header[j].number => i = j

SeedInYear(y) == {s \in Seed : Exists(s) /\ header[s].number.year = y}
SeedCount(y)  == Cardinality(SeedInYear(y))
GivenOut(y)   == {header[r].number.seq : r \in InYear(y) \cap Request}

\* The numbers the service gave out in a year are consecutive from the first
\* one after the seed's count: a create that fails or loses the race leaves
\* no hole, and neither does one that counted while others were about to
\* commit (nextInvoiceNumber, lines 272-277).
Gapless ==
    \A y \in Year :
        GivenOut(y) = (SeedCount(y) + 1) .. Cardinality(InYear(y))

\* Why: a number in flight was computed from a count that has not shrunk
\* since, and one that is about to be committed is nobody else's, so it is
\* the next one (the unique index makes the second INSERT wait, then fail).
NumberInFlight ==
    \A r \in Request : IsCreate(r) =>
        /\ pc[r] \in {"insert", "commit"} =>
              number[r] \in (SeedCount(input[r].year) + 1)
                              .. (Cardinality(InYear(input[r].year)) + 1)
        /\ pc[r] = "commit" => ~Taken(r) /\ ~NumberLocked(r)

\* A row appears when the request it is named after commits.
RowOfItsRequest == \A r \in Request : Exists(r) => pc[r] = "done"

NumberingInv == UniqueNumber /\ Gapless /\ NumberInFlight /\ RowOfItsRequest

\* The whole numbering as an abstract machine.
Ledger == INSTANCE NumberLedger WITH book <- Numbers
LedgerSpec == Ledger!Spec

\* "Numbers use a 9xxx range so they never collide with app-generated
\* INV-<year>-000x numbers" (prisma/seed.ts:83).  What the code makes of it: a
\* seeded number refuses a create, and every later create of its year, only
\* once the year holds as many invoices as the number counts, less one.
SeedCollidesLate ==
    \A r \in Request, s \in Seed :
        pc[r] = "conflict" /\ header[s].number = NumberOf(r)
        => number[r] <= Cardinality(InYear(input[r].year)) + 1

-----------------------------------------------------------------------------
(* Status and its log *)

\* The timeline explains itself: one creation row per invoice, every other
\* row follows TRANSITIONS from a status that an earlier committed row
\* entered, and only an ADMIN's row cancels (changeStatus reads committed
\* rows only and writes status and row in one transaction).
TimelineRooted ==
    \A e \in log :
        IF e.from = None
        THEN e.by = e.invoice
        ELSE /\ e.by \in Request
             /\ e.to \in TRANSITIONS[e.from]
             /\ e.to = "CANCELLED" => input[e.by].role = "ADMIN"
             /\ \E d \in log : d.invoice = e.invoice /\ d.to = e.from

\* Why: a request's log row is there only once it has committed, ...
RowsOfCommitted == \A e \in log : e.by \in Request => pc[e.by] = "done"

\* ... a status has been logged, and so has every status that was read, ...
StatusLogged ==
    /\ \A i \in Invoice : Exists(i) =>
          \E e \in log : e.invoice = i /\ e.to = header[i].status
    /\ \A r \in Request : AfterRead(r) =>
          \E e \in log : /\ e.invoice = input[r].invoice
                         /\ e.to = existing[r].status

\* ... and a status change goes on only if TRANSITIONS and the role allow it.
ChangeAllowed ==
    \A r \in Request :
        pc[r] \in {"begin"} \cup InTx /\ IsStatus(r)
        => MayChange(r, existing[r].status)

TimelineInv == /\ TimelineRooted /\ RowsOfCommitted
               /\ StatusLogged /\ ChangeAllowed

\* A status changes, or an invoice appears, exactly when the log gains the
\* row that says so, and no row appears without it, whatever fails in
\* between (create, lines 114-133, and changeStatus, lines 180-189).
StatusMovesWithLog ==
    [][/\ log \subseteq log'
       /\ \A i \in Invoice : header'[i].status # header[i].status =>
             \E e \in log' \ log : e.invoice = i /\ e.to = header'[i].status
       /\ \A e \in log' \ log : header'[e.invoice].status = e.to]_vars

\* A request whose read is still true when it commits keeps the rules: it
\* moves the status along TRANSITIONS, it edits a DRAFT only.  All that can
\* break them is a status that changed after getById.
RulesHoldOnFreshRead ==
    [][\A r \in Request :
          LET i == input[r].invoice IN
          /\ pc[r] = "commit" /\ pc'[r] = "done" /\ ~IsCreate(r)
          /\ existing[r].status = header[i].status
          => IF header'[i].status # header[i].status
             THEN header'[i].status \in TRANSITIONS[header[i].status]
             ELSE header[i].status = "DRAFT" /\ log' = log]_vars

\* "Valid status transitions. Anything not listed is rejected."
\* (invoices.service.ts:18)
TransitionsFollowed ==
    [][\A i \in Invoice :
          Exists(i) /\ header'[i].status # header[i].status
          => header'[i].status \in TRANSITIONS[header[i].status]]_vars

-----------------------------------------------------------------------------
(* Money and edits *)

\* The header never mixes two writers: whatever overlaps or fails, its money
\* is computeTotals of one whole batch that is in the item table, at the rate
\* the header stores, so no committed invoice is without items.
MoneyOfOneBatch ==
    \A i \in Invoice : Exists(i) =>
        \E b \in items[i] :
            header[i].money = computeTotals(b.amount, header[i].money.taxRate)

\* updatedBy names somebody whose edit or status change is on the record:
\* its batch is among the items or its row in the log (lines 160 and 186).
UpdaterOnRecord ==
    \A i \in Invoice : Exists(i) /\ header[i].updatedBy # None =>
        \/ \E b \in items[i] : b.by = header[i].updatedBy
        \/ \E e \in log : e.invoice = i /\ e.by = header[i].updatedBy

\* "Derived money columns (subtotal/taxAmount/total) are stored, computed
\* server-side from the items" (prisma/schema/invoices.prisma:9-10)
MoneyFromItems ==
    \A i \in Invoice : Exists(i) =>
        header[i].money
            = computeTotals(Sum(items[i]), header[i].money.taxRate)

\* "Edit is only allowed while DRAFT" (src/shared/invoice.ts:31)
EditOnlyWhileDraft ==
    [][\A i \in Invoice :
          Exists(i) /\ items'[i] # items[i] => header[i].status = "DRAFT"]_vars

\* What a reader is shown of an invoice, and the statuses it has been in.
Shown(i)    == IF Exists(i) THEN [status |-> header[i].status,
                                  value  |-> header[i].money] ELSE NoRow
StatusesOf(i) == {e.to : e \in {d \in log : d.invoice = i}}

Book == INSTANCE InvoiceBook
           WITH book <- [i \in Invoice |-> Shown(i)],
                been <- [i \in Invoice |-> StatusesOf(i)],
                Value <- Money, Absent <- NoRow

\* However requests overlap and wherever they fail, every commit is one step
\* of InvoiceBook and nothing else shows: the checks of update and
\* changeStatus hold of a status the invoice has really had.
BookSpec == Book!Spec

-----------------------------------------------------------------------------
(* Customers *)

\* The requests that will write their body's customer: past assertCustomer.
Naming(c) == {r \in Request : /\ pc[r] \in {"begin"} \cup InTx
                              /\ ~IsStatus(r)
                              /\ input[r].customer = c}

\* The customer is soft-deleted and no such request is left.
Forgotten(c) == c \notin customers /\ Naming(c) = {}

Billed(c) == {i \in Invoice : Exists(i) /\ header[i].customer = c}

\* A removed customer may still get the invoices of the requests that had
\* found it before it was removed; once they are over it never gets another,
\* by a create or by an edit (assertCustomer, lines 193-199).
RemovedGetsNoInvoice ==
    [][\A c \in Customer :
          Forgotten(c) => Forgotten(c)' /\ Billed(c)' \subseteq Billed(c)]_vars

-----------------------------------------------------------------------------
(* Progress *)

\* Every request that arrives is answered: the waits for row locks, for the
\* unique index and for the connection pool never close a circle.
EveryRequestAnswered ==
    \A r \in Request : pc[r] # "idle" ~> pc[r] \in Final

=============================================================================
