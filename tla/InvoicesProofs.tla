--------------------------- MODULE InvoicesProofs ---------------------------
(***************************************************************************)
(* Theorems about Invoices, for every set of requests, seeded invoices,    *)
(* customers and years, every pool size and every set of bodies: types,    *)
(* money, and numbers, which are unique and gapless and implement          *)
(* NumberLedger.                                                           *)
(***************************************************************************)
EXTENDS Invoices, FiniteSetTheorems, TLAPS

-----------------------------------------------------------------------------
(* The operators *)

\* The sum of finitely many batches is a number of cents.
LEMMA SumType ==
    ASSUME NEW B, IsFiniteSet(B), \A b \in B : b.amount \in Nat
    PROVE  Sum(B) \in Nat
<1> DEFINE Cents(b) == {b} \X (1 .. b.amount)
           f == [b \in B |-> Cents(b)]
           S == {Cents(b) : b \in B}
<1>1. f \in Surjection(B, S)
  BY DEF Surjection
<1>2. IsFiniteSet(S)
  BY <1>1, FS_Surjection
<1>3. \A T \in S : IsFiniteSet(T)
  <2> SUFFICES ASSUME NEW b \in B PROVE IsFiniteSet(Cents(b))
    OBVIOUS
  <2>1. IsFiniteSet(1 .. b.amount)
    BY FS_Interval
  <2>2. IsFiniteSet({b})
    BY FS_Singleton
  <2> QED BY <2>1, <2>2, FS_Product
<1>4. IsFiniteSet(UNION S)
  BY <1>2, <1>3, FS_UNION
<1> QED BY <1>4, FS_CardinalityType DEF Sum

\* computeTotals returns a Money, whatever the rounding of the tax does.
LEMMA MoneyType ==
    ASSUME NEW amount \in Nat, NEW rate \in Percent
    PROVE  computeTotals(amount, rate) \in Money
<1>1. amount * rate \in Nat
  BY DEF Percent
<1>2. (amount * rate + 50) \div 100 \in Nat
  <2> DEFINE p == amount * rate
  <2>1. p \in Nat
    BY <1>1
  <2> HIDE DEF p
  <2>2. (p + 50) \div 100 \in Nat
    BY <2>1
  <2> QED BY <2>2 DEF p
<1>3. Tax(amount, rate) \in Nat
  BY <1>2 DEF Tax
<1> QED BY <1>3 DEF computeTotals, Money

\* A year has finitely many invoices.
LEMMA InvoicesFinite == IsFiniteSet(Invoice)
BY RequestsFinite, FS_Union DEF Invoice

LEMMA CountType ==
    ASSUME NEW y
    PROVE  IsFiniteSet(InYear(y)) /\ CountOf(y) \in Nat
<1>1. InYear(y) \subseteq Invoice
  BY DEF InYear
<1> QED BY <1>1, InvoicesFinite, FS_Subset, FS_CardinalityType DEF CountOf

-----------------------------------------------------------------------------
(* Type correctness *)

LEMMA BodyTypes ==
    ASSUME TypeOK, NEW r \in Request, pc[r] # "idle"
    PROVE  /\ IsCreate(r) => input[r] \in CreateBody
           /\ IsUpdate(r) => input[r] \in UpdateBody
           /\ IsStatus(r) => input[r] \in StatusBody
           /\ IsCreate(r) \/ IsUpdate(r) \/ IsStatus(r)
BY DEF TypeOK, TablesType, LocalsType, StageOfOp, StageAfterRead, AfterRead,
   Body, CreateBody, UpdateBody, StatusBody, IsCreate, IsUpdate, IsStatus

LEMMA InitType == Init => TypeOK
<1> SUFFICES ASSUME Init PROVE TypeOK
  OBVIOUS
<1>1. PICK book \in SeedBook :
        /\ header = [i \in Invoice |->
                        IF i \in Seed THEN SeededRow(book[i]) ELSE NoRow]
        /\ items = [i \in Invoice |->
                       IF i \in Seed
                       THEN {[by |-> i, amount |-> book[i].amount]} ELSE {}]
        /\ log = {[invoice |-> s, from |-> None, to |-> book[s].status,
                   by |-> s] : s \in Seed}
  BY DEF Init
<1>2. book \in [Seed -> SeedRow]
  BY SeedBookAssumption
<1>3. \A s \in Seed : SeededRow(book[s]) \in Row
  <2> SUFFICES ASSUME NEW s \in Seed PROVE SeededRow(book[s]) \in Row
    OBVIOUS
  <2>1. book[s] \in SeedRow
    BY <1>2
  <2>2. computeTotals(book[s].amount, book[s].taxRate) \in Money
    BY <2>1, MoneyType DEF SeedRow
  <2> QED BY <2>1, <2>2 DEF SeededRow, Row, SeedRow
<1>4. header \in [Invoice -> Row \cup {NoRow}] /\ \A s \in Seed : Exists(s)
  <2>1. \A s \in Seed : SeededRow(book[s]) # NoRow
    BY <1>2 DEF SeededRow, NoRow, SeedRow, Status
  <2> QED BY <1>1, <1>3, <2>1 DEF Invoice, Exists
<1>5. items \in [Invoice -> SUBSET Batch]
  BY <1>1, <1>2 DEF Batch, Writer, Invoice, SeedRow
<1>6. \A i \in Invoice : IsFiniteSet(items[i])
  BY <1>1, FS_Singleton, FS_EmptySet DEF Invoice
<1>7. log \subseteq LogRow
  BY <1>1, <1>2 DEF LogRow, Writer, Invoice, SeedRow
<1>8. \A r \in Request : pc[r] = "idle"
  BY DEF Init
<1> QED BY <1>4, <1>5, <1>6, <1>7, <1>8 DEF Init, TypeOK, TablesType,
   LocalsType, StageOfOp, StageAfterRead, AfterRead, PC, InTx

\* A request that is answered leaves every clause about stages true.
LEMMA AnsweredType ==
    ASSUME TypeOK, NEW r \in Request, NEW label \in {"done", "rejected", "failed"},
           pc[r] # "idle", pc' = [pc EXCEPT ![r] = label], UNCHANGED locals,
           \A i \in Invoice : Exists(i) => Exists(i)'
    PROVE  LocalsType' /\ StageOfOp' /\ StageAfterRead'
<1>1. LocalsType'
  BY DEF TypeOK, LocalsType, PC, InTx, Final, locals
<1>2. StageOfOp'
  BY DEF TypeOK, LocalsType, StageOfOp, IsCreate, IsUpdate, IsStatus, locals
<1>3. ASSUME NEW q \in Request, AfterRead(q)'
      PROVE  /\ existing'[q] # NoRow /\ Exists(input[q].invoice)'
             /\ pc'[q] = "customer" /\ IsUpdate(q)' => input'[q].customer # None
  <2>1. q # r /\ AfterRead(q) /\ pc[q] # "idle" /\ ~IsCreate(q)
    BY <1>3 DEF TypeOK, LocalsType, AfterRead, InTx, IsCreate, IsUpdate, locals
  <2>2. input[q].invoice \in Invoice
    BY <2>1, BodyTypes DEF UpdateBody, StatusBody
  <2> QED BY <2>1, <2>2 DEF TypeOK, LocalsType, StageAfterRead, IsUpdate, locals
<1>4. StageAfterRead'
  BY <1>3 DEF StageAfterRead, AfterRead
<1> QED BY <1>1, <1>2, <1>4

\* A step of request r leaves the clauses about every other request alone.
LEMMA NextType == TypeOK /\ [Next]_vars => TypeOK'
<1> SUFFICES ASSUME TypeOK, [Next]_vars PROVE TypeOK'
  OBVIOUS
<1> USE DEF Goto, locals, tables
<1>1. ASSUME NEW r \in Request, Arrive(r) PROVE TypeOK'
  <2>1. PICK body \in Inputs :
          /\ input' = [input EXCEPT ![r] = body]
          /\ pc' = [pc EXCEPT ![r] = IF body.op = "create"
                                     THEN "customer" ELSE "header"]
    BY <1>1 DEF Arrive
  <2>2. UNCHANGED <<customers, header, items, log, existing, number, doomed>>
    BY <1>1 DEF Arrive
  <2>3. body \in Body
    BY InputsAreBodies
  <2>4. CASE body.op = "create"
    BY <2>1, <2>2, <2>3, <2>4 DEF TypeOK, TablesType, LocalsType, StageOfOp,
       StageAfterRead, AfterRead, PC, InTx, Final, Exists, IsCreate, IsUpdate,
       IsStatus
  <2>5. CASE body.op # "create"
    BY <2>1, <2>2, <2>3, <2>5 DEF TypeOK, TablesType, LocalsType, StageOfOp,
       StageAfterRead, AfterRead, PC, InTx, Final, Exists, IsCreate, IsUpdate,
       IsStatus
  <2> QED BY <2>4, <2>5
<1>2. ASSUME NEW r \in Request, assertCustomer(r) PROVE TypeOK'
  <2>1. CASE pc' = [pc EXCEPT ![r] = "rejected"]
    BY <1>2, <2>1, AnsweredType DEF assertCustomer, TypeOK, TablesType, Exists
  <2>2. CASE pc' = [pc EXCEPT ![r] = "begin"]
    <3>1. TablesType' /\ LocalsType' /\ StageOfOp'
      BY <1>2, <2>2 DEF assertCustomer, TypeOK, TablesType, LocalsType,
         StageOfOp, PC, Exists, IsCreate, IsUpdate, IsStatus
    <3>2. ~IsCreate(r) => AfterRead(r)
      BY <1>2, BodyTypes DEF assertCustomer, AfterRead, TypeOK, StageOfOp
    <3>3. StageAfterRead'
      BY <1>2, <2>2, <3>2 DEF assertCustomer, TypeOK, LocalsType,
         StageAfterRead, AfterRead, InTx, Exists, IsCreate, IsUpdate
    <3> QED BY <3>1, <3>3 DEF TypeOK
  <2> QED BY <1>2, <2>1, <2>2 DEF assertCustomer
<1>3. ASSUME NEW r \in Request, ReadHeader(r) PROVE TypeOK'
  <2> DEFINE i == input[r].invoice
  <2>1. i \in Invoice
    BY <1>3, BodyTypes DEF ReadHeader, UpdateBody, StatusBody, TypeOK,
       TablesType, LocalsType, StageOfOp, StageAfterRead, AfterRead
  <2>2. CASE ~Exists(i)
    BY <1>3, <2>2 DEF ReadHeader, TypeOK, TablesType, LocalsType, StageOfOp,
       StageAfterRead, AfterRead, PC, InTx, Final, Exists, IsCreate, IsUpdate,
       IsStatus
  <2>3. CASE Exists(i)
    <3> DEFINE read == [status |-> header[i].status,
                        taxRate |-> header[i].money.taxRate, amount |-> 0]
    <3>1. header[i] \in Row
      BY <2>1, <2>3 DEF TypeOK, TablesType, LocalsType, StageOfOp,
         StageAfterRead, AfterRead, Exists
    <3>2. read \in ReadResult /\ read # NoRow
      BY <3>1 DEF Row, Money, ReadResult, NoRow, Status
    <3>3. existing' = [existing EXCEPT ![r] = read]
      BY <1>3, <2>3 DEF ReadHeader
    <3>4. /\ pc' = [pc EXCEPT ![r] = pc'[r]]
          /\ pc'[r] \in {"items", "begin", "rejected"}
          /\ pc'[r] = "items" => IsUpdate(r)
      BY <1>3, <2>3 DEF ReadHeader, TypeOK, TablesType, LocalsType, StageOfOp,
         StageAfterRead, AfterRead
    <3>5. UNCHANGED <<customers, header, items, log, input, number, doomed>>
      BY <1>3 DEF ReadHeader
    <3> HIDE DEF read
    <3> QED
      BY <1>3, <2>3, <3>2, <3>3, <3>4, <3>5 DEF ReadHeader, TypeOK, TablesType,
         LocalsType, StageOfOp, StageAfterRead, AfterRead, PC, InTx, Final,
         Exists, IsCreate, IsUpdate, IsStatus
  <2> QED BY <2>2, <2>3
<1>4. ASSUME NEW r \in Request, ReadItems(r) PROVE TypeOK'
  <2> DEFINE i == input[r].invoice
  <2>1. i \in Invoice
    BY <1>4, BodyTypes DEF ReadItems, UpdateBody, TypeOK, TablesType,
       LocalsType, StageOfOp, StageAfterRead, AfterRead
  <2>2. Sum(items[i]) \in Nat
    BY <2>1, SumType DEF TypeOK, TablesType, LocalsType, StageOfOp,
       StageAfterRead, AfterRead, Batch
  <2>3. existing[r] \in ReadResult
    BY <1>4 DEF ReadItems, NamesCustomer, TypeOK, TablesType, LocalsType,
       StageOfOp, StageAfterRead, AfterRead, IsUpdate, IsCreate
  <2>4. /\ existing' = [existing EXCEPT ![r] = existing'[r]]
        /\ existing'[r] \in ReadResult
        /\ existing'[r] # NoRow
    BY <1>4, <2>2, <2>3 DEF ReadItems, NamesCustomer, TypeOK, TablesType,
       LocalsType, StageOfOp, StageAfterRead, AfterRead, ReadResult, NoRow,
       Status
  <2>5. /\ pc' = [pc EXCEPT ![r] = pc'[r]]
        /\ pc'[r] \in {"customer", "begin", "rejected"}
        /\ pc'[r] = "customer" => input[r].customer # None
    BY <1>4 DEF ReadItems, NamesCustomer, TypeOK, TablesType, LocalsType,
       StageOfOp, StageAfterRead, AfterRead
  <2>6. UNCHANGED <<customers, header, items, log, input, number, doomed>>
    BY <1>4 DEF ReadItems
  <2> QED
    BY <1>4, <2>4, <2>5, <2>6 DEF ReadItems, NamesCustomer, TypeOK, TablesType,
       LocalsType, StageOfOp, StageAfterRead, AfterRead, PC, InTx, Final,
       Exists, IsCreate, IsUpdate, IsStatus
<1>5. ASSUME NEW r \in Request, nextInvoiceNumber(r) PROVE TypeOK'
  <2>1. CountOf(input[r].year) + 1 \in Nat
    BY CountType
  <2> QED
    BY <1>5, <2>1 DEF nextInvoiceNumber, NextNumber, TypeOK, TablesType,
       LocalsType, StageOfOp, StageAfterRead, AfterRead, PC, InTx, Final,
       Exists, IsCreate, IsUpdate, IsStatus
<1>6. ASSUME NEW r \in Request, InsertInvoice(r) \/ NumberTaken(r)
      PROVE TypeOK'
  BY <1>6 DEF InsertInvoice, NumberTaken, TypeOK, TablesType, LocalsType,
     StageOfOp, StageAfterRead, AfterRead, PC, InTx, Final, Exists, IsCreate,
     IsUpdate, IsStatus
<1>7. ASSUME NEW r \in Request, CommitCreate(r) PROVE TypeOK'
  <2>1. input[r] \in CreateBody
    BY <1>7, BodyTypes DEF CommitCreate
  <2> DEFINE row == [status |-> input[r].status, number |-> NumberOf(r),
                     customer |-> input[r].customer,
                     money |-> computeTotals(input[r].amount, input[r].taxRate),
                     updatedBy |-> None]
             entry == [invoice |-> r, from |-> None, to |-> input[r].status,
                       by |-> r]
             batch == [by |-> r, amount |-> input[r].amount]
  <2>2. computeTotals(input[r].amount, input[r].taxRate) \in Money
    BY <2>1, MoneyType DEF CreateBody
  <2>3. NumberOf(r) \in Number
    BY <2>1 DEF CreateBody, Number, NumberOf, TypeOK, TablesType, LocalsType,
       StageOfOp, StageAfterRead, AfterRead
  <2>4. row \in Row /\ row # NoRow
    BY <2>1, <2>2, <2>3 DEF CreateBody, Row, NoRow, Status
  <2>5. entry \in LogRow
    BY <2>1 DEF CreateBody, LogRow, Writer, Invoice, Status
  <2>6. {batch} \in SUBSET Batch /\ IsFiniteSet({batch})
    <3>1. batch \in Batch
      BY <2>1 DEF CreateBody, Batch, Writer, Invoice
    <3> HIDE DEF batch
    <3> QED BY <3>1, FS_Singleton
  <2>7. /\ header' = [header EXCEPT ![r] = row]
        /\ items' = [items EXCEPT ![r] = {batch}]
        /\ log' = log \cup {entry}
        /\ pc' = [pc EXCEPT ![r] = "done"]
        /\ UNCHANGED <<customers, input, existing, number, doomed>>
    BY <1>7 DEF CommitCreate
  <2> HIDE DEF row, entry, batch
  <2>8. TablesType' /\ \A i \in Invoice : Exists(i) => Exists(i)'
    BY <2>4, <2>5, <2>6, <2>7 DEF TypeOK, TablesType, Exists, Invoice
  <2> QED BY <1>7, <2>7, <2>8, AnsweredType DEF CommitCreate, TypeOK
<1>8. ASSUME NEW r \in Request, StartDelete(r) \/ FinishDelete(r)
      PROVE TypeOK'
  <2>1. input[r].invoice \in Invoice
    BY <1>8, BodyTypes DEF StartDelete, FinishDelete, UpdateBody, TypeOK,
       TablesType, LocalsType, StageOfOp, StageAfterRead, AfterRead
  <2>2. items[input[r].invoice] \in SUBSET Batch
    BY <2>1 DEF TypeOK, TablesType, LocalsType, StageOfOp, StageAfterRead,
       AfterRead
  <2>3. CASE StartDelete(r)
    BY <2>2, <2>3 DEF StartDelete, Matched, TypeOK, TablesType, LocalsType,
       StageOfOp, StageAfterRead, AfterRead, PC, InTx, Final, Exists, IsCreate,
       IsUpdate, IsStatus
  <2>4. CASE FinishDelete(r)
    BY <2>2, <2>4 DEF FinishDelete, TypeOK, TablesType, LocalsType, StageOfOp,
       StageAfterRead, AfterRead, PC, InTx, Final, Exists, IsCreate, IsUpdate,
       IsStatus
  <2> QED BY <1>8, <2>3, <2>4
<1>9. ASSUME NEW r \in Request, InsertLog(r) \/ WriteHeader(r)
      PROVE TypeOK'
  BY <1>9 DEF InsertLog, WriteHeader, TypeOK, TablesType, LocalsType,
     StageOfOp, StageAfterRead, AfterRead, PC, InTx, Final, Exists, IsCreate,
     IsUpdate, IsStatus
<1>10. ASSUME NEW r \in Request, CommitUpdate(r) PROVE TypeOK'
  <2> DEFINE i == input[r].invoice
             batch == [by |-> r, amount |-> EditAmount(r)]
  <2>1. input[r] \in UpdateBody
    BY <1>10, BodyTypes DEF CommitUpdate
  <2>2. i \in Invoice /\ Exists(i) /\ existing[r] \in ReadResult
    BY <1>10, <2>1 DEF CommitUpdate, UpdateBody, TypeOK, TablesType,
       LocalsType, StageOfOp, StageAfterRead, AfterRead, InTx, IsCreate,
       IsUpdate
  <2>3. header[i] \in Row
    BY <2>2 DEF TypeOK, TablesType, LocalsType, StageOfOp, StageAfterRead,
       AfterRead, Exists
  <2>4. EditAmount(r) \in Nat /\ EditTaxRate(r) \in Percent
    BY <2>1, <2>2 DEF EditAmount, EditTaxRate, OrElse, UpdateBody, ReadResult
  <2>5. computeTotals(EditAmount(r), EditTaxRate(r)) \in Money
    BY <2>4, MoneyType
  <2>6. OrElse(input[r].customer, header[i].customer) \in Customer
    BY <2>1, <2>3 DEF OrElse, UpdateBody, Row
  <2>7. /\ header' = [header EXCEPT ![i] = header'[i]]
        /\ header'[i] \in Row /\ header'[i] # NoRow
    <3>1. header' = [header EXCEPT ![i] =
             [header[i] EXCEPT
                 !.customer = OrElse(input[r].customer, header[i].customer),
                 !.money = computeTotals(EditAmount(r), EditTaxRate(r)),
                 !.updatedBy = r]]
      BY <1>10, <2>2, <2>3 DEF CommitUpdate, EditMoney, TypeOK, TablesType,
         LocalsType, StageOfOp, StageAfterRead, AfterRead, Row
    <3> QED BY <2>2, <2>3, <2>5, <2>6, <3>1 DEF TypeOK, TablesType, LocalsType,
       StageOfOp, StageAfterRead, AfterRead, Row, NoRow, Status
  <2>8. (items[i] \ doomed[r]) \cup {batch} \in SUBSET Batch
    BY <2>2, <2>4 DEF TypeOK, TablesType, LocalsType, StageOfOp,
       StageAfterRead, AfterRead, Batch, Writer, Invoice
  <2>9. IsFiniteSet((items[i] \ doomed[r]) \cup {batch})
    <3>1. IsFiniteSet(items[i] \ doomed[r])
      BY <2>2, FS_Difference DEF TypeOK, TablesType, LocalsType, StageOfOp,
         StageAfterRead, AfterRead
    <3> QED BY <3>1, FS_Singleton, FS_Union
  <2>10. /\ items' = [items EXCEPT ![i] = (items[i] \ doomed[r]) \cup {batch}]
         /\ pc' = [pc EXCEPT ![r] = "done"]
         /\ UNCHANGED <<customers, log, input, existing, number, doomed>>
    BY <1>10 DEF CommitUpdate
  <2> HIDE DEF batch
  <2>11. TablesType' /\ \A j \in Invoice : Exists(j) => Exists(j)'
    BY <2>2, <2>7, <2>8, <2>9, <2>10 DEF TypeOK, TablesType, Exists, Invoice
  <2> QED BY <1>10, <2>10, <2>11, AnsweredType DEF CommitUpdate, EditMoney,
     TypeOK
<1>11. ASSUME NEW r \in Request, CommitStatus(r) PROVE TypeOK'
  <2> DEFINE i == input[r].invoice
             entry == [invoice |-> i, from |-> existing[r].status,
                       to |-> input[r].status, by |-> r]
  <2>1. input[r] \in StatusBody
    BY <1>11, BodyTypes DEF CommitStatus
  <2>2. i \in Invoice /\ Exists(i) /\ existing[r] \in ReadResult
    BY <1>11, <2>1 DEF CommitStatus, StatusBody, TypeOK, TablesType,
       LocalsType, StageOfOp, StageAfterRead, AfterRead, InTx, IsCreate,
       IsStatus
  <2>3. header[i] \in Row
    BY <2>2 DEF TypeOK, TablesType, LocalsType, StageOfOp, StageAfterRead,
       AfterRead, Exists
  <2>4. /\ header' = [header EXCEPT ![i] = header'[i]]
        /\ header'[i] \in Row /\ header'[i] # NoRow
    <3>1. header' = [header EXCEPT ![i] =
             [header[i] EXCEPT !.status = input[r].status, !.updatedBy = r]]
      BY <1>11, <2>2, <2>3 DEF CommitStatus, TypeOK, TablesType, LocalsType,
         StageOfOp, StageAfterRead, AfterRead, Row
    <3> QED BY <2>1, <2>2, <2>3, <3>1 DEF StatusBody, TypeOK, TablesType,
       LocalsType, StageOfOp, StageAfterRead, AfterRead, Row, NoRow, Status
  <2>5. entry \in LogRow
    BY <2>1, <2>2 DEF LogRow, Writer, Invoice, Status, StatusBody, ReadResult
  <2>6. /\ log' = log \cup {entry}
        /\ pc' = [pc EXCEPT ![r] = "done"]
        /\ UNCHANGED <<customers, items, input, existing, number, doomed>>
    BY <1>11 DEF CommitStatus
  <2> HIDE DEF entry
  <2>7. TablesType' /\ \A j \in Invoice : Exists(j) => Exists(j)'
    BY <2>2, <2>4, <2>5, <2>6 DEF TypeOK, TablesType, Exists, Invoice
  <2> QED BY <1>11, <2>6, <2>7, AnsweredType DEF CommitStatus, TypeOK
<1>12. ASSUME NEW r \in Request, Fail(r) PROVE TypeOK'
  BY <1>12 DEF Fail, TypeOK, TablesType, LocalsType, StageOfOp, StageAfterRead,
     AfterRead, PC, InTx, Final, Exists, IsCreate, IsUpdate, IsStatus
<1>13. ASSUME NEW c \in Customer, RemoveCustomer(c) PROVE TypeOK'
  BY <1>13 DEF RemoveCustomer, TypeOK, TablesType, LocalsType, StageOfOp,
     StageAfterRead, AfterRead, Exists, IsCreate, IsUpdate, IsStatus
<1>14. CASE UNCHANGED vars
  BY <1>14 DEF vars, TypeOK, TablesType, LocalsType, StageOfOp, StageAfterRead,
     AfterRead, Exists, IsCreate, IsUpdate, IsStatus
<1> QED
  BY <1>1, <1>2, <1>3, <1>4, <1>5, <1>6, <1>7, <1>8, <1>9, <1>10, <1>11,
     <1>12, <1>13, <1>14 DEF Next, Step, Terminated

\* Every variable keeps its type and no stage is reached by an operation that
\* does not have it.
THEOREM TypeCorrect == Spec => []TypeOK
<1>1. Init => TypeOK
  BY InitType
<1>2. TypeOK /\ [Next]_vars => TypeOK'
  BY NextType
<1> QED BY <1>1, <1>2, PTL DEF Spec

-----------------------------------------------------------------------------
(* A step is of one request *)

\* What a request holds changes in its own steps only.
LEMMA OwnStep ==
    ASSUME TypeOK, [Next]_vars, NEW r \in Request
    PROVE  \/ Arrive(r) \/ Step(r) \/ Fail(r)
           \/ /\ pc'[r] = pc[r] /\ input'[r] = input[r]
              /\ existing'[r] = existing[r] /\ number'[r] = number[r]
<1>1. ASSUME NEW q \in Request \ {r}, Arrive(q) \/ Step(q) \/ Fail(q)
      PROVE  /\ pc'[r] = pc[r] /\ input'[r] = input[r]
             /\ existing'[r] = existing[r] /\ number'[r] = number[r]
  <2>1. \E to : Goto(q, to)
    BY <1>1 DEF Step, Arrive, assertCustomer, ReadHeader, ReadItems,
       nextInvoiceNumber, InsertInvoice, NumberTaken, CommitCreate,
       StartDelete, FinishDelete, InsertLog, WriteHeader, CommitUpdate,
       CommitStatus, Fail
  <2>2. input'[r] = input[r] /\ number'[r] = number[r]
    BY <1>1 DEF Step, Arrive, assertCustomer, ReadHeader, ReadItems,
       nextInvoiceNumber, InsertInvoice, NumberTaken, CommitCreate,
       StartDelete, FinishDelete, InsertLog, WriteHeader, CommitUpdate,
       CommitStatus, Fail, locals, TypeOK, LocalsType
  <2>3. existing'[r] = existing[r]
    <3>1. CASE ReadItems(q)
      BY <3>1 DEF ReadItems, TypeOK, LocalsType
    <3>2. CASE ~ReadItems(q)
      BY <1>1, <3>2 DEF Step, Arrive, assertCustomer, ReadHeader,
         nextInvoiceNumber, InsertInvoice, NumberTaken, CommitCreate,
         StartDelete, FinishDelete, InsertLog, WriteHeader, CommitUpdate,
         CommitStatus, Fail, locals, TypeOK, LocalsType
    <3> QED BY <3>1, <3>2
  <2> QED BY <2>1, <2>2, <2>3 DEF Goto, TypeOK, LocalsType
<1> QED BY <1>1 DEF Next, Terminated, vars, locals, RemoveCustomer

\* Only a commit changes a table.
LEMMA OnlyCommitsWrite ==
    ASSUME [Next]_vars
    PROVE  \/ \E r \in Request : CommitCreate(r) \/ CommitUpdate(r) \/ CommitStatus(r)
           \/ UNCHANGED tables
BY DEF Next, Step, Terminated, vars, RemoveCustomer, Arrive, assertCustomer,
   ReadHeader, ReadItems, nextInvoiceNumber, InsertInvoice, NumberTaken,
   StartDelete, FinishDelete, InsertLog, WriteHeader, Fail, tables

-----------------------------------------------------------------------------
(* Removed customers *)

\* Only assertCustomer lets a request go on to name a customer, and it finds
\* the customer live.
LEMMA NamingStep ==
    ASSUME TypeOK, [Next]_vars, NEW c \in Customer, c \notin customers
    PROVE  Naming(c)' \subseteq Naming(c)
<1> SUFFICES ASSUME NEW r \in Request, pc'[r] \in {"begin"} \cup InTx,
                    ~IsStatus(r)', input'[r].customer = c
             PROVE  /\ pc[r] \in {"begin"} \cup InTx
                    /\ input'[r] = input[r]
  BY DEF Naming, IsStatus
<1>1. pc[r] # "idle" /\ input'[r] = input[r]
  BY DEF Next, Step, Terminated, vars, RemoveCustomer, Arrive, assertCustomer,
     ReadHeader, ReadItems, nextInvoiceNumber, InsertInvoice, NumberTaken,
     CommitCreate, StartDelete, FinishDelete, InsertLog, WriteHeader,
     CommitUpdate, CommitStatus, Fail, Goto, tables, locals, InTx, Final,
     TypeOK, LocalsType
<1>2. ASSUME assertCustomer(r) PROVE FALSE
  BY <1>1, <1>2 DEF assertCustomer, CustomerIsLive, Goto, TypeOK, LocalsType,
     InTx
<1>3. ASSUME ReadHeader(r) PROVE FALSE
  <2>1. pc'[r] \in {"items", "begin", "rejected"} /\ pc[r] = "header"
    BY <1>3 DEF ReadHeader, Goto, TypeOK, LocalsType
  <2>2. IsUpdate(r) => pc'[r] # "begin"
    BY <1>3 DEF ReadHeader, Goto, TypeOK, LocalsType
  <2>3. input[r] \in Body /\ ~IsCreate(r)
    BY <2>1 DEF TypeOK, StageOfOp
  <2> QED BY <1>1, <2>1, <2>2, <2>3 DEF Body, CreateBody, UpdateBody,
     StatusBody, IsCreate, IsUpdate, IsStatus, InTx
<1>4. ASSUME ReadItems(r) PROVE FALSE
  <2>1. pc'[r] = "begin" => input[r].customer = None
    BY <1>4 DEF ReadItems, NamesCustomer, Goto, TypeOK, LocalsType
  <2>2. pc'[r] \in {"customer", "begin", "rejected"}
    BY <1>4 DEF ReadItems, Goto, TypeOK, LocalsType
  <2> QED BY <1>1, <2>1, <2>2, NoneIsNoCustomer DEF InTx
<1>5. pc'[r] = pc[r] \/ Arrive(r) \/ Step(r) \/ Fail(r)
  BY OwnStep
<1>6. CASE Step(r)
  BY <1>1, <1>2, <1>3, <1>4, <1>6 DEF Step, nextInvoiceNumber, InsertInvoice,
     NumberTaken, CommitCreate, StartDelete, FinishDelete, InsertLog,
     WriteHeader, CommitUpdate, CommitStatus, InTx
<1>7. CASE Arrive(r) \/ Fail(r)
  BY <1>1, <1>7 DEF Arrive, Fail, Goto, TypeOK, LocalsType, InTx
<1> QED BY <1>1, <1>5, <1>6, <1>7

\* A commit bills the customer the invoice had, or the one its request names.
LEMMA BilledStep ==
    ASSUME TypeOK, [Next]_vars, NEW c \in Customer, Naming(c) = {}
    PROVE  Billed(c)' \subseteq Billed(c)
<1> SUFFICES ASSUME NEW i \in Invoice, header'[i] # NoRow,
                    header'[i].customer = c
             PROVE  header[i] # NoRow /\ header[i].customer = c
  BY DEF Billed, Exists
<1>1. ASSUME NEW r \in Request, CommitCreate(r)
      PROVE  header[i] # NoRow /\ header[i].customer = c
  <2>1. input[r].customer # c
    BY <1>1 DEF CommitCreate, IsCreate, IsStatus, Naming, InTx
  <2>2. CASE i = r
    BY <1>1, <2>1, <2>2 DEF CommitCreate, TypeOK, TablesType
  <2>3. CASE i # r
    BY <1>1, <2>3 DEF CommitCreate, TypeOK, TablesType
  <2> QED BY <2>2, <2>3
<1>2. ASSUME NEW r \in Request, CommitUpdate(r) \/ CommitStatus(r)
      PROVE  header[i] # NoRow /\ header[i].customer = c
  <2>1. input[r].invoice \in Invoice /\ Exists(input[r].invoice)
    BY <1>2, BodyTypes DEF CommitUpdate, CommitStatus, IsCreate, IsUpdate,
       IsStatus, TypeOK, StageAfterRead, AfterRead, InTx, UpdateBody, StatusBody
  <2>2. CASE i # input[r].invoice
    BY <1>2, <2>2 DEF CommitUpdate, CommitStatus, TypeOK, TablesType
  <2>3. CASE i = input[r].invoice
    <3>1. header[i] \in Row
      BY <2>1, <2>3 DEF TypeOK, TablesType, Exists
    <3>2. CASE CommitStatus(r)
      BY <2>1, <2>3, <3>1, <3>2 DEF CommitStatus, TypeOK, TablesType, Row,
         Exists
    <3>3. CASE CommitUpdate(r)
      <4>1. header'[i].customer = OrElse(input[r].customer, header[i].customer)
        BY <2>3, <3>1, <3>3 DEF CommitUpdate, TypeOK, TablesType, Row
      <4>2. input[r].customer # c
        BY <3>3 DEF CommitUpdate, IsUpdate, IsStatus, Naming, InTx
      <4> QED BY <2>1, <2>3, <4>1, <4>2 DEF OrElse, Exists
    <3> QED BY <1>2, <3>2, <3>3
  <2> QED BY <2>2, <2>3
<1>3. \/ \E r \in Request : CommitCreate(r) \/ CommitUpdate(r) \/ CommitStatus(r)
      \/ header' = header
  BY OnlyCommitsWrite DEF tables
<1> QED BY <1>1, <1>2, <1>3

\* A customer that is removed and that no request has found live before gets
\* no invoice any more.
THEOREM RemovedIsNotBilled == Spec => RemovedGetsNoInvoice
<1>1. TypeOK /\ [Next]_vars =>
        [\A c \in Customer : Forgotten(c) =>
            Forgotten(c)' /\ Billed(c)' \subseteq Billed(c)]_vars
  <2> SUFFICES ASSUME TypeOK, [Next]_vars, NEW c \in Customer, Forgotten(c)
               PROVE  Forgotten(c)' /\ Billed(c)' \subseteq Billed(c)
    OBVIOUS
  <2>1. Naming(c)' = {} /\ Billed(c)' \subseteq Billed(c)
    BY NamingStep, BilledStep DEF Forgotten
  <2>2. customers' \subseteq customers
    BY DEF Next, Step, Terminated, vars, RemoveCustomer, Arrive, assertCustomer,
       ReadHeader, ReadItems, nextInvoiceNumber, InsertInvoice, NumberTaken,
       CommitCreate, StartDelete, FinishDelete, InsertLog, WriteHeader,
       CommitUpdate, CommitStatus, Fail
  <2> QED BY <2>1, <2>2 DEF Forgotten
<1> QED BY <1>1, TypeCorrect, PTL DEF Spec, RemovedGetsNoInvoice

-----------------------------------------------------------------------------
(* Money and edits *)

\* What the commit of an edit or a status change leaves of its invoice, and
\* that it leaves every other alone.
LEMMA CommitOfOne ==
    ASSUME TypeOK, NEW r \in Request, CommitUpdate(r) \/ CommitStatus(r)
    PROVE  LET i == input[r].invoice IN
           /\ i \in Invoice /\ Exists(i) /\ header[i] \in Row
           /\ \A j \in Invoice \ {i} :
                 header'[j] = header[j] /\ items'[j] = items[j]
           /\ header'[i].updatedBy = r
           /\ header'[i].number = header[i].number
           /\ CommitUpdate(r) =>
                 /\ header'[i].status = header[i].status
                 /\ header'[i].money = EditMoney(r)
                 /\ items'[i] = (items[i] \ doomed[r])
                                   \cup {[by |-> r, amount |-> EditAmount(r)]}
           /\ CommitStatus(r) =>
                 /\ header'[i].status = input[r].status
                 /\ header'[i].money = header[i].money
                 /\ header'[i].customer = header[i].customer
                 /\ items'[i] = items[i]
<1> DEFINE i == input[r].invoice
<1>1. i \in Invoice /\ Exists(i)
  BY BodyTypes DEF CommitUpdate, CommitStatus, IsCreate, IsUpdate, IsStatus,
     TypeOK, StageAfterRead, AfterRead, InTx, UpdateBody, StatusBody
<1>2. header[i] \in Row
  BY <1>1 DEF TypeOK, TablesType, Exists
<1>3. CASE CommitUpdate(r)
  <2>1. header' = [header EXCEPT ![i] =
           [header[i] EXCEPT
               !.customer = OrElse(input[r].customer, header[i].customer),
               !.money = EditMoney(r),
               !.updatedBy = r]]
    BY <1>1, <1>2, <1>3 DEF CommitUpdate, TypeOK, TablesType, Row
  <2>2. items' = [items EXCEPT ![i] = (items[i] \ doomed[r])
                                 \cup {[by |-> r, amount |-> EditAmount(r)]}]
    BY <1>3 DEF CommitUpdate
  <2>3. ~CommitStatus(r)
    BY <1>3 DEF CommitUpdate, CommitStatus, IsUpdate, IsStatus
  <2> QED BY <1>1, <1>2, <2>1, <2>2, <2>3 DEF TypeOK, TablesType, Row
<1>4. CASE CommitStatus(r)
  <2>1. header' = [header EXCEPT ![i] =
           [header[i] EXCEPT !.status = input[r].status, !.updatedBy = r]]
    BY <1>1, <1>2, <1>4 DEF CommitStatus, TypeOK, TablesType, Row
  <2>2. items' = items
    BY <1>4 DEF CommitStatus
  <2>3. ~CommitUpdate(r)
    BY <1>4 DEF CommitUpdate, CommitStatus, IsUpdate, IsStatus
  <2> QED BY <1>1, <1>2, <2>1, <2>2, <2>3 DEF TypeOK, TablesType, Row
<1> QED BY <1>3, <1>4

\* What the commit of a create leaves of its invoice.
LEMMA CommitOfNew ==
    ASSUME TypeOK, NEW r \in Request, CommitCreate(r)
    PROVE  /\ r \in Invoice /\ input[r] \in CreateBody
           /\ header'[r].status = input[r].status
           /\ header'[r].customer = input[r].customer
           /\ header'[r].money
                 = computeTotals(input[r].amount, input[r].taxRate)
           /\ header'[r].updatedBy = None
           /\ items'[r] = {[by |-> r, amount |-> input[r].amount]}
           /\ \A j \in Invoice \ {r} :
                 header'[j] = header[j] /\ items'[j] = items[j]
<1>1. r \in Invoice /\ input[r] \in CreateBody
  BY BodyTypes DEF CommitCreate, Invoice
<1> QED BY <1>1 DEF CommitCreate, TypeOK, TablesType

LEMMA MoneyInit == Init => MoneyOfOneBatch /\ UpdaterOnRecord
<1> SUFFICES ASSUME Init, NEW i \in Invoice, Exists(i)
             PROVE  /\ header[i].updatedBy = None
                    /\ \E b \in items[i] : header[i].money
                          = computeTotals(b.amount, header[i].money.taxRate)
  BY DEF MoneyOfOneBatch, UpdaterOnRecord
<1>1. PICK book \in SeedBook :
        /\ header = [j \in Invoice |->
                        IF j \in Seed THEN SeededRow(book[j]) ELSE NoRow]
        /\ items = [j \in Invoice |->
                       IF j \in Seed
                       THEN {[by |-> j, amount |-> book[j].amount]} ELSE {}]
  BY DEF Init
<1>2. header[i] = SeededRow(book[i])
      /\ items[i] = {[by |-> i, amount |-> book[i].amount]}
  BY <1>1 DEF Exists
<1> QED BY <1>2 DEF SeededRow, computeTotals

\* A commit writes a batch and the money computed from it, a log row and the
\* status it says, or all of a new invoice.
LEMMA MoneyStep ==
    ASSUME TypeOK, MoneyOfOneBatch, [Next]_vars
    PROVE  MoneyOfOneBatch'
<1> SUFFICES ASSUME NEW i \in Invoice, header'[i] # NoRow
             PROVE  \E b \in items'[i] : header'[i].money
                       = computeTotals(b.amount, header'[i].money.taxRate)
  BY DEF MoneyOfOneBatch, Exists, computeTotals, Tax
<1> DEFINE Agree == \E b \in items[i] : header[i].money
                       = computeTotals(b.amount, header[i].money.taxRate)
<1>1. header[i] # NoRow => Agree
  BY DEF MoneyOfOneBatch, Exists
<1>2. CASE header'[i] = header[i] /\ items'[i] = items[i]
  BY <1>1, <1>2
<1>3. ASSUME NEW r \in Request, CommitCreate(r)
      PROVE  Agree'
  <2>1. CASE i = r
    <3>1. [by |-> r, amount |-> input[r].amount] \in items'[r]
      BY <1>3, CommitOfNew
    <3>2. header'[r].money = computeTotals(input[r].amount, input[r].taxRate)
      BY <1>3, CommitOfNew
    <3> QED BY <2>1, <3>1, <3>2 DEF computeTotals
  <2> QED BY <1>2, <1>3, <2>1, CommitOfNew
<1>4. ASSUME NEW r \in Request, CommitUpdate(r)
      PROVE  Agree'
  <2>1. CASE i = input[r].invoice
    <3>1. header'[i].money = computeTotals(EditAmount(r), EditTaxRate(r))
      BY <1>4, <2>1, CommitOfOne DEF EditMoney
    <3>2. [by |-> r, amount |-> EditAmount(r)] \in items'[i]
      BY <1>4, <2>1, CommitOfOne
    <3> QED BY <3>1, <3>2 DEF computeTotals
  <2> QED BY <1>2, <1>4, <2>1, CommitOfOne
<1>5. ASSUME NEW r \in Request, CommitStatus(r)
      PROVE  Agree'
  <2>1. CASE i = input[r].invoice
    BY <1>1, <1>5, <2>1, CommitOfOne DEF Exists
  <2> QED BY <1>2, <1>5, <2>1, CommitOfOne
<1>6. CASE UNCHANGED tables
  BY <1>2, <1>6 DEF tables
<1> QED BY <1>3, <1>4, <1>5, <1>6, OnlyCommitsWrite

\* Whatever overlaps or fails, an invoice's money is that of one whole batch
\* of its items.
THEOREM MoneyIsOfOneBatch == Spec => []MoneyOfOneBatch
<1>1. Init => MoneyOfOneBatch
  BY MoneyInit
<1>2. TypeOK /\ MoneyOfOneBatch /\ [Next]_vars => MoneyOfOneBatch'
  BY MoneyStep
<1> QED BY <1>1, <1>2, TypeCorrect, PTL DEF Spec

\* The batch of the last edit stays until another commit takes its name off
\* the header; a log row stays for good.
LEMMA UpdaterStep ==
    ASSUME TypeOK, UpdaterOnRecord, [Next]_vars
    PROVE  UpdaterOnRecord'
<1> SUFFICES ASSUME NEW i \in Invoice, header'[i] # NoRow,
                    header'[i].updatedBy # None
             PROVE  \/ \E b \in items'[i] : b.by = header'[i].updatedBy
                    \/ \E e \in log' : /\ e.invoice = i
                                       /\ e.by = header'[i].updatedBy
  BY DEF UpdaterOnRecord, Exists
<1> DEFINE Recorded == \/ \E b \in items[i] : b.by = header[i].updatedBy
                       \/ \E e \in log : /\ e.invoice = i
                                         /\ e.by = header[i].updatedBy
<1>1. log \subseteq log'
  <2>1. \A r \in Request : CommitCreate(r) \/ CommitUpdate(r) \/ CommitStatus(r)
           => log \subseteq log'
    BY DEF CommitCreate, CommitUpdate, CommitStatus
  <2> QED BY <2>1, OnlyCommitsWrite DEF tables
<1>2. CASE header'[i] = header[i] /\ items'[i] = items[i]
  BY <1>1, <1>2 DEF UpdaterOnRecord, Exists
<1>3. ASSUME NEW r \in Request, CommitCreate(r)
      PROVE  Recorded'
  <2>1. i # r
    BY <1>3, CommitOfNew
  <2> QED BY <1>2, <1>3, <2>1, CommitOfNew
<1>4. ASSUME NEW r \in Request, CommitUpdate(r)
      PROVE  Recorded'
  <2>1. CASE i = input[r].invoice
    <3>1. [by |-> r, amount |-> EditAmount(r)] \in items'[i]
      BY <1>4, <2>1, CommitOfOne
    <3> QED BY <1>4, <2>1, <3>1, CommitOfOne
  <2> QED BY <1>2, <1>4, <2>1, CommitOfOne
<1>5. ASSUME NEW r \in Request, CommitStatus(r)
      PROVE  Recorded'
  <2>1. CASE i = input[r].invoice
    <3>1. [invoice |-> i, from |-> existing[r].status,
           to |-> input[r].status, by |-> r] \in log'
      BY <1>5, <2>1 DEF CommitStatus
    <3> QED BY <1>5, <2>1, <3>1, CommitOfOne
  <2> QED BY <1>2, <1>5, <2>1, CommitOfOne
<1>6. CASE UNCHANGED tables
  BY <1>2, <1>6 DEF tables
<1> QED BY <1>3, <1>4, <1>5, <1>6, OnlyCommitsWrite

\* Whoever the header names as its last writer is on the invoice's record.
THEOREM UpdaterIsOnRecord == Spec => []UpdaterOnRecord
<1>1. Init => UpdaterOnRecord
  BY MoneyInit
<1>2. TypeOK /\ UpdaterOnRecord /\ [Next]_vars => UpdaterOnRecord'
  BY UpdaterStep
<1> QED BY <1>1, <1>2, TypeCorrect, PTL DEF Spec

-----------------------------------------------------------------------------
(* Counting *)

LEMMA SeedsWithinCount ==
    ASSUME NEW y
    PROVE  /\ SeedCount(y) \in Nat
           /\ Cardinality(InYear(y)) \in Nat
           /\ SeedCount(y) <= Cardinality(InYear(y))
<1>1. SeedInYear(y) \subseteq InYear(y)
  BY DEF SeedInYear, InYear, Invoice
<1>2. IsFiniteSet(InYear(y))
  BY CountType
<1> QED BY <1>1, <1>2, FS_Subset, FS_CardinalityType DEF SeedCount

\* Only the existence and the number of the rows matter to numbering.
SameNumbers ==
    \A i \in Invoice : /\ Exists(i)' <=> Exists(i)
                       /\ Exists(i) => header'[i].number = header[i].number

LEMMA SameNumbersSame ==
    ASSUME SameNumbers
    PROVE  /\ Numbers' = Numbers
           /\ \A y : InYear(y)' = InYear(y) /\ SeedInYear(y)' = SeedInYear(y)
           /\ \A y : SeedCount(y)' = SeedCount(y)
           /\ \A y : GivenOut(y)' = GivenOut(y)
<1>1. Numbers' = Numbers
  BY DEF SameNumbers, Numbers
<1>2. ASSUME NEW y PROVE /\ InYear(y)' = InYear(y)
                         /\ SeedInYear(y)' = SeedInYear(y)
  BY DEF SameNumbers, InYear, SeedInYear, Invoice
<1>3. ASSUME NEW y PROVE SeedCount(y)' = SeedCount(y)
  BY <1>2 DEF SeedCount
<1>4. ASSUME NEW y PROVE GivenOut(y)' = GivenOut(y)
  BY <1>2 DEF GivenOut, SameNumbers, InYear
<1> QED BY <1>1, <1>2, <1>3, <1>4

\* A step that gives out no number and lets no create into its transaction
\* preserves the invariant.
LEMMA QuietStep ==
    ASSUME NumberingInv, SameNumbers,
           \A q \in Request : pc[q] = "done" => pc'[q] = "done",
           \A q \in Request :
               pc'[q] \in {"insert", "commit"} /\ IsCreate(q)' =>
                   /\ pc'[q] = pc[q]
                   /\ input'[q] = input[q]
                   /\ number'[q] = number[q]
    PROVE  NumberingInv'
<1>1. UniqueNumber'
  BY DEF NumberingInv, UniqueNumber, SameNumbers
<1>2. Gapless'
  BY SameNumbersSame DEF NumberingInv, Gapless
<1>3. NumberInFlight'
  <2>1. ASSUME NEW q \in Request, IsCreate(q)', pc'[q] \in {"insert", "commit"}
        PROVE  /\ IsCreate(q) /\ pc[q] = pc'[q]
               /\ input'[q] = input[q] /\ number'[q] = number[q]
               /\ NumberOf(q)' = NumberOf(q)
               /\ Taken(q)' <=> Taken(q)
    BY <2>1, SameNumbersSame DEF IsCreate, Taken, NumberOf
  <2>2. ASSUME NEW q \in Request, IsCreate(q)', pc'[q] \in {"insert", "commit"}
        PROVE  (number[q] \in (SeedCount(input[q].year) + 1)
                                .. (Cardinality(InYear(input[q].year)) + 1))'
    <3>1. PICK y : y = input[q].year
      OBVIOUS
    <3>2. number[q] \in (SeedCount(y) + 1) .. (Cardinality(InYear(y)) + 1)
      BY <2>1, <2>2, <3>1 DEF NumberingInv, NumberInFlight
    <3>3. /\ (InYear(input[q].year))' = InYear(y)
          /\ (SeedInYear(input[q].year))' = SeedInYear(y)
      BY <2>1, <2>2, <3>1 DEF SameNumbers, InYear, SeedInYear, Invoice
    <3> QED BY <2>1, <2>2, <3>2, <3>3 DEF SeedCount
  <2>3. ASSUME NEW q \in Request, IsCreate(q)', pc'[q] = "commit"
        PROVE  ~Taken(q)' /\ ~NumberLocked(q)'
    <3>1. ~Taken(q) /\ ~NumberLocked(q)
      BY <2>1, <2>3 DEF NumberingInv, NumberInFlight
    <3>2. ~NumberLocked(q)'
      BY <2>1, <2>3, <3>1 DEF NumberLocked
    <3> QED BY <2>1, <2>3, <3>1, <3>2
  <2> QED BY <2>2, <2>3 DEF NumberInFlight
<1>4. RowOfItsRequest'
  BY DEF NumberingInv, RowOfItsRequest, SameNumbers, Invoice
<1> QED BY <1>1, <1>2, <1>3, <1>4 DEF NumberingInv

-----------------------------------------------------------------------------
(* The commit of a create *)

\* The number a create commits is the next one of its year.
LEMMA CommittedIsNext ==
    ASSUME TypeOK, NumberingInv, NEW r \in Request, CommitCreate(r)
    PROVE  /\ input[r].year \in Year
           /\ number[r] = Cardinality(InYear(input[r].year)) + 1
           /\ ~Taken(r)
           /\ ~Exists(r)
<1> DEFINE y == input[r].year
           S == SeedCount(y)
           K == Cardinality(InYear(y))
<1>1. y \in Year
  BY BodyTypes DEF CommitCreate, CreateBody
<1>2. number[r] \in (S + 1) .. (K + 1) /\ ~Taken(r)
  BY DEF CommitCreate, NumberingInv, NumberInFlight
<1>3. GivenOut(y) = (S + 1) .. K
  BY <1>1 DEF NumberingInv, Gapless
<1>4. number[r] \notin GivenOut(y)
  <2>1. SUFFICES ASSUME NEW q \in InYear(y) \cap Request,
                        header[q].number.seq = number[r]
                 PROVE  FALSE
    BY DEF GivenOut
  <2>2. header[q].number \in Number
    BY <2>1 DEF TypeOK, TablesType, InYear, Exists, Row
  <2>3. header[q].number = NumberOf(r)
    BY <2>1, <2>2 DEF InYear, NumberOf, Number
  <2> QED BY <1>2, <2>1, <2>3 DEF Taken, Numbers, InYear
<1>5. S \in Nat /\ K \in Nat
  BY SeedsWithinCount
<1>6. number[r] = K + 1
  <2> HIDE DEF S, K
  <2> QED BY <1>2, <1>3, <1>4, <1>5
<1>7. ~Exists(r)
  BY DEF CommitCreate, NumberingInv, RowOfItsRequest
<1> QED BY <1>1, <1>2, <1>6, <1>7

\* Committing the next number of a year keeps the numbers of that year
\* consecutive and touches no other year.
LEMMA CommitCreateInv ==
    ASSUME TypeOK, NumberingInv, NEW r \in Request, CommitCreate(r)
    PROVE  NumberingInv'
<1> DEFINE n == NumberOf(r)
<1>1. /\ input[r].year \in Year
      /\ number[r] = Cardinality(InYear(input[r].year)) + 1
      /\ ~Taken(r) /\ ~Exists(r)
  BY CommittedIsNext
<1>2. /\ pc[r] = "commit" /\ IsCreate(r)
      /\ pc' = [pc EXCEPT ![r] = "done"]
      /\ UNCHANGED <<input, number>>
  BY DEF CommitCreate, Goto, locals
<1>3. /\ Exists(r)' /\ header'[r].number = n
      /\ \A i \in Invoice \ {r} : header'[i] = header[i]
  BY DEF CommitCreate, TypeOK, TablesType, Exists, NoRow, Invoice
<1>4. r \notin Seed /\ r \in Invoice
  BY SeedNotRequest DEF Invoice
<1>5. Numbers' = Numbers \cup {n}
  BY <1>1, <1>3, <1>4 DEF Numbers, Exists
<1>6. ASSUME NEW y
      PROVE  /\ SeedInYear(y)' = SeedInYear(y)
             /\ InYear(y)' = IF y = n.year THEN InYear(y) \cup {r}
                                           ELSE InYear(y)
             /\ r \notin InYear(y)
  BY <1>1, <1>3, <1>4 DEF SeedInYear, InYear, Invoice, Exists
<1>7. ASSUME NEW y
      PROVE  /\ SeedCount(y)' = SeedCount(y)
             /\ Cardinality(InYear(y))' = IF y = n.year
                                          THEN Cardinality(InYear(y)) + 1
                                          ELSE Cardinality(InYear(y))
  BY <1>6, CountType, FS_AddElement DEF SeedCount
<1>8. ASSUME NEW y
      PROVE  GivenOut(y)' = IF y = n.year THEN GivenOut(y) \cup {number[r]}
                                          ELSE GivenOut(y)
  <2>1. \A q \in InYear(y) \cap Request :
            header'[q].number.seq = header[q].number.seq
    BY <1>3, <1>6 DEF InYear
  <2>2. header'[r].number.seq = number[r]
    BY <1>3 DEF NumberOf
  <2>3. CASE y = n.year
    <3> HIDE DEF n
    <3>1. InYear(y)' \cap Request = (InYear(y) \cap Request) \cup {r}
      BY <1>6, <2>3
    <3> QED BY <2>1, <2>2, <2>3, <3>1 DEF GivenOut
  <2>4. CASE y # n.year
    <3> HIDE DEF n
    <3> QED BY <1>6, <2>1, <2>4 DEF GivenOut
  <2> QED BY <2>3, <2>4
<1>9. UniqueNumber'
  <2>1. \A i \in Invoice : Exists(i) => header[i].number # n
    BY <1>1 DEF Taken, Numbers
  <2> QED BY <1>3, <2>1 DEF NumberingInv, UniqueNumber, Exists
<1>10. Gapless'
  <2> SUFFICES ASSUME NEW y \in Year
               PROVE  GivenOut(y)' = (SeedCount(y)' + 1)
                                        .. Cardinality(InYear(y))'
    BY DEF Gapless
  <2> DEFINE S == SeedCount(y)
             K == Cardinality(InYear(y))
  <2>1. GivenOut(y) = (S + 1) .. K /\ S \in Nat /\ K \in Nat /\ S <= K
    BY SeedsWithinCount DEF NumberingInv, Gapless
  <2>2. n.year = input[r].year
    BY DEF NumberOf
  <2>3. CASE y = n.year
    <3>1. number[r] = K + 1
      BY <1>1, <2>2, <2>3
    <3>2. GivenOut(y)' = ((S + 1) .. K) \cup {K + 1}
      BY <1>8, <2>1, <2>3, <3>1
    <3>3. SeedCount(y)' = S /\ Cardinality(InYear(y))' = K + 1
      BY <1>7, <2>3
    <3> HIDE DEF S, K, n
    <3>4. ((S + 1) .. K) \cup {K + 1} = (S + 1) .. (K + 1)
      BY <2>1
    <3> QED BY <3>2, <3>3, <3>4
  <2>4. CASE y # n.year
    BY <1>7, <1>8, <2>1, <2>4
  <2> QED BY <2>3, <2>4
<1>11. NumberInFlight'
  <2> SUFFICES ASSUME NEW q \in Request, IsCreate(q)',
                      pc'[q] \in {"insert", "commit"}
               PROVE  /\ (number[q] \in (SeedCount(input[q].year) + 1)
                             .. (Cardinality(InYear(input[q].year)) + 1))'
                      /\ pc'[q] = "commit" => ~Taken(q)' /\ ~NumberLocked(q)'
    BY DEF NumberInFlight
  <2>1. q # r /\ pc[q] = pc'[q] /\ IsCreate(q) /\ NumberOf(q)' = NumberOf(q)
    BY <1>2 DEF TypeOK, LocalsType, IsCreate, NumberOf
  <2>2. (number[q] \in (SeedCount(input[q].year) + 1)
            .. (Cardinality(InYear(input[q].year)) + 1))'
    <3>1. PICK y : y = input[q].year
      OBVIOUS
    <3>2. /\ number[q] \in (SeedCount(y) + 1) .. (Cardinality(InYear(y)) + 1)
          /\ SeedCount(y) \in Nat /\ Cardinality(InYear(y)) \in Nat
      BY <2>1, <3>1, SeedsWithinCount DEF NumberingInv, NumberInFlight
    <3>3. /\ (SeedCount(input[q].year))' = SeedCount(y)'
          /\ (Cardinality(InYear(input[q].year)))' = Cardinality(InYear(y))'
      BY <1>2, <3>1 DEF SeedCount, SeedInYear, InYear
    <3>4. SeedCount(y)' = SeedCount(y)
      BY <1>7
    <3>5. Cardinality(InYear(y))' \in {Cardinality(InYear(y)),
                                       Cardinality(InYear(y)) + 1}
      BY <1>7
    <3> QED BY <1>2, <3>2, <3>3, <3>4, <3>5
  <2>3. ASSUME pc'[q] = "commit" PROVE ~Taken(q)' /\ ~NumberLocked(q)'
    <3>1. ~Taken(q) /\ ~NumberLocked(q)
      BY <2>1, <2>3 DEF NumberingInv, NumberInFlight
    <3>2. NumberOf(q) # n
      BY <1>2, <2>1, <3>1 DEF NumberLocked
    <3>3. ~Taken(q)'
      BY <1>5, <2>1, <3>1, <3>2 DEF Taken
    <3>4. ~NumberLocked(q)'
      BY <1>2, <2>1, <3>1 DEF NumberLocked, IsCreate, NumberOf, TypeOK,
         LocalsType
    <3> QED BY <3>3, <3>4
  <2> QED BY <2>2, <2>3
<1>12. RowOfItsRequest'
  BY <1>2, <1>3, <1>4 DEF NumberingInv, RowOfItsRequest, TypeOK, LocalsType,
     Invoice, Exists
<1> QED BY <1>9, <1>10, <1>11, <1>12 DEF NumberingInv

\* An edit and a status change leave the number of every invoice alone.
LEMMA HeaderEditsKeepNumbers ==
    ASSUME TypeOK, NEW r \in Request, CommitUpdate(r) \/ CommitStatus(r)
    PROVE  SameNumbers
<1>1. input[r].invoice \in Invoice /\ Exists(input[r].invoice)
  BY BodyTypes DEF CommitUpdate, CommitStatus, IsCreate, IsUpdate, IsStatus,
     TypeOK, StageAfterRead, AfterRead, InTx, UpdateBody, StatusBody
<1>2. header[input[r].invoice] \in Row
  BY <1>1 DEF TypeOK, TablesType, Exists
<1>3. ASSUME NEW i \in Invoice
      PROVE  /\ Exists(i)' <=> Exists(i)
             /\ Exists(i) => header'[i].number = header[i].number
  <2>1. CASE i # input[r].invoice
    BY <2>1 DEF CommitUpdate, CommitStatus, TypeOK, TablesType, Exists
  <2>2. CASE i = input[r].invoice
    <3>1. header'[i].number = header[i].number /\ header'[i].status \in Status
      <4>1. CASE CommitUpdate(r)
        BY <1>2, <2>2, <4>1 DEF CommitUpdate, TypeOK, TablesType, Row
      <4>2. CASE CommitStatus(r)
        <5>1. input[r].status \in Status
          BY <4>2, BodyTypes DEF CommitStatus, StatusBody, Status
        <5> QED
          BY <1>2, <2>2, <4>2, <5>1 DEF CommitStatus, TypeOK, TablesType, Row
      <4> QED BY <4>1, <4>2
    <3> QED BY <1>1, <2>2, <3>1 DEF Exists, NoRow, Status
  <2> QED BY <2>1, <2>2
<1> QED BY <1>3 DEF SameNumbers

-----------------------------------------------------------------------------
(* The invariant *)

LEMMA NumberingInit == Init => NumberingInv
<1> SUFFICES ASSUME Init PROVE NumberingInv
  OBVIOUS
<1>1. PICK book \in SeedBook :
        header = [i \in Invoice |->
                     IF i \in Seed THEN SeededRow(book[i]) ELSE NoRow]
  BY DEF Init
<1>2. \A i \in Invoice : Exists(i) => i \in Seed
  BY <1>1 DEF Exists
<1>3. UniqueNumber
  BY <1>1, <1>2, SeedBookAssumption DEF UniqueNumber, SeededRow
<1>4. ASSUME NEW y PROVE InYear(y) = SeedInYear(y) /\ GivenOut(y) = {}
  BY <1>2, SeedNotRequest DEF InYear, SeedInYear, GivenOut, Invoice
<1>5. Gapless
  <2> SUFFICES ASSUME NEW y \in Year
               PROVE  GivenOut(y) = (SeedCount(y) + 1) .. Cardinality(InYear(y))
    BY DEF Gapless
  <2>1. SeedCount(y) = Cardinality(InYear(y)) /\ SeedCount(y) \in Nat
    BY <1>4, SeedsWithinCount DEF SeedCount
  <2>2. (SeedCount(y) + 1) .. SeedCount(y) = {}
    BY <2>1
  <2>3. GivenOut(y) = {}
    BY <1>4
  <2> QED BY <2>1, <2>2, <2>3
<1>6. NumberInFlight /\ RowOfItsRequest
  BY <1>2, SeedNotRequest DEF Init, NumberInFlight, RowOfItsRequest, Invoice
<1> QED BY <1>3, <1>5, <1>6 DEF NumberingInv

LEMMA NumberingNext ==
    TypeOK /\ NumberingInv /\ [Next]_vars => NumberingInv'
<1> SUFFICES ASSUME TypeOK, NumberingInv, [Next]_vars PROVE NumberingInv'
  OBVIOUS
<1> USE DEF Goto, locals, tables
<1>1. ASSUME NEW r \in Request, CommitCreate(r) PROVE NumberingInv'
  BY <1>1, CommitCreateInv
<1>2. ASSUME NEW r \in Request, nextInvoiceNumber(r) PROVE NumberingInv'
  <2>1. /\ IsCreate(r) /\ UNCHANGED input
        /\ pc' = [pc EXCEPT ![r] = "insert"]
        /\ number' = [number EXCEPT ![r] = CountOf(input[r].year) + 1]
    BY <1>2 DEF nextInvoiceNumber, NextNumber
  <2>2. SameNumbers
    BY <1>2 DEF nextInvoiceNumber, SameNumbers, Exists
  <2>3. UniqueNumber' /\ Gapless' /\ RowOfItsRequest'
    BY <1>2, <2>1, <2>2, SameNumbersSame DEF nextInvoiceNumber, NumberingInv,
       UniqueNumber, SameNumbers, Gapless, RowOfItsRequest, TypeOK, LocalsType,
       Invoice
  <2>4. \A q \in Request \ {r} :
            /\ pc'[q] = pc[q] /\ number'[q] = number[q] /\ input'[q] = input[q]
    BY <2>1 DEF TypeOK, LocalsType
  <2>5. pc'[r] = "insert" /\ number'[r] = Cardinality(InYear(input[r].year)) + 1
    BY <2>1 DEF TypeOK, LocalsType, CountOf
  <2>6. ASSUME NEW q \in Request, IsCreate(q)', pc'[q] \in {"insert", "commit"}
        PROVE  (number[q] \in (SeedCount(input[q].year) + 1)
                                .. (Cardinality(InYear(input[q].year)) + 1))'
    <3>1. PICK y : y = input[q].year
      OBVIOUS
    <3>2. /\ SeedCount(y) \in Nat /\ Cardinality(InYear(y)) \in Nat
          /\ SeedCount(y) <= Cardinality(InYear(y))
      BY SeedsWithinCount
    <3>3. number'[q] \in (SeedCount(y) + 1) .. (Cardinality(InYear(y)) + 1)
      <4>1. CASE q = r
        BY <2>5, <3>1, <3>2, <4>1
      <4>2. CASE q # r
        BY <2>4, <2>6, <3>1, <4>2 DEF NumberingInv, NumberInFlight, IsCreate
      <4> QED BY <4>1, <4>2
    <3>4. /\ (InYear(input[q].year))' = InYear(y)
          /\ (SeedInYear(input[q].year))' = SeedInYear(y)
      BY <2>1, <2>2, <3>1 DEF SameNumbers, InYear, SeedInYear, Invoice
    <3> QED BY <3>3, <3>4 DEF SeedCount
  <2>7. ASSUME NEW q \in Request, IsCreate(q)', pc'[q] = "commit"
        PROVE  ~Taken(q)' /\ ~NumberLocked(q)'
    <3>1. q # r /\ ~Taken(q) /\ ~NumberLocked(q) /\ NumberOf(q)' = NumberOf(q)
      BY <2>1, <2>4, <2>5, <2>7 DEF NumberingInv, NumberInFlight, IsCreate,
         NumberOf
    <3>2. ~Taken(q)'
      BY <2>2, <3>1, SameNumbersSame DEF Taken
    <3>3. ~NumberLocked(q)'
      BY <2>1, <2>4, <2>5, <3>1 DEF NumberLocked, IsCreate, NumberOf
    <3> QED BY <3>1, <3>2, <3>3
  <2>8. NumberInFlight'
    BY <2>6, <2>7 DEF NumberInFlight
  <2> QED BY <2>3, <2>8 DEF NumberingInv
<1>3. ASSUME NEW r \in Request, InsertInvoice(r) PROVE NumberingInv'
  <2>1. /\ pc[r] = "insert" /\ ~NumberLocked(r) /\ ~Taken(r)
        /\ pc' = [pc EXCEPT ![r] = "commit"]
        /\ UNCHANGED <<header, input, number>>
    BY <1>3 DEF InsertInvoice
  <2>2. IsCreate(r) /\ SameNumbers
    BY <2>1 DEF TypeOK, StageOfOp, SameNumbers, Exists
  <2>3. UniqueNumber' /\ Gapless' /\ RowOfItsRequest'
    BY <2>1, <2>2, SameNumbersSame DEF NumberingInv, UniqueNumber, SameNumbers,
       Gapless, RowOfItsRequest, TypeOK, LocalsType, Invoice
  <2>4. ASSUME NEW q \in Request, IsCreate(q)', pc'[q] \in {"insert", "commit"}
        PROVE  (number[q] \in (SeedCount(input[q].year) + 1)
                                .. (Cardinality(InYear(input[q].year)) + 1))'
    <3>1. IsCreate(q) /\ pc[q] \in {"insert", "commit"}
      BY <2>1, <2>2, <2>4 DEF IsCreate, TypeOK, LocalsType
    <3>2. number[q] \in (SeedCount(input[q].year) + 1)
                           .. (Cardinality(InYear(input[q].year)) + 1)
      BY <3>1 DEF NumberingInv, NumberInFlight
    <3> QED BY <2>1, <3>2 DEF SeedCount, SeedInYear, InYear, Exists
  <2>5. ASSUME NEW q \in Request, IsCreate(q)', pc'[q] = "commit"
        PROVE  ~Taken(q)' /\ ~NumberLocked(q)'
    <3>1. ~Taken(q) /\ ~NumberLocked(q)
      BY <2>1, <2>2, <2>5 DEF NumberingInv, NumberInFlight, IsCreate, TypeOK,
         LocalsType
    <3>2. ~Taken(q)'
      BY <2>1, <3>1 DEF Taken, NumberOf, Numbers, Exists
    <3>3. q # r => NumberOf(q) # NumberOf(r)
      BY <2>1, <2>5 DEF NumberLocked, IsCreate, TypeOK, LocalsType
    <3>4. ~NumberLocked(q)'
      BY <2>1, <3>1, <3>3 DEF NumberLocked, IsCreate, NumberOf, TypeOK,
         LocalsType
    <3> QED BY <3>2, <3>4
  <2>6. NumberInFlight'
    BY <2>4, <2>5 DEF NumberInFlight
  <2> QED BY <2>3, <2>6 DEF NumberingInv
<1>4. ASSUME NEW r \in Request, CommitUpdate(r) \/ CommitStatus(r)
      PROVE  NumberingInv'
  <2>1. /\ pc[r] = "commit" /\ ~IsCreate(r)
        /\ pc' = [pc EXCEPT ![r] = "done"]
        /\ UNCHANGED <<input, number>>
    BY <1>4 DEF CommitUpdate, CommitStatus, IsCreate, IsUpdate, IsStatus
  <2>2. SameNumbers
    BY <1>4, HeaderEditsKeepNumbers
  <2> QED BY <2>1, <2>2, QuietStep DEF IsCreate, TypeOK, LocalsType
<1>5. ASSUME NEW r \in Request, Arrive(r) PROVE NumberingInv'
  <2>1. pc[r] = "idle" /\ pc'[r] \in {"customer", "header"}
    BY <1>5 DEF Arrive, TypeOK, LocalsType
  <2>2. SameNumbers
    BY <1>5 DEF Arrive, SameNumbers, Exists
  <2> QED BY <1>5, <2>1, <2>2, QuietStep DEF Arrive, IsCreate, TypeOK,
     LocalsType
<1>6. ASSUME NEW r \in Request,
             \/ assertCustomer(r) \/ ReadHeader(r) \/ ReadItems(r)
             \/ NumberTaken(r) \/ StartDelete(r) \/ FinishDelete(r)
             \/ InsertLog(r) \/ WriteHeader(r) \/ Fail(r)
      PROVE  NumberingInv'
  <2> DEFINE to == pc'[r]
  <2>1. /\ UNCHANGED <<header, input, number>>
        /\ pc' = [pc EXCEPT ![r] = to]
        /\ pc[r] # "done"
        /\ to \in {"insert", "commit"} => ~IsCreate(r)
    <3>1. CASE WriteHeader(r)
      BY <3>1 DEF WriteHeader, TypeOK, LocalsType, StageOfOp
    <3>2. CASE Fail(r)
      BY <3>2 DEF Fail, Final, TypeOK, LocalsType
    <3>3. CASE assertCustomer(r) \/ ReadHeader(r) \/ ReadItems(r)
      BY <3>3 DEF assertCustomer, ReadHeader, ReadItems, TypeOK, LocalsType
    <3>4. CASE NumberTaken(r) \/ StartDelete(r) \/ FinishDelete(r) \/ InsertLog(r)
      BY <3>4 DEF NumberTaken, StartDelete, FinishDelete, InsertLog, TypeOK,
         LocalsType
    <3> QED BY <1>6, <3>1, <3>2, <3>3, <3>4
  <2>2. SameNumbers
    BY <2>1 DEF SameNumbers, Exists
  <2> QED BY <2>1, <2>2, QuietStep DEF IsCreate, TypeOK, LocalsType
<1>7. ASSUME UNCHANGED <<tables, pc, locals>> PROVE NumberingInv'
  BY <1>7, QuietStep DEF SameNumbers, Exists
<1> QED
  BY <1>1, <1>2, <1>3, <1>4, <1>5, <1>6, <1>7 DEF Next, Step, Terminated, vars,
     RemoveCustomer

\* The inductive invariant of numbering.
THEOREM NumberingCorrect == Spec => []NumberingInv
<1>1. Init => NumberingInv
  BY NumberingInit
<1>2. TypeOK /\ NumberingInv /\ [Next]_vars => NumberingInv'
  BY NumberingNext
<1> QED BY <1>1, <1>2, TypeCorrect, PTL DEF Spec

\* Two invoices never share a number, whatever the creates do to each other.
THEOREM NumbersUnique == Spec => []UniqueNumber
<1>1. NumberingInv => UniqueNumber
  BY DEF NumberingInv
<1> QED BY <1>1, NumberingCorrect, PTL

\* The numbers given out in a year are consecutive.
THEOREM NumbersGapless == Spec => []Gapless
<1>1. NumberingInv => Gapless
  BY DEF NumberingInv
<1> QED BY <1>1, NumberingCorrect, PTL

-----------------------------------------------------------------------------
(* Refused creates *)

\* A refused create computed its number from a count that has not shrunk.
RefusedInv ==
    \A r \in Request : pc[r] = "conflict" =>
        number[r] <= Cardinality(InYear(input[r].year)) + 1

\* A year never loses an invoice.
LEMMA YearsGrow ==
    ASSUME TypeOK, NumberingInv, [Next]_vars, NEW y
    PROVE  /\ Cardinality(InYear(y)) \in Nat
           /\ Cardinality(InYear(y))' \in Nat
           /\ Cardinality(InYear(y)) <= Cardinality(InYear(y))'
<1>1. ASSUME NEW i \in Invoice, Exists(i)
      PROVE  header'[i] # NoRow /\ header'[i].number = header[i].number
  <2>1. ASSUME NEW r \in Request, CommitCreate(r)
        PROVE  header'[i] = header[i]
    <3>1. ~Exists(r)
      BY <2>1, CommittedIsNext
    <3> QED BY <1>1, <2>1, <3>1 DEF CommitCreate, TypeOK, TablesType
  <2>2. ASSUME NEW r \in Request, CommitUpdate(r) \/ CommitStatus(r)
        PROVE  header'[i] # NoRow /\ header'[i].number = header[i].number
    BY <1>1, <2>2, HeaderEditsKeepNumbers DEF SameNumbers, Exists
  <2>3. \/ \E r \in Request : CommitCreate(r) \/ CommitUpdate(r) \/ CommitStatus(r)
        \/ UNCHANGED header
    BY DEF Next, Step, Terminated, vars, RemoveCustomer, Arrive, assertCustomer,
       ReadHeader, ReadItems, nextInvoiceNumber, InsertInvoice, NumberTaken,
       StartDelete, FinishDelete, InsertLog, WriteHeader, Fail, tables
  <2> QED BY <1>1, <2>1, <2>2, <2>3 DEF Exists
<1>2. InYear(y) \subseteq InYear(y)'
  BY <1>1 DEF InYear, Exists
<1>3. InYear(y)' \subseteq Invoice
  BY DEF InYear
<1>4. IsFiniteSet(InYear(y)')
  BY <1>3, InvoicesFinite, FS_Subset
<1>5. IsFiniteSet(InYear(y)) /\ Cardinality(InYear(y)') \in Nat
  BY <1>4, CountType, FS_CardinalityType
<1>6. Cardinality(InYear(y)) <= Cardinality(InYear(y)')
  BY <1>2, <1>4, FS_Subset
<1> QED BY <1>5, <1>6, CountType DEF CountOf

LEMMA RefusedStep ==
    ASSUME TypeOK, NumberingInv, RefusedInv, [Next]_vars
    PROVE  RefusedInv'
<1> SUFFICES ASSUME NEW r \in Request, pc'[r] = "conflict"
             PROVE  (number[r] <= Cardinality(InYear(input[r].year)) + 1)'
  BY DEF RefusedInv
<1>1. \/ NumberTaken(r)
      \/ pc'[r] = pc[r] /\ input'[r] = input[r] /\ number'[r] = number[r]
  <2>1. Arrive(r) \/ Step(r) \/ Fail(r) => NumberTaken(r)
    BY DEF Arrive, Step, assertCustomer, ReadHeader, ReadItems,
       nextInvoiceNumber, InsertInvoice, CommitCreate, StartDelete,
       FinishDelete, InsertLog, WriteHeader, CommitUpdate, CommitStatus, Fail,
       Goto, TypeOK, LocalsType
  <2> QED BY <2>1, OwnStep
<1>2. /\ input'[r] = input[r] /\ number'[r] = number[r]
      /\ number[r] <= Cardinality(InYear(input[r].year)) + 1
  <2>1. CASE NumberTaken(r)
    <3>1. pc[r] = "insert" /\ IsCreate(r) /\ UNCHANGED <<input, number>>
      BY <2>1 DEF NumberTaken, TypeOK, StageOfOp, locals
    <3>2. number[r] \in (SeedCount(input[r].year) + 1)
                           .. (Cardinality(InYear(input[r].year)) + 1)
      BY <3>1 DEF NumberingInv, NumberInFlight
    <3>3. /\ SeedCount(input[r].year) \in Nat
          /\ Cardinality(InYear(input[r].year)) \in Nat
      BY SeedsWithinCount
    <3>4. number[r] <= Cardinality(InYear(input[r].year)) + 1
      BY <3>2, <3>3
    <3>5. input'[r] = input[r] /\ number'[r] = number[r]
      BY <3>1
    <3> QED BY <3>4, <3>5
  <2>2. CASE ~NumberTaken(r)
    BY <1>1, <2>2 DEF RefusedInv
  <2> QED BY <2>1, <2>2
<1>3. number[r] \in Nat
  BY DEF TypeOK, LocalsType
<1>4. PICK y : y = input[r].year
  OBVIOUS
<1>5. /\ Cardinality(InYear(y)) \in Nat
      /\ Cardinality(InYear(y))' \in Nat
      /\ Cardinality(InYear(y)) <= Cardinality(InYear(y))'
  BY YearsGrow
<1>6. number'[r] <= Cardinality(InYear(y))' + 1
  BY <1>2, <1>3, <1>4, <1>5
<1>7. (Cardinality(InYear(input[r].year)))' = Cardinality(InYear(y))'
  BY <1>2, <1>4 DEF InYear
<1> QED BY <1>6, <1>7

\* The seeded numbers refuse nobody before the year's invoices reach them.
THEOREM SeedStaysOutOfTheWay == Spec => []SeedCollidesLate
<1>1. Init => RefusedInv
  BY DEF Init, RefusedInv
<1>2. TypeOK /\ NumberingInv /\ RefusedInv /\ [Next]_vars => RefusedInv'
  BY RefusedStep
<1>3. RefusedInv => SeedCollidesLate
  BY DEF RefusedInv, SeedCollidesLate
<1> QED BY <1>1, <1>2, <1>3, TypeCorrect, NumberingCorrect, PTL DEF Spec

-----------------------------------------------------------------------------
(* Refinement of NumberLedger *)

\* The instance's copies of the FiniteSets operators are the same operators.
LEMMA LedgerFiniteSets ==
    ASSUME NEW S
    PROVE  /\ Ledger!Cardinality(S) = Cardinality(S)
           /\ Ledger!IsFiniteSet(S) <=> IsFiniteSet(S)
BY DEF Ledger!Cardinality, Cardinality, Ledger!IsFiniteSet, IsFiniteSet

\* The ledger of a year has one entry per invoice of the year.
LEMMA EntriesCounted ==
    ASSUME UniqueNumber, NEW y
    PROVE  Cardinality(Ledger!Entries(y)) = Cardinality(InYear(y))
<1> DEFINE f == [i \in InYear(y) |-> header[i].number]
<1>1. f \in Bijection(InYear(y), Ledger!Entries(y))
  <2>1. f \in Surjection(InYear(y), Ledger!Entries(y))
    BY DEF Surjection, Ledger!Entries, InYear, Numbers
  <2>2. f \in Injection(InYear(y), Ledger!Entries(y))
    BY <2>1 DEF Injection, IsInjective, Surjection, UniqueNumber, InYear
  <2> QED BY <2>1, <2>2 DEF Bijection
<1>2. ExistsBijection(InYear(y), Ledger!Entries(y))
  BY <1>1 DEF ExistsBijection
<1> QED BY <1>2, CountType, FS_Bijection

LEMMA LedgerInit == Init => Ledger!Init
<1> DEFINE present == {i \in Invoice : Exists(i)}
           f == [i \in present |-> header[i].number]
<1>1. f \in Surjection(present, Numbers)
  BY DEF Surjection, Numbers
<1>2. IsFiniteSet(present)
  BY InvoicesFinite, FS_Subset
<1>3. IsFiniteSet(Numbers)
  BY <1>1, <1>2, FS_Surjection
<1> QED BY <1>3, LedgerFiniteSets DEF Ledger!Init

LEMMA LedgerNext ==
    TypeOK /\ NumberingInv /\ [Next]_vars => [Ledger!Next]_Numbers
<1> SUFFICES ASSUME TypeOK, NumberingInv, [Next]_vars
             PROVE  [Ledger!Next]_Numbers
  OBVIOUS
<1>1. ASSUME NEW r \in Request, CommitCreate(r) PROVE Ledger!Next
  <2> DEFINE y == input[r].year
  <2>1. y \in Year /\ number[r] = Cardinality(InYear(y)) + 1 /\ ~Taken(r)
        /\ ~Exists(r)
    BY <1>1, CommittedIsNext
  <2>2. NumberOf(r) = [year |-> y, seq |-> Cardinality(Ledger!Entries(y)) + 1]
    BY <2>1, EntriesCounted DEF NumberOf, NumberingInv
  <2>3. Numbers' = Numbers \cup {NumberOf(r)}
    <3>1. /\ Exists(r)' /\ header'[r].number = NumberOf(r)
          /\ \A i \in Invoice \ {r} : header'[i] = header[i]
      BY <1>1 DEF CommitCreate, TypeOK, TablesType, Exists, NoRow, Invoice
    <3>2. r \in Invoice
      BY DEF Invoice
    <3> QED BY <2>1, <3>1, <3>2 DEF Numbers, Exists
  <2>4. Ledger!Issue(y)
    BY <2>1, <2>2, <2>3, LedgerFiniteSets DEF Ledger!Issue, Taken
  <2> QED BY <2>1, <2>4 DEF Ledger!Next
<1>2. ASSUME SameNumbers PROVE UNCHANGED Numbers
  BY <1>2, SameNumbersSame
<1>3. ASSUME NEW r \in Request, CommitUpdate(r) \/ CommitStatus(r)
      PROVE  SameNumbers
  BY <1>3, HeaderEditsKeepNumbers
<1>4. ASSUME UNCHANGED header PROVE SameNumbers
  BY <1>4 DEF SameNumbers, Exists
<1>5. \/ \E r \in Request : CommitCreate(r) \/ CommitUpdate(r) \/ CommitStatus(r)
      \/ UNCHANGED header
  BY DEF Next, Step, Terminated, vars, RemoveCustomer, Arrive, assertCustomer,
     ReadHeader, ReadItems, nextInvoiceNumber, InsertInvoice, NumberTaken,
     StartDelete, FinishDelete, InsertLog, WriteHeader, Fail, tables
<1> QED BY <1>1, <1>2, <1>3, <1>4, <1>5

\* Counting and inserting in overlapping transactions implements the ledger's
\* atomic Issue.
THEOREM ImplementsLedger == Spec => LedgerSpec
<1>1. Init => Ledger!Init
  BY LedgerInit
<1>2. TypeOK /\ NumberingInv /\ [Next]_vars => [Ledger!Next]_Numbers
  BY LedgerNext
<1> QED
  BY <1>1, <1>2, TypeCorrect, NumberingCorrect, PTL
  DEF Spec, LedgerSpec, Ledger!Spec
=============================================================================
