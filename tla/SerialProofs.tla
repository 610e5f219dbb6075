---------------------------- MODULE SerialProofs ----------------------------
(***************************************************************************)
(* One request at a time: what only overlap can break, and that Invoices   *)
(* then implements InvoiceLifecycle.                                       *)
(***************************************************************************)
EXTENDS BookProofs, SerialInvoices

\* A set of at most one element.
LEMMA AtMostOne ==
    ASSUME NEW S, IsFiniteSet(S), Cardinality(S) <= 1, NEW x \in S, NEW y \in S
    PROVE  x = y
<1>1. Cardinality(S) \in Nat
  BY FS_CardinalityType
<1>2. Cardinality(S) # 0
  BY FS_EmptySet
<1>3. \E z : S = {z}
  BY <1>1, <1>2, FS_Singleton
<1> QED BY <1>3

\* A request that stays in service is alone: no step is another's.
LEMMA SerialStep ==
    ASSUME TypeOK, [Next /\ OneAtATime]_vars,
           NEW r \in Request, r \in InService'
    PROVE  \/ Arrive(r) \/ Step(r)
           \/ UNCHANGED <<tables, pc, locals>>
<1>1. CASE UNCHANGED vars
  BY <1>1 DEF vars, tables, locals
<1>2. CASE Next /\ OneAtATime
  <2>1. \A q \in InService : \A p \in InService : p = q
    <3>1. IsFiniteSet(InService)
      BY RequestsFinite, FS_Subset DEF InService
    <3> QED BY <1>2, <3>1, AtMostOne DEF OneAtATime
  <2>2. \A q \in InService' : q = r
    <3>1. IsFiniteSet(InService')
      BY RequestsFinite, FS_Subset DEF InService
    <3> QED BY <1>2, <3>1, AtMostOne DEF OneAtATime
  <2>3. ASSUME NEW q \in Request, Arrive(q) PROVE q = r
    <3>1. pc'[q] \in {"customer", "header"}
      BY <2>3 DEF Arrive, Goto, TypeOK, LocalsType
    <3> QED BY <2>2, <3>1 DEF InService, Final
  <2>4. ASSUME NEW q \in Request, Step(q) \/ Fail(q) PROVE q = r
    <3>1. q \in InService
      BY <2>4 DEF InService, Final, Step, assertCustomer, ReadHeader, ReadItems,
         nextInvoiceNumber, InsertInvoice, NumberTaken, CommitCreate,
         StartDelete, FinishDelete, InsertLog, WriteHeader, CommitUpdate,
         CommitStatus, Fail
    <3>2. CASE r \in InService
      BY <2>1, <3>1, <3>2
    <3>3. CASE r \notin InService
      <4>1. pc'[r] # pc[r]
        BY <3>3 DEF InService
      <4>2. \E to : Goto(q, to)
        BY <2>4 DEF Step, assertCustomer, ReadHeader, ReadItems,
           nextInvoiceNumber, InsertInvoice, NumberTaken, CommitCreate,
           StartDelete, FinishDelete, InsertLog, WriteHeader, CommitUpdate,
           CommitStatus, Fail
      <4> QED BY <4>1, <4>2 DEF Goto, TypeOK, LocalsType
    <3> QED BY <3>2, <3>3
  <2>5. ~Fail(r)
    BY DEF InService, Fail, Goto, Final, TypeOK, LocalsType
  <2>6. ASSUME NEW c \in Customer, RemoveCustomer(c)
        PROVE  UNCHANGED <<tables, pc, locals>>
    BY <2>6 DEF RemoveCustomer
  <2>7. Terminated => UNCHANGED <<tables, pc, locals>>
    BY DEF Terminated, vars, tables, locals
  <2> QED BY <1>2, <2>3, <2>4, <2>5, <2>6, <2>7 DEF Next
<1> QED BY <1>1, <1>2

-----------------------------------------------------------------------------
(* Reads *)

LEMMA ReadsStep ==
    ASSUME TypeOK, ReadsAreCurrent, [Next /\ OneAtATime]_vars
    PROVE  ReadsAreCurrent'
<1> DEFINE Current(r) ==
      LET i == input[r].invoice IN
      /\ AfterRead(r) => /\ existing[r].status = header[i].status
                         /\ existing[r].taxRate = header[i].money.taxRate
      /\ AfterRead(r) /\ IsUpdate(r) /\ pc[r] # "items"
            => existing[r].amount = Sum(items[i])
      /\ pc[r] \in {"delete", "write", "commit"} /\ IsUpdate(r)
            => doomed[r] = items[i]
<1> SUFFICES ASSUME NEW r \in Request PROVE Current(r)'
  BY DEF ReadsAreCurrent
<1>1. Current(r)
  BY DEF ReadsAreCurrent
<1>2. CASE r \notin InService'
  BY <1>2 DEF InService, AfterRead, InTx, Final
<1>3. CASE UNCHANGED <<tables, pc, locals>>
  BY <1>1, <1>3 DEF tables, locals, AfterRead, IsCreate, IsUpdate, Sum
<1>4. CASE Arrive(r)
  <2>1. PICK body \in Inputs :
          /\ input'[r] = body
          /\ pc'[r] = IF body.op = "create" THEN "customer" ELSE "header"
    BY <1>4 DEF Arrive, Goto, TypeOK, LocalsType
  <2> QED BY <2>1 DEF AfterRead, IsCreate, IsUpdate, InTx
<1>5. CASE Step(r) /\ r \in InService'
  <2>1. UNCHANGED <<tables, input>>
    BY <1>5 DEF Step, assertCustomer, ReadHeader, ReadItems,
       nextInvoiceNumber, InsertInvoice, NumberTaken, CommitCreate,
       StartDelete, FinishDelete, InsertLog, WriteHeader, CommitUpdate,
       CommitStatus, InService, Final, Goto, TypeOK, LocalsType, locals
  <2>2. \A S : Sum(S)' = Sum(S)
    BY DEF Sum
  <2> DEFINE i == input[r].invoice
  <2>3. CASE ReadHeader(r)
    <3>1. existing'[r] = [status |-> header[i].status,
                          taxRate |-> header[i].money.taxRate, amount |-> 0]
      BY <1>5, <2>3 DEF ReadHeader, InService, Final, Goto, TypeOK, LocalsType
    <3>2. pc'[r] \in {"items", "begin"} /\ (IsUpdate(r) => pc'[r] = "items")
      BY <1>5, <2>3 DEF ReadHeader, InService, Final, Goto, TypeOK, LocalsType
    <3> QED BY <2>1, <3>1, <3>2 DEF tables, IsUpdate
  <2>4. CASE ReadItems(r)
    <3>1. AfterRead(r) /\ existing[r] \in ReadResult
      BY <2>4 DEF ReadItems, TypeOK, LocalsType, StageOfOp, StageAfterRead,
         AfterRead, IsCreate, IsUpdate
    <3>2. /\ existing'[r].status = existing[r].status
          /\ existing'[r].taxRate = existing[r].taxRate
          /\ existing'[r].amount = Sum(items[i])
      BY <2>4, <3>1 DEF ReadItems, ReadResult, TypeOK, LocalsType
    <3>3. pc'[r] \in {"customer", "begin", "rejected"}
      BY <2>4 DEF ReadItems, Goto, TypeOK, LocalsType
    <3> QED BY <1>1, <2>1, <2>2, <3>1, <3>2, <3>3 DEF tables, IsUpdate
  <2>5. CASE StartDelete(r) \/ FinishDelete(r)
    <3>1. /\ AfterRead(r) /\ IsUpdate(r) /\ pc[r] # "items"
          /\ pc'[r] \in {"delete", "write"} /\ existing' = existing
      BY <2>5 DEF StartDelete, FinishDelete, AfterRead, IsCreate, IsUpdate,
         InTx, TypeOK, LocalsType, StageOfOp, Goto
    <3>2. doomed'[r] = items[i]
      <4>1. CASE StartDelete(r)
        BY <4>1 DEF StartDelete, Matched, TypeOK, LocalsType
      <4>2. CASE FinishDelete(r)
        <5>1. pc[r] = "delete" /\ doomed'[r] = doomed[r] \cap items[i]
          BY <4>2 DEF FinishDelete, Matched, TypeOK, LocalsType
        <5> QED BY <1>1, <3>1, <5>1
      <4> QED BY <2>5, <4>1, <4>2
    <3> QED BY <1>1, <2>1, <2>2, <3>1, <3>2 DEF tables, IsUpdate
  <2>6. CASE assertCustomer(r) \/ InsertLog(r) \/ WriteHeader(r)
    <3>1. /\ existing' = existing /\ doomed' = doomed
          /\ pc'[r] \in {"begin", "write", "commit", "rejected"}
          /\ pc[r] \in {"customer", "begin", "write"}
          /\ pc'[r] = "write" => IsStatus(r)
          /\ pc'[r] = "commit" => pc[r] = "write"
      BY <2>6 DEF assertCustomer, InsertLog, WriteHeader, Goto, TypeOK,
         LocalsType, locals
    <3>2. AfterRead(r)' => AfterRead(r)
      <4>1. pc[r] = "customer" => ~IsStatus(r) /\ input[r] \in Body
        BY DEF TypeOK, StageOfOp
      <4> QED BY <2>1, <3>1, <4>1 DEF AfterRead, InTx, IsCreate, IsUpdate,
         IsStatus, Body, CreateBody, UpdateBody, StatusBody
    <3> QED BY <1>1, <2>1, <2>2, <3>1, <3>2 DEF tables, IsUpdate, IsStatus,
       AfterRead, InTx, IsCreate
  <2>7. CASE nextInvoiceNumber(r) \/ InsertInvoice(r) \/ NumberTaken(r)
    <3>1. IsCreate(r)
      BY <2>7 DEF nextInvoiceNumber, InsertInvoice, NumberTaken, TypeOK,
         StageOfOp
    <3> QED BY <2>1, <3>1 DEF AfterRead, IsCreate, IsUpdate
  <2>8. ~(CommitCreate(r) \/ CommitUpdate(r) \/ CommitStatus(r))
    BY <1>5 DEF CommitCreate, CommitUpdate, CommitStatus, InService, Final,
       Goto, TypeOK, LocalsType
  <2> QED BY <1>5, <2>3, <2>4, <2>5, <2>6, <2>7, <2>8 DEF Step
<1> QED BY <1>2, <1>3, <1>4, <1>5, SerialStep

-----------------------------------------------------------------------------
(* Items and money *)

\* One batch adds up to its amount.
LEMMA SumOfOne ==
    ASSUME NEW b, b.amount \in Nat
    PROVE  Sum({b}) = b.amount
<1> DEFINE cents == {b} \X (1 .. b.amount)
<1>1. UNION {{c} \X (1 .. c.amount) : c \in {b}} = cents
  OBVIOUS
<1>2. IsFiniteSet({b}) /\ Cardinality({b}) = 1
  BY FS_Singleton
<1>3. IsFiniteSet(1 .. b.amount) /\ Cardinality(1 .. b.amount) = b.amount
  BY FS_Interval
<1>4. Cardinality(cents) = Cardinality({b}) * Cardinality(1 .. b.amount)
  BY <1>2, <1>3, FS_Product
<1> HIDE DEF cents
<1>5. Cardinality(cents) = b.amount
  BY <1>2, <1>3, <1>4
<1> QED BY <1>1, <1>5 DEF Sum

\* So with one batch per invoice the money is that of all its items.
LEMMA MoneyOfItems ==
    ASSUME TypeOK, OneBatch, MoneyOfOneBatch
    PROVE  MoneyFromItems
<1> SUFFICES ASSUME NEW i \in Invoice, Exists(i)
             PROVE  header[i].money
                      = computeTotals(Sum(items[i]), header[i].money.taxRate)
  BY DEF MoneyFromItems
<1>1. PICK b \in items[i] : items[i] = {b}
  BY DEF OneBatch
<1>2. header[i].money = computeTotals(b.amount, header[i].money.taxRate)
  BY <1>1 DEF MoneyOfOneBatch
<1>3. b.amount \in Nat
  BY <1>1 DEF TypeOK, TablesType, Batch
<1> QED BY <1>1, <1>2, <1>3, SumOfOne

LEMMA OneBatchStep ==
    ASSUME TypeOK, ReadsAreCurrent, OneBatch, [Next]_vars
    PROVE  OneBatch'
<1> SUFFICES ASSUME NEW i \in Invoice, Exists(i)'
             PROVE  \E b \in items'[i] : items'[i] = {b}
  BY DEF OneBatch
<1>1. CASE header'[i] = header[i] /\ items'[i] = items[i]
  BY <1>1 DEF OneBatch, Exists
<1>2. ASSUME NEW r \in Request, CommitCreate(r)
      PROVE  \E b : items'[i] = {b}
  BY <1>1, <1>2, CommitOfNew
<1>3. ASSUME NEW r \in Request, CommitUpdate(r)
      PROVE  \E b : items'[i] = {b}
  <2>1. doomed[r] = items[input[r].invoice]
    BY <1>3 DEF ReadsAreCurrent, CommitUpdate
  <2>2. CASE i = input[r].invoice
    <3>1. items'[i] = (items[i] \ items[i])
                        \cup {[by |-> r, amount |-> EditAmount(r)]}
      BY <1>3, <2>1, <2>2, CommitOfOne
    <3> QED BY <3>1
  <2>3. CASE i # input[r].invoice
    <3>1. header'[i] = header[i] /\ items'[i] = items[i]
      BY <1>3, <2>3, CommitOfOne
    <3> QED BY <1>1, <3>1
  <2> QED BY <2>2, <2>3
<1>4. ASSUME NEW r \in Request, CommitStatus(r)
      PROVE  \E b : items'[i] = {b}
  <2>1. CASE i = input[r].invoice
    <3>1. Exists(i) /\ items'[i] = items[i]
      BY <1>4, <2>1, CommitOfOne
    <3> QED BY <3>1 DEF OneBatch
  <2>2. CASE i # input[r].invoice
    BY <1>1, <1>4, <2>2, CommitOfOne
  <2> QED BY <2>1, <2>2
<1>5. CASE UNCHANGED tables
  BY <1>1, <1>5 DEF tables
<1> QED BY <1>2, <1>3, <1>4, <1>5, OnlyCommitsWrite

-----------------------------------------------------------------------------
(* The timeline *)

\* A status comes before the ones TRANSITIONS leads to.
LEMMA RankUp ==
    ASSUME NEW s \in Status, NEW t \in TRANSITIONS[s]
    PROVE  /\ t \in Status
           /\ Rank[s] \in Nat /\ Rank[t] \in Nat /\ Rank[s] < Rank[t]
<1>1. CASE s = "DRAFT"
  BY <1>1 DEF TRANSITIONS, Status, Rank
<1>2. CASE s \in {"SENT", "OVERDUE"}
  BY <1>2 DEF TRANSITIONS, Status, Rank
<1>3. CASE s \notin {"DRAFT", "SENT", "OVERDUE"}
  BY <1>3 DEF TRANSITIONS, Status, Rank
<1> QED BY <1>1, <1>2, <1>3

PathInv == LeftBehind /\ TimelineIsPath

\* The rows of an invoice form a path, all before its status.
PathOf(i) ==
    /\ \A d, e \in RowsOf(i) : d.from = e.from => d = e
    /\ \A e \in RowsOf(i) :
          /\ e.from # header[i].status
          /\ e.from # None => Rank[e.from] < Rank[header[i].status]

LEMMA PathStep ==
    ASSUME TypeOK, NumberingInv, TimelineInv, ReadsAreCurrent, PathInv,
           [Next]_vars
    PROVE  PathInv'
<1>1. \A i \in Invoice : Exists(i) => PathOf(i)
  BY DEF PathInv, LeftBehind, TimelineIsPath, PathOf
<1>2. ASSUME \A e \in log' : Exists(e.invoice)',
             \A i \in Invoice : Exists(i)' => PathOf(i)'
      PROVE  PathInv'
  BY <1>2 DEF PathInv, LeftBehind, TimelineIsPath, PathOf
<1>3. \A e \in log : e.invoice \in Invoice /\ Exists(e.invoice)
  BY DEF PathInv, LeftBehind, TypeOK, TablesType, LogRow
<1>4. ASSUME NEW i \in Invoice, Exists(i)', header'[i].status = header[i].status,
             Exists(i), RowsOf(i)' = RowsOf(i)
      PROVE  PathOf(i)'
  BY <1>1, <1>4 DEF PathOf
<1>5. ASSUME NEW r \in Request, CommitCreate(r)
      PROVE  PathInv'
  <2>1. PICK entry : entry = [invoice |-> r, from |-> None,
                              to |-> input[r].status, by |-> r]
    OBVIOUS
  <2>2. log' = log \cup {entry} /\ entry.invoice = r /\ entry.from = None
    BY <1>5, <2>1 DEF CommitCreate
  <2>3. r \in Invoice /\ ~Exists(r)
    BY <1>5, CommittedIsNext DEF Invoice
  <2>4. /\ header'[r].status = input[r].status
        /\ input[r].status \in Status
        /\ \A j \in Invoice \ {r} : header'[j] = header[j]
    BY <1>5, CommitOfNew DEF CreateBody, Status
  <2>5. Exists(r)'
    BY <2>4 DEF Exists, NoRow, Status
  <2>6. RowsOf(r)' = {entry}
    BY <1>3, <2>2, <2>3 DEF RowsOf
  <2>7. PathOf(r)'
    BY <2>2, <2>4, <2>6, NoneIsNoStatus DEF PathOf
  <2>8. \A i \in Invoice \ {r} : RowsOf(i)' = RowsOf(i)
    BY <2>2 DEF RowsOf
  <2>9. \A e \in log' : Exists(e.invoice)'
    BY <1>3, <2>2, <2>4, <2>5 DEF Exists
  <2>10. \A i \in Invoice \ {r} : Exists(i)' => PathOf(i)'
    BY <1>4, <2>4, <2>8 DEF Exists
  <2> QED BY <1>2, <2>7, <2>9, <2>10
<1>6. ASSUME NEW r \in Request, CommitUpdate(r)
      PROVE  PathInv'
  <2>1. \A i \in Invoice : /\ header'[i].status = header[i].status
                           /\ Exists(i)' => Exists(i)
    BY <1>6, EditKeepsStatus
  <2>2. log' = log /\ \A i : RowsOf(i)' = RowsOf(i)
    BY <1>6 DEF CommitUpdate, RowsOf
  <2>3. \A i \in Invoice : Exists(i) => Exists(i)'
    <3>1. PICK i : i = input[r].invoice
      OBVIOUS
    <3>2. /\ i \in Invoice /\ header[i] \in Row
          /\ \A j \in Invoice \ {i} : header'[j] = header[j]
      BY <1>6, <3>1, CommitOfOne
    <3>3. Exists(i)'
      BY <2>1, <3>2 DEF Exists, NoRow, Row, Status
    <3> QED BY <3>2, <3>3 DEF Exists
  <2> QED BY <1>2, <1>3, <1>4, <2>1, <2>2, <2>3
<1>7. ASSUME NEW r \in Request, CommitStatus(r)
      PROVE  PathInv'
  <2>1. PICK i, s, t : /\ i = input[r].invoice
                       /\ s = existing[r].status
                       /\ t = input[r].status
    OBVIOUS
  <2>2. PICK entry : entry = [invoice |-> i, from |-> s, to |-> t, by |-> r]
    OBVIOUS
  <2>3. log' = log \cup {entry} /\ entry.invoice = i /\ entry.from = s
    BY <1>7, <2>1, <2>2 DEF CommitStatus
  <2>4. /\ i \in Invoice /\ Exists(i) /\ header[i] \in Row
        /\ \A j \in Invoice \ {i} : header'[j] = header[j]
        /\ header'[i].status = t
    BY <1>7, <2>1, CommitOfOne
  <2>5. s = header[i].status /\ s \in Status
    BY <1>7, <2>1, <2>4 DEF ReadsAreCurrent, CommitStatus, AfterRead, InTx, IsCreate,
       IsStatus, Row
  <2>6. t \in TRANSITIONS[s]
    BY <1>7, <2>1 DEF CommitStatus, TimelineInv, ChangeAllowed, InTx, MayChange
  <2>7. /\ t \in Status
        /\ Rank[s] \in Nat /\ Rank[t] \in Nat /\ Rank[s] < Rank[t]
    BY <2>5, <2>6, RankUp
  <2>8. Exists(i)'
    BY <2>4, <2>7 DEF Exists, NoRow, Status
  <2>9. RowsOf(i)' = RowsOf(i) \cup {entry}
    BY <2>3 DEF RowsOf
  <2>10. \A e \in RowsOf(i) : e.from \in Status \cup {None}
    BY DEF RowsOf, TypeOK, TablesType, LogRow
  <2>11. \A e \in RowsOf(i) : /\ e.from # s
                              /\ e.from # None => Rank[e.from] < Rank[s]
    BY <1>1, <2>4, <2>5 DEF PathOf
  <2>12. \A d, e \in RowsOf(i)' : d.from = e.from => d = e
    BY <1>1, <2>3, <2>4, <2>9, <2>11 DEF PathOf
  <2>13. ASSUME NEW e \in RowsOf(i)'
         PROVE  e.from # t /\ (e.from # None => Rank[e.from] < Rank[t])
    <3>1. CASE e = entry
      BY <2>3, <2>7, <3>1
    <3>2. CASE e \in RowsOf(i) /\ e.from # None
      <4>1. Rank[e.from] < Rank[s] /\ Rank[e.from] \in Nat
        BY <2>10, <2>11, <3>2 DEF Rank
      <4> QED BY <2>7, <4>1
    <3>3. CASE e.from = None
      BY <2>7, <3>3, NoneIsNoStatus
    <3> QED BY <2>9, <3>1, <3>2, <3>3
  <2>14. PathOf(i)'
    BY <2>4, <2>12, <2>13 DEF PathOf
  <2>15. \A j \in Invoice \ {i} : RowsOf(j)' = RowsOf(j)
    BY <2>3 DEF RowsOf
  <2>16. \A e \in log' : Exists(e.invoice)'
    BY <1>3, <2>3, <2>4, <2>8 DEF Exists
  <2>17. \A j \in Invoice \ {i} : Exists(j)' => PathOf(j)'
    BY <1>4, <2>4, <2>15 DEF Exists
  <2> QED BY <1>2, <2>14, <2>16, <2>17
<1>8. CASE UNCHANGED tables
  <2>1. \A i : RowsOf(i)' = RowsOf(i) /\ (Exists(i)' <=> Exists(i))
    BY <1>8 DEF tables, RowsOf, Exists
  <2> QED BY <1>2, <1>3, <1>4, <1>8, <2>1 DEF tables
<1> QED BY <1>5, <1>6, <1>7, <1>8, OnlyCommitsWrite

-----------------------------------------------------------------------------
(* The invariants *)

SerialTypes == TypeOK /\ NumberingInv /\ TimelineInv /\ EditAllowed
                 /\ MoneyOfOneBatch

\* What holds of every behaviour holds of the serial ones.
LEMMA SerialIsSpec == SerialSpec => Spec
<1>1. [Next /\ OneAtATime]_vars => [Next]_vars
  OBVIOUS
<1> QED BY <1>1, PTL DEF SerialSpec, Spec

LEMMA AlwaysEditAllowed == Spec => []EditAllowed
<1>1. Init => EditAllowed
  BY DEF Init, EditAllowed, PastCheck, InTx
<1>2. TypeOK /\ EditAllowed /\ [Next]_vars => EditAllowed'
  BY EditAllowedStep
<1> QED BY <1>1, <1>2, TypeCorrect, PTL DEF Spec

LEMMA SerialKeepsTypes == SerialSpec => []SerialTypes
BY SerialIsSpec, TypeCorrect, NumberingCorrect, TimelineCorrect,
   AlwaysEditAllowed, MoneyIsOfOneBatch, PTL DEF SerialTypes

LEMMA SerialInit == Init => SerialInv
<1> SUFFICES ASSUME Init PROVE SerialInv
  OBVIOUS
<1>1. PICK book \in SeedBook :
        /\ header = [i \in Invoice |->
                        IF i \in Seed THEN SeededRow(book[i]) ELSE NoRow]
        /\ items = [i \in Invoice |->
                       IF i \in Seed
                       THEN {[by |-> i, amount |-> book[i].amount]} ELSE {}]
        /\ log = {[invoice |-> s, from |-> None, to |-> book[s].status,
                   by |-> s] : s \in Seed}
  BY DEF Init
<1>2. ReadsAreCurrent
  BY DEF Init, ReadsAreCurrent, AfterRead, InTx
<1>3. OneBatch
  BY <1>1 DEF OneBatch, Exists
<1>4. TypeOK
  BY InitType
<1>5. \A e \in log : e.from = None /\ e.invoice \in Seed
  BY <1>1
<1>6. \A d, e \in log : d.invoice = e.invoice => d = e
  BY <1>1
<1>7. \A i \in Invoice : Exists(i) => header[i].status # None
  BY <1>4, NoneIsNoStatus DEF TypeOK, TablesType, Exists, Row
<1>8. \A s \in Seed : Exists(s)
  BY <1>4 DEF TypeOK, TablesType
<1>9. LeftBehind
  BY <1>5, <1>8 DEF LeftBehind, RowsOf
<1>10. TimelineIsPath
  BY <1>5, <1>6, <1>7 DEF TimelineIsPath, RowsOf
<1> QED BY <1>2, <1>3, <1>9, <1>10 DEF SerialInv

\* With no overlap, every read is true until its request commits, every
\* invoice has one batch of items, and its timeline is a path.
THEOREM SerialCorrect == SerialSpec => []SerialInv
<1>1. Init => SerialInv
  BY SerialInit
<1>2. SerialTypes /\ SerialInv /\ [Next /\ OneAtATime]_vars => SerialInv'
  BY ReadsStep, OneBatchStep, PathStep DEF SerialTypes, SerialInv, PathInv
<1> QED BY <1>1, <1>2, SerialKeepsTypes, PTL DEF SerialSpec

\* With no overlap, no status is left twice.
THEOREM PathWithoutOverlap == SerialSpec => []TimelineIsPath
<1>1. SerialInv => TimelineIsPath
  BY DEF SerialInv
<1> QED BY <1>1, SerialCorrect, PTL

\* With no overlap, the stored money is that of the items.
THEOREM MoneyWithoutOverlap == SerialSpec => []MoneyFromItems
<1>1. SerialTypes /\ SerialInv => MoneyFromItems
  BY MoneyOfItems DEF SerialTypes, SerialInv
<1> QED BY <1>1, SerialCorrect, SerialKeepsTypes, PTL

\* The invoice that an edit commits to was a DRAFT when it was read and, with
\* no overlap, still is.
LEMMA EditsDraft ==
    ASSUME TypeOK, EditAllowed, ReadsAreCurrent, NEW r \in Request,
           CommitUpdate(r)
    PROVE  header[input[r].invoice].status = "DRAFT"
<1>1. AfterRead(r) /\ PastCheck(r)
  BY DEF CommitUpdate, AfterRead, PastCheck, IsCreate, IsUpdate, InTx
<1> QED BY <1>1 DEF EditAllowed, ReadsAreCurrent

\* With no overlap, only a DRAFT's items change.
THEOREM EditsWithoutOverlap == SerialSpec => EditOnlyWhileDraft
<1>1. SerialTypes /\ SerialInv /\ [Next /\ OneAtATime]_vars =>
        [\A i \in Invoice : Exists(i) /\ items'[i] # items[i]
            => header[i].status = "DRAFT"]_vars
  <2> SUFFICES ASSUME SerialTypes, SerialInv, [Next]_vars, NEW i \in Invoice,
                      Exists(i), items'[i] # items[i]
               PROVE  header[i].status = "DRAFT"
    OBVIOUS
  <2> USE DEF SerialTypes, SerialInv
  <2>1. ASSUME NEW r \in Request, CommitCreate(r) PROVE FALSE
    <3>1. i # r
      BY <2>1, CommittedIsNext
    <3> QED BY <2>1, <3>1, CommitOfNew
  <2>2. ASSUME NEW r \in Request, CommitUpdate(r)
        PROVE  header[i].status = "DRAFT"
    <3>1. i = input[r].invoice
      BY <2>2, CommitOfOne
    <3> QED BY <2>2, <3>1, EditsDraft
  <2>3. ASSUME NEW r \in Request, CommitStatus(r) PROVE FALSE
    BY <2>3 DEF CommitStatus
  <2>4. ~UNCHANGED tables
    BY DEF tables
  <2> QED BY <2>1, <2>2, <2>3, <2>4, OnlyCommitsWrite
<1> QED BY <1>1, SerialCorrect, SerialKeepsTypes, PTL
        DEF SerialSpec, EditOnlyWhileDraft

-----------------------------------------------------------------------------
(* The lifecycle *)

Seens == [i \in Invoice |-> Seen(i)]

\* What a client sees of an invoice that exists has its price.
SeenPriced ==
    \A i \in Invoice : Exists(i) =>
        /\ Seens[i] # NoRow
        /\ Seens[i].status = header[i].status
        /\ Seens[i].number = header[i].number
        /\ Lifecycle!Priced(Seens[i])

LEMMA SeenIsPriced == TypeOK /\ MoneyFromItems => SeenPriced
<1> SUFFICES ASSUME TypeOK, MoneyFromItems, NEW i \in Invoice, Exists(i)
             PROVE  /\ Seens[i] # NoRow
                    /\ Seens[i].status = header[i].status
                    /\ Seens[i].number = header[i].number
                    /\ Lifecycle!Priced(Seens[i])
  BY DEF SeenPriced
<1>1. header[i] \in Row
  BY DEF TypeOK, TablesType, Exists
<1>2. Seens[i] = [status |-> header[i].status, number |-> header[i].number,
                  customer |-> header[i].customer, money |-> header[i].money,
                  amount |-> Sum(items[i])]
  BY DEF Seens, Seen
<1>3. header[i].money = [subtotal |-> Sum(items[i]),
                         taxRate |-> header[i].money.taxRate,
                         taxAmount |-> Tax(Sum(items[i]), header[i].money.taxRate),
                         total |-> Sum(items[i])
                            + Tax(Sum(items[i]), header[i].money.taxRate)]
  BY DEF MoneyFromItems, computeTotals
<1>4. header[i].customer \in Customer /\ header[i].status \in Status
  BY <1>1 DEF Row
<1>5. \A a, rate : Lifecycle!Tax(a, rate) = Tax(a, rate)
  BY DEF Lifecycle!Tax, Tax
<1>6. Lifecycle!Priced(Seens[i])
  BY <1>2, <1>3, <1>4, <1>5 DEF Lifecycle!Priced
<1>7. Seens[i] # NoRow
  BY <1>2, <1>4 DEF NoRow, Status
<1> QED BY <1>2, <1>6, <1>7

\* A step that writes one invoice changes one that a client sees.
LEMMA OneSeen ==
    ASSUME NEW i \in Invoice,
           \A j \in Invoice \ {i} : header'[j] = header[j] /\ items'[j] = items[j]
    PROVE  Seens' = [Seens EXCEPT ![i] = Seens'[i]]
<1>1. \A j \in Invoice \ {i} : Seen(j)' = Seen(j)
  BY DEF Seen, Exists, Sum
<1> QED BY <1>1 DEF Seens

LEMMA LifecycleNext ==
    ASSUME TypeOK, TypeOK', NumberingInv, TimelineInv, EditAllowed,
           ReadsAreCurrent, SeenPriced, SeenPriced', [Next]_vars
    PROVE  [Lifecycle!Next]_Seens
<1>1. ASSUME NEW r \in Request, CommitCreate(r)
      PROVE  Lifecycle!Next
  <2>1. r \in Invoice /\ ~Exists(r)
    BY <1>1, CommittedIsNext DEF Invoice
  <2>2. Seens[r] = NoRow
    BY <2>1 DEF Seens, Seen
  <2>3. header'[r].status = input[r].status
        /\ input[r].status \in {"DRAFT", "SENT"}
    BY <1>1, CommitOfNew DEF CreateBody
  <2>4. Exists(r)'
    BY <2>3 DEF Exists, NoRow
  <2>5. /\ Seens'[r] # NoRow /\ Seens'[r].status \in {"DRAFT", "SENT"}
        /\ Lifecycle!Priced(Seens'[r])
    BY <2>1, <2>3, <2>4 DEF SeenPriced, Lifecycle!Priced, Lifecycle!Tax
  <2>6. Seens' = [Seens EXCEPT ![r] = Seens'[r]]
    BY <1>1, <2>1, OneSeen, CommitOfNew
  <2>7. Lifecycle!Create(r)
    BY <2>2, <2>5, <2>6 DEF Lifecycle!Create, Lifecycle!Only, Seens
  <2> QED BY <2>1, <2>7 DEF Lifecycle!Next
<1>2. ASSUME NEW r \in Request, CommitUpdate(r)
      PROVE  Lifecycle!Next
  <2>1. PICK i : i = input[r].invoice
    OBVIOUS
  <2>2. /\ i \in Invoice /\ Exists(i)
        /\ \A j \in Invoice \ {i} : header'[j] = header[j] /\ items'[j] = items[j]
        /\ header'[i].status = header[i].status
        /\ header'[i].number = header[i].number
    BY <1>2, <2>1, CommitOfOne
  <2>3. header[i].status = "DRAFT"
    BY <1>2, <2>1, EditsDraft
  <2>4. Exists(i)'
    BY <2>2, <2>3 DEF Exists, NoRow
  <2>5. /\ Seens[i] # NoRow /\ Seens[i].status = "DRAFT"
        /\ Seens[i].number = header[i].number
    BY <2>2, <2>3 DEF SeenPriced
  <2>6. /\ Seens'[i] # NoRow /\ Seens'[i].status = "DRAFT"
        /\ Seens'[i].number = Seens[i].number
        /\ Lifecycle!Priced(Seens'[i])
    BY <2>2, <2>3, <2>4, <2>5 DEF SeenPriced, Lifecycle!Priced, Lifecycle!Tax
  <2>7. Seens' = [Seens EXCEPT ![i] = Seens'[i]]
    BY <2>2, OneSeen
  <2>8. Lifecycle!Edit(i)
    BY <2>5, <2>6, <2>7 DEF Lifecycle!Edit, Lifecycle!Only, Seens
  <2> QED BY <2>2, <2>8 DEF Lifecycle!Next
<1>3. ASSUME NEW r \in Request, CommitStatus(r)
      PROVE  Lifecycle!Next
  <2>1. PICK i, t : i = input[r].invoice /\ t = input[r].status
    OBVIOUS
  <2>2. /\ i \in Invoice /\ Exists(i) /\ header[i] \in Row
        /\ \A j \in Invoice \ {i} : header'[j] = header[j] /\ items'[j] = items[j]
        /\ header'[i].status = t
        /\ header'[i].number = header[i].number
        /\ header'[i].money = header[i].money
        /\ header'[i].customer = header[i].customer
        /\ items'[i] = items[i]
    BY <1>3, <2>1, CommitOfOne
  <2>3. existing[r].status = header[i].status /\ header[i].status \in Status
    BY <1>3, <2>1, <2>2 DEF ReadsAreCurrent, CommitStatus, AfterRead, InTx,
       IsCreate, IsStatus, Row
  <2>4. t \in TRANSITIONS[header[i].status]
    BY <1>3, <2>1, <2>3 DEF CommitStatus, TimelineInv, ChangeAllowed, InTx,
       MayChange
  <2>5. t \in Status
    BY <2>3, <2>4, RankUp
  <2>6. Exists(i)'
    BY <2>2, <2>5 DEF Exists, NoRow, Status
  <2>7. Seens'[i] = [Seens[i] EXCEPT !.status = t]
    <3>1. Seens'[i] =
            [status |-> header'[i].status, number |-> header'[i].number,
             customer |-> header'[i].customer, money |-> header'[i].money,
             amount |-> Sum(items'[i])]
      BY <2>2, <2>6 DEF Seens, Seen, Sum
    <3>2. Seens[i] =
            [status |-> header[i].status, number |-> header[i].number,
             customer |-> header[i].customer, money |-> header[i].money,
             amount |-> Sum(items[i])]
      BY <2>2 DEF Seens, Seen
    <3> QED BY <2>2, <3>1, <3>2
  <2>8. Seens[i] # NoRow /\ Seens[i].status = header[i].status
    BY <2>2 DEF SeenPriced
  <2>9. Seens' = [Seens EXCEPT ![i].status = t]
    <3>1. Seens' = [Seens EXCEPT ![i] = Seens'[i]]
      BY <2>2, OneSeen
    <3> QED BY <2>7, <3>1
  <2>10. t \in Lifecycle!Moves[header[i].status]
    BY <2>3, <2>4 DEF Lifecycle!Moves, TRANSITIONS, Status
  <2>11. Lifecycle!ChangeStatus(i)
    BY <2>8, <2>9, <2>10 DEF Lifecycle!ChangeStatus, Seens
  <2> QED BY <2>2, <2>11 DEF Lifecycle!Next
<1>4. CASE UNCHANGED tables
  BY <1>4 DEF tables, Seens, Seen, Exists, Sum
<1> QED BY <1>1, <1>2, <1>3, <1>4, OnlyCommitsWrite

\* One request at a time, what a client sees moves as InvoiceLifecycle says.
THEOREM ImplementsLifecycle == SerialSpec => LifecycleSpec
<1>1. SerialTypes /\ SerialInv => SeenPriced /\ SerialInv /\ SerialTypes
  BY SeenIsPriced, MoneyOfItems DEF SerialTypes, SerialInv
<1>2. SeenPriced => Lifecycle!Init
  BY DEF SeenPriced, Lifecycle!Init, Seens, Seen
<1>3. /\ SerialTypes /\ SerialTypes' /\ SerialInv /\ SeenPriced /\ SeenPriced'
      /\ [Next /\ OneAtATime]_vars
      => [Lifecycle!Next]_Seens
  BY LifecycleNext DEF SerialTypes, SerialInv
<1> QED
  BY <1>1, <1>2, <1>3, SerialCorrect, SerialKeepsTypes, PTL
  DEF SerialSpec, LifecycleSpec, Lifecycle!Spec, Seens
=============================================================================
