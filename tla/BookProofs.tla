----------------------------- MODULE BookProofs -----------------------------
(***************************************************************************)
(* The status log explains every status, status and log move together, and *)
(* so Invoices implements InvoiceBook: however its requests overlap and    *)
(* fail, every commit is one step of the book.                             *)
(***************************************************************************)
EXTENDS InvoicesProofs

-----------------------------------------------------------------------------
(* The timeline *)

LEMMA TimelineInit == Init => TimelineInv
<1> SUFFICES ASSUME Init PROVE TimelineInv
  OBVIOUS
<1>1. PICK book \in SeedBook :
        /\ header = [i \in Invoice |->
                        IF i \in Seed THEN SeededRow(book[i]) ELSE NoRow]
        /\ log = {[invoice |-> s, from |-> None, to |-> book[s].status,
                   by |-> s] : s \in Seed}
  BY DEF Init
<1>2. TimelineRooted /\ RowsOfCommitted
  BY <1>1, SeedNotRequest DEF TimelineRooted, RowsOfCommitted
<1>3. ASSUME NEW i \in Invoice, Exists(i)
      PROVE  \E e \in log : e.invoice = i /\ e.to = header[i].status
  <2>1. i \in Seed /\ header[i].status = book[i].status
    BY <1>1, <1>3 DEF Exists, SeededRow
  <2> DEFINE e == [invoice |-> i, from |-> None, to |-> book[i].status, by |-> i]
  <2>2. e \in log
    BY <1>1, <2>1
  <2> QED BY <2>1, <2>2
<1>4. \A r \in Request : pc[r] = "idle"
  BY DEF Init
<1> QED BY <1>2, <1>3, <1>4 DEF TimelineInv, StatusLogged, ChangeAllowed,
           AfterRead, InTx

\* A request that only moves on, having read nothing new, keeps the
\* invariant as long as it does not overstep the check of changeStatus.
LEMMA QuietTimeline ==
    ASSUME TypeOK, TimelineInv, UNCHANGED <<header, log>>,
           \A q \in Request : pc[q] = "done" =>
               pc'[q] = "done" /\ input'[q] = input[q],
           \A q \in Request : AfterRead(q)' =>
               /\ AfterRead(q)
               /\ input'[q] = input[q]
               /\ existing'[q].status = existing[q].status,
           \A q \in Request : pc'[q] \in {"begin"} \cup InTx /\ IsStatus(q)' =>
               /\ pc[q] \in {"begin"} \cup InTx
               /\ input'[q] = input[q]
               /\ existing'[q].status = existing[q].status
    PROVE  TimelineInv'
<1>1. TimelineRooted'
  <2>1. ASSUME NEW e \in log, e.from # None PROVE input'[e.by] = input[e.by]
    BY <2>1 DEF TimelineInv, TimelineRooted, RowsOfCommitted
  <2> QED BY <2>1 DEF TimelineInv, TimelineRooted
<1>2. RowsOfCommitted'
  BY DEF TimelineInv, RowsOfCommitted
<1>3. StatusLogged'
  BY DEF TimelineInv, StatusLogged, Exists
<1>4. ChangeAllowed'
  BY DEF TimelineInv, ChangeAllowed, IsStatus, MayChange
<1> QED BY <1>1, <1>2, <1>3, <1>4 DEF TimelineInv

\* The row a committing request adds is new and leads from a logged status
\* to the status its invoice gets.
LEMMA CommitsLog ==
    ASSUME TypeOK, TimelineInv, NEW r \in Request,
           CommitCreate(r) \/ CommitStatus(r)
    PROVE  \E e \in LogRow :
             /\ log' = log \cup {e} /\ e \notin log /\ e.by = r
             /\ Exists(e.invoice)' /\ header'[e.invoice].status = e.to
             /\ \A i \in Invoice \ {e.invoice} : header'[i] = header[i]
             /\ IF e.from = None
                THEN e.invoice = r
                ELSE /\ e.to \in TRANSITIONS[e.from]
                     /\ e.to = "CANCELLED" => input[r].role = "ADMIN"
                     /\ \E d \in log : d.invoice = e.invoice /\ d.to = e.from
<1>1. \A e \in log : e.by # r
  BY DEF CommitCreate, CommitStatus, TimelineInv, RowsOfCommitted
<1>2. CASE CommitCreate(r)
  <2> DEFINE e == [invoice |-> r, from |-> None, to |-> input[r].status,
                   by |-> r]
  <2>1. input[r].status \in {"DRAFT", "SENT"}
    BY <1>2, BodyTypes DEF CommitCreate, CreateBody
  <2>2. e \in LogRow /\ e \notin log /\ log' = log \cup {e}
    BY <1>1, <1>2, <2>1 DEF CommitCreate, LogRow, Writer, Invoice, Status
  <2>3. header'[r].status = input[r].status
    BY <1>2 DEF CommitCreate, TypeOK, TablesType, Invoice
  <2>4. Exists(r)' /\ \A i \in Invoice \ {r} : header'[i] = header[i]
    BY <1>2, <2>1, <2>3 DEF CommitCreate, TypeOK, TablesType, Exists, NoRow
  <2> QED BY <2>2, <2>3, <2>4
<1>3. CASE CommitStatus(r)
  <2>0. PICK i, e : /\ i = input[r].invoice
                    /\ e = [invoice |-> i, from |-> existing[r].status,
                            to |-> input[r].status, by |-> r]
    OBVIOUS
  <2>1. /\ i \in Invoice /\ input[r].status \in {"SENT", "PAID", "CANCELLED"}
        /\ AfterRead(r) /\ ~IsCreate(r)
    BY <1>3, <2>0, BodyTypes DEF CommitStatus, StatusBody, AfterRead, InTx,
       IsStatus, IsCreate
  <2>2. Exists(i) /\ existing[r] \in ReadResult
    BY <2>0, <2>1 DEF TypeOK, StageAfterRead, LocalsType
  <2>3. header[i] \in Row
    BY <2>1, <2>2 DEF TypeOK, TablesType, Exists
  <2>4. e \in LogRow /\ e \notin log /\ log' = log \cup {e}
    BY <1>1, <1>3, <2>0, <2>1, <2>2 DEF CommitStatus, LogRow, Writer, Invoice,
       Status, ReadResult
  <2>5. header'[i].status = input[r].status
    BY <1>3, <2>0, <2>1, <2>3 DEF CommitStatus, TypeOK, TablesType, Row
  <2>6. Exists(i)' /\ \A j \in Invoice \ {i} : header'[j] = header[j]
    <3>1. Exists(i)'
      BY <2>1, <2>5 DEF Exists, NoRow
    <3>2. ASSUME NEW j \in Invoice \ {i} PROVE header'[j] = header[j]
      BY <1>3, <2>0, <2>1 DEF CommitStatus, TypeOK, TablesType
    <3> QED BY <3>1, <3>2
  <2>7. MayChange(r, existing[r].status)
    BY <1>3 DEF CommitStatus, TimelineInv, ChangeAllowed, InTx
  <2>8. \E d \in log : d.invoice = i /\ d.to = existing[r].status
    BY <2>0, <2>1 DEF TimelineInv, StatusLogged
  <2>9. existing[r].status # None
    BY <2>2, NoneIsNoStatus DEF ReadResult
  <2>10. /\ e.invoice = i /\ e.from = existing[r].status
         /\ e.to = input[r].status /\ e.by = r
    BY <2>0
  <2> QED BY <2>4, <2>5, <2>6, <2>7, <2>8, <2>9, <2>10 DEF MayChange
<1> QED BY <1>2, <1>3

LEMMA CommitTimeline ==
    ASSUME TypeOK, TimelineInv, NEW r \in Request,
           CommitCreate(r) \/ CommitStatus(r)
    PROVE  TimelineInv'
<1>1. PICK e \in LogRow :
             /\ log' = log \cup {e} /\ e \notin log /\ e.by = r
             /\ Exists(e.invoice)' /\ header'[e.invoice].status = e.to
             /\ \A i \in Invoice \ {e.invoice} : header'[i] = header[i]
             /\ IF e.from = None
                THEN e.invoice = r
                ELSE /\ e.to \in TRANSITIONS[e.from]
                     /\ e.to = "CANCELLED" => input[r].role = "ADMIN"
                     /\ \E d \in log : d.invoice = e.invoice /\ d.to = e.from
  BY CommitsLog
<1>2. /\ pc' = [pc EXCEPT ![r] = "done"] /\ UNCHANGED <<input, existing>>
      /\ pc[r] = "commit"
  BY DEF CommitCreate, CommitStatus, Goto, locals
<1>3. TimelineRooted'
  <2>1. SUFFICES ASSUME NEW d \in log \cup {e}
                 PROVE  IF d.from = None
                        THEN d.by = d.invoice
                        ELSE /\ d.by \in Request
                             /\ d.to \in TRANSITIONS[d.from]
                             /\ d.to = "CANCELLED" => input[d.by].role = "ADMIN"
                             /\ \E c \in log \cup {e} :
                                   c.invoice = d.invoice /\ c.to = d.from
    BY <1>1, <1>2 DEF TimelineRooted
  <2>2. CASE d \in log
    BY <2>2 DEF TimelineInv, TimelineRooted
  <2>3. CASE d = e
    BY <1>1, <2>3
  <2> QED BY <2>1, <2>2, <2>3
<1>4. RowsOfCommitted'
  BY <1>1, <1>2 DEF TimelineInv, RowsOfCommitted, TypeOK, LocalsType
<1>5. StatusLogged'
  <2>1. ASSUME NEW i \in Invoice, Exists(i)'
        PROVE  \E d \in log' : d.invoice = i /\ d.to = header'[i].status
    <3>1. CASE i = e.invoice
      BY <1>1, <3>1
    <3>2. CASE i # e.invoice
      BY <1>1, <2>1, <3>2 DEF TimelineInv, StatusLogged, Exists
    <3> QED BY <3>1, <3>2
  <2>2. ASSUME NEW q \in Request, AfterRead(q)'
        PROVE  \E d \in log' : /\ d.invoice = input'[q].invoice
                               /\ d.to = existing'[q].status
    <3>1. AfterRead(q)
      BY <1>2, <2>2 DEF AfterRead, InTx, IsCreate, IsUpdate, TypeOK, LocalsType
    <3> QED BY <1>1, <1>2, <3>1 DEF TimelineInv, StatusLogged
  <2> QED BY <2>1, <2>2 DEF StatusLogged
<1>6. ChangeAllowed'
  BY <1>2 DEF TimelineInv, ChangeAllowed, IsStatus, MayChange, InTx, TypeOK,
     LocalsType
<1> QED BY <1>3, <1>4, <1>5, <1>6 DEF TimelineInv

\* An edit leaves every status alone.
LEMMA EditKeepsStatus ==
    ASSUME TypeOK, NEW r \in Request, CommitUpdate(r)
    PROVE  \A i \in Invoice : /\ header'[i].status = header[i].status
                              /\ Exists(i)' => Exists(i)
<1>1. PICK i : i = input[r].invoice
  OBVIOUS
<1>2. i \in Invoice /\ Exists(i)
  BY <1>1, BodyTypes DEF CommitUpdate, IsCreate, IsUpdate, TypeOK,
     StageAfterRead, AfterRead, InTx, UpdateBody
<1>3. header[i] \in Row
  BY <1>2 DEF TypeOK, TablesType, Exists
<1>4. header'[i].status = header[i].status
  BY <1>1, <1>2, <1>3 DEF CommitUpdate, TypeOK, TablesType, Row
<1>5. ASSUME NEW j \in Invoice \ {i} PROVE header'[j] = header[j]
  BY <1>1, <1>2 DEF CommitUpdate, TypeOK, TablesType
<1> QED BY <1>2, <1>4, <1>5 DEF Exists

LEMMA TimelineNext == TypeOK /\ TimelineInv /\ [Next]_vars => TimelineInv'
<1> SUFFICES ASSUME TypeOK, TimelineInv, [Next]_vars PROVE TimelineInv'
  OBVIOUS
<1> USE DEF Goto, locals, tables
<1>1. ASSUME NEW r \in Request, CommitCreate(r) \/ CommitStatus(r)
      PROVE  TimelineInv'
  BY <1>1, CommitTimeline
<1>2. ASSUME NEW r \in Request, Arrive(r) PROVE TimelineInv'
  <2>1. /\ pc[r] = "idle" /\ pc'[r] \in {"customer", "header"}
        /\ \A q \in Request \ {r} : pc'[q] = pc[q] /\ input'[q] = input[q]
        /\ UNCHANGED <<header, log, existing>>
    BY <1>2 DEF Arrive, TypeOK, LocalsType
  <2>2. ~AfterRead(r)'
    <3>1. PICK body \in Inputs : /\ input'[r] = body
                                /\ pc'[r] = IF body.op = "create"
                                            THEN "customer" ELSE "header"
      BY <1>2 DEF Arrive, TypeOK, LocalsType
    <3> QED BY <3>1 DEF AfterRead, IsUpdate, InTx
  <2> QED
    BY <2>1, <2>2, QuietTimeline DEF AfterRead, IsCreate, IsUpdate, IsStatus,
       InTx
<1>3. ASSUME NEW r \in Request, ReadHeader(r) PROVE TimelineInv'
  <2>0. PICK i : i = input[r].invoice
    OBVIOUS
  <2>1. /\ pc[r] = "header" /\ UNCHANGED <<header, log, input>>
        /\ pc' = [pc EXCEPT ![r] = pc'[r]]
        /\ i \in Invoice /\ ~IsCreate(r)
    BY <1>3, <2>0, BodyTypes DEF ReadHeader, TypeOK, LocalsType, StageOfOp,
       UpdateBody, StatusBody
  <2>2. CASE pc'[r] = "rejected"
    <3>1. \A q \in Request : AfterRead(q)' => q # r /\ AfterRead(q)
      BY <2>1, <2>2 DEF AfterRead, IsCreate, IsUpdate, TypeOK, LocalsType, InTx
    <3>2. \A q \in Request \ {r} : existing'[q] = existing[q]
      BY <1>3 DEF ReadHeader, TypeOK, LocalsType
    <3> QED
      BY <2>1, <2>2, <3>1, <3>2, QuietTimeline DEF TypeOK, LocalsType, IsStatus,
         InTx
  <2>3. CASE pc'[r] # "rejected"
    <3>1. /\ Exists(i) /\ pc'[r] \in {"items", "begin"}
          /\ existing' = [existing EXCEPT ![r] = existing'[r]]
          /\ existing'[r].status = header[i].status
          /\ IsStatus(r) => MayChange(r, header[i].status)
      BY <1>3, <2>0, <2>1, <2>3 DEF ReadHeader, IsUpdate, IsStatus, TypeOK,
         LocalsType
    <3>2. \A q \in Request \ {r} :
              pc'[q] = pc[q] /\ existing'[q] = existing[q]
      BY <2>1, <3>1 DEF TypeOK, LocalsType
    <3>3. TimelineRooted' /\ RowsOfCommitted'
      BY <2>1, <3>1, <3>2 DEF TimelineInv, TimelineRooted, RowsOfCommitted,
         TypeOK, LocalsType
    <3>4. StatusLogged'
      <4>1. \E e \in log : e.invoice = i /\ e.to = existing'[r].status
        BY <2>1, <3>1 DEF TimelineInv, StatusLogged
      <4>2. \A q \in Request \ {r} : AfterRead(q)' => AfterRead(q)
        BY <2>1, <3>2 DEF AfterRead, IsCreate, IsUpdate
      <4>3. ASSUME NEW q \in Request, AfterRead(q)'
            PROVE  \E e \in log : /\ e.invoice = input[q].invoice
                                  /\ e.to = existing'[q].status
        <5>1. CASE q = r
          BY <2>0, <4>1, <5>1
        <5>2. CASE q # r
          BY <3>2, <4>2, <4>3, <5>2 DEF TimelineInv, StatusLogged
        <5> QED BY <5>1, <5>2
      <4> QED BY <2>1, <4>3 DEF TimelineInv, StatusLogged, Exists
    <3>5. ChangeAllowed'
      BY <2>0, <2>1, <3>1, <3>2 DEF TimelineInv, ChangeAllowed, IsStatus,
         MayChange
    <3> QED BY <3>3, <3>4, <3>5 DEF TimelineInv
  <2> QED BY <2>2, <2>3
<1>4. ASSUME NEW r \in Request, CommitUpdate(r) PROVE TimelineInv'
  <2>1. /\ pc[r] = "commit" /\ pc' = [pc EXCEPT ![r] = "done"]
        /\ UNCHANGED <<log, input, existing>>
    BY <1>4 DEF CommitUpdate
  <2>2. \A i \in Invoice : /\ header'[i].status = header[i].status
                           /\ Exists(i)' => Exists(i)
    BY <1>4, EditKeepsStatus
  <2>3. TimelineRooted' /\ RowsOfCommitted' /\ ChangeAllowed'
    BY <2>1 DEF TimelineInv, TimelineRooted, RowsOfCommitted, ChangeAllowed,
       TypeOK, LocalsType, InTx, IsStatus, MayChange
  <2>4. \A q \in Request : AfterRead(q)' => AfterRead(q)
    BY <2>1 DEF AfterRead, IsCreate, IsUpdate, TypeOK, LocalsType, InTx
  <2>5. StatusLogged'
    BY <2>1, <2>2, <2>4 DEF TimelineInv, StatusLogged
  <2> QED BY <2>3, <2>5 DEF TimelineInv
<1>5. ASSUME NEW r \in Request,
             \/ assertCustomer(r) \/ ReadItems(r) \/ nextInvoiceNumber(r)
             \/ InsertInvoice(r) \/ NumberTaken(r) \/ StartDelete(r)
             \/ FinishDelete(r) \/ InsertLog(r) \/ WriteHeader(r) \/ Fail(r)
      PROVE  TimelineInv'
  <2>1. ASSUME ~Fail(r)
        PROVE
        /\ UNCHANGED <<header, log, input>>
        /\ pc' = [pc EXCEPT ![r] = pc'[r]]
        /\ pc[r] \notin {"idle", "done", "header"}
        /\ pc'[r] \in {"begin"} \cup InTx =>
              pc[r] \in {"customer", "items", "begin"} \cup InTx
        /\ pc'[r] = "customer" => pc[r] = "items"
        /\ pc'[r] # "items"
    <3>1. CASE assertCustomer(r) \/ ReadItems(r)
      BY <3>1 DEF assertCustomer, ReadItems, InTx, TypeOK, LocalsType
    <3>2. CASE nextInvoiceNumber(r) \/ InsertInvoice(r) \/ NumberTaken(r)
      BY <3>2 DEF nextInvoiceNumber, InsertInvoice, NumberTaken, InTx, TypeOK,
         LocalsType
    <3>3. CASE StartDelete(r) \/ FinishDelete(r) \/ InsertLog(r) \/ WriteHeader(r)
      BY <3>3 DEF StartDelete, FinishDelete, InsertLog, WriteHeader, InTx,
         TypeOK, LocalsType
    <3> QED BY <1>5, <2>1, <3>1, <3>2, <3>3
  <2>2. CASE Fail(r)
    <3>1. /\ UNCHANGED <<header, log, input, existing>>
          /\ pc[r] \notin {"idle", "done"} /\ pc' = [pc EXCEPT ![r] = "failed"]
      BY <2>2 DEF Fail, Final
    <3>2. \A q \in Request : AfterRead(q)' => AfterRead(q)
      BY <3>1 DEF AfterRead, IsCreate, IsUpdate, InTx, TypeOK, LocalsType
    <3> QED
      BY <3>1, <3>2, QuietTimeline DEF IsStatus, InTx, TypeOK, LocalsType
  <2>3. CASE ~Fail(r)
    <3>1. \A q \in Request : existing'[q].status = existing[q].status
      <4>1. CASE ReadItems(r)
        <5>1. existing[r] \in ReadResult
          BY <4>1 DEF ReadItems, TypeOK, LocalsType, StageOfOp, StageAfterRead,
             AfterRead, IsCreate, IsUpdate
        <5> QED BY <4>1, <5>1 DEF ReadItems, ReadResult, TypeOK, LocalsType
      <4>2. CASE ~ReadItems(r)
        BY <1>5, <2>3, <4>2 DEF assertCustomer, nextInvoiceNumber,
           InsertInvoice, NumberTaken, StartDelete, FinishDelete, InsertLog,
           WriteHeader
      <4> QED BY <4>1, <4>2
    <3>2. \A q \in Request : AfterRead(q)' => AfterRead(q)
      <4>1. \A q \in Request \ {r} : AfterRead(q)' => AfterRead(q)
        BY <2>1, <2>3 DEF AfterRead, IsCreate, IsUpdate, TypeOK, LocalsType
      <4>2. IsCreate(r) \/ IsUpdate(r) \/ IsStatus(r)
        BY <2>1, <2>3, BodyTypes
      <4>3. AfterRead(r)' => AfterRead(r)
        BY <2>1, <2>3, <4>2 DEF AfterRead, IsCreate, IsUpdate, IsStatus, InTx,
           TypeOK, LocalsType, StageOfOp
      <4> QED BY <4>1, <4>3
    <3>3. \A q \in Request : pc'[q] \in {"begin"} \cup InTx /\ IsStatus(q)' =>
              pc[q] \in {"begin"} \cup InTx
      BY <2>1, <2>3 DEF IsStatus, IsUpdate, IsCreate, TypeOK, LocalsType,
         StageOfOp
    <3>4. \A q \in Request : pc[q] = "done" => pc'[q] = "done"
      BY <2>1, <2>3 DEF TypeOK, LocalsType
    <3> QED BY <2>1, <2>3, <3>1, <3>2, <3>3, <3>4, QuietTimeline
  <2> QED BY <2>2, <2>3
<1>6. ASSUME UNCHANGED <<tables, pc, locals>> PROVE TimelineInv'
  BY <1>6, QuietTimeline DEF AfterRead, IsCreate, IsUpdate, IsStatus
<1> QED
  BY <1>1, <1>2, <1>3, <1>4, <1>5, <1>6 DEF Next, Step, Terminated, vars,
     RemoveCustomer

\* Whatever a step adds to the log, and nothing else, is what it does to the
\* status.
LEMMA StatusLogStep ==
    ASSUME TypeOK, TimelineInv, [Next]_vars
    PROVE  /\ log \subseteq log'
           /\ \A i \in Invoice : header'[i].status # header[i].status =>
                 \E e \in log' \ log : e.invoice = i /\ e.to = header'[i].status
           /\ \A e \in log' \ log : header'[e.invoice].status = e.to
<1>1. ASSUME NEW r \in Request, CommitCreate(r) \/ CommitStatus(r)
      PROVE  /\ log \subseteq log'
             /\ \A i \in Invoice : header'[i].status # header[i].status =>
                   \E e \in log' \ log : e.invoice = i /\ e.to = header'[i].status
             /\ \A e \in log' \ log : header'[e.invoice].status = e.to
  <2>1. PICK e \in LogRow :
             /\ log' = log \cup {e} /\ e \notin log
             /\ header'[e.invoice].status = e.to
             /\ \A i \in Invoice \ {e.invoice} : header'[i] = header[i]
    BY <1>1, CommitsLog
  <2> QED BY <2>1
<1>2. ASSUME NEW r \in Request, CommitUpdate(r)
      PROVE  log' = log /\ \A i \in Invoice : header'[i].status = header[i].status
  <2>1. \A i \in Invoice : header'[i].status = header[i].status
    BY <1>2, EditKeepsStatus
  <2>2. log' = log
    BY <1>2 DEF CommitUpdate
  <2> QED BY <2>1, <2>2
<1>3. CASE UNCHANGED <<header, log>>
  BY <1>3
<1>4. \/ \E r \in Request : CommitCreate(r) \/ CommitStatus(r) \/ CommitUpdate(r)
      \/ UNCHANGED <<header, log>>
  BY DEF Next, Step, Terminated, vars, RemoveCustomer, Arrive, assertCustomer,
     ReadHeader, ReadItems, nextInvoiceNumber, InsertInvoice, NumberTaken,
     StartDelete, FinishDelete, InsertLog, WriteHeader, Fail, tables
<1> QED BY <1>1, <1>2, <1>3, <1>4

\* The inductive invariant of the timeline.
THEOREM TimelineCorrect == Spec => []TimelineInv
<1>1. Init => TimelineInv
  BY TimelineInit
<1>2. TypeOK /\ TimelineInv /\ [Next]_vars => TimelineInv'
  BY TimelineNext
<1> QED BY <1>1, <1>2, TypeCorrect, PTL DEF Spec

\* Every log row is a creation, or follows TRANSITIONS from a logged status,
\* with an ADMIN behind every cancellation.
THEOREM TimelineAlwaysRooted == Spec => []TimelineRooted
<1>1. TimelineInv => TimelineRooted
  BY DEF TimelineInv
<1> QED BY <1>1, TimelineCorrect, PTL

\* No failure separates a status from its log row.
THEOREM StatusAndLogTogether == Spec => StatusMovesWithLog
<1>1. TypeOK /\ TimelineInv /\ [Next]_vars =>
        [/\ log \subseteq log'
         /\ \A i \in Invoice : header'[i].status # header[i].status =>
               \E e \in log' \ log : e.invoice = i /\ e.to = header'[i].status
         /\ \A e \in log' \ log : header'[e.invoice].status = e.to]_vars
  BY StatusLogStep
<1> QED BY <1>1, TypeCorrect, TimelineCorrect, PTL DEF Spec, StatusMovesWithLog

-----------------------------------------------------------------------------
(* The book *)

Rows == [i \in Invoice |-> Shown(i)]
Been == [i \in Invoice |-> StatusesOf(i)]

-----------------------------------------------------------------------------
(* An edit under way read a DRAFT *)

PastCheck(r) == IsUpdate(r) /\ pc[r] \in {"customer", "begin"} \cup InTx

EditAllowed == \A r \in Request : PastCheck(r) => existing[r].status = "DRAFT"

LEMMA EditAllowedStep ==
    ASSUME TypeOK, EditAllowed, [Next]_vars
    PROVE  EditAllowed'
<1> SUFFICES ASSUME NEW r \in Request, input'[r].op = "update",
                    pc'[r] \in {"customer", "begin"} \cup InTx
             PROVE  existing'[r].status = "DRAFT"
  BY DEF EditAllowed, PastCheck, IsUpdate
<1>1. CASE Arrive(r)
  BY <1>1 DEF Arrive, Goto, InTx, TypeOK, LocalsType
<1>2. CASE ReadHeader(r)
  BY <1>2 DEF ReadHeader, Goto, InTx, IsUpdate, TypeOK, LocalsType
<1>3. CASE ReadItems(r)
  <2>1. existing[r].status = "DRAFT"
    BY <1>3 DEF ReadItems, MayEdit, Goto, InTx, TypeOK, LocalsType
  <2>2. existing[r] \in ReadResult
    BY <1>3 DEF ReadItems, TypeOK, LocalsType, StageOfOp, StageAfterRead,
       AfterRead, IsCreate, IsUpdate
  <2> QED BY <1>3, <2>1, <2>2 DEF ReadItems, ReadResult, TypeOK, LocalsType
<1>4. CASE Fail(r)
  BY <1>4 DEF Fail, Goto, InTx, TypeOK, LocalsType
<1>5. CASE Step(r) /\ ~ReadHeader(r) /\ ~ReadItems(r)
  <2>1. /\ existing' = existing /\ input' = input
        /\ pc[r] \in {"customer", "begin"} \cup InTx
    BY <1>5 DEF Step, assertCustomer, nextInvoiceNumber, InsertInvoice,
       NumberTaken, CommitCreate, StartDelete, FinishDelete, InsertLog,
       WriteHeader, CommitUpdate, CommitStatus, InTx, locals
  <2> QED BY <2>1 DEF EditAllowed, PastCheck, IsUpdate
<1>6. CASE /\ pc'[r] = pc[r] /\ input'[r] = input[r]
           /\ existing'[r] = existing[r]
  BY <1>6 DEF EditAllowed, PastCheck, IsUpdate
<1> QED BY <1>1, <1>2, <1>3, <1>4, <1>5, <1>6, OwnStep

-----------------------------------------------------------------------------
(* The two tables as the book *)

\* What a reader is shown has the book's type.
LEMMA ShownType ==
    ASSUME NEW i \in Invoice, header[i] \in Row
    PROVE  /\ Shown(i) = [status |-> header[i].status,
                          value |-> header[i].money]
           /\ Shown(i) \in Book!Rows
           /\ Shown(i) # NoRow
<1>1. Exists(i)
  BY DEF Row, Exists, NoRow, Status
<1>2. DOMAIN Book!Moves = Status
  BY DEF Book!Moves, Status
<1>3. header[i].status \in Status /\ header[i].money \in Money
  BY DEF Row
<1>4. Shown(i) = [status |-> header[i].status, value |-> header[i].money]
  BY <1>1 DEF Shown
<1>5. Shown(i) # NoRow
  BY <1>3, <1>4 DEF NoRow, Status
<1> QED BY <1>2, <1>3, <1>4, <1>5 DEF Book!Rows

\* A step that writes one header row changes one row of the book.
LEMMA OneRow ==
    ASSUME NEW i \in Invoice, header'[i] \in Row,
           \A j \in Invoice \ {i} : header'[j] = header[j]
    PROVE  /\ Rows' = [Rows EXCEPT ![i] = Rows'[i]]
           /\ Rows'[i].status = header'[i].status
           /\ Rows'[i].value = header'[i].money
           /\ Rows'[i] \in Book!Rows
<1>1. \A j \in Invoice \ {i} : Shown(j)' = Shown(j)
  BY DEF Shown, Exists
<1>2. Rows' = [Rows EXCEPT ![i] = Rows'[i]]
  BY <1>1 DEF Rows
<1>3. header'[i] # NoRow /\ header'[i].status \in Status
      /\ header'[i].money \in Money
  BY DEF Row, NoRow, Status
<1>4. Rows'[i] = [status |-> header'[i].status, value |-> header'[i].money]
  BY <1>3 DEF Rows, Shown, Exists
<1>5. DOMAIN Book!Moves = Status
  BY DEF Book!Moves, Status
<1> QED BY <1>2, <1>3, <1>4, <1>5 DEF Book!Rows

\* A new log row is one more status its invoice has been in.
LEMMA OneStatus ==
    ASSUME NEW i \in Invoice, NEW from, NEW to, NEW by,
           log' = log \cup {[invoice |-> i, from |-> from, to |-> to, by |-> by]}
    PROVE  Been' = [Been EXCEPT ![i] = @ \cup {to}]
<1>1. PICK e : /\ e = [invoice |-> i, from |-> from, to |-> to, by |-> by]
               /\ log' = log \cup {e}
  OBVIOUS
<1>2. e.invoice = i /\ e.to = to
  BY <1>1
<1>3. StatusesOf(i)' = StatusesOf(i) \cup {to}
  BY <1>1, <1>2 DEF StatusesOf
<1>4. \A j \in Invoice \ {i} : StatusesOf(j)' = StatusesOf(j)
  BY <1>1, <1>2 DEF StatusesOf
<1> QED BY <1>3, <1>4 DEF Been

LEMMA BookInit == Init => Book!Init
<1> SUFFICES ASSUME Init PROVE Book!Init
  OBVIOUS
<1>1. TypeOK
  BY InitType
<1>2. PICK book \in SeedBook :
        /\ header = [i \in Invoice |->
                        IF i \in Seed THEN SeededRow(book[i]) ELSE NoRow]
        /\ log = {[invoice |-> s, from |-> None, to |-> book[s].status,
                   by |-> s] : s \in Seed}
  BY DEF Init
<1>3. \A i \in Invoice : Rows[i] \in Book!Rows \cup {NoRow}
  BY <1>1, ShownType DEF Rows, Shown, Exists, TypeOK, TablesType
<1>4. ASSUME NEW i \in Invoice
      PROVE  Been[i] = IF Rows[i] = NoRow THEN {} ELSE {Rows[i].status}
  <2>1. CASE i \in Seed
    <3>1. header[i] \in Row /\ header[i].status = book[i].status
      BY <1>1, <1>2, <2>1 DEF TypeOK, TablesType, Exists, SeededRow
    <3>2. Rows[i] # NoRow /\ Rows[i].status = book[i].status
      BY <3>1, ShownType DEF Rows
    <3>3. StatusesOf(i) = {book[i].status}
      <4>1. \A d \in log : d.invoice = i => d.to = book[i].status
        BY <1>2
      <4>2. PICK e \in log : e = [invoice |-> i, from |-> None,
                                 to |-> book[i].status, by |-> i]
        BY <1>2, <2>1
      <4>3. e.invoice = i /\ e.to = book[i].status
        BY <4>2
      <4> QED BY <4>1, <4>3 DEF StatusesOf
    <3> QED BY <3>2, <3>3 DEF Been
  <2>2. CASE i \notin Seed
    <3>1. Rows[i] = NoRow
      BY <1>2, <2>2 DEF Rows, Shown, Exists
    <3>2. StatusesOf(i) = {}
      BY <1>2, <2>2 DEF StatusesOf
    <3> QED BY <3>1, <3>2 DEF Been
  <2> QED BY <2>1, <2>2
<1> QED BY <1>3, <1>4 DEF Book!Init, Rows, Been

-----------------------------------------------------------------------------
(* The commits *)

LEMMA CreateIsCreate ==
    ASSUME TypeOK, TypeOK', NumberingInv, NEW r \in Request, CommitCreate(r)
    PROVE  Book!Create(r)
<1>1. r \in Invoice /\ ~Exists(r)
  BY CommittedIsNext DEF Invoice
<1>2. input[r].status \in {"DRAFT", "SENT"}
  BY BodyTypes DEF CommitCreate, CreateBody
<1>3. /\ header'[r].status = input[r].status
      /\ \A j \in Invoice \ {r} : header'[j] = header[j]
  BY <1>1 DEF CommitCreate, TypeOK, TablesType
<1>4. header'[r] \in Row
  BY <1>1, <1>2, <1>3 DEF TypeOK, TablesType, NoRow
<1>5. /\ Rows' = [Rows EXCEPT ![r] = Rows'[r]]
      /\ Rows'[r] \in Book!Rows /\ Rows'[r].status = input[r].status
  BY <1>1, <1>3, <1>4, OneRow
<1>6. Been' = [Been EXCEPT ![r] = @ \cup {input[r].status}]
  BY <1>1, OneStatus DEF CommitCreate
<1>7. Rows[r] = NoRow
  BY <1>1 DEF Rows, Shown
<1> QED BY <1>1, <1>2, <1>5, <1>6, <1>7 DEF Book!Create, Book!Only, Rows, Been

LEMMA UpdateIsEdit ==
    ASSUME TypeOK, TypeOK', TimelineInv, EditAllowed, NEW r \in Request,
           CommitUpdate(r)
    PROVE  Book!Edit(input[r].invoice)
<1> DEFINE i == input[r].invoice
<1>1. i \in Invoice /\ Exists(i) /\ AfterRead(r)
  BY BodyTypes DEF CommitUpdate, IsCreate, IsUpdate, TypeOK, StageAfterRead,
     AfterRead, InTx, UpdateBody
<1>2. header[i] \in Row
  BY <1>1 DEF TypeOK, TablesType, Exists
<1>3. \A j \in Invoice \ {i} : header'[j] = header[j]
  BY <1>1 DEF CommitUpdate, TypeOK, TablesType
<1>4. header'[i].status = header[i].status
  BY <1>1, EditKeepsStatus
<1>5. header'[i] \in Row
  BY <1>1, <1>2, <1>4 DEF TypeOK, TablesType, NoRow, Row, Status
<1>6. /\ Rows' = [Rows EXCEPT ![i] = Rows'[i]]
      /\ Rows'[i] \in Book!Rows /\ Rows'[i].status = header[i].status
  <2> HIDE DEF i
  <2> QED BY <1>1, <1>3, <1>4, <1>5, OneRow
<1>7. Rows[i] # NoRow /\ Rows[i].status = header[i].status
  <2> HIDE DEF i
  <2> QED BY <1>1, <1>2, ShownType DEF Rows
<1>8. "DRAFT" \in Been[i]
  <2>1. existing[r].status = "DRAFT"
    BY DEF CommitUpdate, EditAllowed, PastCheck, InTx
  <2> QED BY <1>1, <2>1 DEF TimelineInv, StatusLogged, Been, StatusesOf
<1>9. UNCHANGED Been
  BY DEF CommitUpdate, Been, StatusesOf
<1> HIDE DEF i
<1> QED BY <1>6, <1>7, <1>8, <1>9 DEF i, Book!Edit, Book!Only, Rows, Been

LEMMA ChangeIsChange ==
    ASSUME TypeOK, TypeOK', TimelineInv, NEW r \in Request, CommitStatus(r)
    PROVE  Book!ChangeStatus(input[r].invoice)
<1> DEFINE i == input[r].invoice
<1>1. i \in Invoice /\ Exists(i) /\ AfterRead(r)
  BY BodyTypes DEF CommitStatus, IsCreate, IsStatus, TypeOK, StageAfterRead,
     AfterRead, InTx, StatusBody
<1>2. header[i] \in Row /\ existing[r].status \in Status
  BY <1>1 DEF TypeOK, TablesType, LocalsType, StageAfterRead, Exists, ReadResult
<1>3. \A j \in Invoice \ {i} : header'[j] = header[j]
  BY <1>1 DEF CommitStatus, TypeOK, TablesType
<1>4. /\ header'[i].status = input[r].status
      /\ header'[i].money = header[i].money
  BY <1>1, <1>2 DEF CommitStatus, TypeOK, TablesType, Row
<1>5. input[r].status \in TRANSITIONS[existing[r].status]
  BY DEF CommitStatus, TimelineInv, ChangeAllowed, InTx, MayChange
<1>6. header'[i] \in Row
  <2>1. input[r].status \in Status
    BY <1>2, <1>5 DEF TRANSITIONS, Status
  <2> QED BY <1>1, <1>4, <2>1 DEF TypeOK, TablesType, NoRow, Status
<1>7. /\ Rows' = [Rows EXCEPT ![i] = Rows'[i]]
      /\ Rows'[i] \in Book!Rows /\ Rows'[i].status = input[r].status
      /\ Rows'[i].value = header[i].money
  <2> HIDE DEF i
  <2> QED BY <1>1, <1>3, <1>4, <1>6, OneRow
<1>8. Rows[i] # NoRow /\ Rows[i].value = header[i].money
  <2> HIDE DEF i
  <2> QED BY <1>1, <1>2, ShownType DEF Rows
<1>9. Been' = [Been EXCEPT ![i] = @ \cup {input[r].status}]
  BY <1>1, OneStatus DEF CommitStatus
<1>10. existing[r].status \in Been[i]
  BY <1>1 DEF TimelineInv, StatusLogged, Been, StatusesOf
<1>11. input[r].status \in Book!Moves[existing[r].status]
  BY <1>2, <1>5 DEF Book!Moves, TRANSITIONS, Status
<1> HIDE DEF i
<1> QED BY <1>7, <1>8, <1>9, <1>10, <1>11 DEF i, Book!ChangeStatus, Book!Only,
   Rows, Been

LEMMA BookNext ==
    ASSUME TypeOK, TypeOK', NumberingInv, TimelineInv, EditAllowed,
           [Next]_vars
    PROVE  [Book!Next]_<<Rows, Been>>
<1>1. ASSUME NEW r \in Request, CommitCreate(r) PROVE Book!Next
  BY <1>1, CreateIsCreate DEF Book!Next, Invoice
<1>2. ASSUME NEW r \in Request, CommitUpdate(r) \/ CommitStatus(r)
      PROVE  Book!Next
  <2>1. input[r].invoice \in Invoice
    BY <1>2, BodyTypes DEF CommitUpdate, CommitStatus, IsUpdate, IsStatus,
       UpdateBody, StatusBody
  <2> QED BY <1>2, <2>1, UpdateIsEdit, ChangeIsChange DEF Book!Next
<1>3. ASSUME UNCHANGED <<header, log>> PROVE UNCHANGED <<Rows, Been>>
  BY <1>3 DEF Rows, Been, Shown, StatusesOf, Exists
<1>4. \/ \E r \in Request : CommitCreate(r) \/ CommitUpdate(r) \/ CommitStatus(r)
      \/ UNCHANGED <<header, log>>
  BY DEF Next, Step, Terminated, vars, RemoveCustomer, Arrive, assertCustomer,
     ReadHeader, ReadItems, nextInvoiceNumber, InsertInvoice, NumberTaken,
     StartDelete, FinishDelete, InsertLog, WriteHeader, Fail, tables
<1> QED BY <1>1, <1>2, <1>3, <1>4

\* Whatever overlaps or fails, what readers see moves as InvoiceBook says.
THEOREM ImplementsBook == Spec => BookSpec
<1>1. Init => Book!Init
  BY BookInit
<1>2. Init => EditAllowed
  BY DEF Init, EditAllowed, PastCheck, InTx
<1>3. TypeOK /\ EditAllowed /\ [Next]_vars => EditAllowed'
  BY EditAllowedStep
<1>4. /\ TypeOK /\ TypeOK' /\ NumberingInv /\ TimelineInv /\ EditAllowed
      /\ [Next]_vars
      => [Book!Next]_<<Rows, Been>>
  BY BookNext
<1> QED
  BY <1>1, <1>2, <1>3, <1>4, TypeCorrect, NumberingCorrect, TimelineCorrect, PTL
  DEF Spec, BookSpec, Book!Spec, Rows, Been

-----------------------------------------------------------------------------
(* Fresh reads *)

LEMMA FreshReadStep ==
    ASSUME TypeOK, TimelineInv, EditAllowed, [Next]_vars, NEW r \in Request,
           pc[r] = "commit", pc'[r] = "done", ~IsCreate(r),
           existing[r].status = header[input[r].invoice].status
    PROVE  LET i == input[r].invoice IN
           IF header'[i].status # header[i].status
           THEN header'[i].status \in TRANSITIONS[header[i].status]
           ELSE header[i].status = "DRAFT" /\ log' = log
<1>1. CommitUpdate(r) \/ CommitStatus(r)
  <2>1. Step(r)
    BY OwnStep DEF Arrive, Fail, Goto, TypeOK, LocalsType
  <2> QED BY <2>1 DEF Step, assertCustomer, ReadHeader, ReadItems,
     nextInvoiceNumber, InsertInvoice, NumberTaken, CommitCreate, StartDelete,
     FinishDelete, InsertLog, WriteHeader
<1>2. input[r].invoice \in Invoice /\ Exists(input[r].invoice)
  BY BodyTypes DEF TypeOK, StageAfterRead, AfterRead, InTx, UpdateBody,
     StatusBody
<1>3. CASE CommitUpdate(r)
  <2>1. header'[input[r].invoice].status = header[input[r].invoice].status
    BY <1>2, <1>3, EditKeepsStatus
  <2> QED BY <1>3, <2>1 DEF EditAllowed, PastCheck, InTx, CommitUpdate
<1>4. CASE CommitStatus(r)
  <2>1. header[input[r].invoice] \in Row
    BY <1>2 DEF TypeOK, TablesType, Exists
  <2>2. header'[input[r].invoice].status = input[r].status
    BY <1>2, <1>4, <2>1 DEF CommitStatus, TypeOK, TablesType, Row
  <2>3. input[r].status \in TRANSITIONS[existing[r].status]
    BY <1>4 DEF CommitStatus, TimelineInv, ChangeAllowed, InTx, MayChange
  <2>4. existing[r].status \in Status
    BY <2>1 DEF Row
  <2>5. input[r].status # existing[r].status
    BY <2>3, <2>4 DEF TRANSITIONS, Status
  <2> QED BY <2>2, <2>3, <2>5
<1> QED BY <1>1, <1>3, <1>4

\* A request whose read is still true when it commits keeps the rules.
THEOREM FreshReadsKeepTheRules == Spec => RulesHoldOnFreshRead
<1>1. Init => EditAllowed
  BY DEF Init, EditAllowed, PastCheck, InTx
<1>2. TypeOK /\ EditAllowed /\ [Next]_vars => EditAllowed'
  BY EditAllowedStep
<1>3. TypeOK /\ TimelineInv /\ EditAllowed /\ [Next]_vars =>
        [\A r \in Request :
            LET i == input[r].invoice IN
            /\ pc[r] = "commit" /\ pc'[r] = "done" /\ ~IsCreate(r)
            /\ existing[r].status = header[i].status
            => IF header'[i].status # header[i].status
               THEN header'[i].status \in TRANSITIONS[header[i].status]
               ELSE header[i].status = "DRAFT" /\ log' = log]_vars
  BY FreshReadStep
<1> QED
  BY <1>1, <1>2, <1>3, TypeCorrect, TimelineCorrect, PTL
  DEF Spec, RulesHoldOnFreshRead
=============================================================================
