--------------------------- MODULE SerialInvoices ---------------------------
(***************************************************************************)
(* Invoices with requests that do not overlap: one is answered before the  *)
(* next arrives.  Under this workload, failures included, the service      *)
(* implements InvoiceLifecycle; the runs that find it broken without the   *)
(* restriction show that overlap is the only cause.                        *)
(***************************************************************************)
EXTENDS Invoices

InService == {r \in Request : pc[r] \notin Final \cup {"idle"}}

\* At most one request is in service, before and after every step.
OneAtATime == Cardinality(InService) <= 1 /\ Cardinality(InService') <= 1

SerialSpec == Init /\ [][Next /\ OneAtATime]_vars

\* The invoice a client sees: its header without updatedBy, its items summed.
Seen(i) == IF Exists(i)
           THEN [status |-> header[i].status, number |-> header[i].number,
                 customer |-> header[i].customer, money |-> header[i].money,
                 amount |-> Sum(items[i])]
           ELSE NoRow

Lifecycle == INSTANCE InvoiceLifecycle
                WITH book <- [i \in Invoice |-> Seen(i)], Absent <- NoRow

\* One request at a time, every handler is one step of InvoiceLifecycle or
\* none, wherever it fails (create, update and changeStatus as a whole).
LifecycleSpec == Lifecycle!Spec

RowsOf(i) == {e \in log : e.invoice = i}

\* One request at a time, the timeline is a path: no status is left twice,
\* and the status is the end of the path.
TimelineIsPath ==
    \A i \in Invoice : Exists(i) =>
        /\ \A d, e \in RowsOf(i) : d.from = e.from => d = e
        /\ \A e \in RowsOf(i) : e.from # header[i].status

-----------------------------------------------------------------------------
(* Why *)

\* The reads of the request in service are still true when it commits: ...
ReadsAreCurrent ==
    \A r \in Request : LET i == input[r].invoice IN
        /\ AfterRead(r) => /\ existing[r].status = header[i].status
                           /\ existing[r].taxRate = header[i].money.taxRate
        /\ AfterRead(r) /\ IsUpdate(r) /\ pc[r] # "items"
              => existing[r].amount = Sum(items[i])
        /\ pc[r] \in {"delete", "write", "commit"} /\ IsUpdate(r)
              => doomed[r] = items[i]

\* ... so an edit deletes all the items before it inserts its own, ...
OneBatch == \A i \in Invoice : Exists(i) => \E b \in items[i] : items[i] = {b}

Rank == [s \in Status |-> CASE s = "DRAFT"              -> 0
                            [] s \in {"SENT", "OVERDUE"} -> 1
                            [] OTHER                    -> 2]

\* ... and a status change leaves only statuses behind that come before the
\* new one.
LeftBehind ==
    /\ \A e \in log : Exists(e.invoice)
    /\ \A i \in Invoice : Exists(i) =>
          \A e \in RowsOf(i) :
              e.from # None => Rank[e.from] < Rank[header[i].status]

SerialInv == ReadsAreCurrent /\ OneBatch /\ LeftBehind /\ TimelineIsPath
=============================================================================
