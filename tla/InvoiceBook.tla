----------------------------- MODULE InvoiceBook -----------------------------
(***************************************************************************)
(* What the invoice API promises its readers however its requests overlap, *)
(* with every request one atomic step.  InvoiceLifecycle is the promise to *)
(* a client that is alone; here a decision may rest on a status the        *)
(* invoice has left since.  What remains is that an invoice is never       *)
(* deleted, that only one that has been a DRAFT is edited, that a status   *)
(* is entered from one the invoice has been in, and that an edit never     *)
(* moves the status nor a status change the value.                         *)
(***************************************************************************)
EXTENDS Naturals

CONSTANTS Invoice, Value, Absent

VARIABLES
    book,   \* book[i]: the status and the value of an invoice, or Absent
    been    \* been[i]: the statuses it has been in

Moves == [DRAFT |-> {"SENT", "CANCELLED"}, SENT |-> {"PAID", "CANCELLED"},
          OVERDUE |-> {"PAID", "CANCELLED"}, PAID |-> {}, CANCELLED |-> {}]

Rows == [status : DOMAIN Moves, value : Value]

Init ==
    /\ \A i \in Invoice : book[i] \in Rows \cup {Absent}
    /\ been = [i \in Invoice |-> IF book[i] = Absent THEN {}
                                                     ELSE {book[i].status}]

\* Nothing but invoice i changes.
Only(i) == /\ book' = [book EXCEPT ![i] = book'[i]]
           /\ book'[i] \in Rows

Create(i) ==
    /\ book[i] = Absent
    /\ Only(i)
    /\ book'[i].status \in {"DRAFT", "SENT"}
    /\ been' = [been EXCEPT ![i] = @ \cup {book'[i].status}]

Edit(i) ==
    /\ book[i] # Absent
    /\ "DRAFT" \in been[i]
    /\ Only(i)
    /\ book'[i].status = book[i].status
    /\ UNCHANGED been

ChangeStatus(i) ==
    /\ book[i] # Absent
    /\ Only(i)
    /\ book'[i].value = book[i].value
    /\ \E from \in been[i] : book'[i].status \in Moves[from]
    /\ been' = [been EXCEPT ![i] = @ \cup {book'[i].status}]

Next == \E i \in Invoice : Create(i) \/ Edit(i) \/ ChangeStatus(i)

Spec == Init /\ [][Next]_<<book, been>>
=============================================================================
