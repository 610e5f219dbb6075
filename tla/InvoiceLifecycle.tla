-------------------------- MODULE InvoiceLifecycle --------------------------
(***************************************************************************)
(* What the invoice API promises a client, with every request one atomic   *)
(* step: an invoice is created as a DRAFT or SENT, its amount, rate and    *)
(* customer change only while it is a DRAFT, its status moves along        *)
(* TRANSITIONS, and its money is always computed from its items.           *)
(***************************************************************************)
EXTENDS Naturals

CONSTANTS Invoice, Customer, Absent

VARIABLE book    \* book[i]: the invoice as a client sees it, or Absent

Moves == [DRAFT |-> {"SENT", "CANCELLED"}, SENT |-> {"PAID", "CANCELLED"},
          OVERDUE |-> {"PAID", "CANCELLED"}, PAID |-> {}, CANCELLED |-> {}]

Tax(amount, rate) == (amount * rate + 50) \div 100

\* An invoice whose money agrees with its items.
Priced(invoice) ==
    /\ invoice.customer \in Customer
    /\ invoice.money = [subtotal  |-> invoice.amount,
                        taxRate   |-> invoice.money.taxRate,
                        taxAmount |-> Tax(invoice.amount, invoice.money.taxRate),
                        total     |-> invoice.amount
                            + Tax(invoice.amount, invoice.money.taxRate)]

Init == \A i \in Invoice : book[i] = Absent \/ Priced(book[i])

\* Nothing but invoice i changes.
Only(i) == /\ book' = [book EXCEPT ![i] = book'[i]]
           /\ book'[i] # Absent

Create(i) ==
    /\ book[i] = Absent
    /\ Only(i)
    /\ book'[i].status \in {"DRAFT", "SENT"}
    /\ Priced(book'[i])

Edit(i) ==
    /\ book[i] # Absent
    /\ book[i].status = "DRAFT"
    /\ Only(i)
    /\ book'[i].status = "DRAFT"
    /\ book'[i].number = book[i].number
    /\ Priced(book'[i])

ChangeStatus(i) ==
    /\ book[i] # Absent
    /\ \E to \in Moves[book[i].status] :
          book' = [book EXCEPT ![i].status = to]

Next == \E i \in Invoice : Create(i) \/ Edit(i) \/ ChangeStatus(i)

Spec == Init /\ [][Next]_book
=============================================================================
