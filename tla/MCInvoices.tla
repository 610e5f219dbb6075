----------------------------- MODULE MCInvoices -----------------------------
(***************************************************************************)
(* Small instances of Invoices: the bodies the clients send and what the   *)
(* seed wrote.                                                             *)
(***************************************************************************)
EXTENDS Invoices, TLC

CONSTANTS r1, r2, r3, r4, s1, s2, c1, c2

\* New invoices that differ only in the customer and the year.
NewInvoice(c, y) == [op |-> "create", role |-> "STAFF", customer |-> c,
                     year |-> y, taxRate |-> 50, amount |-> 1,
                     status |-> "DRAFT"]
Creates == {NewInvoice(c1, y) : y \in Year}

SeedOf(st, y, n) == [status |-> st, number |-> [year |-> y, seq |-> n],
                     customer |-> c1, taxRate |-> 50, amount |-> 1]

\* Edits of the seeded invoice that give the items, the rate or the customer,
\* and every status change.
EditOf(i, c, rate, a) == [op |-> "update", role |-> "STAFF", invoice |-> i,
                          customer |-> c, taxRate |-> rate, amount |-> a]
ChangeTo(i, st, role) == [op |-> "changeStatus", role |-> role,
                          invoice |-> i, status |-> st]
Edits   == {EditOf(s1, None, None, 2), EditOf(s1, None, 10, None),
            EditOf(s1, c1, None, None)}
Changes == {ChangeTo(s1, "SENT", "STAFF"), ChangeTo(s1, "PAID", "STAFF"),
            ChangeTo(s1, "CANCELLED", "STAFF"),
            ChangeTo(s1, "CANCELLED", "ADMIN")}
Desk    == Creates \cup Edits \cup Changes

\* The seeded invoice has any status and the number the second create of its
\* year will compute, or a number out of reach.
AnySeed == {[s \in Seed |-> SeedOf(st, 2026, 3)] : st \in Status}
              \cup {[s \in Seed |-> SeedOf("DRAFT", 2026, 9)]}

\* Progress: one body per way of waiting on another request.
Rush      == {NewInvoice(c1, 2026), EditOf(s1, None, None, 2),
              EditOf(s1, c1, None, None), ChangeTo(s1, "SENT", "STAFF"),
              ChangeTo(s1, "CANCELLED", "ADMIN")}
DraftSeed == {[s \in Seed |-> SeedOf("DRAFT", 2026, 3)]}

\* The seeded invoice has been sent: whatever moves it is the status changes.
SentSeed  == {[s \in Seed |-> SeedOf("SENT", 2026, 3)]}

RequestSymmetry == Permutations(Request)
=============================================================================
