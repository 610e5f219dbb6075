------------------------------ MODULE MCSerial ------------------------------
(***************************************************************************)
(* A small instance of SerialInvoices: a new invoice and a seeded one.     *)
(***************************************************************************)
EXTENDS MCInvoices, SerialInvoices

\* Bodies: a new invoice, and the edits and status changes of it and of a
\* seeded one.
SerialInputs ==
    {NewInvoice(c1, 2026), EditOf(r1, None, 10, None),
     ChangeTo(r1, "SENT", "STAFF"), ChangeTo(r1, "PAID", "STAFF")}
    \cup Desk

\* r1 is named by the bodies, the others are alike.
OthersAlike == Permutations(Request \ {r1})
=============================================================================
