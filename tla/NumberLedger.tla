---------------------------- MODULE NumberLedger ----------------------------
(***************************************************************************)
(* What invoice numbering promises, as one atomic operation: a year's book *)
(* is a growing set of numbers, and the next one issued is one more than   *)
(* the number of entries of that year and is not in the book yet.          *)
(***************************************************************************)
EXTENDS Naturals, FiniteSets

CONSTANT Year

VARIABLE book

Entries(y) == {n \in book : n.year = y}

\* The book starts with whatever was imported.
Init == IsFiniteSet(book)

Issue(y) ==
    LET next == [year |-> y, seq |-> Cardinality(Entries(y)) + 1]
    IN  /\ next \notin book
        /\ book' = book \cup {next}

Next == \E y \in Year : Issue(y)

Spec == Init /\ [][Next]_book
=============================================================================
