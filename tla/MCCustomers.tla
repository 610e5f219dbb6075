----------------------------- MODULE MCCustomers -----------------------------
(***************************************************************************)
(* A small instance of Customers, and with it of Users and Access.         *)
(***************************************************************************)
EXTENDS Customers, TLC

CONSTANTS r1, r2, r3, a1, c1

RequestSymmetry == Permutations(Request)

\* Creates that collide with each other and with a seeded address; demotion,
\* reactivation and deactivation of the seeded ADMIN, and deactivation of
\* whoever may have been created; edits and removal of a
\* seeded customer, edits of whichever may have been created.
SomeInputs ==
    {[op |-> "createUser", email |-> e, role |-> "ADMIN"] : e \in {"staff", a1}}
    \cup {[op |-> "updateUser", user |-> "admin", role |-> "VIEWER",
           isActive |-> None],
          [op |-> "updateUser", user |-> "admin", role |-> None,
           isActive |-> TRUE]}
    \cup {[op |-> "deactivateUser", user |-> u] : u \in {"admin"} \cup Request}
    \cup {[op |-> "createCustomer"]}
    \cup [op : {"updateCustomer"}, customer : {c1} \cup Request]
    \cup [op : {"removeCustomer"}, customer : {c1}]
=============================================================================
