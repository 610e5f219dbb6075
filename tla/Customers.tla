------------------------------ MODULE Customers ------------------------------
(***************************************************************************)
(* CustomersService.create, update and remove                              *)
(* (src/modules/customers/customers.service.ts), and with them the whole   *)
(* of users, guards and customers as one system.                           *)
(*                                                                         *)
(* Of a customer only the soft delete and the last editor are kept.        *)
(***************************************************************************)
EXTENDS Users

CONSTANT SeedCustomer   \* the customers prisma/seed.ts put in the table

VARIABLE customers      \* the Customer table: a CustomerRow or NoCustomer

vars == <<users, pc, input, customers>>

Customer    == SeedCustomer \cup Request
CustomerRow == [removed : BOOLEAN, updatedBy : User \cup {None}]
NoCustomer  == [removed |-> "none"]

CreateCustomerBody == [op : {"createCustomer"}]
EditCustomerBody   == [op : {"updateCustomer", "removeCustomer"},
                       customer : Customer]
Body  == UsersBody \cup CreateCustomerBody \cup EditCustomerBody
Input == [actor : User, claim : Role, body : Body]

ASSUME InputsAreBodies == Inputs \subseteq Body
ASSUME SeedCustomersFresh == SeedCustomer \cap Request = {}
ASSUME NoneIsNobody == None \notin User

NewRow == [removed |-> FALSE, updatedBy |-> None]

OnCustomer(r) == Op(r) \in {"updateCustomer", "removeCustomer"}
Subject(r)    == input[r].body.customer

InTable(c) == customers[c] # NoCustomer

Live_anyRow(c) == InTable(c)

\* getById: findFirst where deletedAt is null.
Live(c) == InTable(c) /\ ~customers[c].removed

-----------------------------------------------------------------------------
(* Steps *)

CreateCustomer(r) ==
    /\ pc[r] = "write"
    /\ Op(r) = "createCustomer"
    /\ customers' = [customers EXCEPT ![r] = NewRow]
    /\ Goto(r, "done")
    /\ UNCHANGED <<users, input>>

\* update, remove: the check before the write.
FindCustomer(r) ==
    /\ pc[r] = "read"
    /\ OnCustomer(r)
    /\ Goto(r, IF Live(Subject(r)) THEN "write" ELSE "missing")
    /\ UNCHANGED <<users, input, customers>>

\* update: the UPDATE by id, without asking again.
UpdateCustomer(r) ==
    /\ pc[r] = "write"
    /\ Op(r) = "updateCustomer"
    /\ customers' = [customers EXCEPT ![Subject(r)].updatedBy = input[r].actor]
    /\ Goto(r, "done")
    /\ UNCHANGED <<users, input>>

\* remove: the soft delete.
RemoveCustomer(r) ==
    /\ pc[r] = "write"
    /\ Op(r) = "removeCustomer"
    /\ customers' = [customers EXCEPT ![Subject(r)].removed = TRUE]
    /\ Goto(r, "done")
    /\ UNCHANGED <<users, input>>

CustomersStep(r) ==
    \/ CreateCustomer(r)
    \/ FindCustomer(r)
    \/ UpdateCustomer(r)
    \/ RemoveCustomer(r)

Init ==
    /\ UsersInit
    /\ customers = [c \in Customer |->
                       IF c \in SeedCustomer THEN NewRow ELSE NoCustomer]

Next ==
    \/ \E r \in Request : \/ CustomersStep(r)
                          \/ /\ Arrive(r) \/ Guard(r) \/ UsersStep(r) \/ Fail(r)
                             /\ UNCHANGED customers
    \/ \E u \in Seeded : Reseed(u) /\ UNCHANGED customers

Spec == Init /\ [][Next]_vars

-----------------------------------------------------------------------------
(* Properties *)

\* A write stands on a row that its read found.
FoundBeforeWrite ==
    \A r \in Request : pc[r] = "write" =>
        /\ OnUser(r) => Exists(Target(r))
        /\ OnCustomer(r) => InTable(Subject(r))

\* What a request carries once it has arrived, and which ends a create alone
\* can have.
Carries ==
    \A r \in Request :
        /\ pc[r] # "idle" => input[r] \in Input /\ Exists(input[r].actor)
        /\ pc[r] \in {"conflict", "error"} => Op(r) = "createUser"
        /\ pc[r] \in {"idle"} \cup InService => ~Exists(r) /\ ~InTable(r)

\* Every variable keeps its type, and a stage is reached with what it needs.
TypeOK ==
    /\ users \in [User -> UserRow \cup {NoRow}]
    /\ \A u \in Seeded : Exists(u) /\ users[u].email = u
    /\ pc \in [Request -> PC]
    /\ input \in [Request -> Input \cup {NoInput}]
    /\ customers \in [Customer -> CustomerRow \cup {NoCustomer}]
    /\ Carries
    /\ FoundBeforeWrite

\* A removed customer about whom no write is under way.
Settled(c) ==
    /\ InTable(c) /\ customers[c].removed
    /\ \A r \in Request : pc[r] = "write" /\ OnCustomer(r) => Subject(r) # c

\* A removed customer is history: it never comes back and nobody edits it
\* any more, but for an edit that had found it before it was removed: update
\* checks deletedAt on a read and writes by id (lines 71-78), although line 7
\* says that "every query filters `deletedAt: null`".
RemovedIsHistory ==
    [][\A c \in Customer : Settled(c) =>
          Settled(c)' /\ customers'[c] = customers[c]]_vars

\* A user whose account and role no longer let them edit, and who has no
\* request past the guard.
Barred(u) ==
    /\ Exists(u)
    /\ ~users[u].active \/ users[u].role \notin Required("updateCustomer")
    /\ \A r \in Request : pc[r] \in {"read", "write"} => input[r].actor # u

EditedBy(u) == {c \in Customer : InTable(c) /\ customers[c].updatedBy = u}

\* Who is deactivated or demoted edits no customer any more, whatever access
\* tokens are still about, but for the requests that had passed the guard,
\* until the account is changed again (JwtStrategy.validate, lines 28-36, and
\* RolesGuard, lines 22-26).
BarredEditsNothing ==
    [][\A u \in User : Barred(u) =>
          /\ Barred(u)' \/ users'[u] # users[u]
          /\ EditedBy(u)' \subseteq EditedBy(u)]_vars

=============================================================================
