------------------------------- MODULE Access -------------------------------
(***************************************************************************)
(* What stands before the handlers of users and customers: the access      *)
(* token, JwtAuthGuard with JwtStrategy, and RolesGuard (src/common/guards *)
(* and src/modules/auth/strategies), with the User table they read.        *)
(*                                                                         *)
(* The users and customers services open no transaction, so one step is    *)
(* one SQL statement.  Each of their writing handlers is guard, read,      *)
(* write; the module that extends this one gives the reads and the writes. *)
(* A request is an element of Request and is handled once; the row it      *)
(* inserts is named after it.                                              *)
(***************************************************************************)
EXTENDS Naturals, FiniteSets

CONSTANTS
    Request,    \* the HTTP requests handled in a behaviour
    Address,    \* e-mail addresses besides those of the seeded users
    Inputs,     \* the request bodies this instance enumerates
    None        \* an optional field that is absent

VARIABLES
    users,      \* the User table: users[u] is a UserRow or NoRow
    pc,         \* where each request stands
    input       \* its access token and its body

Role == {"ADMIN", "STAFF", "VIEWER"}

\* The accounts of prisma/seed.ts and their roles.
SeedUsers == [admin |-> "ADMIN", staff |-> "STAFF", viewer |-> "VIEWER"]
Seeded    == DOMAIN SeedUsers

User  == Seeded \cup Request
Email == Seeded \cup Address       \* a seeded address is named after its user

UserRow == [email : Email, role : Role, active : BOOLEAN]
NoRow   == [email |-> "none"]

InService == {"guard", "read", "write"}
Final     == {"done", "refused", "missing", "conflict", "error", "failed"}
PC        == {"idle"} \cup InService \cup Final

NoInput == [actor |-> "none"]

ASSUME RequestsFresh == Request \cap Seeded = {}

-----------------------------------------------------------------------------
(* Helpers *)

Exists(u) == users[u] # NoRow
Op(r)     == input[r].body.op

\* The rows of the seeded accounts after the seed ran.
SeedRow(u) == [email |-> u, role |-> SeedUsers[u], active |-> TRUE]

\* The optional field of a body, or what the column holds.
OrElse(field, default) == IF field = None THEN default ELSE field

\* @Roles of the route.
Required(op) == IF op \in {"createUser", "updateUser", "deactivateUser"}
                THEN {"ADMIN"} ELSE {"ADMIN", "STAFF"}

RoleOf_byToken(r) == input[r].claim

\* The role validate returns is the column's, not the one in the token.
RoleOf(r) == users[input[r].actor].role

Goto(r, label) == pc' = [pc EXCEPT ![r] = label]

-----------------------------------------------------------------------------
(* Steps *)

UsersInit ==
    /\ users = [u \in User |-> IF u \in Seeded THEN SeedRow(u) ELSE NoRow]
    /\ pc = [r \in Request |-> "idle"]
    /\ input = [r \in Request |-> NoInput]

\* A client presents an access token that a user once got; it outlives the
\* user's deactivation and the role it was signed with.
Arrive(r) ==
    /\ pc[r] = "idle"
    /\ \E u \in {v \in User : Exists(v)}, body \in Inputs :
          input' = [input EXCEPT ![r] =
              [actor |-> u, claim |-> users[u].role, body |-> body]]
    /\ Goto(r, "guard")
    /\ UNCHANGED users

\* JwtStrategy.validate, findFirst where deletedAt is null, and RolesGuard;
\* only CustomersService.create has no read of its own.
Guard(r) ==
    /\ pc[r] = "guard"
    /\ Goto(r, IF ~users[input[r].actor].active \/ RoleOf(r) \notin Required(Op(r))
               THEN "refused"
               ELSE IF Op(r) = "createCustomer" THEN "write" ELSE "read")
    /\ UNCHANGED <<users, input>>

\* The process, its connection or the client is lost between two statements.
Fail(r) ==
    /\ pc[r] \in InService
    /\ Goto(r, "failed")
    /\ UNCHANGED <<users, input>>

\* The seed is run again: the upsert of one account.
Reseed(u) ==
    /\ users' = [users EXCEPT ![u].role = SeedUsers[u], ![u].active = TRUE]
    /\ UNCHANGED <<pc, input>>

=============================================================================
