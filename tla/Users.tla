-------------------------------- MODULE Users --------------------------------
(***************************************************************************)
(* UsersService.create, update and deactivate                              *)
(* (src/modules/users/users.service.ts) behind the guards of Access.       *)
(*                                                                         *)
(* Names and passwords are dropped: no property tells them apart.  An      *)
(* operator X_<bug> is X as a plausible bug would have it; the             *)
(* specification does not use it.                                          *)
(***************************************************************************)
EXTENDS Access

CreateUserBody == [op : {"createUser"}, email : Email, role : Role]
UpdateUserBody == [op : {"updateUser"}, user : User, role : Role \cup {None},
                   isActive : BOOLEAN \cup {None}]
DeactivateBody == [op : {"deactivateUser"}, user : User]
UsersBody      == CreateUserBody \cup UpdateUserBody \cup DeactivateBody

OnUser(r)  == Op(r) \in {"updateUser", "deactivateUser"}
UserOp(r)  == Op(r) = "createUser" \/ OnUser(r)
Target(r)  == input[r].body.user

\* findUnique on email: deactivated users keep theirs.
EmailInUse(e) == \E u \in User : Exists(u) /\ users[u].email = e

UniqueIndexHolds_absent(e) == FALSE

\* The unique index on email holds the address.
UniqueIndexHolds(e) == EmailInUse(e)

\* create: the lookup before the hash.
LookUpEmail(r) ==
    /\ pc[r] = "read"
    /\ Op(r) = "createUser"
    /\ Goto(r, IF EmailInUse(input[r].body.email) THEN "conflict" ELSE "write")
    /\ UNCHANGED <<users, input>>

\* create: the INSERT, after argon2.hash has taken its time.
InsertUser(r) ==
    /\ pc[r] = "write"
    /\ Op(r) = "createUser"
    /\ ~UniqueIndexHolds(input[r].body.email)
    /\ users' = [users EXCEPT ![r] =
          [email |-> input[r].body.email, role |-> input[r].body.role,
           active |-> TRUE]]
    /\ Goto(r, "done")
    /\ UNCHANGED input

\* create: the index refuses, and no handler turns that into a conflict.
EmailTaken(r) ==
    /\ pc[r] = "write"
    /\ Op(r) = "createUser"
    /\ UniqueIndexHolds(input[r].body.email)
    /\ Goto(r, "error")
    /\ UNCHANGED <<users, input>>

Found_unchecked(u) == TRUE

\* getById, which finds deactivated users, too.
Found(u) == Exists(u)

\* update, deactivate: the existence check.
CheckUser(r) ==
    /\ pc[r] = "read"
    /\ OnUser(r)
    /\ Goto(r, IF Found(Target(r)) THEN "write" ELSE "missing")
    /\ UNCHANGED <<users, input>>

\* update: the columns the body names.
UpdateUser(r) ==
    /\ pc[r] = "write"
    /\ Op(r) = "updateUser"
    /\ users' = [users EXCEPT
          ![Target(r)].role = OrElse(input[r].body.role, @),
          ![Target(r)].active = OrElse(input[r].body.isActive, @)]
    /\ Goto(r, "done")
    /\ UNCHANGED input

DeactivateUser(r) ==
    /\ pc[r] = "write"
    /\ Op(r) = "deactivateUser"
    /\ users' = [users EXCEPT ![Target(r)].active = FALSE]
    /\ Goto(r, "done")
    /\ UNCHANGED input

UsersStep(r) ==
    \/ LookUpEmail(r)
    \/ InsertUser(r)
    \/ EmailTaken(r)
    \/ CheckUser(r)
    \/ UpdateUser(r)
    \/ DeactivateUser(r)

-----------------------------------------------------------------------------
(* Properties *)

\* Two users never share an address, active or not, however their creation
\* overlaps (the lookup alone would not do: line 77).
EmailsUnique ==
    \A u, v \in User :
        Exists(u) /\ Exists(v) /\ users[u].email = users[v].email => u = v

\* A create that was told that its address is in use was told the truth, and
\* it stays true: nobody is ever deleted and an address never changes hands
\* (proved in CustomersProofs, in no run).
ConflictIsReal ==
    \A r \in Request :
        pc[r] \in {"conflict", "error"} => EmailInUse(input[r].body.email)

\* Nobody may administer users, and nobody is about to.
LockedOut ==
    /\ \A u \in User : Exists(u) /\ users[u].active => users[u].role # "ADMIN"
    /\ \A r \in Request : pc[r] \in {"read", "write"} => ~UserOp(r)

\* A system without an active ADMIN has lost its administration for good,
\* whatever tokens are still around: the guard asks the table, not the token
\* (JwtStrategy, line 30).  Only a new run of the seed brings it back.
LockedOutStays ==
    [][LockedOut =>
          LockedOut' \/ \E u \in Seeded : /\ users[u] # SeedRow(u)
                                          /\ users'[u] = SeedRow(u)]_<<users, pc, input>>

=============================================================================
