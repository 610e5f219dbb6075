-------------------------- MODULE CustomersProofs --------------------------
(***************************************************************************)
(* Theorems about Customers, and with it about Users and Access, for every *)
(* set of requests, addresses, bodies and seeded customers.                *)
(***************************************************************************)
EXTENDS Customers, TLAPS

-----------------------------------------------------------------------------
(* Rows *)

LEMMA NoRowIsNoRow == NoRow \notin UserRow
<1> SUFFICES ASSUME NoRow \in UserRow PROVE FALSE
  OBVIOUS
<1>1. PICK e \in Email, l \in Role, b \in BOOLEAN :
         NoRow = [email |-> e, role |-> l, active |-> b]
  BY DEF UserRow
<1>2. /\ "role" \notin DOMAIN NoRow
      /\ "role" \in DOMAIN [email |-> e, role |-> l, active |-> b]
  BY DEF NoRow
<1> QED BY <1>1, <1>2

LEMMA NoCustomerIsNoRow == NoCustomer \notin CustomerRow
<1> SUFFICES ASSUME NoCustomer \in CustomerRow PROVE FALSE
  OBVIOUS
<1>1. PICK b \in BOOLEAN, u \in User \cup {None} :
         NoCustomer = [removed |-> b, updatedBy |-> u]
  BY DEF CustomerRow
<1>2. /\ "updatedBy" \notin DOMAIN NoCustomer
      /\ "updatedBy" \in DOMAIN [removed |-> b, updatedBy |-> u]
  BY DEF NoCustomer
<1> QED BY <1>1, <1>2

LEMMA SeedRows == \A u \in Seeded : SeedUsers[u] \in Role /\ SeedRow(u) \in UserRow
BY DEF Seeded, SeedUsers, SeedRow, UserRow, Role, Email

\* The body of a request, by its operation.
LEMMA BodyTypes ==
    ASSUME TypeOK, NEW r \in Request, pc[r] # "idle"
    PROVE  /\ Op(r) = "createUser" => input[r].body \in CreateUserBody
           /\ Op(r) = "updateUser" => input[r].body \in UpdateUserBody
           /\ Op(r) = "deactivateUser" => input[r].body \in DeactivateBody
           /\ OnCustomer(r) => input[r].body \in EditCustomerBody
           /\ input[r].actor \in User /\ Exists(input[r].actor)
<1>1. input[r] \in Input /\ Exists(input[r].actor)
  BY DEF TypeOK, Carries
<1>2. input[r].actor \in User /\ input[r].body \in Body
  BY <1>1 DEF Input
<1>3. /\ Op(r) = "createUser" => input[r].body \in CreateUserBody
      /\ Op(r) = "updateUser" => input[r].body \in UpdateUserBody
      /\ Op(r) = "deactivateUser" => input[r].body \in DeactivateBody
      /\ OnCustomer(r) => input[r].body \in EditCustomerBody
  BY <1>2 DEF Body, UsersBody, CreateUserBody, UpdateUserBody, DeactivateBody,
     CreateCustomerBody, EditCustomerBody, Op, OnCustomer
<1> QED BY <1>1, <1>2, <1>3

-----------------------------------------------------------------------------
(* What a step does to the tables *)

\* The steps that touch the User table.
LEMMA UserWriters ==
    ASSUME [Next]_vars
    PROVE  \/ \E r \in Request : InsertUser(r) \/ UpdateUser(r) \/ DeactivateUser(r)
           \/ \E u \in Seeded : Reseed(u)
           \/ users' = users
BY DEF Next, vars, UsersStep, CustomersStep, Arrive, Guard, Fail, LookUpEmail,
   EmailTaken, CheckUser, CreateCustomer, FindCustomer, UpdateCustomer,
   RemoveCustomer

\* A row of the User table: it keeps its type and its address, it is never
\* deleted, and a new one has an address that nobody had.
LEMMA UserRows ==
    ASSUME TypeOK, [Next]_vars
    PROVE  /\ users' \in [User -> UserRow \cup {NoRow}]
           /\ \A u \in User : Exists(u) =>
                 Exists(u)' /\ users'[u].email = users[u].email
           /\ \A u \in User : ~Exists(u) /\ Exists(u)' =>
                 /\ u \in Request /\ pc'[u] = "done"
                 /\ ~EmailInUse(users'[u].email)
                 /\ \A v \in User \ {u} : users'[v] = users[v]
<1>1. users \in [User -> UserRow \cup {NoRow}]
  BY DEF TypeOK
<1>2. ASSUME NEW r \in Request, InsertUser(r)
      PROVE  /\ users' = [users EXCEPT ![r] = users'[r]]
             /\ users'[r] \in UserRow /\ ~Exists(r)
             /\ pc'[r] = "done" /\ ~EmailInUse(users'[r].email)
  <2>1. pc[r] = "write" /\ Op(r) = "createUser"
    BY <1>2 DEF InsertUser
  <2>2. input[r].body \in CreateUserBody
    BY <2>1, BodyTypes
  <2>3. r \in User
    BY DEF User
  <2>4. users'[r] = [email |-> input[r].body.email,
                     role |-> input[r].body.role, active |-> TRUE]
    BY <1>1, <1>2, <2>3 DEF InsertUser
  <2>5. users'[r] \in UserRow
    BY <2>2, <2>4 DEF CreateUserBody, UserRow
  <2>6. ~Exists(r)
    BY <2>1 DEF TypeOK, Carries, InService
  <2>7. pc'[r] = "done"
    BY <1>2 DEF InsertUser, Goto, TypeOK
  <2>8. users' = [users EXCEPT ![r] = users'[r]]
    BY <1>2, <2>4 DEF InsertUser
  <2> QED BY <1>2, <2>4, <2>5, <2>6, <2>7, <2>8 DEF InsertUser, UniqueIndexHolds
<1>3. ASSUME NEW t \in User, Exists(t), NEW l \in Role, NEW b \in BOOLEAN,
             users' = [users EXCEPT ![t].role = l, ![t].active = b]
      PROVE  /\ users' \in [User -> UserRow \cup {NoRow}]
             /\ users'[t] \in UserRow /\ users'[t].email = users[t].email
             /\ \A u \in User \ {t} : users'[u] = users[u]
  <2>1. users[t] \in UserRow
    BY <1>1, <1>3 DEF Exists
  <2>2. users'[t] = [users[t] EXCEPT !.role = l, !.active = b]
    BY <1>1, <1>3
  <2>3. users'[t] \in UserRow /\ users'[t].email = users[t].email
    BY <2>1, <2>2 DEF UserRow
  <2>4. \A u \in User \ {t} : users'[u] = users[u]
    BY <1>1, <1>3
  <2>5. users' = [u \in User |-> users'[u]]
    BY <1>1, <1>3
  <2> QED BY <1>1, <2>3, <2>4, <2>5
<1>4. \A t \in User, l \in Role, b \in BOOLEAN :
         Exists(t) /\ users' = [users EXCEPT ![t].role = l, ![t].active = b]
         => /\ users' \in [User -> UserRow \cup {NoRow}]
            /\ users'[t] \in UserRow /\ users'[t].email = users[t].email
            /\ \A u \in User \ {t} : users'[u] = users[u]
  BY <1>3
<1>5. ASSUME NEW r \in Request, UpdateUser(r) \/ DeactivateUser(r)
      PROVE  \E t \in User, l \in Role, b \in BOOLEAN :
                Exists(t) /\ users' = [users EXCEPT ![t].role = l, ![t].active = b]
  <2>1. pc[r] = "write" /\ Op(r) \in {"updateUser", "deactivateUser"}
    BY <1>5 DEF UpdateUser, DeactivateUser
  <2>2. Target(r) \in User /\ Exists(Target(r))
    BY <2>1, BodyTypes DEF UpdateUserBody, DeactivateBody, Target, TypeOK,
       FoundBeforeWrite, OnUser
  <2>3. users[Target(r)] \in UserRow
    BY <1>1, <2>2 DEF Exists
  <2>4. CASE UpdateUser(r)
    <3> DEFINE l == OrElse(input[r].body.role, users[Target(r)].role)
               b == OrElse(input[r].body.isActive, users[Target(r)].active)
    <3>1. input[r].body \in UpdateUserBody
      BY <2>1, <2>4, BodyTypes DEF UpdateUser
    <3>2. l \in Role
      BY <2>3, <3>1 DEF UpdateUserBody, OrElse, UserRow
    <3>3. b \in BOOLEAN
      BY <2>3, <3>1 DEF UpdateUserBody, OrElse, UserRow
    <3>4. users' = [users EXCEPT ![Target(r)].role = l, ![Target(r)].active = b]
      BY <2>4 DEF UpdateUser
    <3> HIDE DEF l, b
    <3> QED BY <2>2, <3>2, <3>3, <3>4
  <2>5. CASE DeactivateUser(r)
    <3>1. users' = [users EXCEPT ![Target(r)].role = users[Target(r)].role,
                                 ![Target(r)].active = FALSE]
      BY <1>1, <2>2, <2>3, <2>5 DEF DeactivateUser, UserRow
    <3>2. users[Target(r)].role \in Role
      BY <2>3 DEF UserRow
    <3> QED BY <2>2, <3>1, <3>2
  <2> QED BY <1>5, <2>4, <2>5
<1>6. ASSUME NEW u \in Seeded, Reseed(u)
      PROVE  \E t \in User, l \in Role, b \in BOOLEAN :
                Exists(t) /\ users' = [users EXCEPT ![t].role = l, ![t].active = b]
  <2>1. u \in User /\ Exists(u) /\ SeedUsers[u] \in Role
    BY SeedRows DEF User, TypeOK
  <2> QED BY <1>6, <2>1 DEF Reseed
<1>7. ASSUME NEW r \in Request, InsertUser(r)
      PROVE  /\ users' \in [User -> UserRow \cup {NoRow}]
             /\ r \in User /\ Exists(r)' /\ \A u \in User \ {r} : users'[u] = users[u]
  BY <1>1, <1>2, <1>7, NoRowIsNoRow DEF User, Exists
<1>8. CASE \E r \in Request : InsertUser(r)
  BY <1>2, <1>7, <1>8 DEF Exists
<1>9. CASE \E t \in User, l \in Role, b \in BOOLEAN :
              Exists(t) /\ users' = [users EXCEPT ![t].role = l, ![t].active = b]
  BY <1>4, <1>9, NoRowIsNoRow DEF Exists
<1>10. CASE users' = users
  BY <1>1, <1>10 DEF Exists
<1> QED BY <1>5, <1>6, <1>8, <1>9, <1>10, UserWriters

\* The Customer table: a row keeps its type, is never deleted and never
\* comes back, and a new one is named after a request that is done.
LEMMA CustomerRows ==
    ASSUME TypeOK, [Next]_vars
    PROVE  /\ customers' \in [Customer -> CustomerRow \cup {NoCustomer}]
           /\ \A c \in Customer : InTable(c) =>
                 InTable(c)' /\ (customers[c].removed => customers'[c].removed)
           /\ \A c \in Customer : ~InTable(c) /\ InTable(c)' =>
                 c \in Request /\ pc'[c] = "done"
<1>1. customers \in [Customer -> CustomerRow \cup {NoCustomer}]
  BY DEF TypeOK
<1>2. ASSUME NEW r \in Request, CreateCustomer(r)
      PROVE  /\ r \in Customer /\ ~InTable(r) /\ pc'[r] = "done"
             /\ customers' = [customers EXCEPT ![r] = NewRow]
             /\ NewRow \in CustomerRow
  BY <1>2 DEF CreateCustomer, Customer, TypeOK, Carries, InService, Goto,
     NewRow, CustomerRow
<1>3. ASSUME NEW r \in Request, UpdateCustomer(r) \/ RemoveCustomer(r)
      PROVE  /\ Subject(r) \in Customer /\ InTable(Subject(r))
             /\ input[r].actor \in User
  BY <1>3, BodyTypes DEF UpdateCustomer, RemoveCustomer, OnCustomer, Subject,
     EditCustomerBody, TypeOK, FoundBeforeWrite
<1>4. ASSUME NEW r \in Request, UpdateCustomer(r) \/ RemoveCustomer(r)
      PROVE  /\ customers'[Subject(r)] \in CustomerRow
             /\ customers[Subject(r)].removed => customers'[Subject(r)].removed
             /\ \A c \in Customer \ {Subject(r)} : customers'[c] = customers[c]
             /\ customers' = [c \in Customer |-> customers'[c]]
  <2>1. customers[Subject(r)] \in CustomerRow
    BY <1>1, <1>3, <1>4 DEF InTable
  <2>2. CASE UpdateCustomer(r)
    BY <1>1, <1>3, <2>1, <2>2 DEF UpdateCustomer, CustomerRow
  <2>3. CASE RemoveCustomer(r)
    BY <1>1, <1>3, <2>1, <2>3 DEF RemoveCustomer, CustomerRow
  <2> QED BY <1>4, <2>2, <2>3
<1>5. CASE \E r \in Request : CreateCustomer(r)
  BY <1>1, <1>2, <1>5, NoCustomerIsNoRow DEF InTable
<1>6. CASE \E r \in Request : UpdateCustomer(r) \/ RemoveCustomer(r)
  <2>1. PICK r \in Request : UpdateCustomer(r) \/ RemoveCustomer(r)
    BY <1>6
  <2>2. \A c \in Customer : customers'[c] \in CustomerRow \cup {NoCustomer}
    BY <1>1, <1>4, <2>1
  <2>3. customers' \in [Customer -> CustomerRow \cup {NoCustomer}]
    BY <1>4, <2>1, <2>2
  <2> QED BY <1>3, <1>4, <2>1, <2>3, NoCustomerIsNoRow DEF InTable
<1>7. CASE customers' = customers
  BY <1>1, <1>7 DEF InTable
<1>8. \/ \E r \in Request : CreateCustomer(r)
      \/ \E r \in Request : UpdateCustomer(r) \/ RemoveCustomer(r)
      \/ customers' = customers
  BY DEF Next, vars, CustomersStep, FindCustomer
<1> QED BY <1>5, <1>6, <1>7, <1>8

-----------------------------------------------------------------------------
(* Type correctness *)

\* A request keeps what it carries, and moves on only.
LEMMA Stages ==
    ASSUME TypeOK, [Next]_vars
    PROVE  /\ pc' \in [Request -> PC]
           /\ input' \in [Request -> Input \cup {NoInput}]
           /\ \A r \in Request :
                 /\ pc[r] # "idle" => pc'[r] # "idle" /\ input'[r] = input[r]
                 /\ pc[r] = "idle" /\ pc'[r] # "idle" =>
                       /\ pc'[r] = "guard"
                       /\ input'[r] \in Input /\ Exists(input'[r].actor)
                 /\ pc[r] \in Final => pc'[r] = pc[r]
                 /\ pc'[r] = "write" /\ pc[r] # "write" =>
                       \/ Op(r) \in {"createUser", "createCustomer"}
                       \/ OnUser(r) /\ Exists(Target(r))
                       \/ OnCustomer(r) /\ InTable(Subject(r))
                 /\ pc'[r] \in {"conflict", "error"} /\ pc[r] # pc'[r] =>
                       /\ Op(r) = "createUser"
                       /\ EmailInUse(input[r].body.email)
<1>1. ASSUME NEW q \in Request, Arrive(q)
      PROVE  /\ pc[q] = "idle" /\ pc' = [pc EXCEPT ![q] = "guard"]
             /\ input' = [input EXCEPT ![q] = input'[q]]
             /\ input'[q] \in Input /\ Exists(input'[q].actor)
  <2>1. PICK u \in {v \in User : Exists(v)}, body \in Inputs :
           input' = [input EXCEPT ![q] =
              [actor |-> u, claim |-> users[u].role, body |-> body]]
    BY <1>1 DEF Arrive
  <2>2. users[u].role \in Role
    BY DEF TypeOK, Exists, UserRow
  <2>3. input'[q] = [actor |-> u, claim |-> users[u].role, body |-> body]
    BY <2>1 DEF TypeOK
  <2>4. input'[q] \in Input /\ input'[q].actor = u
    BY <2>2, <2>3, InputsAreBodies DEF Input
  <2> QED BY <1>1, <2>1, <2>3, <2>4 DEF Arrive, Goto
<1>2. CASE \E q \in Request : Arrive(q)
  BY <1>1, <1>2 DEF TypeOK, PC, InService, Final
<1>3. ASSUME NEW q \in Request,
             Guard(q) \/ UsersStep(q) \/ CustomersStep(q) \/ Fail(q)
      PROVE  /\ pc[q] \in InService /\ input' = input
             /\ pc' = [pc EXCEPT ![q] = pc'[q]]
             /\ pc'[q] \in PC \ {"idle", "guard"}
             /\ pc'[q] = "write" =>
                       \/ Op(q) \in {"createUser", "createCustomer"}
                       \/ OnUser(q) /\ Exists(Target(q))
                       \/ OnCustomer(q) /\ InTable(Subject(q))
             /\ pc'[q] \in {"conflict", "error"} =>
                       /\ Op(q) = "createUser"
                       /\ EmailInUse(input[q].body.email)
  BY <1>3 DEF Guard, UsersStep, CustomersStep, Fail, LookUpEmail, InsertUser,
     EmailTaken, UniqueIndexHolds, CheckUser, Found, UpdateUser, DeactivateUser,
     CreateCustomer, FindCustomer, Live, UpdateCustomer, RemoveCustomer, Goto,
     TypeOK, PC, InService, Final
<1>4. CASE \E q \in Request : Guard(q) \/ UsersStep(q) \/ CustomersStep(q) \/ Fail(q)
  BY <1>3, <1>4 DEF TypeOK, InService, Final
<1>5. CASE pc' = pc /\ input' = input
  BY <1>5 DEF TypeOK
<1>6. \/ \E q \in Request : Arrive(q)
      \/ \E q \in Request : Guard(q) \/ UsersStep(q) \/ CustomersStep(q) \/ Fail(q)
      \/ pc' = pc /\ input' = input
  BY DEF Next, vars, Reseed
<1> QED BY <1>2, <1>4, <1>5, <1>6

\* Every variable keeps its type, and a stage is reached with what it needs.
THEOREM TypeCorrect == Spec => []TypeOK
<1>1. Init => TypeOK
  <2> SUFFICES ASSUME Init PROVE TypeOK
    OBVIOUS
  <2>1. /\ users \in [User -> UserRow \cup {NoRow}]
        /\ \A u \in Seeded : Exists(u) /\ users[u].email = u
        /\ \A r \in Request : ~Exists(r)
    BY SeedRows, NoRowIsNoRow, RequestsFresh DEF Init, UsersInit, Exists, User,
       SeedRow
  <2>2. NewRow \in CustomerRow
    BY DEF NewRow, CustomerRow
  <2>3. /\ customers \in [Customer -> CustomerRow \cup {NoCustomer}]
        /\ \A r \in Request : ~InTable(r)
    BY <2>2, SeedCustomersFresh DEF Init, InTable, Customer
  <2>4. /\ pc \in [Request -> PC] /\ \A r \in Request : pc[r] = "idle"
        /\ input \in [Request -> Input \cup {NoInput}]
    BY DEF Init, UsersInit, PC
  <2> QED BY <2>1, <2>3, <2>4 DEF TypeOK, Carries, FoundBeforeWrite
<1>2. TypeOK /\ [Next]_vars => TypeOK'
  <2> SUFFICES ASSUME TypeOK, [Next]_vars PROVE TypeOK'
    OBVIOUS
  <2>1. \A u \in Seeded : Exists(u)' /\ users'[u].email = u
    BY UserRows DEF TypeOK, User
  <2>2. Carries'
    <3> SUFFICES ASSUME NEW r \in Request
                 PROVE  /\ pc'[r] # "idle" =>
                              input'[r] \in Input /\ Exists(input[r].actor)'
                        /\ pc'[r] \in {"conflict", "error"} => Op(r)' = "createUser"
                        /\ pc'[r] \in {"idle"} \cup InService =>
                              ~Exists(r)' /\ ~InTable(r)'
      BY DEF Carries
    <3>1. pc'[r] # "idle" => /\ input'[r] \in Input
                             /\ Exists(input'[r].actor)
                             /\ pc[r] # "idle" => input'[r] = input[r]
      BY Stages DEF TypeOK, Carries
    <3>2. pc'[r] # "idle" => input'[r].actor \in User
      BY <3>1 DEF Input
    <3>3. pc'[r] # "idle" => Exists(input[r].actor)'
      BY <3>1, <3>2, UserRows DEF Exists
    <3>4. pc'[r] \in {"conflict", "error"} => pc[r] # "idle" /\ Op(r) = "createUser"
      BY Stages DEF TypeOK, Carries
    <3>5. pc'[r] \in {"conflict", "error"} => Op(r)' = "createUser"
      BY <3>1, <3>4 DEF Op
    <3>6. ASSUME pc'[r] \in {"idle"} \cup InService
          PROVE  ~Exists(r)' /\ ~InTable(r)'
      <4>1. pc[r] \notin Final /\ pc[r] \in PC /\ pc'[r] # "done"
        BY <3>6, Stages DEF Final, InService, TypeOK
      <4>2. ~Exists(r) /\ ~InTable(r)
        BY <4>1 DEF TypeOK, Carries, PC
      <4>3. r \in User /\ r \in Customer
        BY DEF User, Customer
      <4> QED BY <4>1, <4>2, <4>3, UserRows, CustomerRows
    <3> QED BY <3>1, <3>3, <3>5, <3>6
  <2>3. FoundBeforeWrite'
    <3> SUFFICES ASSUME NEW r \in Request, pc'[r] = "write"
                 PROVE  /\ OnUser(r)' => Exists(Target(r))'
                        /\ OnCustomer(r)' => InTable(Subject(r))'
      BY DEF FoundBeforeWrite
    <3>1. pc[r] # "idle" /\ input'[r] = input[r]
      BY Stages
    <3>2. /\ OnUser(r) => Target(r) \in User /\ Exists(Target(r))
          /\ OnCustomer(r) => Subject(r) \in Customer /\ InTable(Subject(r))
      BY <3>1, Stages, BodyTypes DEF TypeOK, FoundBeforeWrite, OnUser, OnCustomer,
         Target, Subject, UpdateUserBody, DeactivateBody, EditCustomerBody
    <3> QED BY <3>1, <3>2, UserRows, CustomerRows DEF OnUser, OnCustomer, Op,
       Target, Subject
  <2> QED BY <2>1, <2>2, <2>3, UserRows, CustomerRows, Stages DEF TypeOK
<1> QED BY <1>1, <1>2, PTL DEF Spec

-----------------------------------------------------------------------------
(* Users *)

\* A unique address stays unique: a new row has one that nobody had.
THEOREM AddressesUnique == Spec => []EmailsUnique
<1>1. Init => EmailsUnique
  <2> SUFFICES ASSUME Init, NEW u \in User, NEW v \in User,
                      Exists(u), Exists(v), users[u].email = users[v].email
               PROVE  u = v
    BY DEF EmailsUnique
  <2> QED BY DEF Init, UsersInit, Exists, SeedRow
<1>2. TypeOK /\ EmailsUnique /\ [Next]_vars => EmailsUnique'
  <2> SUFFICES ASSUME TypeOK, EmailsUnique, [Next]_vars,
                      NEW u \in User, NEW v \in User,
                      Exists(u)', Exists(v)', users'[u].email = users'[v].email
               PROVE  u = v
    BY DEF EmailsUnique
  <2>1. CASE Exists(u) /\ Exists(v)
    BY <2>1, UserRows DEF EmailsUnique
  <2>2. CASE ~Exists(u) /\ u # v
    BY <2>2, UserRows DEF EmailInUse, Exists
  <2>3. CASE ~Exists(v) /\ u # v
    BY <2>3, UserRows DEF EmailInUse, Exists
  <2> QED BY <2>1, <2>2, <2>3
<1> QED BY <1>1, <1>2, TypeCorrect, PTL DEF Spec

\* An address in use stays in use, so a refusal stays right.
THEOREM ConflictsAreReal == Spec => []ConflictIsReal
<1>1. Init => ConflictIsReal
  BY DEF Init, UsersInit, ConflictIsReal
<1>2. TypeOK /\ ConflictIsReal /\ [Next]_vars => ConflictIsReal'
  <2> SUFFICES ASSUME TypeOK, ConflictIsReal, [Next]_vars, NEW r \in Request,
                      pc'[r] \in {"conflict", "error"}
               PROVE  EmailInUse(input[r].body.email)'
    BY DEF ConflictIsReal
  <2>1. EmailInUse(input[r].body.email) /\ input'[r] = input[r]
    BY Stages DEF ConflictIsReal
  <2>2. PICK u \in User : Exists(u) /\ users[u].email = input[r].body.email
    BY <2>1 DEF EmailInUse
  <2> QED BY <2>1, <2>2, UserRows DEF EmailInUse
<1> QED BY <1>1, <1>2, TypeCorrect, PTL DEF Spec

\* A request past the guard was there before, or has just shown a role that
\* its route asks for.
LEMMA PassesGuard ==
    ASSUME TypeOK, [Next]_vars, NEW r \in Request, pc'[r] \in {"read", "write"}
    PROVE  /\ input'[r] = input[r]
           /\ \/ pc[r] \in {"read", "write"}
              \/ /\ users[input[r].actor].active
                 /\ RoleOf(r) \in Required(Op(r))
<1>1. pc[r] # "idle" /\ input'[r] = input[r]
  BY Stages
<1>2. ASSUME pc[r] \notin {"read", "write"}
      PROVE  users[input[r].actor].active /\ RoleOf(r) \in Required(Op(r))
  <2>1. PICK q \in Request : \/ Arrive(q) \/ Guard(q) \/ UsersStep(q)
                             \/ CustomersStep(q) \/ Fail(q)
    BY <1>2 DEF Next, vars, Reseed
  <2>2. q = r
    <3>1. \E to : Goto(q, to)
      BY <2>1 DEF UsersStep, CustomersStep, Arrive, Guard, Fail, LookUpEmail,
         InsertUser, EmailTaken, CheckUser, UpdateUser, DeactivateUser,
         CreateCustomer, FindCustomer, UpdateCustomer, RemoveCustomer
    <3> QED BY <1>2, <3>1 DEF Goto, TypeOK
  <2>3. Guard(r)
    BY <1>1, <1>2, <2>1, <2>2 DEF UsersStep, CustomersStep, Arrive, Fail,
       LookUpEmail, InsertUser, EmailTaken, CheckUser, UpdateUser,
       DeactivateUser, CreateCustomer, FindCustomer, UpdateCustomer,
       RemoveCustomer, Goto, TypeOK
  <2> QED BY <2>3 DEF Guard, Goto, TypeOK
<1> QED BY <1>1, <1>2

\* Without an active ADMIN no request passes the guard to the users service,
\* and nothing but the seed writes the table.
LEMMA LockedOutStep ==
    ASSUME TypeOK, [Next]_vars, LockedOut
    PROVE  \/ LockedOut'
           \/ \E u \in Seeded : users[u] # SeedRow(u) /\ users'[u] = SeedRow(u)
<1>1. CASE users' = users
  <2>1. ASSUME NEW r \in Request, pc'[r] \in {"read", "write"}
        PROVE  ~UserOp(r)'
    <3>1. pc[r] # "idle" /\ input'[r] = input[r]
      BY <2>1, Stages
    <3>2. CASE pc[r] \in {"read", "write"}
      BY <3>1, <3>2 DEF LockedOut, UserOp, OnUser, Op
    <3>3. CASE pc[r] \notin {"read", "write"}
      <4>1. users[input[r].actor].active /\ RoleOf(r) \in Required(Op(r))
        BY <2>1, <3>3, PassesGuard
      <4>2. users[input[r].actor].role # "ADMIN"
        BY <3>1, <4>1, BodyTypes DEF LockedOut
      <4>3. Op(r) \notin {"createUser", "updateUser", "deactivateUser"}
        BY <4>1, <4>2 DEF RoleOf, Required
      <4> QED BY <3>1, <4>3 DEF UserOp, OnUser, Op
    <3> QED BY <3>2, <3>3
  <2> QED BY <1>1, <2>1 DEF LockedOut, Exists
<1>2. ASSUME NEW u \in Seeded, Reseed(u), users' # users
      PROVE  users[u] # SeedRow(u) /\ users'[u] = SeedRow(u)
  <2>1. users[u] \in UserRow /\ u \in User /\ users[u].email = u
    BY DEF TypeOK, Exists, User
  <2>2. users'[u] = [users[u] EXCEPT !.role = SeedUsers[u], !.active = TRUE]
    BY <1>2, <2>1 DEF Reseed, TypeOK
  <2>3. users' = [users EXCEPT ![u] = users'[u]]
    BY <1>2, <2>2 DEF Reseed
  <2>4. users'[u] = SeedRow(u)
    BY <2>1, <2>2 DEF UserRow, SeedRow
  <2>5. users'[u] # users[u]
    BY <1>2, <2>3 DEF TypeOK
  <2> QED BY <2>4, <2>5
<1>3. ~ \E r \in Request : InsertUser(r) \/ UpdateUser(r) \/ DeactivateUser(r)
  BY DEF LockedOut, InsertUser, UpdateUser, DeactivateUser, UserOp, OnUser
<1> QED BY <1>1, <1>2, <1>3, UserWriters

\* Who has no administrator has none for good.
THEOREM LockoutIsFinal == Spec => LockedOutStays
<1>1. TypeOK /\ [Next]_vars =>
        [LockedOut =>
            LockedOut' \/ \E u \in Seeded : /\ users[u] # SeedRow(u)
                                            /\ users'[u] = SeedRow(u)]_<<users, pc, input>>
  BY LockedOutStep
<1> QED BY <1>1, TypeCorrect, PTL DEF Spec, LockedOutStays

-----------------------------------------------------------------------------
(* Customers *)

\* With no write under way, a removed customer keeps its row, and no request
\* finds it any more.
LEMMA SettledStep ==
    ASSUME TypeOK, [Next]_vars, NEW c \in Customer, Settled(c)
    PROVE  Settled(c)' /\ customers'[c] = customers[c]
<1>1. InTable(c)' /\ customers'[c].removed
  BY CustomerRows DEF Settled
<1>2. ASSUME NEW r \in Request, pc'[r] = "write", OnCustomer(r)'
      PROVE  Subject(r)' # c
  <2>1. pc[r] # "idle" /\ input'[r] = input[r]
    BY <1>2, Stages
  <2>2. OnCustomer(r) /\ Subject(r)' = Subject(r)
    BY <1>2, <2>1 DEF OnCustomer, Op, Subject
  <2>3. CASE pc[r] = "write"
    BY <2>2, <2>3 DEF Settled
  <2>4. CASE pc[r] # "write"
    <3>1. FindCustomer(r)
      BY <1>2, <2>2, <2>4 DEF Next, vars, UsersStep, CustomersStep, Arrive,
         Guard, Fail, LookUpEmail, InsertUser, EmailTaken, CheckUser, OnUser,
         UpdateUser, DeactivateUser, CreateCustomer, FindCustomer,
         UpdateCustomer, RemoveCustomer, Reseed, Goto, TypeOK, OnCustomer
    <3>2. Live(Subject(r))
      BY <1>2, <3>1 DEF FindCustomer, Goto, TypeOK
    <3> QED BY <2>2, <3>2 DEF Live, Settled
  <2> QED BY <2>3, <2>4
<1>3. customers'[c] = customers[c]
  <2>1. CASE \E r \in Request : CreateCustomer(r)
    BY <2>1 DEF CreateCustomer, TypeOK, Carries, InService, Settled
  <2>2. CASE \E r \in Request : UpdateCustomer(r) \/ RemoveCustomer(r)
    BY <2>2 DEF UpdateCustomer, RemoveCustomer, TypeOK, OnCustomer, Settled
  <2>3. CASE customers' = customers
    BY <2>3
  <2> QED BY <2>1, <2>2, <2>3 DEF Next, vars, CustomersStep, FindCustomer
<1> QED BY <1>1, <1>2, <1>3 DEF Settled

\* Removed is removed.
THEOREM RemovedStays == Spec => RemovedIsHistory
<1>1. TypeOK /\ [Next]_vars =>
        [\A c \in Customer : Settled(c) =>
            Settled(c)' /\ customers'[c] = customers[c]]_vars
  BY SettledStep
<1> QED BY <1>1, TypeCorrect, PTL DEF Spec, RemovedIsHistory

-----------------------------------------------------------------------------
(* Edits by users who may not edit *)

LEMMA BarredStep ==
    ASSUME TypeOK, [Next]_vars, NEW u \in User, Barred(u)
    PROVE  /\ Barred(u)' \/ users'[u] # users[u]
           /\ EditedBy(u)' \subseteq EditedBy(u)
<1>1. ASSUME users'[u] = users[u] PROVE Barred(u)'
  <2>1. Exists(u)' /\ (\/ ~users'[u].active
                      \/ users'[u].role \notin Required("updateCustomer"))
    BY <1>1 DEF Barred, Exists, Required
  <2>2. ASSUME NEW r \in Request, pc'[r] \in {"read", "write"}
        PROVE  input'[r].actor # u
    <3>1. input'[r] = input[r]
      BY <2>2, PassesGuard
    <3>2. CASE pc[r] \in {"read", "write"}
      BY <3>1, <3>2 DEF Barred
    <3>3. CASE users[input[r].actor].active /\ RoleOf(r) \in Required(Op(r))
      BY <3>1, <3>3 DEF Barred, RoleOf, Required
    <3> QED BY <2>2, <3>2, <3>3, PassesGuard
  <2> QED BY <2>1, <2>2 DEF Barred, Required
<1>2. ASSUME NEW c \in Customer, InTable(c)', customers'[c].updatedBy = u
      PROVE  InTable(c) /\ customers[c].updatedBy = u
  <2>1. ASSUME NEW r \in Request, CreateCustomer(r)
        PROVE  customers'[c] = customers[c]
    BY <1>2, <2>1, NoneIsNobody DEF CreateCustomer, NewRow, TypeOK
  <2>2. ASSUME NEW r \in Request, UpdateCustomer(r)
        PROVE  customers'[c] = customers[c]
    <3>1. input[r].actor # u
      BY <2>2 DEF UpdateCustomer, Barred
    <3>2. /\ OnCustomer(r) /\ InTable(Subject(r))
          /\ customers' = [customers EXCEPT
                             ![Subject(r)].updatedBy = input[r].actor]
      BY <2>2 DEF UpdateCustomer, OnCustomer, TypeOK, FoundBeforeWrite
    <3>3. c = Subject(r) => customers[c] \in CustomerRow
      BY <3>2 DEF InTable, TypeOK
    <3>4. c # Subject(r)
      BY <1>2, <3>1, <3>2, <3>3 DEF CustomerRow, TypeOK
    <3> QED BY <3>2, <3>4 DEF TypeOK
  <2>3. ASSUME NEW r \in Request, RemoveCustomer(r)
        PROVE  InTable(c) /\ customers[c].updatedBy = u
    <3>1. /\ OnCustomer(r) /\ InTable(Subject(r))
          /\ customers' = [customers EXCEPT ![Subject(r)].removed = TRUE]
      BY <2>3 DEF RemoveCustomer, OnCustomer, TypeOK, FoundBeforeWrite
    <3>2. CASE c = Subject(r)
      <4>1. customers[c] \in CustomerRow /\ InTable(c)
        BY <3>1, <3>2 DEF InTable, TypeOK
      <4> QED BY <1>2, <3>1, <3>2, <4>1 DEF CustomerRow, TypeOK
    <3>3. CASE c # Subject(r)
      BY <1>2, <3>1, <3>3 DEF InTable, TypeOK
    <3> QED BY <3>2, <3>3
  <2>4. CASE customers' = customers
    BY <1>2, <2>4 DEF InTable
  <2>5. \/ \E r \in Request : CreateCustomer(r) \/ UpdateCustomer(r)
        \/ \E r \in Request : RemoveCustomer(r)
        \/ customers' = customers
    BY DEF Next, vars, CustomersStep, FindCustomer
  <2> QED BY <1>2, <2>1, <2>2, <2>3, <2>4, <2>5 DEF InTable
<1> QED BY <1>1, <1>2 DEF EditedBy

\* Who may not edit customers does not, for whatever token they present.
THEOREM BarredStaysOut == Spec => BarredEditsNothing
<1>1. TypeOK /\ [Next]_vars =>
        [\A u \in User : Barred(u) =>
            /\ Barred(u)' \/ users'[u] # users[u]
            /\ EditedBy(u)' \subseteq EditedBy(u)]_vars
  BY BarredStep
<1> QED BY <1>1, TypeCorrect, PTL DEF Spec, BarredEditsNothing

=============================================================================
