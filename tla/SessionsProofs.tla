--------------------------- MODULE SessionsProofs ---------------------------
(***************************************************************************)
(* Theorems about Sessions, for every set of requests and users.           *)
(***************************************************************************)
EXTENDS SerialSessions, TLAPS

-----------------------------------------------------------------------------
(* Rows and stages under a step *)

LEMMA NoRowIsNoRow == NoRow \notin Row
<1> SUFFICES ASSUME NoRow \in Row PROVE FALSE
  OBVIOUS
<1>1. PICK u \in User, f \in Family, b \in BOOLEAN :
         NoRow = [user |-> u, family |-> f, revoked |-> b]
  BY DEF Row
<1>2. /\ "revoked" \notin DOMAIN NoRow
      /\ "revoked" \in DOMAIN [user |-> u, family |-> f, revoked |-> b]
  BY DEF NoRow
<1> QED BY <1>1, <1>2

\* What a request carries, by its operation.
LEMMA BodyTypes ==
    ASSUME TypeOK, NEW r \in Request, pc[r] # "idle"
    PROVE  /\ IsLogin(r) => input[r] \in LoginBody
           /\ IsRefresh(r) => input[r] \in RefreshBody
           /\ IsLogout(r) => input[r] \in LogoutBody
           /\ IsLogin(r) \/ IsRefresh(r) \/ IsLogout(r)
BY DEF TypeOK, StageOfOp, Body, LoginBody, RefreshBody, LogoutBody, IsLogin,
   IsRefresh, IsLogout, Rotating

\* updateMany keeps every row but for its revokedAt, and never clears that.
LEMMA RevokeRows ==
    ASSUME TypeOK, NEW S, Revoke(S)
    PROVE  /\ token' \in [Token -> Row \cup {NoRow}]
           /\ \A t \in Token : ~Issued(t) => token'[t] = NoRow
           /\ \A t \in Token : Issued(t) =>
                 /\ token'[t] # NoRow
                 /\ token'[t].user = token[t].user
                 /\ token'[t].family = token[t].family
                 /\ token[t].revoked => token'[t].revoked
                 /\ t \in S => token'[t].revoked
<1>1. token \in [Token -> Row \cup {NoRow}]
  BY DEF TypeOK
<1>2. ASSUME NEW t \in Token, Issued(t)
      PROVE  /\ token'[t] \in Row
             /\ token'[t].user = token[t].user
             /\ token'[t].family = token[t].family
             /\ token[t].revoked => token'[t].revoked
             /\ t \in S => token'[t].revoked
  <2>1. token[t] \in Row
    BY <1>1, <1>2 DEF Issued
  <2>2. CASE t \in S
    <3>1. token'[t] = [token[t] EXCEPT !.revoked = TRUE]
      BY <1>2, <2>2 DEF Revoke
    <3> QED BY <2>1, <3>1 DEF Row
  <2>3. CASE t \notin S
    <3>1. token'[t] = token[t]
      BY <2>3 DEF Revoke
    <3> QED BY <2>1, <2>3, <3>1
  <2> QED BY <2>2, <2>3
<1>3. ASSUME NEW t \in Token, ~Issued(t) PROVE token'[t] = NoRow
  BY <1>3 DEF Revoke, Issued
<1>4. token' = [t \in Token |-> token'[t]]
  BY DEF Revoke
<1>5. token' \in [Token -> Row \cup {NoRow}]
  <2>1. \A t \in Token : token'[t] \in Row \cup {NoRow}
    BY <1>2, <1>3
  <2> QED BY <1>4, <2>1
<1> QED BY <1>2, <1>3, <1>5, NoRowIsNoRow

\* issuePair inserts one live row, of the login's or the presented row's
\* user and family.
LEMMA InsertRow ==
    ASSUME TypeOK, NEW r \in Request, IssuePair(r)
    PROVE  /\ ~Issued(r)
           /\ token' \in [Token -> Row \cup {NoRow}]
           /\ token'[r] = [user |-> UserFor(r), family |-> FamilyFor(r),
                           revoked |-> FALSE]
           /\ token'[r] # NoRow
           /\ \A t \in Token \ {r} : token'[t] = token[t]
<1>1. pc[r] = "issue" /\ ~IsLogout(r) /\ ~Issued(r)
  BY DEF TypeOK, StageOfOp, RowAfterInsert, IssuePair, Rotating
<1>2. UserFor(r) \in User /\ FamilyFor(r) \in Family
  <2>1. CASE IsLogin(r)
    BY <1>1, <2>1, BodyTypes DEF UserFor, FamilyFor, LoginBody, Family
  <2>2. CASE ~IsLogin(r)
    <3>1. IsRefresh(r) /\ input[r] \in RefreshBody
      BY <1>1, <2>2, BodyTypes
    <3>2. input[r].token \in Token /\ Issued(input[r].token)
      BY <1>1, <3>1 DEF RefreshBody, TypeOK, StageOfOp, Rotating
    <3>3. Presented(r) \in Row
      BY <3>2 DEF Presented, TypeOK, Issued
    <3> QED BY <2>2, <3>3 DEF UserFor, FamilyFor, Row
  <2> QED BY <2>1, <2>2
<1>3. [user |-> UserFor(r), family |-> FamilyFor(r), revoked |-> FALSE] \in Row
  BY <1>2 DEF Row
<1> QED BY <1>1, <1>3, NoRowIsNoRow DEF IssuePair, TypeOK, Token

\* A request keeps what it carries, and is never idle again.
LEMMA InputKept ==
    ASSUME TypeOK, [Next]_vars, NEW r \in Request, pc[r] # "idle"
    PROVE  input'[r] = input[r] /\ pc'[r] # "idle"
BY DEF TypeOK, Next, vars, Step, Arrive, ArriveLogin, ArriveRefresh,
   ArriveLogout, FindUser, FindToken, FindOwner, AfterVerify, RevokeToken,
   IssuePair, Answer, RevokeFamily, Validate, RevokeAll, Fail, Update,
   Deactivate, Expire, Goto

\* A request that has arrived moves by steps of its own.
LEMMA OwnStep ==
    ASSUME TypeOK, [Next]_vars, NEW r \in Request, pc[r] # "idle",
           pc'[r] # pc[r]
    PROVE  Step(r) \/ Fail(r)
<1>1. ASSUME NEW q \in Request \ {r}, Arrive(q) \/ Step(q) \/ Fail(q)
      PROVE  pc'[r] = pc[r]
  <2>1. \E to : Goto(q, to)
    BY <1>1 DEF Arrive, ArriveLogin, ArriveRefresh, ArriveLogout, Step,
       FindUser, FindToken, FindOwner, RevokeToken, IssuePair, Answer,
       RevokeFamily, Validate, RevokeAll, Fail
  <2> QED BY <2>1 DEF Goto, TypeOK
<1>2. ~Arrive(r)
  BY DEF Arrive
<1> QED BY <1>1, <1>2 DEF Next, vars, Update, Deactivate, Expire

\* The steps that touch the token table.
LEMMA TokenWriters ==
    ASSUME [Next]_vars
    PROVE  \/ \E r \in Request : \/ RevokeToken(r) \/ IssuePair(r)
                                 \/ RevokeFamily(r) \/ RevokeAll(r)
           \/ token' = token
BY DEF Next, vars, Step, Arrive, FindUser, FindToken, FindOwner, AfterVerify,
   Answer, Validate, Fail, Update, Deactivate, Expire

\* A row is never deleted or handed to another user or family, and a revoked
\* one is never live again.
LEMMA RowsKept ==
    ASSUME TypeOK, [Next]_vars, NEW t \in Token, Issued(t)
    PROVE  /\ token'[t] # NoRow
           /\ token'[t].user = token[t].user
           /\ token'[t].family = token[t].family
           /\ token[t].revoked => token'[t].revoked
<1>1. ASSUME NEW r \in Request, NEW S, Revoke(S)
      PROVE  /\ token'[t] # NoRow
             /\ token'[t].user = token[t].user
             /\ token'[t].family = token[t].family
             /\ token[t].revoked => token'[t].revoked
  BY <1>1, RevokeRows
<1>2. ASSUME NEW r \in Request, IssuePair(r) PROVE token'[t] = token[t]
  BY <1>2, InsertRow
<1>3. CASE token' = token
  BY <1>3 DEF Issued
<1> QED BY <1>1, <1>2, <1>3, TokenWriters DEF RevokeToken, RevokeFamily,
   RevokeAll, Issued

-----------------------------------------------------------------------------
(* Type correctness *)

LEMMA InitType == Init => TypeOK
BY DEF Init, TypeOK, StageOfOp, RowAfterInsert, PC, Issued, Token, Rotating

\* The tables and the stages alone.
LEMMA TypeStep ==
    ASSUME TypeOK, [Next]_vars
    PROVE  /\ active' \subseteq User
           /\ token' \in [Token -> Row \cup {NoRow}]
           /\ expired' \subseteq Token
           /\ pc' \in [Request -> PC]
           /\ input' \in [Request -> Body \cup {NoInput}]
<1> USE DEF TypeOK, Token
<1>1. token' \in [Token -> Row \cup {NoRow}]
  <2>1. ASSUME NEW r \in Request,
               RevokeToken(r) \/ RevokeFamily(r) \/ RevokeAll(r)
        PROVE  token' \in [Token -> Row \cup {NoRow}]
    BY <2>1, RevokeRows DEF RevokeToken, RevokeFamily, RevokeAll
  <2>2. ASSUME NEW r \in Request, IssuePair(r)
        PROVE  token' \in [Token -> Row \cup {NoRow}]
    BY <2>2, InsertRow
  <2> QED BY <2>1, <2>2, TokenWriters
<1>2. input' \in [Request -> Body \cup {NoInput}]
  <2>1. ASSUME NEW r \in Request, Arrive(r)
        PROVE  input' \in [Request -> Body \cup {NoInput}]
    <3>1. CASE ArriveLogin(r)
      BY <3>1 DEF ArriveLogin, Body, LoginBody
    <3>2. CASE ArriveRefresh(r)
      BY <3>2 DEF ArriveRefresh, Delivered, Body, RefreshBody
    <3>3. CASE ArriveLogout(r)
      <4>1. PICK t \in Delivered :
               input' = [input EXCEPT ![r] =
                            [op |-> "logout", user |-> token[t].user]]
        BY <3>3 DEF ArriveLogout
      <4>2. token[t] \in Row
        BY DEF Delivered, Issued
      <4>3. [op |-> "logout", user |-> token[t].user] \in Body
        BY <4>2 DEF Row, Body, LogoutBody
      <4> QED BY <4>1, <4>3
    <3> QED BY <2>1, <3>1, <3>2, <3>3 DEF Arrive
  <2> QED BY <2>1 DEF Next, vars, Step, FindUser, FindToken, FindOwner,
     AfterVerify, RevokeToken, IssuePair, Answer, RevokeFamily, Validate,
     RevokeAll, Fail, Update, Deactivate, Expire
<1>3. pc' \in [Request -> PC]
  BY DEF Next, vars, Step, Arrive, ArriveLogin, ArriveRefresh, ArriveLogout,
     FindUser, FindToken, FindOwner, AfterVerify, RevokeToken, IssuePair,
     Answer, RevokeFamily, Validate, RevokeAll, Fail, Update, Deactivate,
     Expire, Goto, PC, InService, Final, Rotating
<1>4. active' \subseteq User /\ expired' \subseteq Token
  BY DEF Next, vars, Step, Arrive, FindUser, FindToken, FindOwner, AfterVerify,
     RevokeToken, IssuePair, Answer, RevokeFamily, Validate, RevokeAll, Fail,
     Update, Deactivate, Expire
<1> QED BY <1>1, <1>2, <1>3, <1>4

\* A stage is entered by the operations that have it.
LEMMA StageStep ==
    ASSUME TypeOK, [Next]_vars
    PROVE  StageOfOp'
<1> SUFFICES ASSUME NEW r \in Request
             PROVE  /\ pc'[r] # "idle" => input'[r] \in Body
                    /\ pc'[r] = "user" => IsLogin(r)'
                    /\ pc'[r] \in Rotating \cup {"reuse"}
                          => IsRefresh(r)'
                    /\ pc'[r] \in {"guard", "revokeAll"} => IsLogout(r)'
                    /\ pc'[r] \in {"issue", "answer"} => ~IsLogout(r)'
                    /\ pc'[r] # "idle" /\ IsRefresh(r)'
                          => token'[input'[r].token] # NoRow
  BY DEF StageOfOp, Issued, IsLogin, IsRefresh, IsLogout, Rotating
<1>1. CASE pc[r] = "idle"
  <2>3. CASE Arrive(r)
    <3>1. input'[r] # NoInput /\ input'[r] \in Body
      <4>1. input'[r] \in Body \cup {NoInput}
        BY TypeStep
      <4>2. input'[r].op \in {"login", "refresh", "logout"}
        BY <2>3 DEF TypeOK, Arrive, ArriveLogin, ArriveRefresh, ArriveLogout
      <4> QED BY <4>1, <4>2 DEF NoInput
    <3>2. CASE ArriveLogin(r)
      <4>1. pc'[r] = "user" /\ input'[r].op = "login"
        BY <3>2 DEF ArriveLogin, Goto, TypeOK
      <4> QED BY <3>1, <4>1 DEF IsLogin, IsRefresh, IsLogout, Rotating
    <3>3. CASE ArriveRefresh(r)
      <4>1. PICK t \in Delivered :
               /\ pc'[r] = "token" /\ input'[r].op = "refresh"
               /\ input'[r].token = t
        BY <3>3 DEF ArriveRefresh, Goto, TypeOK
      <4>2. token'[t] # NoRow
        BY RowsKept DEF Delivered
      <4> QED BY <3>1, <4>1, <4>2 DEF IsLogin, IsRefresh, IsLogout, Issued
    <3>4. CASE ArriveLogout(r)
      <4>1. pc'[r] = "guard" /\ input'[r].op = "logout"
        BY <3>4 DEF ArriveLogout, Goto, TypeOK
      <4> QED BY <3>1, <4>1 DEF IsLogin, IsRefresh, IsLogout, Rotating
    <3> QED BY <2>3, <3>2, <3>3, <3>4 DEF Arrive
  <2>1. ASSUME NEW q \in Request \ {r}, Arrive(q) PROVE pc'[r] = pc[r]
    BY <2>1 DEF Arrive, ArriveLogin, ArriveRefresh, ArriveLogout, Goto, TypeOK
  <2>2. ASSUME ~ \E q \in Request : Arrive(q) PROVE pc'[r] = pc[r]
    BY <1>1, <2>2 DEF Next, vars, Step, FindUser, FindToken, FindOwner,
       AfterVerify, RevokeToken, IssuePair, Answer, RevokeFamily, Validate,
       RevokeAll, Fail, Update, Deactivate, Expire, Goto, TypeOK, InService,
       Rotating
  <2>4. CASE ~Arrive(r)
    <3>1. pc'[r] = "idle"
      BY <1>1, <2>1, <2>2, <2>4
    <3> QED BY <3>1 DEF Rotating
  <2> QED BY <2>3, <2>4
<1>2. CASE pc[r] # "idle"
  <2>1. input'[r] = input[r] /\ input[r] \in Body
    BY <1>2, InputKept DEF TypeOK, StageOfOp, Rotating
  <2>2. IsRefresh(r) => token'[input[r].token] # NoRow
    <3>1. IsRefresh(r) => input[r].token \in Token /\ Issued(input[r].token)
      BY <1>2, BodyTypes DEF RefreshBody, TypeOK, StageOfOp, Rotating
    <3> QED BY <3>1, RowsKept DEF Issued
  <2>3. /\ pc'[r] = "user" => IsLogin(r)
        /\ pc'[r] \in Rotating \cup {"reuse"} => IsRefresh(r)
        /\ pc'[r] \in {"guard", "revokeAll"} => IsLogout(r)
        /\ pc'[r] \in {"issue", "answer"} => ~IsLogout(r)
    <3>1. CASE Step(r)
      BY <3>1 DEF Step, FindUser, FindToken, FindOwner, AfterVerify,
         RevokeToken, IssuePair, Answer, RevokeFamily, Validate, RevokeAll,
         Goto, TypeOK, StageOfOp, IsLogin, IsRefresh, IsLogout, Rotating
    <3>2. CASE Fail(r)
      BY <3>2 DEF Fail, Goto, TypeOK, Rotating
    <3>3. CASE pc'[r] = pc[r]
      BY <3>3 DEF TypeOK, StageOfOp
    <3>4. Step(r) \/ Fail(r) \/ pc'[r] = pc[r]
      BY <1>2, OwnStep
    <3> QED BY <3>1, <3>2, <3>3, <3>4
  <2> QED BY <2>1, <2>2, <2>3 DEF IsLogin, IsRefresh, IsLogout, Issued
<1> QED BY <1>1, <1>2

LEMMA RowAfterInsertStep ==
    ASSUME TypeOK, [Next]_vars
    PROVE  RowAfterInsert'
<1> SUFFICES ASSUME NEW r \in Request
             PROVE  /\ token'[r] # NoRow => pc'[r] \in {"answer", "done", "failed"}
                    /\ pc'[r] = "answer" => token'[r] # NoRow
  BY DEF RowAfterInsert, Issued
<1>1. CASE IssuePair(r)
  BY <1>1, InsertRow DEF IssuePair, Goto, TypeOK
<1>2. CASE ~IssuePair(r)
  <2>1. token'[r] # NoRow <=> Issued(r)
    <3>1. ASSUME ~Issued(r) PROVE token'[r] = NoRow
      BY <1>2, <3>1, RevokeRows, InsertRow, TokenWriters
         DEF RevokeToken, RevokeFamily, RevokeAll, Issued, Token
    <3> QED BY <3>1, RowsKept DEF Token
  <2>2. /\ pc[r] \in {"answer", "done", "failed"}
              => pc'[r] \in {"answer", "done", "failed"}
        /\ pc'[r] = "answer" => pc[r] = "answer"
    BY <1>2 DEF Next, vars, Step, Arrive, ArriveLogin, ArriveRefresh,
       ArriveLogout, FindUser, FindToken, FindOwner, AfterVerify, RevokeToken,
       IssuePair, Answer, RevokeFamily, Validate, RevokeAll, Fail, Update,
       Deactivate, Expire, Goto, TypeOK
  <2> QED BY <2>1, <2>2 DEF TypeOK, RowAfterInsert
<1> QED BY <1>1, <1>2

\* Every variable keeps its type, and a stage is reached only with what it
\* relies on.
THEOREM TypeCorrect == Spec => []TypeOK
<1>1. Init => TypeOK
  BY InitType
<1>2. TypeOK /\ [Next]_vars => TypeOK'
  <2> SUFFICES ASSUME TypeOK, [Next]_vars PROVE TypeOK'
    OBVIOUS
  <2>1. StageOfOp' /\ RowAfterInsert'
    BY StageStep, RowAfterInsertStep
  <2> QED BY <2>1, TypeStep DEF TypeOK
<1> QED BY <1>1, <1>2, PTL DEF Spec

-----------------------------------------------------------------------------
(* Lineage *)

\* The two parts of LineageInv, each in the form a step preserves.
LEMMA LineageStep ==
    ASSUME TypeOK, TypeOK', LineageInv, [Next]_vars
    PROVE  LineageInv'
<1>1. ParentRevoked'
  <2> SUFFICES ASSUME NEW r \in Request, pc'[r] = "issue", IsRefresh(r)'
               PROVE  token'[input'[r].token].revoked
    BY DEF ParentRevoked, Presented
  <2>1. pc[r] # "idle"
    BY DEF Next, vars, Step, Arrive, ArriveLogin, ArriveRefresh, ArriveLogout,
       FindUser, FindToken, FindOwner, AfterVerify, RevokeToken, IssuePair,
       Answer, RevokeFamily, Validate, RevokeAll, Fail, Update, Deactivate,
       Expire, Goto, TypeOK
  <2>2. /\ input'[r] = input[r] /\ IsRefresh(r)
        /\ input[r].token \in Token /\ Issued(input[r].token)
    BY <2>1, InputKept, BodyTypes DEF IsRefresh, RefreshBody, TypeOK, StageOfOp,
       Rotating
  <2>3. CASE pc[r] = "issue"
    BY <2>2, <2>3, RowsKept DEF LineageInv, ParentRevoked, Presented
  <2>4. CASE RevokeToken(r)
    BY <2>2, <2>4, RevokeRows DEF RevokeToken
  <2>5. pc[r] = "issue" \/ RevokeToken(r)
    <3>1. pc[r] # "issue" => Step(r) \/ Fail(r)
      BY <2>1, OwnStep
    <3> QED BY <2>2, <3>1 DEF Step, FindUser, FindToken, FindOwner, AfterVerify,
       IssuePair, Answer, RevokeFamily, Validate, RevokeAll, Fail, Goto, TypeOK,
       StageOfOp, IsLogin, IsRefresh, Rotating
  <2> QED BY <2>3, <2>4, <2>5
<1>2. Lineage'
  <2> SUFFICES ASSUME NEW t \in Token, token'[t] # NoRow
               PROVE  /\ ~IsLogout(t)'
                      /\ IsLogin(t)' => /\ token'[t].family = t
                                        /\ token'[t].user = input'[t].user
                      /\ IsRefresh(t)' =>
                            /\ token'[input'[t].token] # NoRow
                            /\ token'[input'[t].token].revoked
                            /\ token'[t].family = token'[input'[t].token].family
                            /\ token'[t].user = token'[input'[t].token].user
    BY DEF Lineage, Presented, Issued
  <2>1. CASE Issued(t)
    <3>1. pc[t] # "idle"
      BY <2>1 DEF TypeOK, RowAfterInsert, Token
    <3>2. /\ input'[t] = input[t]
          /\ token'[t].user = token[t].user
          /\ token'[t].family = token[t].family
      BY <2>1, <3>1, InputKept, RowsKept DEF Token
    <3>3. ~IsLogout(t) /\ (IsLogin(t) => /\ token[t].family = t
                                         /\ token[t].user = input[t].user)
      BY <2>1 DEF LineageInv, Lineage
    <3>4. ASSUME IsRefresh(t)
          PROVE  /\ token'[input[t].token] # NoRow
                 /\ token'[input[t].token].revoked
                 /\ token[t].family = token'[input[t].token].family
                 /\ token[t].user = token'[input[t].token].user
      <4>1. input[t].token \in Token
        BY <3>1, <3>4, BodyTypes DEF RefreshBody, Token
      <4>2. /\ Issued(input[t].token)
            /\ token[input[t].token].revoked
            /\ token[t].family = token[input[t].token].family
            /\ token[t].user = token[input[t].token].user
        BY <2>1, <3>4 DEF LineageInv, Lineage, Presented
      <4> QED BY <4>1, <4>2, RowsKept
    <3> QED BY <3>2, <3>3, <3>4 DEF IsLogin, IsRefresh, IsLogout
  <2>2. CASE ~Issued(t)
    <3>1. IssuePair(t)
      BY <2>2, RevokeRows, InsertRow, TokenWriters
         DEF RevokeToken, RevokeFamily, RevokeAll, Issued, Token
    <3>2. /\ pc[t] = "issue" /\ ~IsLogout(t) /\ input'[t] = input[t]
          /\ token'[t].user = UserFor(t) /\ token'[t].family = FamilyFor(t)
      BY <3>1, InsertRow DEF IssuePair, TypeOK, StageOfOp, Token, Rotating
    <3>3. CASE IsLogin(t)
      BY <3>2, <3>3 DEF UserFor, FamilyFor, IsLogin, IsRefresh, IsLogout
    <3>4. CASE IsRefresh(t)
      <4>1. /\ input[t].token \in Token /\ Issued(input[t].token)
            /\ Presented(t).revoked
        BY <3>2, <3>4, BodyTypes
           DEF RefreshBody, TypeOK, StageOfOp, LineageInv, ParentRevoked, Token,
              Rotating
      <4>2. /\ token'[input[t].token] # NoRow
            /\ token'[input[t].token].revoked
            /\ token'[input[t].token].family = Presented(t).family
            /\ token'[input[t].token].user = Presented(t).user
        BY <4>1, RowsKept DEF Presented
      <4> QED BY <3>2, <3>4, <4>2 DEF UserFor, FamilyFor, IsLogin, IsRefresh,
         IsLogout
    <3> QED BY <3>2, <3>3, <3>4, BodyTypes DEF Token
  <2> QED BY <2>1, <2>2
<1> QED BY <1>1, <1>2 DEF LineageInv

\* The inductive invariant of rotation: every row descends from a login
\* through revoked rows, and a rotation has revoked before it inserts.
THEOREM LineageCorrect == Spec => []LineageInv
<1>1. Init => LineageInv
  BY DEF Init, LineageInv, Lineage, ParentRevoked, Issued, Token
<1>2. TypeOK /\ TypeOK' /\ LineageInv /\ [Next]_vars => LineageInv'
  BY LineageStep
<1> QED BY <1>1, <1>2, TypeCorrect, PTL DEF Spec

-----------------------------------------------------------------------------
(* Revocation is final *)

\* A new row comes from issuePair.
LEMMA NewRow ==
    ASSUME TypeOK, [Next]_vars, NEW t \in Token, ~Issued(t), token'[t] # NoRow
    PROVE  /\ IssuePair(t) /\ pc[t] = "issue"
           /\ token'[t].family = FamilyFor(t)
           /\ IsLogin(t) \/ IsRefresh(t)
<1>1. IssuePair(t)
  BY RevokeRows, InsertRow, TokenWriters
     DEF RevokeToken, RevokeFamily, RevokeAll, Issued, Token
<1>2. pc[t] = "issue" /\ ~IsLogout(t)
  BY <1>1 DEF IssuePair, TypeOK, StageOfOp, Token, Rotating
<1>3. token'[t].family = FamilyFor(t)
  <2>1. token'[t] = [user |-> UserFor(t), family |-> FamilyFor(t),
                     revoked |-> FALSE]
    BY <1>1, InsertRow DEF Token
  <2> QED BY <2>1
<1>4. IsLogin(t) \/ IsRefresh(t)
  BY <1>2, BodyTypes DEF Token
<1> QED BY <1>1, <1>2, <1>3, <1>4

\* A rotation is in flight only if it was before or has just read a live row.
LEMMA EntersFlight ==
    ASSUME TypeOK, [Next]_vars, NEW r \in Request,
           pc'[r] \in {"ownerOfLive", "revoke", "issue"}, IsRefresh(r)'
    PROVE  /\ IsRefresh(r) /\ input'[r] = input[r]
           /\ input[r].token \in Token /\ Issued(input[r].token)
           /\ \/ pc[r] \in {"ownerOfLive", "revoke", "issue"}
              \/ ~Presented(r).revoked
<1>1. pc[r] # "idle"
  BY DEF Next, vars, Step, Arrive, ArriveLogin, ArriveRefresh, ArriveLogout,
     FindUser, FindToken, FindOwner, AfterVerify, ReuseDetected, RevokeToken,
     IssuePair, Answer, RevokeFamily, Validate, RevokeAll, Fail, Update,
     Deactivate, Expire, Goto, TypeOK
<1>2. /\ IsRefresh(r) /\ input'[r] = input[r]
      /\ input[r].token \in Token /\ Issued(input[r].token)
  BY <1>1, InputKept, BodyTypes DEF IsRefresh, RefreshBody, TypeOK, StageOfOp,
     Rotating
<1>3. pc[r] \in {"ownerOfLive", "revoke", "issue"} \/ ~Presented(r).revoked
  <2>1. pc'[r] # pc[r] => Step(r) \/ Fail(r)
    BY <1>1, OwnStep
  <2> QED BY <1>2, <2>1 DEF Step, FindUser, FindToken, FindOwner, AfterVerify,
     ReuseDetected, RevokeToken, IssuePair, Answer, RevokeFamily, Validate,
     RevokeAll, Fail, Goto, TypeOK, StageOfOp, IsLogin, IsRefresh, Rotating
<1> QED BY <1>2, <1>3

LEMMA ClosedStep ==
    ASSUME TypeOK, [Next]_vars, NEW f \in Family, ClosedFamily(f)
    PROVE  ClosedFamily(f)'
<1>1. Opened(f)'
  <2>1. Issued(f) /\ IsLogin(f) /\ pc[f] # "idle"
    BY DEF ClosedFamily, Opened, TypeOK, RowAfterInsert, Family
  <2> QED BY <2>1, RowsKept, InputKept DEF Opened, Issued, IsLogin, Family,
     Token
<1>2. ASSUME NEW t \in Token, token'[t] # NoRow, token'[t].family = f
      PROVE  token'[t].revoked
  <2>1. CASE Issued(t)
    BY <1>2, <2>1, RowsKept DEF ClosedFamily
  <2>2. CASE ~Issued(t)
    <3>1. t # f
      BY <2>2 DEF ClosedFamily, Opened
    <3>2. pc[t] = "issue" /\ FamilyFor(t) = f /\ (IsLogin(t) \/ IsRefresh(t))
      BY <1>2, <2>2, NewRow
    <3>3. InFlight(f)
      BY <3>1, <3>2 DEF FamilyFor, InFlight, Token
    <3> QED BY <3>3 DEF ClosedFamily
  <2> QED BY <2>1, <2>2
<1>3. ~InFlight(f)'
  <2> SUFFICES ASSUME NEW r \in Request,
                      pc'[r] \in {"ownerOfLive", "revoke", "issue"},
                      IsRefresh(r)', token'[input'[r].token].family = f
               PROVE  FALSE
    BY DEF InFlight, Presented
  <2>1. /\ IsRefresh(r) /\ input'[r] = input[r]
        /\ input[r].token \in Token /\ Issued(input[r].token)
        /\ \/ pc[r] \in {"ownerOfLive", "revoke", "issue"}
           \/ ~Presented(r).revoked
    BY EntersFlight
  <2>2. Presented(r).family = f
    BY <2>1, RowsKept DEF Presented
  <2> QED BY <2>1, <2>2 DEF ClosedFamily, InFlight, Presented
<1> QED BY <1>1, <1>2, <1>3 DEF ClosedFamily, Issued

\* A session that is over, with no rotation in flight, is over for good.
THEOREM FamiliesStayClosed == Spec => ClosedForGood
<1>1. TypeOK /\ [Next]_vars =>
        [\A f \in Family : ClosedFamily(f) => ClosedFamily(f)']_vars
  BY ClosedStep
<1> QED BY <1>1, TypeCorrect, PTL DEF Spec, ClosedForGood

LEMMA RefusedStep ==
    ASSUME TypeOK, [Next]_vars, NEW r \in Request, Refused(r)
    PROVE  Refused(r)'
<1>1. /\ pc[r] # "idle" /\ IsRefresh(r) /\ ~Issued(r)
      /\ input[r].token \in Token /\ Issued(input[r].token)
  BY BodyTypes DEF Refused, Final, RefreshBody, TypeOK, StageOfOp, Rotating
<1>2. input'[r] = input[r] /\ IsRefresh(r)'
  BY <1>1, InputKept DEF IsRefresh
<1>3. token'[r] = NoRow
  BY <1>1, NewRow DEF Refused, Final, Token
<1>4. pc[r] = "token" => token[input[r].token].revoked
  BY DEF Refused, Final, Presented
<1>5. pc[r] = "token" => token'[input[r].token].revoked
  BY <1>1, <1>4, RowsKept
<1>6. \/ pc[r] = "token" /\ pc'[r] = "token"
      \/ pc'[r] \in {"ownerOfUsed", "burn"} \cup Final
  BY <1>1, <1>4 DEF Refused, Final, Next, vars, Step, Arrive, ArriveLogin,
     ArriveRefresh, ArriveLogout, FindUser, FindToken, FindOwner, AfterVerify,
     ReuseDetected, RevokeToken, IssuePair, Answer, RevokeFamily, Validate,
     RevokeAll, Fail, Update, Deactivate, Expire, Goto, TypeOK, Presented
<1> QED BY <1>2, <1>3, <1>5, <1>6 DEF Refused, Presented, Issued

\* A token revoked before it is read earns nothing.
THEOREM RevokedStaysUnserved == Spec => RevokedNeverServed
<1>1. TypeOK /\ [Next]_vars =>
        [\A r \in Request : Refused(r) => Refused(r)']_vars
  BY RefusedStep
<1> QED BY <1>1, TypeCorrect, PTL DEF Spec, RevokedNeverServed

-----------------------------------------------------------------------------
(* Deactivation *)

\* A login or rotation goes on only if it did before or has just found its
\* user active.
LEMMA EntersEarning ==
    ASSUME TypeOK, [Next]_vars, NEW r \in Request,
           pc'[r] \in {"revoke", "issue"}
    PROVE  /\ UserFor(r)' = UserFor(r)
           /\ pc[r] \in {"revoke", "issue"} \/ UserFor(r) \in active
<1>1. pc[r] # "idle"
  BY DEF Next, vars, Step, Arrive, ArriveLogin, ArriveRefresh, ArriveLogout,
     FindUser, FindToken, FindOwner, AfterVerify, RevokeToken, IssuePair,
     Answer, RevokeFamily, Validate, RevokeAll, Fail, Update, Deactivate,
     Expire, Goto, TypeOK
<1>2. input'[r] = input[r] /\ (IsLogin(r)' <=> IsLogin(r))
  BY <1>1, InputKept DEF IsLogin
<1>3. CASE IsLogin(r)
  <2>1. UserFor(r)' = UserFor(r)
    BY <1>2, <1>3 DEF UserFor
  <2>2. pc[r] \in {"revoke", "issue"} \/ input[r].user \in active
    BY <1>1, <1>3 DEF Next, vars, Step, Arrive, ArriveLogin, ArriveRefresh,
       ArriveLogout, FindUser, MayLogIn, FindToken, FindOwner, AfterVerify,
       RevokeToken, IssuePair, Answer, RevokeFamily, Validate, RevokeAll, Fail,
       Update, Deactivate, Expire, Goto, TypeOK, StageOfOp, IsLogin, IsRefresh,
       Rotating
  <2> QED BY <1>3, <2>1, <2>2 DEF UserFor
<1>4. CASE ~IsLogin(r)
  <2>1. IsRefresh(r)
    <3>1. ~IsLogout(r)
      BY <1>1 DEF Next, vars, Step, Arrive, ArriveLogin, ArriveRefresh,
         ArriveLogout, FindUser, FindToken, FindOwner, AfterVerify, RevokeToken,
         IssuePair, Answer, RevokeFamily, Validate, RevokeAll, Fail, Update,
         Deactivate, Expire, Goto, TypeOK, StageOfOp, IsLogin, IsRefresh,
         IsLogout, Rotating
    <3> QED BY <1>1, <1>4, <3>1, BodyTypes
  <2>2. input[r].token \in Token /\ Issued(input[r].token)
    BY <1>1, <2>1, BodyTypes DEF RefreshBody, TypeOK, StageOfOp, Rotating
  <2>3. UserFor(r)' = UserFor(r)
    BY <1>2, <1>4, <2>2, RowsKept DEF UserFor, Presented
  <2>4. pc[r] \in {"revoke", "issue"} \/ Presented(r).user \in active
    BY <1>1, <2>1 DEF Next, vars, Step, Arrive, ArriveLogin, ArriveRefresh,
       ArriveLogout, FindUser, FindToken, FindOwner, AfterVerify, RevokeToken,
       IssuePair, Answer, RevokeFamily, Validate, RevokeAll, Fail, Update,
       Deactivate, Expire, Goto, TypeOK, StageOfOp, IsLogin, IsRefresh, Rotating
  <2> QED BY <1>4, <2>3, <2>4 DEF UserFor
<1> QED BY <1>3, <1>4

LEMMA ShutOutStep ==
    ASSUME TypeOK, [Next]_vars, NEW u \in User, ShutOut(u)
    PROVE  /\ ShutOut(u)' \/ u \in active'
           /\ RowsOf(u)' = RowsOf(u)
<1>1. Earning(u)' = {}
  <2> SUFFICES ASSUME NEW r \in Request, pc'[r] \in {"revoke", "issue"},
                      UserFor(r)' = u
               PROVE  FALSE
    BY DEF Earning
  <2> QED BY EntersEarning DEF ShutOut, Earning
<1>2. ASSUME NEW t \in Token, Issued(t)
      PROVE  token'[t] # NoRow /\ token'[t].user = token[t].user
  BY <1>2, RowsKept
<1>3. ASSUME NEW t \in Token, ~Issued(t), token'[t] # NoRow
      PROVE  token'[t].user # u
  <2>1. IssuePair(t) /\ pc[t] = "issue"
    BY <1>3, NewRow
  <2>2. token'[t].user = UserFor(t)
    <3>1. token'[t] = [user |-> UserFor(t), family |-> FamilyFor(t),
                       revoked |-> FALSE]
      BY <2>1, InsertRow DEF Token
    <3> QED BY <3>1
  <2> QED BY <2>1, <2>2 DEF ShutOut, Earning, Token
<1>4. RowsOf(u)' = RowsOf(u)
  BY <1>2, <1>3 DEF RowsOf, Issued
<1> QED BY <1>1, <1>4 DEF ShutOut

\* Once the requests that found the user active are over, a deactivated user
\* gets no row.
THEOREM DeactivationHolds == Spec => DeactivatedEarnsNothing
<1>1. TypeOK /\ [Next]_vars =>
        [\A u \in User :
            ShutOut(u) => /\ ShutOut(u)' \/ u \in active'
                          /\ RowsOf(u)' = RowsOf(u)]_vars
  BY ShutOutStep
<1> QED BY <1>1, TypeCorrect, PTL DEF Spec, DeactivatedEarnsNothing

-----------------------------------------------------------------------------
(* One request at a time *)

\* A request that stays in service is alone: no step is another's.
LEMMA SerialStep ==
    ASSUME TypeOK, [Next /\ OneAtATime]_vars, NEW r \in Request, r \in Busy'
    PROVE  Arrive(r) \/ Step(r) \/ UNCHANGED <<token, pc, input>>
<1>1. CASE UNCHANGED vars
  BY <1>1 DEF vars
<1>2. CASE Next /\ OneAtATime
  <2>1. ASSUME NEW q \in Request, Arrive(q) PROVE q = r
    <3>1. q \in Busy'
      BY <2>1 DEF Arrive, ArriveLogin, ArriveRefresh, ArriveLogout, Goto, Busy,
         InService, TypeOK, Rotating
    <3> QED BY <1>2, <3>1 DEF OneAtATime, AtMostOne
  <2>2. ASSUME NEW q \in Request, Step(q) \/ Fail(q) PROVE q = r
    <3>1. q \in Busy /\ \E to : Goto(q, to)
      BY <2>2 DEF Step, FindUser, FindToken, FindOwner, RevokeToken, IssuePair,
         Answer, RevokeFamily, Validate, RevokeAll, Fail, Busy, InService,
         Rotating
    <3>2. CASE r \in Busy
      BY <1>2, <3>1, <3>2 DEF OneAtATime, AtMostOne
    <3>3. CASE r \notin Busy
      BY <3>1, <3>3 DEF Goto, Busy, TypeOK
    <3> QED BY <3>2, <3>3
  <2>3. ~Fail(r)
    BY DEF Fail, Goto, Busy, InService, TypeOK, Rotating
  <2>4. ASSUME NEW u \in User, Update(u) \/ Deactivate(u)
        PROVE  UNCHANGED <<token, pc, input>>
    BY <2>4 DEF Update, Deactivate
  <2>5. ASSUME NEW t \in Token, Expire(t)
        PROVE  UNCHANGED <<token, pc, input>>
    BY <2>5 DEF Expire
  <2> QED BY <1>2, <2>1, <2>2, <2>3, <2>4, <2>5 DEF Next
<1> QED BY <1>1, <1>2

\* A row that is there has a request behind it, whose input stays.
LEMMA RowsInput ==
    ASSUME TypeOK, [Next]_vars, NEW t \in Token, Issued(t)
    PROVE  /\ Issued(t)' /\ input'[t] = input[t]
           /\ IsLogin(t)' <=> IsLogin(t)
           /\ IsRefresh(t)' <=> IsRefresh(t)
<1>1. pc[t] # "idle"
  BY DEF TypeOK, RowAfterInsert, Token
<1>2. input'[t] = input[t]
  BY <1>1, InputKept DEF Token
<1> QED BY <1>2, RowsKept DEF Issued, IsLogin, IsRefresh

\* What a refresh on its way presents is in the table.
LEMMA PresentedIssued ==
    ASSUME TypeOK, NEW r \in Request, pc[r] # "idle", IsRefresh(r)
    PROVE  input[r].token \in Token /\ Issued(input[r].token)
BY BodyTypes DEF TypeOK, StageOfOp, RefreshBody, Rotating

LEMMA RotationAloneStep ==
    ASSUME TypeOK, LineageInv, RotationAlone, [Next /\ OneAtATime]_vars
    PROVE  RotationAlone'
<1> SUFFICES ASSUME NEW r \in Request,
                    pc'[r] \in {"ownerOfLive", "revoke", "issue"}, IsRefresh(r)'
             PROVE  /\ pc'[r] # "issue" => ~token'[input'[r].token].revoked
                    /\ \A q \in Request : token'[q] # NoRow /\ IsRefresh(q)'
                          => input'[q].token # input'[r].token
  BY DEF RotationAlone, Presented, Issued
<1>1. [Next]_vars
  OBVIOUS
<1>2. /\ IsRefresh(r) /\ input'[r] = input[r]
      /\ input[r].token \in Token /\ Issued(input[r].token)
  BY <1>1, EntersFlight
<1>3. r \in Busy'
  BY DEF Busy, InService, Rotating
<1>4. CASE UNCHANGED <<token, pc, input>>
  BY <1>4 DEF RotationAlone, Presented, Issued, IsRefresh
<1>5. CASE Arrive(r)
  BY <1>5 DEF Arrive, ArriveLogin, ArriveRefresh, ArriveLogout, Goto, TypeOK
<1>6. CASE FindToken(r)
  <2>1. /\ token' = token /\ input' = input
        /\ ~Presented(r).revoked
    BY <1>6 DEF FindToken, FindOwner, ReuseDetected, Goto, TypeOK
  <2>2. ASSUME NEW q \in Request, Issued(q), IsRefresh(q),
               input[q].token = input[r].token
        PROVE  FALSE
    BY <2>1, <2>2 DEF LineageInv, Lineage, Presented, Token
  <2> QED BY <2>1, <2>2 DEF Presented, Issued, IsRefresh
<1>7. CASE FindOwner(r)
  <2>1. /\ pc[r] = "ownerOfLive" /\ pc'[r] # "issue"
        /\ token' = token /\ input' = input
    BY <1>7 DEF FindOwner, AfterVerify, Goto, TypeOK
  <2> QED BY <1>2, <2>1 DEF RotationAlone, Presented, Issued, IsRefresh
<1>8. CASE RevokeToken(r)
  <2>1. pc[r] = "revoke" /\ pc'[r] = "issue" /\ input' = input
    BY <1>8 DEF RevokeToken, Goto, TypeOK
  <2>2. \A q \in Request : token'[q] # NoRow => Issued(q)
    BY <1>8, RevokeRows DEF RevokeToken, Token
  <2> QED BY <1>2, <2>1, <2>2 DEF RotationAlone, IsRefresh
<1>9. CASE Step(r) /\ ~FindToken(r) /\ ~FindOwner(r) /\ ~RevokeToken(r)
  BY <1>2, <1>9 DEF Step, FindUser, IssuePair, Answer, RevokeFamily, Validate,
     RevokeAll, Goto, TypeOK, StageOfOp, IsLogin, IsRefresh, Rotating
<1> QED BY <1>3, <1>4, <1>5, <1>6, <1>7, <1>8, <1>9, SerialStep

\* A second row for one token would be a second rotation of it.
LEMMA RotatedOnceStep ==
    ASSUME TypeOK, RotationAlone, RotatedOnce, [Next]_vars
    PROVE  RotatedOnce'
<1> SUFFICES ASSUME NEW q \in Request, NEW r \in Request,
                    token'[q] # NoRow, IsRefresh(q)',
                    token'[r] # NoRow, IsRefresh(r)',
                    input'[q].token = input'[r].token
             PROVE  q = r
  BY DEF RotatedOnce, Issued
<1> USE DEF Token
<1>1. ASSUME NEW s \in Request, token'[s] # NoRow, IsRefresh(s)'
      PROVE  /\ IsRefresh(s) /\ input'[s] = input[s]
             /\ ~Issued(s) => IssuePair(s) /\ pc[s] = "issue"
  <2>1. CASE Issued(s)
    BY <1>1, <2>1, RowsInput
  <2>2. CASE ~Issued(s)
    <3>1. IssuePair(s) /\ pc[s] = "issue"
      BY <1>1, <2>2, NewRow
    <3>2. input' = input
      BY <3>1 DEF IssuePair
    <3> QED BY <1>1, <3>1, <3>2 DEF IsRefresh
  <2> QED BY <2>1, <2>2
<1>2. CASE Issued(q) /\ Issued(r)
  BY <1>1, <1>2 DEF RotatedOnce
<1>3. CASE ~Issued(q) /\ Issued(r)
  BY <1>1, <1>3 DEF RotationAlone
<1>4. CASE Issued(q) /\ ~Issued(r)
  BY <1>1, <1>4 DEF RotationAlone
<1>5. CASE ~Issued(q) /\ ~Issued(r)
  <2>1. IssuePair(q) /\ IssuePair(r)
    BY <1>1, <1>5
  <2> QED BY <1>5, <2>1, InsertRow DEF Issued
<1> QED BY <1>2, <1>3, <1>4, <1>5

\* A family that a login has opened stays opened.
LEMMA OpenedStays ==
    ASSUME TypeOK, [Next]_vars, NEW f \in Family, Opened(f)
    PROVE  Opened(f)'
BY RowsInput DEF Opened, Family, Token

LEMMA FamiliesOpenedStep ==
    ASSUME TypeOK, FamiliesOpened, [Next]_vars
    PROVE  FamiliesOpened'
<1> SUFFICES ASSUME NEW t \in Token, token'[t] # NoRow,
                    NEW f, f = token'[t].family
             PROVE  Opened(f)'
  BY DEF FamiliesOpened, Issued
<1>1. \A s \in Token : Issued(s) => token[s].family \in Family
  BY DEF TypeOK, Issued, Row
<1>2. CASE Issued(t)
  BY <1>1, <1>2, RowsKept, OpenedStays DEF FamiliesOpened
<1>3. CASE ~Issued(t)
  <2>1. /\ IssuePair(t) /\ pc[t] = "issue" /\ f = FamilyFor(t)
        /\ IsLogin(t) \/ IsRefresh(t)
    BY <1>3, NewRow
  <2>2. CASE IsLogin(t)
    <3>1. input' = input
      BY <2>1 DEF IssuePair
    <3> QED BY <2>1, <2>2, <3>1 DEF Opened, Issued, IsLogin, FamilyFor
  <2>3. CASE ~IsLogin(t)
    <3>1. input[t].token \in Token /\ Issued(input[t].token)
      BY <2>1, <2>3, PresentedIssued DEF Token
    <3>2. f = token[input[t].token].family
      BY <2>1, <2>3 DEF FamilyFor, Presented
    <3> QED BY <1>1, <3>1, <3>2, OpenedStays DEF FamiliesOpened
  <2> QED BY <2>2, <2>3
<1> QED BY <1>2, <1>3

\* A row in force is in the table.
LEMMA InForceIssued ==
    ASSUME TypeOK
    PROVE  \A t \in InForce : t \in Token /\ Issued(t)
<1>1. \A t \in BeingRotated : t \in Token /\ Issued(t)
  BY PresentedIssued DEF BeingRotated
<1> QED BY <1>1 DEF InForce

\* A login adds a row in force, a rotation replaces one, nothing else adds
\* any.
LEMMA InForceStep ==
    ASSUME TypeOK, LineageInv, RotationAlone, [Next /\ OneAtATime]_vars
    PROVE  \/ \E r \in Request : /\ IssuePair(r) /\ IsLogin(r)
                                 /\ InForce' = InForce \cup {r}
           \/ \E r \in Request :
                 /\ IssuePair(r) /\ IsRefresh(r)
                 /\ input[r].token \in InForce
                 /\ InForce' = (InForce \ {input[r].token}) \cup {r}
           \/ /\ InForce' \subseteq InForce
              /\ \A t \in Token : token'[t] # NoRow <=> token[t] # NoRow
<1> DEFINE Live == {t \in Token : Issued(t) /\ ~token[t].revoked}
<1>1. [Next]_vars
  OBVIOUS
<1>2. ASSUME NEW r \in Request, IssuePair(r)
      PROVE  \/ IsLogin(r) /\ InForce' = InForce \cup {r}
             \/ /\ IsRefresh(r) /\ input[r].token \in InForce
                /\ InForce' = (InForce \ {input[r].token}) \cup {r}
  <2>1. /\ pc[r] = "issue" /\ pc' = [pc EXCEPT ![r] = "answer"]
        /\ input' = input
    BY <1>2 DEF IssuePair, Goto
  <2>2. \A q \in Request : pc[q] = "issue" => q = r
    <3>1. OneAtATime
      BY <2>1 DEF vars, TypeOK
    <3> QED BY <2>1, <3>1 DEF OneAtATime, AtMostOne, Busy, InService, Rotating
  <2>3. BeingRotated' = {}
    BY <2>1, <2>2 DEF BeingRotated, TypeOK
  <2>4. Live' = Live \cup {r}
    <3>1. ~Issued(r) /\ token'[r] # NoRow /\ ~token'[r].revoked
      <4>1. token'[r] = [user |-> UserFor(r), family |-> FamilyFor(r),
                         revoked |-> FALSE]
        BY <1>2, InsertRow
      <4> QED BY <1>2, <4>1, InsertRow
    <3>2. \A t \in Token \ {r} : token'[t] = token[t]
      BY <1>2, InsertRow
    <3> QED BY <3>1, <3>2 DEF Issued, Token
  <2>5. CASE IsLogin(r)
    <3>1. BeingRotated = {}
      BY <2>2, <2>5 DEF BeingRotated, IsLogin, IsRefresh
    <3> QED BY <2>3, <2>4, <2>5, <3>1 DEF InForce
  <2>6. CASE IsRefresh(r)
    <3>1. BeingRotated = {input[r].token}
      BY <2>1, <2>2, <2>6 DEF BeingRotated
    <3>2. input[r].token \notin Live
      BY <2>1, <2>6 DEF LineageInv, ParentRevoked, Presented
    <3>3. input[r].token \in InForce
      BY <3>1 DEF InForce
    <3>4. InForce = Live \cup {input[r].token} /\ InForce' = Live' \cup {}
      BY <2>3, <3>1 DEF InForce
    <3> HIDE DEF Live
    <3> QED BY <2>4, <2>6, <3>2, <3>3, <3>4
  <2> QED BY <2>1, <2>5, <2>6, BodyTypes DEF TypeOK, StageOfOp, Rotating
<1>3. CASE \A r \in Request : ~IssuePair(r)
  <2>1. \A t \in Token : token'[t] # NoRow <=> token[t] # NoRow
    BY <1>1, <1>3, NewRow, RowsKept DEF Issued, Token
  <2>2. \A t \in Live' : t \in InForce
    <3> SUFFICES ASSUME NEW t \in Token, token'[t] # NoRow, ~token'[t].revoked
                 PROVE  t \in InForce
      BY DEF Issued
    <3>1. Issued(t) /\ ~token[t].revoked
      <4>1. Issued(t)
        BY <2>1 DEF Issued
      <4> QED BY <1>1, <4>1, RowsKept
    <3> QED BY <3>1 DEF InForce
  <2>3. \A t \in BeingRotated' : t \in InForce
    <3> SUFFICES ASSUME NEW r \in Request, pc'[r] = "issue", IsRefresh(r)'
                 PROVE  input'[r].token \in InForce
      BY DEF BeingRotated
    <3>1. /\ IsRefresh(r) /\ input'[r] = input[r]
          /\ input[r].token \in Token /\ Issued(input[r].token)
          /\ \/ pc[r] \in {"ownerOfLive", "revoke", "issue"}
             \/ ~Presented(r).revoked
      BY <1>1, EntersFlight
    <3>2. CASE pc[r] = "issue"
      BY <3>1, <3>2 DEF BeingRotated, InForce
    <3>3. CASE pc[r] # "issue"
      BY <3>1, <3>3 DEF RotationAlone, Presented, InForce
    <3> QED BY <3>2, <3>3
  <2> QED BY <2>1, <2>2, <2>3 DEF InForce
<1> QED BY <1>2, <1>3

\* The rows in force keep their families, and a new one is alone in its own.
LEMMA OneInForceStep ==
    ASSUME TypeOK, LineageInv, RotationAlone, OneInForce, FamiliesOpened,
           [Next /\ OneAtATime]_vars
    PROVE  OneInForce'
<1>1. \A t \in InForce : token'[t].family = token[t].family
  BY InForceIssued, RowsKept
<1>2. ASSUME NEW r \in Request, IssuePair(r), IsLogin(r),
             InForce' = InForce \cup {r}
      PROVE  OneInForce'
  <2>1. token'[r].family = r /\ ~Issued(r)
    <3>1. token'[r] = [user |-> UserFor(r), family |-> FamilyFor(r),
                       revoked |-> FALSE]
      BY <1>2, InsertRow
    <3> QED BY <1>2, <3>1, InsertRow DEF FamilyFor
  <2>2. \A t \in InForce : token[t].family # r
    BY <2>1, InForceIssued DEF FamiliesOpened, Opened
  <2> QED BY <1>1, <1>2, <2>1, <2>2 DEF OneInForce
<1>3. ASSUME NEW r \in Request, IssuePair(r), IsRefresh(r),
             input[r].token \in InForce,
             InForce' = (InForce \ {input[r].token}) \cup {r}
      PROVE  OneInForce'
  <2>1. token'[r].family = token[input[r].token].family
    <3>1. token'[r] = [user |-> UserFor(r), family |-> FamilyFor(r),
                       revoked |-> FALSE]
      BY <1>3, InsertRow
    <3> QED BY <1>3, <3>1 DEF FamilyFor, Presented, IsLogin, IsRefresh
  <2>2. \A t \in InForce \ {input[r].token} :
           token[t].family # token[input[r].token].family
    BY <1>3 DEF OneInForce
  <2> QED BY <1>1, <1>3, <2>1, <2>2 DEF OneInForce
<1>4. CASE InForce' \subseteq InForce
  BY <1>1, <1>4 DEF OneInForce
<1> QED BY <1>2, <1>3, <1>4, InForceStep

LEMMA SerialInit == Init => SerialInv
BY DEF Init, SerialInv, RotationAlone, OneInForce, FamiliesOpened, RotatedOnce,
   InForce, BeingRotated, Issued, Token

\* Requests that do not overlap are a special case.
LEMMA SerialIsSpec == SerialSpec => Spec
<1>1. [Next /\ OneAtATime]_vars => [Next]_vars
  OBVIOUS
<1> QED BY <1>1, PTL DEF SerialSpec, Spec

\* A family has at most one row in force, and the rotation that replaces it
\* is the only one of that row.
THEOREM SerialCorrect == SerialSpec => []SerialInv
<1>1. TypeOK /\ LineageInv /\ SerialInv /\ [Next /\ OneAtATime]_vars
      => SerialInv'
  BY RotationAloneStep, OneInForceStep, FamiliesOpenedStep, RotatedOnceStep
     DEF SerialInv
<1> QED BY <1>1, SerialInit, SerialIsSpec, TypeCorrect, LineageCorrect, PTL
        DEF SerialSpec

\* "tokens rotate on every use" (README.md:165): without overlap one token
\* earns one successor at most.
THEOREM RotatedAtMostOnce == SerialSpec => []RotatedOnce
<1>1. SerialInv => RotatedOnce
  BY DEF SerialInv
<1> QED BY <1>1, SerialCorrect, PTL

-----------------------------------------------------------------------------
(* Rotation implements SessionFamilies *)

Currents == [f \in Family |-> Current(f)]

\* What SessionFamilies sees of a family: its row in force, or else whether
\* a login has opened it.
CurrentSeen ==
    /\ \A f \in Family :
          \/ Currents[f] \in InForce /\ token[Currents[f]].family = f
          \/ /\ InForceOf(f) = {}
             /\ Currents[f] = IF Opened(f) THEN Closed ELSE Unopened
    /\ \A t \in InForce : /\ t \in Token /\ Issued(t)
                          /\ token[t].family \in Family
                          /\ Currents[token[t].family] = t

LEMMA SeenIsCurrent ==
    ASSUME TypeOK, OneInForce
    PROVE  CurrentSeen
<1>1. ASSUME NEW t \in InForce
      PROVE  t \in Token /\ Issued(t) /\ token[t].family \in Family
  BY InForceIssued DEF TypeOK, Issued, Row
<1>2. ASSUME NEW f \in Family, InForceOf(f) # {}
      PROVE  Currents[f] \in InForceOf(f)
  BY <1>2 DEF Currents, Current
<1>3. ASSUME NEW t \in InForce PROVE Currents[token[t].family] = t
  <2>1. PICK f \in Family : f = token[t].family
    BY <1>1
  <2>2. t \in InForceOf(f)
    BY <2>1 DEF InForceOf
  <2>3. Currents[f] \in InForceOf(f)
    BY <1>2, <2>2
  <2> QED BY <2>1, <2>3 DEF InForceOf, OneInForce
<1>4. ASSUME NEW f \in Family, InForceOf(f) = {}
      PROVE  Currents[f] = IF Opened(f) THEN Closed ELSE Unopened
  BY <1>4 DEF Currents, Current
<1> QED BY <1>1, <1>2, <1>3, <1>4 DEF CurrentSeen, InForceOf

\* A family is opened by the INSERT of its login only.
LEMMA OpenedBy ==
    ASSUME TypeOK, [Next]_vars, NEW f \in Family,
           IssuePair(f) => ~IsLogin(f)
    PROVE  Opened(f)' <=> Opened(f)
<1> SUFFICES ASSUME Opened(f)' PROVE Opened(f)
  BY OpenedStays
<1>1. CASE Issued(f)
  BY <1>1, RowsInput DEF Opened, Family, Token
<1>2. CASE ~Issued(f)
  <2>1. IssuePair(f)
    BY <1>2, NewRow DEF Opened, Issued, Family, Token
  <2> QED BY <2>1 DEF IssuePair, Opened, IsLogin
<1> QED BY <1>1, <1>2

\* A family whose row in force stays, or that has none and gets none, is
\* seen as before.
LEMMA SameCurrent ==
    ASSUME TypeOK, CurrentSeen, CurrentSeen', [Next]_vars, NEW f \in Family,
           Opened(f)' <=> Opened(f),
           \A t \in InForce' : token'[t].family = f => t \in InForce,
           \A t \in InForce : token[t].family = f => t \in InForce'
    PROVE  Currents'[f] = Currents[f]
<1>1. \A t \in InForce : token'[t].family = token[t].family
  BY RowsKept DEF CurrentSeen
<1>2. CASE Currents[f] \in InForce /\ token[Currents[f]].family = f
  BY <1>1, <1>2 DEF CurrentSeen
<1>3. CASE /\ InForceOf(f) = {}
           /\ Currents[f] = IF Opened(f) THEN Closed ELSE Unopened
  <2>1. \A t \in InForce' : token'[t].family # f
    BY <1>1, <1>3 DEF InForceOf
  <2> QED BY <1>3, <2>1 DEF CurrentSeen
<1> QED BY <1>2, <1>3 DEF CurrentSeen

\* A new row was never in force.
LEMMA NewIsFresh ==
    ASSUME CurrentSeen, NEW t \in Token, ~Issued(t)
    PROVE  t \notin Spent /\ \A f \in Family : Currents[f] # t
<1>1. ASSUME NEW f \in Family, Currents[f] = t PROVE FALSE
  BY <1>1, FamilyStates DEF CurrentSeen
<1> QED BY <1>1 DEF Spent

LEMMA FamiliesNext ==
    ASSUME TypeOK, LineageInv, SerialInv, CurrentSeen, CurrentSeen',
           [Next /\ OneAtATime]_vars
    PROVE  [Families!Next]_<<Currents, Spent>>
<1>1. [Next]_vars
  OBVIOUS
<1>2. \A t \in InForce : token'[t].family = token[t].family
  BY <1>1, RowsKept DEF CurrentSeen
<1>3. Currents' = [f \in Family |-> Currents'[f]]
  BY DEF Currents
<1>4. ASSUME NEW r \in Request, IssuePair(r), IsLogin(r),
             InForce' = InForce \cup {r}
      PROVE  Families!Open(r, r)
  <2>1. r \in Token /\ r \in Family
    BY DEF Token, Family
  <2>2. /\ ~Issued(r) /\ token'[r] # NoRow /\ token'[r].family = r
        /\ \A t \in Token \ {r} : token'[t] = token[t]
    <3>1. token'[r] = [user |-> UserFor(r), family |-> FamilyFor(r),
                       revoked |-> FALSE]
      BY <1>4, InsertRow
    <3> QED BY <1>4, <3>1, InsertRow DEF FamilyFor
  <2>3. Currents[r] = Unopened
    BY <2>1, <2>2 DEF CurrentSeen, SerialInv, FamiliesOpened, Opened
  <2>4. Currents'[r] = r
    BY <1>4, <2>2 DEF CurrentSeen
  <2>5. ASSUME NEW f \in Family, f # r PROVE Currents'[f] = Currents[f]
    <3>1. ~IssuePair(f)
      BY <1>4, <2>1, <2>5, InsertRow DEF Family, Token, Issued
    <3> QED BY <1>1, <1>2, <1>4, <2>2, <2>5, <3>1, OpenedBy, SameCurrent
  <2>6. Currents' = [Currents EXCEPT ![r] = r]
    BY <1>3, <2>4, <2>5 DEF Currents
  <2>7. Spent' = Spent
    BY <1>4, <2>1, <2>2 DEF Spent, Issued
  <2> QED BY <2>1, <2>2, <2>3, <2>6, <2>7, NewIsFresh
          DEF Families!Open, Families!Fresh, Currents
<1>5. ASSUME NEW r \in Request, IssuePair(r), IsRefresh(r),
             input[r].token \in InForce,
             InForce' = (InForce \ {input[r].token}) \cup {r}
      PROVE  \E f \in Family : Families!Rotate(f, r)
  <2>1. PICK p : p = input[r].token
    OBVIOUS
  <2>2. PICK f : f = token[p].family
    OBVIOUS
  <2>3. /\ p \in Token /\ Issued(p) /\ f \in Family
        /\ Currents[f] = p
        /\ r \in Token
    BY <1>5, <2>1, <2>2 DEF CurrentSeen, Token
  <2>4. /\ ~Issued(r) /\ token'[r] # NoRow /\ token'[r].family = f
        /\ \A t \in Token \ {r} : token'[t] = token[t]
    <3>1. token'[r] = [user |-> UserFor(r), family |-> FamilyFor(r),
                       revoked |-> FALSE]
      BY <1>5, InsertRow
    <3> QED BY <1>5, <2>1, <2>2, <3>1, InsertRow
            DEF FamilyFor, Presented, IsLogin, IsRefresh
  <2>5. Currents'[f] = r
    BY <1>5, <2>4 DEF CurrentSeen
  <2>6. ASSUME NEW g \in Family, g # f PROVE Currents'[g] = Currents[g]
    <3>1. IssuePair(g) => ~IsLogin(g)
      <4>1. IssuePair(g) => g = r
        BY <1>5, <2>4, InsertRow DEF Family, Token, Issued
      <4> QED BY <1>5, <4>1 DEF IsLogin, IsRefresh
    <3> QED BY <1>1, <1>2, <1>5, <2>1, <2>2, <2>4, <2>6, <3>1, OpenedBy,
               SameCurrent
  <2>7. Currents' = [Currents EXCEPT ![f] = r]
    BY <1>3, <2>5, <2>6 DEF Currents
  <2>8. Spent' = Spent \cup {p}
    BY <1>5, <2>1, <2>3, <2>4 DEF Spent, Issued
  <2> QED BY <2>3, <2>4, <2>7, <2>8, NewIsFresh
          DEF Families!Rotate, Families!Fresh, Currents
<1>6. CASE /\ InForce' \subseteq InForce
           /\ \A t \in Token : token'[t] # NoRow <=> token[t] # NoRow
  <2> DEFINE F == {f \in Family : /\ Currents[f] \in InForce
                                  /\ token[Currents[f]].family = f
                                  /\ Currents[f] \notin InForce'}
  <2>1. \A f \in Family : Opened(f)' <=> Opened(f)
    BY <1>1, <1>6, OpenedBy, InsertRow DEF Issued, Family, Token
  <2>2. ASSUME NEW f \in F PROVE Currents'[f] = Closed
    <3>1. Opened(f)
      BY DEF SerialInv, FamiliesOpened, CurrentSeen
    <3>2. \A t \in InForce' : token'[t].family # f
      BY <1>2, <1>6 DEF CurrentSeen
    <3> QED BY <2>1, <3>1, <3>2 DEF CurrentSeen
  <2>3. ASSUME NEW f \in Family, f \notin F PROVE Currents'[f] = Currents[f]
    <3>1. \A t \in InForce : token[t].family = f => t \in InForce'
      BY <2>3 DEF CurrentSeen
    <3> QED BY <1>1, <1>6, <2>1, <3>1, SameCurrent
  <2>4. Currents' = [f \in Family |-> IF f \in F THEN Closed ELSE Currents[f]]
    BY <1>3, <2>2, <2>3
  <2>5. Spent' = Spent \cup {Currents[f] : f \in F}
    <3>1. \A t \in InForce \ InForce' : \E f \in F : t = Currents[f]
      BY DEF CurrentSeen
    <3>2. \A f \in F : Currents[f] \in InForce \ InForce' /\ Issued(Currents[f])
                       /\ Currents[f] \in Token
      BY DEF CurrentSeen
    <3> QED BY <1>6, <3>1, <3>2 DEF Spent, Issued
  <2>6. \A f \in F : Currents[f] \in Token
    BY DEF CurrentSeen
  <2>7. F \in SUBSET Family
    OBVIOUS
  <2> HIDE DEF F
  <2>8. Families!Close(F)
    BY <2>4, <2>5, <2>6, <2>7 DEF Families!Close, Currents
  <2> QED BY <2>7, <2>8 DEF Families!Next
<1> QED BY <1>4, <1>5, <1>6, InForceStep DEF Families!Next, SerialInv, Token,
   Family

\* One request at a time, logins, rotations, reuses and logouts move families
\* as SessionFamilies says: rotation (TokenService.rotate) is atomic.
THEOREM ImplementsFamilies == SerialSpec => FamiliesSpec
<1>1. TypeOK /\ SerialInv => CurrentSeen
  BY SeenIsCurrent DEF SerialInv
<1>2. Init => Families!Init
  BY DEF Init, Families!Init, Current, InForceOf, InForce, BeingRotated, Spent,
     Issued, Opened, Token, Family
<1>3. /\ TypeOK /\ LineageInv /\ SerialInv /\ CurrentSeen /\ CurrentSeen'
      /\ [Next /\ OneAtATime]_vars
      => [Families!Next]_<<Currents, Spent>>
  BY FamiliesNext
<1> QED
  BY <1>1, <1>2, <1>3, SerialCorrect, SerialIsSpec, TypeCorrect,
     LineageCorrect, PTL
  DEF SerialSpec, FamiliesSpec, Families!Spec, Families!vars, Currents
=============================================================================
