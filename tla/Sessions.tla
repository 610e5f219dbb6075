------------------------------ MODULE Sessions ------------------------------
(***************************************************************************)
(* Logins, refresh-token rotation and logout: AuthService and TokenService *)
(* (src/modules/auth), with the deactivation of users (UsersService) and   *)
(* the check every authenticated call makes (JwtStrategy).                 *)
(*                                                                         *)
(* None of these handlers opens a transaction, so one step is one SQL      *)
(* statement, committed at once, and any other request may run between two *)
(* of them.  A request is an element of Request and is handled once; the   *)
(* token row a request inserts is named after it, and so is the family a   *)
(* login opens (both are fresh uuids).  The columns userId and family of a *)
(* row never change, so what rotate copied of them is read off the row.    *)
(*                                                                         *)
(* Hashes and signatures are abstracted: a password is correct or not, a   *)
(* presented token names a row and carries its secret or not.  Requests    *)
(* that name no row are refused before anything happens and are left out.  *)
(*                                                                         *)
(* An operator X_<bug> is X as a plausible bug would have it; the          *)
(* specification does not use it.                                          *)
(***************************************************************************)
EXTENDS Naturals, FiniteSets

CONSTANTS
    Request,    \* the HTTP requests handled in a behaviour
    User        \* the users in the table

VARIABLES
    active,     \* the users whose deletedAt is null
    token,      \* the RefreshToken table: token[t] is a Row or NoRow
    expired,    \* the tokens whose expiresAt has passed
    pc,         \* where each request stands
    input       \* what it carries

vars == <<active, token, expired, pc, input>>

-----------------------------------------------------------------------------
(* Types *)

Token  == Request
Family == Request

Row   == [user : User, family : Family, revoked : BOOLEAN]
NoRow == [user |-> "none"]

LoginBody   == [op : {"login"}, user : User, correct : BOOLEAN]
RefreshBody == [op : {"refresh"}, token : Token, genuine : BOOLEAN]
LogoutBody  == [op : {"logout"}, user : User]
Body        == LoginBody \cup RefreshBody \cup LogoutBody
NoInput     == [op |-> "none"]

Rotating  == {"token", "ownerOfLive", "ownerOfUsed", "revoke", "burn"}
InService == Rotating \cup {"user", "issue", "guard", "revokeAll", "answer"}
Final     == {"done", "rejected", "reuse", "failed"}
PC        == {"idle"} \cup InService \cup Final

-----------------------------------------------------------------------------
(* Helpers *)

IsLogin(r)   == input[r].op = "login"
IsRefresh(r) == input[r].op = "refresh"
IsLogout(r)  == input[r].op = "logout"

Issued(t) == token[t] # NoRow

\* The row a refresh presented.
Presented(r) == token[input[r].token]

\* What issuePair is called with: the login's user and a new family, or the
\* presented row's.
UserFor(r)   == IF IsLogin(r) THEN input[r].user ELSE Presented(r).user
FamilyFor_fresh(r) == r
FamilyFor(r) == IF IsLogin(r) THEN r ELSE Presented(r).family

Goto(r, label) == pc' = [pc EXCEPT ![r] = label]

Revoke_deletes(tokens) ==
    token' = [t \in Token |-> IF t \in tokens THEN NoRow ELSE token[t]]

\* updateMany: the rows of a set that are not revoked are revoked.
Revoke(tokens) ==
    token' = [t \in Token |-> IF Issued(t) /\ t \in tokens
                              THEN [token[t] EXCEPT !.revoked = TRUE]
                              ELSE token[t]]

-----------------------------------------------------------------------------
(* Steps *)

Init ==
    /\ active = User
    /\ token = [t \in Token |-> NoRow]
    /\ expired = {}
    /\ pc = [r \in Request |-> "idle"]
    /\ input = [r \in Request |-> NoInput]

\* A client's answer holds the token of the request.
Delivered == {t \in Token : pc[t] = "done" /\ Issued(t)}

\* A client logs in; refreshes with a token it has received, its newest or
\* an older one (a second tab, a retry after a lost answer); or logs out
\* with the access token that came with one.
ArriveLogin(r) ==
    \E u \in User, correct \in BOOLEAN :
        /\ input' = [input EXCEPT ![r] =
              [op |-> "login", user |-> u, correct |-> correct]]
        /\ Goto(r, "user")

ArriveRefresh(r) ==
    \E t \in Delivered, genuine \in BOOLEAN :
        /\ input' = [input EXCEPT ![r] =
              [op |-> "refresh", token |-> t, genuine |-> genuine]]
        /\ Goto(r, "token")

ArriveLogout(r) ==
    \E t \in Delivered :
        /\ input' = [input EXCEPT ![r] =
              [op |-> "logout", user |-> token[t].user]]
        /\ Goto(r, "guard")

Arrive(r) ==
    /\ pc[r] = "idle"
    /\ ArriveLogin(r) \/ ArriveRefresh(r) \/ ArriveLogout(r)
    /\ UNCHANGED <<active, token, expired>>

MayLogIn_anyUser(r) == input[r].correct

\* login goes on for a user whose deletedAt is null and a correct password.
MayLogIn(r) == input[r].user \in active /\ input[r].correct

\* login: findFirst where deletedAt is null, then the password.
FindUser(r) ==
    /\ pc[r] = "user"
    /\ Goto(r, IF MayLogIn(r) THEN "issue" ELSE "rejected")
    /\ UNCHANGED <<active, token, expired, input>>

ReuseDetected_never(r) == FALSE

ReuseDetected(r) == Presented(r).revoked

AfterVerify_noRevoke(r) == IF input[r].genuine THEN "issue" ELSE "rejected"

\* argon2.verify of the presented secret decides what comes next.
AfterVerify(r) == IF input[r].genuine THEN "revoke" ELSE "rejected"

\* rotate: findUnique reads the row, and remembers whether it is revoked;
FindToken(r) ==
    /\ pc[r] = "token"
    /\ Goto(r, IF ReuseDetected(r) THEN "ownerOfUsed" ELSE "ownerOfLive")
    /\ UNCHANGED <<active, token, expired, input>>

\* then, by a SELECT of its own, the row's user.  The decisions follow.
FindOwner(r) ==
    /\ pc[r] \in {"ownerOfLive", "ownerOfUsed"}
    /\ Goto(r, IF \/ input[r].token \in expired
                  \/ Presented(r).user \notin active
               THEN "rejected"
               ELSE IF pc[r] = "ownerOfUsed" THEN "burn" ELSE AfterVerify(r))
    /\ UNCHANGED <<active, token, expired, input>>

\* rotate: the UPDATE of the presented row, by id only.
RevokeToken(r) ==
    /\ pc[r] = "revoke"
    /\ Revoke({input[r].token})
    /\ Goto(r, "issue")
    /\ UNCHANGED <<active, expired, input>>

\* issuePair: the INSERT of the new row.
IssuePair(r) ==
    /\ pc[r] = "issue"
    /\ token' = [token EXCEPT ![r] =
          [user |-> UserFor(r), family |-> FamilyFor(r), revoked |-> FALSE]]
    /\ Goto(r, "answer")
    /\ UNCHANGED <<active, expired, input>>

\* The pair reaches the client.
Answer(r) ==
    /\ pc[r] = "answer"
    /\ Goto(r, "done")
    /\ UNCHANGED <<active, token, expired, input>>

RevokeFamily_goesOn(r) ==
    /\ pc[r] = "burn"
    /\ Revoke({t \in Token : Issued(t) /\ token[t].family = FamilyFor(r)})
    /\ Goto(r, "issue")
    /\ UNCHANGED <<active, expired, input>>

\* rotate: an already rotated token burns its family.
RevokeFamily(r) ==
    /\ pc[r] = "burn"
    /\ Revoke({t \in Token : Issued(t) /\ token[t].family = FamilyFor(r)})
    /\ Goto(r, "reuse")
    /\ UNCHANGED <<active, expired, input>>

\* JwtStrategy.validate before logout: the user must be active.
Validate(r) ==
    /\ pc[r] = "guard"
    /\ Goto(r, IF input[r].user \in active THEN "revokeAll" ELSE "rejected")
    /\ UNCHANGED <<active, token, expired, input>>

\* logout.
RevokeAll(r) ==
    /\ pc[r] = "revokeAll"
    /\ Revoke({t \in Token : Issued(t) /\ token[t].user = input[r].user})
    /\ Goto(r, "done")
    /\ UNCHANGED <<active, expired, input>>

\* The process dies, the database or the client is lost: the statements
\* that have run stay.
Fail(r) ==
    /\ pc[r] \in InService
    /\ Goto(r, "failed")
    /\ UNCHANGED <<active, token, expired, input>>

\* UsersService.update with isActive, and deactivate.  The token table is
\* not touched.
Update(u) ==
    /\ \E isActive \in BOOLEAN :
          active' = IF isActive THEN active \cup {u} ELSE active \ {u}
    /\ UNCHANGED <<token, expired, pc, input>>

Deactivate(u) ==
    /\ active' = active \ {u}
    /\ UNCHANGED <<token, expired, pc, input>>

\* JWT_REFRESH_TTL after its row was written, a token expires.
Expire(t) ==
    /\ Issued(t)
    /\ expired' = expired \cup {t}
    /\ UNCHANGED <<active, token, pc, input>>

Step(r) ==
    \/ FindUser(r)
    \/ FindToken(r)
    \/ FindOwner(r)
    \/ RevokeToken(r)
    \/ IssuePair(r)
    \/ Answer(r)
    \/ RevokeFamily(r)
    \/ Validate(r)
    \/ RevokeAll(r)

Next ==
    \/ \E r \in Request : Arrive(r) \/ Step(r) \/ Fail(r)
    \/ \E u \in User : Update(u) \/ Deactivate(u)
    \/ \E t \in Token : Expire(t)

Spec == Init /\ [][Next]_vars

-----------------------------------------------------------------------------
(* Type invariant *)

\* Which operations a stage has, and that a refresh names a row that exists.
StageOfOp ==
    \A r \in Request :
        /\ pc[r] # "idle" => input[r] \in Body
        /\ pc[r] = "user" => IsLogin(r)
        /\ pc[r] \in Rotating \cup {"reuse"} => IsRefresh(r)
        /\ pc[r] \in {"guard", "revokeAll"} => IsLogout(r)
        /\ pc[r] \in {"issue", "answer"} => ~IsLogout(r)
        /\ pc[r] # "idle" /\ IsRefresh(r) => Issued(input[r].token)

\* A row appears with the INSERT of the request it is named after.
RowAfterInsert ==
    \A r \in Request :
        /\ Issued(r) => pc[r] \in {"answer", "done", "failed"}
        /\ pc[r] = "answer" => Issued(r)

\* Every variable keeps its type, and each stage is reached only by the
\* operations that have it and with rows that are in the table.
TypeOK ==
    /\ active \subseteq User
    /\ token \in [Token -> Row \cup {NoRow}]
    /\ expired \subseteq Token
    /\ pc \in [Request -> PC]
    /\ input \in [Request -> Body \cup {NoInput}]
    /\ StageOfOp
    /\ RowAfterInsert

-----------------------------------------------------------------------------
(* Rotation and revocation *)

\* Every row descends from a login of its user through rows that are all
\* revoked: the token in the client's hand is a leaf, and burning the family
\* reaches it (rotate revokes before it issues, lines 73-84, and hands on
\* the family).
Lineage ==
    \A t \in Token : Issued(t) =>
        /\ ~IsLogout(t)
        /\ IsLogin(t) => token[t].family = t /\ token[t].user = input[t].user
        /\ IsRefresh(t) => /\ Issued(input[t].token)
                           /\ Presented(t).revoked
                           /\ token[t].family = Presented(t).family
                           /\ token[t].user = Presented(t).user

\* Why: between its two statements a rotation has revoked its parent.
ParentRevoked ==
    \A r \in Request : pc[r] = "issue" /\ IsRefresh(r) => Presented(r).revoked

LineageInv == Lineage /\ ParentRevoked

\* A rotation that has read its row as live and not yet inserted the next one.
InFlight(f) ==
    \E r \in Request : /\ pc[r] \in {"ownerOfLive", "revoke", "issue"}
                       /\ IsRefresh(r)
                       /\ Presented(r).family = f

\* A login has opened the family.
Opened(f) == Issued(f) /\ IsLogin(f)

\* No row of the family is live and none is about to appear.
ClosedFamily(f) ==
    /\ Opened(f)
    /\ \A t \in Token : Issued(t) /\ token[t].family = f => token[t].revoked
    /\ ~InFlight(f)

\* A session that is over stays over, whichever of logout, reuse or a lost
\* rotation ended it and whatever is presented or reactivated later.  Only a
\* rotation that was in flight at that moment can still put a live row
\* behind it (TokenService, lines 55-99).
ClosedForGood ==
    [][\A f \in Family : ClosedFamily(f) => ClosedFamily(f)']_vars

\* The logins and rotations that found the user active and go on.
Earning(u) == {r \in Request : /\ pc[r] \in {"revoke", "issue"}
                              /\ UserFor(r) = u}

\* The user is deactivated and no such request is left.
ShutOut(u) == u \notin active /\ Earning(u) = {}

RowsOf(u) == {t \in Token : Issued(t) /\ token[t].user = u}

\* A deactivated user may still get the rows of the logins and rotations
\* that had found the user active; once they are over there is no new row,
\* whatever is presented, until somebody reactivates the user
\* (AuthService.login, lines 14-28, and TokenService.rotate, lines 51-85).
\* So the rows that nobody could revoke, as logging out takes an active user,
\* are worth nothing meanwhile.
DeactivatedEarnsNothing ==
    [][\A u \in User :
          ShutOut(u) => /\ ShutOut(u)' \/ u \in active'
                        /\ RowsOf(u)' = RowsOf(u)]_vars

\* A refresh whose token was revoked before it read the table, or that has
\* been answered without a pair.
Refused(r) ==
    /\ IsRefresh(r)
    /\ ~Issued(r)
    /\ \/ pc[r] = "token" /\ Presented(r).revoked
       \/ pc[r] \in {"ownerOfUsed", "burn"} \cup Final

\* A token that is revoked before the refresh that presents it reads the
\* table never earns that refresh a row, whatever happens in between.
RevokedNeverServed ==
    [][\A r \in Request : Refused(r) => Refused(r)']_vars

\* "tokens rotate on every use; presenting an already-used token burns the
\* whole family" (README.md:165): one token earns at most one successor.
RotatedOnce ==
    \A q, r \in Request :
        /\ Issued(q) /\ IsRefresh(q)
        /\ Issued(r) /\ IsRefresh(r)
        /\ input[q].token = input[r].token
        => q = r

=============================================================================
