--------------------------- MODULE SerialSessions ---------------------------
(***************************************************************************)
(* Sessions with requests that do not overlap: one is answered, or has     *)
(* failed, before the next arrives.  Under this workload rotation          *)
(* implements SessionFamilies; the run that finds a token rotated twice    *)
(* without the restriction shows that overlap is the cause.                *)
(***************************************************************************)
EXTENDS Sessions

CONSTANTS Unopened, Closed    \* what SessionFamilies says of a family

ASSUME FamilyStates == Unopened # Closed /\ {Unopened, Closed} \cap Token = {}

Busy == {r \in Request : pc[r] \in InService}

AtMostOne(S) == \A x, y \in S : x = y

\* At most one request is in service, before and after every step.
OneAtATime == AtMostOne(Busy) /\ AtMostOne(Busy')

SerialSpec == Init /\ [][Next /\ OneAtATime]_vars

\* The rows whose successor is about to be inserted.
BeingRotated == {input[r].token : r \in {q \in Request : /\ pc[q] = "issue"
                                                        /\ IsRefresh(q)}}

\* The rows that are in force: live, or revoked by a rotation that is not
\* over yet.
InForce == {t \in Token : Issued(t) /\ ~token[t].revoked} \cup BeingRotated

InForceOf(f) == {t \in InForce : token[t].family = f}

Current(f) ==
    IF InForceOf(f) # {} THEN CHOOSE t \in InForceOf(f) : TRUE
    ELSE IF Opened(f) THEN Closed ELSE Unopened

Spent == {t \in Token : Issued(t)} \ InForce

Families == INSTANCE SessionFamilies
               WITH current <- [f \in Family |-> Current(f)], spent <- Spent

\* One request at a time, every login, rotation, reuse and logout is one step
\* of SessionFamilies or none, wherever it fails and whatever answer is lost.
FamiliesSpec == Families!Spec

-----------------------------------------------------------------------------
(* Why *)

\* A rotation that goes on is of a live row, which it revokes itself, and
\* nobody has rotated that row: ...
RotationAlone ==
    \A r \in Request :
        pc[r] \in {"ownerOfLive", "revoke", "issue"} /\ IsRefresh(r) =>
        /\ pc[r] # "issue" => ~Presented(r).revoked
        /\ \A q \in Request : Issued(q) /\ IsRefresh(q)
                                 => input[q].token # input[r].token

\* ... so a family has one row in force at most, and a login that opened it.
OneInForce == \A s, t \in InForce : token[s].family = token[t].family => s = t

FamiliesOpened == \A t \in Token : Issued(t) => Opened(token[t].family)

SerialInv == RotationAlone /\ OneInForce /\ FamiliesOpened /\ RotatedOnce
=============================================================================
