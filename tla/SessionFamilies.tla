-------------------------- MODULE SessionFamilies --------------------------
(***************************************************************************)
(* What refresh-token rotation promises, with every request one atomic     *)
(* step: a login opens a family with one current token, a rotation         *)
(* replaces it by a new one, a logout, a reuse or a lost rotation closes   *)
(* families for good, and no token that was current before is so again.    *)
(***************************************************************************)
CONSTANTS Family, Token, Unopened, Closed

VARIABLES
    current,    \* current[f]: the token in force, Unopened or Closed
    spent       \* the tokens that were in force and are no more

vars == <<current, spent>>

Init == current = [f \in Family |-> Unopened] /\ spent = {}

Fresh(t) == t \notin spent /\ \A f \in Family : current[f] # t

Open(f, t) ==
    /\ current[f] = Unopened
    /\ Fresh(t)
    /\ current' = [current EXCEPT ![f] = t]
    /\ UNCHANGED spent

Rotate(f, t) ==
    /\ current[f] \in Token
    /\ Fresh(t)
    /\ current' = [current EXCEPT ![f] = t]
    /\ spent' = spent \cup {current[f]}

Close(families) ==
    /\ \A f \in families : current[f] \in Token
    /\ current' = [f \in Family |-> IF f \in families THEN Closed
                                                      ELSE current[f]]
    /\ spent' = spent \cup {current[f] : f \in families}

Next ==
    \/ \E f \in Family, t \in Token : Open(f, t) \/ Rotate(f, t)
    \/ \E families \in SUBSET Family : Close(families)

Spec == Init /\ [][Next]_vars
=============================================================================
