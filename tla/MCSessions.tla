----------------------------- MODULE MCSessions -----------------------------
(***************************************************************************)
(* Small instances of Sessions and of SerialSessions.                      *)
(***************************************************************************)
EXTENDS SerialSessions, TLC

CONSTANTS r1, r2, r3, r4, u1, u2

RequestSymmetry == Permutations(Request)
=============================================================================
