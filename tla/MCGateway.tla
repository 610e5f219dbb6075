------------------------------ MODULE MCGateway ------------------------------
(***************************************************************************)
(* A small instance of Gateway: two addresses that send logins and         *)
(* refreshes, with limits of one and two in a window of two ticks, one     *)
(* start and enough time for a block to end.                               *)
(***************************************************************************)
EXTENDS Gateway

CONSTANTS c1, c2

Requests ==
    {[token |-> "none", request |-> Login],
     [token |-> "none",
      request |-> [verb |-> "POST", path |-> <<"api", "auth", "refresh">>]]}

Alike == Permutations(Client)
=============================================================================
