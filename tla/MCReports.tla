------------------------------ MODULE MCReports ------------------------------
(***************************************************************************)
(* A small instance of Reports: three invoices, in the first month of the  *)
(* chart, the one before it and the current one, three clients, pages of   *)
(* one row or two, and two writes during the read.                         *)
(***************************************************************************)
EXTENDS Reports, TLC

CONSTANTS i1, i2, i3, c1, c2, c3

Thousands == 24300
Values == {[issued |-> Thousands + m, total |-> t]
             : <<m, t>> \in {<<0, 1>>, <<1, 1>>, <<6, 1>>, <<6, 2>>}}

Books == [Invoice -> {Absent} \cup
            [status : {"DRAFT", "SENT", "PAID"}, value : Values]]
NoClients == [c \in Client |-> Absent]

Starts ==
    [reads : {"summary", "ANY", "SENT"}, book : Books, clients : {NoClients}]
      \cup [reads : {"clients"}, book : {[i \in Invoice |-> Absent]},
            clients : [Client -> Moment \cup {Absent}]]

Alike == Permutations(Invoice) \cup Permutations(Client)
=============================================================================
