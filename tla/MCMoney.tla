------------------------------- MODULE MCMoney -------------------------------
(***************************************************************************)
(* A small instance of Money: two lines, prices on and around an exact     *)
(* half of a cent, rates the column does and does not keep, and a column   *)
(* that two dear lines and their tax overflow.                             *)
(***************************************************************************)
EXTENDS Money

CONSTANTS l1, l2

\* What doubles make of the halves: 0.005 goes up both ways, 1.005 down both
\* ways, 1.115 is counted as 1.12 and stored as 1.11.  1.114 and 1.116 are no
\* halves; 1.25; 90.00.
Prices == {5, 1005, 1115, 1114, 1116, 1250, 90000}
Down   == {1005}
Cut    == {1005, 1115}

\* 0 %, 9.2 %, 8.875 % (stored as 8.88 %) and 0.004 % (stored as 0).  Of the
\* taxes within reach 8.875 % of 4.00 goes up and 9.2 % of 3.75 goes down.
Rates   == {0, 9200, 8875, 4}
TaxDown == {<<375, 9200>>}
=============================================================================
