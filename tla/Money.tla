-------------------------------- MODULE Money --------------------------------
(***************************************************************************)
(* The decimals of one invoice through its creation and its edits:         *)
(* computeTotals, what update merges into it from the stored columns, and  *)
(* what the Decimal columns keep (src/modules/invoices/invoices.service.ts,*)
(* prisma/schema/invoices.prisma).  Requests do not overlap here; Invoices *)
(* has the overlaps, in whole cents.                                       *)
(*                                                                         *)
(* A client's price is a number of tenths of a cent and its rate a number  *)
(* of thousandths of a percent, so that both the exact halves and their    *)
(* neighbours occur; what is stored are cents and hundredths of a percent. *)
(* On an exact half the double product may fall on either side.  Which way *)
(* is fixed for each input, since computeTotals is a function, and given   *)
(* by the constants.                                                       *)
(*                                                                         *)
(* An operator X_<bug> is X as a plausible bug would have it; the          *)
(* specification does not use it.                                          *)
(***************************************************************************)
EXTENDS Integers, Functions

CONSTANTS
    Line,         \* the item lines an invoice may have
    Quantity,     \* the quantities the clients send
    Price,        \* the unit prices they send, in tenths of a cent
    Rate,         \* the tax rates they send, in thousandths of a percent
    HalfDown,     \* the prices whose exact half Math.round takes down
    HalfCut,      \* the prices whose exact half toFixed(2) takes down
    TaxHalfDown,  \* the <<subtotal, rate>> whose exact half is taken down
    MaxCents,     \* what a money column holds: Decimal(14, 2)
    None          \* an optional field that is absent

VARIABLES
    header,     \* the money columns and the rate, or None before create
    items       \* the item rows, a function on the lines in use

vars == <<header, items>>

\* A rate is at most 100 %, as the clients send it and as the column keeps it.
Percent     == {r \in Nat : r <= 100000}
KeptPercent == {r \in Nat : r <= 10000}

ASSUME PricesAreTenths == Price \subseteq Nat
ASSUME QuantitiesPositive == Quantity \subseteq Nat \ {0}
ASSUME RatesArePercent == Rate \subseteq Percent
\* Observed of doubles: where Math.round goes down, toFixed does too.
ASSUME CutWhereDown == HalfDown \subseteq HalfCut
ASSUME MaxCentsIsNat == MaxCents \in Nat

Cents  == 0..MaxCents
Stored == [quantity : Quantity, unitPrice : Cents, amount : Cents]

\* items of a body: between one line and all of them.
Bodies == UNION {[lines -> [quantity : Quantity, unitPrice : Price]]
                   : lines \in (SUBSET Line) \ {{}}}

-----------------------------------------------------------------------------
(* The roundings *)

Nearest(p, unit, down) == LET half == unit \div 2 IN
    IF p % unit = half /\ down THEN p \div unit ELSE (p + half) \div unit

\* Math.round(unitPrice * 100): the cents an amount is counted in.
Used(price) == Nearest(price, 10, price \in HalfDown)

\* unitPrice.toFixed(2): the cents the unitPrice column keeps.
Kept(price) == Nearest(price, 10, price \in HalfCut)

Tax_floor(subtotal, rate) == (subtotal * rate) \div 100000

\* Math.round((subtotalCents * taxRate) / 100)
Tax(subtotal, rate) ==
    Nearest(subtotal * rate, 100000, <<subtotal, rate>> \in TaxHalfDown)

\* taxRate in a Decimal(5, 2) column: PostgreSQL rounds a half up.
KeptRate(rate) == (rate + 5) \div 10

-----------------------------------------------------------------------------
(* create and update *)

Amount_perLine(item) == (item.quantity * item.unitPrice + 5) \div 10

Amount(item) == item.quantity * Used(item.unitPrice)

priced(its) == [l \in DOMAIN its |->
    [quantity  |-> its[l].quantity, unitPrice |-> Kept(its[l].unitPrice),
     amount    |-> Amount(its[l])]]

Subtotal(rows) == SumFunction([l \in DOMAIN rows |-> rows[l].amount])

totals(subtotal, rate) ==
    [subtotal |-> subtotal, taxRate |-> KeptRate(rate),
     taxAmount |-> Tax(subtotal, rate), total |-> subtotal + Tax(subtotal, rate)]

computeTotals(its, rate) == totals(Subtotal(priced(its)), rate)

Fits_linesOnly(its, rate) ==
    \A l \in DOMAIN its : /\ priced(its)[l].unitPrice \in Cents
                          /\ priced(its)[l].amount \in Cents

\* Every money column holds its value.
Fits(its, rate) ==
    /\ \A l \in DOMAIN its : /\ priced(its)[l].unitPrice \in Cents
                             /\ priced(its)[l].amount \in Cents
    /\ computeTotals(its, rate).subtotal \in Cents
    /\ computeTotals(its, rate).taxAmount \in Cents
    /\ computeTotals(its, rate).total \in Cents

\* The transaction writes header and items, or the database refuses a value
\* and it rolls back.
Write(its, rate) ==
    /\ Fits(its, rate)
    /\ header' = computeTotals(its, rate)
    /\ items' = priced(its)

Init == header = None /\ items = <<>>

create(its, rate) ==
    /\ header = None
    /\ Write(its, rate)

toItemInput_total(row) == [quantity |-> row.quantity, unitPrice |-> 10 * row.amount]

\* A stored row as an item: Number(unitPrice), exact cents.
toItemInput(row) ==
    [quantity |-> row.quantity, unitPrice |-> 10 * row.unitPrice]

\* The stored items and rate as update reads them back.
StoredItems == [l \in DOMAIN items |-> toItemInput(items[l])]
StoredRate  == 10 * header.taxRate

\* An edit that gives the items, the rate, both or neither.
update(its, rate) ==
    /\ header # None
    /\ Write(IF its = None THEN StoredItems ELSE its,
             IF rate = None THEN StoredRate ELSE rate)

Next ==
    \/ \E its \in Bodies, rate \in Rate : create(its, rate)
    \/ \E its \in Bodies \cup {None}, rate \in Rate \cup {None} :
          update(its, rate)

Spec == Init /\ [][Next]_vars

-----------------------------------------------------------------------------
(* Properties *)

\* The columns hold what they are declared to hold.
TypeOK ==
    /\ header = None \/ header \in [subtotal : Cents, taxRate : KeptPercent,
                                    taxAmount : Cents, total : Cents]
    /\ DOMAIN items \subseteq Line
    /\ \A l \in DOMAIN items : items[l] \in Stored

Distance(a, b) == IF a <= b THEN b - a ELSE a - b

\* The header an invoice shows can be checked by its reader: the subtotal is
\* the sum of the amounts, the total adds the tax, and the tax is the stored
\* rate of the subtotal to half a cent and half a hundredth of a percent,
\* although it was computed at a rate the column did not keep (computeTotals,
\* lines 259-268).
HeaderChecks ==
    header # None =>
        /\ header.subtotal = Subtotal(items)
        /\ header.total = header.subtotal + header.taxAmount
        /\ 2 * Distance(10000 * header.taxAmount,
                        header.subtotal * header.taxRate)
              <= 10000 + header.subtotal

\* An edit that does not give the items keeps every line and its unit price,
\* and moves an amount only downwards, by at most one cent per unit, where
\* the price's exact half was counted up and stored cut (toItemInput and
\* computeTotals, lines 239-257).
KeepItems == \E rate \in Rate \cup {None} : update(None, rate)
LinesKept ==
    [][KeepItems =>
        /\ DOMAIN items' = DOMAIN items
        /\ \A l \in DOMAIN items :
              /\ items'[l].quantity = items[l].quantity
              /\ items'[l].unitPrice = items[l].unitPrice
              /\ items'[l].amount
                    \in (items[l].amount - items[l].quantity) .. items[l].amount
      ]_vars

\* The columns are what computeTotals makes of them.
Settled == /\ items = priced(StoredItems)
           /\ header = computeTotals(StoredItems, StoredRate)

\* An edit that changes neither items nor rate may still change the money,
\* once: it moves nothing on an invoice that is settled, and one it has
\* touched is settled (update, lines 144-146).
BlankEdit == update(None, None)
BlankEditSettles ==
    [][BlankEdit => ~Settled /\ Settled']_vars
=============================================================================
