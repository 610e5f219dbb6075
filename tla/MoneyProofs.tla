----------------------------- MODULE MoneyProofs -----------------------------
(***************************************************************************)
(* Theorems about Money, for all prices, rates, quantities and lines, for  *)
(* every way the exact halves may round and for columns of any width.      *)
(***************************************************************************)
EXTENDS Money, TLAPS

-----------------------------------------------------------------------------
(* The roundings *)

LEMMA NearestType ==
    ASSUME NEW p \in Nat, NEW down
    PROVE  Nearest(p, 10, down) \in Nat /\ Nearest(p, 100000, down) \in Nat
BY DEF Nearest

\* Whole cents and whole hundredths are kept as they are.
LEMMA WholeIsKept ==
    ASSUME NEW c \in Nat
    PROVE  Used(10 * c) = c /\ Kept(10 * c) = c /\ KeptRate(10 * c) = c
<1>1. ASSUME NEW down PROVE Nearest(10 * c, 10, down) = c
  BY DEF Nearest
<1> QED BY <1>1 DEF Used, Kept, KeptRate

\* What is counted is what is stored, or one cent more.
LEMMA UsedNearKept ==
    ASSUME NEW p \in Nat
    PROVE  Used(p) \in Nat /\ Kept(p) \in Nat /\ Used(p) \in Kept(p) .. (Kept(p) + 1)
<1>1. CASE p % 10 = 5
  <2>1. (p + 5) \div 10 = (p \div 10) + 1
    BY <1>1
  <2> QED BY <2>1, CutWhereDown DEF Used, Kept, Nearest
<1>2. CASE p % 10 # 5
  BY <1>2 DEF Used, Kept, Nearest
<1> QED BY <1>1, <1>2

LEMMA TaxIsNear ==
    ASSUME NEW s \in Nat, NEW r \in Nat
    PROVE  /\ s * r \in Nat /\ Tax(s, r) \in Nat
           /\ Distance(100000 * Tax(s, r), s * r) <= 50000
<1> DEFINE p == s * r
<1>1. p \in Nat
  OBVIOUS
<1> HIDE DEF p
<1>2. ASSUME NEW down
      PROVE  /\ Nearest(p, 100000, down) \in Nat
             /\ Distance(100000 * Nearest(p, 100000, down), p) <= 50000
  <2> DEFINE n == Nearest(p, 100000, down)
  <2>1. /\ n \in Nat /\ 100000 * n <= p + 50000 /\ p <= 100000 * n + 50000
    BY <1>1 DEF Nearest
  <2> HIDE DEF n
  <2>2. n \in Nat /\ Distance(100000 * n, p) <= 50000
    BY <1>1, <2>1 DEF Distance
  <2> QED BY <2>2 DEF n
<1>3. Tax(s, r) = Nearest(p, 100000, <<s, r>> \in TaxHalfDown)
  BY DEF Tax, p
<1>4. /\ Tax(s, r) \in Nat
      /\ Distance(100000 * Tax(s, r), p) <= 50000
  BY <1>2, <1>3
<1> QED BY <1>1, <1>4 DEF p

-----------------------------------------------------------------------------
(* Writes *)

\* What a write may be given.
Writable(its, rate) ==
    /\ DOMAIN its \subseteq Line
    /\ \A l \in DOMAIN its : its[l].quantity \in Quantity
                             /\ its[l].unitPrice \in Nat
    /\ rate \in Percent

\* The bodies, and what update reads back, can be written.
LEMMA StepsWrite ==
    ASSUME TypeOK, Next
    PROVE  \E its, rate : Writable(its, rate) /\ Write(its, rate)
<1>1. ASSUME NEW its \in Bodies, NEW rate \in Percent
      PROVE  Writable(its, rate)
  <2>1. PICK lines \in SUBSET Line :
            its \in [lines -> [quantity : Quantity, unitPrice : Price]]
    BY DEF Bodies
  <2> QED BY <2>1, PricesAreTenths DEF Writable
<1>2. ASSUME NEW rate \in Percent
      PROVE  Writable(StoredItems, rate)
  <2>1. DOMAIN StoredItems = DOMAIN items
    BY DEF StoredItems
  <2>2. ASSUME NEW l \in DOMAIN items
        PROVE  /\ StoredItems[l].quantity \in Quantity
               /\ StoredItems[l].unitPrice \in Nat
    <3>1. items[l].quantity \in Quantity /\ items[l].unitPrice \in Cents
      BY DEF TypeOK, Stored
    <3>2. items[l].unitPrice \in Nat
      BY <3>1, MaxCentsIsNat DEF Cents
    <3>3. StoredItems[l] = toItemInput(items[l])
      BY DEF StoredItems
    <3>4. 10 * items[l].unitPrice \in Nat
      BY <3>2
    <3> QED BY <3>1, <3>3, <3>4 DEF toItemInput
  <2> QED BY <2>1, <2>2 DEF Writable, TypeOK
<1>3. header # None => StoredRate \in Percent
  <2>1. ASSUME NEW x \in KeptPercent PROVE 10 * x \in Percent
    BY DEF KeptPercent, Percent
  <2>2. header # None => header.taxRate \in KeptPercent
    BY DEF TypeOK
  <2> QED BY <2>1, <2>2 DEF StoredRate
<1>4. ASSUME NEW its \in Bodies, NEW rate \in Rate, create(its, rate)
      PROVE  Writable(its, rate) /\ Write(its, rate)
  <2>1. rate \in Percent
    BY RatesArePercent, Zenon
  <2> QED BY <1>1, <1>4, <2>1 DEF create
<1>5. ASSUME NEW its \in Bodies \cup {None}, NEW rate \in Rate \cup {None},
             update(its, rate)
      PROVE  \E i, r : Writable(i, r) /\ Write(i, r)
  <2> DEFINE given == IF its = None THEN StoredItems ELSE its
             at    == IF rate = None THEN StoredRate ELSE rate
  <2>1. Write(given, at) /\ header # None
    BY <1>5 DEF update
  <2>2. at \in Percent
    <3>1. rate # None => rate \in Percent
      BY RatesArePercent, Zenon
    <3> QED BY <1>3, <2>1, <3>1
  <2> HIDE DEF at
  <2>3. Writable(given, at)
    BY <1>1, <1>2, <2>2
  <2> HIDE DEF given
  <2> QED BY <2>1, <2>3
<1> QED BY <1>4, <1>5 DEF Next

\* Each stored row is what priced makes of its item.
LEMMA PricedRow ==
    ASSUME NEW its, NEW l \in DOMAIN its
    PROVE  /\ priced(its)[l].quantity = its[l].quantity
           /\ priced(its)[l].unitPrice = Kept(its[l].unitPrice)
           /\ priced(its)[l].amount = its[l].quantity * Used(its[l].unitPrice)
           /\ priced(its)[l] = [quantity  |-> priced(its)[l].quantity,
                                unitPrice |-> priced(its)[l].unitPrice,
                                amount    |-> priced(its)[l].amount]
BY DEF priced, Amount

LEMMA WriteType ==
    ASSUME NEW its, NEW rate, Writable(its, rate), Write(its, rate)
    PROVE  TypeOK'
<1>0. items' = priced(its) /\ DOMAIN priced(its) = DOMAIN its
  BY DEF Write, priced
<1>1. DOMAIN items' \subseteq Line
  BY <1>0 DEF Writable
<1>2. ASSUME NEW l \in DOMAIN its PROVE priced(its)[l] \in Stored
  <2>1. priced(its)[l].quantity \in Quantity
    BY PricedRow DEF Writable
  <2>2. priced(its)[l].unitPrice \in Cents /\ priced(its)[l].amount \in Cents
    BY DEF Write, Fits
  <2> DEFINE row == priced(its)[l]
  <2>3. row = [quantity  |-> row.quantity, unitPrice |-> row.unitPrice,
               amount    |-> row.amount]
    BY PricedRow, Zenon
  <2>4. row.quantity \in Quantity /\ row.unitPrice \in Cents /\ row.amount \in Cents
    BY <2>1, <2>2
  <2> HIDE DEF row
  <2>5. row \in Stored
    BY <2>3, <2>4 DEF Stored
  <2> QED BY <2>5 DEF row
<1>3. \A l \in DOMAIN items' : items'[l] \in Stored
  BY <1>0, <1>2
<1>4. KeptRate(rate) \in KeptPercent
  <2>1. ASSUME NEW r \in Percent PROVE (r + 5) \div 10 \in KeptPercent
    BY DEF Percent, KeptPercent
  <2> QED BY <2>1 DEF Writable, KeptRate
<1>5. header' \in [subtotal : Cents, taxRate : KeptPercent, taxAmount : Cents,
                   total : Cents]
  <2>1. header' = [subtotal  |-> header'.subtotal, taxRate |-> KeptRate(rate),
                   taxAmount |-> header'.taxAmount, total |-> header'.total]
    BY DEF Write, computeTotals, totals
  <2>2. header'.subtotal \in Cents /\ header'.taxAmount \in Cents
        /\ header'.total \in Cents
    BY DEF Write, Fits
  <2> QED BY <1>4, <2>1, <2>2
<1> QED BY <1>1, <1>3, <1>5 DEF TypeOK

\* The columns keep their types, whatever the clients send.
THEOREM TypeCorrect == Spec => []TypeOK
<1>1. Init => TypeOK
  BY DEF Init, TypeOK
<1>2. TypeOK /\ [Next]_vars => TypeOK'
  <2>1. ASSUME TypeOK, Next PROVE TypeOK'
    BY <2>1, StepsWrite, WriteType
  <2>2. ASSUME TypeOK, UNCHANGED vars PROVE TypeOK'
    BY <2>2 DEF TypeOK, vars
  <2> QED BY <2>1, <2>2
<1> QED BY <1>1, <1>2, PTL DEF Spec

-----------------------------------------------------------------------------
(* The header *)

LEMMA TaxOfStoredRate ==
    ASSUME NEW s \in Nat, NEW r \in Nat
    PROVE  2 * Distance(10000 * Tax(s, r), s * KeptRate(r)) <= 10000 + s
<1> DEFINE k == KeptRate(r)
           t == Tax(s, r)
           d == 10 * k - r
<1>1. k \in Nat /\ d \in (-5)..5
  BY DEF KeptRate
<1>2. t \in Nat /\ s * r \in Nat
      /\ 100000 * t <= s * r + 50000 /\ s * r <= 100000 * t + 50000
  <2>1. ASSUME NEW x \in Int, NEW y \in Int, Distance(x, y) <= 50000
        PROVE  x <= y + 50000 /\ y <= x + 50000
    BY <2>1 DEF Distance
  <2>2. s * r \in Nat /\ t \in Nat /\ Distance(100000 * t, s * r) <= 50000
    BY TaxIsNear
  <2> HIDE DEF t
  <2>3. 100000 * t \in Int
    BY <2>2
  <2> QED BY <2>1, <2>2, <2>3
<1>3. s * d \in Int /\ s * d <= 5 * s /\ -5 * s <= s * d
  <2> HIDE DEF d
  <2> QED BY <1>1
<1>4. 10 * (s * k) = s * r + s * d
  <2> HIDE DEF k
  <2> QED BY <1>1
<1>5. s * k \in Nat
  BY <1>1
<1> DEFINE a == s * k
           b == s * r
           c == s * d
<1>6. a \in Nat /\ b \in Nat /\ c \in Int /\ 10 * a = b + c
      /\ c <= 5 * s /\ -5 * s <= c
      /\ 100000 * t <= b + 50000 /\ b <= 100000 * t + 50000
  BY <1>2, <1>3, <1>4, <1>5
<1> HIDE DEF a, b, c, t
<1>7. 2 * Distance(10000 * t, a) <= 10000 + s
  BY <1>2, <1>6 DEF Distance
<1> QED BY <1>7 DEF a, t

LEMMA WriteChecks ==
    ASSUME NEW its, NEW rate, Writable(its, rate), Write(its, rate)
    PROVE  HeaderChecks'
<1> DEFINE s == Subtotal(priced(its))
<1>1. header' = totals(s, rate) /\ Subtotal(items)' = s
  BY DEF Write, computeTotals, Subtotal
<1>2. s \in Nat /\ rate \in Nat
  <2>1. computeTotals(its, rate).subtotal = s
    BY DEF computeTotals, totals
  <2>2. s \in Cents
    BY <2>1 DEF Write, Fits
  <2> QED BY <2>2, MaxCentsIsNat DEF Cents, Writable, Percent
<1> HIDE DEF s
<1>3. /\ header'.subtotal = s /\ header'.taxRate = KeptRate(rate)
      /\ header'.taxAmount = Tax(s, rate) /\ header'.total = s + Tax(s, rate)
  BY <1>1 DEF totals
<1>4. 2 * Distance(10000 * Tax(s, rate), s * KeptRate(rate)) <= 10000 + s
  BY <1>2, TaxOfStoredRate
<1> QED BY <1>1, <1>3, <1>4 DEF HeaderChecks

\* A reader can check every header, at the rate the column kept.
THEOREM HeadersCheck == Spec => []HeaderChecks
<1>1. Init => HeaderChecks
  BY DEF Init, HeaderChecks
<1>2. TypeOK /\ HeaderChecks /\ [Next]_vars => HeaderChecks'
  <2>1. ASSUME TypeOK, Next PROVE HeaderChecks'
    BY <2>1, StepsWrite, WriteChecks
  <2>2. ASSUME HeaderChecks, UNCHANGED vars PROVE HeaderChecks'
    BY <2>2 DEF HeaderChecks, vars, Subtotal
  <2> QED BY <2>1, <2>2
<1> QED BY <1>1, <1>2, TypeCorrect, PTL DEF Spec

-----------------------------------------------------------------------------
(* Edits that keep the items *)

\* An amount was counted at the price its row stores, or at a cent more.
AmountNearPrice ==
    \A l \in DOMAIN items :
        items[l].amount \in (items[l].quantity * items[l].unitPrice)
                              .. (items[l].quantity * items[l].unitPrice
                                    + items[l].quantity)

LEMMA WriteNearPrice ==
    ASSUME NEW its, NEW rate, Writable(its, rate), Write(its, rate)
    PROVE  AmountNearPrice'
<1> SUFFICES ASSUME NEW l \in DOMAIN its
             PROVE  LET row == priced(its)[l] IN
                    row.amount \in (row.quantity * row.unitPrice)
                         .. (row.quantity * row.unitPrice + row.quantity)
  BY DEF AmountNearPrice, Write, priced
<1> DEFINE q == its[l].quantity
           p == its[l].unitPrice
<1>1. q \in Nat /\ p \in Nat
  BY QuantitiesPositive DEF Writable
<1>2. /\ Used(p) \in Nat /\ Kept(p) \in Nat
      /\ Used(p) = Kept(p) \/ Used(p) = Kept(p) + 1
  <2>1. /\ Used(p) \in Nat /\ Kept(p) \in Nat
        /\ Used(p) \in Kept(p) .. (Kept(p) + 1)
    BY <1>1, UsedNearKept, Zenon
  <2> QED BY <2>1
<1> HIDE DEF q, p
<1>3. q * Used(p) = q * Kept(p) \/ q * Used(p) = q * Kept(p) + q
  BY <1>1, <1>2
<1>4. q * Kept(p) \in Nat /\ q * Used(p) \in Nat
  BY <1>1, <1>2
<1>5. q * Used(p) \in (q * Kept(p)) .. (q * Kept(p) + q)
  BY <1>1, <1>3, <1>4
<1> QED BY <1>5, PricedRow DEF q, p

\* An amount is quantity times the stored price, or a cent per unit more.
THEOREM AmountsNearPrices == Spec => []AmountNearPrice
<1>1. Init => AmountNearPrice
  BY DEF Init, AmountNearPrice
<1>2. TypeOK /\ AmountNearPrice /\ [Next]_vars => AmountNearPrice'
  <2>1. ASSUME TypeOK, Next PROVE AmountNearPrice'
    BY <2>1, StepsWrite, WriteNearPrice
  <2>2. ASSUME AmountNearPrice, UNCHANGED vars PROVE AmountNearPrice'
    BY <2>2 DEF AmountNearPrice, vars
  <2> QED BY <2>1, <2>2
<1> QED BY <1>1, <1>2, TypeCorrect, PTL DEF Spec

\* A row that is read back and priced again keeps quantity and price.
LEMMA RowReadBack ==
    ASSUME TypeOK, NEW l \in DOMAIN items
    PROVE  /\ l \in DOMAIN StoredItems
           /\ priced(StoredItems)[l].quantity = items[l].quantity
           /\ priced(StoredItems)[l].unitPrice = items[l].unitPrice
           /\ priced(StoredItems)[l].amount
                 = items[l].quantity * items[l].unitPrice
<1>1. items[l].unitPrice \in Nat
  BY MaxCentsIsNat DEF TypeOK, Stored, Cents
<1>2. /\ l \in DOMAIN StoredItems
      /\ StoredItems[l].quantity = items[l].quantity
      /\ StoredItems[l].unitPrice = 10 * items[l].unitPrice
  BY DEF StoredItems, toItemInput
<1>3. /\ Used(10 * items[l].unitPrice) = items[l].unitPrice
      /\ Kept(10 * items[l].unitPrice) = items[l].unitPrice
  BY <1>1, WholeIsKept
<1> DEFINE its == StoredItems
<1>4. l \in DOMAIN its
  BY <1>2
<1>5. /\ priced(its)[l].quantity = its[l].quantity
      /\ priced(its)[l].unitPrice = Kept(its[l].unitPrice)
      /\ priced(its)[l].amount = its[l].quantity * Used(its[l].unitPrice)
  BY <1>4, PricedRow
<1> QED BY <1>2, <1>3, <1>5

\* An edit without items keeps lines and prices and lowers an amount by at
\* most a cent per unit.
THEOREM LinesAreKept == Spec => LinesKept
<1> DEFINE Kept1 ==
        /\ DOMAIN items' = DOMAIN items
        /\ \A l \in DOMAIN items :
              /\ items'[l].quantity = items[l].quantity
              /\ items'[l].unitPrice = items[l].unitPrice
              /\ items'[l].amount
                    \in (items[l].amount - items[l].quantity) .. items[l].amount
<1>1. ASSUME TypeOK, AmountNearPrice, KeepItems PROVE Kept1
  <2>1. items' = priced(StoredItems)
    BY <1>1 DEF KeepItems, update, Write
  <2>2. DOMAIN items' = DOMAIN items
    BY <2>1 DEF priced, StoredItems
  <2>3. ASSUME NEW l \in DOMAIN items
        PROVE  /\ items'[l].quantity = items[l].quantity
               /\ items'[l].unitPrice = items[l].unitPrice
               /\ items'[l].amount \in (items[l].amount - items[l].quantity)
                                          .. items[l].amount
    <3>1. /\ items'[l].quantity = items[l].quantity
          /\ items'[l].unitPrice = items[l].unitPrice
          /\ items'[l].amount = items[l].quantity * items[l].unitPrice
      BY <1>1, <2>1, RowReadBack
    <3>2. items[l].quantity \in Nat /\ items[l].unitPrice \in Nat
          /\ items[l].amount \in Nat
      <4>1. items[l] \in Stored
        BY <1>1 DEF TypeOK
      <4>2. items[l].quantity \in Quantity /\ items[l].unitPrice \in Cents
            /\ items[l].amount \in Cents
        BY <4>1 DEF Stored
      <4>3. Quantity \subseteq Nat /\ Cents \subseteq Nat
        BY QuantitiesPositive, MaxCentsIsNat DEF Cents
      <4> QED BY <4>2, <4>3
    <3>3. items[l].quantity * items[l].unitPrice \in Nat
      BY <3>2
    <3>4. items[l].amount \in (items[l].quantity * items[l].unitPrice)
                                .. (items[l].quantity * items[l].unitPrice
                                      + items[l].quantity)
      BY <1>1 DEF AmountNearPrice
    <3> QED BY <3>1, <3>2, <3>3, <3>4
  <2> QED BY <2>2, <2>3
<1>2. TypeOK /\ AmountNearPrice => [KeepItems => Kept1]_vars
  BY <1>1
<1> QED BY <1>2, TypeCorrect, AmountsNearPrices, PTL DEF Spec, LinesKept

-----------------------------------------------------------------------------
(* Edits that keep everything *)

LEMMA ReadBackIsStable ==
    ASSUME TypeOK, BlankEdit
    PROVE  StoredItems' = StoredItems /\ StoredRate' = StoredRate
<1>1. /\ items' = priced(StoredItems) /\ header # None
      /\ header' = computeTotals(StoredItems, StoredRate)
  BY DEF BlankEdit, update, Write
<1>2. DOMAIN items' = DOMAIN items
  BY <1>1 DEF priced, StoredItems
<1>3. \A l \in DOMAIN items : /\ items'[l].quantity = items[l].quantity
                              /\ items'[l].unitPrice = items[l].unitPrice
  BY <1>1, RowReadBack
<1>4. StoredItems' = StoredItems
  BY <1>2, <1>3 DEF StoredItems, toItemInput
<1>5. header.taxRate \in Nat
  <2>1. header.taxRate \in KeptPercent
    BY <1>1 DEF TypeOK
  <2> QED BY <2>1 DEF KeptPercent
<1>6. header'.taxRate = KeptRate(10 * header.taxRate)
  BY <1>1 DEF computeTotals, totals, StoredRate
<1> QED BY <1>4, <1>5, <1>6, WholeIsKept DEF StoredRate

\* A blank edit moves the money at most once.
THEOREM BlankEditsSettle == Spec => BlankEditSettles
<1>1. ASSUME TypeOK, BlankEdit, vars' # vars PROVE ~Settled /\ Settled'
  <2>1. /\ items' = priced(StoredItems)
        /\ header' = computeTotals(StoredItems, StoredRate)
    BY <1>1 DEF BlankEdit, update, Write
  <2>2. ~Settled
    BY <1>1, <2>1 DEF Settled, vars
  <2>3. StoredItems' = StoredItems /\ StoredRate' = StoredRate
    BY <1>1, ReadBackIsStable
  <2>4. /\ items' = priced(StoredItems')
        /\ header' = computeTotals(StoredItems', StoredRate')
    BY <2>1, <2>3
  <2> QED BY <2>2, <2>4 DEF Settled, priced, computeTotals
<1>2. TypeOK => [BlankEdit => ~Settled /\ Settled']_vars
  BY <1>1
<1> QED BY <1>2, TypeCorrect, PTL DEF Spec, BlankEditSettles
=============================================================================
