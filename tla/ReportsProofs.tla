---------------------------- MODULE ReportsProofs ----------------------------
(***************************************************************************)
(* Theorems about Reports, for every finite table and every size of page.  *)
(***************************************************************************)
EXTENDS Reports, FiniteSetTheorems, TLAPS

-----------------------------------------------------------------------------
(* Rows in order: rows is a finite set, key their order, the greatest first *)

Ahead(rows, key, r) == {other \in rows : key[other] > key[r]}

\* No other row has the key of r.
Alone(rows, key, r) == \A other \in rows \ {r} : key[other] # key[r]

LEMMA AheadIsFinite ==
    ASSUME NEW rows, IsFiniteSet(rows), NEW key, NEW r
    PROVE  /\ IsFiniteSet(Ahead(rows, key, r))
           /\ Cardinality(Ahead(rows, key, r)) \in 0..Cardinality(rows)
<1>1. Ahead(rows, key, r) \in SUBSET rows
  BY DEF Ahead
<1> QED BY <1>1, FS_Subset, FS_CardinalityType

\* Rows that are alone with their keys have as many places as there are rows.
LEMMA PlacesDiffer ==
    ASSUME NEW rows, IsFiniteSet(rows), NEW key \in [rows -> Int],
           NEW S \in SUBSET rows, \A r \in S : Alone(rows, key, r),
           NEW a \in Int, NEW n \in Nat,
           \A r \in S : Cardinality(Ahead(rows, key, r)) \in a..(a + n - 1)
    PROVE  Cardinality(S) <= n
<1> DEFINE place == [r \in S |-> Cardinality(Ahead(rows, key, r))]
<1>1. ASSUME NEW r \in S, NEW s \in S, key[r] > key[s]
      PROVE  place[r] < place[s]
  <2>1. /\ Ahead(rows, key, r) \in SUBSET Ahead(rows, key, s)
        /\ r \in Ahead(rows, key, s) /\ r \notin Ahead(rows, key, r)
    BY <1>1 DEF Ahead
  <2>2. /\ IsFiniteSet(Ahead(rows, key, s))
        /\ Cardinality(Ahead(rows, key, s)) \in Nat
        /\ Cardinality(Ahead(rows, key, r)) \in Nat
    BY AheadIsFinite, FS_CardinalityType
  <2> QED BY <2>1, <2>2, FS_Subset
<1>2. place \in Injection(S, a..(a + n - 1))
  <2>1. ASSUME NEW r \in S, NEW s \in S, place[r] = place[s]
        PROVE  r = s
    <3>1. place[r] \in Int /\ place[s] \in Int
      OBVIOUS
    <3>2. ~(key[r] > key[s]) /\ ~(key[s] > key[r])
      BY <1>1, <2>1, <3>1
    <3>3. key[r] = key[s]
      BY <3>2
    <3> QED BY <3>3 DEF Alone
  <2> QED BY <2>1 DEF Injection, IsInjective
<1>3. IsFiniteSet(a..(a + n - 1)) /\ Cardinality(a..(a + n - 1)) = n
  BY FS_Interval
<1> QED BY <1>2, <1>3, FS_Injection

\* The first n rows, in an order that may choose among equal keys.
AreFirst(S, rows, key, n) ==
    /\ S \subseteq rows
    /\ Cardinality(S) = IF n <= Cardinality(rows) THEN n ELSE Cardinality(rows)
    /\ \A s \in S, r \in rows \ S : key[s] >= key[r]

LEMMA FirstsAreFirst ==
    ASSUME NEW list, NEW rows, IsFiniteSet(rows), NEW n \in Nat,
           NEW S \in Firsts(list, rows, n)
    PROVE  AreFirst(S, rows, [r \in rows |-> Key(list, r)], n)
<1>1. Cardinality(rows) \in Nat
  BY FS_CardinalityType
<1>2. Min({n, Cardinality(rows)})
        = IF n <= Cardinality(rows) THEN n ELSE Cardinality(rows)
  BY <1>1 DEF Min
<1> QED BY <1>2 DEF Firsts, kSubset, AreFirst

\* A row that is alone with its key is on the page of its place, and on no
\* other.
LEMMA PageOfPlace ==
    ASSUME NEW rows, IsFiniteSet(rows), NEW key \in [rows -> Int],
           NEW skip \in Nat, NEW take \in Nat,
           NEW front, AreFirst(front, rows, key, skip),
           NEW data, AreFirst(data, rows \ front, key, take),
           NEW r \in rows, Alone(rows, key, r)
    PROVE  r \in data <=>
              Cardinality(Ahead(rows, key, r)) \in skip..(skip + take - 1)
<1> DEFINE before == Ahead(rows, key, r)
<1>1. /\ IsFiniteSet(before) /\ Cardinality(before) \in Nat
      /\ IsFiniteSet(front) /\ Cardinality(front) \in Nat
      /\ IsFiniteSet(rows \ front) /\ Cardinality(rows \ front) \in Nat
      /\ IsFiniteSet(data) /\ Cardinality(data) \in Nat
      /\ Cardinality(rows) \in Nat
  <2>1. front \in SUBSET rows /\ data \in SUBSET (rows \ front)
    BY DEF AreFirst
  <2>2. IsFiniteSet(rows \ front)
    BY FS_Difference
  <2>3. IsFiniteSet(front) /\ IsFiniteSet(data)
    BY <2>1, <2>2, FS_Subset
  <2> QED BY <2>2, <2>3, AheadIsFinite, FS_CardinalityType
<1>2. /\ IsFiniteSet(front \cup data)
      /\ Cardinality(front \cup data) = Cardinality(front) + Cardinality(data)
  <2>1. front \cap data = {}
    BY DEF AreFirst
  <2>2. /\ IsFiniteSet(front \cup data)
        /\ Cardinality(front \cup data)
              = Cardinality(front) + Cardinality(data) - Cardinality(front \cap data)
    BY <1>1, FS_Union
  <2>3. Cardinality(front \cap data) = 0
    BY <2>1, FS_EmptySet
  <2> HIDE DEF before
  <2> QED BY <1>1, <2>2, <2>3
<1>3. Cardinality(front) <= skip /\ Cardinality(data) <= take
  BY <1>1 DEF AreFirst
<1>4. ASSUME r \in data PROVE Cardinality(before) < skip + take
  <2>1. before \in SUBSET ((front \cup data) \ {r})
    <3> SUFFICES ASSUME NEW s \in before, s \notin front, s \notin data
                 PROVE  FALSE
      BY DEF Ahead
    <3>1. s \in rows /\ key[s] > key[r] /\ key[s] \in Int /\ key[r] \in Int
      BY DEF Ahead
    <3>2. key[r] >= key[s]
      BY <1>4, <3>1 DEF AreFirst
    <3> QED BY <3>1, <3>2
  <2>2. /\ IsFiniteSet((front \cup data) \ {r})
        /\ Cardinality((front \cup data) \ {r})
              = Cardinality(front) + Cardinality(data) - 1
    <3>1. r \in front \cup data
      BY <1>4
    <3>2. Cardinality((front \cup data) \ {r}) = Cardinality(front \cup data) - 1
      BY <1>2, <3>1, FS_RemoveElement
    <3>3. IsFiniteSet((front \cup data) \ {r})
      BY <1>2, FS_RemoveElement
    <3> HIDE DEF before
    <3> QED BY <1>1, <1>2, <3>2, <3>3
  <2>3. Cardinality(before) <= Cardinality(front) + Cardinality(data) - 1
    BY <2>1, <2>2, FS_Subset
  <2> HIDE DEF before
  <2> QED BY <1>1, <1>3, <2>3
<1>5. ASSUME r \notin front
      PROVE  Cardinality(front) = skip /\ front \in SUBSET before
  <2>1. Cardinality(front) = skip
    <3> SUFFICES ASSUME Cardinality(front) # skip PROVE FALSE
      OBVIOUS
    <3>1. Cardinality(front) = Cardinality(rows)
      BY DEF AreFirst
    <3>2. front = rows
      BY <3>1, FS_Subset DEF AreFirst
    <3> QED BY <1>5, <3>2
  <2>2. ASSUME NEW s \in front PROVE s \in before
    <3>1. s \in rows /\ s # r /\ key[s] >= key[r]
      BY <1>5 DEF AreFirst
    <3>2. key[s] # key[r] /\ key[s] \in Int /\ key[r] \in Int
      BY <3>1 DEF Alone
    <3> QED BY <3>1, <3>2 DEF Ahead
  <2> QED BY <2>1, <2>2
<1>6. ASSUME r \in data PROVE skip <= Cardinality(before)
  <2>1. r \notin front
    BY <1>6 DEF AreFirst
  <2> QED BY <1>1, <1>5, <2>1, FS_Subset
<1>7. ASSUME Cardinality(before) \in skip..(skip + take - 1) PROVE r \in data
  <2>1. r \notin front
    <3> SUFFICES ASSUME r \in front PROVE FALSE
      OBVIOUS
    <3>1. before \in SUBSET (front \ {r})
      <4> SUFFICES ASSUME NEW s \in before, s \notin front PROVE FALSE
        BY DEF Ahead
      <4>1. s \in rows /\ key[s] > key[r] /\ key[s] \in Int /\ key[r] \in Int
        BY DEF Ahead
      <4> QED BY <4>1 DEF AreFirst
    <3>2. Cardinality(before) <= Cardinality(front) - 1
      <4>1. /\ IsFiniteSet(front \ {r})
            /\ Cardinality(front \ {r}) = Cardinality(front) - 1
        BY <1>1, FS_RemoveElement
      <4> QED BY <3>1, <4>1, FS_Subset
    <3> HIDE DEF before
    <3> QED BY <1>1, <1>3, <1>7, <3>2
  <2> SUFFICES ASSUME r \notin data PROVE FALSE
    OBVIOUS
  <2>2. Cardinality(data) = take
    <3> SUFFICES ASSUME Cardinality(data) # take PROVE FALSE
      OBVIOUS
    <3>1. Cardinality(data) = Cardinality(rows \ front)
      BY DEF AreFirst
    <3>2. data = rows \ front
      BY <1>1, <3>1, FS_Subset DEF AreFirst
    <3> QED BY <2>1, <3>2
  <2>3. ASSUME NEW s \in data PROVE s \in before
    <3>1. s \in rows /\ s # r /\ key[s] >= key[r]
      BY <2>1, <2>3 DEF AreFirst
    <3>2. key[s] # key[r] /\ key[s] \in Int /\ key[r] \in Int
      BY <3>1 DEF Alone
    <3> QED BY <3>1, <3>2 DEF Ahead
  <2>4. front \cup data \in SUBSET before
    BY <1>5, <2>1, <2>3
  <2>5. skip + take <= Cardinality(before)
    BY <1>1, <1>2, <1>5, <2>1, <2>2, <2>4, FS_Subset
  <2> HIDE DEF before
  <2> QED BY <1>1, <1>7, <2>5
<1> HIDE DEF before
<1>8. r \in data <=> Cardinality(before) \in skip..(skip + take - 1)
  BY <1>1, <1>4, <1>6, <1>7
<1> QED BY <1>8 DEF before

-----------------------------------------------------------------------------
(* A write *)

\* stay: rows that are in the list before and after, with the same key.
Stays(stay, old, oldKey, new, newKey) ==
    stay \subseteq old \cap new /\ \A r \in stay : oldKey[r] = newKey[r]

\* A row that stays has no more rows before it than it had, but for those
\* that came.
LEMMA PlaceMoves ==
    ASSUME NEW old, IsFiniteSet(old), NEW oldKey,
           NEW new, IsFiniteSet(new), NEW newKey,
           NEW stay, Stays(stay, old, oldKey, new, newKey), NEW r \in stay
    PROVE  Cardinality(Ahead(new, newKey, r))
              <= Cardinality(Ahead(old, oldKey, r)) + Cardinality(new \ stay)
<1>1. Ahead(new, newKey, r) \in SUBSET (Ahead(old, oldKey, r) \cup (new \ stay))
  BY DEF Ahead, Stays
<1>2. /\ IsFiniteSet(Ahead(old, oldKey, r)) /\ IsFiniteSet(new \ stay)
      /\ Cardinality(Ahead(old, oldKey, r)) \in Nat
      /\ Cardinality(new \ stay) \in Nat
  BY AheadIsFinite, FS_Difference, FS_CardinalityType
<1>3. LET both == Ahead(old, oldKey, r) \cap (new \ stay)
      IN  /\ IsFiniteSet(both) /\ Cardinality(both) \in Nat
          /\ IsFiniteSet(Ahead(old, oldKey, r) \cup (new \ stay))
          /\ Cardinality(Ahead(old, oldKey, r) \cup (new \ stay))
                = Cardinality(Ahead(old, oldKey, r)) + Cardinality(new \ stay)
                     - Cardinality(both)
  BY <1>2, FS_Union, FS_Intersection, FS_CardinalityType
<1>4. Cardinality(Ahead(new, newKey, r)) \in Nat
  BY AheadIsFinite, FS_CardinalityType
<1>5. Cardinality(Ahead(new, newKey, r))
         <= Cardinality(Ahead(old, oldKey, r) \cup (new \ stay))
  BY <1>1, <1>3, FS_Subset
<1> QED BY <1>2, <1>3, <1>4, <1>5

\* A set that grows by no more than n.
LEMMA GrowsBy ==
    ASSUME NEW S, IsFiniteSet(S), NEW T, IsFiniteSet(T), NEW n \in Nat,
           NEW added, IsFiniteSet(added), Cardinality(added) <= n,
           T \subseteq S \cup added
    PROVE  Cardinality(T) <= Cardinality(S) + n
<1>1. /\ Cardinality(S) \in Nat /\ Cardinality(added) \in Nat
      /\ Cardinality(T) \in Nat /\ Cardinality(S \cap added) \in Nat
  BY FS_CardinalityType, FS_Intersection
<1>2. /\ IsFiniteSet(S \cup added)
      /\ Cardinality(S \cup added)
            = Cardinality(S) + Cardinality(added) - Cardinality(S \cap added)
  BY FS_Union
<1>3. Cardinality(T) <= Cardinality(S \cup added)
  BY <1>2, FS_Subset
<1> QED BY <1>1, <1>2, <1>3

Passed(kept, rows, key, covered) ==
    {r \in kept : Cardinality(Ahead(rows, key, r)) < covered}

ToCome(kept, rows, key, covered) ==
    {r \in kept : Cardinality(Ahead(rows, key, r)) >= covered}

\* Of the rows that stay, no more slip among those covered than rows left.
LEMMA SlipByLeaving ==
    ASSUME NEW old, IsFiniteSet(old), NEW oldKey \in [old -> Int],
           NEW new, IsFiniteSet(new), NEW newKey \in [new -> Int],
           NEW stay, Stays(stay, old, oldKey, new, newKey),
           NEW kept \in SUBSET old, \A r \in kept : Alone(old, oldKey, r),
           NEW keptNow \in SUBSET (kept \cap stay), NEW covered \in Nat
    PROVE  Cardinality(Passed(keptNow, new, newKey, covered))
              <= Cardinality(Passed(kept, old, oldKey, covered))
                    + Cardinality(old \ stay)
<1> DEFINE n     == Cardinality(old \ stay)
           added == {r \in keptNow :
                        Cardinality(Ahead(old, oldKey, r))
                           \in covered..(covered + n - 1)}
<1>1. n \in Nat
  BY FS_Difference, FS_CardinalityType
<1>2. /\ IsFiniteSet(Passed(keptNow, new, newKey, covered))
      /\ IsFiniteSet(Passed(kept, old, oldKey, covered))
      /\ IsFiniteSet(added)
  <2>1. /\ Passed(keptNow, new, newKey, covered) \in SUBSET old
        /\ Passed(kept, old, oldKey, covered) \in SUBSET old
        /\ added \in SUBSET old
    BY DEF Passed
  <2> QED BY <2>1, FS_Subset
<1>3. Cardinality(added) <= n
  <2>1. added \in SUBSET old /\ \A r \in added : Alone(old, oldKey, r)
    OBVIOUS
  <2>2. \A r \in added :
           Cardinality(Ahead(old, oldKey, r)) \in covered..(covered + n - 1)
    OBVIOUS
  <2> HIDE DEF added, n
  <2> QED BY <1>1, <2>1, <2>2, PlacesDiffer
<1>4. Passed(keptNow, new, newKey, covered)
         \subseteq Passed(kept, old, oldKey, covered) \cup added
  <2> SUFFICES ASSUME NEW r \in keptNow,
                      Cardinality(Ahead(new, newKey, r)) < covered,
                      ~(Cardinality(Ahead(old, oldKey, r)) < covered)
               PROVE  Cardinality(Ahead(old, oldKey, r))
                         \in covered..(covered + n - 1)
    BY DEF Passed
  <2>1. Stays(stay, new, newKey, old, oldKey)
    BY DEF Stays
  <2>2. Cardinality(Ahead(old, oldKey, r))
           <= Cardinality(Ahead(new, newKey, r)) + n
    BY <2>1, PlaceMoves
  <2>3. /\ Cardinality(Ahead(old, oldKey, r)) \in Nat
        /\ Cardinality(Ahead(new, newKey, r)) \in Nat
    BY AheadIsFinite, FS_CardinalityType
  <2> HIDE DEF n
  <2> QED BY <1>1, <2>2, <2>3
<1> HIDE DEF added, n
<1>5. Cardinality(Passed(keptNow, new, newKey, covered))
         <= Cardinality(Passed(kept, old, oldKey, covered)) + n
  BY <1>1, <1>2, <1>3, <1>4, GrowsBy
<1> QED BY <1>5 DEF n

\* No more are pushed among the rows to come than rows entered.
LEMMA PushByEntering ==
    ASSUME NEW old, IsFiniteSet(old), NEW oldKey \in [old -> Int],
           NEW new, IsFiniteSet(new), NEW newKey \in [new -> Int],
           NEW stay, Stays(stay, old, oldKey, new, newKey),
           NEW kept \in SUBSET old, \A r \in kept : Alone(old, oldKey, r),
           NEW keptNow \in SUBSET (kept \cap stay), NEW covered \in Nat
    PROVE  \E added \in SUBSET old :
              /\ Cardinality(added) <= Cardinality(new \ stay)
              /\ ToCome(keptNow, new, newKey, covered)
                    \subseteq ToCome(kept, old, oldKey, covered) \cup added
<1> DEFINE n     == Cardinality(new \ stay)
           added == {r \in keptNow :
                        Cardinality(Ahead(old, oldKey, r))
                           \in (covered - n)..(covered - n + n - 1)}
<1>1. n \in Nat
  BY FS_Difference, FS_CardinalityType
<1>2. added \in SUBSET old
  OBVIOUS
<1>3. Cardinality(added) <= n
  <2>1. \A r \in added : Alone(old, oldKey, r)
    OBVIOUS
  <2>2. \A r \in added : Cardinality(Ahead(old, oldKey, r))
                            \in (covered - n)..(covered - n + n - 1)
    OBVIOUS
  <2>3. covered - n \in Int
    BY <1>1
  <2> HIDE DEF added, n
  <2> QED BY <1>1, <1>2, <2>1, <2>2, <2>3, PlacesDiffer
<1>4. ToCome(keptNow, new, newKey, covered)
         \subseteq ToCome(kept, old, oldKey, covered) \cup added
  <2> SUFFICES ASSUME NEW r \in keptNow,
                      Cardinality(Ahead(new, newKey, r)) >= covered,
                      ~(Cardinality(Ahead(old, oldKey, r)) >= covered)
               PROVE  Cardinality(Ahead(old, oldKey, r))
                         \in (covered - n)..(covered - n + n - 1)
    BY DEF ToCome
  <2>1. Cardinality(Ahead(new, newKey, r))
           <= Cardinality(Ahead(old, oldKey, r)) + n
    BY PlaceMoves
  <2>2. /\ Cardinality(Ahead(old, oldKey, r)) \in Nat
        /\ Cardinality(Ahead(new, newKey, r)) \in Nat
    BY AheadIsFinite, FS_CardinalityType
  <2> HIDE DEF n
  <2> QED BY <1>1, <2>1, <2>2
<1> HIDE DEF added
<1> QED BY <1>2, <1>3, <1>4

-----------------------------------------------------------------------------
(* Types *)

TablesType ==
    /\ book \in [Invoice -> Rows \cup {Absent}]
    /\ clients \in [Client -> Moment \cup {Absent, Deleted}]

WalkRecord ==
    [kind : {"walk"}, at : {"findMany", "count", "done"}, list : List,
     limit : Limits, page : Nat \ {0}, got : SUBSET (Invoice \cup Client),
     again : SUBSET (Invoice \cup Client), left : Nat, entered : Nat,
     stable : SUBSET (Invoice \cup Client)]

WalkType ==
    \/ reader.kind = "summary" /\ "kind" \in DOMAIN reader
    \/ reader \in WalkRecord

Keys(list) == [r \in Listed(list) |-> Key(list, r)]

\* What is listed is a finite set of rows with integers for keys.
Ordered(list) ==
    /\ Listed(list) \in SUBSET (Invoice \cup Client)
    /\ IsFiniteSet(Listed(list))
    /\ Keys(list) \in [Listed(list) -> Int]

LEMMA ListedRows ==
    ASSUME TablesType, NEW list \in List
    PROVE  Ordered(list)
<1>1. CASE list = "clients"
  <2>1. Listed(list) = {c \in Client : clients[c] \in Moment}
    BY <1>1 DEF Listed
  <2>2. IsFiniteSet(Listed(list))
    BY <2>1, FS_Subset, TablesAreFinite
  <2>3. ASSUME NEW c \in Listed(list) PROVE Key(list, c) \in Int
    <3>1. clients[c] \in Moment
      BY <2>1
    <3>2. clients[c] \in Nat
      BY <3>1, MomentsAreNumbers, Zenon
    <3> QED BY <1>1, <3>2 DEF Key
  <2> QED BY <2>1, <2>2, <2>3 DEF Keys, Ordered
<1>2. CASE list # "clients"
  <2>1. \A i \in Listed(list) : i \in Invoice /\ book[i] # Absent
    BY <1>2, NoRowIsApart DEF Listed, With, Shown, List, Moves
  <2>2. IsFiniteSet(Listed(list))
    <3>1. Listed(list) \in SUBSET Invoice
      BY <2>1
    <3> QED BY <3>1, FS_Subset, TablesAreFinite
  <2>3. \A i \in Listed(list) : book[i].value.issued \in Int
    BY <2>1, ValuesAreDated DEF TablesType, Rows
  <2> QED BY <1>2, <2>1, <2>2, <2>3 DEF Keys, Key, Ordered
<1> QED BY <1>1, <1>2

\* Before and Settled are the places and the rows that are alone.
LEMMA PlacesAre ==
    ASSUME NEW list, NEW r \in Listed(list)
    PROVE  /\ Before(list, r)
                 = Cardinality(Ahead(Listed(list), Keys(list), r))
           /\ r \in Settled(list) <=> Alone(Listed(list), Keys(list), r)
<1>1. {other \in Listed(list) : Key(list, other) > Key(list, r)}
         = Ahead(Listed(list), Keys(list), r)
  BY DEF Ahead, Keys
<1> QED BY <1>1 DEF Before, Settled, Alone, Keys

LEMMA TablesStep ==
    ASSUME TablesType, [ReadsNext]_vars
    PROVE  TablesType'
<1>1. CASE Invoices
  <2>1. PICK i \in Invoice, row \in Rows : book' = [book EXCEPT ![i] = row]
    BY <1>1 DEF Invoices
  <2> QED BY <1>1, <2>1 DEF Invoices, TablesType
<1>2. ASSUME NEW c \in Client, CreateClient(c) \/ RemoveClient(c)
      PROVE  TablesType'
  BY <1>2 DEF CreateClient, RemoveClient, TablesType
<1>3. CASE UNCHANGED <<book, clients>>
  BY <1>3 DEF TablesType
<1> QED BY <1>1, <1>2, <1>3 DEF ReadsNext, Read, Write, vars

LEMMA ReadsInitTypes == ReadsInit => TablesType /\ WalkType
<1> SUFFICES ASSUME ReadsInit PROVE TablesType /\ WalkType
  OBVIOUS
<1>1. PICK start \in Start :
         /\ book = start.book
         /\ clients = start.clients
         /\ \/ start.reads = "summary" /\ reader = Summary
            \/ /\ start.reads # "summary"
               /\ \E limit \in Limits : reader = Walk(start.reads, limit)
  BY DEF ReadsInit
<1>2. /\ start.reads \in List \cup {"summary"}
      /\ start.book \in [Invoice -> Rows \cup {Absent}]
      /\ start.clients \in [Client -> Moment \cup {Absent, Deleted}]
  BY StartsAreTables
<1>3. TablesType
  BY <1>1, <1>2 DEF TablesType
<1>4. CASE reader = Summary
  BY <1>3, <1>4 DEF WalkType, Summary
<1>5. ASSUME NEW limit \in Limits, start.reads \in List,
             reader = Walk(start.reads, limit)
      PROVE  WalkType
  <2>1. Settled(start.reads) \in SUBSET (Invoice \cup Client)
    BY <1>3, <1>5, ListedRows DEF Settled, Ordered
  <2> QED BY <1>5, <2>1 DEF Walk, WalkType, WalkRecord
<1> QED BY <1>1, <1>2, <1>3, <1>4, <1>5

-----------------------------------------------------------------------------
(* The walk *)

\* What WalkInv counts is finite.
LEMMA WalkIsFinite ==
    ASSUME reader \in WalkRecord
    PROVE  /\ IsFiniteSet(reader.stable)
           /\ IsFiniteSet(Slipped) /\ Cardinality(Slipped) \in Nat
           /\ IsFiniteSet(Repushed \cup (reader.again \cap reader.stable))
           /\ Cardinality(Repushed \cup (reader.again \cap reader.stable)) \in Nat
           /\ Cardinality(reader.stable \ reader.got) \in Nat
<1>1. IsFiniteSet(reader.stable)
  BY TablesAreFinite, FS_Union, FS_Subset DEF WalkRecord
<1>2. /\ Slipped \in SUBSET reader.stable
      /\ Repushed \cup (reader.again \cap reader.stable)
            \in SUBSET reader.stable
      /\ reader.stable \ reader.got \in SUBSET reader.stable
  BY DEF Slipped, Repushed
<1> QED BY <1>1, <1>2, FS_Subset, FS_CardinalityType

LEMMA NextPage ==
    ASSUME NEW page \in Int, NEW limit \in Int
    PROVE  page * limit = (page - 1) * limit + limit
OBVIOUS

\* The findMany of a page covers the next rows, and shows those of them that
\* are alone with their keys.
LEMMA FindManyStep ==
    ASSUME TablesType, reader \in WalkRecord, WalkInv, FindMany,
           UNCHANGED <<book, clients>>
    PROVE  reader' \in WalkRecord /\ WalkInv'
<1>1. PICK l, skip, take :
         /\ l = reader.list /\ take = reader.limit
         /\ skip = (reader.page - 1) * reader.limit
  OBVIOUS
<1>2. /\ reader.at = "findMany" /\ reader.kind = "walk"
      /\ l \in List /\ take \in Nat /\ reader.page \in Nat \ {0}
      /\ reader.got \in SUBSET (Invoice \cup Client)
      /\ reader.again \in SUBSET (Invoice \cup Client)
      /\ reader.stable \in SUBSET (Invoice \cup Client)
  BY <1>1, LimitsPositive DEF FindMany, WalkRecord
<1>3. skip \in Nat /\ Covered = skip
  BY <1>1, <1>2 DEF Covered
<1>4. PICK front, data :
         /\ front \in Firsts(l, Listed(l), skip)
         /\ data \in Firsts(l, Listed(l) \ front, take)
         /\ reader' = [reader EXCEPT !.at = "count",
                                     !.again = @ \cup (data \cap reader.got),
                                     !.got = @ \cup data]
  <2>1. /\ toPrismaPage(reader.page, reader.limit).skip = skip
        /\ toPrismaPage(reader.page, reader.limit).take = take
    BY <1>1 DEF toPrismaPage
  <2> QED BY <1>1, <2>1, Zenon DEF FindMany
<1>5. /\ reader' \in WalkRecord
      /\ reader'.kind = "walk" /\ reader'.at = "count" /\ reader'.list = l
      /\ reader'.page = reader.page /\ reader'.limit = take
      /\ reader'.stable = reader.stable
      /\ reader'.left = reader.left /\ reader'.entered = reader.entered
      /\ reader'.got = reader.got \cup data
      /\ reader'.again = reader.again \cup (data \cap reader.got)
  <2>1. data \in SUBSET (Invoice \cup Client)
    <3>1. data \in SUBSET (Listed(l) \ front)
      BY <1>4 DEF Firsts, kSubset
    <3> QED BY <1>2, <3>1, ListedRows DEF Ordered
  <2> QED BY <1>1, <1>2, <1>4, <2>1 DEF WalkRecord
<1>6. ASSUME NEW r \in reader.stable
      PROVE  /\ Before(l, r) \in Nat
             /\ r \in data <=> Before(l, r) \in skip..(skip + take - 1)
  <2>1. r \in Listed(l) /\ r \in Settled(l)
    BY <1>1, <1>2 DEF WalkInv, Settled
  <2>2. AreFirst(front, Listed(l), Keys(l), skip)
    BY <1>2, <1>3, <1>4, ListedRows, FirstsAreFirst DEF Keys, Ordered
  <2>3. AreFirst(data, Listed(l) \ front, Keys(l), take)
    <3>1. IsFiniteSet(Listed(l) \ front)
      BY <1>2, ListedRows, FS_Difference DEF Ordered
    <3>2. AreFirst(data, Listed(l) \ front,
                   [q \in Listed(l) \ front |-> Key(l, q)], take)
      BY <1>2, <1>4, <3>1, FirstsAreFirst
    <3> QED BY <3>2 DEF AreFirst, Keys
  <2>4. Cardinality(Ahead(Listed(l), Keys(l), r)) \in Nat
    BY <1>2, ListedRows, AheadIsFinite, FS_CardinalityType DEF Ordered
  <2>5. /\ Before(l, r) = Cardinality(Ahead(Listed(l), Keys(l), r))
        /\ Alone(Listed(l), Keys(l), r)
    BY <2>1, PlacesAre
  <2> QED BY <1>2, <1>3, <2>1, <2>2, <2>3, <2>4, <2>5, ListedRows, PageOfPlace DEF Ordered
<1>7. /\ Listed(l)' = Listed(l) /\ \A r : Key(l, r)' = Key(l, r)
      /\ Settled(l)' = Settled(l) /\ \A r : Before(l, r)' = Before(l, r)
  BY DEF Before, Settled, Listed, Key, With, Shown
<1>8. Covered' = skip + take
  <2>1. reader.page * take = skip + take
    <3>1. reader.page \in Int /\ take \in Int
      BY <1>2
    <3>2. reader.page * take = (reader.page - 1) * take + take
      BY <3>1, NextPage
    <3> QED BY <1>1, <3>2
  <2> QED BY <1>5, <2>1 DEF Covered
<1>9. Slipped' \subseteq Slipped
  <2> SUFFICES ASSUME NEW r \in reader.stable, r \notin reader.got,
                      r \notin data, Before(l, r) < skip + take
               PROVE  Before(l, r) < skip
    BY <1>1, <1>3, <1>5, <1>7, <1>8 DEF Slipped
  <2> QED BY <1>2, <1>3, <1>6
<1>10. Repushed' \cup (reader'.again \cap reader'.stable)
          \subseteq Repushed \cup (reader.again \cap reader.stable)
  BY <1>1, <1>2, <1>3, <1>5, <1>6, <1>7, <1>8 DEF Repushed
<1>11. /\ Cardinality(Slipped') <= Cardinality(Slipped)
       /\ Cardinality(Repushed' \cup (reader'.again \cap reader'.stable))
            <= Cardinality(Repushed \cup (reader.again \cap reader.stable))
  BY <1>9, <1>10, WalkIsFinite, FS_Subset
<1>12. reader.left \in Nat /\ reader.entered \in Nat
  BY DEF WalkRecord
<1>13. /\ Cardinality(Slipped') \in Nat
       /\ Cardinality(Repushed' \cup (reader'.again \cap reader'.stable)) \in Nat
  BY <1>9, <1>10, WalkIsFinite, FS_Subset, FS_CardinalityType
<1> QED BY <1>1, <1>2, <1>5, <1>7, <1>11, <1>12, <1>13, WalkIsFinite DEF WalkInv

LEMMA Quotient ==
    ASSUME NEW a \in Nat, NEW b \in Nat \ {0}
    PROVE  /\ a \div b \in Nat
           /\ b * (a \div b) <= a /\ a < b * (a \div b) + b
OBVIOUS

LEMMA TimesIsMonotone ==
    ASSUME NEW a \in Nat, NEW b \in Nat, NEW c \in Nat, a <= b
    PROVE  a * c <= b * c
OBVIOUS

LEMMA MaxOfTwo ==
    ASSUME NEW a \in Int, NEW b \in Int
    PROVE  Max({a, b}) = IF a >= b THEN a ELSE b
BY DEF Max

\* The page that the response calls the last reaches the end of the list.
LEMMA LastPageReachesEnd ==
    ASSUME NEW total \in Nat, NEW limit \in Nat \ {0}, NEW page \in Nat \ {0},
           ~(page < totalPages(total, limit))
    PROVE  total <= page * limit
<1> DEFINE q == (total + limit - 1) \div limit
<1>1. /\ q \in Nat /\ total + limit - 1 < limit * q + limit
  BY Quotient
<1> HIDE DEF q
<1>2. q <= page
  BY <1>1, MaxOfTwo DEF totalPages, q
<1>3. limit * q = q * limit /\ q * limit <= page * limit
  BY <1>1, <1>2, TimesIsMonotone
<1>4. limit * q \in Int /\ page * limit \in Int
  BY <1>1
<1> QED BY <1>1, <1>3, <1>4

\* There are no more pages than rows, but for the first.
LEMMA PagesAreRows ==
    ASSUME NEW total \in Nat, NEW limit \in Nat \ {0}
    PROVE  totalPages(total, limit) \in Nat /\ totalPages(total, limit) <= Max({1, total})
<1> DEFINE q == (total + limit - 1) \div limit
<1>1. q \in Nat /\ limit * q <= total + limit - 1
  BY Quotient
<1> HIDE DEF q
<1>2. q <= 1 \/ q <= total
  <2> SUFFICES ASSUME q > 1, q > total PROVE FALSE
    BY <1>1
  <2>1. (limit - 1) * (q - 1) >= 0
    BY <1>1
  <2>2. (limit - 1) * (q - 1) = limit * q - limit - q + 1
    BY <1>1
  <2>3. limit * q \in Int
    BY <1>1
  <2> QED BY <1>1, <2>1, <2>2, <2>3
<1> QED BY <1>1, <1>2, MaxOfTwo DEF totalPages, q

\* A response that ends the walk has every row of the list behind it.
LEMMA CountStep ==
    ASSUME TablesType, reader \in WalkRecord, WalkInv, Count,
           UNCHANGED <<book, clients>>
    PROVE  reader' \in WalkRecord /\ WalkInv'
<1>1. PICK l, total :
         l = reader.list /\ total = Cardinality(Listed(l))
  OBVIOUS
<1>2. /\ reader.at = "count" /\ reader.kind = "walk" /\ l \in List
      /\ reader.limit \in Nat \ {0} /\ reader.page \in Nat \ {0}
      /\ IsFiniteSet(Listed(l)) /\ total \in Nat
  BY <1>1, LimitsPositive, ListedRows, FS_CardinalityType DEF Count, WalkRecord, Ordered
<1>3. Covered = reader.page * reader.limit /\ Covered \in Nat
  BY <1>2 DEF Covered
<1>4. /\ Listed(l)' = Listed(l) /\ \A r : Key(l, r)' = Key(l, r)
      /\ Settled(l)' = Settled(l) /\ \A r : Before(l, r)' = Before(l, r)
  BY DEF Before, Settled, Listed, Key, With, Shown
<1>5. /\ reader' \in WalkRecord
      /\ reader'.kind = "walk" /\ reader'.list = l
      /\ reader'.limit = reader.limit
      /\ reader'.stable = reader.stable /\ reader'.got = reader.got
      /\ reader'.again = reader.again
      /\ reader'.left = reader.left /\ reader'.entered = reader.entered
      /\ \/ reader'.at = "findMany" /\ reader'.page = reader.page + 1
         \/ /\ reader'.at = "done" /\ reader'.page = reader.page
            /\ ~(reader.page < totalPages(total, reader.limit))
  <2>1. CASE reader.page < totalPages(total, reader.limit)
    <3>1. reader' = [reader EXCEPT !.at = "findMany", !.page = reader.page + 1]
      BY <1>1, <2>1 DEF Count
    <3>2. reader.page + 1 \in Nat \ {0}
      BY <1>2
    <3> QED BY <1>1, <1>2, <3>1, <3>2 DEF WalkRecord
  <2>2. CASE ~(reader.page < totalPages(total, reader.limit))
    <3>1. reader' = [reader EXCEPT !.at = "done"]
      BY <1>1, <2>2 DEF Count
    <3> QED BY <1>1, <1>2, <2>2, <3>1 DEF WalkRecord
  <2> QED BY <2>1, <2>2
<1>6. Covered' = Covered
  <2>1. CASE reader'.at = "findMany"
    <3>1. reader'.page - 1 = reader.page
      BY <1>2, <1>5, <2>1
    <3> QED BY <1>3, <1>5, <2>1, <3>1 DEF Covered
  <2>2. CASE reader'.at # "findMany"
    BY <1>3, <1>5, <2>2 DEF Covered
  <2> QED BY <2>1, <2>2
<1>7. Slipped' = Slipped /\ Repushed' = Repushed
  BY <1>1, <1>4, <1>5, <1>6 DEF Slipped, Repushed
<1>8. ASSUME reader'.at = "done"
      PROVE  Cardinality(reader.stable \ reader.got) <= reader.left
  <2>1. total <= Covered
    BY <1>2, <1>3, <1>5, <1>8, LastPageReachesEnd
  <2>2. ASSUME NEW r \in reader.stable PROVE Before(l, r) < Covered
    <3>1. r \in Listed(l)
      BY <1>1, <1>2 DEF WalkInv, Settled
    <3>2. PICK before :
             before = {other \in Listed(l) : Key(l, other) > Key(l, r)}
      OBVIOUS
    <3>3. before \in SUBSET (Listed(l) \ {r})
      <4>1. ~(Key(l, r) > Key(l, r))
        <5>1. Key(l, r) \in Int
          BY <1>2, <3>1, ListedRows DEF Keys, Ordered
        <5> QED BY <5>1
      <4> QED BY <3>2, <4>1
    <3>4. /\ IsFiniteSet(Listed(l) \ {r})
          /\ Cardinality(Listed(l) \ {r}) = total - 1
      BY <1>1, <1>2, <3>1, FS_RemoveElement
    <3>5. Cardinality(before) <= total - 1 /\ Cardinality(before) \in Nat
      BY <3>3, <3>4, FS_Subset, FS_CardinalityType
    <3> QED BY <1>2, <1>3, <2>1, <3>2, <3>5 DEF Before
  <2>3. Slipped = reader.stable \ reader.got
    BY <1>1, <2>2 DEF Slipped
  <2> QED BY <1>2, <2>3 DEF WalkInv
<1> QED BY <1>1, <1>2, <1>4, <1>5, <1>7, <1>8 DEF WalkInv

\* A write moves the rows that stay no further than rows left or entered.
LEMMA WatchStep ==
    ASSUME \A list \in List : Ordered(list), \A list \in List : Ordered(list)',
           reader \in WalkRecord, WalkInv, Watch
    PROVE  reader' \in WalkRecord /\ WalkInv'
<1>1. PICK l : l = reader.list
  OBVIOUS
<1>2. PICK stay :
         stay = {r \in Listed(l) \cap Listed(l)' : Key(l, r)' = Key(l, r)}
  OBVIOUS
<1>3. /\ reader.kind = "walk" /\ l \in List
      /\ reader.left \in Nat /\ reader.entered \in Nat
      /\ reader.limit \in Nat \ {0} /\ reader.page \in Nat \ {0}
  BY <1>1, LimitsPositive DEF WalkRecord
<1>4. /\ Ordered(l) /\ Ordered(l)'
      /\ Stays(stay, Listed(l), Keys(l), Listed(l)', Keys(l)')
  BY <1>2, <1>3 DEF Stays, Keys
<1>5. reader' = [reader EXCEPT
         !.stable  = @ \cap stay \cap Settled(l)',
         !.left    = @ + Cardinality(Listed(l) \ stay),
         !.entered = @ + Cardinality(Listed(l)' \ stay)]
  BY <1>1, <1>2, <1>3 DEF Watch
<1>6. /\ Cardinality(Listed(l) \ stay) \in Nat
      /\ Cardinality(Listed(l)' \ stay) \in Nat
  BY <1>4, FS_Difference, FS_CardinalityType DEF Ordered
<1>7. /\ reader' \in WalkRecord
      /\ reader'.kind = "walk" /\ reader'.at = reader.at /\ reader'.list = l
      /\ reader'.page = reader.page /\ reader'.limit = reader.limit
      /\ reader'.stable = reader.stable \cap stay \cap Settled(l)'
      /\ reader'.got = reader.got /\ reader'.again = reader.again
      /\ reader'.left = reader.left + Cardinality(Listed(l) \ stay)
      /\ reader'.entered = reader.entered + Cardinality(Listed(l)' \ stay)
  <2>1. /\ reader.stable \cap stay \cap Settled(l)'
              \in SUBSET (Invoice \cup Client)
        /\ reader.left + Cardinality(Listed(l) \ stay) \in Nat
        /\ reader.entered + Cardinality(Listed(l)' \ stay) \in Nat
    BY <1>3, <1>6 DEF WalkRecord
  <2> QED BY <1>1, <1>5, <2>1 DEF WalkRecord
<1>8. Covered' = Covered /\ Covered \in Nat
  BY <1>3, <1>7 DEF Covered
<1>9. /\ \A r \in reader.stable : /\ r \in Listed(l)
                                  /\ Alone(Listed(l), Keys(l), r)
                                  /\ Before(l, r) = Cardinality(
                                        Ahead(Listed(l), Keys(l), r))
      /\ \A r \in reader'.stable :
            Before(l, r)' = Cardinality(Ahead(Listed(l)', Keys(l)', r))
  BY <1>1, <1>3, <1>7 DEF WalkInv, Settled, Alone, Keys, Ahead, Before
<1>10. Cardinality(Slipped')
          <= Cardinality(Slipped) + Cardinality(Listed(l) \ stay)
  <2>1. /\ Slipped = Passed(reader.stable \ reader.got, Listed(l), Keys(l),
                            Covered)
        /\ Slipped' = Passed(reader'.stable \ reader.got, Listed(l)', Keys(l)',
                             Covered)
    BY <1>1, <1>7, <1>8, <1>9 DEF Slipped, Passed
  <2>2. /\ reader.stable \ reader.got \in SUBSET Listed(l)
        /\ reader'.stable \ reader.got
              \in SUBSET ((reader.stable \ reader.got) \cap stay)
    BY <1>7, <1>9
  <2> QED BY <1>4, <1>8, <1>9, <2>1, <2>2, SlipByLeaving DEF Ordered
<1>11. Cardinality(Repushed' \cup (reader'.again \cap reader'.stable))
          <= Cardinality(Repushed \cup (reader.again \cap reader.stable))
                + Cardinality(Listed(l)' \ stay)
  <2>1. /\ Repushed = ToCome(reader.stable \cap reader.got, Listed(l), Keys(l),
                             Covered)
        /\ Repushed' = ToCome(reader'.stable \cap reader.got, Listed(l)',
                              Keys(l)', Covered)
    BY <1>1, <1>7, <1>8, <1>9 DEF Repushed, ToCome
  <2>2. /\ reader.stable \cap reader.got \in SUBSET Listed(l)
        /\ reader'.stable \cap reader.got
              \in SUBSET ((reader.stable \cap reader.got) \cap stay)
    BY <1>7, <1>9
  <2>3. PICK added \in SUBSET Listed(l) :
           /\ Cardinality(added) <= Cardinality(Listed(l)' \ stay)
           /\ Repushed' \subseteq Repushed \cup added
    BY <1>4, <1>8, <1>9, <2>1, <2>2, PushByEntering DEF Ordered
  <2>4. Repushed' \cup (reader'.again \cap reader'.stable)
           \subseteq (Repushed \cup (reader.again \cap reader.stable)) \cup added
    BY <1>7, <2>3
  <2>5. /\ IsFiniteSet(Repushed \cup (reader.again \cap reader.stable))
        /\ IsFiniteSet(added)
        /\ IsFiniteSet(Repushed' \cup (reader'.again \cap reader'.stable))
    <3>1. IsFiniteSet(Repushed \cup (reader.again \cap reader.stable))
      BY WalkIsFinite
    <3>2. IsFiniteSet(added)
      BY <1>4, FS_Subset DEF Ordered
    <3>3. IsFiniteSet((Repushed \cup (reader.again \cap reader.stable))
                         \cup added)
      BY <3>1, <3>2, FS_Union
    <3> QED BY <2>4, <3>1, <3>2, <3>3, FS_Subset
  <2> QED BY <1>6, <2>3, <2>4, <2>5, GrowsBy
<1>12. reader'.at = "done" =>
          Cardinality(reader'.stable \ reader'.got) <= reader'.left
  <2> SUFFICES ASSUME reader.at = "done"
               PROVE  Cardinality(reader'.stable \ reader.got) <= reader'.left
    BY <1>7
  <2>1. reader'.stable \ reader.got \in SUBSET (reader.stable \ reader.got)
    BY <1>7
  <2>2. /\ IsFiniteSet(reader.stable \ reader.got)
        /\ Cardinality(reader.stable \ reader.got) \in Nat
        /\ Cardinality(reader'.stable \ reader.got) \in Nat
    BY <2>1, WalkIsFinite, FS_Difference, FS_Subset, FS_CardinalityType
  <2>3. /\ Cardinality(reader'.stable \ reader.got)
              <= Cardinality(reader.stable \ reader.got)
        /\ Cardinality(reader.stable \ reader.got) <= reader.left
    BY <1>3, <2>1, <2>2, FS_Subset DEF WalkInv
  <2> QED BY <1>3, <1>6, <1>7, <2>2, <2>3
<1>13. /\ Cardinality(Slipped) \in Nat
       /\ Cardinality(Slipped) <= reader.left
       /\ Cardinality(Repushed \cup (reader.again \cap reader.stable)) \in Nat
       /\ Cardinality(Repushed \cup (reader.again \cap reader.stable))
             <= reader.entered
  BY <1>3, WalkIsFinite DEF WalkInv
<1>14. /\ Slipped' \in SUBSET reader.stable
       /\ Repushed' \cup (reader'.again \cap reader'.stable)
             \in SUBSET reader.stable
  BY <1>7 DEF Slipped, Repushed
<1>15. /\ Cardinality(Slipped') \in Nat
       /\ Cardinality(Repushed' \cup (reader'.again \cap reader'.stable)) \in Nat
  BY <1>14, WalkIsFinite, FS_Subset, FS_CardinalityType
<1>16. reader'.stable \subseteq Settled(l)'
  BY <1>7
<1> QED BY <1>3, <1>6, <1>7, <1>10, <1>11, <1>12, <1>13, <1>15, <1>16 DEF WalkInv

-----------------------------------------------------------------------------
(* Theorems *)

ReadsInv ==
    /\ TablesType
    /\ \A list \in List : Ordered(list)
    /\ WalkType
    /\ WalkInv

LEMMA WalkStep ==
    ASSUME ReadsInv, \A list \in List : Ordered(list)', [ReadsNext]_vars
    PROVE  WalkType' /\ WalkInv'
<1>1. CASE reader.kind = "summary"
  <2>1. reader'.kind = "summary" /\ "kind" \in DOMAIN reader'
    <3>1. "kind" \in DOMAIN reader
      BY <1>1 DEF ReadsInv, WalkType, WalkRecord
    <3> QED BY <1>1, <3>1 DEF ReadsNext, Read, Write, Watch, GroupByStatus,
               RevenueByMonth, FindMany, Count, vars
  <2> QED BY <2>1 DEF WalkType, WalkInv
<1>2. CASE reader.kind # "summary"
  <2>1. reader \in WalkRecord /\ reader.kind = "walk"
    BY <1>2 DEF ReadsInv, WalkType, WalkRecord
  <2>2. CASE Read
    BY <1>2, <2>1, <2>2, FindManyStep, CountStep
       DEF ReadsInv, Read, GroupByStatus, RevenueByMonth, WalkType
  <2>3. CASE Write
    BY <2>1, <2>3, WatchStep DEF ReadsInv, Write, WalkType
  <2>4. CASE UNCHANGED vars
    BY <2>4 DEF vars, ReadsInv, WalkType, WalkInv, Slipped, Repushed, Covered,
       Before, Settled, Listed, Key, With, Shown
  <2> QED BY <2>2, <2>3, <2>4 DEF ReadsNext
<1> QED BY <1>1, <1>2

LEMMA WalkInit == ReadsInit => WalkInv
<1> SUFFICES ASSUME ReadsInit, reader.kind = "walk" PROVE WalkInv
  BY DEF WalkInv
<1>1. PICK list, limit : limit \in Limits /\ reader = Walk(list, limit)
  BY DEF ReadsInit, Summary
<1>2. /\ reader.at = "findMany" /\ reader.list = list
      /\ reader.stable = Settled(list) /\ reader.got = {} /\ reader.again = {}
      /\ reader.left = 0 /\ reader.entered = 0
      /\ reader.page = 1 /\ reader.limit = limit
  BY <1>1 DEF Walk
<1>3. Covered = 0
  BY <1>1, <1>2, LimitsPositive DEF Covered
<1>4. /\ reader \in WalkRecord
  BY <1>1, ReadsInitTypes DEF WalkType, Walk
<1>5. Slipped = {}
  <2> SUFFICES ASSUME NEW r \in Settled(list), Before(list, r) < 0
               PROVE  FALSE
    BY <1>2, <1>3 DEF Slipped
  <2>1. list \in List /\ Ordered(list)
    BY <1>2, <1>4, ReadsInitTypes, ListedRows DEF WalkRecord
  <2>2. Before(list, r) = Cardinality(Ahead(Listed(list), Keys(list), r))
    BY PlacesAre DEF Settled
  <2>3. Cardinality(Ahead(Listed(list), Keys(list), r)) \in Nat
    BY <2>1, AheadIsFinite, FS_CardinalityType DEF Ordered
  <2> QED BY <2>2, <2>3
<1>6. Repushed \cup (reader.again \cap reader.stable) = {}
  BY <1>2 DEF Repushed
<1> QED BY <1>2, <1>5, <1>6, FS_EmptySet DEF WalkInv

\* The invariant of a walk, whatever is written meanwhile.
THEOREM WalkCorrect == ReadsSpec => []ReadsInv
<1>1. TablesType => \A list \in List : Ordered(list)
  BY ListedRows
<1>2. ReadsInit => TablesType /\ WalkType /\ WalkInv
  BY ReadsInitTypes, WalkInit
<1>3. TablesType /\ [ReadsNext]_vars => TablesType'
  BY TablesStep
<1>4. ReadsInv /\ (\A list \in List : Ordered(list))' /\ [ReadsNext]_vars
      => WalkType' /\ WalkInv'
  BY WalkStep
<1> QED BY <1>1, <1>2, <1>3, <1>4, PTL DEF ReadsSpec, ReadsInv

\* A walk to the last page (the list methods, toPrismaPage, buildPageMeta)
\* misses no more of the rows that stayed than other rows left.
THEOREM WalksMissLittle == ReadsSpec => []NoMoreMissedThanLeft
<1>1. ReadsInv => NoMoreMissedThanLeft
  BY DEF ReadsInv, WalkInv, NoMoreMissedThanLeft
<1> QED BY <1>1, WalkCorrect, PTL

\* It shows no more of them twice than other rows entered.
THEOREM WalksRepeatLittle == ReadsSpec => []NoMoreRepeatedThanEntered
<1>1. ReadsInv => NoMoreRepeatedThanEntered
  <2> SUFFICES ASSUME ReadsInv, reader.kind = "walk"
               PROVE  Cardinality(reader.again \cap reader.stable)
                         <= reader.entered
    BY DEF NoMoreRepeatedThanEntered
  <2>1. reader \in WalkRecord
    BY DEF ReadsInv, WalkType
  <2>2. PICK S : S = Repushed \cup (reader.again \cap reader.stable)
    OBVIOUS
  <2>3. /\ IsFiniteSet(S) /\ Cardinality(S) \in Nat
        /\ Cardinality(S) <= reader.entered
    BY <2>1, <2>2, WalkIsFinite DEF ReadsInv, WalkInv
  <2>4. reader.again \cap reader.stable \in SUBSET S
    BY <2>2
  <2>5. /\ Cardinality(reader.again \cap reader.stable) <= Cardinality(S)
        /\ Cardinality(reader.again \cap reader.stable) \in Nat
    BY <2>3, <2>4, FS_Subset, FS_CardinalityType
  <2> QED BY <2>1, <2>3, <2>5 DEF WalkRecord
<1> QED BY <1>1, WalkCorrect, PTL

-----------------------------------------------------------------------------
(* Sums over finite sets *)

\* Induction over the subsets of a finite set, with a set of subsets for the
\* predicate: the least subset outside it would be in it.
LEMMA SubsetInduction ==
    ASSUME NEW S, IsFiniteSet(S), NEW good,
           \A T \in SUBSET S : (\A x \in T : T \ {x} \in good) => T \in good
    PROVE  \A T \in SUBSET S : T \in good
<1> DEFINE bad == (SUBSET S) \ good
<1> SUFFICES ASSUME bad # {} PROVE FALSE
  OBVIOUS
<1>1. IsWellFoundedOn(StrictSubsetOrdering(S), SUBSET S)
  <2>1. FiniteSubsetsOf(S) = SUBSET S
    BY FS_FiniteSubsetsOfFinite
  <2>2. IsWellFoundedOn(StrictSubsetOrdering(S), FiniteSubsetsOf(S))
    BY FS_StrictSubsetOrderingWellFounded
  <2> QED BY <2>1, <2>2
<1> bad \in SUBSET (SUBSET S)
  OBVIOUS
<1> HIDE DEF bad
<1>2. PICK T \in bad : \A U \in bad : ~(<<U, T>> \in StrictSubsetOrdering(S))
  BY <1>1, WFMin
<1> USE DEF bad
<1>3. ASSUME NEW x \in T PROVE T \ {x} \in good
  <2>1. <<T \ {x}, T>> \in StrictSubsetOrdering(S)
    BY DEF StrictSubsetOrdering
  <2> QED BY <1>2, <2>1
<1>4. T \in SUBSET S /\ T \notin good
  OBVIOUS
<1> QED BY <1>3, <1>4

\* g gives the sum of f over each subset of S.
Sums(f, S, g) ==
    /\ g \in [SUBSET S -> Int]
    /\ g[{}] = 0
    /\ \A s \in SUBSET S : \A x \in s : g[s] = f[x] + g[s \ {x}]

LEMMA SumsExist ==
    ASSUME NEW S, IsFiniteSet(S), NEW f, \A x \in S : f[x] \in Int
    PROVE  \E g : Sums(f, S, g)
<1> DEFINE good == {T \in SUBSET S : \E g : Sums(f, T, g)}
<1> SUFFICES ASSUME NEW T \in SUBSET S, \A x \in T : T \ {x} \in good
             PROVE  \E g : Sums(f, T, g)
  <2>1. \A T \in SUBSET S : (\A x \in T : T \ {x} \in good) => T \in good
    OBVIOUS
  <2> HIDE DEF good
  <2>2. S \in good
    BY <2>1, SubsetInduction, S \in SUBSET S
  <2> QED BY <2>2 DEF good
<1>1. Sums(f, {}, [s \in SUBSET {} |-> 0])
  BY DEF Sums
<1>2. SUFFICES ASSUME T # {} PROVE \E g : Sums(f, T, g)
  BY <1>1
<1>3. PICK x \in T : TRUE
  BY <1>2
<1>4. PICK g : Sums(f, T \ {x}, g)
  OBVIOUS
<1> DEFINE h == [s \in SUBSET T |-> IF x \in s THEN f[x] + g[s \ {x}] ELSE g[s]]
<1>5. \A s \in SUBSET T : s \ {x} \in SUBSET (T \ {x}) /\ g[s \ {x}] \in Int
  BY <1>4 DEF Sums
<1>6. f[x] \in Int
  OBVIOUS
<1>7. h \in [SUBSET T -> Int] /\ h[{}] = 0
  <2>1. ASSUME NEW s \in SUBSET T PROVE h[s] \in Int
    <3>1. CASE x \in s
      <4>1. h[s] = f[x] + g[s \ {x}]
        BY <3>1
      <4> QED BY <1>5, <1>6, <4>1
    <3>2. CASE x \notin s
      <4>1. s \ {x} = s
        BY <3>2
      <4> QED BY <1>5, <3>2, <4>1
    <3> QED BY <3>1, <3>2
  <2>2. h[{}] = 0
    BY <1>4 DEF Sums
  <2> QED BY <2>1, <2>2
<1>8. ASSUME NEW s \in SUBSET T, NEW y \in s PROVE h[s] = f[y] + h[s \ {y}]
  <2>1. CASE y = x
    <3>1. h[s] = f[x] + g[s \ {x}] /\ h[s \ {x}] = g[s \ {x}]
      BY <2>1
    <3> QED BY <2>1, <3>1
  <2>2. CASE y # x /\ x \in s
    <3>1. /\ h[s] = f[x] + g[s \ {x}]
          /\ h[s \ {y}] = f[x] + g[(s \ {y}) \ {x}]
      BY <2>2
    <3>2. y \in s \ {x} /\ (s \ {x}) \ {y} = (s \ {y}) \ {x}
      BY <2>2
    <3>3. g[s \ {x}] = f[y] + g[(s \ {y}) \ {x}]
      BY <1>4, <1>5, <3>2 DEF Sums
    <3>4. g[(s \ {y}) \ {x}] \in Int /\ f[y] \in Int
      <4>1. s \ {y} \in SUBSET T
        OBVIOUS
      <4> QED BY <1>5, <4>1
    <3> QED BY <1>6, <3>1, <3>3, <3>4
  <2>3. CASE x \notin s
    <3>1. s \in SUBSET (T \ {x})
      BY <2>3
    <3>2. h[s] = g[s] /\ h[s \ {y}] = g[s \ {y}]
      BY <2>3
    <3> QED BY <1>4, <3>1, <3>2 DEF Sums
  <2> QED BY <2>1, <2>2, <2>3
<1>9. Sums(f, T, h)
  BY <1>7, <1>8 DEF Sums
<1> QED BY <1>9

\* The recursion that a fold makes, whichever element it takes first.
Folds(f, S, h) ==
    h = [s \in SUBSET S |->
            IF s = {} THEN 0
            ELSE LET x == CHOOSE y \in s : TRUE IN f[x] + h[s \ {x}]]

LEMMA FoldIsSum ==
    ASSUME NEW S, IsFiniteSet(S), NEW f, NEW g, Sums(f, S, g),
           NEW h, Folds(f, S, h), NEW T \in SUBSET S
    PROVE  h[T] = g[T]
<1> DEFINE good == {U \in SUBSET S : h[U] = g[U]}
<1>1. ASSUME NEW U \in SUBSET S, \A x \in U : U \ {x} \in good
      PROVE  U \in good
  <2>1. CASE U = {}
    BY <2>1 DEF Folds, Sums
  <2>2. CASE U # {}
    <3>1. PICK x \in U : x = CHOOSE y \in U : TRUE
      BY <2>2
    <3>2. h[U] = f[x] + h[U \ {x}]
      BY <2>2, <3>1 DEF Folds
    <3>3. h[U \ {x}] = g[U \ {x}] /\ g[U] = f[x] + g[U \ {x}]
      BY <1>1 DEF Sums
    <3> QED BY <3>2, <3>3
  <2> QED BY <2>1, <2>2
<1> HIDE DEF good
<1>2. T \in good
  BY <1>1, SubsetInduction
<1> QED BY <1>2 DEF good

LEMMA SumsFold ==
    ASSUME NEW S, NEW f, NEW g, Sums(f, S, g)
    PROVE  Folds(f, S, g)
<1>1. ASSUME NEW s \in SUBSET S
      PROVE  g[s] = IF s = {} THEN 0
                    ELSE LET x == CHOOSE y \in s : TRUE IN f[x] + g[s \ {x}]
  <2>1. CASE s = {}
    BY <2>1 DEF Sums
  <2>2. CASE s # {}
    <3>1. PICK x \in s : x = CHOOSE y \in s : TRUE
      BY <2>2
    <3> QED BY <2>2, <3>1 DEF Sums
  <2> QED BY <2>1, <2>2
<1>2. g = [s \in SUBSET S |-> g[s]]
  BY DEF Sums
<1> QED BY <1>1, <1>2 DEF Folds

LEMMA SumOfIs ==
    ASSUME NEW S, IsFiniteSet(S), NEW f, NEW g, Sums(f, S, g)
    PROVE  SumOf(f, S) = g[S]
<1>1. Folds(f, S, g)
  BY SumsFold
<1>2. PICK h : h = CHOOSE k : Folds(f, S, k)
  OBVIOUS
<1>3. Folds(f, S, h)
  BY <1>1, <1>2
<1>4. SumOf(f, S) = h[S]
  BY <1>2 DEF SumOf, MapThenSumSet, MapThenFoldSet, Folds
<1> QED BY <1>3, <1>4, FoldIsSum

LEMMA SumEmpty ==
    ASSUME NEW f
    PROVE  SumOf(f, {}) = 0
<1>1. Sums(f, {}, [s \in SUBSET {} |-> 0])
  BY DEF Sums
<1>2. SumOf(f, {}) = [s \in SUBSET {} |-> 0][{}]
  BY <1>1, SumOfIs, FS_EmptySet
<1> QED BY <1>2

LEMMA SumStep ==
    ASSUME NEW S, IsFiniteSet(S), NEW f, \A x \in S : f[x] \in Int
    PROVE  /\ SumOf(f, S) \in Int
           /\ \A x \in S : SumOf(f, S) = f[x] + SumOf(f, S \ {x})
<1>1. PICK g : Sums(f, S, g)
  BY SumsExist
<1>2. SumOf(f, S) = g[S]
  BY <1>1, SumOfIs
<1>3. ASSUME NEW x \in S PROVE SumOf(f, S \ {x}) = g[S \ {x}]
  <2> DEFINE less == [s \in SUBSET (S \ {x}) |-> g[s]]
  <2>1. Sums(f, S \ {x}, less)
    BY <1>1 DEF Sums
  <2>2. IsFiniteSet(S \ {x})
    BY FS_RemoveElement
  <2>3. SumOf(f, S \ {x}) = less[S \ {x}]
    BY <2>1, <2>2, SumOfIs
  <2> QED BY <2>3
<1> QED BY <1>1, <1>2, <1>3 DEF Sums

LEMMA SumUnion ==
    ASSUME NEW S, NEW T, IsFiniteSet(S), IsFiniteSet(T), S \cap T = {},
           NEW f, \A x \in S \cup T : f[x] \in Int
    PROVE  SumOf(f, S \cup T) = SumOf(f, S) + SumOf(f, T)
<1> DEFINE good == {U \in SUBSET S : SumOf(f, U \cup T) = SumOf(f, U) + SumOf(f, T)}
<1>0. SumOf(f, T) \in Int
  BY SumStep
<1>1. ASSUME NEW U \in SUBSET S, \A x \in U : U \ {x} \in good
      PROVE  U \in good
  <2>1. CASE U = {}
    <3>1. U \cup T = T
      BY <2>1
    <3> QED BY <1>0, <2>1, <3>1, SumEmpty
  <2>2. CASE U # {}
    <3>1. PICK x \in U : TRUE
      BY <2>2
    <3>2. IsFiniteSet(U) /\ IsFiniteSet(U \cup T)
      BY FS_Subset, FS_Union
    <3>3. (U \cup T) \ {x} = (U \ {x}) \cup T
      BY <3>1
    <3>4. SumOf(f, U \cup T) = f[x] + SumOf(f, (U \ {x}) \cup T)
      BY <3>1, <3>2, <3>3, SumStep
    <3>5. SumOf(f, U) = f[x] + SumOf(f, U \ {x})
      BY <3>1, <3>2, SumStep
    <3>6. SumOf(f, U \ {x}) \in Int
      <4>1. IsFiniteSet(U \ {x})
        BY <3>2, FS_RemoveElement
      <4> QED BY <4>1, SumStep
    <3>7. SumOf(f, (U \ {x}) \cup T) = SumOf(f, U \ {x}) + SumOf(f, T)
      BY <1>1, <3>1
    <3>8. f[x] \in Int
      BY <3>1
    <3>9. SumOf(f, U \cup T) = SumOf(f, U) + SumOf(f, T)
      BY <1>0, <3>4, <3>5, <3>6, <3>7, <3>8
    <3> QED BY <3>9
  <2> QED BY <2>1, <2>2
<1> HIDE DEF good
<1>2. S \in good
  BY <1>1, SubsetInduction, S \in SUBSET S
<1> QED BY <1>2 DEF good

LEMMA SumSame ==
    ASSUME NEW S, IsFiniteSet(S), NEW f, NEW g,
           \A x \in S : f[x] \in Int /\ f[x] = g[x]
    PROVE  SumOf(f, S) = SumOf(g, S)
<1>1. PICK h : Sums(f, S, h)
  BY SumsExist
<1>2. Sums(g, S, h)
  BY <1>1 DEF Sums
<1> QED BY <1>1, <1>2, SumOfIs

LEMMA SumNatural ==
    ASSUME NEW S, IsFiniteSet(S), NEW f, \A x \in S : f[x] \in Nat
    PROVE  SumOf(f, S) \in Nat
<1> DEFINE good == {U \in SUBSET S : SumOf(f, U) \in Nat}
<1>1. ASSUME NEW U \in SUBSET S, \A x \in U : U \ {x} \in good
      PROVE  U \in good
  <2>1. CASE U = {}
    BY <2>1, SumEmpty
  <2>2. CASE U # {}
    <3>1. PICK x \in U : TRUE
      BY <2>2
    <3>2. IsFiniteSet(U) /\ \A y \in U : f[y] \in Int
      BY FS_Subset
    <3>3. SumOf(f, U) = f[x] + SumOf(f, U \ {x})
      BY <3>1, <3>2, SumStep
    <3> QED BY <1>1, <3>1, <3>3
  <2> QED BY <2>1, <2>2
<1> HIDE DEF good
<1>2. S \in good
  BY <1>1, SubsetInduction, S \in SUBSET S
<1> QED BY <1>2 DEF good

\* The sums of the parts of a set, one part for each key, add up.
LEMMA SumByKey ==
    ASSUME NEW S, IsFiniteSet(S), NEW f, \A x \in S : f[x] \in Int,
           NEW keys, IsFiniteSet(keys), NEW key, \A x \in S : key[x] \in keys,
           NEW part, \A k \in keys : part[k] \in SUBSET S,
           \A k \in keys : \A x \in S : x \in part[k] <=> key[x] = k,
           NEW sums, \A k \in keys : sums[k] = SumOf(f, part[k])
    PROVE  SumOf(sums, keys) = SumOf(f, S)
<1> DEFINE Of(K) == {x \in S : key[x] \in K}
           good  == {K \in SUBSET keys : SumOf(sums, K) = SumOf(f, Of(K))}
<1>1. ASSUME NEW k \in keys PROVE IsFiniteSet(part[k]) /\ sums[k] \in Int
  <2>1. PICK T : T = part[k]
    OBVIOUS
  <2>2. IsFiniteSet(T) /\ \A x \in T : f[x] \in Int
    BY <2>1, FS_Subset
  <2>3. SumOf(f, T) \in Int
    BY <2>2, SumStep
  <2> QED BY <2>1, <2>2, <2>3
<1>2. ASSUME NEW K \in SUBSET keys, \A k \in K : K \ {k} \in good
      PROVE  K \in good
  <2>1. CASE K = {}
    <3>1. Of(K) = {}
      BY <2>1
    <3> QED BY <2>1, <3>1, SumEmpty
  <2>2. CASE K # {}
    <3>1. PICK k \in K : TRUE
      BY <2>2
    <3>2. PICK A, B : A = part[k] /\ B = Of(K \ {k})
      OBVIOUS
    <3>3. Of(K) = A \cup B /\ A \cap B = {} /\ B \in SUBSET S /\ A \in SUBSET S
      BY <3>1, <3>2
    <3>4. IsFiniteSet(A) /\ IsFiniteSet(B) /\ \A x \in A \cup B : f[x] \in Int
      BY <3>3, FS_Subset
    <3>5. SumOf(f, A \cup B) = SumOf(f, A) + SumOf(f, B)
      BY <3>3, <3>4, SumUnion
    <3>6. SumOf(sums, K) = sums[k] + SumOf(sums, K \ {k})
      <4>1. IsFiniteSet(K) /\ \A m \in K : sums[m] \in Int
        BY <1>1, FS_Subset
      <4> QED BY <3>1, <4>1, SumStep
    <3>7. SumOf(sums, K \ {k}) = SumOf(f, B)
      BY <1>2, <3>1, <3>2
    <3>8. sums[k] = SumOf(f, A)
      BY <3>1, <3>2
    <3> QED BY <3>3, <3>5, <3>6, <3>7, <3>8
  <2> QED BY <2>1, <2>2
<1>3. keys \in good
  <2> HIDE DEF good
  <2> QED BY <1>2, SubsetInduction, keys \in SUBSET keys
<1>4. Of(keys) = S
  OBVIOUS
<1> QED BY <1>3, <1>4

LEMMA KeysAreFinite ==
    ASSUME NEW S, IsFiniteSet(S), NEW key, NEW keys, keys = {key[x] : x \in S}
    PROVE  IsFiniteSet(keys)
<1> DEFINE g == [x \in S |-> key[x]]
<1>1. g \in Surjection(S, keys)
  BY DEF Surjection
<1> QED BY <1>1, FS_Surjection

-----------------------------------------------------------------------------
(* The summary *)

SummaryRecord ==
    [kind : {"summary"}, at : {"groupBy", "monthly", "done"}, revenuePaid : Nat,
     counted : UNION {[S -> Rows] : S \in SUBSET Invoice},
     revenueByMonth : UNION {[M -> Int] : M \in SUBSET {v.issued : v \in Value}}]

\* The invoices' totals, as a function.
Totals == [i \in Invoice |-> IF Shown(i) THEN book[i].value.total ELSE 0]

LEMMA RowsAreDated ==
    ASSUME TablesType, NEW i \in Invoice, Shown(i)
    PROVE  /\ book[i] \in Rows /\ book[i].value \in Value
           /\ book[i].value.issued \in Int
           /\ book[i].value.total \in Nat /\ Totals[i] = book[i].value.total
<1>1. book[i] \in Rows
  BY DEF TablesType, Shown
<1>2. book[i].value \in Value
  BY <1>1 DEF Rows
<1>3. book[i].value \in [issued : Int, total : Nat]
  BY <1>2, ValuesAreDated
<1> QED BY <1>1, <1>2, <1>3 DEF Totals

LEMMA RevenueIsSum ==
    ASSUME TablesType, NEW T \in SUBSET Invoice, \A i \in T : Shown(i)
    PROVE  /\ IsFiniteSet(T) /\ \A i \in T : Totals[i] \in Nat
           /\ Revenue(T) = SumOf(Totals, T) /\ Revenue(T) \in Nat
<1>1. IsFiniteSet(T)
  BY FS_Subset, TablesAreFinite
<1>2. ASSUME NEW i \in T
      PROVE  Totals[i] = book[i].value.total /\ Totals[i] \in Nat
  <2>1. i \in Invoice /\ Shown(i)
    OBVIOUS
  <2> QED BY <2>1, RowsAreDated
<1>3. PICK g : Sums(Totals, T, g)
  BY <1>1, <1>2, SumsExist
<1> DEFINE Iterates(h) ==
      h = [s \in SUBSET T |->
              IF s = {} THEN 0
              ELSE LET x == CHOOSE y \in s : TRUE
                   IN  book[x].value.total + h[s \ {x}]]
<1>4. ASSUME NEW h PROVE Iterates(h) <=> Folds(Totals, T, h)
  <2>1. ASSUME NEW s \in SUBSET T
        PROVE  (IF s = {} THEN 0
                ELSE LET x == CHOOSE y \in s : TRUE
                     IN  book[x].value.total + h[s \ {x}])
               = (IF s = {} THEN 0
                  ELSE LET x == CHOOSE y \in s : TRUE
                       IN  Totals[x] + h[s \ {x}])
    BY <1>2
  <2> QED BY <2>1 DEF Folds
<1>5. Iterates(g)
  BY <1>3, <1>4, SumsFold
<1>6. PICK h : h = CHOOSE k : Iterates(k)
  OBVIOUS
<1>7. Iterates(h)
  <2> HIDE DEF Iterates
  <2> QED BY <1>5, <1>6
<1>8. Revenue(T) = h[T]
  BY <1>6 DEF Revenue, MapThenSumSet, MapThenFoldSet
<1>9. h[T] = g[T]
  <2>1. Folds(Totals, T, h)
    BY <1>4, <1>7
  <2>2. T \in SUBSET T
    OBVIOUS
  <2> HIDE DEF Iterates
  <2> QED BY <1>1, <1>3, <2>1, <2>2, FoldIsSum
<1>10. SumOf(Totals, T) = g[T] /\ SumOf(Totals, T) \in Nat
  BY <1>1, <1>2, <1>3, SumOfIs, SumNatural
<1> QED BY <1>1, <1>2, <1>8, <1>9, <1>10

\* The chart's months come to the total of the paid invoices of the last six.
LEMMA MonthsAddUp ==
    ASSUME TablesType, reader \in SummaryRecord, RevenueByMonth,
           NEW recent,
           recent = {i \in With("PAID") : book[i].value.issued >= monthFrom}
    PROVE  /\ reader' \in SummaryRecord /\ reader'.at = "done"
           /\ SumOf(reader'.revenueByMonth, DOMAIN reader'.revenueByMonth)
                = Revenue(recent)
<1> DEFINE months == {book[i].value.issued : i \in recent}
           part == [m \in months |-> {i \in recent : book[i].value.issued = m}]
           sums == [m \in months |->
                      Revenue({i \in recent : book[i].value.issued = m})]
           key == [i \in recent |-> book[i].value.issued]
<1>1. /\ reader' = [reader EXCEPT !.at = "done", !.revenueByMonth = sums]
  BY DEF RevenueByMonth
<1>2. recent \in SUBSET Invoice /\ \A i \in recent : Shown(i)
  BY DEF With
<1>3. ASSUME NEW m \in months
      PROVE  sums[m] = SumOf(Totals, part[m]) /\ sums[m] \in Int
  <2>1. PICK T : T = part[m]
    OBVIOUS
  <2>2. sums[m] = Revenue(T) /\ T \in SUBSET Invoice /\ \A i \in T : Shown(i)
    BY <1>2, <2>1
  <2>3. Revenue(T) = SumOf(Totals, T) /\ Revenue(T) \in Nat
    BY <2>2, RevenueIsSum
  <2> HIDE DEF sums, part
  <2> QED BY <2>1, <2>2, <2>3
<1>4. months = {key[i] : i \in recent}
  OBVIOUS
<1>5. SumOf(sums, months) = Revenue(recent)
  <2>1. /\ IsFiniteSet(recent) /\ \A i \in recent : Totals[i] \in Int
        /\ Revenue(recent) = SumOf(Totals, recent)
    BY <1>2, RevenueIsSum
  <2>2. /\ \A i \in recent : key[i] \in months
        /\ \A m \in months : part[m] \in SUBSET recent
        /\ \A m \in months : \A i \in recent : i \in part[m] <=> key[i] = m
    OBVIOUS
  <2> HIDE DEF sums, key, part, months
  <2>3. IsFiniteSet(months)
    BY <1>4, <2>1, KeysAreFinite
  <2>4. \A m \in months : sums[m] = SumOf(Totals, part[m])
    BY <1>3
  <2>5. PICK k, p, ks, t, r : k = key /\ p = part /\ ks = months
                              /\ t = Totals /\ r = sums
    OBVIOUS
  <2>6. /\ \A i \in recent : k[i] \in ks /\ t[i] \in Int
        /\ \A m \in ks : p[m] \in SUBSET recent
        /\ \A m \in ks : \A i \in recent : i \in p[m] <=> k[i] = m
        /\ \A m \in ks : r[m] = SumOf(t, p[m])
        /\ IsFiniteSet(recent) /\ IsFiniteSet(ks)
    BY <2>1, <2>2, <2>3, <2>4, <2>5
  <2>7. SumOf(r, ks) = SumOf(t, recent)
    BY <2>6, SumByKey
  <2> QED BY <2>1, <2>5, <2>7
<1>6. months \in SUBSET {v.issued : v \in Value}
  BY <1>2, RowsAreDated
<1>7. sums \in [months -> Int]
  BY <1>3
<1>8. reader'.revenueByMonth = sums /\ DOMAIN sums = months
  BY <1>1 DEF SummaryRecord
<1>9. reader' \in SummaryRecord /\ reader'.at = "done"
  <2>1. sums \in UNION {[M -> Int] : M \in SUBSET {v.issued : v \in Value}}
    BY <1>6, <1>7
  <2> HIDE DEF sums
  <2> QED BY <1>1, <2>1 DEF SummaryRecord
<1> HIDE DEF sums, months
<1> QED BY <1>5, <1>8, <1>9

LEMMA GroupByStep ==
    ASSUME TablesType, reader \in SummaryRecord, GroupByStatus
    PROVE  reader' \in SummaryRecord /\ SummaryInv'
<1> DEFINE paid == With("PAID")
           counted == [i \in paid |-> book[i]]
           totals == [i \in paid |-> counted[i].value.total]
<1>1. paid \in SUBSET Invoice /\ \A i \in paid : Shown(i) /\ book[i].status = "PAID"
  BY DEF With
<1>2. reader' = [reader EXCEPT !.at = "monthly", !.revenuePaid = Revenue(paid),
                               !.counted = counted]
  BY DEF GroupByStatus
<1>3. Revenue(paid) \in Nat /\ Revenue(paid) = SumOf(totals, paid)
  <2>1. /\ IsFiniteSet(paid) /\ Revenue(paid) = SumOf(Totals, paid)
        /\ Revenue(paid) \in Nat
    BY <1>1, RevenueIsSum
  <2>2. ASSUME NEW i \in paid
        PROVE  Totals[i] \in Int /\ Totals[i] = totals[i]
    <3>1. i \in Invoice /\ Shown(i)
      BY <1>1
    <3>2. Totals[i] \in Nat /\ Totals[i] = book[i].value.total
      BY <3>1, RowsAreDated
    <3> QED BY <3>2
  <2> HIDE DEF paid, totals
  <2> QED BY <2>1, <2>2, SumSame
<1>4. counted \in UNION {[S -> Rows] : S \in SUBSET Invoice}
  <2>1. ASSUME NEW i \in paid PROVE book[i] \in Rows
    <3>1. i \in Invoice /\ Shown(i)
      BY <1>1
    <3> QED BY <3>1, RowsAreDated
  <2>2. counted \in [paid -> Rows]
    BY <2>1
  <2> QED BY <1>1, <2>2
<1>5. DOMAIN counted = paid /\ \A i \in paid : counted[i].status = "PAID"
  BY <1>1
<1>6. /\ reader' \in SummaryRecord
      /\ reader'.counted = counted /\ reader'.revenuePaid = Revenue(paid)
  <2> HIDE DEF counted, paid
  <2>1. PICK r : r = Revenue(paid)
    OBVIOUS
  <2>2. r \in Nat
    BY <1>3, <2>1
  <2>3. reader' \in SummaryRecord
    BY <1>2, <1>4, <2>1, <2>2 DEF SummaryRecord
  <2>4. reader'.counted = counted /\ reader'.revenuePaid = r
    BY <1>2, <2>1 DEF SummaryRecord
  <2> QED BY <2>1, <2>3, <2>4
<1>7. totals = [i \in DOMAIN counted |-> counted[i].value.total]
  BY <1>5
<1> HIDE DEF paid, counted, totals
<1> QED BY <1>3, <1>5, <1>6, <1>7 DEF SummaryInv

CardsInv == reader.kind = "summary" => reader \in SummaryRecord /\ SummaryInv

LEMMA CardsInit == ReadsInit => CardsInv
<1> SUFFICES ASSUME ReadsInit, reader.kind = "summary" PROVE CardsInv
  BY DEF CardsInv
<1>1. reader = Summary
  BY DEF ReadsInit, Walk
<1>2. \A S : <<>> \in [{} -> S]
  OBVIOUS
<1>3. <<>> \in UNION {[S -> Rows] : S \in SUBSET Invoice}
  BY <1>2
<1>4. <<>> \in UNION {[M -> Int] : M \in SUBSET {v.issued : v \in Value}}
  BY <1>2
<1> QED BY <1>1, <1>3, <1>4 DEF CardsInv, Summary, SummaryRecord, SummaryInv

LEMMA CardsStep ==
    ASSUME TablesType, WalkType, CardsInv, [ReadsNext]_vars
    PROVE  CardsInv'
<1>1. CASE reader.kind # "summary"
  <2>1. reader \in WalkRecord
    BY <1>1 DEF WalkType
  <2>2. CASE FindMany
    BY <2>1, <2>2 DEF FindMany, WalkRecord, CardsInv
  <2>3. CASE Count
    BY <2>1, <2>3 DEF Count, WalkRecord, CardsInv
  <2>4. CASE Watch
    BY <1>1, <2>1, <2>4 DEF Watch, WalkRecord, CardsInv
  <2>5. CASE UNCHANGED reader
    BY <1>1, <2>5 DEF CardsInv
  <2> QED BY <1>1, <2>2, <2>3, <2>4, <2>5 DEF ReadsNext, Read, Write,
             GroupByStatus, RevenueByMonth, vars
<1>2. CASE reader.kind = "summary"
  <2>1. reader \in SummaryRecord /\ SummaryInv
    BY <1>2 DEF CardsInv
  <2>2. CASE GroupByStatus
    BY <2>1, <2>2, GroupByStep DEF CardsInv
  <2>3. CASE RevenueByMonth
    BY <2>1, <2>3, MonthsAddUp DEF CardsInv, SummaryInv
  <2>4. CASE UNCHANGED reader
    BY <2>1, <2>4 DEF CardsInv, SummaryInv
  <2> QED BY <1>2, <2>2, <2>3, <2>4 DEF ReadsNext, Read, Write, Watch, FindMany,
             Count, vars
<1> QED BY <1>1, <1>2

\* What a summary's two statements say of one month or another of the book.
LEMMA CardsAgreeStep ==
    ASSUME TablesType, CardsInv, RevenueByMonth,
           NEW paid, paid = With("PAID"), NEW counted, counted = reader.counted,
           NEW older, older = {i \in paid : book[i].value.issued <= Now - 6},
           \A i \in DOMAIN counted : book[i] = counted[i]
    PROVE  SumOf(reader'.revenueByMonth, DOMAIN reader'.revenueByMonth)
             + Revenue(older)
           = reader.revenuePaid + Revenue(paid \ DOMAIN counted)
<1> DEFINE D == DOMAIN counted
<1>1. reader \in SummaryRecord /\ SummaryInv /\ reader.kind = "summary"
      /\ reader.at = "monthly"
  BY DEF CardsInv, RevenueByMonth
<1>2. counted \in [D -> Rows] /\ D \in SUBSET Invoice
  BY <1>1 DEF SummaryRecord
<1>3. /\ \A i \in D : counted[i].status = "PAID"
      /\ reader.revenuePaid = SumOf([i \in D |-> counted[i].value.total], D)
  BY <1>1 DEF SummaryInv
<1>4. D \in SUBSET paid
  <2> SUFFICES ASSUME NEW i \in D PROVE i \in Invoice /\ Shown(i) /\ book[i].status = "PAID"
    BY DEF With
  <2>1. book[i] = counted[i] /\ counted[i] \in Rows /\ counted[i].status = "PAID"
    BY <1>2, <1>3
  <2> QED BY <1>2, <2>1, NoRowIsApart DEF Shown
<1>5. paid \in SUBSET Invoice /\ \A i \in paid : Shown(i)
  BY DEF With
<1>6. PICK recent : recent = {i \in With("PAID") : book[i].value.issued >= monthFrom}
  OBVIOUS
<1>7. /\ recent \cup older = paid /\ recent \cap older = {}
  <2>1. \A i \in paid : book[i].value.issued \in Int
    <3>1. ASSUME NEW i \in paid PROVE book[i].value.issued \in Int
      <4>1. i \in Invoice /\ Shown(i)
        BY <1>5
      <4> QED BY <4>1, RowsAreDated
    <3> QED BY <3>1
  <2>2. monthFrom = Now - 5 /\ Now \in Int
    BY ValuesAreDated DEF monthFrom, startOfMonthsAgo, MonthsBack
  <2> QED BY <1>6, <2>1, <2>2
<1>8. PICK t : t = Totals
  OBVIOUS
<1>9. ASSUME NEW T \in SUBSET paid
      PROVE  /\ IsFiniteSet(T) /\ \A i \in T : t[i] \in Int
             /\ Revenue(T) = SumOf(t, T) /\ Revenue(T) \in Nat
  <2>1. T \in SUBSET Invoice /\ \A i \in T : Shown(i)
    BY <1>5
  <2>2. /\ IsFiniteSet(T) /\ \A i \in T : Totals[i] \in Nat
        /\ Revenue(T) = SumOf(Totals, T) /\ Revenue(T) \in Nat
    BY <2>1, RevenueIsSum
  <2> QED BY <1>8, <2>2
<1>10. SumOf(t, paid) = SumOf(t, recent) + SumOf(t, older)
  BY <1>7, <1>9, SumUnion
<1>11. SumOf(t, paid) = SumOf(t, D) + SumOf(t, paid \ D)
  <2>1. D \cup (paid \ D) = paid /\ D \cap (paid \ D) = {}
    BY <1>4
  <2> HIDE DEF D
  <2> QED BY <1>4, <1>9, <2>1, SumUnion
<1>12. reader.revenuePaid = SumOf(t, D)
  <2>1. PICK g : g = [i \in D |-> counted[i].value.total]
    OBVIOUS
  <2>2. ASSUME NEW i \in D PROVE t[i] \in Int /\ t[i] = g[i]
    <3>1. i \in Invoice /\ Shown(i)
      BY <1>4, <1>5
    <3>2. t[i] \in Nat /\ t[i] = book[i].value.total
      BY <1>8, <3>1, RowsAreDated
    <3> QED BY <2>1, <3>2
  <2>3. IsFiniteSet(D)
    BY <1>4, <1>9
  <2> HIDE DEF D
  <2>4. SumOf(t, D) = SumOf(g, D)
    BY <2>2, <2>3, SumSame
  <2> QED BY <1>3, <2>1, <2>4
<1>13. SumOf(reader'.revenueByMonth, DOMAIN reader'.revenueByMonth)
          = Revenue(recent)
  BY <1>1, <1>6, MonthsAddUp
<1>14. /\ recent \in SUBSET paid /\ older \in SUBSET paid
       /\ paid \ D \in SUBSET paid
  BY <1>6
<1> HIDE DEF D
<1>15. /\ Revenue(recent) = SumOf(t, recent) /\ Revenue(recent) \in Nat
       /\ Revenue(older) = SumOf(t, older) /\ Revenue(older) \in Nat
       /\ Revenue(paid \ D) = SumOf(t, paid \ D) /\ Revenue(paid \ D) \in Nat
       /\ SumOf(t, D) \in Nat
  BY <1>4, <1>9, <1>14
<1> QED BY <1>10, <1>11, <1>12, <1>13, <1>15 DEF D

\* A walk asks for no page that is beyond the longest list there can be.
PagesInv ==
    reader.kind = "walk" =>
        /\ reader.page <= Max({1, Cardinality(Invoice), Cardinality(Client)})
        /\ reader.again \subseteq reader.got

LEMMA MaxOfThree ==
    ASSUME NEW a \in Int, NEW b \in Int
    PROVE  /\ Max({1, a, b}) \in Int
           /\ 1 <= Max({1, a, b}) /\ a <= Max({1, a, b}) /\ b <= Max({1, a, b})
<1>1. PICK m \in {1, a, b} : \A y \in {1, a, b} : y <= m
  <2>1. CASE a >= 1 /\ a >= b
    BY <2>1
  <2>2. CASE b >= 1 /\ b >= a
    BY <2>2
  <2>3. CASE 1 >= a /\ 1 >= b
    BY <2>3
  <2> QED BY <2>1, <2>2, <2>3
<1>2. \A x \in {1, a, b} : (\A y \in {1, a, b} : y <= x) => x = m
  BY <1>1
<1>3. Max({1, a, b}) = m
  BY <1>1, <1>2 DEF Max
<1> QED BY <1>1, <1>3

LEMMA ListsFit ==
    ASSUME TablesType, NEW list \in List, NEW total,
           total = Cardinality(Listed(list))
    PROVE  /\ total \in Nat
           /\ Max({1, total}) <= Max({1, Cardinality(Invoice), Cardinality(Client)})
           /\ Max({1, Cardinality(Invoice), Cardinality(Client)}) \in Nat \ {0}
<1>1. /\ Cardinality(Invoice) \in Nat /\ Cardinality(Client) \in Nat
  BY TablesAreFinite, FS_CardinalityType
<1>2. /\ total \in Nat
      /\ total <= Cardinality(Invoice) \/ total <= Cardinality(Client)
  <2>1. CASE list = "clients"
    <3>1. Listed(list) \in SUBSET Client
      BY <2>1 DEF Listed
    <3> QED BY <3>1, TablesAreFinite, FS_Subset, FS_CardinalityType
  <2>2. CASE list # "clients"
    <3>1. Listed(list) \in SUBSET Invoice
      BY <2>2 DEF Listed, With
    <3> QED BY <3>1, TablesAreFinite, FS_Subset, FS_CardinalityType
  <2> QED BY <2>1, <2>2
<1>3. PICK i, c, most : /\ i = Cardinality(Invoice) /\ c = Cardinality(Client)
                        /\ most = Max({1, i, c})
  OBVIOUS
<1>4. /\ i \in Int /\ c \in Int
  BY <1>1, <1>3
<1>5. most \in Int /\ 1 <= most /\ i <= most /\ c <= most
  BY <1>3, <1>4, MaxOfThree
<1>6. Max({1, total}) \in Int /\ Max({1, total}) <= most
  <2>1. Max({1, total}) = IF 1 >= total THEN 1 ELSE total
    BY <1>2, MaxOfTwo
  <2> QED BY <1>2, <1>3, <1>4, <1>5, <2>1
<1> QED BY <1>2, <1>3, <1>5, <1>6

LEMMA PagesStep ==
    ASSUME TablesType, WalkType, PagesInv, [ReadsNext]_vars
    PROVE  PagesInv'
<1>1. CASE reader.kind = "summary"
  <2>1. reader'.kind = reader.kind
    BY <1>1 DEF WalkType, WalkRecord, ReadsNext, Read, Write, Watch, GroupByStatus,
       RevenueByMonth, FindMany, Count, vars
  <2> QED BY <1>1, <2>1 DEF PagesInv
<1>2. CASE reader.kind # "summary"
  <2>1. reader \in WalkRecord
    BY <1>2 DEF WalkType
  <2>2. CASE FindMany
    BY <2>1, <2>2 DEF FindMany, WalkRecord, PagesInv
  <2>3. CASE Count
    <3>1. PICK total : total = Cardinality(Listed(reader.list))
      OBVIOUS
    <3>2. /\ reader.list \in List /\ reader.page \in Nat \ {0}
          /\ reader.limit \in Nat \ {0} /\ reader.kind = "walk"
      BY <2>1, LimitsPositive DEF WalkRecord
    <3>3. /\ total \in Nat
          /\ totalPages(total, reader.limit) \in Nat
          /\ totalPages(total, reader.limit) <= Max({1, total})
          /\ Max({1, total})
                <= Max({1, Cardinality(Invoice), Cardinality(Client)})
          /\ Max({1, Cardinality(Invoice), Cardinality(Client)}) \in Nat
      BY <3>1, <3>2, ListsFit, PagesAreRows
    <3>4. Max({1, total}) \in Int
      BY <3>3, MaxOfTwo
    <3>5. CASE reader.page < totalPages(total, reader.limit)
      <4>1. reader' = [reader EXCEPT !.at = "findMany", !.page = reader.page + 1]
        BY <2>3, <3>1, <3>5 DEF Count
      <4>2. /\ reader'.page = reader.page + 1 /\ reader'.again = reader.again
            /\ reader'.got = reader.got
        BY <2>1, <4>1 DEF WalkRecord
      <4> QED BY <3>2, <3>3, <3>4, <3>5, <4>2 DEF PagesInv
    <3>6. CASE ~(reader.page < totalPages(total, reader.limit))
      BY <2>1, <2>3, <3>1, <3>2, <3>6 DEF Count, WalkRecord, PagesInv
    <3> QED BY <3>5, <3>6
  <2>4. CASE Watch
    <3>1. /\ reader'.page = reader.page /\ reader'.again = reader.again
          /\ reader'.got = reader.got /\ reader.kind = "walk"
      BY <1>2, <2>1, <2>4 DEF Watch, WalkRecord
    <3> QED BY <3>1 DEF PagesInv
  <2>5. CASE UNCHANGED reader
    BY <2>5 DEF PagesInv
  <2> QED BY <1>2, <2>2, <2>3, <2>4, <2>5 DEF ReadsNext, Read, Write,
             GroupByStatus, RevenueByMonth, vars
<1> QED BY <1>1, <1>2

\* The dashboard and the lists, whatever is written meanwhile: the tables and
\* the reader have their types, and no page beyond the last is asked for.
THEOREM TypeCorrect == ReadsSpec => []TypeOK
<1>1. ReadsInit => PagesInv
  <2> SUFFICES ASSUME ReadsInit, reader.kind = "walk" PROVE PagesInv
    BY DEF PagesInv
  <2>1. reader.page = 1 /\ reader.again = {} /\ reader.got = {}
    BY DEF ReadsInit, Summary, Walk
  <2>2. Cardinality(Invoice) \in Int /\ Cardinality(Client) \in Int
    BY TablesAreFinite, FS_CardinalityType
  <2> QED BY <2>1, <2>2, MaxOfThree DEF PagesInv
<1>2. ReadsInv /\ PagesInv /\ [ReadsNext]_vars => PagesInv'
  BY PagesStep DEF ReadsInv
<1>3. ReadsInv /\ CardsInv /\ [ReadsNext]_vars => CardsInv'
  BY CardsStep DEF ReadsInv
<1>4. ReadsInv /\ CardsInv /\ PagesInv => TypeOK
  <2> SUFFICES ASSUME ReadsInv, CardsInv, PagesInv PROVE TypeOK
    OBVIOUS
  <2>1. /\ \A i \in Invoice : book[i] \in Rows \cup {Absent}
        /\ \A c \in Client : clients[c] \in Moment \cup {Absent, Deleted}
    BY DEF ReadsInv, TablesType
  <2>2. CASE reader.kind = "summary"
    <3>1. reader \in SummaryRecord
      BY <2>2 DEF CardsInv
    <3>2. DOMAIN reader.revenueByMonth \subseteq {v.issued : v \in Value}
      BY <3>1 DEF SummaryRecord
    <3> QED BY <2>1, <2>2, <3>1, <3>2 DEF SummaryRecord, TypeOK
  <2>3. CASE reader.kind # "summary"
    <3>1. reader \in WalkRecord /\ reader.kind = "walk"
      BY <2>3 DEF ReadsInv, WalkType, WalkRecord
    <3>2. Max({1, Cardinality(Invoice), Cardinality(Client)}) \in Int
      <4>1. Cardinality(Invoice) \in Int /\ Cardinality(Client) \in Int
        BY TablesAreFinite, FS_CardinalityType
      <4> QED BY <4>1, MaxOfThree
    <3>3. reader.page \in 1..Max({1, Cardinality(Invoice), Cardinality(Client)})
      BY <3>1, <3>2 DEF WalkRecord, PagesInv
    <3>4. reader.again \subseteq reader.got
      BY <3>1 DEF PagesInv
    <3> QED BY <2>1, <3>1, <3>3, <3>4 DEF WalkRecord, TypeOK
  <2> QED BY <2>2, <2>3
<1> QED BY <1>1, <1>2, <1>3, <1>4, CardsInit, WalkCorrect, PTL DEF ReadsSpec

\* The revenue card and the revenue chart of one summary (summary, lines 17-45)
\* differ by the older invoices and by what was paid between the two
\* statements, unless a write reached a counted invoice.
THEOREM SummaryAddsUp == ReadsSpec => CardsAgree
<1>1. ReadsInv /\ CardsInv /\ [ReadsNext]_vars => CardsInv'
  BY CardsStep DEF ReadsInv
<1> DEFINE Agree ==
      LET paid  == With("PAID")
          older == {i \in paid : book[i].value.issued <= Now - 6}
          since == paid \ DOMAIN reader.counted
      IN  (\A i \in DOMAIN reader.counted : book[i] = reader.counted[i]) =>
             SumOf(reader'.revenueByMonth, DOMAIN reader'.revenueByMonth)
               + Revenue(older)
             = reader.revenuePaid + Revenue(since)
<1>2. ReadsInv /\ CardsInv => (RevenueByMonth => Agree)
  BY CardsAgreeStep DEF ReadsInv
<1>3. ReadsInv /\ CardsInv /\ [ReadsNext]_vars => [RevenueByMonth => Agree]_vars
  BY <1>2
<1> QED BY <1>1, <1>3, CardsInit, WalkCorrect, PTL DEF ReadsSpec, CardsAgree
=============================================================================
