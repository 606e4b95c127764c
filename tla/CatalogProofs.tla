--------------------------- MODULE CatalogProofs ---------------------------
(***************************************************************************)
(* Theorems about Catalog, for any number of apps, any panel and any groups.*)
(***************************************************************************)
EXTENDS Catalog, FiniteSetTheorems, TLAPS

(* A group has no more entries than there are apps, so that it fits.        *)
GroupsFit == \A g \in Groups : Len(groups[g]) <= NumGames

(* What SelectionShown says, with what carries it from panel to panel: the  *)
(* left panel, too, keeps the selection within the count.                   *)
Selected ==
  /\ item_c = IF Hits > 0 THEN Hits ELSE NumGames
  /\ active = "left" => Hits <= 0
  /\ active \in {"left", "icon"} => sel.curr < item_c /\ sel.col = sel.curr % Columns
  /\ active = "icon" /\ Hits > 0 => sel.curr = sel.page * Field + sel.f_sele

(* The groups were made for some order, and until a list is dropped after a *)
(* sort it is the one shown.                                                *)
Regrouped ==
  /\ \E o \in Orders : groups = Grouped(o)
  /\ ~stale => groups = Grouped(item_d)

(* A group's list without entries is that of a group without apps: the list *)
(* may outlive the order it was made in.                                    *)
EmptyGroups ==
  kind = "group" /\ Hits <= 0 => \E g \in Groups : {a \in Apps : GroupOf[a] = g} = {}

IInv ==
  /\ TypeOK /\ GroupsFit /\ Selected
  /\ SearchDenotes /\ Regrouped /\ EmptyGroups /\ GroupShowsItsApps

-----------------------------------------------------------------------------
(* The ranks of the members of a finite set of numbers lie below its size,  *)
(* and no two are the same.                                                 *)
LEMMA Ranks ==
  ASSUME NEW S \in SUBSET Nat, IsFiniteSet(S)
  PROVE  /\ \A s \in S : Cardinality({r \in S : r < s}) \in 0 .. Cardinality(S) - 1
         /\ \A s, t \in S :
              Cardinality({r \in S : r < s}) = Cardinality({r \in S : r < t}) => s = t
<1> DEFINE Below(s) == {r \in S : r < s}
           n        == Cardinality(S)
           rank     == [s \in S |-> Cardinality(Below(s))]
<1>1. n \in Nat
  BY FS_CardinalityType
<1>2. ASSUME NEW s \in S
      PROVE  /\ IsFiniteSet(Below(s))
             /\ rank[s] \in 0 .. n - 1
  <2>1. IsFiniteSet(S \ {s}) /\ Cardinality(S \ {s}) = n - 1
    BY FS_RemoveElement
  <2>2. Below(s) \in SUBSET (S \ {s})
    OBVIOUS
  <2>3. IsFiniteSet(Below(s)) /\ Cardinality(Below(s)) <= n - 1
    BY <2>1, <2>2, FS_Subset
  <2>4. Cardinality(Below(s)) \in Nat
    BY <2>3, FS_CardinalityType
  <2> HIDE DEF Below, n
  <2> QED
    BY <1>1, <2>3, <2>4
<1>3. ASSUME NEW s \in S, NEW t \in S, s < t PROVE rank[s] # rank[t]
  <2>1. Below(s) \in SUBSET Below(t) /\ s \in Below(t) /\ s \notin Below(s)
    <3>1. s \in Nat /\ t \in Nat /\ \A r \in S : r \in Nat
      OBVIOUS
    <3>2. ASSUME NEW r \in S, r < s PROVE r < t
      BY <1>3, <3>1, <3>2
    <3>3. ~(s < s)
      BY <3>1
    <3> QED
      BY <1>3, <3>2, <3>3
  <2>2. IsFiniteSet(Below(t))
    BY <1>2
  <2>3. Cardinality(Below(s)) # Cardinality(Below(t))
    <3> HIDE DEF Below
    <3>1. Cardinality(Below(t)) = Cardinality(Below(s)) => Below(t) = Below(s)
      BY <2>1, <2>2, FS_Subset
    <3> QED
      BY <2>1, <3>1
  <2> QED
    BY <2>3
<1>4. \A s, t \in S : rank[s] = rank[t] => s = t
  <2> SUFFICES ASSUME NEW s \in S, NEW t \in S, s # t PROVE rank[s] # rank[t]
    OBVIOUS
  <2>1. s < t \/ t < s
    OBVIOUS
  <2> HIDE DEF rank
  <2> QED
    BY <1>3, <2>1
<1> QED
  BY <1>2, <1>4

(* So every rank below the size is taken: counting leaves none out.         *)
LEMMA EveryRankTaken ==
  ASSUME NEW S \in SUBSET Nat, IsFiniteSet(S), NEW k \in Nat, k < Cardinality(S)
  PROVE  \E s \in S : Cardinality({r \in S : r < s}) = k
<1> DEFINE n    == Cardinality(S)
           rank == [s \in S |-> Cardinality({r \in S : r < s})]
<1>1. n \in Nat
  BY FS_CardinalityType
<1>2. /\ \A s \in S : rank[s] \in 0 .. n - 1
      /\ \A s, t \in S : rank[s] = rank[t] => s = t
  BY Ranks
<1>3. rank \in Injection(S, 0 .. n - 1)
  <2>1. rank \in [S -> 0 .. n - 1]
    BY <1>2
  <2> HIDE DEF rank, n
  <2> QED
    BY <1>2, <2>1 DEF Injection, IsInjective
<1>4. IsFiniteSet(0 .. n - 1) /\ Cardinality(0 .. n - 1) = n
  <2> HIDE DEF n
  <2> QED
    BY <1>1, FS_Interval
<1>5. rank \in Surjection(S, 0 .. n - 1)
  <2> HIDE DEF rank
  <2> QED
    BY <1>3, <1>4, FS_Injection
<1>6. \E s \in S : rank[s] = k
  <2>1. k \in 0 .. n - 1
    BY <1>1
  <2> HIDE DEF rank, n
  <2> QED
    BY <1>5, <2>1 DEF Surjection
<1> QED
  BY <1>6

LEMMA NthTaken ==
  ASSUME NEW S \in SUBSET Apps, NEW k \in 1 .. Cardinality(S)
  PROVE  Nth(S, k) \in S
<1>1. S \in SUBSET Nat /\ IsFiniteSet(S) /\ Cardinality(S) \in Nat
  <2>1. IsFiniteSet(Apps)
    BY CatalogAssumption, FS_Interval DEF Apps
  <2>2. IsFiniteSet(S)
    BY <2>1, FS_Subset
  <2> QED
    BY <2>2, FS_CardinalityType, CatalogAssumption DEF Apps
<1>2. k - 1 \in Nat /\ k - 1 < Cardinality(S)
  BY <1>1
<1>3. \E i \in S : Cardinality({j \in S : j < i}) = k - 1
  BY <1>1, <1>2, EveryRankTaken
<1> QED
  BY <1>3 DEF Nth

(* Each member has its place.                                               *)
LEMMA NthOnto ==
  ASSUME NEW S \in SUBSET Apps, NEW i \in S
  PROVE  \E k \in 1 .. Cardinality(S) : Nth(S, k) = i
<1> DEFINE Rank(s) == Cardinality({j \in S : j < s})
           k       == Rank(i) + 1
<1>1. S \in SUBSET Nat /\ IsFiniteSet(S) /\ Cardinality(S) \in Nat
  <2>1. IsFiniteSet(Apps)
    BY CatalogAssumption, FS_Interval DEF Apps
  <2>2. IsFiniteSet(S)
    BY <2>1, FS_Subset
  <2> QED
    BY <2>2, FS_CardinalityType, CatalogAssumption DEF Apps
<1>2. /\ Rank(i) \in 0 .. Cardinality(S) - 1
      /\ \A s \in S : Rank(s) = Rank(i) => s = i
  BY <1>1, Ranks
<1> HIDE DEF Rank
<1>3. k \in 1 .. Cardinality(S) /\ k - 1 = Rank(i)
  BY <1>1, <1>2
<1>4. Nth(S, k) \in S /\ Rank(Nth(S, k)) = k - 1
  <2>1. Nth(S, k) = CHOOSE s \in S : Rank(s) = k - 1
    BY DEF Nth, Rank
  <2> HIDE DEF k
  <2> QED
    BY <1>3, <2>1
<1> QED
  BY <1>2, <1>3, <1>4

(* A list has an entry for each index: as many as there are, each with the  *)
(* index and what the order has there.                                      *)
LEMMA Listed ==
  ASSUME NEW S \in SUBSET Apps, NEW o \in [Apps -> Apps]
  PROVE  /\ ListOf(S, o) \in Seq(Entries)
         /\ Len(ListOf(S, o)) = Cardinality(S)
         /\ Cardinality(S) \in 0 .. NumGames
         /\ \A k \in DOMAIN ListOf(S, o) :
              ListOf(S, o)[k].len \in S /\ ListOf(S, o)[k].app = o[ListOf(S, o)[k].len]
         /\ \A i \in S : \E k \in DOMAIN ListOf(S, o) : ListOf(S, o)[k].len = i
<1>1. Cardinality(S) \in 0 .. NumGames
  <2>1. IsFiniteSet(Apps) /\ Cardinality(Apps) = NumGames
    BY CatalogAssumption, FS_Interval DEF Apps
  <2>2. IsFiniteSet(S) /\ Cardinality(S) <= NumGames
    BY <2>1, FS_Subset
  <2>3. Cardinality(S) \in Nat
    BY <2>2, FS_CardinalityType
  <2> QED
    BY <2>2, <2>3, CatalogAssumption
<1>2. \A k \in 1 .. Cardinality(S) : Nth(S, k) \in S
  BY NthTaken
<1> DEFINE n == Cardinality(S)
<1>3. n \in Nat
  BY <1>1
<1>4. ListOf(S, o) = [k \in 1 .. n |-> Entry(Nth(S, k), o[Nth(S, k)])]
  BY DEF ListOf
<1>5. \A k \in 1 .. n : Entry(Nth(S, k), o[Nth(S, k)]) \in Entries
  BY <1>2 DEF Entry, Entries
<1>6. ListOf(S, o) \in Seq(Entries) /\ Len(ListOf(S, o)) = n
  <2> HIDE DEF n
  <2> QED
    BY <1>3, <1>4, <1>5
<1>7. ASSUME NEW k \in DOMAIN ListOf(S, o)
      PROVE  /\ ListOf(S, o)[k].len \in S
             /\ ListOf(S, o)[k].app = o[ListOf(S, o)[k].len]
  <2>1. k \in 1 .. n /\ ListOf(S, o)[k] = Entry(Nth(S, k), o[Nth(S, k)])
    BY <1>4
  <2> QED
    BY <1>2, <2>1 DEF Entry
<1>8. ASSUME NEW i \in S
      PROVE  \E k \in DOMAIN ListOf(S, o) : ListOf(S, o)[k].len = i
  <2>1. PICK k \in 1 .. n : Nth(S, k) = i
    BY NthOnto
  <2>2. k \in DOMAIN ListOf(S, o) /\ ListOf(S, o)[k] = Entry(i, o[i])
    BY <1>4, <2>1
  <2> QED
    BY <2>2 DEF Entry
<1> QED
  BY <1>1, <1>6, <1>7, <1>8

(* With its header the list is one longer, and the entries follow.          *)
LEMMA Headed ==
  ASSUME NEW list \in Seq(Entries)
  PROVE  /\ <<Header>> \o list \in Seq(Entries)
         /\ Len(<<Header>> \o list) = Len(list) + 1
         /\ \A k \in 2 .. Len(list) + 1 :
              k - 1 \in DOMAIN list /\ (<<Header>> \o list)[k] = list[k - 1]
<1>1. Header \in Entries /\ Header.len = Header.app
  BY CatalogAssumption DEF Header, Entry, Entries, Apps
<1>2. Len(list) \in Nat /\ DOMAIN list = 1 .. Len(list)
  OBVIOUS
<1>3. /\ <<Header>> \o list \in Seq(Entries)
      /\ Len(<<Header>> \o list) = Len(list) + 1
  BY <1>1
<1>4. (<<Header>> \o list)[1] = Header
  BY <1>1
<1>5. ASSUME NEW k \in 2 .. Len(list) + 1
      PROVE  k - 1 \in DOMAIN list /\ (<<Header>> \o list)[k] = list[k - 1]
  BY <1>1, <1>2
<1> QED
  BY <1>3, <1>5

(* Quotient and remainder.                                                  *)
LEMMA Divides ==
  ASSUME NEW a \in Nat, NEW n \in Nat \ {0}
  PROVE  /\ a \div n \in Nat
         /\ a % n \in 0 .. n - 1
         /\ a = (a \div n) * n + (a % n)
<1>1. a \div n \in Nat /\ a % n \in 0 .. n - 1
  OBVIOUS
<1>2. a = (n * (a \div n)) + (a % n)
  OBVIOUS
<1>3. n * (a \div n) = (a \div n) * n
  BY <1>1
<1> QED
  BY <1>1, <1>2, <1>3

LEMMA FieldPositive == Field \in Nat \ {0} /\ Columns \in Nat \ {0}
  BY CatalogAssumption DEF Field

(* A movement ends within the count, wherever it starts.                    *)
LEMMA SelectsWithin ==
  ASSUME NEW i \in Int, NEW n \in 1 .. NumGames
  PROVE  /\ Select(i, n) \in [curr : Apps, col : 0 .. Columns - 1,
                              f_sele : 0 .. Field - 1, page : Nat]
         /\ Select(i, n).curr < n
         /\ Select(i, n).col = Select(i, n).curr % Columns
         /\ Select(i, n).curr = Select(i, n).page * Field + Select(i, n).f_sele
<1> DEFINE idx == IF i < 0 THEN n - 1 ELSE IF i > n - 1 THEN 0 ELSE i
<1>1. idx \in 0 .. n - 1 /\ idx \in Nat /\ idx \in Apps /\ idx < n
  BY CatalogAssumption DEF Apps
<1>2. Select(i, n) = [curr |-> idx, col |-> idx % Columns,
                      f_sele |-> idx % Field, page |-> idx \div Field]
  BY DEF Select
<1> HIDE DEF idx
<1>3. /\ idx \div Field \in Nat
      /\ idx % Field \in 0 .. Field - 1
      /\ idx = (idx \div Field) * Field + (idx % Field)
  BY <1>1, FieldPositive, Divides
<1>4. idx % Columns \in 0 .. Columns - 1
  BY <1>1, FieldPositive, Divides
<1> QED
  BY <1>1, <1>2, <1>3, <1>4

(* The groups are lists that fit.                                           *)
LEMMA GroupsListed ==
  ASSUME NEW o \in [Apps -> Apps]
  PROVE  /\ Grouped(o) \in [Groups -> Seq(Entries)]
         /\ \A g \in Groups : Len(Grouped(o)[g]) <= NumGames
<1> DEFINE Of(g) == {i \in Apps : GroupOf[o[i]] = g}
<1>1. Grouped(o) = [g \in Groups |-> ListOf(Of(g), o)]
  BY DEF Grouped
<1>2. ASSUME NEW g \in Groups
      PROVE  /\ ListOf(Of(g), o) \in Seq(Entries)
             /\ Len(ListOf(Of(g), o)) <= NumGames
  <2>1. Of(g) \in SUBSET Apps
    OBVIOUS
  <2> HIDE DEF Of
  <2>2. /\ ListOf(Of(g), o) \in Seq(Entries)
        /\ Len(ListOf(Of(g), o)) = Cardinality(Of(g))
        /\ Cardinality(Of(g)) \in 0 .. NumGames
        /\ \A k \in DOMAIN ListOf(Of(g), o) :
             /\ ListOf(Of(g), o)[k].len \in Of(g)
             /\ ListOf(Of(g), o)[k].app = o[ListOf(Of(g), o)[k].len]
    BY <2>1, Listed
  <2>3. Len(ListOf(Of(g), o)) <= NumGames
    BY <2>2, CatalogAssumption
  <2> QED
    BY <2>2, <2>3
<1> HIDE DEF Of
<1> QED
  BY <1>1, <1>2

LEMMA IdentityOrders == Identity \in Orders /\ Identity \in [Apps -> Apps]
  BY DEF Identity, Orders

LEMMA OrdersMap == ASSUME NEW o \in Orders PROVE o \in [Apps -> Apps]
  BY DEF Orders

(* An order leaves no app out.                                              *)
LEMMA OrdersOnto ==
  ASSUME NEW o \in Orders, NEW a \in Apps
  PROVE  \E i \in Apps : o[i] = a
<1>1. IsFiniteSet(Apps)
  BY CatalogAssumption, FS_Interval DEF Apps
<1>2. o \in Injection(Apps, Apps)
  BY DEF Orders, Injection, IsInjective
<1>3. o \in Surjection(Apps, Apps)
  BY <1>1, <1>2, FS_Injection
<1> QED
  BY <1>3 DEF Surjection

(* A group's list shows the group, in the order it was made for.            *)
LEMMA GroupsExact ==
  ASSUME NEW o \in Orders, NEW g \in Groups
  PROVE  {o[Grouped(o)[g][k].len] : k \in 1 .. Len(Grouped(o)[g])}
           = {a \in Apps : GroupOf[a] = g}
<1> DEFINE Of   == {i \in Apps : GroupOf[o[i]] = g}
           list == Grouped(o)[g]
<1>1. o \in [Apps -> Apps] /\ Of \in SUBSET Apps
  BY OrdersMap
<1>2. list = ListOf(Of, o)
  BY DEF Grouped
<1> HIDE DEF list
<1>3. /\ list \in Seq(Entries) /\ DOMAIN list = 1 .. Len(list)
      /\ \A k \in DOMAIN list : list[k].len \in Of
      /\ \A i \in Of : \E k \in DOMAIN list : list[k].len = i
  <2> HIDE DEF Of
  <2>1. /\ list \in Seq(Entries)
        /\ \A k \in DOMAIN list : list[k].len \in Of
        /\ \A i \in Of : \E k \in DOMAIN list : list[k].len = i
    BY <1>1, <1>2, Listed
  <2> QED
    BY <2>1
<1>4. ASSUME NEW k \in 1 .. Len(list)
      PROVE  o[list[k].len] \in Apps /\ GroupOf[o[list[k].len]] = g
  BY <1>1, <1>3
<1>5. ASSUME NEW a \in Apps, GroupOf[a] = g
      PROVE  \E k \in 1 .. Len(list) : o[list[k].len] = a
  <2>1. PICK i \in Apps : o[i] = a
    BY OrdersOnto
  <2>2. PICK k \in DOMAIN list : list[k].len = i
    BY <1>3, <1>5, <2>1
  <2> QED
    BY <1>3, <2>1, <2>2
<1>6. {o[list[k].len] : k \in 1 .. Len(list)} = {a \in Apps : GroupOf[a] = g}
  BY <1>4, <1>5
<1> QED
  BY <1>6 DEF list

LEMMA AppsFacts ==
  /\ NumGames \in Nat \ {0} /\ NumGames \in 1 .. NumGames
  /\ 0 \in Apps /\ \A i \in Apps : i \in Nat /\ i < NumGames
  BY CatalogAssumption DEF Apps

-----------------------------------------------------------------------------
LEMMA InitIInv == Init => IInv
<1> SUFFICES ASSUME Init PROVE IInv
  OBVIOUS
<1> USE DEF Init
<1>1. /\ sel \in [curr : Apps, col : 0 .. Columns - 1,
                  f_sele : 0 .. Field - 1, page : Nat]
      /\ sel.curr < NumGames /\ sel.col = sel.curr % Columns
  BY AppsFacts, SelectsWithin
<1>2. /\ groups \in [Groups -> Seq(Entries)]
      /\ \A g \in Groups : Len(groups[g]) <= NumGames
  BY IdentityOrders, GroupsListed
<1>3. aux \in Seq(Entries) /\ Len(aux) = 0 /\ Hits = -1
  BY DEF Hits
<1>4. TypeOK
  <2>1. item_d \in Orders /\ item_c \in 1 .. NumGames
    BY AppsFacts, IdentityOrders
  <2>2. Len(aux) <= NumGames + 1
    BY <1>3, AppsFacts
  <2>3. /\ kind \in {"none", "search", "group", "updates"}
        /\ active \in {"left", "icon", "item"}
        /\ page \in 0 .. 5
    BY ONLY Init DEF Init
  <2>4. stale \in BOOLEAN /\ downloads = {} /\ downloads \subseteq Apps
    BY ONLY Init DEF Init
  <2> QED
    BY ONLY <1>1, <1>2, <1>3, <2>1, <2>2, <2>3, <2>4 DEF TypeOK
<1>5. GroupsFit
  BY <1>2 DEF GroupsFit
<1>6. Selected
  BY <1>1, <1>3, AppsFacts DEF Selected
<1>7. SearchDenotes
  BY DEF SearchDenotes
<1>8. Regrouped
  BY IdentityOrders DEF Regrouped
<1>9. EmptyGroups /\ GroupShowsItsApps
  BY DEF EmptyGroups, GroupShowsItsApps
<1> QED
  BY <1>4, <1>5, <1>6, <1>7, <1>8, <1>9 DEF IInv

-----------------------------------------------------------------------------
(* Showing a list: what all the lists have in common.                       *)
LEMMA ShowsList ==
  ASSUME IInv, NEW list \in Seq(Entries), Len(list) \in 1 .. NumGames,
         NEW what \in {"search", "group"}, ShowList(list, what),
         UNCHANGED <<item_d, groups, page, downloads, stale>>,
         what = "search" => \A k \in DOMAIN list : list[k].app = item_d[list[k].len],
         what = "group" /\ ~stale => \E g \in Groups : list = groups[g]
  PROVE  IInv'
<1> DEFINE n == Len(list)
<1>1. /\ aux' \in Seq(Entries) /\ Len(aux') = n + 1
      /\ \A k \in 2 .. n + 1 : k - 1 \in DOMAIN list /\ aux'[k] = list[k - 1]
  BY Headed DEF ShowList
<1>2. /\ sel' \in [curr : Apps, col : 0 .. Columns - 1,
                   f_sele : 0 .. Field - 1, page : Nat]
      /\ sel'.curr < n /\ sel'.col = sel'.curr % Columns
      /\ sel'.curr = sel'.page * Field + sel'.f_sele
  <2>1. sel' = Select(0, n) /\ n \in 1 .. NumGames /\ 0 \in Int
    BY DEF ShowList
  <2> HIDE DEF n
  <2> QED
    BY <2>1, SelectsWithin
<1>3. n \in Nat /\ 0 < n /\ n <= NumGames /\ n + 1 <= NumGames + 1
  BY AppsFacts
<1>4. item_c' = n /\ kind' = what /\ active' = "icon"
  BY DEF ShowList
<1>5. Hits' = n
  BY <1>1, <1>3 DEF Hits
<1> HIDE DEF n
<1>6. TypeOK'
  BY <1>1, <1>2, <1>3, <1>4, AppsFacts DEF IInv, TypeOK
<1>7. GroupsFit'
  BY DEF IInv, GroupsFit
<1>8. Selected'
  BY <1>2, <1>3, <1>4, <1>5 DEF Selected
<1>9. SearchDenotes'
  <2> SUFFICES ASSUME what = "search", NEW k \in 2 .. n + 1
               PROVE  Denotes(aux[k].len, aux[k].app)'
    BY <1>1, <1>4 DEF SearchDenotes
  <2>1. aux'[k] \in Entries /\ aux'[k] = list[k - 1] /\ k - 1 \in DOMAIN list
    BY <1>1, <1>3
  <2> QED
    BY <2>1 DEF Denotes, Entries
<1>10. Regrouped'
  BY DEF IInv, Regrouped
<1>11. GroupShowsItsApps'
  <2> SUFFICES ASSUME what = "group", ~stale
               PROVE  \E g \in Groups : {item_d[aux'[k].len] : k \in 2 .. n + 1}
                                          = {a \in Apps : GroupOf[a] = g}
    BY <1>1, <1>4 DEF GroupShowsItsApps
  <2>1. PICK g \in Groups : list = Grouped(item_d)[g]
    BY DEF IInv, Regrouped
  <2>2. {item_d[list[k].len] : k \in 1 .. Len(list)} = {a \in Apps : GroupOf[a] = g}
    BY <2>1, GroupsExact DEF IInv, TypeOK
  <2>3. {item_d[aux'[k].len] : k \in 2 .. n + 1} = {item_d[list[k].len] : k \in 1 .. n}
    <3>1. ASSUME NEW k \in 2 .. n + 1
          PROVE  k - 1 \in 1 .. n /\ item_d[aux'[k].len] = item_d[list[k - 1].len]
      BY <1>1, <1>3
    <3>2. ASSUME NEW k \in 1 .. n
          PROVE  k + 1 \in 2 .. n + 1 /\ item_d[aux'[k + 1].len] = item_d[list[k].len]
      <4>1. k + 1 \in 2 .. n + 1 /\ (k + 1) - 1 = k
        BY <1>3
      <4>2. aux'[k + 1] = list[k]
        BY <1>1, <4>1
      <4> QED
        BY <4>1, <4>2
    <3> QED
      BY <3>1, <3>2
  <2> QED
    BY <2>2, <2>3 DEF n
<1>12. EmptyGroups'
  BY <1>3, <1>5 DEF EmptyGroups
<1> QED
  BY <1>6, <1>7, <1>8, <1>9, <1>10, <1>11, <1>12 DEF IInv

Selections ==
  [curr : Apps, col : 0 .. Columns - 1, f_sele : 0 .. Field - 1, page : Nat]

(* A search or a group without an entry leaves the left panel where it is.  *)
LEMMA ShowsNothing ==
  ASSUME IInv, active = "left", aux' \in {<<>>, <<Header>>},
         kind' \in {"search", "group"}, page' \in 0 .. 5,
         kind' = "group" => \E g \in Groups : groups[g] = <<>>,
         UNCHANGED <<item_d, item_c, sel, active, groups, downloads, stale>>
  PROVE  IInv'
<1>1. Header \in Entries /\ Header.len = Header.app
  BY AppsFacts DEF Header, Entry, Entries
<1>2. aux' \in Seq(Entries) /\ Len(aux') \in 0 .. 1
  <2>1. CASE aux' = <<>>
    BY <2>1
  <2>2. CASE aux' = <<Header>>
    BY <1>1, <2>2
  <2> QED
    BY <2>1, <2>2
<1>3. Hits' \in Int /\ Hits' <= 0 /\ Hits <= 0
  <2>1. Len(aux') \in 0 .. 1 /\ Hits' = Len(aux') - 1
    BY <1>2 DEF Hits
  <2>2. Hits <= 0
    BY DEF IInv, Selected
  <2>3. Hits' \in Int /\ Hits' <= 0
    <3>1. \A n \in 0 .. 1 : n - 1 \in Int /\ n - 1 <= 0
      OBVIOUS
    <3> QED
      BY <2>1, <3>1
  <2> QED
    BY <2>2, <2>3
<1>4. TypeOK'
  <2>1. Len(aux') <= NumGames + 1
    <3>1. \A n \in 0 .. 1 : n <= NumGames + 1
      BY AppsFacts
    <3> QED
      BY <1>2, <3>1
  <2>2. /\ item_d' \in Orders /\ item_c' \in 1 .. NumGames
        /\ sel' \in Selections
        /\ groups' \in [Groups -> Seq(Entries)]
        /\ active' \in {"left", "icon", "item"}
        /\ downloads' \subseteq Apps
        /\ stale' \in BOOLEAN
    BY DEF IInv, TypeOK, Selections
  <2>3. kind' \in {"none", "search", "group", "updates"} /\ page' \in 0 .. 5
    OBVIOUS
  <2> QED
    BY ONLY <1>2, <2>1, <2>2, <2>3 DEF TypeOK, Selections
<1>5. GroupsFit'
  BY DEF IInv, GroupsFit
<1>6. Selected'
  <2>1. Hits \in Int
    BY DEF IInv, TypeOK, Hits
  <2>2. item_c = NumGames /\ ~(Hits' > 0)
    BY <1>3, <2>1 DEF IInv, Selected
  <2> QED
    BY <1>3, <2>2 DEF IInv, Selected
<1>7. SearchDenotes'
  BY <1>2 DEF SearchDenotes
<1>8. Regrouped'
  BY DEF IInv, Regrouped
<1>9. ASSUME kind' = "group"
      PROVE  \E g \in Groups : {a \in Apps : GroupOf[a] = g} = {}
  <2>1. PICK o \in Orders : groups = Grouped(o)
    BY DEF IInv, Regrouped
  <2>2. PICK g \in Groups : Grouped(o)[g] = <<>>
    BY <1>9, <2>1
  <2>3. {o[Grouped(o)[g][k].len] : k \in 1 .. Len(Grouped(o)[g])}
          = {a \in Apps : GroupOf[a] = g}
    BY GroupsExact
  <2>4. 1 .. Len(Grouped(o)[g]) = {}
    BY <2>2
  <2> QED
    BY <2>3, <2>4
<1>10. EmptyGroups'
  BY <1>9 DEF EmptyGroups
<1>11. GroupShowsItsApps'
  <2>1. 2 .. Len(aux') = {}
    <3>1. \A n \in 0 .. 1 : 2 .. n = {}
      OBVIOUS
    <3> QED
      BY <1>2, <3>1
  <2> QED
    BY <1>9, <2>1 DEF GroupShowsItsApps
<1> QED
  BY <1>4, <1>5, <1>6, <1>7, <1>8, <1>10, <1>11 DEF IInv

(* Steps that leave the order and the lists alone.                          *)
LEMMA ListsKept ==
  ASSUME IInv, UNCHANGED <<item_d, item_c, aux, kind, groups, stale>>,
         sel' \in Selections, active' \in {"left", "icon", "item"},
         page' \in 0 .. 5, downloads' \subseteq Apps,
         active' = "left" => Hits <= 0,
         active' \in {"left", "icon"} =>
           sel'.curr < item_c /\ sel'.col = sel'.curr % Columns,
         active' = "icon" /\ Hits > 0 => sel'.curr = sel'.page * Field + sel'.f_sele
  PROVE  IInv'
<1>1. Hits' = Hits
  BY DEF Hits
<1>2. TypeOK'
  BY DEF IInv, TypeOK, Selections
<1>3. GroupsFit'
  BY DEF IInv, GroupsFit
<1>4. Selected'
  BY <1>1 DEF IInv, Selected
<1>5. SearchDenotes'
  BY DEF IInv, SearchDenotes, Denotes
<1>6. Regrouped'
  BY DEF IInv, Regrouped
<1>7. GroupShowsItsApps' /\ EmptyGroups'
  BY <1>1 DEF IInv, GroupShowsItsApps, EmptyGroups
<1> QED
  BY <1>2, <1>3, <1>4, <1>5, <1>6, <1>7 DEF IInv

(* Back in the catalogue's order, on the left panel.                        *)
LEMMA ListDropped ==
  ASSUME IInv, DropList, UNCHANGED <<groups, page, downloads>>,
         active' = "left", sel' \in Selections,
         sel'.curr < NumGames, sel'.col = sel'.curr % Columns
  PROVE  IInv'
<1>1. /\ item_d' = Identity /\ item_c' = NumGames /\ kind' = "none"
      /\ aux' = <<>> /\ Len(aux') = 0 /\ aux' \in Seq(Entries)
  BY DEF DropList
<1>2. stale' \in BOOLEAN /\ (~stale' => ~stale /\ item_d = Identity)
  <2>1. stale' = (stale \/ item_d # Identity)
    BY DEF DropList
  <2> QED
    BY ONLY <2>1
<1>3. Hits' = -1
  BY <1>1 DEF Hits
<1>4. TypeOK'
  <2>1. item_d' \in Orders /\ item_c' \in 1 .. NumGames /\ Len(aux') <= NumGames + 1
    BY <1>1, AppsFacts, IdentityOrders
  <2>2. /\ groups' \in [Groups -> Seq(Entries)] /\ page' \in 0 .. 5
        /\ downloads' \subseteq Apps
    BY DEF IInv, TypeOK
  <2>3. /\ kind' \in {"none", "search", "group", "updates"}
        /\ active' \in {"left", "icon", "item"}
    BY <1>1
  <2>4. sel' \in [curr : Apps, col : 0 .. Columns - 1, f_sele : 0 .. Field - 1, page : Nat]
    BY DEF Selections
  <2>5. aux' \in Seq(Entries) /\ stale' \in BOOLEAN
    BY <1>1, <1>2
  <2> QED
    BY ONLY <2>1, <2>2, <2>3, <2>4, <2>5 DEF TypeOK
<1>5. GroupsFit'
  BY DEF IInv, GroupsFit
<1>6. Selected'
  BY <1>1, <1>3 DEF Selected
<1>7. SearchDenotes'
  BY <1>1 DEF SearchDenotes
<1>8. Regrouped'
  BY <1>1, <1>2 DEF IInv, Regrouped
<1>9. GroupShowsItsApps' /\ EmptyGroups'
  BY <1>1 DEF GroupShowsItsApps, EmptyGroups
<1> QED
  BY <1>4, <1>5, <1>6, <1>7, <1>8, <1>9 DEF IInv

(* The index behind the selected entry is that of an app.                   *)
LEMMA StoredApps ==
  ASSUME IInv PROVE Stored \subseteq Apps /\ ItemIndex \subseteq Apps
<1> DEFINE place == sel.page * Field + sel.f_sele
<1>1. place \in Nat
  <2>1. sel.page \in Nat /\ Field \in Nat /\ sel.f_sele \in Nat
    BY FieldPositive DEF IInv, TypeOK
  <2>2. sel.page * Field \in Nat
    BY <2>1
  <2> QED
    BY <2>1, <2>2
<1>2. aux \in Seq(Entries) /\ sel.curr \in Apps
  BY DEF IInv, TypeOK
<1>3. place < Hits => aux[place + 2].len \in Apps
  <2> HIDE DEF place
  <2>1. Len(aux) \in Nat /\ DOMAIN aux = 1 .. Len(aux) /\ Hits = Len(aux) - 1
    BY <1>2 DEF Hits
  <2>2. place < Hits => place + 2 \in DOMAIN aux
    BY <1>1, <2>1
  <2>3. \A k \in DOMAIN aux : aux[k] \in Entries
    BY <1>2
  <2> QED
    BY <2>2, <2>3 DEF Entries
<1>4. Stored = IF place < Hits THEN {aux[place + 2].len} ELSE Apps
  BY DEF Stored
<1> HIDE DEF place
<1>5. Stored \subseteq Apps
  BY <1>3, <1>4
<1> QED
  BY <1>2, <1>5 DEF ItemIndex

-----------------------------------------------------------------------------
(* The actions, one by one.                                                 *)
LEMMA StepSearch ==
  ASSUME IInv, NEW hits \in SUBSET Apps, Search(hits)
  PROVE  IInv'
<1> DEFINE found == {i \in Apps : i < Searched /\ item_d[i] \in hits}
           shown == IF Searched > NumGames THEN <<>> ELSE ListOf(found, item_d)
<1>1. item_d \in [Apps -> Apps] /\ found \in SUBSET Apps
  BY OrdersMap DEF IInv, TypeOK
<1>2. /\ shown \in Seq(Entries) /\ Len(shown) \in 0 .. NumGames
      /\ \A k \in DOMAIN shown :
           shown[k].len \in Apps /\ shown[k].app = item_d[shown[k].len]
  <2> HIDE DEF found
  <2>1. CASE Searched > NumGames
    <3>1. shown = <<>>
      BY <2>1
    <3>2. <<>> \in Seq(Entries) /\ Len(<<>>) = 0 /\ DOMAIN <<>> = {}
      OBVIOUS
    <3>3. 0 \in 0 .. NumGames
      BY AppsFacts
    <3> HIDE DEF shown
    <3> QED
      BY <3>1, <3>2, <3>3
  <2>2. CASE ~(Searched > NumGames)
    <3>1. shown = ListOf(found, item_d)
      BY <2>2
    <3> HIDE DEF shown
    <3> QED
      BY <1>1, <3>1, Listed
  <2> QED
    BY <2>1, <2>2
<1>3. /\ active = "left"
      /\ IF shown # <<>>
         THEN ShowList(shown, "search") /\ UNCHANGED page
         ELSE /\ aux' = IF Searched > NumGames THEN <<>> ELSE <<Header>>
              /\ kind' = "search"
              /\ \E position \in 0 .. 2 : page' = FallThrough(page, position)
              /\ UNCHANGED <<item_c, sel, active>>
      /\ UNCHANGED <<item_d, groups, downloads, stale>>
  BY DEF Search
<1> HIDE DEF found, shown
<1>4. PICK list \in Seq(Entries) : list = shown
  BY <1>2
<1>5. CASE shown # <<>>
  <2>1. Len(list) \in 1 .. NumGames
    BY <1>2, <1>4, <1>5
  <2>3. ShowList(list, "search") /\ UNCHANGED <<item_d, groups, page, downloads, stale>>
    BY <1>3, <1>4, <1>5
  <2>4. \A k \in DOMAIN list : list[k].app = item_d[list[k].len]
    BY <1>2, <1>4
  <2> QED
    BY <2>1, <2>3, <2>4, ShowsList
<1>6. CASE shown = <<>>
  <2>1. page' \in 0 .. 5
    BY <1>3, <1>6 DEF FallThrough, IInv, TypeOK
  <2> QED
    BY <1>3, <1>6, <2>1, ShowsNothing
<1> QED
  BY <1>5, <1>6

LEMMA StepShowGroup ==
  ASSUME IInv, NEW g \in Groups, ShowGroup(g)
  PROVE  IInv'
<1>1. groups[g] \in Seq(Entries) /\ Len(groups[g]) <= NumGames
  BY DEF IInv, TypeOK, GroupsFit
<1>2. PICK list \in Seq(Entries) : list = groups[g]
  BY <1>1
<1>3. CASE groups[g] # <<>>
  <2>1. Len(list) \in 1 .. NumGames
    <3>1. list \in Seq(Entries) /\ list # <<>> /\ Len(list) <= NumGames
      BY <1>1, <1>2, <1>3
    <3> QED
      BY ONLY <3>1, AppsFacts
  <2>2. /\ ShowList(list, "group")
        /\ \E h \in Groups : list = groups[h]
        /\ UNCHANGED <<item_d, groups, page, downloads, stale>>
    BY <1>1, <1>2, <1>3 DEF ShowGroup
  <2> QED
    BY <2>1, <2>2, ShowsList
<1>4. CASE groups[g] = <<>>
  <2>1. page' \in 0 .. 5
    BY <1>4 DEF ShowGroup, FallThrough, IInv, TypeOK
  <2> QED
    BY <1>4, <2>1, ShowsNothing DEF ShowGroup
<1> QED
  BY <1>3, <1>4

LEMMA StepShowUpdates ==
  ASSUME IInv, NEW found \in SUBSET Apps, ShowUpdates(found)
  PROVE  IInv'
<1> DEFINE list == ListOf(found, Identity)
           n    == Cardinality(found)
<1>1. /\ list \in Seq(Entries) /\ Len(list) = n /\ n \in 0 .. NumGames
  BY IdentityOrders, Listed
<1>2. n = 0 <=> found = {}
  <2>1. IsFiniteSet(Apps)
    BY CatalogAssumption, FS_Interval DEF Apps
  <2>2. IsFiniteSet(found)
    BY <2>1, FS_Subset
  <2> QED
    BY <2>2, FS_EmptySet
<1>3. /\ aux' = <<Header>> \o list /\ kind' = "updates" /\ active' = "icon"
      /\ item_c' = IF found = {} THEN item_c ELSE Len(aux') - 1
      /\ sel' = Select(0, item_c')
      /\ UNCHANGED <<item_d, groups, page, downloads, stale>>
      /\ active = "left"
  BY DEF ShowUpdates
<1> HIDE DEF list, n
<1>4. aux' \in Seq(Entries) /\ Len(aux') = n + 1
  BY <1>1, <1>3, Headed
<1>5. item_c = NumGames
  <2>1. Hits \in Int
    BY DEF IInv, TypeOK, Hits
  <2> QED
    BY <1>3, <2>1 DEF IInv, Selected
<1>6. Hits' = n /\ item_c' = (IF n > 0 THEN n ELSE NumGames)
  BY <1>1, <1>2, <1>3, <1>4, <1>5 DEF Hits
<1>7. item_c' \in 1 .. NumGames /\ Len(aux') <= NumGames + 1
  <2>1. n \in Nat /\ n <= NumGames /\ n + 1 <= NumGames + 1
    BY <1>1, AppsFacts
  <2>2. (IF n > 0 THEN n ELSE NumGames) \in 1 .. NumGames
    BY <2>1, AppsFacts
  <2> QED
    BY <1>4, <1>6, <2>1, <2>2
<1>8. /\ sel' \in Selections /\ sel'.curr < item_c'
      /\ sel'.col = sel'.curr % Columns
      /\ sel'.curr = sel'.page * Field + sel'.f_sele
  <2>1. PICK m \in 1 .. NumGames : m = item_c'
    BY <1>7
  <2>2. sel' = Select(0, m) /\ 0 \in Int
    BY <1>3, <2>1
  <2> QED
    BY <2>1, <2>2, SelectsWithin DEF Selections
<1>9. TypeOK'
  BY <1>3, <1>4, <1>7, <1>8 DEF IInv, TypeOK, Selections
<1>10. GroupsFit'
  BY <1>3 DEF IInv, GroupsFit
<1>11. Selected'
  BY <1>3, <1>6, <1>8 DEF Selected
<1>12. SearchDenotes'
  BY <1>3 DEF SearchDenotes
<1>13. Regrouped'
  BY <1>3 DEF IInv, Regrouped
<1>14. GroupShowsItsApps' /\ EmptyGroups'
  BY <1>3 DEF GroupShowsItsApps, EmptyGroups
<1> QED
  BY <1>9, <1>10, <1>11, <1>12, <1>13, <1>14 DEF IInv

LEMMA StepSort ==
  ASSUME IInv, NEW order \in Orders, Sort(order)
  PROVE  IInv'
<1>1. /\ item_d' = order /\ groups' = Grouped(order) /\ sel' = Select(0, item_c)
      /\ active' = "icon" /\ stale' = FALSE /\ active = "left"
      /\ UNCHANGED <<item_c, aux, kind, page, downloads>>
  BY DEF Sort
<1>2. /\ groups' \in [Groups -> Seq(Entries)]
      /\ \A g \in Groups : Len(groups'[g]) <= NumGames
  BY <1>1, OrdersMap, GroupsListed
<1>3. /\ Hits' = Hits /\ Hits \in Int /\ Hits <= 0 /\ item_c = NumGames
      /\ Len(aux) = Hits + 1 /\ Len(aux) \in Nat
  <2>1. Hits \in Int /\ Len(aux) = Hits + 1 /\ Len(aux) \in Nat
    BY DEF IInv, TypeOK, Hits
  <2>2. Hits <= 0
    BY <1>1 DEF IInv, Selected
  <2>3. item_c = NumGames
    BY <2>1, <2>2 DEF IInv, Selected
  <2>4. Hits' = Hits
    BY <1>1 DEF Hits
  <2> QED
    BY <2>1, <2>2, <2>3, <2>4
<1>4. /\ sel' \in Selections /\ sel'.curr < item_c
      /\ sel'.col = sel'.curr % Columns
  BY <1>1, <1>3, AppsFacts, SelectsWithin DEF Selections
<1>5. TypeOK'
  BY <1>1, <1>2, <1>4 DEF IInv, TypeOK, Selections
<1>6. GroupsFit'
  BY <1>2 DEF GroupsFit
<1>7. Selected'
  BY <1>1, <1>3, <1>4 DEF Selected
<1>8. SearchDenotes'
  <2>1. 2 .. Len(aux) = {}
    BY <1>3
  <2> QED
    BY <1>1, <2>1 DEF SearchDenotes
<1>9. Regrouped'
  BY <1>1 DEF Regrouped
<1>10. EmptyGroups'
  BY <1>1, <1>3 DEF IInv, EmptyGroups
<1>11. GroupShowsItsApps'
  <2>1. 2 .. Len(aux) = {}
    BY <1>3
  <2>2. kind = "group" => \E g \in Groups : {a \in Apps : GroupOf[a] = g} = {}
    BY <1>3 DEF IInv, EmptyGroups
  <2> QED
    BY <1>1, <2>1, <2>2 DEF GroupShowsItsApps
<1> QED
  BY <1>5, <1>6, <1>7, <1>8, <1>9, <1>10, <1>11 DEF IInv

LEMMA StepLeaveLeft ==
  ASSUME IInv, LeaveLeft
  PROVE  IInv'
<1>1. /\ active = "icon" /\ sel.col = 0 /\ DropList /\ active' = "left"
      /\ sel' = [sel EXCEPT !.curr = 0]
      /\ UNCHANGED <<groups, page, downloads>>
  BY DEF LeaveLeft
<1>2. sel \in Selections
  BY DEF IInv, TypeOK, Selections
<1>3. sel' \in Selections /\ sel'.curr = 0 /\ sel'.col = 0
  BY <1>1, <1>2, AppsFacts DEF Selections
<1>4. 0 < NumGames /\ 0 = 0 % Columns
  <2>1. 0 \div Columns \in Nat /\ 0 % Columns \in 0 .. Columns - 1
        /\ 0 = (0 \div Columns) * Columns + (0 % Columns)
    BY FieldPositive, Divides
  <2> QED
    BY <2>1, FieldPositive, AppsFacts
<1> QED
  BY <1>1, <1>3, <1>4, ListDropped

LEMMA StepBackToLeft ==
  ASSUME IInv, BackToLeft
  PROVE  IInv'
<1>1. /\ active' = "left"
      /\ sel' = Select(IF active = "icon" THEN 0 ELSE sel.curr, item_c')
      /\ IF aux # <<>> THEN DropList ELSE UNCHANGED <<item_d, item_c, aux, kind, stale>>
      /\ UNCHANGED <<groups, page, downloads>>
  BY DEF BackToLeft
<1>2. item_c' = NumGames /\ (aux = <<>> => Hits <= 0)
  <2>1. CASE aux # <<>>
    BY <1>1, <2>1 DEF DropList
  <2>2. CASE aux = <<>>
    <3>1. Hits = -1
      BY <2>2 DEF Hits
    <3> QED
      BY <1>1, <2>2, <3>1 DEF IInv, Selected
  <2> QED
    BY <2>1, <2>2
<1>3. (IF active = "icon" THEN 0 ELSE sel.curr) \in Int
  BY AppsFacts DEF IInv, TypeOK
<1>4. /\ sel' \in Selections /\ sel'.curr < NumGames
      /\ sel'.col = sel'.curr % Columns
  BY <1>1, <1>2, <1>3, AppsFacts, SelectsWithin DEF Selections
<1>5. CASE aux # <<>>
  BY <1>1, <1>4, <1>5, ListDropped
<1>6. CASE aux = <<>>
  <2>1. page' \in 0 .. 5 /\ downloads' \subseteq Apps
    BY <1>1 DEF IInv, TypeOK
  <2>2. item_c = NumGames
    BY <1>1, <1>2, <1>6
  <2> QED
    BY <1>1, <1>2, <1>4, <1>6, <2>1, <2>2, ListsKept
<1> QED
  BY <1>5, <1>6

LEMMA StepLeftPanel ==
  ASSUME IInv, TurnPage \/ OpenGames
  PROVE  IInv'
<1>1. /\ active = "left" /\ active' \in {"left", "icon"} /\ page' \in 0 .. 5
      /\ UNCHANGED <<item_d, item_c, sel, aux, kind, groups, downloads, stale>>
  <2>1. CASE TurnPage
    BY <2>1 DEF TurnPage, listVars
  <2>2. CASE OpenGames
    BY <2>2 DEF OpenGames, listVars
  <2> QED
    BY <2>1, <2>2
<1>2. /\ sel \in Selections /\ downloads \subseteq Apps
      /\ Hits \in Int
  BY DEF IInv, TypeOK, Selections, Hits
<1>3. Hits <= 0 /\ sel.curr < item_c /\ sel.col = sel.curr % Columns
  BY <1>1 DEF IInv, Selected
<1> QED
  BY <1>1, <1>2, <1>3, ListsKept

LEMMA StepMove ==
  ASSUME IInv, NEW m \in {-1, 1, -Columns, Columns}, Move(m)
  PROVE  IInv'
<1>1. /\ active = "icon" /\ active' = "icon" /\ sel' = Select(sel.curr + m, item_c)
      /\ UNCHANGED <<item_d, item_c, aux, kind, groups, page, downloads, stale>>
  BY DEF Move
<1>2. /\ page \in 0 .. 5 /\ downloads \subseteq Apps
      /\ item_c \in 1 .. NumGames /\ sel.curr \in Nat
  BY AppsFacts DEF IInv, TypeOK
<1>3. sel.curr + m \in Int
  BY <1>2, FieldPositive
<1>4. /\ sel' \in Selections /\ sel'.curr < item_c
      /\ sel'.col = sel'.curr % Columns
      /\ sel'.curr = sel'.page * Field + sel'.f_sele
  BY <1>1, <1>2, <1>3, SelectsWithin DEF Selections
<1> QED
  BY <1>1, <1>2, <1>4, ListsKept

LEMMA StepOpenItem ==
  ASSUME IInv, OpenItem
  PROVE  IInv'
<1>1. /\ active' = "item"
      /\ UNCHANGED <<item_d, item_c, aux, kind, groups, page, downloads, stale>>
  BY DEF OpenItem
<1>2. PICK i \in Apps : sel' = [sel EXCEPT !.curr = i]
  BY StoredApps DEF OpenItem, IInv, TypeOK
<1>3. /\ page \in 0 .. 5 /\ downloads \subseteq Apps
      /\ sel' \in Selections
  BY <1>2 DEF IInv, TypeOK, Selections
<1> QED
  BY <1>1, <1>3, ListsKept

LEMMA StepOpenQueued ==
  ASSUME IInv, NEW d \in downloads, OpenQueued(d)
  PROVE  IInv'
<1>1. /\ active' = "item" /\ sel' = Select(d, item_c)
      /\ UNCHANGED <<item_d, item_c, aux, kind, groups, page, downloads, stale>>
  BY DEF OpenQueued
<1>2. /\ page \in 0 .. 5 /\ downloads \subseteq Apps
      /\ item_c \in 1 .. NumGames /\ d \in Int
  BY AppsFacts DEF IInv, TypeOK
<1>3. sel' \in Selections
  BY <1>1, <1>2, SelectsWithin DEF Selections
<1> QED
  BY <1>1, <1>2, <1>3, ListsKept

LEMMA StepDownload ==
  ASSUME IInv, Download
  PROVE  IInv'
<1>1. /\ active = "item" /\ UNCHANGED <<listVars, groups, active, page, stale>>
  BY DEF Download
<1>2. PICK i \in Apps : downloads' = downloads \cup {i}
  BY StoredApps DEF Download
<1>3. /\ page \in 0 .. 5 /\ downloads \subseteq Apps
      /\ item_d[i] \in Apps /\ sel \in Selections
  BY OrdersMap DEF IInv, TypeOK, Selections
<1>4. downloads' \subseteq Apps
  BY <1>2, <1>3
<1> QED
  BY <1>1, <1>3, <1>4, ListsKept DEF listVars

(* Steps that leave all that is shown alone.                                *)
LEMMA StepBeside ==
  ASSUME IInv, UNCHANGED <<listVars, groups, active, page, stale>>,
         downloads' \subseteq downloads
  PROVE  IInv'
<1>1. /\ page \in 0 .. 5 /\ downloads' \subseteq Apps
      /\ active \in {"left", "icon", "item"} /\ sel \in Selections
  BY DEF IInv, TypeOK, Selections
<1>2. /\ active = "left" => Hits <= 0
      /\ active \in {"left", "icon"} =>
           sel.curr < item_c /\ sel.col = sel.curr % Columns
      /\ active = "icon" /\ Hits > 0 => sel.curr = sel.page * Field + sel.f_sele
  BY DEF IInv, Selected
<1> QED
  BY <1>1, <1>2, ListsKept DEF listVars

LEMMA StepIInv == IInv /\ [Next]_vars => IInv'
<1> SUFFICES ASSUME IInv, [Next]_vars PROVE IInv'
  OBVIOUS
<1>1. CASE TurnPage \/ OpenGames
  BY <1>1, StepLeftPanel
<1>2. CASE \E hits \in SUBSET Apps : Search(hits)
  BY <1>2, StepSearch
<1>3. CASE \E g \in Groups : ShowGroup(g)
  BY <1>3, StepShowGroup
<1>4. CASE \E found \in SUBSET Apps : ShowUpdates(found)
  BY <1>4, StepShowUpdates
<1>5. CASE \E order \in Orders : Sort(order)
  BY <1>5, StepSort
<1>6. CASE LeaveLeft
  BY <1>6, StepLeaveLeft
<1>7. CASE \E m \in {-1, 1, -Columns, Columns} : Move(m)
  BY <1>7, StepMove
<1>8. CASE OpenItem
  BY <1>8, StepOpenItem
<1>9. CASE \E d \in downloads : OpenQueued(d)
  <2>1. PICK e : e \in downloads /\ OpenQueued(e)
    BY <1>9
  <2> QED
    BY <2>1, StepOpenQueued
<1>10. CASE \E d \in downloads : EndDownload(d)
  <2>1. PICK e : e \in downloads /\ EndDownload(e)
    BY <1>10
  <2> QED
    BY <2>1, StepBeside DEF EndDownload
<1>11. CASE BackToLeft
  BY <1>11, StepBackToLeft
<1>12. CASE Download
  BY <1>12, StepDownload
<1>13. CASE UNCHANGED vars
  BY <1>13, StepBeside DEF vars
<1> QED
  BY <1>1, <1>2, <1>3, <1>4, <1>5, <1>6, <1>7, <1>8, <1>9, <1>10, <1>11,
     <1>12, <1>13 DEF Next

LEMMA AlwaysIInv == Spec => []IInv
  BY InitIInv, StepIInv, PTL DEF Spec

-----------------------------------------------------------------------------
(* The catalogue's state keeps its type: in particular every index that is  *)
(* stored in a list, a group, the selection or a download is that of an app *)
(* (layout_update_sele, search_item_t, analyze_item_t_v2).                  *)
THEOREM CatalogTyped == Spec => []TypeOK
<1>1. IInv => TypeOK
  BY DEF IInv
<1> QED
  BY <1>1, AlwaysIInv, PTL

(* What is selected is what is shown, whatever lists come and go            *)
(* (layout_update_sele, layout_dispatch_X, layout_dispatch_O).              *)
THEOREM SelectionStaysShown == Spec => []SelectionShown
<1>1. IInv => SelectionShown
  BY DEF IInv, Selected, SelectionShown
<1> QED
  BY <1>1, AlwaysIInv, PTL

(* A search result leads to the app it was found for, in any order of the   *)
(* catalogue (search_item_t).                                               *)
THEOREM SearchAlwaysDenotes == Spec => []SearchDenotes
<1>1. IInv => SearchDenotes
  BY DEF IInv
<1> QED
  BY <1>1, AlwaysIInv, PTL

(* A group's list shows the apps of that group, all of them and no other,   *)
(* however often the catalogue was sorted, as long as no list was dropped   *)
(* since the last sort (analyze_item_t_v2, recreate_item_t, and Groups in   *)
(* layout_dispatch_X).                                                      *)
THEOREM GroupsShowTheirApps == Spec => []GroupShowsItsApps
<1>1. IInv => GroupShowsItsApps
  BY DEF IInv
<1> QED
  BY <1>1, AlwaysIInv, PTL

(* Both lists of positions lead to what they were made for.                 *)
THEOREM ListsAlwaysDenote == Spec => []ListsDenote
<1>1. SearchDenotes /\ GroupShowsItsApps => ListsDenote
  BY DEF ListsDenote
<1> QED
  BY <1>1, SearchAlwaysDenotes, GroupsShowTheirApps, PTL
=============================================================================
