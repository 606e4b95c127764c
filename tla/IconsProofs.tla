---------------------------- MODULE IconsProofs ----------------------------
(***************************************************************************)
(* Theorems about Icons, for any catalogue, page, margin, set of preloaded *)
(* pictures and result lists.                                               *)
(***************************************************************************)
EXTENDS Icons, FiniteSetTheorems, TLAPS

(* What a step finds: an item at every position, ... *)
ItemsTyped == item_d \in [Pos -> Item]

(* ... a list and a page of it, ... *)
ListTyped ==
  /\ aux \in Lists \cup {<<>>}
  /\ curr \in Pos /\ page \in Nat /\ fresh \in Nat
  /\ active # "item" => curr < Count

(* ... and loaders that have a position as long as they are in a call. *)
Called(l) == l \in Loader /\ (l.pc \in {"check", "fetch", "load"} => l.todo # <<>>)

CallsTyped ==
  /\ loader = [t \in {"thread", "view"} |-> loader[t]]
  /\ \A t \in {"thread", "view"} : Called(loader[t])

Typed == ItemsTyped /\ ListTyped /\ CallsTyped

(* The item of a preloaded app shows the texture games has too and is not  *)
(* marked; that of any other app never shows such a texture.               *)
Sound(it) ==
  IF it.app \in Preloaded THEN it.tex = "pre" /\ ~it.loaded ELSE it.tex # "pre"

(* So nothing that is deleted is shared, and no picture that is fetched is *)
(* a preloaded one: the mark a download leaves falls on another item.      *)
Shared ==
  /\ alive = Preloaded
  /\ \A p \in Pos : Sound(item_d[p])
  /\ \A t \in {"thread", "view"} : loader[t].pc = "fetch" => loader[t].app \notin Preloaded

IInv == Typed /\ (crossed \/ Shared)

-----------------------------------------------------------------------------
(* The cases of check_n_load_texture keep an item's app and its soundness. *)

Kept(it, new) == new \in Item /\ new.app = it.app /\ (Sound(it) => Sound(new))

LEMMA DefaultKeeps == ASSUME NEW it \in Item PROVE Kept(it, Default(it))
  BY DEF Kept, Sound, Item, Default

LEMMA LoadAnyKeeps == ASSUME NEW it \in Item, NEW f PROVE Kept(it, LoadAny(it, f))
  BY DEF Kept, Sound, Item, LoadAny, Loads

LEMMA LoadPngKeeps == ASSUME NEW it \in Item, NEW f PROVE Kept(it, LoadPng(it, f))
<1>1. CASE Downloaded(it)
  BY <1>1 DEF Kept, Sound, Item, LoadPng, Downloaded, Wanted
<1>2. CASE ~Downloaded(it)
  BY <1>2, LoadAnyKeeps DEF LoadPng
<1> QED
  BY <1>1, <1>2

LEMMA KeepsKeeps == ASSUME NEW it \in Item, NEW f PROVE Kept(it, Keeps(it, f))
<1>1. CASE Wanted(it)
  BY <1>1 DEF Kept, Sound, Item, Keeps, Wanted
<1>2. CASE ~Wanted(it)
  BY <1>2, LoadAnyKeeps DEF Keeps
<1> QED
  BY <1>1, <1>2

(* A download's result, if it falls on an app that was not preloaded. *)
LEMMA FetchedKeeps ==
  ASSUME NEW it \in Item, NEW ok, NEW f
  PROVE  /\ Fetched(it, ok, f) \in Item
         /\ Fetched(it, ok, f).app = it.app
         /\ it.app \notin Preloaded /\ Sound(it) => Sound(Fetched(it, ok, f))
  BY DEF Fetched, Sound, Item

LEMMA WantedIsOther == ASSUME NEW it \in Item, Wanted(it), Sound(it) PROVE it.app \notin Preloaded
  BY DEF Wanted, Sound

LEMMA DrawnKeeps == ASSUME NEW it \in Item, NEW f, NEW o PROVE Kept(it, Drawn(it, f, o).item)
<1> DEFINE fetches == Serves /\ Asks(it) /\ NeedsFetch(it, f)
           g       == IF fetches THEN o.file ELSE f
           loaded  == IF fetches THEN Fetched(it, o.ok, g) ELSE Keeps(it, f)
           ready   == IF Serves /\ Asks(it) THEN LoadPng(loaded, g)
                      ELSE IF is_sort_panel THEN it ELSE LoadPng(it, f)
<1>1. Kept(it, loaded)
  <2>1. CASE fetches
    BY <2>1, FetchedKeeps, WantedIsOther DEF Kept, NeedsFetch
  <2>2. CASE ~fetches
    BY <2>2, KeepsKeeps
  <2> QED
    BY <2>1, <2>2
<1>2. Kept(it, ready)
  <2>1. Kept(loaded, LoadPng(loaded, g)) /\ Kept(it, LoadPng(it, f))
    BY <1>1, LoadPngKeeps DEF Kept
  <2> HIDE DEF loaded, g, fetches
  <2>2. Kept(it, LoadPng(loaded, g)) /\ Kept(it, it)
    BY <1>1, <2>1 DEF Kept
  <2> QED
    BY <2>1, <2>2
<1>3. Kept(ready, LoadAny(ready, g))
  BY <1>2, LoadAnyKeeps DEF Kept
<1>4. Drawn(it, f, o).item = LoadAny(ready, g)
  BY DEF Drawn
<1> HIDE DEF ready, g, loaded, fetches
<1> QED
  BY <1>2, <1>3, <1>4 DEF Kept

-----------------------------------------------------------------------------
(* Pages and positions. *)

LEMMA PageNat == ASSUME NEW i \in Nat PROVE i \div FieldSize \in Nat
  BY IconsAssumption

LEMMA CountNat == ListTyped => Count \in Nat /\ 0 < Count /\ Count <= NumApps
<1> SUFFICES ASSUME ListTyped PROVE Count \in Nat /\ 0 < Count /\ Count <= NumApps
  OBVIOUS
<1>1. CASE aux = <<>>
  BY <1>1, IconsAssumption DEF Count
<1>2. CASE aux # <<>>
  <2>1. aux \in Seq(Pos) /\ aux # <<>> /\ Len(aux) <= NumApps
    BY <1>2, IconsAssumption DEF ListTyped
  <2> QED
    BY <1>2, <2>1 DEF Count
<1> QED
  BY <1>1, <1>2

LEMMA GidxNat == ListTyped => g_idx \in Nat
  BY IconsAssumption DEF ListTyped, g_idx

LEMMA ShownInPos == ListTyped => Shown \subseteq Pos
<1> SUFFICES ASSUME ListTyped PROVE Shown \subseteq Pos
  OBVIOUS
<1>1. g_idx \in Nat /\ Count \in Nat /\ Count <= NumApps /\ NumApps \in Nat /\ FieldSize \in Nat
  BY GidxNat, CountNat, IconsAssumption
<1>2. ASSUME NEW i \in 0 .. f_size - 1 PROVE g_idx + i \in Nat /\ g_idx + i < Count
  BY <1>1, <1>2 DEF f_size
<1>3. CASE aux = <<>>
  BY <1>1, <1>2, <1>3 DEF Shown, Pos
<1>4. CASE aux # <<>>
  <2>1. aux \in Seq(Pos) /\ Count = Len(aux)
    BY <1>4, IconsAssumption DEF ListTyped, Count
  <2>2. ASSUME NEW i \in 0 .. f_size - 1 PROVE aux[g_idx + i + 1] \in Pos
    BY <1>1, <1>2, <2>1
  <2> QED
    BY <1>4, <2>2 DEF Shown
<1> QED
  BY <1>3, <1>4

LEMMA GamesSound ==
  Games \in [Pos -> Item] /\ \A p \in Pos : Games[p].app = p /\ Sound(Games[p])
  BY DEF Games, Item, Sound

(* One item changes and a loader that is not in a download. *)
LEMMA OneItemChanges ==
  ASSUME NEW p \in Pos, NEW new, item_d \in [Pos -> Item], Sound(item_d[p]) => Sound(new),
         item_d' = [item_d EXCEPT ![p] = new], alive' = alive,
         NEW t \in {"thread", "view"}, NEW l, l.pc # "fetch",
         loader = [u \in {"thread", "view"} |-> loader[u]],
         loader' = [loader EXCEPT ![t] = l], Shared
  PROVE  Shared'
<1>1. \A q \in Pos : Sound(item_d'[q])
  BY DEF Shared
<1>2. \A u \in {"thread", "view"} : loader'[u].pc = "fetch" => loader'[u] = loader[u]
  OBVIOUS
<1> QED
  BY <1>1, <1>2 DEF Shared, Sound

(* A step that leaves items and loaders alone. *)
LEMMA SharedStays ==
  ASSUME UNCHANGED <<item_d, alive, loader>>, Shared
  PROVE  Shared'
  BY DEF Shared, Sound

-----------------------------------------------------------------------------
(* Loaders. *)

LEMMA CallAt ==
  ASSUME Typed, NEW t \in {"thread", "view"}, loader[t].pc \in {"check", "fetch", "load"}
  PROVE  /\ loader[t].todo \in Seq(Pos) /\ loader[t].todo # <<>>
         /\ Position(t) \in Pos /\ item_d[Position(t)] \in Item
         /\ item_d[Position(t)].app \in Pos
  BY DEF Typed, ItemsTyped, CallsTyped, Called, Loader, Position, Item

LEMMA ReturnedCalled ==
  ASSUME Typed, NEW t \in {"thread", "view"}, loader[t].pc \in {"check", "fetch"}
  PROVE  Called(Returned(t)) /\ Returned(t).pc # "fetch"
<1>1. loader[t].todo \in Seq(Pos) /\ loader[t].todo # <<>> /\ loader[t] \in Loader
  BY CallAt DEF Typed, CallsTyped, Called
<1>p. 0 \in Pos
  BY IconsAssumption DEF Pos
<1>2. CASE t = "view"
  BY <1>1, <1>2, <1>p DEF Returned, Called, Loader
<1>3. CASE t # "view"
  <2>1. Tail(loader[t].todo) \in Seq(Pos)
    BY <1>1
  <2>2. Len(loader[t].todo) # 1 => Tail(loader[t].todo) # <<>>
    <3> DEFINE s == loader[t].todo
    <3>1. s \in Seq(Pos) /\ s # <<>>
      BY <1>1
    <3> HIDE DEF s
    <3>2. Len(Tail(s)) = Len(s) - 1 /\ Len(s) \in Nat /\ Len(s) # 0
      BY <3>1
    <3>3. Len(s) # 1 => Len(Tail(s)) # 0
      BY <3>2
    <3>4. Len(<<>>) = 0
      OBVIOUS
    <3>5. Len(s) # 1 => Tail(s) # <<>>
      BY <3>3, <3>4, Zenon
    <3> QED
      BY <3>5 DEF s
  <2> QED
    BY <1>3, <1>p, <2>1, <2>2 DEF Returned, Called, Loader
<1> QED
  BY <1>2, <1>3

LEMMA OneCallChanges ==
  ASSUME CallsTyped, NEW t \in {"thread", "view"}, NEW l, Called(l),
         loader' = [loader EXCEPT ![t] = l]
  PROVE  CallsTyped'
  BY DEF CallsTyped, Called

LEMMA ListStays ==
  ASSUME ListTyped, UNCHANGED <<aux, curr, page, fresh, active>>
  PROVE  ListTyped'
  BY DEF ListTyped, Count

-----------------------------------------------------------------------------
(* The invariant, action by action. *)

LEMMA InitInv == Init => IInv
<1> SUFFICES ASSUME Init PROVE IInv
  OBVIOUS
<1>1. Typed
  BY GamesSound, IconsAssumption DEF Init, Typed, ItemsTyped, ListTyped, CallsTyped, Called,
     Count, Off, Loader, Pos
<1>2. Shared
  BY GamesSound DEF Init, Shared, Off
<1> QED
  BY <1>1, <1>2 DEF IInv

(* check_n_load_texture, up to its download. *)
LEMMA CheckInv ==
  ASSUME Typed, NEW t \in {"thread", "view"}, Check(t)
  PROVE  Typed' /\ (Shared => Shared')
<1> DEFINE p == Position(t)
           a == item_d[p].app
<1>1. /\ loader[t].pc = "check" /\ loader[t] \in Loader /\ loader[t].todo # <<>>
      /\ p \in Pos /\ item_d[p] \in Item /\ a \in Pos
      /\ item_d \in [Pos -> Item] /\ CallsTyped
  BY CallAt DEF Check, Typed, ItemsTyped, CallsTyped, Called
<1>2. ListTyped'
  BY ListStays DEF Check, Typed, listVars, viewVars
<1>3. alive' = alive
  BY DEF Check
<1>4. CASE NeedsFetch(item_d[p], file[a])
  <2> DEFINE l == [pc |-> "fetch", todo |-> loader[t].todo, app |-> a]
  <2>1. item_d' = item_d
    BY <1>4 DEF Check
  <2>2. loader' = [loader EXCEPT ![t] = l]
    BY <1>4 DEF Check
  <2>3. Called(l)
    BY <1>1 DEF Called, Loader
  <2>4. Typed'
    <3> HIDE DEF l
    <3>1. CallsTyped'
      BY <1>1, <2>2, <2>3, OneCallChanges
    <3> QED
      BY <1>1, <1>2, <2>1, <3>1 DEF Typed, ItemsTyped
  <2>5. Shared => a \notin Preloaded
    BY <1>1, <1>4, WantedIsOther DEF Shared, NeedsFetch
  <2>6. Shared => Shared'
    BY <1>1, <1>3, <2>1, <2>2, <2>5 DEF Shared, Sound, CallsTyped
  <2> QED
    BY <2>4, <2>6
<1>5. CASE ~NeedsFetch(item_d[p], file[a])
  <2> DEFINE new == Keeps(item_d[p], file[a])
  <2>1. item_d' = [item_d EXCEPT ![p] = new] /\ loader' = [loader EXCEPT ![t] = Returned(t)]
    BY <1>5 DEF Check
  <2>2. Kept(item_d[p], new)
    BY <1>1, KeepsKeeps
  <2>3. Called(Returned(t)) /\ Returned(t).pc # "fetch"
    BY <1>1, ReturnedCalled
  <2> HIDE DEF new, p
  <2>4. Typed'
    <3>1. CallsTyped'
      BY <1>1, <2>1, <2>3, OneCallChanges
    <3> QED
      BY <1>1, <1>2, <2>1, <2>2, <3>1 DEF Typed, ItemsTyped, Kept
  <2>5. Shared => Shared'
    <3>1. loader = [u \in {"thread", "view"} |-> loader[u]]
      BY <1>1 DEF CallsTyped
    <3>2. Sound(item_d[p]) => Sound(new)
      BY <2>2 DEF Kept
    <3> DEFINE l == Returned(t)
    <3>3. l.pc # "fetch" /\ loader' = [loader EXCEPT ![t] = l]
      BY <2>1, <2>3
    <3> HIDE DEF l
    <3>4. p \in Pos /\ item_d \in [Pos -> Item] /\ item_d' = [item_d EXCEPT ![p] = new]
      BY <1>1, <2>1
    <3> QED
      BY ONLY <1>3, <3>1, <3>2, <3>3, <3>4, t \in {"thread", "view"}, OneItemChanges
  <2> QED
    BY <2>4, <2>5
<1> QED
  BY <1>4, <1>5

(* The end of a download, on the item that is at the position now. *)
LEMMA FetchEndsInv ==
  ASSUME Typed, NEW t \in {"thread", "view"}, FetchEnds(t)
  PROVE  Typed' /\ (Shared => crossed' \/ Shared')
<1> DEFINE p == Position(t)
           a == loader[t].app
           l == Returned(t)
<1>1. /\ loader[t].pc = "fetch" /\ p \in Pos /\ item_d[p] \in Item
      /\ item_d \in [Pos -> Item] /\ CallsTyped
  BY CallAt DEF FetchEnds, Typed, ItemsTyped
<1>2. ListTyped'
  BY ListStays DEF FetchEnds, Typed, listVars, viewVars
<1>3. alive' = alive /\ crossed' = (crossed \/ item_d[p].app # a)
  BY DEF FetchEnds
<1>4. PICK ok, f : item_d' = [item_d EXCEPT ![p] = Fetched(item_d[p], ok, f)]
  BY <1>1 DEF FetchEnds
<1>5. Called(l) /\ l.pc # "fetch" /\ loader' = [loader EXCEPT ![t] = l]
  BY <1>1, ReturnedCalled DEF FetchEnds
<1>a. CallsTyped'
  <2> HIDE DEF l
  <2> QED
    BY <1>1, <1>5, OneCallChanges
<1> DEFINE new == Fetched(item_d[p], ok, f)
<1>6. /\ new \in Item
      /\ item_d[p].app \notin Preloaded /\ Sound(item_d[p]) => Sound(new)
  BY <1>1, FetchedKeeps
<1>7. Typed'
  <2> HIDE DEF new, p
  <2> QED
    BY <1>1, <1>2, <1>4, <1>6, <1>a DEF Typed, ItemsTyped, new
<1>8. ASSUME Shared, item_d[p].app = a PROVE Shared'
  <2>1. Sound(item_d[p]) => Sound(new)
    BY <1>1, <1>6, <1>8 DEF Shared
  <2>2. loader = [u \in {"thread", "view"} |-> loader[u]]
    BY <1>1 DEF CallsTyped
  <2> HIDE DEF new, p, l
  <2>3. item_d' = [item_d EXCEPT ![p] = new] /\ p \in Pos /\ item_d \in [Pos -> Item]
    BY <1>1, <1>4 DEF new
  <2> QED
    BY ONLY <2>1, <2>2, <2>3, <1>3, <1>5, <1>8, t \in {"thread", "view"}, OneItemChanges
<1> QED
  BY <1>3, <1>7, <1>8

(* A loader starts or goes on, and nothing else of the invariant changes. *)
LEMMA LoaderMoves ==
  ASSUME Typed, NEW t \in {"thread", "view"}, NEW l, Called(l), l.pc # "fetch",
         loader' = [loader EXCEPT ![t] = l],
         UNCHANGED <<item_d, alive, aux, curr, page, active>>, fresh' \in Nat
  PROVE  Typed' /\ (Shared => Shared')
<1>1. ListTyped'
  BY DEF Typed, ListTyped, Count
<1>2. CallsTyped'
  BY OneCallChanges DEF Typed
<1>3. Typed'
  BY <1>1, <1>2 DEF Typed, ItemsTyped
<1>4. Shared => Shared'
  <2>1. \A u \in {"thread", "view"} : loader'[u].pc = "fetch" => loader'[u] = loader[u]
    BY DEF Typed, CallsTyped
  <2> QED
    BY <2>1 DEF Shared, Sound
<1> QED
  BY <1>3, <1>4

(* Nothing of the invariant changes but the list, the page and the view. *)
LEMMA ViewMoves ==
  ASSUME Typed, ListTyped', UNCHANGED <<item_d, alive, loader>>
  PROVE  Typed' /\ (Shared => Shared')
<1>1. Typed'
  BY DEF Typed, ItemsTyped, CallsTyped
<1> QED
  BY <1>1, SharedStays

LEMMA ThreadEndsInv ==
  ASSUME Typed, Finish \/ Close
  PROVE  Typed' /\ (Shared => Shared')
<1>1. CASE Finish
  <2> DEFINE l == [loader["thread"] EXCEPT !.pc = "close"]
  <2>1. loader' = [loader EXCEPT !["thread"] = l]
    BY <1>1 DEF Finish
  <2>2. Called(l) /\ l.pc # "fetch"
    BY DEF Typed, CallsTyped, Called, Loader
  <2>3. UNCHANGED <<item_d, alive, aux, curr, page, active>> /\ fresh' \in Nat
    BY <1>1 DEF Finish, Typed, ListTyped, itemVars, listVars, viewVars
  <2> HIDE DEF l
  <2> QED
    BY <2>1, <2>2, <2>3, LoaderMoves
<1>2. CASE Close
  <2>1. loader' = [loader EXCEPT !["thread"] = Off] /\ Off.pc # "fetch"
    BY <1>2 DEF Close, Off
  <2>2. Called(Off)
    BY IconsAssumption DEF Called, Loader, Off, Pos
  <2>3. UNCHANGED <<item_d, alive, aux, curr, page, active>> /\ fresh' \in Nat
    BY <1>2 DEF Close, Typed, ListTyped, itemVars, listVars, viewVars
  <2> QED
    BY <2>1, <2>2, <2>3, LoaderMoves
<1> QED
  BY <1>1, <1>2

(* A thread is started for a list or for a page of the catalogue. *)
LEMMA StartInv ==
  ASSUME Typed, NEW todo \in Seq(Pos), todo # <<>>, Start(todo),
         UNCHANGED <<item_d, alive, aux, curr, page, active>>, fresh' \in Nat
  PROVE  Typed' /\ (Shared => Shared')
<1> DEFINE l == [pc |-> "check", todo |-> todo, app |-> 0]
<1>1. loader' = [loader EXCEPT !["thread"] = l] /\ l.pc # "fetch"
  BY DEF Start
<1>2. Called(l)
  BY IconsAssumption DEF Called, Loader, Pos
<1> HIDE DEF l
<1> QED
  BY <1>1, <1>2, LoaderMoves

LEMMA StartSearchInv ==
  ASSUME Typed, StartSearch
  PROVE  Typed' /\ (Shared => Shared')
<1>1. UNCHANGED <<item_d, alive, aux, curr, page, active, fresh>> /\ fresh' \in Nat
  BY DEF StartSearch, Typed, ListTyped, itemVars, listVars, viewVars
<1>2. CASE OtherList /\ Idle
  <2>1. aux \in Seq(Pos) /\ aux # <<>>
    BY <1>2, IconsAssumption DEF Typed, ListTyped, OtherList
  <2>2. Start(aux)
    BY <1>2 DEF StartSearch
  <2> QED
    BY <1>1, <2>1, <2>2, StartInv
<1>3. CASE ~(OtherList /\ Idle)
  <2>1. loader' = loader
    BY <1>3 DEF StartSearch
  <2>2. ListTyped'
    BY <1>1, ListStays DEF Typed
  <2> QED
    BY <1>1, <2>1, <2>2, ViewMoves
<1> QED
  BY <1>2, <1>3

LEMMA StartPageInv ==
  ASSUME Typed, StartPage
  PROVE  Typed' /\ (Shared => Shared')
<1>1. UNCHANGED <<item_d, alive, aux, curr, page, active>> /\ fresh' \in Nat
  BY DEF StartPage, itemVars, listVars, viewVars
<1>2. CASE OtherPage /\ Idle /\ f_size > fresh
  <2> DEFINE todo == [i \in 1 .. f_size |-> g_idx + i - 1]
  <2>1. /\ g_idx \in Nat /\ Count \in Nat /\ Count <= NumApps /\ NumApps \in Nat
        /\ FieldSize \in Nat /\ fresh \in Nat
    BY GidxNat, CountNat, IconsAssumption DEF Typed, ListTyped
  <2>2. f_size \in Nat /\ f_size > 0 /\ g_idx + f_size <= NumApps
    BY <1>2, <2>1 DEF f_size
  <2>3. todo \in Seq(Pos) /\ todo # <<>>
    <3>1. \A i \in 1 .. f_size : g_idx + i - 1 \in Pos
      BY <2>1, <2>2 DEF Pos
    <3>2. todo \in Seq(Pos)
      BY <2>2, <3>1
    <3>3. 1 \in DOMAIN todo
      BY <2>2
    <3> QED
      BY <3>2, <3>3
  <2>4. Start(todo)
    BY <1>2 DEF StartPage
  <2> HIDE DEF todo
  <2> QED
    BY <1>1, <2>3, <2>4, StartInv
<1>3. CASE ~(OtherPage /\ Idle /\ f_size > fresh)
  <2>1. loader' = loader
    BY <1>3 DEF StartPage
  <2>2. ListTyped'
    BY <1>1 DEF Typed, ListTyped, Count
  <2> QED
    BY <1>1, <2>1, <2>2, ViewMoves
<1> QED
  BY <1>2, <1>3

(* A row of the Ready view. *)
LEMMA DrawRowInv ==
  ASSUME Typed, NEW p \in Pos, DrawRow(p)
  PROVE  Typed' /\ (Shared => Shared')
<1> DEFINE l == [pc |-> "check", todo |-> <<p>>, app |-> 0]
<1>1. loader' = [loader EXCEPT !["view"] = l] /\ l.pc # "fetch"
  BY DEF DrawRow
<1>2. Called(l)
  BY IconsAssumption DEF Called, Loader, Pos
<1>3. UNCHANGED <<item_d, alive, aux, curr, page, active>> /\ fresh' \in Nat
  BY DEF DrawRow, Typed, ListTyped, itemVars, listVars, viewVars
<1> HIDE DEF l
<1> QED
  BY <1>1, <1>2, <1>3, LoaderMoves

LEMMA LoadRowInv ==
  ASSUME Typed, LoadRow
  PROVE  Typed' /\ (Shared => Shared')
<1> DEFINE p == Position("view")
           new == LoadPng(item_d[p], file[item_d[p].app])
<1>1. /\ p \in Pos /\ item_d[p] \in Item /\ item_d \in [Pos -> Item]
      /\ loader = [u \in {"thread", "view"} |-> loader[u]]
      /\ item_d' = [item_d EXCEPT ![p] = new]
      /\ loader' = [loader EXCEPT !["view"] = Off] /\ alive' = alive
  BY CallAt DEF LoadRow, Typed, ItemsTyped, CallsTyped
<1>2. Kept(item_d[p], new)
  BY <1>1, LoadPngKeeps
<1>3. Called(Off) /\ Off.pc # "fetch"
  BY IconsAssumption DEF Called, Loader, Off, Pos
<1>4. ListTyped'
  BY ListStays DEF LoadRow, Typed, listVars, viewVars
<1>5. CallsTyped'
  BY <1>1, <1>3, OneCallChanges DEF Typed
<1> HIDE DEF new, p
<1>6. Typed'
  BY <1>1, <1>2, <1>4, <1>5 DEF Typed, ItemsTyped, Kept
<1>7. Sound(item_d[p]) => Sound(new)
  BY <1>2 DEF Kept
<1>8. ASSUME Shared PROVE Shared'
  BY ONLY <1>1, <1>3, <1>7, <1>8, "view" \in {"thread", "view"}, OneItemChanges
<1> QED
  BY <1>6, <1>8

(* The frame draws the page. *)
LEMMA DrawInv ==
  ASSUME Typed, Draw
  PROVE  Typed' /\ (Shared => Shared')
<1>1. /\ UNCHANGED <<alive, aux, curr, page, active, loader>>
      /\ item_d \in [Pos -> Item]
  BY DEF Draw, listVars, viewVars, Typed, ItemsTyped
<1>2. PICK o : LET drawn == [p \in Shown |-> Drawn(Prepared(item_d[p]), file[item_d[p].app], o[p])]
               IN  /\ item_d' = [p \in Pos |-> IF p \in Shown THEN drawn[p].item ELSE item_d[p]]
                   /\ fresh' = Cardinality({p \in Shown : drawn[p].counts})
  BY DEF Draw
<1> DEFINE drawn == [p \in Shown |-> Drawn(Prepared(item_d[p]), file[item_d[p].app], o[p])]
<1>3. fresh' \in Nat
  <2>1. fresh' = Cardinality({p \in Shown : drawn[p].counts})
    BY <1>2
  <2>2. Shown \subseteq Pos
    BY ShownInPos DEF Typed
  <2>3. IsFiniteSet(Pos)
    BY FS_Interval, IconsAssumption DEF Pos
  <2> HIDE DEF drawn
  <2>4. {p \in Shown : drawn[p].counts} \subseteq Pos
    BY <2>2
  <2> QED
    BY <2>1, <2>3, <2>4, FS_Subset, FS_CardinalityType
<1>4. ASSUME NEW p \in Shown, p \in Pos PROVE Kept(item_d[p], drawn[p].item)
  <2>1. Kept(item_d[p], Prepared(item_d[p]))
    <3>1. item_d[p] \in Item
      BY <1>1, <1>4
    <3>2. Kept(item_d[p], Default(item_d[p])) /\ Kept(item_d[p], item_d[p])
      BY <3>1, DefaultKeeps DEF Kept
    <3>3. Prepared(item_d[p]) \in {Default(item_d[p]), item_d[p]}
      BY DEF Prepared
    <3> QED
      BY <3>2, <3>3
  <2> DEFINE it == Prepared(item_d[p])
  <2>2. it \in Item
    BY <2>1 DEF Kept
  <2>3. drawn[p] = Drawn(it, file[item_d[p].app], o[p])
    BY <1>4
  <2> HIDE DEF it, drawn
  <2>4. Kept(it, drawn[p].item)
    BY <2>2, <2>3, DrawnKeeps
  <2>5. Kept(item_d[p], it)
    BY <2>1 DEF it
  <2> QED
    BY <2>4, <2>5 DEF Kept
<1>5. \A p \in Pos : item_d'[p] \in Item /\ (Sound(item_d[p]) => Sound(item_d'[p]))
  BY <1>1, <1>2, <1>4 DEF Kept
<1>6. item_d' \in [Pos -> Item]
  BY <1>2, <1>5
<1>7. Typed'
  <2>1. ListTyped'
    BY <1>1, <1>3 DEF Typed, ListTyped, Count
  <2> QED
    BY <1>1, <1>6, <2>1 DEF Typed, ItemsTyped, CallsTyped
<1>8. Shared => Shared'
  BY <1>1, <1>5 DEF Shared, Sound
<1> QED
  BY <1>7, <1>8

(* Far icons are dropped: none of those that games shares. *)
LEMMA DropSomeInv ==
  ASSUME Typed, DropSome
  PROVE  Typed' /\ (Shared => Shared')
<1>1. /\ UNCHANGED <<aux, curr, page, fresh, active, loader>>
      /\ item_d \in [Pos -> Item]
      /\ item_d' = [p \in Pos |-> IF Discard(p) THEN [item_d[p] EXCEPT !.tex = "null"] ELSE item_d[p]]
      /\ alive' = alive \ {item_d[p].app : p \in {p \in Pos : Discard(p) /\ item_d[p].tex = "pre"}}
  BY DEF DropSome, listVars, viewVars, Typed, ItemsTyped
<1>2. item_d' \in [Pos -> Item]
  BY <1>1 DEF Item
<1>3. Typed'
  BY <1>1, <1>2, ListStays DEF Typed, ItemsTyped, CallsTyped
<1>4. ASSUME Shared PROVE Shared'
  <2>1. ASSUME NEW p \in Pos, Discard(p) PROVE item_d[p].app \notin Preloaded /\ item_d[p].tex # "pre"
    BY <1>4, <2>1 DEF Shared, Sound, Discard
  <2>2. alive' = alive
    <3>1. {p \in Pos : Discard(p) /\ item_d[p].tex = "pre"} = {}
      BY <2>1
    <3> QED
      BY <1>1, <3>1
  <2>3. ASSUME NEW p \in Pos PROVE Sound(item_d'[p])
    <3>1. CASE Discard(p)
      BY <1>1, <2>1, <3>1 DEF Sound, Item
    <3>2. CASE ~Discard(p)
      BY <1>1, <1>4, <3>2 DEF Shared
    <3> QED
      BY <3>1, <3>2
  <2> QED
    BY <1>1, <1>4, <2>2, <2>3 DEF Shared, Sound
<1> QED
  BY <1>3, <1>4

-----------------------------------------------------------------------------
(* The buttons. *)

(* A list is dropped: item_d shows the shared textures again, all of which *)
(* are still there.                                                         *)
LEMMA RestoreInv ==
  ASSUME Typed, Restore, ListTyped', UNCHANGED <<alive, loader>>
  PROVE  Typed' /\ (Shared => Shared')
<1>1. item_d' = Games
  BY DEF Restore
<1>2. Typed'
  BY <1>1, GamesSound DEF Typed, ItemsTyped, CallsTyped
<1>3. Shared => Shared'
  BY <1>1, GamesSound DEF Shared, Sound
<1> QED
  BY <1>2, <1>3

LEMMA SortInv ==
  ASSUME Typed, NEW order \in Orders, Sort(order)
  PROVE  Typed' /\ (Shared => Shared')
<1>1. /\ item_d \in [Pos -> Item] /\ order \in [Pos -> Pos]
      /\ item_d' = [p \in Pos |-> item_d[order[p]]]
      /\ UNCHANGED <<alive, loader, fresh, aux>>
      /\ curr' = 0 /\ page' = 0 /\ active' = "icons"
  BY DEF Sort, Stay, Typed, ItemsTyped, Orders
<1>2. item_d' \in [Pos -> Item]
  BY <1>1
<1>3. ListTyped'
  BY <1>1, CountNat, IconsAssumption DEF Typed, ListTyped, Count, Pos
<1>4. Typed'
  BY <1>1, <1>2, <1>3 DEF Typed, ItemsTyped, CallsTyped
<1>5. Shared => Shared'
  BY <1>1 DEF Shared, Sound
<1> QED
  BY <1>4, <1>5

LEMMA PressInv ==
  ASSUME Typed, Press
  PROVE  Typed' /\ (Shared => Shared')
<1>t. ListTyped /\ 0 \in Pos /\ 0 \in Nat /\ NumApps \in Nat
  BY IconsAssumption DEF Typed, Pos
<1>1. CASE TurnPage
  <2>1. ListTyped'
    BY <1>1, <1>t, ListStays DEF TurnPage, Stay, listVars
  <2> QED
    BY <1>1, <2>1, ViewMoves DEF TurnPage, Stay
<1>2. CASE OpenGames
  <2>1. ListTyped'
    BY <1>2, <1>t DEF OpenGames, Stay, listVars, ListTyped, Count
  <2> QED
    BY <1>2, <2>1, ViewMoves DEF OpenGames, Stay
<1>3. CASE LeaveLeft
  <2>1. ListTyped'
    BY <1>3, <1>t, IconsAssumption DEF LeaveLeft, Restore, Stay, ListTyped, Count
  <2> QED
    BY <1>3, <2>1, RestoreInv DEF LeaveLeft, Stay
<1>4. CASE OpenItem
  <2>1. curr' \in Pos
    <3>1. CASE aux = <<>>
      BY <1>4, <1>t, <3>1 DEF OpenItem, ListTyped
    <3>2. CASE aux # <<>>
      <4>1. aux \in Seq(Pos) /\ curr \in Nat /\ curr < Len(aux)
        BY <1>4, <1>t, <3>2, IconsAssumption DEF OpenItem, ListTyped, Count, Pos
      <4> QED
        BY <1>4, <3>2, <4>1 DEF OpenItem
    <3> QED
      BY <3>1, <3>2
  <2>2. ListTyped'
    BY <1>4, <1>t, <2>1 DEF OpenItem, Stay, ListTyped
  <2> QED
    BY <1>4, <2>2, ViewMoves DEF OpenItem, Stay
<1>5. CASE Back
  <2>1. curr' \in Pos /\ page' \in Nat /\ active' = "left" /\ aux' = <<>>
        /\ UNCHANGED <<alive, loader, fresh>>
    <3>1. curr' \in Pos /\ active' = "left" /\ aux' = <<>> /\ UNCHANGED <<alive, loader, fresh>>
      BY <1>5, <1>t DEF Back, Stay, Restore, ListTyped
    <3>2. page' = curr' \div FieldSize
      BY <1>5 DEF Back
    <3> QED
      BY <3>1, <3>2, PageNat DEF Pos
  <2>2. ListTyped'
    BY <1>t, <2>1 DEF ListTyped, Count, Pos
  <2>3. CASE aux = <<>>
    BY <1>5, <2>1, <2>2, <2>3, ViewMoves DEF Back
  <2>4. CASE aux # <<>>
    BY <1>5, <2>1, <2>2, <2>4, RestoreInv DEF Back
  <2> QED
    BY <2>3, <2>4
<1>6. CASE ShowReady
  <2>1. ListTyped'
    BY <1>6, <1>t DEF ShowReady, Stay, listVars, ListTyped, Count
  <2> QED
    BY <1>6, <2>1, ViewMoves DEF ShowReady, Stay
<1>7. ASSUME NEW list \in Lists, ShowList(list) PROVE Typed' /\ (Shared => Shared')
  <2>1. list \in Seq(Pos) /\ list # <<>>
    BY IconsAssumption
  <2>2. ListTyped'
    BY <1>7, <1>t, <2>1 DEF ShowList, Stay, ListTyped, Count
  <2> QED
    BY <1>7, <2>2, ViewMoves DEF ShowList, Stay
<1>8. ASSUME NEW order \in Orders, Sort(order) PROVE Typed' /\ (Shared => Shared')
  BY <1>8, SortInv
<1>9. ASSUME NEW i \in Pos, Move(i) PROVE Typed' /\ (Shared => Shared')
  <2>1. i \in Nat /\ i < Count /\ i \div FieldSize \in Nat
    BY <1>9, <1>t, CountNat, PageNat DEF Move, Pos
  <2>2. ListTyped'
    BY <1>9, <1>t, <2>1 DEF Move, Stay, viewVars, ListTyped, Count
  <2> QED
    BY <1>9, <2>2, ViewMoves DEF Move, Stay
<1>10. CASE ClearCache
  <2>1. ListTyped'
    BY <1>10, <1>t, ListStays DEF ClearCache, listVars, viewVars
  <2> QED
    BY <1>10, <2>1, ViewMoves DEF ClearCache
<1> QED
  BY <1>1, <1>2, <1>3, <1>4, <1>5, <1>6, <1>7, <1>8, <1>9, <1>10 DEF Press

-----------------------------------------------------------------------------

LEMMA StepInv == IInv /\ [Next]_vars => IInv'
<1> SUFFICES ASSUME IInv, [Next]_vars PROVE IInv'
  OBVIOUS
<1>1. Typed
  BY DEF IInv
<1>2. Typed' /\ (Shared => crossed' \/ Shared')
  <2>1. CASE Frame
    BY <1>1, <2>1, DrawInv, StartSearchInv, StartPageInv, LoadRowInv, CheckInv, FetchEndsInv
       DEF Frame, Load
  <2>2. CASE Thread
    BY <1>1, <2>2, ThreadEndsInv, CheckInv, FetchEndsInv DEF Thread, Load
  <2>3. ASSUME NEW p \in Pos, DrawRow(p) PROVE Typed' /\ (Shared => Shared')
    BY <1>1, <2>3, DrawRowInv
  <2>4. CASE DropSome
    BY <1>1, <2>4, DropSomeInv
  <2>5. CASE Press
    BY <1>1, <2>5, PressInv
  <2>6. CASE UNCHANGED vars
    <3>1. ListTyped' /\ UNCHANGED <<item_d, alive, loader>>
      BY <1>1, <2>6, ListStays DEF Typed, vars, itemVars, listVars, viewVars
    <3> QED
      BY <1>1, <3>1, ViewMoves
  <2> QED
    BY <2>1, <2>2, <2>3, <2>4, <2>5, <2>6 DEF Next
<1>3. crossed => crossed'
  BY DEF Next, Frame, Thread, Load, Check, FetchEnds, Finish, Close, Draw, StartSearch, StartPage,
     DrawRow, LoadRow, DropSome, Press, TurnPage, OpenGames, LeaveLeft, OpenItem, Back, ShowReady,
     ShowList, Sort, Move, ClearCache, Stay, vars
<1> QED
  BY <1>2, <1>3 DEF IInv

THEOREM Invariant == Spec => []IInv
<1> QED
  BY InitInv, StepInv, PTL DEF Spec

(* No panel deletes a texture that the database loaded and games still     *)
(* names (reset_tex_slot in GLES2_layout.cpp spares what is not marked     *)
(* png_is_loaded): whatever is sorted, searched, dropped and downloaded, as *)
(* long as no list is replaced in the middle of a download.                *)
THEOREM SharedTexturesStay == Spec => []SharedTexturesLive
<1>1. IInv => SharedTexturesLive
  BY DEF IInv, Shared, SharedTexturesLive
<1> QED
  BY <1>1, Invariant, PTL
-----------------------------------------------------------------------------
(* The rest of what the variables hold, in the parts that different         *)
(* actions disturb: the files and the textures of games, ...               *)
FilesTyped ==
  /\ alive \subseteq Preloaded
  /\ file \in [Pos -> {"none", "bad", "good"}]
  /\ writer \in [Pos -> {"nobody", "thread", "view"}]

(* ... the apps, none of which is ever lost from the panel, ...            *)
AllShown == \A a \in Pos : \E p \in Pos : item_d[p].app = a

(* ... the view, which leaves a list behind with the icons, ...            *)
ViewTyped ==
  /\ active \in {"left", "icons", "item", "ready"}
  /\ is_sort_panel \in BOOLEAN
  /\ active \in {"left", "ready"} \/ is_sort_panel => aux = <<>>
  /\ page <= NumApps

(* ... the frame and what it last started a thread for, ...                *)
FrameTyped ==
  /\ ui \in {"frame", "search", "page"}
  /\ fresh <= FieldSize
  /\ old_idx \in Pos \cup {-1} /\ searched \in BOOLEAN /\ old_num \in 0 .. NumApps
  /\ replaced \in BOOLEAN /\ crossed \in BOOLEAN

(* ... and the two flags of the thread, which is_icons_finished leaves     *)
(* first: they say where the thread is.                                     *)
FlagsTell ==
  LET pc == loader["thread"].pc
  IN  /\ pc # "load"
      /\ is_icons_finished \in BOOLEAN /\ icons_thread_started \in BOOLEAN
      /\ is_icons_finished <=> pc \in {"off", "close"}
      /\ icons_thread_started <=> pc # "off"

FullInv == FilesTyped /\ AllShown /\ ViewTyped /\ FrameTyped /\ FlagsTell

(* The pictures on disk, action by action: what a download leaves is one   *)
(* of the three states of a file.                                           *)
LEMMA CheckFiles ==
  ASSUME Typed, FilesTyped, NEW t \in {"thread", "view"}, Check(t)
  PROVE  FilesTyped'
<1>1. item_d[Position(t)].app \in Pos
  BY CallAt DEF Check
<1> QED
  BY <1>1 DEF Check, FilesTyped

(* What a download leaves is a file, a picture or neither. *)
LEMMA OutcomeFiles ==
  ASSUME NEW o \in Outcomes
  PROVE  o.file \in {"none", "bad", "good"}
<1>1. CASE o = NoHandle
  BY <1>1 DEF NoHandle
<1>2. CASE o \in [ok : {TRUE}, file : {"bad", "good"}]
  BY <1>2
<1>3. CASE o \in [ok : {FALSE}, file : {"none", "bad"}]
  BY <1>3
<1> QED
  BY <1>1, <1>2, <1>3 DEF Outcomes

LEMMA FetchEndsFiles ==
  ASSUME Typed, FilesTyped, NEW t \in {"thread", "view"}, FetchEnds(t)
  PROVE  FilesTyped'
<1> DEFINE a == loader[t].app
<1>1. a \in Pos
  BY DEF Typed, CallsTyped, Called, Loader
<1>2. PICK o \in IF writer[a] = t THEN Outcomes ELSE [ok : BOOLEAN, file : {file[a]}] :
        file' = [file EXCEPT ![a] = o.file]
  BY DEF FetchEnds
<1>3. o.file \in {"none", "bad", "good"}
  <2>1. CASE writer[a] = t
    BY <1>2, <2>1, OutcomeFiles
  <2>2. CASE writer[a] # t
    BY <1>1, <1>2, <2>2 DEF FilesTyped
  <2> QED
    BY <2>1, <2>2
<1>4. /\ writer' = [writer EXCEPT ![a] = IF writer[a] = t THEN "nobody" ELSE writer[a]]
      /\ alive' = alive
  BY DEF FetchEnds
<1> HIDE DEF a
<1> QED
  BY <1>1, <1>2, <1>3, <1>4 DEF FilesTyped

LEMMA DrawFiles ==
  ASSUME Typed, FilesTyped, Draw
  PROVE  FilesTyped'
<1>1. Shown \subseteq Pos /\ item_d \in [Pos -> Item]
  BY ShownInPos DEF Typed, ItemsTyped
<1>2. PICK o \in [Shown -> IF Serves THEN Outcomes ELSE {[ok |-> TRUE, file |-> "good"]}] :
        LET drawn == [p \in Shown |-> Drawn(Prepared(item_d[p]), file[item_d[p].app], o[p])]
        IN  file' = [a \in Pos |->
                       IF \E p \in Shown : item_d[p].app = a
                       THEN drawn[CHOOSE p \in Shown : item_d[p].app = a].file
                       ELSE file[a]]
  BY DEF Draw
<1> DEFINE drawn == [p \in Shown |-> Drawn(Prepared(item_d[p]), file[item_d[p].app], o[p])]
<1>3. ASSUME NEW p \in Shown PROVE drawn[p].file \in {"none", "bad", "good"}
  <2>1. o[p].file \in {"none", "bad", "good"}
    <3>1. \A r \in Outcomes : r.file \in {"none", "bad", "good"}
      BY OutcomeFiles
    <3>2. o[p] \in Outcomes \/ o[p] = [ok |-> TRUE, file |-> "good"]
      <4>1. o \in [Shown -> Outcomes \cup {[ok |-> TRUE, file |-> "good"]}]
        BY <1>2
      <4> QED
        BY <1>3, <4>1
    <3> QED
      BY <3>1, <3>2
  <2>2. file[item_d[p].app] \in {"none", "bad", "good"}
    BY <1>1, <1>3 DEF FilesTyped, Item
  <2>3. drawn[p].file \in {o[p].file, file[item_d[p].app]}
    BY <1>3 DEF Drawn
  <2> QED
    BY <2>1, <2>2, <2>3
<1>4. file' = [a \in Pos |-> IF \E p \in Shown : item_d[p].app = a
                             THEN drawn[CHOOSE p \in Shown : item_d[p].app = a].file
                             ELSE file[a]]
  BY <1>2
<1> HIDE DEF drawn
<1>5. file' \in [Pos -> {"none", "bad", "good"}]
  <2>1. ASSUME NEW a \in Pos, \E p \in Shown : item_d[p].app = a
        PROVE  drawn[CHOOSE p \in Shown : item_d[p].app = a].file \in {"none", "bad", "good"}
    BY <1>3, <2>1
  <2> QED
    BY <1>4, <2>1 DEF FilesTyped
<1> QED
  BY <1>5 DEF Draw, FilesTyped

LEMMA FilesStep ==
  ASSUME Typed, FilesTyped, [Next]_vars
  PROVE  FilesTyped'
<1>1. CASE \E t \in {"thread", "view"} : Load(t)
  BY <1>1, CheckFiles, FetchEndsFiles DEF Load
<1>2. CASE Draw
  BY <1>2, DrawFiles
<1>3. CASE DropSome
  BY <1>3 DEF DropSome, FilesTyped
<1>4. CASE StartSearch \/ StartPage \/ LoadRow \/ Finish \/ Close \/ \E p \in Pos : DrawRow(p)
  BY <1>4 DEF StartSearch, StartPage, LoadRow, Finish, Close, DrawRow, itemVars, FilesTyped
<1>5. CASE Press
  BY <1>5 DEF Press, TurnPage, OpenGames, LeaveLeft, OpenItem, Back, ShowReady, ShowList, Sort,
     Move, ClearCache, Stay, FilesTyped
<1>6. CASE UNCHANGED vars
  BY <1>6 DEF vars, itemVars, FilesTyped
<1> QED
  BY <1>1, <1>2, <1>3, <1>4, <1>5, <1>6 DEF Next, Frame, Thread

-----------------------------------------------------------------------------
(* The apps of the panel. *)

(* An order of the positions passes over none of them. *)
LEMMA OrderIsOnto == ASSUME NEW order \in Orders PROVE \A q \in Pos : \E p \in Pos : order[p] = q
<1>1. order \in Injection(Pos, Pos)
  BY DEF Orders, Injection, IsInjective
<1>2. IsFiniteSet(Pos)
  BY FS_Interval, IconsAssumption DEF Pos
<1>3. order \in Surjection(Pos, Pos)
  BY <1>1, <1>2, FS_Injection
<1> QED
  BY <1>3 DEF Surjection

(* What may happen to the apps of the positions: nothing, an order of      *)
(* them, or the one of games.                                               *)
LEMMA AppsMove ==
  ASSUME Typed, [Next]_vars
  PROVE  \/ \A p \in Pos : item_d'[p].app = item_d[p].app
         \/ \E order \in Orders : \A p \in Pos : item_d'[p].app = item_d[order[p]].app
         \/ item_d' = Games
<1>t. item_d \in [Pos -> Item]
  BY DEF Typed, ItemsTyped
<1>1. ASSUME NEW t \in {"thread", "view"}, Check(t) PROVE \A p \in Pos : item_d'[p].app = item_d[p].app
  <2> DEFINE p == Position(t)
             new == Keeps(item_d[p], file[item_d[p].app])
  <2>1. p \in Pos
    BY <1>1, CallAt DEF Check
  <2>2. item_d' = item_d \/ item_d' = [item_d EXCEPT ![p] = new]
    BY <1>1 DEF Check
  <2>3. new.app = item_d[p].app
    BY <1>t, <2>1, KeepsKeeps DEF Kept
  <2> HIDE DEF new, p
  <2> QED
    BY <1>t, <2>1, <2>2, <2>3
<1>2. ASSUME NEW t \in {"thread", "view"}, FetchEnds(t)
      PROVE  \A p \in Pos : item_d'[p].app = item_d[p].app
  <2> DEFINE p == Position(t)
  <2>1. p \in Pos
    BY <1>2, CallAt DEF FetchEnds
  <2>2. PICK ok, f : item_d' = [item_d EXCEPT ![p] = Fetched(item_d[p], ok, f)]
    BY <1>2 DEF FetchEnds
  <2>3. Fetched(item_d[p], ok, f).app = item_d[p].app
    BY <1>t, <2>1, FetchedKeeps
  <2> HIDE DEF p
  <2> QED
    BY <1>t, <2>1, <2>2, <2>3
<1>3. CASE LoadRow
  <2> DEFINE p == Position("view")
             new == LoadPng(item_d[p], file[item_d[p].app])
  <2>1. p \in Pos /\ item_d' = [item_d EXCEPT ![p] = new]
    BY <1>3, CallAt DEF LoadRow
  <2>2. new.app = item_d[p].app
    BY <1>t, <2>1, LoadPngKeeps DEF Kept
  <2> HIDE DEF new, p
  <2> QED
    BY <1>t, <2>1, <2>2
<1>4. CASE Draw
  <2>1. PICK o : LET drawn == [p \in Shown |-> Drawn(Prepared(item_d[p]), file[item_d[p].app], o[p])]
                 IN  item_d' = [p \in Pos |-> IF p \in Shown THEN drawn[p].item ELSE item_d[p]]
    BY <1>4 DEF Draw
  <2>2. ASSUME NEW p \in Pos PROVE item_d'[p].app = item_d[p].app
    <3> DEFINE it == Prepared(item_d[p])
    <3>1. it \in Item /\ it.app = item_d[p].app
      BY <1>t, DefaultKeeps DEF Prepared, Kept
    <3>2. item_d'[p] \in {item_d[p], Drawn(it, file[item_d[p].app], o[p]).item}
      BY <2>1
    <3> HIDE DEF it
    <3> QED
      BY <3>1, <3>2, DrawnKeeps DEF Kept
  <2> QED
    BY <2>2
<1>5. CASE DropSome
  BY <1>t, <1>5 DEF DropSome, Item
<1>6. ASSUME NEW order \in Orders, Sort(order)
      PROVE  \A p \in Pos : item_d'[p].app = item_d[order[p]].app
  BY <1>6 DEF Sort
<1>7. CASE LeaveLeft \/ Back
  BY <1>7 DEF LeaveLeft, Back, Restore
<1>8. CASE UNCHANGED item_d
  BY <1>8
<1>9. CASE StartSearch \/ StartPage \/ Finish \/ Close \/ \E p \in Pos : DrawRow(p)
  BY <1>8, <1>9 DEF StartSearch, StartPage, Finish, Close, DrawRow, itemVars
<1>10. CASE \/ TurnPage \/ OpenGames \/ OpenItem \/ ShowReady \/ ClearCache
            \/ \E list \in Lists : ShowList(list)
            \/ \E i \in Pos : Move(i)
  BY <1>8, <1>10 DEF TurnPage, OpenGames, OpenItem, ShowReady, ShowList, Move, ClearCache, Stay
<1> QED
  <2>1. CASE Press
    BY <1>6, <1>7, <1>10, <2>1 DEF Press
  <2>2. CASE UNCHANGED vars
    BY <1>8, <2>2 DEF vars, itemVars
  <2>3. CASE Frame \/ Thread
    BY <1>1, <1>2, <1>3, <1>4, <1>9, <2>3 DEF Frame, Thread, Load
  <2> QED
    BY <1>5, <1>9, <2>1, <2>2, <2>3 DEF Next

LEMMA AllShownStep ==
  ASSUME Typed, AllShown, [Next]_vars
  PROVE  AllShown'
<1>1. CASE \A p \in Pos : item_d'[p].app = item_d[p].app
  BY <1>1 DEF AllShown
<1>2. CASE \E order \in Orders : \A p \in Pos : item_d'[p].app = item_d[order[p]].app
  <2>1. PICK order \in Orders : \A p \in Pos : item_d'[p].app = item_d[order[p]].app
    BY <1>2
  <2>2. ASSUME NEW a \in Pos PROVE \E p \in Pos : item_d'[p].app = a
    <3>1. PICK q \in Pos : item_d[q].app = a
      BY DEF AllShown
    <3>2. PICK p \in Pos : order[p] = q
      BY OrderIsOnto
    <3> QED
      BY <2>1, <3>1, <3>2
  <2> QED
    BY <2>2 DEF AllShown
<1>3. CASE item_d' = Games
  BY <1>3, GamesSound DEF AllShown
<1> QED
  BY <1>1, <1>2, <1>3, AppsMove

-----------------------------------------------------------------------------
(* The view and the frame. *)

(* The page of a position, and the number of it. *)
LEMMA PageBound ==
  ASSUME NEW i \in Pos
  PROVE  i \div FieldSize <= NumApps /\ (i \div FieldSize) + 1 \in 0 .. NumApps
<1>1. i \in Nat /\ i < NumApps /\ NumApps \in Nat /\ FieldSize \in Nat /\ FieldSize > 0
  BY IconsAssumption DEF Pos
<1>2. i \div FieldSize \in Nat /\ i \div FieldSize <= i
  BY <1>1
<1> HIDE DEF Pos
<1>3. \A n \in Nat : n <= i => n <= NumApps /\ n + 1 \in 0 .. NumApps
  BY <1>1
<1> QED
  BY <1>2, <1>3

LEMMA ViewStep ==
  ASSUME Typed, ViewTyped, [Next]_vars
  PROVE  ViewTyped'
<1>0. 0 <= NumApps
  BY IconsAssumption
<1>1. CASE TurnPage \/ OpenGames \/ ShowReady
  BY <1>1 DEF TurnPage, OpenGames, ShowReady, Stay, listVars, ViewTyped
<1>2. CASE LeaveLeft \/ OpenItem
  BY <1>2 DEF LeaveLeft, OpenItem, Restore, Stay, ViewTyped
<1>3. CASE Back
  <2>1. curr' \in Pos
    BY <1>3, IconsAssumption DEF Back, Typed, ListTyped, Pos
  <2>2. page' = curr' \div FieldSize
    BY <1>3 DEF Back
  <2>3. page' <= NumApps
    <3>1. PICK i \in Pos : i = curr'
      BY <2>1
    <3> QED
      BY <2>2, <3>1, PageBound
  <2> QED
    BY <1>3, <2>3 DEF Back, Restore, Stay, ViewTyped
<1>4. CASE \E list \in Lists : ShowList(list)
  BY <1>0, <1>4 DEF ShowList, Stay, ViewTyped
<1>5. CASE \E order \in Orders : Sort(order)
  BY <1>0, <1>5 DEF Sort, Stay, ViewTyped
<1>6. CASE \E i \in Pos : Move(i)
  BY <1>6, PageBound DEF Move, Stay, viewVars, ViewTyped
<1>7. CASE UNCHANGED <<listVars, viewVars>>
  BY <1>7 DEF listVars, viewVars, ViewTyped
<1>8. CASE Frame \/ Thread \/ DropSome \/ ClearCache \/ \E p \in Pos : DrawRow(p)
  BY <1>7, <1>8 DEF Frame, Thread, Load, Check, FetchEnds, Finish, Close, Draw, StartSearch,
     StartPage, DrawRow, LoadRow, DropSome, ClearCache
<1> QED
  BY <1>1, <1>2, <1>3, <1>4, <1>5, <1>6, <1>7, <1>8 DEF Next, Press, vars

LEMMA IntervalSize ==
  ASSUME NEW n \in Int, NEW m \in Nat, n <= m
  PROVE  IsFiniteSet(0 .. n - 1) /\ Cardinality(0 .. n - 1) <= m
<1>1. IsFiniteSet(0 .. n - 1)
      /\ Cardinality(0 .. n - 1) = IF 0 > n - 1 THEN 0 ELSE (n - 1) - 0 + 1
  BY FS_Interval
<1> QED
  BY <1>1

(* No more pictures are counted than a page has icons. *)
LEMMA FreshBound == ASSUME Typed, Draw PROVE fresh' <= FieldSize
<1>1. /\ f_size \in Int /\ f_size <= FieldSize /\ FieldSize \in Nat
      /\ IsFiniteSet(0 .. f_size - 1) /\ Cardinality(0 .. f_size - 1) <= FieldSize
  <2>1. f_size \in Int /\ f_size <= FieldSize /\ FieldSize \in Nat
    BY GidxNat, CountNat, IconsAssumption DEF Typed, f_size
  <2>2. PICK n \in Int : n = f_size
    BY <2>1
  <2> HIDE DEF f_size
  <2> QED
    BY <2>1, <2>2, IntervalSize
<1> DEFINE at == [i \in 0 .. f_size - 1 |-> IF aux = <<>> THEN g_idx + i ELSE aux[g_idx + i + 1]]
<1>2. at \in Surjection(0 .. f_size - 1, Shown)
  BY DEF Surjection, Shown
<1> HIDE DEF at
<1>3. IsFiniteSet(Shown) /\ Cardinality(Shown) <= Cardinality(0 .. f_size - 1)
  BY <1>1, <1>2, FS_Surjection
<1>4. PICK S \in SUBSET Shown : fresh' = Cardinality(S)
  BY DEF Draw
<1>5. IsFiniteSet(S) /\ Cardinality(S) <= Cardinality(Shown)
  BY <1>3, FS_Subset
<1>6. Cardinality(S) \in Nat /\ Cardinality(Shown) \in Nat /\ Cardinality(0 .. f_size - 1) \in Nat
  BY <1>1, <1>3, <1>5, FS_CardinalityType
<1> QED
  BY <1>1, <1>3, <1>4, <1>5, <1>6

LEMMA FrameStep ==
  ASSUME Typed, FrameTyped, [Next]_vars
  PROVE  FrameTyped'
<1>1. CASE Draw
  BY <1>1, FreshBound DEF Draw, spawnVars, FrameTyped
<1>2. CASE StartSearch
  <2>1. Page1 \in 0 .. NumApps
    BY PageBound DEF Page1, Typed, ListTyped
  <2> HIDE DEF Page1
  <2> QED
    BY <1>2, <2>1 DEF StartSearch, FrameTyped
<1>3. CASE StartPage
  <2>1. f_size > fresh => g_idx \in Pos
    <3>1. /\ g_idx \in Nat /\ Count \in Nat /\ Count <= NumApps /\ NumApps \in Nat
          /\ FieldSize \in Nat /\ fresh \in Nat
      BY GidxNat, CountNat, IconsAssumption DEF Typed, ListTyped
    <3> QED
      BY <3>1 DEF f_size, Pos
  <2>2. 0 <= FieldSize
    BY IconsAssumption
  <2> QED
    BY <1>3, <2>1, <2>2 DEF StartPage, FrameTyped
<1>4. CASE \E t \in {"thread", "view"} : Load(t)
  BY <1>4 DEF Load, Check, FetchEnds, spawnVars, FrameTyped
<1>5. CASE Finish \/ Close \/ LoadRow \/ DropSome \/ \E p \in Pos : DrawRow(p)
  BY <1>5 DEF Finish, Close, LoadRow, DropSome, DrawRow, spawnVars, FrameTyped
<1>6. CASE Press
  BY <1>6 DEF Press, TurnPage, OpenGames, LeaveLeft, OpenItem, Back, ShowReady, ShowList, Sort,
     Move, ClearCache, Restore, Stay, spawnVars, FrameTyped
<1>7. CASE UNCHANGED vars
  BY <1>7 DEF vars, spawnVars, FrameTyped
<1> QED
  BY <1>1, <1>2, <1>3, <1>4, <1>5, <1>6, <1>7 DEF Next, Frame, Thread

-----------------------------------------------------------------------------
(* The flags of the thread. *)

(* What the thread itself does. *)
LEMMA ThreadFlags ==
  ASSUME Typed, FlagsTell, Thread
  PROVE  FlagsTell'
<1>l. loader = [t \in {"thread", "view"} |-> loader[t]]
  BY DEF Typed, CallsTyped
<1>1. CASE Load("thread")
  <2>1. PICK l : loader' = [loader EXCEPT !["thread"] = l] /\ l.pc \in {"check", "fetch", "finish"}
    BY <1>1 DEF Load, Check, FetchEnds, Returned
  <2>2. loader["thread"].pc \in {"check", "fetch"} /\ UNCHANGED flagVars
    BY <1>1 DEF Load, Check, FetchEnds
  <2> QED
    BY <1>l, <2>1, <2>2 DEF FlagsTell, flagVars
<1>2. CASE Finish
  <2> DEFINE l == [loader["thread"] EXCEPT !.pc = "close"]
  <2>1. loader' = [loader EXCEPT !["thread"] = l]
    BY <1>2 DEF Finish
  <2>2. l.pc = "close"
    BY DEF Typed, CallsTyped, Called, Loader
  <2> HIDE DEF l
  <2> QED
    BY <1>2, <1>l, <2>1, <2>2 DEF Finish, FlagsTell
<1>3. CASE Close
  BY <1>3, <1>l DEF Close, Off, FlagsTell
<1> QED
  BY <1>1, <1>2, <1>3 DEF Thread

LEMMA FlagsStep ==
  ASSUME Typed, FlagsTell, [Next]_vars
  PROVE  FlagsTell'
<1>l. loader = [t \in {"thread", "view"} |-> loader[t]]
  BY DEF Typed, CallsTyped
<1>1. CASE Thread
  BY <1>1, ThreadFlags
<1>2. ASSUME NEW todo, Start(todo) PROVE FlagsTell'
  BY <1>2, <1>l DEF Start, FlagsTell
<1>3. CASE UNCHANGED <<flagVars, loader>>
  BY <1>3 DEF flagVars, FlagsTell
<1>4. ASSUME NEW l, loader' = [loader EXCEPT !["view"] = l], UNCHANGED flagVars PROVE FlagsTell'
  BY <1>4, <1>l DEF flagVars, FlagsTell
<1>5. CASE StartSearch \/ StartPage \/ Draw \/ DropSome
  BY <1>2, <1>3, <1>5 DEF StartSearch, StartPage, Draw, DropSome
<1>6. CASE Load("view") \/ LoadRow \/ \E p \in Pos : DrawRow(p)
  BY <1>4, <1>6 DEF Load, Check, FetchEnds, LoadRow, DrawRow
<1>7. CASE Press
  BY <1>3, <1>7 DEF Press, TurnPage, OpenGames, LeaveLeft, OpenItem, Back, ShowReady, ShowList, Sort,
     Move, ClearCache, Stay
<1> QED
  BY <1>1, <1>3, <1>5, <1>6, <1>7 DEF Next, Frame, vars

-----------------------------------------------------------------------------

LEMMA FullInit == Init => FullInv
<1> SUFFICES ASSUME Init PROVE FullInv
  OBVIOUS
<1>0. NumApps \in Nat /\ FieldSize \in Nat
  BY IconsAssumption
<1>1. FilesTyped
  BY ONLY Init DEF Init, FilesTyped
<1>2. AllShown
  BY GamesSound DEF Init, AllShown
<1>3. ViewTyped
  <2>1. active = "left" /\ is_sort_panel = FALSE /\ aux = <<>> /\ page = 0
    BY ONLY Init DEF Init
  <2>2. page <= NumApps
    BY ONLY <2>1, <1>0
  <2> QED
    BY <2>1, <2>2, Zenon DEF ViewTyped
<1>4. FrameTyped
  <2>1. /\ ui = "frame" /\ fresh = 0 /\ old_idx = -1 /\ searched = FALSE /\ old_num = 0
        /\ replaced = FALSE /\ crossed = FALSE
    BY ONLY Init DEF Init
  <2>2. fresh <= FieldSize /\ old_num \in 0 .. NumApps
    BY ONLY <2>1, <1>0
  <2> QED
    BY <2>1, <2>2, Zenon DEF FrameTyped
<1>5. FlagsTell
  BY DEF Init, FlagsTell, Off
<1> QED
  BY <1>1, <1>2, <1>3, <1>4, <1>5 DEF FullInv

LEMMA FullStep == Typed /\ FullInv /\ [Next]_vars => FullInv'
  BY FilesStep, AllShownStep, ViewStep, FrameStep, FlagsStep DEF FullInv

LEMMA FullTypes == Typed /\ FullInv => TypeOK
<1> SUFFICES ASSUME Typed, FullInv PROVE TypeOK
  OBVIOUS
<1>1. FilesTyped /\ AllShown /\ ViewTyped /\ FrameTyped /\ FlagsTell /\ ItemsTyped /\ ListTyped
  BY DEF FullInv, Typed
<1>2. loader \in [{"thread", "view"} -> Loader]
  BY DEF Typed, CallsTyped, Called
<1>3. Idle <=> loader["thread"].pc = "off"
  BY <1>1 DEF FlagsTell, Idle
<1>4. is_icons_finished \in BOOLEAN /\ icons_thread_started \in BOOLEAN
  BY <1>1 DEF FlagsTell
<1>5. page \in 0 .. NumApps /\ fresh \in 0 .. FieldSize
  BY <1>1, IconsAssumption DEF ListTyped, ViewTyped, FrameTyped
<1> QED
  BY <1>1, <1>2, <1>3, <1>4, <1>5
     DEF TypeOK, FilesTyped, AllShown, ViewTyped, FrameTyped, ItemsTyped, ListTyped

(* The panel never loses an app, whatever is sorted and dropped; the sort  *)
(* branch of GLES2_render_layout_v2 never meets a result list, whose       *)
(* positions its test of item_c would take for the end; and the two flags  *)
(* of the icons thread, set and cleared one by one, say that there is none *)
(* exactly when there is none.                                              *)
THEOREM IconsTyped == Spec => []TypeOK
<1>1. IInv => Typed
  BY DEF IInv
<1> QED
  BY <1>1, FullInit, FullStep, FullTypes, Invariant, PTL DEF Spec
=============================================================================
