------------------------------ MODULE Catalog ------------------------------
(***************************************************************************)
(* The catalogue behind the icon panel, all in the UI thread: games keeps   *)
(* the database's order, item_d is the order shown, and the lists that are  *)
(* put in its place (search results, groups, updates), as well as every     *)
(* download, name an app by its index. Sorting and dropping a list change   *)
(* what an index means.                                                     *)
(***************************************************************************)
EXTENDS Integers, Sequences, FiniteSets

CONSTANTS
  NumGames,     (* games[0].token_c                                        *)
  Columns,      (* icon_panel->fieldsize.x ...                             *)
  Rows,         (* ... and .y                                              *)
  Groups,       (* the group labels, numbered from 1                       *)
  GroupOf,      (* the group of each app                                   *)
  Tokens,       (* TOTAL_NUM_OF_TOKENS                                     *)
  MaxDownloads  (* bound: slots in use                                     *)

ASSUME CatalogAssumption ==
  /\ NumGames \in Nat \ {0} /\ Columns \in Nat \ {0} /\ Rows \in Nat \ {0}
  /\ Groups \subseteq Nat
  /\ GroupOf \in [0 .. NumGames - 1 -> Groups]
  /\ Tokens \in Nat /\ MaxDownloads \in Nat

(* An app is named by its index in games. *)
Apps  == 0 .. NumGames - 1
Field == Columns * Rows

VARIABLES
  item_d,     (* icon_panel->item_d: the app at each index                 *)
  item_c,     (* icon_panel->item_c                                        *)
  sel,        (* icon_panel's curr_item, item_sel.x, f_sele, page_sel.x    *)
  aux,        (* the list shown instead: <<>>, or a header and its entries *)
  kind,       (* what the list was made by                                 *)
  groups,     (* the entries of each group                                 *)
  active,     (* active_p: left_panel2, icon_panel or download_panel       *)
  page,       (* left_panel2->page_sel.x                                   *)
  downloads,  (* the indices that busy slots have in g_idx                 *)
  stale       (* history: a list has been dropped since the last sort, and *)
              (* with it an order that the groups were made for            *)

listVars == <<item_d, item_c, sel, aux, kind>>
vars     == <<listVars, groups, active, page, downloads, stale>>

(* An entry holds an index (len); app is the app it was made for. *)
Entry(i, a) == [len |-> i, app |-> a]
Header      == Entry(0, 0)
Entries     == [len : Apps, app : Apps]
Hits        == Len(aux) - 1

Orders == {o \in [Apps -> Apps] : \A i, j \in Apps : o[i] = o[j] => i = j}

TypeOK ==
  /\ item_d \in Orders
  /\ item_c \in 1 .. NumGames
  /\ sel \in [curr : Apps, col : 0 .. Columns - 1, f_sele : 0 .. Field - 1, page : Nat]
  /\ aux \in Seq(Entries) /\ Len(aux) <= NumGames + 1
  /\ kind \in {"none", "search", "group", "updates"}
  /\ groups \in [Groups -> Seq(Entries)]
  /\ active \in {"left", "icon", "item"}
  /\ page \in 0 .. 5
  /\ downloads \subseteq Apps
  /\ stale \in BOOLEAN

(* The k-th of the numbers in S. *)
Nth(S, k) == CHOOSE i \in S : Cardinality({j \in S : j < i}) = k - 1

(* The entries for the indices in S, in the order of the indices. *)
ListOf(S, order) ==
  [k \in 1 .. Cardinality(S) |-> Entry(Nth(S, k), order[Nth(S, k)])]

(* analyze_item_t_v2 *)
Grouped(order) ==
  [g \in Groups |-> ListOf({i \in Apps : GroupOf[order[i]] = g}, order)]

(* Mutant: the end of the panel is one too far. *)
SelectPastEnd(i, n) ==
  LET idx == IF i < 0 THEN n - 1 ELSE IF i > n THEN 0 ELSE i
  IN  [curr |-> idx, col |-> idx % Columns,
       f_sele |-> idx % Field, page |-> idx \div Field]

(* layout_update_sele: i is curr_item after the movement, n is item_c. *)
Select(i, n) ==
  LET idx == IF i < 0 THEN n - 1 ELSE IF i > n - 1 THEN 0 ELSE i
  IN  [curr |-> idx, col |-> idx % Columns,
       f_sele |-> idx % Field, page |-> idx \div Field]

Identity == [i \in Apps |-> i]

Init ==
  /\ item_d = Identity
  /\ item_c = NumGames
  /\ sel = Select(0, NumGames)
  /\ aux = <<>> /\ kind = "none"
  /\ groups = Grouped(Identity)
  /\ active = "left" /\ page = 0
  /\ downloads = {}
  /\ stale = FALSE

-----------------------------------------------------------------------------
(* The left panel. *)

TurnPage ==
  /\ active = "left"
  /\ \/ page # 0 /\ page' = 0                 (* O                          *)
     \/ page = 0 /\ page' = 2                 (* Groups                     *)
     \/ page = 1 /\ page' \in {3, 4}          (* Sort by, Filter by         *)
     \/ page = 4 /\ page' = 5                 (* the values of a label      *)
  /\ UNCHANGED <<listVars, groups, active, downloads, stale>>

OpenGames ==
  /\ active = "left" /\ page = 0
  /\ page' = 1
  /\ active' = "icon"
  /\ UNCHANGED <<listVars, groups, downloads, stale>>

(* A list takes the place of the catalogue. *)
ShowList(list, what) ==
  /\ aux' = <<Header>> \o list
  /\ kind' = what
  /\ item_c' = Len(list)
  /\ sel' = Select(0, Len(list))
  /\ active' = "icon"

(* search_item_t looks at as many items as item_d[0].token_c says: the     *)
(* count is kept in games[0], which a sort may have moved away from there.  *)
Searched == IF item_d[0] = 0 THEN NumGames ELSE Tokens

(* The test for hits, on the pages of the left panel: without one it falls *)
(* through to the entries of the Games page, with the position of the      *)
(* group or of the value as the entry.                                     *)
FallThrough(p, position) ==
  IF p \in {2, 5} /\ position = 1 THEN 3
  ELSE IF p \in {2, 5} /\ position = 2 THEN 4
  ELSE p

(* Itemzflow, Search, or a Filter value. hits: what contains the pattern.  *)
Search(hits) ==
  /\ active = "left" /\ page \in {0, 1, 5}
  /\ LET list == IF Searched > NumGames
                 THEN <<>>
                 ELSE ListOf({i \in Apps : i < Searched /\ item_d[i] \in hits}, item_d)
     IN  IF list # <<>>
         THEN ShowList(list, "search") /\ UNCHANGED page
         ELSE /\ aux' = IF Searched > NumGames THEN <<>> ELSE <<Header>>
              /\ kind' = "search"
              /\ \E position \in 0 .. 2 : page' = FallThrough(page, position)
              /\ UNCHANGED <<item_c, sel, active>>
  /\ UNCHANGED <<item_d, groups, downloads, stale>>

(* A group's page. *)
ShowGroup(g) ==
  /\ active = "left" /\ page = 2
  /\ IF groups[g] # <<>>
     THEN ShowList(groups[g], "group") /\ UNCHANGED page
     ELSE /\ aux' = <<Header>> /\ kind' = "group"
          /\ page' = FallThrough(page, g - 1)
          /\ UNCHANGED <<item_c, sel, active>>
  /\ UNCHANGED <<item_d, groups, downloads, stale>>

(* Mutant: the selection is not reset for the new list. *)
ShowUpdatesKeepSelection(found) ==
  /\ active = "left" /\ page = 0
  /\ aux' = <<Header>> \o ListOf(found, Identity)
  /\ kind' = "updates"
  /\ item_c' = IF found = {} THEN item_c ELSE Len(aux') - 1
  /\ active' = "icon"
  /\ UNCHANGED <<item_d, sel, groups, page, downloads, stale>>

(* Update_View lists the games whose update_status is UPDATE_FOUND, by     *)
(* their index in games, and goes to the icon panel even if there is none.  *)
ShowUpdates(found) ==
  /\ active = "left" /\ page = 0
  /\ aux' = <<Header>> \o ListOf(found, Identity)
  /\ kind' = "updates"
  /\ item_c' = IF found = {} THEN item_c ELSE Len(aux') - 1
  /\ sel' = Select(0, item_c')
  /\ active' = "icon"
  /\ UNCHANGED <<item_d, groups, page, downloads, stale>>

(* Mutant: the groups stay as they were. *)
SortKeepsGroups(order) ==
  /\ active = "left" /\ page = 3
  /\ item_d' = order
  /\ sel' = Select(0, item_c)
  /\ active' = "icon"
  /\ stale' = FALSE
  /\ UNCHANGED <<item_c, aux, kind, groups, page, downloads>>

(* Sort by: item_d in a new order, and the groups with it. *)
Sort(order) ==
  /\ active = "left" /\ page = 3
  /\ item_d' = order
  /\ groups' = Grouped(order)
  /\ sel' = Select(0, item_c)
  /\ active' = "icon"
  /\ stale' = FALSE
  /\ UNCHANGED <<item_c, aux, kind, page, downloads>>

-----------------------------------------------------------------------------
(* The icon panel. *)

(* The catalogue again: item_d is copied from games, the groups stay.      *)
DropList ==
  /\ item_d' = Identity
  /\ stale' = (stale \/ item_d # Identity)
  /\ item_c' = NumGames
  /\ aux' = <<>> /\ kind' = "none"

(* Left from the first column: layout_update_sele goes to the left panel,   *)
(* and returns before it brings the other indexes in line with curr_item.   *)
LeaveLeft ==
  /\ active = "icon"
  /\ sel.col = 0
  /\ DropList
  /\ sel' = [sel EXCEPT !.curr = 0]
  /\ active' = "left"
  /\ UNCHANGED <<groups, page, downloads>>

Move(m) ==
  /\ active = "icon"
  /\ m = -1 => sel.col # 0
  /\ sel' = Select(sel.curr + m, item_c)
  /\ UNCHANGED <<item_d, item_c, aux, kind, groups, active, page, downloads, stale>>

(* What is stored behind the selected entry: past the end of the list, any *)
(* index.                                                                   *)
Stored ==
  IF sel.page * Field + sel.f_sele < Hits
  THEN {aux[sel.page * Field + sel.f_sele + 2].len}
  ELSE Apps

(* get_item_index, which looks into any list that has a header. *)
ItemIndex == IF aux = <<>> THEN {sel.curr} ELSE Stored

(* X on an icon. *)
OpenItem ==
  /\ active = "icon"
  /\ \E i \in IF Hits > 0 THEN Stored ELSE {sel.curr} :
       sel' = [sel EXCEPT !.curr = i]
  /\ active' = "item"
  /\ UNCHANGED <<item_d, item_c, aux, kind, groups, page, downloads, stale>>

(* X on a row of the queue. *)
OpenQueued(d) ==
  /\ active = "left" /\ page = 0
  /\ d \in downloads
  /\ sel' = Select(d, item_c)
  /\ active' = "item"
  /\ UNCHANGED <<item_d, item_c, aux, kind, groups, page, downloads, stale>>

(* O: back to the left panel; only a list that is there is dropped. *)
BackToLeft ==
  /\ active \in {"icon", "item"}
  /\ IF aux # <<>> THEN DropList ELSE UNCHANGED <<item_d, item_c, aux, kind, stale>>
  /\ sel' = Select(IF active = "icon" THEN 0 ELSE sel.curr, item_c')
  /\ active' = "left"
  /\ UNCHANGED <<groups, page, downloads>>

(* Download: the package of item_d[i], filed under i. *)
Download ==
  /\ active = "item"
  /\ Cardinality(downloads) < MaxDownloads
  /\ \E i \in ItemIndex :
       /\ i \notin downloads
       /\ downloads' = downloads \cup {i}
  /\ UNCHANGED <<listVars, groups, active, page, stale>>

(* The install ends, or the slot is freed: games[g_idx] is settled. *)
EndDownload(d) ==
  /\ d \in downloads
  /\ downloads' = downloads \ {d}
  /\ UNCHANGED <<listVars, groups, active, page, stale>>

Next ==
  \/ TurnPage \/ OpenGames
  \/ \E hits \in SUBSET Apps : Search(hits)
  \/ \E g \in Groups : ShowGroup(g)
  \/ \E found \in SUBSET Apps : ShowUpdates(found)
  \/ \E order \in Orders : Sort(order)
  \/ LeaveLeft
  \/ \E m \in {-1, 1, -Columns, Columns} : Move(m)
  \/ OpenItem
  \/ \E d \in downloads : OpenQueued(d) \/ EndDownload(d)
  \/ BackToLeft \/ Download

Spec == Init /\ [][Next]_vars

-----------------------------------------------------------------------------
(* Properties. *)

Denotes(i, e) == i \in Apps /\ item_d[i] = e

(* What is selected is what is shown. The panel's count is that of the     *)
(* list or of the catalogue, and the left panel is never left with a list  *)
(* behind it; the selection lies within the count, in the column that      *)
(* decides if Left leaves the panel; and within a list, whose entries are  *)
(* read by page and place, those two lead to the selected entry.           *)
SelectionShown ==
  /\ item_c = IF Hits > 0 THEN Hits ELSE NumGames
  /\ active = "left" => Hits <= 0
  /\ active = "icon" =>
       /\ sel.curr < item_c /\ sel.col = sel.curr % Columns
       /\ Hits > 0 => sel.curr = sel.page * Field + sel.f_sele

(* A search result leads to the app it was found for, sorted or not: the   *)
(* order never changes under it.                                           *)
SearchDenotes ==
  kind = "search" => \A k \in 2 .. Len(aux) : Denotes(aux[k].len, aux[k].app)

(* A group's list shows the apps of that group, all of them and no other,   *)
(* whatever has been sorted since the start. A list dropped after a sort    *)
(* takes the order back from under the groups; until the next sort makes    *)
(* them anew they may show anything.                                        *)
GroupShowsItsApps ==
  kind = "group" /\ ~stale =>
    \E g \in Groups :
      {item_d[aux[k].len] : k \in 2 .. Len(aux)} = {a \in Apps : GroupOf[a] = g}

(* A list on show leads to what it was made for, in whatever order the      *)
(* catalogue is by now: positions in item_d are all it consists of.         *)
ListsDenote == SearchDenotes /\ GroupShowsItsApps
=============================================================================
