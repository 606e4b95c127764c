------------------------------- MODULE Icons -------------------------------
(***************************************************************************)
(* The pictures of the icon panel (GLES2_layout.cpp): the render thread    *)
(* draws a page of icons, loads the pictures that are there and starts one *)
(* thread that downloads the missing ones; the lists of the catalogue, a   *)
(* sort and the "Ready to install" view change or read the same items      *)
(* while that thread is in the middle of a download, and Clear cache       *)
(* deletes the files.                                                      *)
(*                                                                         *)
(* icon_panel->mtx is held for each icon that is drawn and for each call   *)
(* of check_n_load_texture, except while a download runs: the item is      *)
(* addressed by its position before and after. App a is games[a].          *)
(***************************************************************************)
EXTENDS Integers, Sequences, FiniteSets

CONSTANTS
  NumApps,     (* games[0].token_c                                          *)
  FieldSize,   (* icons on a page                                           *)
  Keep,        (* positions around the page that drop_some_icon0 spares: 80 *)
  MinCount,    (* catalogue size up to which nothing is dropped: 150        *)
  Preloaded,   (* apps whose picture was loaded with the database (sql.cpp) *)
  Clearable,   (* apps whose picture Clear cache deletes: rmtree may fail   *)
  Lists        (* result lists: sequences of positions                      *)

Pos == 0 .. NumApps - 1

ASSUME IconsAssumption ==
  /\ NumApps \in Nat \ {0} /\ FieldSize \in Nat \ {0}
  /\ Keep \in Nat /\ MinCount \in Nat
  /\ Preloaded \subseteq Pos /\ Clearable \subseteq Pos
  /\ Lists \subseteq Seq(Pos) \ {<<>>}
  /\ \A list \in Lists : Len(list) <= NumApps

VARIABLES
  item_d,     (* icon_panel->item_d: app, texture, failed_dl, png_is_loaded *)
  alive,      (* preloaded textures, which games holds too, not deleted     *)
  file,       (* the picture of each app on disk                            *)
  writer,     (* who writes to that file                                    *)
  aux,        (* the positions of the list on show, <<>>: the catalogue     *)
  curr, page, (* icon_panel: curr_item and page_sel.x                       *)
  active,     (* the view and the panel in control                          *)
  is_sort_panel,
  ui,         (* where the render thread is in a frame                      *)
  fresh,      (* vaild_icon_c of this frame                                 *)
  old_idx,    (* first position of the page a thread was last started for   *)
  searched,   (* aux_addr = &aux                                            *)
  old_num,    (* old_num_of_items: the list's page a thread was started for *)
  is_icons_finished, icons_thread_started,
  loader,     (* the icons thread, and the render thread in the Ready view  *)
  replaced,   (* history: item_d replaced, or pictures deleted or not even  *)
              (* asked for, since a page thread was started                 *)
  crossed     (* history: a download ended at a position of another app     *)

itemVars  == <<item_d, alive, file, writer>>
listVars  == <<aux, curr, page>>
viewVars  == <<active, is_sort_panel>>
spawnVars == <<old_idx, searched, old_num>>
flagVars  == <<is_icons_finished, icons_thread_started>>
vars == <<itemVars, listVars, viewVars, ui, fresh, spawnVars, flagVars, loader, replaced, crossed>>

Item    == [app : Pos, tex : {"null", "fallback", "pre", "own"}, failed : BOOLEAN, loaded : BOOLEAN]
Loader  == [pc : {"off", "check", "fetch", "load", "finish", "close"},
            todo : Seq(Pos), app : Pos]

Idle == is_icons_finished /\ ~icons_thread_started

(* Positions stay in the list, the sort branch of the frame never meets a  *)
(* result list, whose positions its test of item_c would take for the end, *)
(* and the flags say whether there is a thread.                            *)
TypeOK ==
  /\ item_d \in [Pos -> Item]
  /\ \A a \in Pos : \E p \in Pos : item_d[p].app = a
  /\ alive \subseteq Preloaded
  /\ file \in [Pos -> {"none", "bad", "good"}]
  /\ writer \in [Pos -> {"nobody", "thread", "view"}]
  /\ aux \in Lists \cup {<<>>}
  /\ curr \in Pos /\ page \in 0 .. NumApps
  /\ active \in {"left", "icons", "item", "ready"}
  /\ is_sort_panel \in BOOLEAN /\ (is_sort_panel => aux = <<>>)
  /\ ui \in {"frame", "search", "page"}
  /\ fresh \in 0 .. FieldSize
  /\ old_idx \in Pos \cup {-1} /\ searched \in BOOLEAN /\ old_num \in 0 .. NumApps
  /\ is_icons_finished \in BOOLEAN /\ icons_thread_started \in BOOLEAN
  /\ loader \in [{"thread", "view"} -> Loader]
  /\ Idle <=> loader["thread"].pc = "off"
  /\ replaced \in BOOLEAN /\ crossed \in BOOLEAN

(* item_d as it is copied from games. *)
Games ==
  [p \in Pos |-> [app |-> p, tex |-> IF p \in Preloaded THEN "pre" ELSE "null",
                  failed |-> FALSE, loaded |-> FALSE]]

Off == [pc |-> "off", todo |-> <<>>, app |-> 0]

Init ==
  /\ item_d = Games
  /\ alive = Preloaded
  /\ file \in [Pos -> {"none", "bad", "good"}]
  /\ \A a \in Preloaded : file[a] = "good"
  /\ writer = [a \in Pos |-> "nobody"]
  /\ aux = <<>> /\ curr = 0 /\ page = 0
  /\ active = "left" /\ is_sort_panel = FALSE
  /\ ui = "frame" /\ fresh = 0
  /\ old_idx = -1 /\ searched = FALSE /\ old_num = 0
  /\ is_icons_finished = TRUE /\ icons_thread_started = FALSE
  /\ loader = [t \in {"thread", "view"} |-> Off]
  /\ replaced = FALSE /\ crossed = FALSE

-----------------------------------------------------------------------------
(* check_n_load_texture, for an item and the file of its app. *)

(* TEXTURE_LOAD_DEFAULT *)
Default(it) ==
  IF it.tex = "null"
  THEN [it EXCEPT !.tex = "fallback", !.failed = FALSE, !.loaded = FALSE]
  ELSE it

(* The last branch, and the end: a picture that is there is loaded. *)
Loads(it, f) == it.tex \in {"null", "fallback"} /\ f = "good"
LoadAny(it, f) ==
  IF Loads(it, f) THEN [it EXCEPT !.tex = "own", !.loaded = TRUE]
  ELSE IF it.tex = "null" THEN [it EXCEPT !.tex = "fallback"]
  ELSE it

Wanted(it)     == it.tex = "fallback" /\ ~it.failed
Downloaded(it) == Wanted(it) /\ it.loaded

(* TEXTURE_LOAD_PNG *)
LoadPng(it, f) ==
  IF Downloaded(it)
  THEN IF f = "good" THEN [it EXCEPT !.tex = "own"] ELSE [it EXCEPT !.failed = TRUE]
  ELSE LoadAny(it, f)

(* TEXTURE_DOWNLOAD, as far as it goes without a download. *)
NeedsFetch(it, f) == Wanted(it) /\ f # "good"
Keeps(it, f) == IF Wanted(it) THEN [it EXCEPT !.loaded = TRUE] ELSE LoadAny(it, f)

(* What a download leaves: the result of dl_from_url and the file, which   *)
(* without a curl handle is success and no file.                            *)
NoHandle == [ok |-> TRUE, file |-> "none"]
Outcomes ==
  {NoHandle} \cup [ok : {TRUE}, file : {"bad", "good"}] \cup [ok : {FALSE}, file : {"none", "bad"}]

(* TEXTURE_DOWNLOAD after dl_from_url. *)
Fetched(it, ok, f) ==
  IF ~ok THEN [it EXCEPT !.tex = "fallback", !.failed = TRUE]
  ELSE IF f = "good" THEN [it EXCEPT !.loaded = TRUE]
  ELSE it

-----------------------------------------------------------------------------
(* A call of check_n_load_texture with TEXTURE_DOWNLOAD that gives up the   *)
(* lock for a download, which begins with a new, empty file: the icons     *)
(* thread, or the render thread in the Ready view.                          *)

Position(t) == Head(loader[t].todo)

(* The call returns: the thread goes on to its next position and ends with *)
(* two stores, the view loads what was downloaded.                         *)
Returned(t) ==
  IF t = "view" THEN [pc |-> "load", todo |-> loader[t].todo, app |-> 0]
  ELSE [pc |-> IF Len(loader[t].todo) = 1 THEN "finish" ELSE "check",
        todo |-> Tail(loader[t].todo), app |-> 0]

Check(t) ==
  LET p == Position(t)
      a == item_d[p].app
  IN  /\ loader[t].pc = "check"
      /\ IF NeedsFetch(item_d[p], file[a])
         THEN /\ file' = [file EXCEPT ![a] = "bad"]
              /\ writer' = [writer EXCEPT ![a] = t]
              /\ loader' = [loader EXCEPT ![t] = [pc |-> "fetch", todo |-> @.todo, app |-> a]]
              /\ UNCHANGED item_d
         ELSE /\ item_d' = [item_d EXCEPT ![p] = Keeps(@, file[a])]
              /\ loader' = [loader EXCEPT ![t] = Returned(t)]
              /\ UNCHANGED <<file, writer>>
      /\ UNCHANGED <<alive, listVars, viewVars, ui, fresh, spawnVars, flagVars, replaced, crossed>>

(* dl_from_url ends; what was written to a file that another download or   *)
(* Clear cache has unlinked is lost. The lock again: the result goes to    *)
(* whatever is at the position now, and the file that is validated is the  *)
(* one of the name, whoever wrote it. A file that is deleted between the   *)
(* download and this check is as one deleted just before the end.          *)
FetchEnds(t) ==
  LET a == loader[t].app
      p == Position(t)
  IN  /\ loader[t].pc = "fetch"
      /\ \E o \in IF writer[a] = t THEN Outcomes ELSE [ok : BOOLEAN, file : {file[a]}] :
           /\ file' = [file EXCEPT ![a] = o.file]
           /\ item_d' = [item_d EXCEPT ![p] = Fetched(@, o.ok, o.file)]
           /\ replaced' = (replaced \/ o = NoHandle)
      /\ writer' = [writer EXCEPT ![a] = IF @ = t THEN "nobody" ELSE @]
      /\ crossed' = (crossed \/ item_d[p].app # a)
      /\ loader' = [loader EXCEPT ![t] = Returned(t)]
      /\ UNCHANGED <<alive, listVars, viewVars, ui, fresh, spawnVars, flagVars>>

(* Mutant: the thread ends and leaves is_icons_finished as it is. *)
FinishSilently ==
  /\ loader["thread"].pc = "finish"
  /\ loader' = [loader EXCEPT !["thread"] = [@ EXCEPT !.pc = "close"]]
  /\ UNCHANGED <<itemVars, listVars, viewVars, ui, fresh, spawnVars, flagVars, replaced, crossed>>

(* download_icons_thread ends. *)
Finish ==
  /\ loader["thread"].pc = "finish"
  /\ is_icons_finished' = TRUE
  /\ loader' = [loader EXCEPT !["thread"] = [@ EXCEPT !.pc = "close"]]
  /\ UNCHANGED <<itemVars, listVars, viewVars, ui, fresh, spawnVars, icons_thread_started, replaced, crossed>>

Close ==
  /\ loader["thread"].pc = "close"
  /\ icons_thread_started' = FALSE
  /\ loader' = [loader EXCEPT !["thread"] = Off]
  /\ UNCHANGED <<itemVars, listVars, viewVars, ui, fresh, spawnVars, is_icons_finished, replaced, crossed>>

-----------------------------------------------------------------------------
(* The frame: GLES2_render_layout_v2 for the icon panel. *)

Count  == IF aux = <<>> THEN NumApps ELSE Len(aux)
g_idx  == page * FieldSize
f_size == IF Count - g_idx < FieldSize THEN Count - g_idx ELSE FieldSize
Page1  == (curr \div FieldSize) + 1          (* pi.x *)
Shown  == {IF aux = <<>> THEN g_idx + i ELSE aux[g_idx + i + 1] : i \in 0 .. f_size - 1}

OtherList == aux # <<>> /\ (~searched \/ Page1 # old_num)
OtherPage == old_idx # g_idx

Prepared(it) ==
  IF (IF aux = <<>> THEN OtherPage ELSE OtherList) THEN Default(it) ELSE it

(* On the Sort page the render thread itself downloads, one icon after the *)
(* other, as long as no thread does.                                        *)
Serves == is_sort_panel /\ Idle
Asks(it) == it.tex = "null" \/ Wanted(it)

(* One icon: what becomes of its item, of its file, and whether            *)
(* TEXTURE_LOAD_PNG returned true.                                          *)
Drawn(it, f, o) ==
  LET fetches == Serves /\ Asks(it) /\ NeedsFetch(it, f)
      g       == IF fetches THEN o.file ELSE f
      loaded  == IF fetches THEN Fetched(it, o.ok, g) ELSE Keeps(it, f)
      ready   == IF Serves /\ Asks(it) THEN LoadPng(loaded, g)
                 ELSE IF is_sort_panel THEN it ELSE LoadPng(it, f)
  IN  [item |-> LoadAny(ready, g), file |-> g,
       counts |-> ~is_sort_panel /\ ~Downloaded(it) /\ Loads(it, f)]

InView == active \in {"left", "icons"}

Draw ==
  /\ ui = "frame" /\ InView
  /\ \E o \in [Shown -> IF Serves THEN Outcomes ELSE {[ok |-> TRUE, file |-> "good"]}] :
       LET drawn == [p \in Shown |-> Drawn(Prepared(item_d[p]), file[item_d[p].app], o[p])]
       IN  /\ item_d' = [p \in Pos |-> IF p \in Shown THEN drawn[p].item ELSE item_d[p]]
           /\ file' = [a \in Pos |->
                         IF \E p \in Shown : item_d[p].app = a
                         THEN drawn[CHOOSE p \in Shown : item_d[p].app = a].file
                         ELSE file[a]]
           /\ fresh' = Cardinality({p \in Shown : drawn[p].counts})
           /\ replaced' = (replaced \/ \E p \in Shown : o[p] = NoHandle)
  /\ ui' = "search"
  /\ UNCHANGED <<alive, writer, listVars, viewVars, spawnVars, flagVars, loader, crossed>>

Start(todo) ==
  /\ is_icons_finished' = FALSE
  /\ icons_thread_started' = TRUE
  /\ loader' = [loader EXCEPT !["thread"] = [pc |-> "check", todo |-> todo, app |-> 0]]

(* A thread for the list on show, or rather for its page. *)
StartSearch ==
  /\ ui = "search"
  /\ ui' = "page"
  /\ IF OtherList /\ Idle
     THEN Start(aux) /\ searched' = TRUE /\ old_num' = Page1
     ELSE UNCHANGED <<flagVars, loader, searched, old_num>>
  /\ UNCHANGED <<itemVars, listVars, viewVars, fresh, old_idx, replaced, crossed>>

(* A thread for the page of the catalogue. *)
StartPage ==
  /\ ui = "page"
  /\ ui' = "frame" /\ fresh' = 0
  /\ IF OtherPage /\ Idle /\ f_size > fresh
     THEN /\ Start([i \in 1 .. f_size |-> g_idx + i - 1])
          /\ old_idx' = g_idx
          /\ replaced' = FALSE
     ELSE UNCHANGED <<flagVars, loader, old_idx, replaced>>
  /\ UNCHANGED <<itemVars, listVars, viewVars, searched, old_num, crossed>>

(* The Ready view's row of the item at p. *)
DrawRow(p) ==
  /\ ui = "frame" /\ active = "ready" /\ loader["view"].pc = "off"
  /\ p # 0
  /\ loader' = [loader EXCEPT !["view"] = [pc |-> "check", todo |-> <<p>>, app |-> 0]]
  /\ UNCHANGED <<itemVars, listVars, viewVars, ui, fresh, spawnVars, flagVars, replaced, crossed>>

LoadRow ==
  LET p == Position("view")
  IN  /\ loader["view"].pc = "load"
      /\ item_d' = [item_d EXCEPT ![p] = LoadPng(@, file[@.app])]
      /\ loader' = [loader EXCEPT !["view"] = Off]
      /\ UNCHANGED <<alive, file, writer, listVars, viewVars, ui, fresh, spawnVars, flagVars, replaced, crossed>>

(* Between two frames, and not in a row's download. *)
Free == ui = "frame" /\ loader["view"].pc = "off"

Far(p) == p >= curr + f_size + Keep \/ p <= curr - f_size - Keep

(* Mutant: reset_tex_slot deletes what the panel did not load itself. *)
DiscardAny(p) == p < Count /\ Far(p) /\ item_d[p].tex \in {"pre", "own"}

(* reset_tex_slot *)
Discard(p) == p < Count /\ Far(p) /\ item_d[p].tex \in {"pre", "own"} /\ item_d[p].loaded

(* drop_some_icon0, when the clock or a button has the system info drawn.  *)
DropSome ==
  /\ Free /\ Idle /\ Count > MinCount
  /\ item_d' = [p \in Pos |-> IF Discard(p) THEN [item_d[p] EXCEPT !.tex = "null"] ELSE item_d[p]]
  /\ alive' = alive \ {item_d[p].app : p \in {p \in Pos : Discard(p) /\ item_d[p].tex = "pre"}}
  /\ UNCHANGED <<file, writer, listVars, viewVars, ui, fresh, spawnVars, flagVars, loader, replaced, crossed>>

-----------------------------------------------------------------------------
(* The lists and the views, as far as the icons depend on them. *)

Stay == UNCHANGED <<file, writer, alive, ui, fresh, spawnVars, flagVars, loader, crossed>>

(* The left panel turns a page: on Sort by, the flag is set. *)
TurnPage ==
  /\ Free /\ active = "left"
  /\ is_sort_panel' \in BOOLEAN
  /\ Stay /\ UNCHANGED <<item_d, listVars, active, replaced>>

OpenGames ==
  /\ Free /\ active = "left" /\ ~is_sort_panel
  /\ active' = "icons"
  /\ Stay /\ UNCHANGED <<item_d, listVars, is_sort_panel, replaced>>

(* Mutant: the Groups page does not reset the flag. *)
ShowListSorting(list) ==
  /\ Free /\ active = "left"
  /\ aux' = list
  /\ curr' = 0 /\ page' = 0
  /\ active' = "icons"
  /\ Stay /\ UNCHANGED <<item_d, is_sort_panel, replaced>>

(* A search, a group or the updates. *)
ShowList(list) ==
  /\ Free /\ active = "left" /\ ~is_sort_panel
  /\ aux' = list
  /\ curr' = 0 /\ page' = 0
  /\ active' = "icons"
  /\ Stay /\ UNCHANGED <<item_d, is_sort_panel, replaced>>

Sort(order) ==
  /\ Free /\ active = "left" /\ is_sort_panel
  /\ item_d' = [p \in Pos |-> item_d[order[p]]]
  /\ curr' = 0 /\ page' = 0
  /\ active' = "icons"
  /\ replaced' = TRUE
  /\ Stay /\ UNCHANGED <<aux, is_sort_panel>>

Move(i) ==
  /\ Free /\ active = "icons"
  /\ i \in 0 .. Count - 1
  /\ curr' = i /\ page' = i \div FieldSize
  /\ Stay /\ UNCHANGED <<item_d, aux, viewVars, replaced>>

(* A list is dropped, and item_d copied from games. *)
Restore == item_d' = Games /\ aux' = <<>> /\ replaced' = TRUE

(* Left from the first column: the page stays that of the list. *)
LeaveLeft ==
  /\ Free /\ active = "icons"
  /\ Restore
  /\ curr' = 0
  /\ active' = "left"
  /\ Stay /\ UNCHANGED <<page, is_sort_panel>>

(* X on an icon of a list makes curr_item the position stored there. *)
OpenItem ==
  /\ Free /\ active = "icons"
  /\ curr' = IF aux = <<>> THEN curr ELSE aux[curr + 1]
  /\ active' = "item"
  /\ Stay /\ UNCHANGED <<item_d, aux, page, is_sort_panel, replaced>>

(* O *)
Back ==
  /\ Free /\ active \in {"icons", "item"}
  /\ IF aux = <<>> THEN UNCHANGED <<item_d, aux, replaced>> ELSE Restore
  /\ curr' = IF active = "icons" THEN 0 ELSE curr
  /\ page' = curr' \div FieldSize
  /\ active' = "left"
  /\ Stay /\ UNCHANGED is_sort_panel

ShowReady ==
  /\ Free
  /\ \/ active = "left" /\ ~is_sort_panel /\ active' = "ready"
     \/ active = "ready" /\ active' = "left"
  /\ Stay /\ UNCHANGED <<item_d, listVars, is_sort_panel, replaced>>

Orders == {o \in [Pos -> Pos] : \A p, q \in Pos : o[p] = o[q] => p = q}

(* The settings: rmtree on storedata. A picture that is being downloaded *)
(* loses its name.                                                       *)
ClearCache ==
  /\ Free /\ active = "left" /\ ~is_sort_panel
  /\ file' = [a \in Pos |-> IF a \in Clearable THEN "none" ELSE file[a]]
  /\ writer' = [a \in Pos |-> IF a \in Clearable THEN "nobody" ELSE writer[a]]
  /\ replaced' = TRUE
  /\ UNCHANGED <<item_d, alive, listVars, viewVars, ui, fresh, spawnVars, flagVars, loader, crossed>>

(* The buttons. *)
Press ==
  \/ TurnPage \/ OpenGames \/ LeaveLeft \/ OpenItem \/ Back \/ ShowReady \/ ClearCache
  \/ \E list \in Lists : ShowList(list)
  \/ \E order \in Orders : Sort(order)
  \/ \E i \in Pos : Move(i)

Load(t) == Check(t) \/ FetchEnds(t)

Frame == Draw \/ StartSearch \/ StartPage \/ LoadRow \/ Load("view")

Thread == Load("thread") \/ Finish \/ Close

Next == Frame \/ Thread \/ (\E p \in Pos : DrawRow(p)) \/ DropSome \/ Press

(* Frames are drawn and both loaders go on; a download ends (a connection  *)
(* that the server closes, or fails, ends it). Nobody has to press.         *)
Fairness == WF_vars(Frame) /\ WF_vars(Thread)

Spec == Init /\ [][Next]_vars /\ Fairness

-----------------------------------------------------------------------------
(* Properties. *)

(* A texture loaded with the database is held by item_d and by games: no   *)
(* panel may delete it, or the next list that is dropped brings back the   *)
(* name of a texture that is gone. What spares it is png_is_loaded, which   *)
(* check_n_load_texture sets for the position its download began at; only  *)
(* a list replaced in the middle of a download takes that protection away.  *)
SharedTexturesLive == crossed \/ alive = Preloaded

(* The icon at p needs no more work: its picture is on show, or its        *)
(* download failed, or what the server sent is no picture.                  *)
Served(p) ==
  item_d[p].tex \in {"pre", "own"} \/ item_d[p].failed \/ file[item_d[p].app] = "bad"

(* A page of the catalogue that stays on show is served in the end,        *)
(* whatever thread was busy when it was opened, which lists were shown,     *)
(* what was dropped and what Clear cache deleted before its thread was      *)
(* started. It is not when item_d was replaced, files were deleted or a     *)
(* download had no curl handle since then, unless the Sort branch serves    *)
(* it: old_idx still names the page, so nobody starts a thread for what is  *)
(* missing, and a picture that is gone before its check stays a fallback.   *)
OnPage(k) ==
  /\ InView /\ aux = <<>> /\ page = k /\ curr \div FieldSize = k
  /\ replaced => is_sort_panel

(* A download says that it succeeded, and there is no picture. *)
Vanishes ==
  LET Missing(p) == Wanted(item_d'[p]) /\ file'[item_d'[p].app] = "none"
  IN  \/ Draw /\ Serves /\ \E p \in Shown : Missing(p)
      \/ \E t \in {"thread", "view"} : FetchEnds(t) /\ Missing(Position(t))

Replaces == LeaveLeft \/ ClearCache \/ Vanishes \/ \E order \in Orders : Sort(order)

PageServed ==
  \A k \in 0 .. (NumApps - 1) \div FieldSize :
    <>[]OnPage(k) /\ <>[][~Replaces]_vars =>
      <>[](\A p \in Pos : p \div FieldSize = k => Served(p))
=============================================================================
