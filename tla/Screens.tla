------------------------------ MODULE Screens ------------------------------
(***************************************************************************)
(* What the UI thread shows of the pool and what its buttons then do: the  *)
(* download panel of one item (GLES2_menu.cpp, X_action_dispatch), the     *)
(* "Queue" and "Ready to install" lists (GLES2_q.cpp) and the settings     *)
(* that rebuild the panel's texts.                                         *)
(*                                                                         *)
(* The panel keeps three things that have to agree with a slot nobody      *)
(* locks: how many entries it has (item_c), the texts it will be filled    *)
(* with (download_panel_text) and the texts on show (item_d). They are     *)
(* brought up to date once per frame and only where the code thinks it     *)
(* necessary; the threads that own the slots take steps of Pool between    *)
(* any two steps of the UI.                                                *)
(***************************************************************************)
EXTENDS Pool, FiniteSets

CONSTANT
  TakeOvers    (* whether a thread may go on with a slot taken from it     *)

VARIABLES
  auto,     (* set.auto_install                                            *)
  active,   (* active_p: the panel in control                              *)
  curr,     (* the item on show: icon_panel->curr_item for the drawing,    *)
            (* get_item_index for the buttons, which differ only behind a  *)
            (* list of a header alone (Catalog)                            *)
  item_c,   (* download_panel->item_c                                      *)
  text,     (* download_panel_text                                         *)
  label,    (* the text of each download_panel->item_d, "none" before any  *)
  rows,     (* queue_panel->item_c                                         *)
  row,      (* queue_panel->f_sele                                         *)
  ui,       (* a call the UI thread is in: the HEAD request or pkginstall  *)
  busy,     (* the slot of that call                                       *)
  live,     (* slots that were given a thread, which may still run         *)
  frame,    (* "due": not drawn since the last button; "drawn": the slots  *)
            (* are as in the frame on show; "old": a thread moved since    *)
  skewed    (* history: a settings change or a race that the code does not *)
            (* bring the panel in step with                                *)

panelVars == <<item_c, text, label>>
queueVars == <<rows, row>>
callVars  == <<ui, busy, live>>
vars      == <<poolVars, auto, active, curr, panelVars, queueVars, callVars, frame, skewed>>

Entries == 1 .. 3
Texts   == {"get", "pause", "resume", "install", "cancel"}

ASSUME ScreensAssumption ==
  /\ ENTRIES \in Nat \ {0}
  /\ NoItem \notin Items /\ Items # {}
  /\ TakeOvers \in BOOLEAN
  /\ Reports \subseteq Int \ {READY, PAUSED, PENDING}
  /\ {CANCELED, RUNNING, COMPLETED, INSTALLING_APP} \subseteq Reports

(* Entries the panel has for an item no slot serves, as Init leaves them. *)
Base == IF auto THEN 1 ELSE 2

Active == {PENDING, RUNNING, PAUSED, INSTALLING_APP}

StatusValues == Free \cup {PAUSED, PENDING} \cup Reports

TypeOK ==
  /\ status \in [Slots -> StatusValues]
  /\ g_idx \in [Slots -> Items \cup {NoItem}]
  /\ auto \in BOOLEAN
  /\ active \in {"home", "item", "queue", "ready"}
  /\ curr \in Items
  /\ item_c \in 1 .. 4
  /\ text \in [Entries -> Texts]
  /\ label \in [Entries -> Texts \cup {"none"}]
  /\ rows \in 0 .. ENTRIES
  /\ row \in 0 .. ENTRIES - 1
  /\ ui \in {"idle", "head", "install"}
  /\ busy \in Slots \cup {NoSlot}
  /\ busy \in Slots <=> ui # "idle"
  /\ live \subseteq Slots
  /\ frame \in {"due", "drawn", "old"}
  /\ skewed \in BOOLEAN

(* The texts LoadLangs sets, and those the panel uses with auto install. *)
LangTexts == <<"get", "install", "cancel">>
AutoTexts == <<"get", "cancel", "cancel">>

(* layout_fill_item_from_list on the first n entries. *)
Filled(t, n) == [e \in Entries |-> IF e <= n THEN t[e] ELSE label[e]]

Init ==
  /\ PoolInit
  /\ auto \in BOOLEAN
  /\ active = "home" /\ curr \in Items
  /\ item_c = Base
  /\ text = IF auto THEN AutoTexts ELSE LangTexts
  /\ label = [e \in Entries |-> IF e <= Base THEN text[e] ELSE "none"]
  /\ rows = 0 /\ row = 0
  /\ ui = "idle" /\ busy = NoSlot /\ live = {}
  /\ frame = "due" /\ skewed = FALSE

-----------------------------------------------------------------------------
(* The other threads. *)

Outdate == frame' = IF frame = "drawn" THEN "old" ELSE frame

(* Steps of Pool. A thread whose slot is its own writes while the slot is   *)
(* busy, ends an install when it is over, or leaves it to the console and   *)
(* empties the slot.                                                        *)
ThreadMoves ==
  /\ \E s \in live :
       \/ (Report(s) \/ Release(s)) /\ (TakeOvers \/ status[s] \in Active)
       \/ Settle(s) /\ (TakeOvers \/ status[s] \notin Free \cup Active)
  /\ Outdate
  /\ UNCHANGED <<auto, active, curr, panelVars, queueVars, callVars, skewed>>

(* An install that ends sets the first text, whatever item is on show. *)
ThreadRelabels ==
  /\ live # {}
  /\ text' = [text EXCEPT ![1] = "get"]
  /\ label' = [label EXCEPT ![1] = "get"]
  /\ Outdate
  /\ UNCHANGED <<poolVars, auto, active, curr, item_c, queueVars, callVars, skewed>>

-----------------------------------------------------------------------------
(* Drawing a frame. *)

DrawingStarts == ui = "idle" /\ frame # "drawn" /\ frame' = "drawn"

DrawHome ==
  /\ DrawingStarts
  /\ active = "home"
  /\ UNCHANGED <<poolVars, auto, active, curr, panelVars, queueVars, callVars, skewed>>

(* What the first entry says while a slot serves the item. *)
Caption == [v \in {PAUSED, RUNNING, COMPLETED} |->
              IF v = PAUSED THEN "resume" ELSE IF v = RUNNING THEN "pause" ELSE "install"]

(* Mutant: an entry more in every frame. *)
DrawServedWide ==
  /\ DrawingStarts
  /\ active = "item"
  /\ item_c' = item_c + 1
  /\ \E s \in Slots : Handles(s, curr)
  /\ UNCHANGED <<poolVars, auto, active, curr, text, label, queueVars, callVars, skewed>>

(* GLES2_render_download_panel, a slot serves the item: room for Cancel, *)
(* and the first text follows the status.                                *)
DrawServed ==
  /\ DrawingStarts
  /\ active = "item"
  /\ item_c' = IF item_c = Base THEN Base + 1 ELSE item_c
  /\ \E s \in Slots :
       /\ Handles(s, curr)
       /\ IF status[s] \in DOMAIN Caption
          THEN /\ text' = [text EXCEPT ![1] = Caption[status[s]]]
               /\ label' = [label EXCEPT ![1] = Caption[status[s]]]
          ELSE UNCHANGED <<text, label>>
  /\ UNCHANGED <<poolVars, auto, active, curr, queueVars, callVars, skewed>>

(* Mutant: the entry for Cancel stays when its slot is gone. *)
DrawUnservedAsIs ==
  /\ DrawingStarts
  /\ active = "item"
  /\ Unhandled(curr)
  /\ UNCHANGED <<poolVars, auto, active, curr, panelVars, queueVars, callVars, skewed>>

(* ... no slot does (any more): one entry less, and the texts anew. *)
DrawUnserved ==
  /\ DrawingStarts
  /\ active = "item"
  /\ Unhandled(curr)
  /\ IF item_c = Base + 1
     THEN /\ item_c' = Base
          /\ text' = [text EXCEPT ![1] = "get"]
          /\ label' = Filled(text', Base)
     ELSE UNCHANGED panelVars
  /\ UNCHANGED <<poolVars, auto, active, curr, queueVars, callVars, skewed>>

(* The rows of a list are the slots with its status by rank; in the queue, *)
(* where none has, the paused ones by the same rank.                       *)
With(v)      == {s \in Slots : status[s] = v}
Ranked(k, v) == {s \in With(v) : Cardinality({r \in With(v) : r < s}) = k}

Listed ==
  IF active = "queue" THEN RUNNING ELSE IF auto THEN INSTALLING_APP ELSE COMPLETED

RowSlots(k) ==
  IF active = "queue" /\ Ranked(k, Listed) = {} THEN Ranked(k, PAUSED)
                                                ELSE Ranked(k, Listed)

Count ==
  Cardinality(With(Listed)) + IF active = "queue" THEN Cardinality(With(PAUSED)) ELSE 0

(* Mutant: a list that got shorter keeps its selection. *)
DrawQueueAsIs ==
  /\ DrawingStarts
  /\ active \in {"queue", "ready"}
  /\ rows' = Count
  /\ active' = IF Count < 1 THEN "home" ELSE active
  /\ UNCHANGED <<poolVars, auto, curr, panelVars, row, callVars, skewed>>

(* GLES2_render_queue: an empty list gives control back. *)
DrawQueue ==
  /\ DrawingStarts
  /\ active \in {"queue", "ready"}
  /\ rows' = Count
  /\ IF Count < 1
     THEN active' = "home" /\ UNCHANGED row
     ELSE row' = (IF row > Count - 1 THEN 0 ELSE row) /\ UNCHANGED active
  /\ UNCHANGED <<poolVars, auto, curr, panelVars, callVars, skewed>>

-----------------------------------------------------------------------------
(* Buttons: at most one between two frames. *)

Press(a) == ui = "idle" /\ frame # "due" /\ active \in a /\ frame' = "due"

(* The first text follows the update status of the game, if that is known. *)
Greet ==
  \/ UNCHANGED <<text, label>>
  \/ text' = [text EXCEPT ![1] = "get"] /\ label' = [label EXCEPT ![1] = "get"]

OpenItem(i) ==
  /\ Press({"home"})
  /\ curr' = i /\ active' = "item"
  /\ Greet
  /\ UNCHANGED <<poolVars, auto, item_c, queueVars, callVars, skewed>>

OpenQueue ==
  /\ Press({"home"})
  /\ active' \in {"queue", "ready"}
  /\ UNCHANGED <<poolVars, auto, curr, panelVars, queueVars, callVars, skewed>>

(* Itemzflow and Updates (Install_View, Update_View) put a list in the      *)
(* catalogue's place, and fill the panel of the item not yet on show.       *)
ShowList ==
  /\ Press({"home"})
  /\ label' = Filled(text, item_c)
  /\ UNCHANGED <<poolVars, auto, active, curr, item_c, text, queueVars, callVars, skewed>>

MoveRow ==
  /\ Press({"queue", "ready"})
  /\ row' \in {IF row + 1 > rows - 1 THEN 0 ELSE row + 1,
               IF row = 0 THEN rows - 1 ELSE row - 1}
  /\ UNCHANGED <<poolVars, auto, active, curr, panelVars, rows, callVars, skewed>>

(* X on a row: the slot is looked up again. Without one pt_info[-1] is     *)
(* read, and a slot that has lost its item stores -1, which                *)
(* layout_update_sele turns into the last item: any item may come up.      *)
OpenRow ==
  /\ Press({"queue", "ready"})
  /\ LET items == {g_idx[s] : s \in RowSlots(row)} IN
       curr' \in IF items = {} \/ NoItem \in items THEN Items ELSE items
  /\ active' = "item"
  /\ Greet
  /\ UNCHANGED <<poolVars, auto, item_c, queueVars, callVars, skewed>>

Back ==
  /\ Press({"item", "queue", "ready"})
  /\ active' = "home"
  /\ UNCHANGED <<poolVars, auto, curr, panelVars, queueVars, callVars, skewed>>

PressPause ==
  /\ Press({"item"})
  /\ \E s \in Slots : Handles(s, curr) /\ Pause(s)
  /\ text' = [text EXCEPT ![1] = "resume"]
  /\ label' = Filled(text', item_c)
  /\ UNCHANGED <<auto, active, curr, item_c, queueVars, callVars, skewed>>

PressResume ==
  /\ Press({"item"})
  /\ \E s \in Slots :
       /\ Handles(s, curr) /\ status[s] = PAUSED
       /\ status' = [status EXCEPT ![s] = RUNNING]
  /\ text' = [text EXCEPT ![1] = "pause"]
  /\ label' = Filled(text', item_c)
  /\ UNCHANGED <<g_idx, auto, active, curr, item_c, queueVars, callVars, skewed>>

(* Download on an item without a slot. The entry for Cancel is added here *)
(* too, which is one too many if the frame on show still had a slot.      *)
(* Past three entries item_d is overrun: the model stops at four.         *)
PressDownload ==
  /\ Press({"item"})
  /\ Unhandled(curr)
  /\ item_c < 4
  /\ item_c' = item_c + 1
  /\ text' = [text EXCEPT ![1] = "pause"]
  /\ skewed' = (skewed \/ item_c > Base)
  /\ \/ /\ \A s \in Slots : status[s] \notin Free
        /\ label' = Filled(text', item_c')
        /\ UNCHANGED <<poolVars, ui, busy>>
     \/ \E s \in Slots :
          /\ Dispatchable(s)
          /\ Assign(curr)
          /\ ui' = "head" /\ busy' = s
          /\ UNCHANGED label
  /\ UNCHANGED <<auto, active, curr, queueVars, live>>

(* The Store's own entry is refused. *)
PressRefused ==
  /\ Press({"item"})
  /\ Unhandled(curr)
  /\ label' = Filled(text, item_c)
  /\ UNCHANGED <<poolVars, auto, active, curr, item_c, text, queueVars, callVars, skewed>>

(* The HEAD request is answered and the panel filled. *)
HeadEnds ==
  /\ ui = "head"
  /\ \/ /\ status' = [status EXCEPT ![busy] = IF @ < 1 THEN PENDING ELSE @]
        /\ live' = live \cup {busy}
     \/ /\ status' = [status EXCEPT ![busy] = CANCELED]
        /\ UNCHANGED live
  /\ label' = Filled(text, item_c)
  /\ ui' = "idle" /\ busy' = NoSlot
  /\ UNCHANGED <<g_idx, auto, active, curr, item_c, text, queueVars, frame, skewed>>

(* Install, from the first entry or the second: pkginstall begins. *)
PressInstall ==
  /\ Press({"item"})
  /\ \E s \in Slots :
       /\ Handles(s, curr) /\ status[s] = COMPLETED
       /\ status' = [status EXCEPT ![s] = INSTALLING_APP]
       /\ ui' = "install" /\ busy' = s
  /\ UNCHANGED <<g_idx, auto, active, curr, panelVars, queueVars, live, skewed>>

(* It fails, or has an error or COMPLETED to report when it goes on. *)
InstallReports ==
  /\ ui = "install"
  /\ Report(busy)
  /\ \/ UNCHANGED <<ui, busy>>
     \/ ui' = "idle" /\ busy' = NoSlot
  /\ UNCHANGED <<auto, active, curr, panelVars, queueVars, live, frame, skewed>>

(* It is left to a thread of its own, ... *)
InstallLeft ==
  /\ ui = "install"
  /\ live' = live \cup {busy}
  /\ ui' = "idle" /\ busy' = NoSlot
  /\ UNCHANGED <<poolVars, auto, active, curr, panelVars, queueVars, frame, skewed>>

(* ... or it is over here, as far as the Store is concerned. *)
InstallEnds ==
  /\ ui = "install"
  /\ Settle(busy) \/ Release(busy)
  /\ text' = [text EXCEPT ![1] = "get"]
  /\ label' = [label EXCEPT ![1] = "get"]
  /\ ui' = "idle" /\ busy' = NoSlot
  /\ UNCHANGED <<auto, active, curr, item_c, queueVars, live, frame, skewed>>

(* Cancel, the second entry with auto install and the third without. An   *)
(* entry that was never filled has no text to log, and the program ends.  *)
PressCancel ==
  /\ Press({"item"})
  /\ \E e \in Entries : e > Base /\ e <= item_c /\ label[e] # "none"
  /\ \E s \in Slots :
       /\ Handles(s, curr) /\ status[s] > READY
       /\ status' = [status EXCEPT ![s] = CANCELED]
       /\ g_idx' = [g_idx EXCEPT ![s] = NoItem]
  /\ UNCHANGED <<auto, active, curr, panelVars, queueVars, callVars, skewed>>

-----------------------------------------------------------------------------
(* Settings. *)

(* With auto install on, two entries become one, or three two: a second   *)
(* one that is not filled now keeps saying "install".                     *)
AutoOn ==
  /\ Press({"home"})
  /\ ~auto /\ auto' = TRUE
  /\ item_c > 1 /\ item_c' = item_c - 1
  /\ text' = [text EXCEPT ![1] = "get", ![2] = "cancel"]
  /\ label' = Filled(text', item_c')
  /\ skewed' = (skewed \/ item_c = 2)
  /\ UNCHANGED <<poolVars, active, curr, queueVars, callVars>>

AutoOff ==
  /\ Press({"home"})
  /\ auto /\ auto' = FALSE
  /\ item_c < 4 /\ item_c' = item_c + 1
  /\ text' = LangTexts
  /\ label' = Filled(text', item_c')
  /\ UNCHANGED <<poolVars, active, curr, queueVars, callVars, skewed>>

(* Save, or Reset and save: LoadOptions loads the texts again, those for  *)
(* auto install off, and may come back with auto install on; neither the  *)
(* entries nor their number follow.                                       *)
SaveSettings ==
  /\ Press({"home"})
  /\ auto' \in {auto, TRUE}
  /\ text' = LangTexts
  /\ skewed' = (skewed \/ auto')
  /\ UNCHANGED <<poolVars, active, curr, item_c, label, queueVars, callVars>>

-----------------------------------------------------------------------------
Threads == ThreadMoves \/ ThreadRelabels

Draw == DrawHome \/ DrawServed \/ DrawUnserved \/ DrawQueue

Navigate ==
  (\E i \in Items : OpenItem(i)) \/ OpenQueue \/ ShowList \/ MoveRow \/ OpenRow \/ Back

PressEntry ==
  \/ PressPause \/ PressResume \/ PressDownload \/ PressRefused
  \/ PressInstall \/ PressCancel

EndCall == HeadEnds \/ InstallReports \/ InstallLeft \/ InstallEnds

Settings == AutoOn \/ AutoOff \/ SaveSettings

Next == Threads \/ Draw \/ Navigate \/ PressEntry \/ EndCall \/ Settings

Spec == Init /\ [][Next]_vars

-----------------------------------------------------------------------------
(* Properties. *)

(* What a fresh frame of the download panel says is what its buttons do: an *)
(* entry beyond the base, Cancel, is there exactly while a slot serves the  *)
(* item, the second entry installs only with auto install off, and the      *)
(* first text is that of the slot's status. It holds through downloads,     *)
(* installs, cancels, list views and most settings changes; skewed names    *)
(* the steps after which the code leaves the panel behind.                  *)
PanelTruthful ==
  frame = "drawn" /\ active = "item" /\ ~skewed =>
    /\ IF Unhandled(curr)
       THEN item_c = Base /\ label[1] = "get"
       ELSE /\ item_c = Base + 1
            /\ \A s \in Slots :
                 Handles(s, curr) /\ status[s] \in DOMAIN Caption
                   => label[1] = Caption[status[s]]
    /\ \A e \in 2 .. item_c :
         label[e] \in IF e > Base THEN {"cancel", "none"} ELSE {"install"}

(* The selected row of a fresh list is one of its rows and has a slot, in    *)
(* "Ready to install" always and in the queue unless it mixes running with   *)
(* paused downloads: so X opens the item of a slot, and no index is -1.      *)
RowTruthful ==
  frame = "drawn" /\ active \in {"queue", "ready"} =>
    /\ row < rows
    /\ active = "ready" \/ With(RUNNING) = {} \/ With(PAUSED) = {} => RowSlots(row) # {}

(* GLES2_layout_actions.cpp:219, "this should not happen": the selected row  *)
(* of a fresh list always has a slot.                                        *)
RankHasSlot ==
  frame = "drawn" /\ active \in {"queue", "ready"} => RowSlots(row) # {}
=============================================================================
