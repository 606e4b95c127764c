------------------------------ MODULE Updates ------------------------------
(***************************************************************************)
(* The thread that checks every game for an update, beside the UI thread   *)
(* and a thread that ends an install: the recursive mutexes of the two     *)
(* panels, the "show progress" handshake, and the counter behind the       *)
(* "Updates" badge, which no mutex protects.                               *)
(***************************************************************************)
EXTENDS Integers, FiniteSets

CONSTANTS
  NumGames,     (* games[0].token_c                                        *)
  MaxInstalls   (* bound: installs that end                                *)

ASSUME UpdatesAssumption == NumGames \in Nat /\ MaxInstalls \in Nat

Games   == 1 .. NumGames
Mutexes == {"icon", "left"}       (* icon_panel->mtx and left_panel2->mtx *)
Threads == {"ui", "updater", "installer"}

VARIABLES
  owner, depth,     (* the mutexes: owner "none" when free                 *)
  ui,               (* where the UI thread is                              *)
  active,           (* active_p: left_panel2, icon_panel, download_panel   *)
                    (* ("item"), queue_panel or option_panel               *)
  up, k, loaded,    (* the update thread: place, game, status it copies    *)
  inst, game,       (* the installing thread and its game                  *)
  update_status,    (* of each game                                        *)
  updates_counter,
  finished,         (* update_check_finised                                *)
  show_prog,
  installs, raced,  (* history: installs begun, and the games whose install *)
                    (* ended in the middle of their own check              *)
  asked             (* history: the user has asked to see the progress     *)

locks   == <<owner, depth>>
uiVars  == <<ui, active>>
upVars  == <<up, k, loaded>>
insVars == <<inst, game, installs, raced>>
badge   == <<update_status, updates_counter>>
flags   == <<finished, show_prog, asked>>
vars    == <<locks, uiVars, upVars, insVars, badge, flags>>

Statuses == {"UPDATE_NOT_CHECKED", "UPDATE_FOUND", "NO_UPDATE", "APP_NOT_INSTALLED"}
Panels   == {"left", "icon", "item", "queue", "option"}
UIPlaces == {"frame", "menu?", "menu", "search?", "search", "dialog", "spin", "leave",
             "back?", "item?", "left?", "icons?"}
UpPlaces == {"db", "progress?", "check", "count", "badge?", "load", "store", "finish?",
             "sleep"}

Found == {g \in Games : update_status[g] = "UPDATE_FOUND"}

TypeOK ==
  /\ owner \in [Mutexes -> Threads \cup {"none"}]
  /\ depth \in [Mutexes -> Nat]
  /\ \A m \in Mutexes : owner[m] = "none" <=> depth[m] = 0
  /\ ui \in UIPlaces
  /\ active \in Panels
  /\ up \in UpPlaces
  /\ k \in 1 .. NumGames + 1
  /\ up \in {"count", "badge?", "load", "store"} => k \in Games
  /\ loaded \in Statuses
  /\ inst \in {"none", "settle?"}
  /\ game \in Games \cup {0}
  /\ inst # "none" => game \in Games
  /\ update_status \in [Games -> Statuses]
  /\ updates_counter \in Nat
  /\ finished \in BOOLEAN /\ show_prog \in BOOLEAN
  /\ installs \in 0 .. MaxInstalls
  /\ raced \subseteq Games
  /\ asked \in BOOLEAN

Init ==
  /\ owner = [m \in Mutexes |-> "none"]
  /\ depth = [m \in Mutexes |-> 0]
  /\ ui = "frame" /\ active = "left"
  /\ up = "db" /\ k = 1 /\ loaded = "UPDATE_NOT_CHECKED"
  /\ inst = "none" /\ game = 0
  /\ update_status = [g \in Games |-> "UPDATE_NOT_CHECKED"]
  /\ updates_counter = 0
  /\ finished = FALSE /\ show_prog = FALSE
  /\ installs = 0 /\ raced = {} /\ asked = FALSE

-----------------------------------------------------------------------------
(* std::recursive_mutex. Unlocking what another thread holds, or nobody,   *)
(* does nothing: pthread_mutex_unlock fails and the result is not looked at. *)

Free(m, t) == owner[m] \in {t, "none"}

Lock(m, t) ==
  /\ Free(m, t)
  /\ owner' = [owner EXCEPT ![m] = t]
  /\ depth' = [depth EXCEPT ![m] = @ + 1]

Unlock(m, t) ==
  IF owner[m] = t
  THEN /\ owner' = [owner EXCEPT ![m] = IF depth[m] = 1 THEN "none" ELSE t]
       /\ depth' = [depth EXCEPT ![m] = @ - 1]
  ELSE UNCHANGED locks

(* A critical section that takes no other mutex is a single step. *)
Use(m, t) == Free(m, t) /\ UNCHANGED locks

-----------------------------------------------------------------------------
(* The UI thread: a frame is a button press, if there is one, and a render. *)

UIStep(from, to) == ui = from /\ ui' = to

(* X on an entry of the left panel, on an item or a queued download, or on  *)
(* a setting, which brings the left panel up to date. On the item's page    *)
(* it takes no mutex: NoPress.                                              *)
PressX ==
  /\ \/ active = "left" /\ UIStep("frame", "menu?")
     \/ active \in {"icon", "queue"} /\ UIStep("frame", "item?")
     \/ active = "option" /\ UIStep("frame", "back?")
  /\ UNCHANGED <<locks, active, upVars, insVars, badge, flags>>

(* O goes back; only the left panel's own page is locked for it.            *)
PressO ==
  /\ \/ active = "left" /\ UIStep("frame", "back?") /\ UNCHANGED active
     \/ active = "item" /\ UIStep("frame", "left?") /\ active' = "icon"
     \/ active \in {"icon", "queue", "option"} /\ UIStep("frame", "left?") /\ active' = "left"
  /\ UNCHANGED <<locks, upVars, insVars, badge, flags>>

NoPress ==
  /\ UIStep("frame", "left?")
  /\ UNCHANGED <<locks, active, upVars, insVars, badge, flags>>

Back ==
  /\ UIStep("back?", "left?")
  /\ Use("left", "ui")
  /\ UNCHANGED <<active, upVars, insVars, badge, flags>>

(* The item's page: its update_status is read under the icon panel's mutex. *)
ShowItem ==
  /\ UIStep("item?", "leave")
  /\ Use("icon", "ui")
  /\ active' = "item"
  /\ UNCHANGED <<upVars, insVars, badge, flags>>

EnterMenu ==
  /\ UIStep("menu?", "menu")
  /\ Lock("left", "ui")
  /\ UNCHANGED <<active, upVars, insVars, badge, flags>>

(* Apps, Groups, the two queues, Settings. *)
ChooseView ==
  /\ UIStep("menu", "leave")
  /\ active' \in {"left", "icon", "queue", "option"}
  /\ UNCHANGED <<locks, upVars, insVars, badge, flags>>

(* Itemzflow, Search, Sort, Filter: the icon panel's mutex as well. *)
ChooseSearch ==
  /\ UIStep("menu", "search?")
  /\ UNCHANGED <<locks, active, upVars, insVars, badge, flags>>

BeginSearch ==
  /\ UIStep("search?", "search")
  /\ Lock("icon", "ui")
  /\ UNCHANGED <<active, upVars, insVars, badge, flags>>

(* Mutant: the search returns without unlocking. *)
EndSearchLocked ==
  /\ UIStep("search", "leave")
  /\ active' \in {active, "icon"}
  /\ UNCHANGED <<locks, upVars, insVars, badge, flags>>

EndSearch ==
  /\ UIStep("search", "leave")
  /\ Unlock("icon", "ui")
  /\ active' \in {active, "icon"}
  /\ UNCHANGED <<upVars, insVars, badge, flags>>

(* "Updates" shows what was found once the first check is through ... *)
ShowUpdates ==
  /\ UIStep("menu", "leave")
  /\ finished
  /\ active' = "icon"
  /\ UNCHANGED <<locks, upVars, insVars, badge, flags>>

(* ... and asks whether to wait before that. *)
AskToWait ==
  /\ UIStep("menu", "dialog")
  /\ ~finished
  /\ Unlock("left", "ui")
  /\ UNCHANGED <<active, upVars, insVars, badge, flags>>

AnswerShow ==
  /\ UIStep("dialog", "spin")
  /\ show_prog' = TRUE /\ asked' = TRUE
  /\ UNCHANGED <<locks, active, upVars, insVars, badge, finished>>

AnswerStay ==
  /\ UIStep("dialog", "leave")
  /\ UNCHANGED <<locks, active, upVars, insVars, badge, flags>>

SpinEnds ==
  /\ UIStep("spin", "leave")
  /\ ~show_prog
  /\ UNCHANGED <<locks, active, upVars, insVars, badge, flags>>

(* Mutant: the menu returns without unlocking. *)
LeaveLocked ==
  /\ UIStep("leave", "left?")
  /\ UNCHANGED <<locks, active, upVars, insVars, badge, flags>>

(* refresh_active_panel: unlocks the left panel, whether locked or not. *)
Leave ==
  /\ UIStep("leave", "left?")
  /\ Unlock("left", "ui")
  /\ UNCHANGED <<active, upVars, insVars, badge, flags>>

(* Rendering: the left panel, then the icons of the catalogue or of the     *)
(* queue's rows, each under its mutex; the item's page shows neither.       *)
(* (The queue is drawn before the left panel: nothing is held in between.)  *)
DrawLeft ==
  /\ UIStep("left?", "icons?")
  /\ active # "item" => Free("left", "ui")
  /\ UNCHANGED <<locks, active, upVars, insVars, badge, flags>>

DrawIcons ==
  /\ UIStep("icons?", "frame")
  /\ \/ /\ active \in {"left", "icon", "queue"} => Free("icon", "ui")
        /\ UNCHANGED active
     \/ active = "queue" /\ active' = "left"   (* no rows (any more)       *)
  /\ UNCHANGED <<locks, upVars, insVars, badge, flags>>

Press == PressX \/ PressO

UI ==
  \/ NoPress \/ Back \/ ShowItem \/ EnterMenu
  \/ ChooseView \/ ChooseSearch \/ ShowUpdates \/ AskToWait
  \/ BeginSearch \/ EndSearch \/ AnswerShow \/ AnswerStay \/ SpinEnds
  \/ Leave \/ DrawLeft \/ DrawIcons

-----------------------------------------------------------------------------
(* The update thread. *)

UpStep(from, to) == up = from /\ up' = to

(* Mutant: the icon panel is locked whether progress is shown or not. *)
StartCheckLocked ==
  /\ UpStep("db", "progress?")
  /\ k' = 1
  /\ UNCHANGED <<locks, uiVars, loaded, insVars, badge, flags>>

(* CheckforUpdates locks the icon panel if progress is to be shown ... *)
StartCheck ==
  /\ UpStep("db", IF show_prog THEN "progress?" ELSE "check")
  /\ k' = 1
  /\ UNCHANGED <<locks, uiVars, loaded, insVars, badge, flags>>

(* ... for good: the unlock at its end is commented out. *)
LockProgress ==
  /\ UpStep("progress?", "check")
  /\ Lock("icon", "updater")
  /\ UNCHANGED <<uiVars, k, loaded, insVars, badge, flags>>

(* Mutant: what was checked before is checked again. *)
CheckGameAgain ==
  /\ up = "check" /\ k \in Games
  /\ \E r \in Statuses :
       /\ update_status' = [update_status EXCEPT ![k] = r]
       /\ up' = IF r = "UPDATE_FOUND" THEN "count" ELSE "load"
  /\ UNCHANGED <<locks, uiVars, k, loaded, insVars, updates_counter, flags>>

(* CheckUpdate: only a game that has not been checked yet. *)
CheckGame ==
  /\ up = "check" /\ k \in Games
  /\ \E r \in Statuses :
       /\ update_status[k] # "UPDATE_NOT_CHECKED" => r = update_status[k]
       /\ update_status' = [update_status EXCEPT ![k] = r]
       /\ up' = IF r = "UPDATE_FOUND" /\ update_status[k] = "UPDATE_NOT_CHECKED"
                THEN "count" ELSE "load"
  /\ UNCHANGED <<locks, uiVars, k, loaded, insVars, updates_counter, flags>>

CountUpdate ==
  /\ UpStep("count", IF ~finished /\ active = "left" THEN "badge?" ELSE "load")
  /\ updates_counter' = updates_counter + 1
  /\ UNCHANGED <<locks, uiVars, k, loaded, insVars, update_status, flags>>

DrawBadge ==
  /\ UpStep("badge?", "load")
  /\ Use("left", "updater")
  /\ UNCHANGED <<uiVars, k, loaded, insVars, badge, flags>>

(* games.at(i).update_status.store(t.update_status.load()), where t is     *)
(* games.at(i): a read and a write.                                        *)
LoadStatus ==
  /\ UpStep("load", "store")
  /\ loaded' = update_status[k]
  /\ UNCHANGED <<locks, uiVars, k, insVars, badge, flags>>

StoreStatus ==
  /\ UpStep("store", "check")
  /\ update_status' = [update_status EXCEPT ![k] = loaded]
  /\ k' = k + 1
  /\ UNCHANGED <<locks, uiVars, loaded, insVars, updates_counter, flags>>

EndCheck ==
  /\ k \notin Games
  /\ UpStep("check", IF finished THEN "sleep" ELSE "finish?")
  /\ show_prog' = FALSE
  /\ UNCHANGED <<locks, uiVars, k, loaded, insVars, badge, finished, asked>>

FinishCheck ==
  /\ UpStep("finish?", "sleep")
  /\ Use("left", "updater")
  /\ finished' = TRUE
  /\ UNCHANGED <<uiVars, k, loaded, insVars, badge, show_prog, asked>>

(* Five minutes later, with the database still up to date. *)
Wake ==
  /\ UpStep("sleep", "db")
  /\ UNCHANGED <<locks, uiVars, k, loaded, insVars, badge, flags>>

Updater ==
  \/ StartCheck \/ LockProgress \/ CheckGame \/ CountUpdate \/ DrawBadge
  \/ LoadStatus \/ StoreStatus \/ EndCheck \/ FinishCheck \/ Wake

-----------------------------------------------------------------------------
(* A thread in which install_prog ends. *)

InstallEnds ==
  /\ inst = "none" /\ installs < MaxInstalls
  /\ game' \in Games
  /\ inst' = "settle?"
  /\ installs' = installs + 1
  /\ UNCHANGED <<locks, uiVars, upVars, raced, badge, flags>>

Settled ==
  /\ inst = "settle?"
  /\ Use("icon", "installer")
  /\ inst' = "none"
  /\ update_status' = [update_status EXCEPT ![game] =
                         IF @ = "UPDATE_FOUND" THEN "NO_UPDATE" ELSE @]
  /\ raced' = IF k = game /\ game \in Found /\ up \in {"count", "store"}
              THEN raced \cup {game} ELSE raced
  /\ UNCHANGED <<uiVars, upVars, game, installs, flags>>

(* Mutant: the counter is lowered whatever it is. *)
SettleUnbounded ==
  /\ Settled
  /\ updates_counter' = IF game \in Found THEN updates_counter - 1 ELSE updates_counter

(* The game's update is done with: the badge counts one less. *)
Settle ==
  /\ Settled
  /\ updates_counter' = IF game \in Found /\ updates_counter > 0
                        THEN updates_counter - 1 ELSE updates_counter

Next == Press \/ UI \/ Updater \/ InstallEnds \/ Settle

Spec == Init /\ [][Next]_vars

(* Every thread runs, the user answers a dialog, and a mutex that is free  *)
(* again and again is granted in the end. Buttons and installs are not fair. *)
FairSpec ==
  /\ Spec
  /\ WF_vars(UI)
  /\ SF_vars(Updater)
  /\ SF_vars(Settle)

-----------------------------------------------------------------------------
(* Properties. *)

Wants(t) ==
  {m \in Mutexes :
     \/ t = "ui" /\ m = "left" /\ ui \in {"menu?", "back?", "left?"}
     \/ t = "ui" /\ m = "icon" /\ ui \in {"search?", "item?", "icons?"}
     \/ t = "updater" /\ m = "left" /\ up \in {"badge?", "finish?"}
     \/ t = "updater" /\ m = "icon" /\ up = "progress?"
     \/ t = "installer" /\ m = "icon" /\ inst = "settle?"}

(* As long as nobody asks to see the progress, no two threads each hold    *)
(* what the other waits for.                                               *)
NoCircularWait ==
  ~asked => \A s, t \in Threads :
    s # t => ~ \E m \in Wants(s), n \in Wants(t) : owner[m] = t /\ owner[n] = s

(* The UI thread comes out of every press with no mutex held, however it    *)
(* left the menu: one unlock per lock, though one path unlocks twice and     *)
(* another unlocks what it never locked.                                     *)
BalancedLocks ==
  ui \in {"frame", "left?", "icons?", "spin"} => \A m \in Mutexes : owner[m] # "ui"

(* The badge counts the games that have an update, over any number of      *)
(* checks and installs, except for a game installed while it was checked.  *)
BadgeExact ==
  raced = {} =>
    updates_counter + (IF up = "count" THEN 1 ELSE 0) = Cardinality(Found)

(* Unless the user asks to see the progress, the UI draws its next frame,  *)
(* whatever the other threads do ...                                       *)
Responds == ui # "frame" ~> (ui = "frame" \/ asked)

(* ... a check that has begun ends, although it shares the left panel's    *)
(* mutex with every frame ...                                              *)
CheckEnds == up = "check" ~> (up = "sleep" \/ asked)

(* ... and an install that is done is taken off the badge.                 *)
InstallSettles == inst = "settle?" ~> (inst = "none" \/ asked)

(* A claim of the code's comments: GLES2_layout.cpp:441, "so the main      *)
(* thread doesnt deadlock".                                                *)
NeverDeadlocks == ui # "frame" ~> ui = "frame"
=============================================================================
