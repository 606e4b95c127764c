--------------------------- MODULE UpdatesProofs ---------------------------
(***************************************************************************)
(* Theorems about Updates, for any number of games and installs.           *)
(***************************************************************************)
EXTENDS Updates, FiniteSetTheorems, TLAPS

(* The mutexes, apart from the rest of the state. *)
LocksTyped ==
  /\ owner \in [Mutexes -> Threads \cup {"none"}]
  /\ depth \in [Mutexes -> Nat]
  /\ \A m \in Mutexes : owner[m] = "none" <=> depth[m] = 0

(* What the UI thread holds at each place: on its way out of the menu it   *)
(* has the left panel's mutex at most once, and elsewhere nothing.         *)
UIHolds ==
  /\ \A m \in Mutexes : owner[m] = "ui" => depth[m] = 1
  /\ ui # "search" => owner["icon"] # "ui"
  /\ ui \notin {"menu", "search?", "search", "leave"} => owner["left"] # "ui"

(* Without progress, the other threads hold nothing between two steps. *)
OthersHoldNothing ==
  ~asked => /\ ~show_prog /\ up # "progress?"
            /\ \A m \in Mutexes : owner[m] \in {"ui", "none"}

(* Between reading a status and writing it back, only an install of that   *)
(* game changes it; and what is about to be counted is still there.        *)
Unraced ==
  raced = {} => /\ up = "store" => loaded = update_status[k]
                /\ up = "count" => update_status[k] = "UPDATE_FOUND"

-----------------------------------------------------------------------------
(* Locking and unlocking keep the mutexes' type. *)

LEMMA LockTyped ==
  ASSUME LocksTyped, NEW m \in Mutexes, NEW t \in Threads, Lock(m, t)
  PROVE  LocksTyped'
  BY DEF LocksTyped, Lock, Threads

LEMMA UnlockTyped ==
  ASSUME LocksTyped, NEW m \in Mutexes, NEW t \in Threads, Unlock(m, t)
  PROVE  LocksTyped'
<1>1. CASE owner[m] = t
  <2>1. depth[m] \in Nat \ {0}
    BY <1>1 DEF LocksTyped, Threads
  <2> QED
    BY <1>1, <2>1 DEF LocksTyped, Unlock, Threads
<1>2. CASE owner[m] # t
  BY <1>2 DEF LocksTyped, Unlock, locks
<1> QED
  BY <1>1, <1>2

LEMMA SameLocks ==
  ASSUME LocksTyped, UNCHANGED locks
  PROVE  LocksTyped'
  BY DEF LocksTyped, locks

LEMMA StepLocks == LocksTyped /\ [Next]_vars => LocksTyped'
<1> SUFFICES ASSUME LocksTyped, [Next]_vars PROVE LocksTyped'
  OBVIOUS
<1>c. "icon" \in Mutexes /\ "left" \in Mutexes /\ "ui" \in Threads /\ "updater" \in Threads
  BY DEF Mutexes, Threads
<1>1. CASE EnterMenu \/ BeginSearch \/ LockProgress
  BY <1>1, <1>c, LockTyped DEF EnterMenu, BeginSearch, LockProgress
<1>2. CASE EndSearch \/ AskToWait \/ Leave
  BY <1>2, <1>c, UnlockTyped DEF EndSearch, AskToWait, Leave
<1>3. CASE Press \/ NoPress \/ Back \/ ShowItem \/ ChooseView \/ ChooseSearch \/ ShowUpdates
  BY <1>3, SameLocks
     DEF Press, PressX, PressO, NoPress, Back, ShowItem, ChooseView, ChooseSearch,
         ShowUpdates, Use
<1>4. CASE AnswerShow \/ AnswerStay \/ SpinEnds \/ DrawLeft \/ DrawIcons
  BY <1>4, SameLocks DEF AnswerShow, AnswerStay, SpinEnds, DrawLeft, DrawIcons
<1>5. CASE StartCheck \/ CheckGame \/ CountUpdate \/ DrawBadge \/ LoadStatus
  BY <1>5, SameLocks DEF StartCheck, CheckGame, CountUpdate, DrawBadge, LoadStatus, Use
<1>6. CASE StoreStatus \/ EndCheck \/ FinishCheck \/ Wake
  BY <1>6, SameLocks DEF StoreStatus, EndCheck, FinishCheck, Wake, Use
<1>7. CASE InstallEnds \/ Settle
  BY <1>7, SameLocks DEF InstallEnds, Settle, Settled, Use
<1>8. CASE UNCHANGED vars
  BY <1>8, SameLocks DEF vars
<1> QED
  BY <1>1, <1>2, <1>3, <1>4, <1>5, <1>6, <1>7, <1>8 DEF Next, UI, Updater

-----------------------------------------------------------------------------
(* Types: the mutexes, the flags and the rest, one after the other. *)

FlagsTyped == finished \in BOOLEAN /\ show_prog \in BOOLEAN /\ asked \in BOOLEAN

RestTyped ==
  /\ ui \in UIPlaces /\ active \in Panels
  /\ up \in UpPlaces
  /\ k \in 1 .. NumGames + 1
  /\ up \in {"count", "badge?", "load", "store"} => k \in Games
  /\ loaded \in Statuses
  /\ inst \in {"none", "settle?"}
  /\ game \in Games \cup {0}
  /\ inst # "none" => game \in Games
  /\ update_status \in [Games -> Statuses]
  /\ updates_counter \in Nat
  /\ installs \in 0 .. MaxInstalls
  /\ raced \subseteq Games

LEMMA TypeParts == TypeOK <=> LocksTyped /\ FlagsTyped /\ RestTyped
  BY Zenon DEF TypeOK, LocksTyped, FlagsTyped, RestTyped

LEMMA InitTyped == Init => TypeOK
<1> SUFFICES ASSUME Init PROVE TypeOK
  OBVIOUS
<1>1. LocksTyped
  BY DEF Init, LocksTyped, Mutexes, Threads
<1>2. FlagsTyped
  BY Zenon DEF Init, FlagsTyped
<1>3. update_status \in [Games -> Statuses]
  BY DEF Init, Statuses
<1>4. RestTyped
  BY <1>3, UpdatesAssumption
     DEF Init, RestTyped, UpdatesAssumption, UIPlaces, Panels, UpPlaces, Statuses
<1> QED
  BY <1>1, <1>2, <1>4, TypeParts

LEMMA StepFlags == FlagsTyped /\ [Next]_vars => FlagsTyped'
<1> SUFFICES ASSUME FlagsTyped, [Next]_vars PROVE FlagsTyped'
  OBVIOUS
<1>1. CASE AnswerShow
  BY <1>1, Zenon DEF AnswerShow, FlagsTyped
<1>2. CASE EndCheck
  BY <1>2, Zenon DEF EndCheck, FlagsTyped
<1>3. CASE FinishCheck
  BY <1>3, Zenon DEF FinishCheck, FlagsTyped
<1>4. CASE Settle \/ InstallEnds
  BY <1>4, Zenon DEF Settle, Settled, InstallEnds, FlagsTyped, flags
<1>5. ASSUME UNCHANGED flags PROVE FlagsTyped'
  BY <1>5, Zenon DEF flags, FlagsTyped
<1>6. CASE Press \/ NoPress \/ Back \/ ShowItem \/ EnterMenu \/ ChooseView \/ ChooseSearch
  BY <1>5, <1>6
     DEF Press, PressX, PressO, NoPress, Back, ShowItem, EnterMenu, ChooseView, ChooseSearch
<1>7. CASE \/ ShowUpdates \/ AskToWait \/ BeginSearch \/ EndSearch \/ AnswerStay
           \/ SpinEnds \/ Leave \/ DrawLeft \/ DrawIcons
  BY <1>5, <1>7
     DEF ShowUpdates, AskToWait, BeginSearch, EndSearch, AnswerStay, SpinEnds, Leave,
         DrawLeft, DrawIcons
<1>8. CASE \/ StartCheck \/ LockProgress \/ CheckGame \/ CountUpdate \/ DrawBadge
           \/ LoadStatus \/ StoreStatus \/ Wake \/ UNCHANGED vars
  BY <1>5, <1>8
     DEF StartCheck, LockProgress, CheckGame, CountUpdate, DrawBadge, LoadStatus,
         StoreStatus, Wake, vars
<1> QED
  BY <1>1, <1>2, <1>3, <1>4, <1>6, <1>7, <1>8 DEF Next, UI, Updater

LEMMA StepRest == RestTyped /\ [Next]_vars => RestTyped'
<1> SUFFICES ASSUME RestTyped, [Next]_vars PROVE RestTyped'
  OBVIOUS
<1>g. NumGames \in Nat /\ MaxInstalls \in Nat
  BY UpdatesAssumption DEF UpdatesAssumption
<1> USE <1>g
    DEF RestTyped, UIStep, UpStep, uiVars, upVars, insVars, badge, UIPlaces, UpPlaces,
        Panels, Games
<1>1. CASE Press
  BY <1>1 DEF Press, PressX, PressO
<1>2. CASE NoPress \/ Back \/ ShowItem \/ EnterMenu \/ ChooseView \/ ChooseSearch
  BY <1>2 DEF NoPress, Back, ShowItem, EnterMenu, ChooseView, ChooseSearch
<1>3. CASE ShowUpdates \/ AskToWait \/ BeginSearch \/ EndSearch \/ AnswerStay
  BY <1>3 DEF ShowUpdates, AskToWait, BeginSearch, EndSearch, AnswerStay
<1>4. CASE AnswerShow \/ SpinEnds \/ Leave \/ DrawLeft \/ DrawIcons
  BY <1>4 DEF AnswerShow, SpinEnds, Leave, DrawLeft, DrawIcons
<1>5. CASE StartCheck
  BY <1>5 DEF StartCheck
<1>6. CASE LockProgress \/ CountUpdate \/ DrawBadge
  <2>1. up' \in {"check", "load", "badge?"} /\ (up = "progress?" \/ k \in Games)
    BY <1>6, Zenon DEF LockProgress, CountUpdate, DrawBadge
  <2>2. /\ updates_counter' \in Nat
        /\ UNCHANGED <<ui, active, k, loaded, inst, game, installs, raced, update_status>>
    BY <1>6 DEF LockProgress, CountUpdate, DrawBadge
  <2>3. up = "progress?" => up' = "check"
    BY <1>6 DEF LockProgress, CountUpdate, DrawBadge
  <2> QED
    BY <2>1, <2>2, <2>3
<1>7. CASE CheckGame
  BY <1>7 DEF CheckGame
<1>8. CASE LoadStatus \/ StoreStatus
  <2>1. k \in 1 .. NumGames /\ k' \in 1 .. NumGames + 1
    BY <1>8 DEF LoadStatus, StoreStatus
  <2>2. /\ update_status' \in [Games -> Statuses] /\ loaded' \in Statuses
        /\ up' \in {"store", "check"} /\ (up' = "store" => k' = k)
    BY <1>8, <2>1 DEF LoadStatus, StoreStatus
  <2>3. UNCHANGED <<ui, active, inst, game, installs, raced, updates_counter>>
    BY <1>8 DEF LoadStatus, StoreStatus
  <2> QED
    BY <2>1, <2>2, <2>3
<1>9. CASE EndCheck \/ FinishCheck \/ Wake
  BY <1>9 DEF EndCheck, FinishCheck, Wake
<1>10. CASE InstallEnds
  BY <1>10 DEF InstallEnds
<1>11. CASE Settle
  <2>1. "NO_UPDATE" \in Statuses /\ game \in Games
    BY <1>11 DEF Settle, Settled, Statuses
  <2>2. update_status' \in [Games -> Statuses] /\ raced' \subseteq Games
    BY <1>11, <2>1 DEF Settle, Settled
  <2>3. updates_counter' \in Nat
    BY <1>11 DEF Settle
  <2> QED
    BY <1>11, <2>2, <2>3 DEF Settle, Settled
<1>12. CASE UNCHANGED vars
  BY <1>12 DEF vars
<1> QED
  BY <1>1, <1>2, <1>3, <1>4, <1>5, <1>6, <1>7, <1>8, <1>9, <1>10, <1>11, <1>12
     DEF Next, UI, Updater

LEMMA StepTyped == TypeOK /\ [Next]_vars => TypeOK'
<1>1. TypeOK' <=> LocksTyped' /\ FlagsTyped' /\ RestTyped'
  BY Zenon DEF TypeOK, LocksTyped, FlagsTyped, RestTyped
<1> QED
  BY <1>1, TypeParts, StepLocks, StepFlags, StepRest

(* The types hold, for any number of games and installs. *)
THEOREM UpdatesTyped == Spec => []TypeOK
BY InitTyped, StepTyped, PTL DEF Spec

-----------------------------------------------------------------------------
(* The mutexes' holders. *)

LEMMA InitUIHolds == Init => UIHolds
  BY DEF Init, UIHolds, Mutexes

LEMMA StepUIHolds == LocksTyped /\ UIHolds /\ [Next]_vars => UIHolds'
<1> SUFFICES ASSUME LocksTyped, UIHolds, [Next]_vars PROVE UIHolds'
  OBVIOUS
<1> USE DEF LocksTyped, UIHolds, Mutexes, Threads, UIStep
<1>1. CASE EnterMenu
  <2>1. owner["left"] = "none" /\ depth["left"] = 0
    BY <1>1 DEF EnterMenu, Lock, Free
  <2> QED
    BY <1>1, <2>1 DEF EnterMenu, Lock
<1>2. CASE BeginSearch
  <2>1. owner["icon"] = "none" /\ depth["icon"] = 0
    BY <1>2 DEF BeginSearch, Lock, Free
  <2> QED
    BY <1>2, <2>1 DEF BeginSearch, Lock
<1>3. CASE EndSearch
  BY <1>3 DEF EndSearch, Unlock, locks
<1>4. CASE AskToWait
  BY <1>4 DEF AskToWait, Unlock, locks
<1>5. CASE Leave
  BY <1>5 DEF Leave, Unlock, locks
<1>6. CASE LockProgress
  BY <1>6 DEF LockProgress, Lock, Free, uiVars
<1>7. CASE Press \/ NoPress \/ Back \/ ShowItem \/ ChooseView \/ ChooseSearch \/ ShowUpdates
  BY <1>7
     DEF Press, PressX, PressO, NoPress, Back, ShowItem, ChooseView, ChooseSearch,
         ShowUpdates, Use, locks
<1>8. CASE AnswerShow \/ AnswerStay \/ SpinEnds \/ DrawLeft \/ DrawIcons
  BY <1>8 DEF AnswerShow, AnswerStay, SpinEnds, DrawLeft, DrawIcons, locks
<1>9. ASSUME UNCHANGED <<locks, uiVars>> PROVE UIHolds'
  BY <1>9 DEF locks, uiVars
<1>10. CASE \/ StartCheck \/ CheckGame \/ CountUpdate \/ DrawBadge \/ LoadStatus
            \/ StoreStatus \/ EndCheck \/ FinishCheck \/ Wake
  BY <1>9, <1>10
     DEF StartCheck, CheckGame, CountUpdate, DrawBadge, LoadStatus, StoreStatus, EndCheck,
         FinishCheck, Wake, Use
<1>11. CASE InstallEnds \/ Settle \/ UNCHANGED vars
  BY <1>9, <1>11 DEF InstallEnds, Settle, Settled, Use, vars
<1> QED
  BY <1>1, <1>2, <1>3, <1>4, <1>5, <1>6, <1>7, <1>8, <1>10, <1>11 DEF Next, UI, Updater

(* Wherever the menu was left, the UI thread goes on without a mutex: what  *)
(* is unlocked twice or without a lock does not disturb anybody.            *)
THEOREM LocksBalance == Spec => []BalancedLocks
<1>1. LocksTyped /\ UIHolds => BalancedLocks
  BY DEF UIHolds, BalancedLocks, Mutexes
<1>2. Init => LocksTyped /\ UIHolds
  BY InitTyped, InitUIHolds, TypeParts
<1>3. LocksTyped /\ UIHolds /\ [Next]_vars => (LocksTyped /\ UIHolds)'
  BY StepLocks, StepUIHolds
<1> QED
  BY <1>1, <1>2, <1>3, PTL DEF Spec

LEMMA InitOthers == Init => OthersHoldNothing
<1> SUFFICES ASSUME Init PROVE OthersHoldNothing
  OBVIOUS
<1>1. ~show_prog /\ up = "db" /\ owner = [m \in Mutexes |-> "none"]
  BY Zenon DEF Init
<1> QED
  BY <1>1 DEF OthersHoldNothing

LEMMA StepOthers == LocksTyped /\ OthersHoldNothing /\ [Next]_vars => OthersHoldNothing'
<1> SUFFICES ASSUME LocksTyped, OthersHoldNothing, [Next]_vars, ~asked' PROVE OthersHoldNothing'
  BY DEF OthersHoldNothing
<1>a. CASE AnswerShow
  BY <1>a, Zenon DEF AnswerShow
<1>u. ASSUME UNCHANGED flags PROVE ~asked /\ (~show_prog' <=> ~show_prog)
  BY <1>u, Zenon DEF flags
<1>f. ASSUME UNCHANGED asked PROVE ~asked
  BY <1>f, Zenon
<1>1. CASE Press \/ NoPress \/ Back \/ ShowItem \/ ChooseView \/ ChooseSearch \/ ShowUpdates
  <2>1. UNCHANGED <<locks, upVars, flags>>
    BY <1>1
       DEF Press, PressX, PressO, NoPress, Back, ShowItem, ChooseView, ChooseSearch,
           ShowUpdates, Use
  <2> QED
    BY <2>1, <1>u, Zenon DEF OthersHoldNothing, locks, upVars
<1>2. CASE \/ AnswerStay \/ SpinEnds \/ DrawLeft \/ DrawIcons \/ InstallEnds \/ Settle
           \/ UNCHANGED vars
  <2>1. UNCHANGED <<locks, upVars, flags>>
    BY <1>2
       DEF AnswerStay, SpinEnds, DrawLeft, DrawIcons, InstallEnds, Settle, Settled, Use, vars
  <2> QED
    BY <2>1, <1>u, Zenon DEF OthersHoldNothing, locks, upVars
<1>3. CASE EnterMenu \/ BeginSearch
  <2>1. UNCHANGED <<upVars, flags>>
    BY <1>3 DEF EnterMenu, BeginSearch
  <2>2. ~show_prog' /\ up' # "progress?" /\ \A m \in Mutexes : owner[m] \in {"ui", "none"}
    BY <2>1, <1>u, Zenon DEF OthersHoldNothing, upVars
  <2>3. \A m \in Mutexes : owner'[m] \in {"ui", "none"}
    BY <1>3, <2>2 DEF EnterMenu, BeginSearch, Lock, LocksTyped
  <2> QED
    BY <2>2, <2>3, Zenon DEF OthersHoldNothing
<1>4. CASE EndSearch \/ AskToWait \/ Leave
  <2>1. UNCHANGED <<upVars, flags>>
    BY <1>4 DEF EndSearch, AskToWait, Leave
  <2>2. ~show_prog' /\ up' # "progress?" /\ \A m \in Mutexes : owner[m] \in {"ui", "none"}
    BY <2>1, <1>u, Zenon DEF OthersHoldNothing, upVars
  <2>3. \A m \in Mutexes : owner'[m] \in {"ui", "none"}
    BY <1>4, <2>2 DEF EndSearch, AskToWait, Leave, Unlock, LocksTyped, locks
  <2> QED
    BY <2>2, <2>3, Zenon DEF OthersHoldNothing
<1>5. CASE StartCheck
  <2>1. UNCHANGED <<locks, flags>>
    BY <1>5 DEF StartCheck
  <2>2. ~show_prog /\ ~show_prog' /\ \A m \in Mutexes : owner'[m] \in {"ui", "none"}
    BY <2>1, <1>u, Zenon DEF OthersHoldNothing, locks
  <2>3. up' = "check"
    BY <1>5, <2>2, Zenon DEF StartCheck, UpStep
  <2> QED
    BY <2>2, <2>3 DEF OthersHoldNothing
<1>6. CASE LockProgress
  BY <1>6, <1>u DEF LockProgress, UpStep, OthersHoldNothing
<1>7. CASE CheckGame \/ CountUpdate \/ DrawBadge \/ LoadStatus \/ StoreStatus \/ Wake
  <2>1. UNCHANGED <<locks, flags>>
    BY <1>7 DEF CheckGame, CountUpdate, DrawBadge, LoadStatus, StoreStatus, Wake, Use
  <2>2. ~show_prog' /\ \A m \in Mutexes : owner'[m] \in {"ui", "none"}
    BY <2>1, <1>u, Zenon DEF OthersHoldNothing, locks
  <2>3. up' \in {"count", "load", "badge?", "store", "check", "db"}
    BY <1>7, Zenon
       DEF CheckGame, CountUpdate, DrawBadge, LoadStatus, StoreStatus, Wake, UpStep
  <2> QED
    BY <2>2, <2>3 DEF OthersHoldNothing
<1>8. CASE EndCheck \/ FinishCheck
  <2>1. UNCHANGED <<locks, asked>>
    BY <1>8 DEF EndCheck, FinishCheck, Use
  <2>2. ~show_prog /\ \A m \in Mutexes : owner'[m] \in {"ui", "none"}
    BY <2>1, <1>f, Zenon DEF OthersHoldNothing, locks
  <2>3. ~show_prog'
    BY <1>8, <2>2, Zenon DEF EndCheck, FinishCheck
  <2>4. up' \in {"sleep", "finish?"}
    BY <1>8, Zenon DEF EndCheck, FinishCheck, UpStep
  <2> QED
    BY <2>2, <2>3, <2>4 DEF OthersHoldNothing
<1> QED
  BY <1>a, <1>1, <1>2, <1>3, <1>4, <1>5, <1>6, <1>7, <1>8 DEF Next, UI, Updater

(* Without progress no two threads wait for each other: only the UI thread  *)
(* ever keeps a mutex over a step.                                          *)
THEOREM NobodyWaitsInACircle == Spec => []NoCircularWait
<1>1. OthersHoldNothing => NoCircularWait
  <2> SUFFICES ASSUME ~asked, \A m \in Mutexes : owner[m] \in {"ui", "none"},
                      NEW s \in Threads, NEW t \in Threads, s # t,
                      NEW m \in Wants(s), NEW n \in Wants(t),
                      owner[m] = t, owner[n] = s
               PROVE  FALSE
    BY Zenon DEF OthersHoldNothing, NoCircularWait
  <2>1. m \in Mutexes /\ n \in Mutexes
    BY DEF Wants
  <2>2. t = "ui" /\ s = "ui"
    BY <2>1 DEF Threads
  <2> QED
    BY <2>2
<1>2. Init => LocksTyped /\ OthersHoldNothing
  BY InitTyped, InitOthers, TypeParts
<1>3. LocksTyped /\ OthersHoldNothing /\ [Next]_vars => (LocksTyped /\ OthersHoldNothing)'
  BY StepLocks, StepOthers
<1> QED
  BY <1>1, <1>2, <1>3, PTL DEF Spec

-----------------------------------------------------------------------------
(* The badge. *)

BadgeInv == RestTyped /\ Unraced /\ BadgeExact

LEMMA FoundFinite ==
  RestTyped => /\ IsFiniteSet(Found) /\ Cardinality(Found) \in Nat
               /\ Found \subseteq Games
<1> SUFFICES ASSUME RestTyped
             PROVE  /\ IsFiniteSet(Found) /\ Cardinality(Found) \in Nat
                    /\ Found \subseteq Games
  OBVIOUS
<1>1. IsFiniteSet(Games)
  BY FS_Interval, UpdatesAssumption DEF Games, UpdatesAssumption
<1>2. Found \subseteq Games
  BY DEF Found
<1> QED
  BY <1>1, <1>2, FS_Subset, FS_CardinalityType

LEMMA InitBadge == Init => Unraced /\ BadgeExact
<1> SUFFICES ASSUME Init PROVE Unraced /\ BadgeExact
  OBVIOUS
<1>1. Found = {}
  BY DEF Init, Found
<1>2. Cardinality(Found) = 0
  BY <1>1, FS_EmptySet
<1> QED
  BY <1>2 DEF Init, Unraced, BadgeExact

LEMMA StepBadge == BadgeInv /\ [Next]_vars => (Unraced /\ BadgeExact)'
<1> SUFFICES ASSUME RestTyped, Unraced, BadgeExact, [Next]_vars, raced' = {}
             PROVE  /\ up' = "store" => loaded' = update_status'[k']
                    /\ up' = "count" => update_status'[k'] = "UPDATE_FOUND"
                    /\ updates_counter' + (IF up' = "count" THEN 1 ELSE 0)
                         = Cardinality(Found')
  BY DEF Unraced, BadgeExact, BadgeInv
<1>f. /\ IsFiniteSet(Found) /\ Cardinality(Found) \in Nat /\ Found \subseteq Games
      /\ updates_counter \in Nat
  BY FoundFinite DEF RestTyped
<1>s. ASSUME UNCHANGED update_status PROVE Found' = Found
  BY <1>s DEF Found
<1>b. ASSUME raced = {}
      PROVE  /\ up = "store" => loaded = update_status[k]
             /\ up = "count" => update_status[k] = "UPDATE_FOUND"
             /\ updates_counter + (IF up = "count" THEN 1 ELSE 0) = Cardinality(Found)
  BY <1>b DEF Unraced, BadgeExact
<1>1. ASSUME UNCHANGED <<upVars, badge, raced>>
      PROVE  /\ up' = "store" => loaded' = update_status'[k']
             /\ up' = "count" => update_status'[k'] = "UPDATE_FOUND"
             /\ updates_counter' + (IF up' = "count" THEN 1 ELSE 0) = Cardinality(Found')
  BY <1>1, <1>b, <1>s DEF upVars, badge
<1>2. CASE Press \/ NoPress \/ Back \/ ShowItem \/ EnterMenu \/ ChooseView \/ ChooseSearch
  BY <1>1, <1>2
     DEF Press, PressX, PressO, NoPress, Back, ShowItem, EnterMenu, ChooseView,
         ChooseSearch, insVars
<1>3. CASE \/ ShowUpdates \/ AskToWait \/ BeginSearch \/ EndSearch \/ AnswerShow
           \/ AnswerStay \/ SpinEnds \/ Leave \/ DrawLeft \/ DrawIcons
  BY <1>1, <1>3
     DEF ShowUpdates, AskToWait, BeginSearch, EndSearch, AnswerShow, AnswerStay, SpinEnds,
         Leave, DrawLeft, DrawIcons, insVars
<1>4. CASE InstallEnds \/ UNCHANGED vars
  BY <1>1, <1>4 DEF InstallEnds, vars, insVars
<1>5. CASE StartCheck \/ LockProgress \/ EndCheck \/ FinishCheck \/ Wake
  <2>1. UNCHANGED <<badge, raced>> /\ up \notin {"count", "store"}
    BY <1>5
       DEF StartCheck, LockProgress, EndCheck, FinishCheck, Wake, UpStep, insVars
  <2>2. up' \notin {"count", "store"}
    BY <1>5, Zenon
       DEF StartCheck, LockProgress, EndCheck, FinishCheck, Wake, UpStep
  <2> QED
    BY <2>1, <2>2, <1>b, <1>s DEF badge
<1>6. CASE DrawBadge
  BY <1>6, <1>b, <1>s DEF DrawBadge, UpStep, badge, insVars
<1>7. CASE LoadStatus
  BY <1>7, <1>b, <1>s DEF LoadStatus, UpStep, badge, insVars
<1>8. CASE CountUpdate
  <2>1. /\ up = "count" /\ updates_counter' = updates_counter + 1
        /\ UNCHANGED <<update_status, raced>>
    BY <1>8 DEF CountUpdate, UpStep, insVars
  <2>2. up' \in {"badge?", "load"}
    BY <1>8, Zenon DEF CountUpdate, UpStep
  <2> QED
    BY <2>1, <2>2, <1>b, <1>f, <1>s
<1>9. CASE StoreStatus
  <2>1. /\ up = "store" /\ up' = "check" /\ loaded = update_status[k]
        /\ UNCHANGED <<updates_counter, raced>>
    BY <1>9, <1>b DEF StoreStatus, UpStep, insVars
  <2>2. update_status' = update_status
    BY <1>9, <2>1 DEF StoreStatus, RestTyped
  <2> QED
    BY <2>1, <2>2, <1>b, <1>f, <1>s
<1>10. CASE CheckGame
  <2>1. /\ up = "check" /\ k \in Games
        /\ UNCHANGED <<k, loaded, updates_counter, raced>>
    BY <1>10 DEF CheckGame, insVars
  <2>2. PICK r \in Statuses :
          /\ update_status[k] # "UPDATE_NOT_CHECKED" => r = update_status[k]
          /\ update_status' = [update_status EXCEPT ![k] = r]
          /\ up' = IF r = "UPDATE_FOUND" /\ update_status[k] = "UPDATE_NOT_CHECKED"
                   THEN "count" ELSE "load"
    BY <1>10 DEF CheckGame
  <2>3. update_status'[k] = r /\ \A g \in Games \ {k} : update_status'[g] = update_status[g]
    BY <2>1, <2>2 DEF RestTyped
  <2>4. CASE r = "UPDATE_FOUND" /\ update_status[k] = "UPDATE_NOT_CHECKED"
    <3>1. k \notin Found /\ Found' = Found \cup {k}
      BY <2>1, <2>3, <2>4 DEF Found
    <3>2. Cardinality(Found') = Cardinality(Found) + 1
      BY <3>1, <1>f, FS_AddElement
    <3> QED
      BY <2>1, <2>2, <2>3, <2>4, <3>2, <1>b, <1>f
  <2>5. CASE ~(r = "UPDATE_FOUND" /\ update_status[k] = "UPDATE_NOT_CHECKED")
    <3>1. k \in Found <=> update_status'[k] = "UPDATE_FOUND"
      BY <2>1, <2>2, <2>3, <2>5 DEF Found
    <3>2. Found' = Found
      BY <2>1, <2>3, <3>1 DEF Found
    <3> QED
      BY <2>1, <2>2, <2>5, <3>2, <1>b, <1>f
  <2> QED
    BY <2>4, <2>5
<1>11. CASE Settle
  <2>1. /\ raced = {} /\ game \in Games
        /\ ~(k = game /\ game \in Found /\ up \in {"count", "store"})
        /\ UNCHANGED <<up, k, loaded>>
    BY <1>11 DEF Settle, Settled, upVars, RestTyped
  <2>2. update_status' = [update_status EXCEPT ![game] =
                            IF @ = "UPDATE_FOUND" THEN "NO_UPDATE" ELSE @]
    BY <1>11 DEF Settle, Settled
  <2>3. updates_counter' = IF game \in Found /\ updates_counter > 0
                           THEN updates_counter - 1 ELSE updates_counter
    BY <1>11 DEF Settle
  <2>4. CASE game \notin Found
    <3>1. update_status' = update_status
      BY <2>1, <2>2, <2>4 DEF RestTyped, Found
    <3> QED
      BY <2>1, <2>3, <2>4, <3>1, <1>b, <1>f, <1>s
  <2>5. CASE game \in Found
    <3>1. /\ update_status'[game] = "NO_UPDATE"
          /\ \A g \in Games \ {game} : update_status'[g] = update_status[g]
      BY <2>1, <2>2, <2>5 DEF RestTyped, Found
    <3>2. Found' = Found \ {game}
      BY <2>5, <3>1 DEF Found
    <3>3. Cardinality(Found') = Cardinality(Found) - 1
      BY <2>5, <3>2, <1>f, FS_RemoveElement
    <3>4. /\ up' = "store" => loaded' = update_status'[k']
          /\ up' = "count" => update_status'[k'] = "UPDATE_FOUND"
      BY <2>1, <2>5, <3>1, <1>b DEF RestTyped
    <3>5. updates_counter > 0
      <4>1. IsFiniteSet(Found') /\ Cardinality(Found') \in Nat
        BY <3>2, <1>f, FS_Subset, FS_CardinalityType
      <4>2. CASE up = "count"
        <5>1. k \in Found'
          BY <2>1, <2>5, <3>2, <4>2, <1>b DEF Found, RestTyped
        <5>2. Cardinality(Found') # 0
          BY <4>1, <5>1, FS_EmptySet
        <5> QED
          BY <2>1, <3>3, <4>1, <4>2, <5>2, <1>b, <1>f
      <4>3. CASE up # "count"
        BY <2>1, <3>3, <4>1, <4>3, <1>b, <1>f
      <4> QED
        BY <4>2, <4>3
    <3> QED
      BY <2>1, <2>3, <2>5, <3>3, <3>4, <3>5, <1>b, <1>f
  <2> QED
    BY <2>4, <2>5
<1> QED
  BY <1>2, <1>3, <1>4, <1>5, <1>6, <1>7, <1>8, <1>9, <1>10, <1>11 DEF Next, UI, Updater

(* The badge counts the games with an update, over any number of checks and *)
(* installs, except for a game installed in the middle of its own check.    *)
THEOREM BadgeCountsUpdates == Spec => []BadgeExact
<1>1. Init => BadgeInv
  BY InitTyped, InitBadge, TypeParts DEF BadgeInv
<1>2. BadgeInv /\ [Next]_vars => BadgeInv'
  BY StepRest, StepBadge DEF BadgeInv
<1>3. BadgeInv => BadgeExact
  BY DEF BadgeInv
<1> QED
  BY <1>1, <1>2, <1>3, PTL DEF Spec

-----------------------------------------------------------------------------
(* What a race between a check and the end of an install can do, and what  *)
(* it cannot: the check copies a status in a read and a write, and unless  *)
(* progress is shown it does so without the mutex that an install settles  *)
(* a game under.                                                           *)

(* Beside the seven steps that are about the badge, none touches it. *)
LEMMA BadgeSteps ==
  ASSUME [Next]_vars
  PROVE  \/ UNCHANGED <<upVars, badge, insVars>>
         \/ /\ UNCHANGED <<badge, insVars>>
            /\ up \notin {"count", "store"} /\ up' \notin {"count", "store"}
         \/ LoadStatus \/ CountUpdate \/ StoreStatus \/ CheckGame
         \/ InstallEnds \/ Settle
<1>1. CASE Press \/ NoPress \/ Back \/ ShowItem \/ EnterMenu \/ ChooseView \/ ChooseSearch
  BY <1>1
     DEF Press, PressX, PressO, NoPress, Back, ShowItem, EnterMenu, ChooseView,
         ChooseSearch
<1>2. CASE \/ ShowUpdates \/ AskToWait \/ BeginSearch \/ EndSearch \/ AnswerShow
           \/ AnswerStay \/ SpinEnds \/ Leave \/ DrawLeft \/ DrawIcons
  BY <1>2
     DEF ShowUpdates, AskToWait, BeginSearch, EndSearch, AnswerShow, AnswerStay, SpinEnds,
         Leave, DrawLeft, DrawIcons
<1>3. CASE UNCHANGED vars
  BY <1>3 DEF vars
<1>4. CASE StartCheck \/ LockProgress \/ EndCheck \/ FinishCheck \/ Wake \/ DrawBadge
  <2>1. UNCHANGED <<badge, insVars>> /\ up \notin {"count", "store"}
    BY <1>4
       DEF StartCheck, LockProgress, EndCheck, FinishCheck, Wake, DrawBadge, UpStep
  <2>2. up' \notin {"count", "store"}
    BY <1>4, Zenon
       DEF StartCheck, LockProgress, EndCheck, FinishCheck, Wake, DrawBadge, UpStep
  <2> QED
    BY <2>1, <2>2
<1> QED
  BY <1>1, <1>2, <1>3, <1>4 DEF Next, UI, Updater

(* What the check is about to write back is what is there, or an update    *)
(* that an install has settled in between, which is then on record.        *)
Copying ==
  up = "store" =>
    \/ loaded = update_status[k]
    \/ loaded = "UPDATE_FOUND" /\ update_status[k] = "NO_UPDATE" /\ k \in raced

LEMMA StepCopying == RestTyped /\ Copying /\ [Next]_vars => Copying'
<1> SUFFICES ASSUME RestTyped, Copying, [Next]_vars, up' = "store" PROVE Copying'
  BY DEF Copying
<1>1. CASE UNCHANGED <<upVars, badge, insVars>> \/ InstallEnds
  BY <1>1 DEF Copying, upVars, badge, insVars, InstallEnds
<1>2. CASE LoadStatus
  BY <1>2 DEF LoadStatus, Copying, badge
<1>3. CASE Settle
  <2>1. /\ UNCHANGED <<up, k, loaded>> /\ game \in Games /\ k \in Games
        /\ update_status \in [Games -> Statuses]
    BY <1>3 DEF Settle, Settled, upVars, RestTyped
  <2>2. update_status' = [update_status EXCEPT ![game] =
                            IF @ = "UPDATE_FOUND" THEN "NO_UPDATE" ELSE @]
    BY <1>3 DEF Settle, Settled
  <2>3. raced' = IF k = game /\ game \in Found /\ up \in {"count", "store"}
                 THEN raced \cup {game} ELSE raced
    BY <1>3 DEF Settle, Settled
  <2>4. CASE k = game /\ game \in Found
    <3>1. update_status[k] = "UPDATE_FOUND"
      BY <2>4 DEF Found
    <3> QED
      BY <2>1, <2>2, <2>3, <2>4, <3>1 DEF Copying
  <2>5. CASE ~(k = game /\ game \in Found)
    <3>1. update_status'[k] = update_status[k]
      BY <2>1, <2>2, <2>5 DEF Found
    <3> QED
      BY <2>1, <2>3, <2>5, <3>1 DEF Copying
  <2> QED
    BY <2>4, <2>5
<1>4. CASE CountUpdate \/ StoreStatus \/ CheckGame
  <2>1. up' # "store"
    BY <1>4, Zenon DEF CountUpdate, StoreStatus, CheckGame, UpStep
  <2> QED
    BY <2>1
<1> QED
  BY <1>1, <1>2, <1>3, <1>4, BadgeSteps

LEMMA AlwaysCopying == Spec => [](RestTyped /\ Copying)
<1>1. Init => RestTyped /\ Copying
  BY InitTyped, TypeParts DEF Init, Copying
<1>2. RestTyped /\ Copying /\ [Next]_vars => (RestTyped /\ Copying)'
  BY StepRest, StepCopying
<1> QED
  BY <1>1, <1>2, PTL DEF Spec

(* The status of a game only moves on: from not checked to what the server *)
(* says, and from an update to none, unless an install has ended in the    *)
(* middle of the game's own check.                                         *)
StatusMovesOn ==
  [][\A g \in Games :
       \/ update_status'[g] = update_status[g]
       \/ update_status[g] = "UPDATE_NOT_CHECKED"
       \/ update_status[g] = "UPDATE_FOUND" /\ update_status'[g] = "NO_UPDATE"
       \/ g \in raced]_vars

(* A check that starts over every five minutes never brings back an update *)
(* that was installed, nor forgets a result, except through that race.     *)
THEOREM ResultsStay == Spec => StatusMovesOn
<1> DEFINE MovesOn(g) ==
      \/ update_status'[g] = update_status[g]
      \/ update_status[g] = "UPDATE_NOT_CHECKED"
      \/ update_status[g] = "UPDATE_FOUND" /\ update_status'[g] = "NO_UPDATE"
      \/ g \in raced
<1>1. ASSUME RestTyped, Copying, [Next]_vars, NEW g \in Games PROVE MovesOn(g)
  <2>t. update_status \in [Games -> Statuses]
    BY <1>1 DEF RestTyped
  <2>1. CASE UNCHANGED update_status
    BY <2>1
  <2>2. CASE CheckGame
    <3>1. PICK r \in Statuses :
            /\ update_status[k] # "UPDATE_NOT_CHECKED" => r = update_status[k]
            /\ update_status' = [update_status EXCEPT ![k] = r]
      BY <2>2 DEF CheckGame
    <3> QED
      BY <2>t, <3>1
  <2>3. CASE StoreStatus
    <3>1. up = "store" /\ update_status' = [update_status EXCEPT ![k] = loaded]
      BY <2>3 DEF StoreStatus, UpStep
    <3> QED
      BY <1>1, <2>t, <3>1 DEF Copying
  <2>4. CASE Settle
    BY <2>4, <2>t DEF Settle, Settled
  <2> QED
    BY <1>1, <2>1, <2>2, <2>3, <2>4, BadgeSteps
       DEF badge, LoadStatus, CountUpdate, InstallEnds
<1>2. RestTyped /\ Copying /\ [Next]_vars => [\A g \in Games : MovesOn(g)]_vars
  BY <1>1
<1> QED
  BY <1>2, AlwaysCopying, PTL DEF Spec, StatusMovesOn

(* The badge, with the update that is about to be counted. *)
Shown == updates_counter + (IF up = "count" THEN 1 ELSE 0)

(* Installs that may still cost the badge one: one that has not settled, or *)
(* has settled a game whose old status the check is about to write back.    *)
Owed ==
  (IF inst = "settle?" THEN 1 ELSE 0)
    + (IF up = "store" /\ loaded # update_status[k] THEN 1 ELSE 0)

BadgeOwes ==
  /\ Shown <= Cardinality(Found) + 1
  /\ Cardinality(Found) + Owed <= Shown + installs

(* Whatever the races, the badge never shows more than one update too many, *)
(* and misses at most one for each install.                                 *)
BadgeNear ==
  /\ Shown <= Cardinality(Found) + 1
  /\ Cardinality(Found) <= Shown + installs

LEMMA StepOwes == RestTyped /\ Copying /\ BadgeOwes /\ [Next]_vars => BadgeOwes'
<1> SUFFICES ASSUME RestTyped, Copying, BadgeOwes, [Next]_vars PROVE BadgeOwes'
  OBVIOUS
<1> DEFINE F == Cardinality(Found)
<1>f. /\ IsFiniteSet(Found) /\ F \in Nat /\ Found \subseteq Games
      /\ updates_counter \in Nat /\ installs \in Nat
  BY FoundFinite, UpdatesAssumption DEF RestTyped, UpdatesAssumption
<1>s. ASSUME UNCHANGED update_status PROVE Found' = Found
  BY <1>s DEF Found
<1>1. CASE UNCHANGED <<upVars, badge, insVars>>
  BY <1>1, <1>s DEF BadgeOwes, Shown, Owed, upVars, badge, insVars
<1>2. CASE /\ UNCHANGED <<badge, insVars>>
           /\ up \notin {"count", "store"} /\ up' \notin {"count", "store"}
  BY <1>2, <1>s DEF BadgeOwes, Shown, Owed, badge, insVars
<1>3. CASE LoadStatus
  <2>1. /\ up = "load" /\ up' = "store" /\ UNCHANGED <<badge, insVars, k>>
        /\ loaded' = update_status'[k']
    BY <1>3 DEF LoadStatus, UpStep, badge
  <2> QED
    BY <2>1, <1>s DEF BadgeOwes, Shown, Owed, badge, insVars
<1>4. CASE CountUpdate
  <2>1. /\ up = "count" /\ updates_counter' = updates_counter + 1
        /\ UNCHANGED <<update_status, insVars>>
    BY <1>4 DEF CountUpdate, UpStep
  <2>2. up' \in {"badge?", "load"}
    BY <1>4, Zenon DEF CountUpdate, UpStep
  <2> QED
    BY <2>1, <2>2, <1>f, <1>s DEF BadgeOwes, Shown, Owed, insVars
<1>5. CASE StoreStatus
  <2>1. /\ up = "store" /\ up' = "check" /\ k \in Games
        /\ update_status' = [update_status EXCEPT ![k] = loaded]
        /\ UNCHANGED <<updates_counter, insVars>>
    BY <1>5 DEF StoreStatus, UpStep, RestTyped
  <2>2. CASE loaded = update_status[k]
    <3>1. update_status' = update_status
      BY <2>1, <2>2 DEF RestTyped
    <3> QED
      BY <2>1, <2>2, <3>1, <1>f, <1>s DEF BadgeOwes, Shown, Owed, insVars
  <2>3. CASE loaded # update_status[k]
    <3>1. loaded = "UPDATE_FOUND" /\ update_status[k] = "NO_UPDATE"
      BY <2>1, <2>3 DEF Copying
    <3>2. k \notin Found /\ Found' = Found \cup {k}
      BY <2>1, <3>1 DEF Found, RestTyped
    <3>3. Cardinality(Found') = F + 1
      BY <3>2, <1>f, FS_AddElement
    <3> QED
      BY <2>1, <2>3, <3>3, <1>f DEF BadgeOwes, Shown, Owed, insVars
  <2> QED
    BY <2>2, <2>3
<1>6. CASE CheckGame
  <2>1. up = "check" /\ k \in Games /\ UNCHANGED <<updates_counter, insVars>>
    BY <1>6 DEF CheckGame
  <2>2. PICK r \in Statuses :
          /\ update_status[k] # "UPDATE_NOT_CHECKED" => r = update_status[k]
          /\ update_status' = [update_status EXCEPT ![k] = r]
          /\ up' = IF r = "UPDATE_FOUND" /\ update_status[k] = "UPDATE_NOT_CHECKED"
                   THEN "count" ELSE "load"
    BY <1>6 DEF CheckGame
  <2>3. CASE r = "UPDATE_FOUND" /\ update_status[k] = "UPDATE_NOT_CHECKED"
    <3>1. k \notin Found /\ Found' = Found \cup {k}
      BY <2>1, <2>2, <2>3 DEF Found, RestTyped
    <3>2. Cardinality(Found') = F + 1
      BY <3>1, <1>f, FS_AddElement
    <3> QED
      BY <2>1, <2>2, <2>3, <3>2, <1>f DEF BadgeOwes, Shown, Owed, insVars
  <2>4. CASE ~(r = "UPDATE_FOUND" /\ update_status[k] = "UPDATE_NOT_CHECKED")
    <3>1. Found' = Found
      BY <2>1, <2>2, <2>4 DEF Found, RestTyped
    <3>2. up' = "load"
      BY <2>2, <2>4
    <3> QED
      BY <2>1, <3>1, <3>2, <1>f DEF BadgeOwes, Shown, Owed, insVars
  <2> QED
    BY <2>3, <2>4
<1>7. CASE InstallEnds
  <2>1. /\ inst = "none" /\ inst' = "settle?" /\ installs' = installs + 1
        /\ UNCHANGED <<upVars, badge>>
    BY <1>7 DEF InstallEnds
  <2> QED
    BY <2>1, <1>f, <1>s DEF BadgeOwes, Shown, Owed, upVars, badge
<1>8. CASE Settle
  <2>1. /\ inst = "settle?" /\ inst' = "none" /\ game \in Games
        /\ UNCHANGED <<up, k, loaded, installs>>
        /\ up = "store" => k \in Games
    BY <1>8 DEF Settle, Settled, upVars, RestTyped
  <2>2. update_status' = [update_status EXCEPT ![game] =
                            IF @ = "UPDATE_FOUND" THEN "NO_UPDATE" ELSE @]
    BY <1>8 DEF Settle, Settled
  <2>3. updates_counter' = IF game \in Found /\ updates_counter > 0
                           THEN updates_counter - 1 ELSE updates_counter
    BY <1>8 DEF Settle
  <2>4. CASE game \notin Found
    <3>1. update_status' = update_status
      BY <2>1, <2>2, <2>4 DEF RestTyped, Found
    <3> QED
      BY <2>1, <2>3, <2>4, <3>1, <1>f, <1>s DEF BadgeOwes, Shown, Owed
  <2>5. CASE game \in Found
    <3>1. Found' = Found \ {game}
      BY <2>1, <2>2, <2>5 DEF Found, RestTyped
    <3>2. Cardinality(Found') = F - 1
      BY <2>5, <3>1, <1>f, FS_RemoveElement
    <3>3. F - 1 \in Nat
      BY <3>1, <3>2, <1>f, FS_Subset, FS_CardinalityType
    <3>4. Owed' <= Owed
      BY <2>1 DEF Owed
    <3>5. Shown' \in {Shown, Shown - 1} /\ (updates_counter # 0 => Shown' = Shown - 1)
      BY <2>1, <2>3, <2>5, <1>f DEF Shown
    <3>6. updates_counter = 0 => Shown' <= 1
      BY <2>1, <2>3, <1>f DEF Shown
    <3>7. Owed \in Nat /\ Owed' \in Nat /\ Shown \in Nat /\ Shown' \in Int
      BY <1>f, <2>3, <2>5 DEF Owed, Shown
    <3>8. Cardinality(Found') + Owed' <= Shown' + installs'
      BY <1>f, <2>1, <3>2, <3>4, <3>5, <3>7 DEF BadgeOwes
    <3>9. Shown' <= Cardinality(Found') + 1
      <4>1. CASE updates_counter = 0
        BY <1>f, <3>2, <3>3, <3>6, <3>7, <4>1
      <4>2. CASE updates_counter # 0
        BY <1>f, <3>2, <3>5, <3>7, <4>2 DEF BadgeOwes
      <4> QED
        BY <4>1, <4>2
    <3> QED
      BY <3>8, <3>9 DEF BadgeOwes
  <2> QED
    BY <2>4, <2>5
<1> QED
  BY <1>1, <1>2, <1>3, <1>4, <1>5, <1>6, <1>7, <1>8, BadgeSteps

(* So the race the code leaves open is bounded in what it costs: it never   *)
(* adds up on one side, and on the other not beyond the installs.           *)
THEOREM BadgeStaysNear == Spec => []BadgeNear
<1>1. Init => BadgeOwes
  <2> SUFFICES ASSUME Init PROVE BadgeOwes
    OBVIOUS
  <2>1. Found = {}
    BY DEF Init, Found
  <2>2. Cardinality(Found) = 0
    BY <2>1, FS_EmptySet
  <2> QED
    BY <2>2 DEF Init, BadgeOwes, Shown, Owed
<1>2. RestTyped /\ Copying /\ BadgeOwes /\ [Next]_vars => BadgeOwes'
  BY StepOwes
<1>3. RestTyped /\ BadgeOwes => BadgeNear
  <2> SUFFICES ASSUME RestTyped, BadgeOwes PROVE BadgeNear
    OBVIOUS
  <2>1. Owed \in {0, 1, 2}
    BY DEF Owed
  <2>2. Cardinality(Found) \in Nat /\ Shown \in Nat /\ installs \in Nat
    BY FoundFinite, UpdatesAssumption DEF RestTyped, Shown, UpdatesAssumption
  <2> QED
    BY <2>1, <2>2 DEF BadgeOwes, BadgeNear
<1> QED
  BY <1>1, <1>2, <1>3, AlwaysCopying, PTL DEF Spec
=============================================================================
