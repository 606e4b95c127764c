--------------------------- MODULE ScreensProofs ---------------------------
(***************************************************************************)
(* Theorems about Screens, for any number of slots and items.              *)
(***************************************************************************)
EXTENDS Screens, SequenceTheorems, FiniteSetTheorems, TLAPS

(* The panel and what feeds it, as long as nothing left it behind: the      *)
(* entries are the base or one more, ...                                    *)
Counted == item_c \in {Base, Base + 1}

(* ... the texts are those of the setting, ...                              *)
Texted ==
  /\ text[2] = IF auto THEN "cancel" ELSE "install"
  /\ text[3] = "cancel"

(* ... the entries that were filled show them, ...                          *)
Labelled ==
  /\ ~auto => label[2] = "install"
  /\ auto => label[2] \in {"cancel", "none"}
  /\ label[3] \in {"cancel", "none"}

(* ... and without the entry for Cancel the first one offers the download.  *)
Offers == item_c = Base => text[1] = "get" /\ label[1] = "get"

(* A slot serves the item on show only if a frame has seen it: nobody else  *)
(* assigns slots, and after an assignment a frame is due.                   *)
SlotSeen ==
  active = "item" /\ frame # "due" /\ ~Unhandled(curr) => item_c = Base + 1

(* What the frame on show established.                                      *)
Fresh ==
  frame = "drawn" /\ active = "item" =>
    /\ Unhandled(curr) => item_c = Base
    /\ \A s \in Slots :
         Handles(s, curr) /\ status[s] \in DOMAIN Caption => label[1] = Caption[status[s]]

PanelInv == Counted /\ Texted /\ Labelled /\ Offers /\ SlotSeen /\ Fresh

(* A call of the UI thread holds up its frames. *)
CallHolds == ui # "idle" => frame = "due"

(* A list that has control has rows. *)
HasRows == active \in {"queue", "ready"} /\ frame # "due" => rows >= 1

IInv == TypeOK /\ CallHolds /\ HasRows /\ (skewed \/ PanelInv)

-----------------------------------------------------------------------------
(* Rows are slots: there are never more of them. *)

LEMMA SlotCount == IsFiniteSet(Slots) /\ Cardinality(Slots) = ENTRIES
  BY FS_Interval, ScreensAssumption DEF Slots

LEMMA WithCount ==
  ASSUME NEW v
  PROVE  /\ IsFiniteSet(With(v)) /\ With(v) \subseteq Slots
         /\ Cardinality(With(v)) \in Nat /\ Cardinality(With(v)) <= ENTRIES
<1>1. With(v) \in SUBSET Slots
  BY DEF With
<1> QED
  BY <1>1, SlotCount, FS_Subset, FS_CardinalityType

LEMMA CountTyped == Count \in 0 .. ENTRIES
<1> DEFINE S == With(RUNNING)
           T == With(PAUSED)
<1>1. /\ IsFiniteSet(S) /\ IsFiniteSet(T)
      /\ S \subseteq Slots /\ T \subseteq Slots /\ S \cap T = {}
  BY WithCount DEF With, RUNNING, PAUSED
<1>2. /\ IsFiniteSet(S \cup T)
      /\ Cardinality(S \cup T) = Cardinality(S) + Cardinality(T) - Cardinality(S \cap T)
  BY <1>1, FS_Union
<1>3. Cardinality(S \cap T) = 0
  BY <1>1, FS_EmptySet
<1>4. Cardinality(S \cup T) <= ENTRIES
  BY <1>1, SlotCount, FS_Subset
<1>5. Cardinality(S) \in Nat /\ Cardinality(T) \in Nat
  BY <1>1, FS_CardinalityType
<1>6. CASE active = "queue"
  <2>1. Count = Cardinality(S) + Cardinality(T)
    BY <1>6 DEF Count, Listed
  <2> QED
    BY <2>1, <1>2, <1>3, <1>4, <1>5, ScreensAssumption
<1>7. CASE active # "queue"
  <2>1. Count = Cardinality(With(Listed)) + 0
    BY <1>7 DEF Count
  <2> QED
    BY <2>1, WithCount, ScreensAssumption
<1> QED
  BY <1>6, <1>7

-----------------------------------------------------------------------------
(* Values. *)

LEMMA Values ==
  /\ {CANCELED, RUNNING, COMPLETED, INSTALLING_APP} \subseteq Reports
  /\ Free \cup {PAUSED, PENDING} \cup Reports = StatusValues
  /\ {READY, CANCELED, RUNNING, COMPLETED, INSTALLING_APP, PAUSED, PENDING} \subseteq StatusValues
  /\ READY = 0 /\ CANCELED = -1 /\ PAUSED = 1 /\ RUNNING = 2 /\ COMPLETED = 3
  /\ INSTALLING_APP = 4 /\ PENDING = 4919
  /\ NoSlot \notin Slots /\ DOMAIN Caption = {PAUSED, RUNNING, COMPLETED}
  /\ Entries = {1, 2, 3}
  BY ScreensAssumption DEF StatusValues, Free, READY, CANCELED, PAUSED, RUNNING, COMPLETED,
     INSTALLING_APP, PENDING, NoSlot, Slots, Caption, Entries

LEMMA TextsTyped ==
  /\ LangTexts \in [Entries -> Texts] /\ AutoTexts \in [Entries -> Texts]
  /\ LangTexts[1] = "get" /\ LangTexts[2] = "install" /\ LangTexts[3] = "cancel"
  /\ AutoTexts[1] = "get" /\ AutoTexts[2] = "cancel" /\ AutoTexts[3] = "cancel"
<1>1. LangTexts \in Seq(Texts) /\ Len(LangTexts) = 3
  BY DEF LangTexts, Texts
<1>2. AutoTexts \in Seq(Texts) /\ Len(AutoTexts) = 3
  BY DEF AutoTexts, Texts
<1>3. LangTexts \in [1 .. 3 -> Texts] /\ AutoTexts \in [1 .. 3 -> Texts]
  <2>1. /\ LangTexts \in [1 .. Len(LangTexts) -> Texts]
        /\ AutoTexts \in [1 .. Len(AutoTexts) -> Texts]
    BY ONLY <1>1, <1>2, LenProperties
  <2> QED
    BY ONLY <1>1, <1>2, <2>1
<1>4. Entries = 1 .. 3
  BY DEF Entries
<1>5. LangTexts[1] = "get" /\ LangTexts[2] = "install" /\ LangTexts[3] = "cancel"
  BY DEF LangTexts
<1>6. AutoTexts[1] = "get" /\ AutoTexts[2] = "cancel" /\ AutoTexts[3] = "cancel"
  BY DEF AutoTexts
<1> QED
  BY <1>3, <1>4, <1>5, <1>6

-----------------------------------------------------------------------------
(* The types, action by action. *)

LEMMA InitTyped == Init => TypeOK
<1> SUFFICES ASSUME Init PROVE TypeOK
  OBVIOUS
<1>1. text \in [Entries -> Texts]
  BY TextsTyped DEF Init
<1>2. label \in [Entries -> Texts \cup {"none"}]
  BY <1>1 DEF Init
<1>3. /\ status \in [Slots -> StatusValues]
      /\ g_idx \in [Slots -> Items \cup {NoItem}]
  BY Values DEF Init, PoolInit
<1>4. item_c \in 1 .. 4
  BY DEF Init, Base
<1>5. busy \in Slots \cup {NoSlot} /\ (busy \in Slots <=> ui # "idle")
  BY Values DEF Init
<1>6. /\ rows \in 0 .. ENTRIES /\ row \in 0 .. ENTRIES - 1
      /\ ui \in {"idle", "head", "install"} /\ live \subseteq Slots
      /\ active \in {"home", "item", "queue", "ready"}
      /\ frame \in {"due", "drawn", "old"}
  BY ScreensAssumption DEF Init
<1>7. curr \in Items /\ auto \in BOOLEAN /\ skewed \in BOOLEAN
  BY Zenon DEF Init
<1> QED
  BY <1>1, <1>2, <1>3, <1>4, <1>5, <1>6, <1>7 DEF TypeOK

LEMMA StepTyped == TypeOK /\ HasRows /\ [Next]_vars => TypeOK'
<1> SUFFICES ASSUME TypeOK, HasRows, [Next]_vars PROVE TypeOK'
  OBVIOUS
<1> USE Values, ScreensAssumption DEF TypeOK, Texts
<1>1. CASE ThreadMoves
  BY <1>1 DEF ThreadMoves, Report, Settle, Release, Outdate, poolVars, panelVars, queueVars, callVars
<1>2. CASE ThreadRelabels
  BY <1>2 DEF ThreadRelabels, Outdate, poolVars, panelVars, queueVars, callVars
<1>3. CASE DrawHome
  BY <1>3 DEF DrawHome, DrawingStarts, poolVars, panelVars, queueVars, callVars
<1>4. CASE DrawServed
  BY <1>4 DEF DrawServed, DrawingStarts, Caption, Base, poolVars, panelVars, queueVars, callVars
<1>5. CASE DrawUnserved
  BY <1>5 DEF DrawUnserved, DrawingStarts, Filled, Base, poolVars, panelVars, queueVars, callVars
<1>6. CASE DrawQueue
  BY <1>6, CountTyped DEF DrawQueue, DrawingStarts, poolVars, panelVars, queueVars, callVars
<1>7. ASSUME NEW i \in Items, OpenItem(i) PROVE TypeOK'
  BY <1>7 DEF OpenItem, Press, Greet, poolVars, panelVars, queueVars, callVars
<1>8. CASE OpenQueue
  BY <1>8 DEF OpenQueue, Press, poolVars, panelVars, queueVars, callVars
<1>9. CASE MoveRow
  BY <1>9 DEF MoveRow, Press, HasRows, poolVars, panelVars, queueVars, callVars
<1>10. CASE OpenRow
  <2>1. \A s \in RowSlots(row) : s \in Slots
    BY DEF RowSlots, Ranked, With
  <2>2. \A s \in RowSlots(row) : g_idx[s] \in Items \cup {NoItem}
    BY <2>1
  <2>3. curr' \in Items
    BY <1>10, <2>2 DEF OpenRow
  <2> QED
    BY <1>10, <2>3 DEF OpenRow, Press, Greet, poolVars, panelVars, queueVars, callVars
<1>11. CASE Back
  BY <1>11 DEF Back, Press, poolVars, panelVars, queueVars, callVars
<1>12. CASE PressPause
  BY <1>12 DEF PressPause, Press, Pause, Filled, poolVars, panelVars, queueVars, callVars
<1>13. CASE PressResume
  BY <1>13 DEF PressResume, Press, Filled, poolVars, panelVars, queueVars, callVars
<1>14. CASE PressDownload
  BY <1>14 DEF PressDownload, Press, Filled, Assign, Dispatchable, poolVars, panelVars, queueVars, callVars
<1>15. CASE PressRefused
  BY <1>15 DEF PressRefused, Press, Filled, poolVars, panelVars, queueVars, callVars
<1>16. CASE PressInstall
  BY <1>16 DEF PressInstall, Press, poolVars, panelVars, queueVars, callVars
<1>17. CASE PressCancel
  BY <1>17 DEF PressCancel, Press, poolVars, panelVars, queueVars, callVars
<1>18. CASE HeadEnds
  BY <1>18 DEF HeadEnds, Filled, poolVars, panelVars, queueVars, callVars
<1>19. CASE InstallReports
  BY <1>19 DEF InstallReports, Report, poolVars, panelVars, queueVars, callVars
<1>20. CASE InstallLeft
  BY <1>20 DEF InstallLeft, poolVars, panelVars, queueVars, callVars
<1>21. CASE InstallEnds
  BY <1>21 DEF InstallEnds, Settle, Release, poolVars, panelVars, queueVars, callVars
<1>22. CASE AutoOn
  BY <1>22 DEF AutoOn, Press, Filled, poolVars, panelVars, queueVars, callVars
<1>23. CASE AutoOff
  <2>1. text' \in [Entries -> Texts]
    BY <1>23, TextsTyped DEF AutoOff
  <2>2. auto' \in BOOLEAN
    BY <1>23 DEF AutoOff
  <2>3. label' \in [Entries -> Texts \cup {"none"}]
    BY <1>23, <2>1 DEF AutoOff, Filled
  <2> QED
    BY <1>23, <2>1, <2>2, <2>3 DEF AutoOff, Press, poolVars, queueVars, callVars
<1>24. CASE SaveSettings
  <2>1. text' \in [Entries -> Texts]
    BY <1>24, TextsTyped DEF SaveSettings
  <2>2. auto' = auto \/ auto' = TRUE
    BY <1>24 DEF SaveSettings
  <2>3. auto' \in BOOLEAN
    <3>1. auto \in BOOLEAN
      BY DEF TypeOK
    <3> QED
      BY ONLY <2>2, <3>1
  <2>4. skewed' = (skewed \/ auto')
    BY <1>24, Zenon DEF SaveSettings
  <2>5. skewed' \in BOOLEAN
    BY ONLY <2>4, Zenon
  <2> QED
    BY <1>24, <2>1, <2>3, <2>5 DEF SaveSettings, Press, poolVars, queueVars, callVars
<1>25. CASE ShowList
  BY <1>25 DEF ShowList, Press, Filled, poolVars, panelVars, queueVars, callVars
<1>u. CASE UNCHANGED vars
  BY <1>u DEF vars, poolVars, panelVars, queueVars, callVars
<1> QED
  BY <1>1, <1>2, <1>3, <1>4, <1>5, <1>6, <1>7, <1>8, <1>9, <1>10, <1>11, <1>12, <1>13, <1>14, <1>15, <1>16, <1>17, <1>18, <1>19, <1>20, <1>21, <1>22, <1>23, <1>24, <1>25, <1>u
  DEF Next, Threads, Draw, Navigate, PressEntry, EndCall, Settings
-----------------------------------------------------------------------------
(* Calls and lists. *)

LEMMA StepHolds == TypeOK /\ CallHolds /\ HasRows /\ [Next]_vars => CallHolds' /\ HasRows'
<1> SUFFICES ASSUME TypeOK, CallHolds, HasRows, [Next]_vars PROVE CallHolds' /\ HasRows'
  OBVIOUS
<1>t. rows \in 0 .. ENTRIES /\ frame \in {"due", "drawn", "old"}
  BY DEF TypeOK
<1> USE <1>t, ScreensAssumption DEF CallHolds, HasRows
<1>1. CASE ThreadMoves
  BY <1>1 DEF ThreadMoves, Report, Settle, Release, Outdate, poolVars, panelVars, queueVars, callVars
<1>2. CASE ThreadRelabels
  BY <1>2 DEF ThreadRelabels, Outdate, poolVars, panelVars, queueVars, callVars
<1>3. CASE DrawHome
  BY <1>3 DEF DrawHome, DrawingStarts, poolVars, panelVars, queueVars, callVars
<1>4. CASE DrawServed
  BY <1>4 DEF DrawServed, DrawingStarts, poolVars, panelVars, queueVars, callVars
<1>5. CASE DrawUnserved
  BY <1>5 DEF DrawUnserved, DrawingStarts, Filled, poolVars, panelVars, queueVars, callVars
<1>6. CASE DrawQueue
  BY <1>6, CountTyped DEF DrawQueue, DrawingStarts, poolVars, panelVars, queueVars, callVars
<1>7. ASSUME NEW i \in Items, OpenItem(i) PROVE CallHolds' /\ HasRows'
  BY <1>7 DEF OpenItem, Press, Greet, poolVars, panelVars, queueVars, callVars
<1>8. CASE OpenQueue
  BY <1>8 DEF OpenQueue, Press, poolVars, panelVars, queueVars, callVars
<1>9. CASE MoveRow
  BY <1>9 DEF MoveRow, Press, poolVars, panelVars, queueVars, callVars
<1>10. CASE OpenRow
  BY <1>10 DEF OpenRow, Press, Greet, poolVars, panelVars, queueVars, callVars
<1>11. CASE Back
  BY <1>11 DEF Back, Press, poolVars, panelVars, queueVars, callVars
<1>12. CASE PressPause
  BY <1>12 DEF PressPause, Press, Pause, Filled, poolVars, panelVars, queueVars, callVars
<1>13. CASE PressResume
  BY <1>13 DEF PressResume, Press, Filled, poolVars, panelVars, queueVars, callVars
<1>14. CASE PressDownload
  BY <1>14 DEF PressDownload, Press, Filled, Assign, Dispatchable, poolVars, panelVars, queueVars, callVars
<1>15. CASE PressRefused
  BY <1>15 DEF PressRefused, Press, Filled, poolVars, panelVars, queueVars, callVars
<1>16. CASE PressInstall
  BY <1>16 DEF PressInstall, Press, poolVars, panelVars, queueVars, callVars
<1>17. CASE PressCancel
  BY <1>17 DEF PressCancel, Press, poolVars, panelVars, queueVars, callVars
<1>18. CASE HeadEnds
  BY <1>18 DEF HeadEnds, Filled, poolVars, panelVars, queueVars, callVars
<1>19. CASE InstallReports
  BY <1>19 DEF InstallReports, Report, poolVars, panelVars, queueVars, callVars
<1>20. CASE InstallLeft
  BY <1>20 DEF InstallLeft, poolVars, panelVars, queueVars, callVars
<1>21. CASE InstallEnds
  BY <1>21 DEF InstallEnds, Settle, Release, poolVars, panelVars, queueVars, callVars
<1>22. CASE AutoOn
  BY <1>22 DEF AutoOn, Press, Filled, poolVars, panelVars, queueVars, callVars
<1>23. CASE AutoOff
  BY <1>23 DEF AutoOff, Press, Filled, poolVars, panelVars, queueVars, callVars
<1>24. CASE SaveSettings
  BY <1>24 DEF SaveSettings, Press, poolVars, panelVars, queueVars, callVars
<1>25. CASE ShowList
  BY <1>25 DEF ShowList, Press, Filled, poolVars, panelVars, queueVars, callVars
<1>u. CASE UNCHANGED vars
  BY <1>u DEF vars, poolVars, panelVars, queueVars, callVars
<1> QED
  BY <1>1, <1>2, <1>3, <1>4, <1>5, <1>6, <1>7, <1>8, <1>9, <1>10, <1>11, <1>12, <1>13, <1>14, <1>15, <1>16, <1>17, <1>18, <1>19, <1>20, <1>21, <1>22, <1>23, <1>24, <1>25, <1>u
  DEF Next, Threads, Draw, Navigate, PressEntry, EndCall, Settings

-----------------------------------------------------------------------------
(* The panel. *)

LEMMA StepPanel ==
  ASSUME TypeOK, CallHolds, ~skewed, PanelInv, [Next]_vars
  PROVE  skewed' \/ PanelInv'
<1> USE Values, TextsTyped DEF CallHolds, PanelInv, Counted, Texted, Labelled, Offers, SlotSeen,
        Fresh, Base, Unhandled, Handles, TypeOK
<1>1. CASE ThreadMoves
  <2>1. PICK s \in live : \/ UNCHANGED g_idx
                          \/ g_idx' = [g_idx EXCEPT ![s] = NoItem]
    BY <1>1 DEF ThreadMoves, Report, Settle, Release
  <2>2. ~Unhandled(curr)' => ~Unhandled(curr)
    BY <1>1, <2>1, ScreensAssumption DEF ThreadMoves
  <2>3. frame' # "drawn" /\ (frame' # "due" => frame # "due")
    BY <1>1 DEF ThreadMoves, Outdate
  <2> QED
    BY <1>1, <2>2, <2>3 DEF ThreadMoves, panelVars
<1>2. CASE ThreadRelabels
  BY <1>2 DEF ThreadRelabels, Outdate, poolVars, panelVars, queueVars, callVars
<1>3. CASE DrawHome
  BY <1>3 DEF DrawHome, DrawingStarts, poolVars, panelVars, queueVars, callVars
<1>4. CASE DrawServed
  <2>1. PICK s \in Slots :
          /\ Handles(s, curr)
          /\ IF status[s] \in DOMAIN Caption
             THEN /\ text' = [text EXCEPT ![1] = Caption[status[s]]]
                  /\ label' = [label EXCEPT ![1] = Caption[status[s]]]
             ELSE UNCHANGED <<text, label>>
    BY <1>4 DEF DrawServed
  <2>2. \A r \in Slots : Handles(r, curr) => r = s
    BY <2>1 DEF Slots
  <2>3. \A r \in Slots : Handles(r, curr)' <=> Handles(r, curr)
    BY <1>4 DEF DrawServed, poolVars
  <2>4. ~Unhandled(curr)'
    BY <1>4, <2>1 DEF DrawServed, poolVars
  <2>5. item_c' = Base + 1 /\ UNCHANGED <<auto, status, active, curr>>
    BY <1>4 DEF DrawServed, poolVars
  <2>6. status[s] \in DOMAIN Caption => label'[1] = Caption[status[s]]
    BY <2>1
  <2>7. text'[2] = text[2] /\ text'[3] = text[3] /\ label'[2] = label[2] /\ label'[3] = label[3]
    BY <2>1
  <2>8. Fresh'
    BY <2>2, <2>3, <2>4, <2>5, <2>6
  <2> QED
    BY <2>4, <2>5, <2>7, <2>8
<1>5. CASE DrawUnserved
  BY <1>5 DEF DrawUnserved, DrawingStarts, Filled, poolVars, panelVars, queueVars, callVars
<1>6. CASE DrawQueue
  BY <1>6 DEF DrawQueue, DrawingStarts, poolVars, panelVars, queueVars, callVars
<1>7. ASSUME NEW i \in Items, OpenItem(i) PROVE skewed' \/ PanelInv'
  BY <1>7 DEF OpenItem, Press, Greet, poolVars, panelVars, queueVars, callVars
<1>8. CASE OpenQueue
  BY <1>8 DEF OpenQueue, Press, poolVars, panelVars, queueVars, callVars
<1>9. CASE MoveRow
  BY <1>9 DEF MoveRow, Press, poolVars, panelVars, queueVars, callVars
<1>10. CASE OpenRow
  BY <1>10 DEF OpenRow, Press, Greet, poolVars, panelVars, queueVars, callVars
<1>11. CASE Back
  BY <1>11 DEF Back, Press, poolVars, panelVars, queueVars, callVars
<1>12. CASE PressPause
  BY <1>12 DEF PressPause, Press, Pause, Filled, poolVars, panelVars, queueVars, callVars
<1>13. CASE PressResume
  BY <1>13 DEF PressResume, Press, Filled, poolVars, panelVars, queueVars, callVars
<1>14. CASE PressDownload
  <2>1. CASE item_c > Base
    <3>1. skewed' = (skewed \/ item_c > Base)
      BY <1>14 DEF PressDownload
    <3> QED
      BY <3>1, <2>1
  <2>2. CASE ~(item_c > Base)
    <3>1. item_c' = Base + 1 /\ frame' = "due" /\ UNCHANGED auto
      BY <1>14, <2>2 DEF PressDownload, Press
    <3>2. text'[2] = text[2] /\ text'[3] = text[3]
      BY <1>14 DEF PressDownload
    <3>3. \/ UNCHANGED label
          \/ label' = Filled(text', item_c')
      BY <1>14 DEF PressDownload
    <3>4. Labelled'
      BY <3>1, <3>2, <3>3 DEF Filled
    <3> QED
      BY <3>1, <3>2, <3>4
  <2> QED
    BY <2>1, <2>2
<1>15. CASE PressRefused
  BY <1>15 DEF PressRefused, Press, Filled, poolVars, panelVars, queueVars, callVars
<1>16. CASE PressInstall
  BY <1>16 DEF PressInstall, Press, poolVars, panelVars, queueVars, callVars
<1>17. CASE PressCancel
  BY <1>17 DEF PressCancel, Press, poolVars, panelVars, queueVars, callVars
<1>18. CASE HeadEnds
  BY <1>18 DEF HeadEnds, Filled, poolVars, panelVars, queueVars, callVars
<1>19. CASE InstallReports
  BY <1>19 DEF InstallReports, Report, poolVars, panelVars, queueVars, callVars
<1>20. CASE InstallLeft
  BY <1>20 DEF InstallLeft, poolVars, panelVars, queueVars, callVars
<1>21. CASE InstallEnds
  BY <1>21 DEF InstallEnds, Settle, Release, poolVars, panelVars, queueVars, callVars
<1>22. CASE AutoOn
  <2>1. CASE item_c = 2
    <3>1. skewed' = (skewed \/ item_c = 2)
      BY <1>22 DEF AutoOn
    <3> QED
      BY <3>1, <2>1
  <2>2. CASE item_c # 2
    <3>1. /\ auto' = TRUE /\ item_c = 3 /\ item_c' = 2 /\ active' = "home"
          /\ text' = [text EXCEPT ![1] = "get", ![2] = "cancel"]
          /\ label' = Filled(text', item_c')
      BY <1>22, <2>2 DEF AutoOn, Press
    <3>2. text'[2] = "cancel" /\ text'[3] = "cancel" /\ label'[2] = "cancel" /\ label'[3] = label[3]
      BY <3>1 DEF Filled
    <3> QED
      BY <3>1, <3>2
  <2> QED
    BY <2>1, <2>2
<1>23. CASE AutoOff
  BY <1>23 DEF AutoOff, Press, Filled, poolVars, panelVars, queueVars, callVars
<1>24. CASE SaveSettings
  <2>1. CASE auto'
    <3>1. skewed' = (skewed \/ auto')
      BY <1>24 DEF SaveSettings
    <3> QED
      BY ONLY <3>1, <2>1
  <2>2. CASE ~auto'
    <3>1. auto' = auto \/ auto' = TRUE
      BY <1>24 DEF SaveSettings
    <3>2. ~auto
      BY ONLY <3>1, <2>2
    <3>3. /\ active' = "home" /\ text' = LangTexts /\ UNCHANGED <<item_c, label>>
      BY <1>24 DEF SaveSettings, Press
    <3> QED
      BY <2>2, <3>2, <3>3
  <2> QED
    BY <2>1, <2>2
<1>25. CASE ShowList
  BY <1>25 DEF ShowList, Press, Filled, poolVars, panelVars, queueVars, callVars
<1>u. CASE UNCHANGED vars
  BY <1>u DEF vars, poolVars, panelVars, queueVars, callVars
<1> QED
  BY <1>1, <1>2, <1>3, <1>4, <1>5, <1>6, <1>7, <1>8, <1>9, <1>10, <1>11, <1>12, <1>13, <1>14, <1>15, <1>16, <1>17, <1>18, <1>19, <1>20, <1>21, <1>22, <1>23, <1>24, <1>25, <1>u
  DEF Next, Threads, Draw, Navigate, PressEntry, EndCall, Settings

-----------------------------------------------------------------------------
(* The invariant. *)

LEMMA InitInv == Init => IInv
<1> SUFFICES ASSUME Init PROVE IInv
  OBVIOUS
<1>1. TypeOK
  BY InitTyped
<1>2. CallHolds /\ HasRows
  BY DEF Init, CallHolds, HasRows
<1>3. PanelInv
  <2>1. /\ item_c = Base /\ frame = "due"
        /\ text = IF auto THEN AutoTexts ELSE LangTexts
        /\ label = [e \in Entries |-> IF e <= Base THEN text[e] ELSE "none"]
    BY DEF Init
  <2>2. auto => /\ text[1] = "get" /\ text[2] = "cancel" /\ text[3] = "cancel"
                /\ label[1] = "get" /\ label[2] = "none" /\ label[3] = "none"
    BY <2>1, TextsTyped, Values DEF Base
  <2>3. ~auto => /\ text[1] = "get" /\ text[2] = "install" /\ text[3] = "cancel"
                 /\ label[1] = "get" /\ label[2] = "install" /\ label[3] = "none"
    BY <2>1, TextsTyped, Values DEF Base
  <2> QED
    BY <2>1, <2>2, <2>3 DEF PanelInv, Counted, Texted, Labelled, Offers, SlotSeen, Fresh
<1> QED
  BY <1>1, <1>2, <1>3 DEF IInv

(* What the code does not bring in step is never called in step again. *)
LEMMA SkewStays == TypeOK /\ skewed /\ [Next]_vars => skewed'
<1> SUFFICES ASSUME TypeOK, skewed, [Next]_vars PROVE skewed'
  OBVIOUS
<1>1. \/ UNCHANGED skewed
      \/ skewed' = (skewed \/ item_c > Base)
      \/ skewed' = (skewed \/ item_c = 2)
      \/ skewed' = (skewed \/ auto')
  BY DEF Next, Threads, Draw, Navigate, PressEntry, EndCall, Settings, vars,
     ThreadMoves, ThreadRelabels, DrawHome, DrawServed, DrawUnserved, DrawQueue, OpenItem,
     OpenQueue, ShowList, MoveRow, OpenRow, Back, PressPause, PressResume, PressDownload, PressRefused,
     PressInstall, PressCancel, HeadEnds, InstallReports, InstallLeft, InstallEnds,
     AutoOn, AutoOff, SaveSettings
<1> QED
  BY <1>1

LEMMA StepInv == IInv /\ [Next]_vars => IInv'
<1> SUFFICES ASSUME IInv, [Next]_vars PROVE IInv'
  OBVIOUS
<1>1. TypeOK' /\ CallHolds' /\ HasRows'
  BY StepTyped, StepHolds DEF IInv
<1>2. skewed' \/ PanelInv'
  BY StepPanel, SkewStays DEF IInv
<1> QED
  BY <1>1, <1>2 DEF IInv

LEMMA InvTruthful == IInv => PanelTruthful
<1> SUFFICES ASSUME TypeOK, CallHolds, PanelInv, frame = "drawn", active = "item"
             PROVE  /\ IF Unhandled(curr)
                       THEN item_c = Base /\ label[1] = "get"
                       ELSE /\ item_c = Base + 1
                            /\ \A s \in Slots :
                                 Handles(s, curr) /\ status[s] \in DOMAIN Caption
                                   => label[1] = Caption[status[s]]
                    /\ \A e \in 2 .. item_c :
                         label[e] \in IF e > Base THEN {"cancel", "none"} ELSE {"install"}
  BY DEF IInv, PanelTruthful
<1>1. IF Unhandled(curr)
      THEN item_c = Base /\ label[1] = "get"
      ELSE /\ item_c = Base + 1
           /\ \A s \in Slots :
                Handles(s, curr) /\ status[s] \in DOMAIN Caption
                  => label[1] = Caption[status[s]]
  BY DEF PanelInv, Fresh, Offers, SlotSeen
<1>2. ASSUME NEW e \in 2 .. item_c
      PROVE  label[e] \in IF e > Base THEN {"cancel", "none"} ELSE {"install"}
  <2>1. e \in Int /\ 2 <= e /\ e <= Base + 1
    BY <1>2 DEF PanelInv, Counted, Base
  <2>2. CASE auto
    BY <2>1, <2>2 DEF PanelInv, Labelled, Base
  <2>3. CASE ~auto
    BY <2>1, <2>3 DEF PanelInv, Labelled, Base
  <2> QED
    BY <2>2, <2>3
<1> QED
  BY <1>1, <1>2

(* The screens keep their types: the panel's entries stay within the four  *)
(* the model counts and the selected row within the slots, for any number  *)
(* of slots and items and whatever the threads report.                     *)
THEOREM ScreensTyped == Spec => []TypeOK
<1>1. IInv => TypeOK
  BY DEF IInv
<1> QED
  BY <1>1, InitInv, StepInv, PTL DEF Spec

(* What a fresh frame of the download panel says is what its buttons do.   *)
THEOREM PanelSpeaksTrue == Spec => []PanelTruthful
  BY InvTruthful, InitInv, StepInv, PTL DEF Spec
-----------------------------------------------------------------------------
(* The lists. *)

(* No two members of a finite set of numbers have the same rank. *)
LEMMA RanksDiffer ==
  ASSUME NEW S \in SUBSET Nat, IsFiniteSet(S), NEW s \in S, NEW t \in S, s < t
  PROVE  Cardinality({r \in S : r < s}) # Cardinality({r \in S : r < t})
<1> DEFINE Below(u) == {r \in S : r < u}
<1>1. Below(s) \in SUBSET Below(t) /\ s \in Below(t) /\ s \notin Below(s)
  <2>1. s \in Nat /\ t \in Nat /\ \A r \in S : r \in Nat
    OBVIOUS
  <2>2. ASSUME NEW r \in S, r < s PROVE r < t
    BY <2>1, <2>2
  <2>3. ~(s < s)
    BY <2>1
  <2> QED
    BY <2>2, <2>3
<1>2. Below(t) \in SUBSET S
  OBVIOUS
<1> HIDE DEF Below
<1>3. IsFiniteSet(Below(t))
  BY <1>2, FS_Subset
<1>4. Cardinality(Below(t)) = Cardinality(Below(s)) => Below(t) = Below(s)
  BY <1>1, <1>3, FS_Subset
<1>5. Cardinality(Below(s)) # Cardinality(Below(t))
  BY <1>1, <1>4
<1> QED
  BY <1>5 DEF Below

(* In a finite set of numbers every rank below its size is somebody's: ranks *)
(* are different, so there are as many as members.                           *)
LEMMA EveryRankTaken ==
  ASSUME NEW S \in SUBSET Nat, IsFiniteSet(S), NEW k \in Nat, k < Cardinality(S)
  PROVE  \E s \in S : Cardinality({r \in S : r < s}) = k
<1> DEFINE Below(s) == {r \in S : r < s}
           n        == Cardinality(S)
           rank     == [s \in S |-> Cardinality(Below(s))]
<1>1. n \in Nat
  BY FS_CardinalityType
<1>2. ASSUME NEW s \in S
      PROVE  /\ IsFiniteSet(Below(s))
             /\ rank[s] \in 0 .. n - 1
  <2>1. IsFiniteSet(S \ {s}) /\ Cardinality(S \ {s}) = n - 1
    BY FS_RemoveElement
  <2>2. Below(s) \in SUBSET (S \ {s})
    OBVIOUS
  <2>3. IsFiniteSet(Below(s)) /\ Cardinality(Below(s)) <= n - 1
    BY <2>1, <2>2, FS_Subset
  <2>4. Cardinality(Below(s)) \in Nat
    BY <2>3, FS_CardinalityType
  <2> HIDE DEF Below, n
  <2> QED
    BY <1>1, <2>3, <2>4
<1>3. ASSUME NEW s \in S, NEW t \in S, s < t PROVE rank[s] # rank[t]
  BY <1>3, RanksDiffer
<1>4. \A s, t \in S : rank[s] = rank[t] => s = t
  <2> SUFFICES ASSUME NEW s \in S, NEW t \in S, s # t PROVE rank[s] # rank[t]
    OBVIOUS
  <2>1. s < t \/ t < s
    OBVIOUS
  <2> HIDE DEF rank
  <2> QED
    BY <1>3, <2>1
<1>5. rank \in Injection(S, 0 .. n - 1)
  <2>1. rank \in [S -> 0 .. n - 1]
    BY <1>2
  <2> HIDE DEF rank, n
  <2> QED
    BY <1>4, <2>1 DEF Injection, IsInjective
<1>6. IsFiniteSet(0 .. n - 1) /\ Cardinality(0 .. n - 1) = n
  <2> HIDE DEF n
  <2> QED
    BY <1>1, FS_Interval
<1>7. rank \in Surjection(S, 0 .. n - 1)
  <2> HIDE DEF rank
  <2> QED
    BY <1>5, <1>6, FS_Injection
<1>8. \E s \in S : rank[s] = k
  <2>1. k \in 0 .. n - 1
    BY <1>1
  <2> HIDE DEF rank, n
  <2> QED
    BY <1>7, <2>1 DEF Surjection
<1> QED
  BY <1>8

LEMMA RankFilled ==
  ASSUME NEW v, NEW k \in Nat, k < Cardinality(With(v))
  PROVE  Ranked(k, v) # {}
<1>1. With(v) \in SUBSET Nat /\ IsFiniteSet(With(v))
  BY WithCount, ScreensAssumption DEF Slots
<1>2. \E s \in With(v) : Cardinality({r \in With(v) : r < s}) = k
  BY <1>1, EveryRankTaken
<1> QED
  BY <1>2 DEF Ranked

(* What the frame of a list established stays while it is the one on show: a *)
(* thread that moves makes it old, a button makes a new one due.             *)
Listing ==
  frame = "drawn" /\ active \in {"queue", "ready"} => rows = Count /\ row < rows

LEMMA StepListing ==
  ASSUME TypeOK, CallHolds, Listing, [Next]_vars
  PROVE  Listing'
<1>1. CASE DrawQueue
  <2>1. UNCHANGED <<status, auto>> /\ rows' = Count
    BY <1>1 DEF DrawQueue, poolVars
  <2>2. CASE Count < 1
    BY <1>1, <2>2 DEF DrawQueue, Listing
  <2>3. CASE ~(Count < 1)
    <3>1. active' = active /\ row' = IF row > Count - 1 THEN 0 ELSE row
      BY <1>1, <2>3 DEF DrawQueue
    <3>2. Count' = Count
      BY <2>1, <3>1 DEF Count, Listed, With
    <3>3. row' < Count
      BY <2>3, <3>1, CountTyped, ScreensAssumption DEF TypeOK
    <3> QED
      BY <2>1, <3>2, <3>3 DEF Listing
  <2> QED
    BY <2>2, <2>3
<1>2. CASE \/ Threads \/ DrawHome \/ DrawServed \/ DrawUnserved
           \/ Navigate \/ PressEntry \/ Settings
  BY <1>2
     DEF Listing, Threads, ThreadMoves, ThreadRelabels, Outdate, DrawHome, DrawServed,
         DrawUnserved, Navigate, OpenItem, OpenQueue, ShowList, MoveRow, OpenRow, Back, PressEntry,
         PressPause, PressResume, PressDownload, PressRefused, PressInstall, PressCancel,
         Settings, AutoOn, AutoOff, SaveSettings, Press
<1>3. CASE EndCall
  BY <1>3
     DEF Listing, CallHolds, EndCall, HeadEnds, InstallReports, InstallLeft, InstallEnds
<1>4. CASE UNCHANGED vars
  <2>1. UNCHANGED <<status, auto, active, rows, row, frame>>
    BY <1>4 DEF vars, poolVars, queueVars
  <2>2. Count' = Count
    BY <2>1 DEF Count, Listed, With
  <2> QED
    BY <2>1, <2>2 DEF Listing
<1> QED
  BY <1>1, <1>2, <1>3, <1>4 DEF Next, Draw

LEMMA ListedRow == TypeOK /\ Listing => RowTruthful
<1> SUFFICES ASSUME TypeOK, Listing, frame = "drawn", active \in {"queue", "ready"},
                    \/ active = "ready" \/ With(RUNNING) = {} \/ With(PAUSED) = {}
             PROVE  RowSlots(row) # {}
  BY DEF RowTruthful, Listing
<1>1. row \in Nat /\ row < Count
  BY ScreensAssumption DEF TypeOK, Listing
<1>2. /\ Cardinality({}) = 0
      /\ Cardinality(With(Listed)) \in Nat /\ Cardinality(With(PAUSED)) \in Nat
  BY FS_EmptySet, WithCount
<1>3. CASE active = "ready"
  <2>1. row < Cardinality(With(Listed))
    BY <1>1, <1>2, <1>3 DEF Count
  <2> QED
    BY <1>1, <1>3, <2>1, RankFilled DEF RowSlots
<1>4. CASE active = "queue" /\ With(PAUSED) = {}
  <2>1. row < Cardinality(With(Listed))
    BY <1>1, <1>2, <1>4 DEF Count
  <2> QED
    BY <1>1, <2>1, RankFilled DEF RowSlots
<1>5. CASE active = "queue" /\ With(RUNNING) = {}
  <2>1. Listed = RUNNING
    BY <1>5 DEF Listed
  <2>2. row < Cardinality(With(PAUSED))
    BY <1>1, <1>2, <1>5, <2>1 DEF Count
  <2>3. Ranked(row, Listed) = {}
    BY <1>5, <2>1 DEF Ranked
  <2> QED
    BY <1>1, <1>5, <2>2, <2>3, RankFilled DEF RowSlots
<1> QED
  BY <1>3, <1>4, <1>5

(* The selected row of a fresh list is one of its rows and has a slot, except *)
(* in a queue that mixes running with paused downloads, for any number of     *)
(* slots.                                                                     *)
THEOREM RowsSpeakTrue == Spec => []RowTruthful
<1>1. Init => Listing
  BY DEF Init, Listing
<1>2. IInv /\ Listing /\ [Next]_vars => Listing'
  BY StepListing DEF IInv
<1>3. IInv /\ Listing => RowTruthful
  BY ListedRow DEF IInv
<1> QED
  BY <1>1, <1>2, <1>3, InitInv, StepInv, PTL DEF Spec

-----------------------------------------------------------------------------
(* The pool behind the screens. *)

(* Every step of the screens is one of the pool's: what the UI thread does  *)
(* with a button it does to a slot in a way Downloads allows.               *)
LEMMA StepInPool ==
  ASSUME TypeOK, [Next]_vars
  PROVE  [PoolNext]_poolVars
<1>v. CANCELED \in Reports /\ RUNNING \in Reports /\ INSTALLING_APP \in Reports
  BY ScreensAssumption
<1>1. CASE ThreadMoves
  BY <1>1 DEF ThreadMoves, PoolNext, TypeOK
<1>2. CASE PressPause
  BY <1>2 DEF PressPause, PoolNext
<1>3. CASE PressResume
  <2>1. PICK s \in Slots : status' = [status EXCEPT ![s] = RUNNING]
    BY <1>3 DEF PressResume
  <2> QED
    BY <1>3, <1>v, <2>1 DEF PressResume, Report, PoolNext
<1>4. CASE PressDownload
  BY <1>4 DEF PressDownload, PoolNext, TypeOK
<1>5. CASE PressInstall
  <2>1. PICK s \in Slots : status' = [status EXCEPT ![s] = INSTALLING_APP]
    BY <1>5 DEF PressInstall
  <2> QED
    BY <1>5, <1>v, <2>1 DEF PressInstall, Report, PoolNext
<1>6. CASE PressCancel
  <2>1. PICK s \in Slots : /\ status' = [status EXCEPT ![s] = CANCELED]
                           /\ g_idx' = [g_idx EXCEPT ![s] = NoItem]
    BY <1>6 DEF PressCancel
  <2> QED
    BY <2>1 DEF Release, Free, PoolNext
<1>7. CASE HeadEnds
  <2>1. busy \in Slots /\ UNCHANGED g_idx
    BY <1>7 DEF HeadEnds, TypeOK
  <2>2. CASE status' = [status EXCEPT ![busy] = CANCELED]
    BY <1>v, <2>1, <2>2 DEF Report, PoolNext
  <2>3. CASE status' = [status EXCEPT ![busy] = IF status[busy] < 1 THEN PENDING ELSE status[busy]]
    <3>1. CASE status[busy] < 1
      <4>1. status' = [status EXCEPT ![busy] = PENDING]
        BY <2>3, <3>1
      <4> QED
        BY <2>1, <3>1, <4>1 DEF Admit, PoolNext
    <3>2. CASE ~(status[busy] < 1)
      <4>1. status' = status
        BY <2>1, <2>3, <3>2 DEF TypeOK
      <4> QED
        BY <2>1, <4>1 DEF poolVars
    <3> QED
      BY <3>1, <3>2
  <2> QED
    BY <1>7, <2>2, <2>3 DEF HeadEnds
<1>8. CASE InstallReports \/ InstallEnds
  BY <1>8 DEF InstallReports, InstallEnds, PoolNext, TypeOK
<1>9. CASE UNCHANGED poolVars
  BY <1>9
<1>10. CASE ThreadRelabels \/ Draw \/ Navigate \/ PressRefused \/ InstallLeft \/ Settings
            \/ UNCHANGED vars
  BY <1>9, <1>10 DEF ThreadRelabels, Draw, DrawHome, DrawServed, DrawUnserved, DrawQueue,
     Navigate, OpenItem, OpenQueue, ShowList, MoveRow, OpenRow, Back, PressRefused, InstallLeft,
     Settings, AutoOn, AutoOff, SaveSettings, vars
<1> QED
  BY <1>1, <1>2, <1>3, <1>4, <1>5, <1>6, <1>7, <1>8, <1>10
     DEF Next, Threads, PressEntry, EndCall

(* The screens take part in the same pool as the threads: pausing, resuming, *)
(* cancelling, installing and the dispatch of a new download are steps that  *)
(* Downloads, which implements PoolSpec as well, makes of a slot.            *)
THEOREM ScreensKeepPool == Spec => PoolSpec
<1>1. Init => PoolInit
  BY DEF Init
<1>2. IInv /\ [Next]_vars => [PoolNext]_poolVars
  BY StepInPool DEF IInv
<1> QED
  BY <1>1, <1>2, InitInv, StepInv, PTL DEF Spec, PoolSpec

(* What every user of the pool inherits from its protocol. *)
OneSlotEach == \A s, t \in Slots : g_idx[s] = g_idx[t] /\ g_idx[s] # NoItem => s = t

LEMMA PoolOneSlot == PoolSpec => [](g_idx \in [Slots -> Items \cup {NoItem}] /\ OneSlotEach)
<1> DEFINE I == g_idx \in [Slots -> Items \cup {NoItem}] /\ OneSlotEach
<1>1. PoolInit => I
  BY DEF PoolInit, OneSlotEach
<1>2. I /\ [PoolNext]_poolVars => I'
  <2> SUFFICES ASSUME I, [PoolNext]_poolVars PROVE I'
    OBVIOUS
  <2>1. CASE UNCHANGED g_idx
    BY <2>1 DEF OneSlotEach
  <2>2. ASSUME NEW s \in Slots, g_idx' = [g_idx EXCEPT ![s] = NoItem] PROVE I'
    BY <2>2 DEF OneSlotEach
  <2>3. ASSUME NEW i \in Items, Assign(i) PROVE I'
    <3>1. PICK s \in Slots : g_idx' = [g_idx EXCEPT ![s] = i]
      BY <2>3 DEF Assign
    <3>2. \A t \in Slots : g_idx[t] # i
      BY <2>3 DEF Assign, Unhandled
    <3> QED
      BY <3>1, <3>2 DEF OneSlotEach
  <2> QED
    BY <2>1, <2>2, <2>3 DEF PoolNext, Admit, Pause, Report, Settle, Release, poolVars
<1> QED
  BY <1>1, <1>2, PTL DEF PoolSpec

LEMMA RowIsOne ==
  ASSUME NEW k, NEW s \in RowSlots(k), NEW t \in RowSlots(k)
  PROVE  s = t
<1>1. PICK v : s \in Ranked(k, v) /\ t \in Ranked(k, v)
  BY DEF RowSlots
<1>2. With(v) \in SUBSET Nat /\ IsFiniteSet(With(v)) /\ s \in With(v) /\ t \in With(v)
  BY <1>1, WithCount, ScreensAssumption DEF Ranked, Slots
<1>3. Cardinality({r \in With(v) : r < s}) = Cardinality({r \in With(v) : r < t})
  BY <1>1 DEF Ranked
<1>4. ~(s < t) /\ ~(t < s)
  BY <1>2, <1>3, RanksDiffer
<1> QED
  BY <1>2, <1>4

(* X on a row goes by the row's rank to a slot, by the slot to an item and, *)
(* on the panel, by the item to a slot again: it is the same slot, unless a *)
(* cancel or an install has just taken its item.                            *)
RowOpensItsSlot ==
  [][\A s \in Slots : OpenRow /\ s \in RowSlots(row) /\ g_idx[s] # NoItem =>
       curr' = g_idx[s] /\ Handles(s, curr)']_vars

(* layout_dispatch_X on a list row and thread_find_by_item on the panel     *)
(* name the same download: what Cancel, Pause or Install then do, they do   *)
(* to the row that was selected.                                            *)
THEOREM RowsOpenTheirSlots == Spec => RowOpensItsSlot
<1>1. IInv /\ OneSlotEach /\ [Next]_vars =>
        [\A s \in Slots : OpenRow /\ s \in RowSlots(row) /\ g_idx[s] # NoItem =>
           curr' = g_idx[s] /\ Handles(s, curr)']_vars
  <2> SUFFICES ASSUME IInv, OneSlotEach, NEW s \in Slots, OpenRow, s \in RowSlots(row),
                      g_idx[s] # NoItem
               PROVE  curr' = g_idx[s] /\ Handles(s, curr)'
    OBVIOUS
  <2>1. {g_idx[r] : r \in RowSlots(row)} = {g_idx[s]}
    BY RowIsOne
  <2>2. curr' = g_idx[s] /\ g_idx' = g_idx
    BY <2>1 DEF OpenRow, poolVars
  <2>3. \A r \in Slots : g_idx[r] = g_idx[s] => r = s
    BY DEF OneSlotEach
  <2>4. s <= s
    BY ScreensAssumption DEF Slots
  <2> QED
    BY <2>2, <2>3, <2>4 DEF Handles
<1> QED
  BY <1>1, InitInv, StepInv, ScreensKeepPool, PoolOneSlot, PTL DEF Spec, RowOpensItsSlot
=============================================================================
