-------------------------- MODULE DownloadsProofs --------------------------
(***************************************************************************)
(* Theorems about Downloads, for any number of slots, items and threads.   *)
(***************************************************************************)
EXTENDS Downloads, FiniteSetTheorems, TLAPS

(* The disjuncts of Next, one by one, so that proofs can be laid out by    *)
(* action.                                                                 *)
LEMMA NextCases ==
  ASSUME Next
  PROVE  \/ \E i \in Items : PauseDownload(i)
         \/ \E i \in Items : ResumeDownload(i)
         \/ \E i \in Items : CancelDownload(i)
         \/ \E i \in Items : DispatchDownload(i)
         \/ \E i \in Items : InstallDownloaded(i)
         \/ ToggleAutoInstall
         \/ ToggleLegacyInstall
         \/ \E f \in Folders : SetFolder(f)
         \/ SaveSettings
         \/ \E w \in Workers : HeadSucceeds(w)
         \/ HeadFails
         \/ SettingsReloaded
         \/ \E w \in Workers : BeginDownload(w)
         \/ \E w \in Workers : EnterDownload(w)
         \/ \E w \in Workers : UnlinkOutput(w)
         \/ \E w \in Workers : OpenOutput(w)
         \/ \E w \in Workers : EndTransfer(w)
         \/ \E w \in Workers : BreakTransfer(w)
         \/ \E w \in Workers : AutoInstall(w)
         \/ \E w \in Workers : EndDownload(w)
         \/ \E p \in Procs : BeginInstall(p)
         \/ \E p \in Procs : InstallFails(p)
         \/ \E p \in Procs : InstallInline(p)
         \/ \E p \in Procs, t \in Installers : InstallInThread(p, t)
         \/ \E p \in Procs : InstallInBackground(p)
         \/ \E p \in Procs : BeginProgress(p)
         \/ \E p \in Procs : EndProgress(p)
         \/ \E p \in Procs : CleanUp(p)
         \/ \E p \in Procs : EndInstall(p)
BY DEF Next, Command, Settings, FinishCall, Download, Install

-----------------------------------------------------------------------------
(* Types. *)

LEMMA Constants ==
  /\ Slots \subseteq Nat
  /\ NoSlot \notin Slots
  /\ UI \in Procs
  /\ Workers \subseteq Procs
  /\ Installers \subseteq Procs
  /\ DlErrors \subseteq Int
  /\ SysErrors \subseteq Int
  /\ StatusValues \subseteq Int
<1>1. Slots \subseteq Nat /\ NoSlot \notin Slots
  BY PoolAssumption DEF PoolAssumption, Slots, NoSlot
<1>2. UI \in Procs /\ Workers \subseteq Procs /\ Installers \subseteq Procs
  BY DEF Procs
<1>3. DlErrors \subseteq Int /\ SysErrors \subseteq Int
  BY PoolAssumption DEF PoolAssumption
<1>4. StatusValues \subseteq Int
  BY <1>3 DEF StatusValues, Free, Active, CANCELED, READY, PAUSED, RUNNING,
       COMPLETED, INSTALLING_APP, PENDING, ABORTED, ENOENT
<1> QED
  BY <1>1, <1>2, <1>3, <1>4

(* Every value the pool stores by name is a status. *)
LEMMA Statuses ==
  /\ {CANCELED, READY, PAUSED, RUNNING, COMPLETED, INSTALLING_APP, PENDING,
      ABORTED, ENOENT} \subseteq StatusValues
  /\ DlErrors \subseteq StatusValues
  /\ SysErrors \subseteq StatusValues
BY DEF StatusValues, Free, Active

(* What taking a slot over does to the history. *)
LEMMA TakeOverTyped ==
  ASSUME TypeOK, NEW s \in Slots, TakeOver(s)
  PROVE  overrun' \subseteq Slots /\ takeovers' \in Nat
BY DEF TypeOK, TakeOver, history

(* A thread that runs has a slot. *)
LEMMA Attached ==
  ASSUME TypeOK, NEW p \in Procs, pc[p] \notin {"none", "load"}
  PROVE  at[p] \in Slots
BY DEF TypeOK

(* unlink keeps the folder and the open files well-typed. *)
LEMMA UnlinkTyped ==
  ASSUME TypeOK, NEW f \in Paths \cup {NoItem}
  PROVE  /\ UnlinkedFiles(f) \in [Paths -> {"none", "partial", "full"}]
         /\ UnlinkedOut(f) \in [Procs -> Paths \cup {NoItem}]
BY DEF TypeOK, UnlinkedFiles, UnlinkedOut

LEMMA InitTyped == Init => TypeOK
<1> SUFFICES ASSUME Init PROVE TypeOK
  OBVIOUS
<1>1. Cardinality(Items) \in Nat
  BY PoolAssumption, FS_CardinalityType DEF PoolAssumption
<1> QED
  BY <1>1, PoolAssumption DEF Init, TypeOK, StatusValues, Free, Locations, PoolAssumption

(* Every step keeps the types, and keeps a thread attached to a slot exactly *)
(* as long as it runs.                                                       *)
LEMMA StepTyped == TypeOK /\ [Next]_vars => TypeOK'
<1> SUFFICES ASSUME TypeOK, [Next]_vars PROVE TypeOK'
  OBVIOUS
<1> USE Constants
<1> USE DEF TypeOK, slotVars, procVars, setVars, updVars, history, SetStatus, Goto,
            Leave, Idle, Locations
<1>1. ASSUME NEW i \in Items, PauseDownload(i) PROVE TypeOK'
  BY Statuses, <1>1 DEF PauseDownload
<1>2. ASSUME NEW i \in Items, ResumeDownload(i) PROVE TypeOK'
  BY Statuses, <1>2 DEF ResumeDownload
<1>3. ASSUME NEW i \in Items, CancelDownload(i) PROVE TypeOK'
  <2>1. PICK s \in Slots :
          /\ files' = UnlinkedFiles(dst[s]) /\ out' = UnlinkedOut(dst[s])
          /\ dst' = [dst EXCEPT ![s] = NoItem] /\ g_idx' = [g_idx EXCEPT ![s] = NoItem]
          /\ misread' = misread \ {s}
          /\ status' = [status EXCEPT ![s] = CANCELED] /\ TakeOver(s)
    BY <1>3 DEF CancelDownload
  <2>2. UNCHANGED <<pc, at, arg, ret, auto, legacy, ini, tmp, updatable, updates_counter>>
    BY <1>3 DEF CancelDownload
  <2>3. dst[s] \in Paths \cup {NoItem}
    OBVIOUS
  <2> QED
    BY Statuses, TakeOverTyped, UnlinkTyped, <2>1, <2>2, <2>3
<1>4. ASSUME NEW i \in Items, DispatchDownload(i) PROVE TypeOK'
  <2>1. PICK s \in Slots :
          /\ dst' = [dst EXCEPT ![s] = <<tmp, i>>] /\ g_idx' = [g_idx EXCEPT ![s] = i]
          /\ misread' = misread \ {s}
          /\ at' = [at EXCEPT ![UI] = s] /\ TakeOver(s)
    BY <1>4 DEF DispatchDownload
  <2>2. /\ pc' = [pc EXCEPT ![UI] = "head"]
        /\ UNCHANGED <<status, arg, out, ret, files, auto, legacy, ini, tmp, updatable,
                       updates_counter>>
    BY <1>4 DEF DispatchDownload
  <2>3. <<tmp, i>> \in Paths
    BY DEF Paths
  <2> QED
    BY TakeOverTyped, <2>1, <2>2, <2>3
<1>5. ASSUME NEW i \in Items, InstallDownloaded(i) PROVE TypeOK'
  <2>1. PICK s \in Slots : at' = [at EXCEPT ![UI] = s] /\ TakeOver(s)
    BY <1>5 DEF InstallDownloaded
  <2>2. /\ arg' = [arg EXCEPT ![UI] = <<tmp, i>>]
        /\ pc' = [pc EXCEPT ![UI] = "pkg"]
        /\ UNCHANGED <<status, g_idx, dst, misread, out, ret, files, auto, legacy, ini, tmp,
                       updatable, updates_counter>>
    BY <1>5 DEF InstallDownloaded
  <2>3. <<tmp, i>> \in Paths
    BY DEF Paths
  <2> QED
    BY TakeOverTyped, <2>1, <2>2, <2>3
<1>6. CASE ToggleAutoInstall
  BY <1>6 DEF ToggleAutoInstall
<1>7. CASE ToggleLegacyInstall
  BY <1>7 DEF ToggleLegacyInstall
<1>8. CASE SaveSettings
  BY <1>8, PoolAssumption DEF SaveSettings, PoolAssumption
<1>9. ASSUME NEW w \in Workers, HeadSucceeds(w) PROVE TypeOK'
  BY Statuses, <1>9 DEF HeadSucceeds, Spawn
<1>10. CASE HeadFails
  BY Statuses, <1>10 DEF HeadFails
<1>11. CASE SettingsReloaded
  BY <1>11 DEF SettingsReloaded
<1>12. ASSUME NEW p \in Procs, NEW t \in Installers, InstallInThread(p, t) PROVE TypeOK'
  <2>1. at[p] \in Slots /\ t \in Procs /\ at[t] = NoSlot /\ p # t
    BY <1>12 DEF InstallInThread
  <2> QED
    BY <1>12, <2>1 DEF InstallInThread
<1>13. ASSUME NEW p \in Procs, InstallInBackground(p) PROVE TypeOK'
  BY Statuses, <1>13 DEF InstallInBackground
<1>14. ASSUME NEW w \in Workers, BeginDownload(w) PROVE TypeOK'
  BY Statuses, <1>14 DEF BeginDownload
<1>15. ASSUME NEW w \in Workers, EnterDownload(w) PROVE TypeOK'
  BY Statuses, <1>15 DEF EnterDownload
<1>16. ASSUME NEW w \in Workers, OpenOutput(w) PROVE TypeOK'
  <2> DEFINE f == dst[at[w]]
  <2>1. at[w] \in Slots /\ f \in Paths \cup {NoItem}
    BY <1>16 DEF OpenOutput
  <2>2. CASE /\ f # NoItem
             /\ files' = [files EXCEPT ![f] = "partial"]
             /\ out' = [UnlinkedOut(f) EXCEPT ![w] = f]
             /\ pc' = [pc EXCEPT ![w] = "transfer"]
             /\ UNCHANGED ret
    BY UnlinkTyped, <1>16, <2>1, <2>2 DEF OpenOutput
  <2>3. ASSUME NEW e \in {0} \cup IF f = NoItem THEN {ENOENT} ELSE DlErrors,
               ret' = [ret EXCEPT ![w] = e], pc' = [pc EXCEPT ![w] = "ret"],
               UNCHANGED <<files, out>>
        PROVE  TypeOK'
    <3>1. e \in {0, ABORTED, ENOENT} \cup DlErrors
      OBVIOUS
    <3> QED
      BY <1>16, <2>1, <2>3, <3>1 DEF OpenOutput
  <2> QED
    BY <1>16, <2>2, <2>3 DEF OpenOutput
<1>17. ASSUME NEW w \in Workers, EndTransfer(w) PROVE TypeOK'
  BY Statuses, <1>17 DEF EndTransfer
<1>18. ASSUME NEW w \in Workers, BreakTransfer(w) PROVE TypeOK'
  BY Statuses, <1>18 DEF BreakTransfer
<1>19. ASSUME NEW w \in Workers, AutoInstall(w) PROVE TypeOK'
  BY Statuses, <1>19 DEF AutoInstall
<1>20. ASSUME NEW w \in Workers, EndDownload(w) PROVE TypeOK'
  BY Statuses, <1>20 DEF EndDownload
<1>21. ASSUME NEW p \in Procs, BeginInstall(p) PROVE TypeOK'
  BY Statuses, <1>21 DEF BeginInstall
<1>22. ASSUME NEW p \in Procs, InstallFails(p) PROVE TypeOK'
  <2>1. PICK e \in {CANCELED} \cup SysErrors : status' = [status EXCEPT ![at[p]] = e]
    BY <1>22 DEF InstallFails
  <2>2. e \in StatusValues
    BY Statuses
  <2> QED
    BY <1>22, <2>1, <2>2 DEF InstallFails
<1>23. ASSUME NEW p \in Procs, InstallInline(p) PROVE TypeOK'
  BY <1>23 DEF InstallInline
<1>24. ASSUME NEW p \in Procs, BeginProgress(p) PROVE TypeOK'
  BY Statuses, <1>24 DEF BeginProgress
<1>25. ASSUME NEW p \in Procs, EndProgress(p) PROVE TypeOK'
  <2>1. PICK v \in {COMPLETED} \cup SysErrors : status' = [status EXCEPT ![at[p]] = v]
    BY <1>25 DEF EndProgress
  <2>2. v \in StatusValues
    BY Statuses
  <2> QED
    BY <1>25, <2>1, <2>2 DEF EndProgress
<1>26. ASSUME NEW p \in Procs, CleanUp(p) PROVE TypeOK'
  BY Statuses, <1>26 DEF CleanUp, SettleUpdate
<1>27. ASSUME NEW p \in Procs, EndInstall(p) PROVE TypeOK'
  BY Statuses, <1>27 DEF EndInstall
<1>28. ASSUME NEW f \in Folders, SetFolder(f) PROVE TypeOK'
  BY <1>28 DEF SetFolder
<1>29. ASSUME NEW w \in Workers, UnlinkOutput(w) PROVE TypeOK'
  <2>1. dst[at[w]] \in Paths \cup {NoItem}
    BY <1>29 DEF UnlinkOutput
  <2> QED
    BY UnlinkTyped, <1>29, <2>1 DEF UnlinkOutput
<1>30. CASE UNCHANGED vars
  BY <1>30 DEF vars
<1> QED
  BY <1>1, <1>2, <1>3, <1>4, <1>5, <1>6, <1>7, <1>8, <1>9, <1>10, <1>11, <1>12,
     <1>13, <1>14, <1>15, <1>16, <1>17, <1>18, <1>19, <1>20, <1>21, <1>22, <1>23,
     <1>24, <1>25, <1>26, <1>27, <1>28, <1>29, <1>30, NextCases

THEOREM TypeCorrect == Spec => []TypeOK
BY InitTyped, StepTyped, PTL DEF Spec

-----------------------------------------------------------------------------
(* One slot per item. *)

(* Only DispatchDownload gives a slot an item, and only one that no slot has. *)
LEMMA StepUnique == TypeOK /\ UniqueItem /\ [Next]_vars => UniqueItem'
<1> SUFFICES ASSUME TypeOK, UniqueItem, [Next]_vars PROVE UniqueItem'
  OBVIOUS
<1>1. CASE UNCHANGED g_idx
  BY <1>1 DEF UniqueItem
<1>2. ASSUME NEW s \in Slots, g_idx' = [g_idx EXCEPT ![s] = NoItem] PROVE UniqueItem'
  BY <1>2 DEF UniqueItem, TypeOK
<1>3. ASSUME NEW i \in Items, DispatchDownload(i) PROVE UniqueItem'
  <2>1. PICK s \in Slots : g_idx' = [g_idx EXCEPT ![s] = i]
    BY <1>3 DEF DispatchDownload
  <2>2. \A r \in Slots : g_idx[r] # i
    BY <1>3 DEF DispatchDownload, Unhandled
  <2> QED
    BY <2>1, <2>2 DEF UniqueItem, TypeOK
<1>4. ASSUME NEW i \in Items, CancelDownload(i) PROVE UniqueItem'
  BY <1>2, <1>4 DEF CancelDownload
<1>5. ASSUME NEW p \in Procs, InstallInBackground(p) PROVE UniqueItem'
  BY <1>2, <1>5, Attached DEF InstallInBackground
<1>6. ASSUME NEW p \in Procs, CleanUp(p) PROVE UniqueItem'
  BY <1>2, <1>6, Attached DEF CleanUp
<1>7. CASE \/ \E i \in Items : \/ PauseDownload(i) \/ ResumeDownload(i)
                               \/ InstallDownloaded(i)
           \/ Settings \/ UNCHANGED vars
  BY <1>1, <1>7
     DEF PauseDownload, ResumeDownload, InstallDownloaded, Settings, vars, slotVars,
         ToggleAutoInstall, ToggleLegacyInstall, SetFolder, SaveSettings
<1>8. CASE \/ \E w \in Workers : HeadSucceeds(w)
           \/ HeadFails \/ SettingsReloaded
  BY <1>1, <1>8 DEF HeadSucceeds, HeadFails, SettingsReloaded, slotVars
<1>9. ASSUME NEW w \in Workers, Download(w) \/ BreakTransfer(w) PROVE UniqueItem'
  BY <1>1, <1>9
     DEF Download, BeginDownload, EnterDownload, UnlinkOutput, OpenOutput, EndTransfer,
         AutoInstall, EndDownload, BreakTransfer, slotVars
<1>10. ASSUME NEW p \in Procs,
              \/ BeginInstall(p) \/ InstallFails(p) \/ InstallInline(p)
              \/ BeginProgress(p) \/ EndProgress(p) \/ EndInstall(p)
              \/ \E t \in Installers : InstallInThread(p, t)
       PROVE  UniqueItem'
  BY <1>1, <1>10
     DEF BeginInstall, InstallFails, InstallInline, BeginProgress, EndProgress,
         EndInstall, InstallInThread, slotVars
<1> QED
  BY <1>3, <1>4, <1>5, <1>6, <1>7, <1>8, <1>9, <1>10
     DEF Next, Command, FinishCall, Install

(* No two slots ever serve the same item, so the buttons of an item act on *)
(* its only download, however many slots and threads there are.            *)
THEOREM OneSlotPerItem == Spec => []UniqueItem
<1>1. Init => UniqueItem
  BY DEF Init, UniqueItem
<1> QED
  BY <1>1, TypeCorrect, StepUnique, PTL DEF Spec
-----------------------------------------------------------------------------
(* The slots keep the protocol of Pool. *)

(* What the instance calls by its own names. *)
LEMMA ProtocolNames ==
  /\ Protocol!Slots = Slots
  /\ Protocol!Free = Free
  /\ \A i \in Items : Protocol!Unhandled(i) <=> Unhandled(i)
  /\ \A s \in Slots : Protocol!Dispatchable(s) <=> Dispatchable(s)
BY DEF Protocol!Slots, Slots, Protocol!Free, Free, Protocol!READY, READY,
       Protocol!CANCELED, CANCELED, Protocol!Unhandled, Unhandled,
       Protocol!Dispatchable, Dispatchable

(* The values a thread leaves in a slot, as Downloads passes them to Pool. *)
Reported ==
  {CANCELED, RUNNING, COMPLETED, INSTALLING_APP, ABORTED, ENOENT}
    \cup DlErrors \cup SysErrors

LEMMA InitProtocol == Init => Protocol!PoolInit
BY ProtocolNames DEF Init, Protocol!PoolInit, Protocol!CANCELED, CANCELED

(* Every step is one of Pool's or leaves the slots alone. *)
LEMMA StepProtocol ==
  TypeOK /\ [Next]_vars => [Protocol!PoolNext]_(Protocol!poolVars)
<1> SUFFICES ASSUME TypeOK, [Next]_vars
             PROVE  Protocol!PoolNext \/ UNCHANGED <<status, g_idx>>
  BY DEF Protocol!poolVars
<1> DEFINE Kept == Protocol!PoolNext \/ UNCHANGED <<status, g_idx>>
<1>1. ASSUME NEW s \in Slots, NEW v \in Reported, SetStatus(s, v), UNCHANGED g_idx
      PROVE  Kept
  <2>1. Protocol!Report(s)
    BY <1>1 DEF Protocol!Report, Reported, SetStatus, Protocol!CANCELED, CANCELED,
       Protocol!RUNNING, RUNNING, Protocol!COMPLETED, COMPLETED,
       Protocol!INSTALLING_APP, INSTALLING_APP
  <2> QED
    BY <2>1, ProtocolNames DEF Protocol!PoolNext
<1>2. ASSUME NEW s \in Slots, g_idx' = [g_idx EXCEPT ![s] = NoItem],
             \/ UNCHANGED status
             \/ \E v \in Free : SetStatus(s, v)
      PROVE  Kept
  <2>1. Protocol!Settle(s) \/ Protocol!Release(s)
    BY <1>2, ProtocolNames DEF Protocol!Settle, Protocol!Release, SetStatus
  <2> QED
    BY <2>1, ProtocolNames DEF Protocol!PoolNext
<1>3. ASSUME NEW i \in Items, PauseDownload(i) PROVE Kept
  <2>1. PICK s \in Slots :
          status[s] = RUNNING /\ SetStatus(s, PAUSED) /\ UNCHANGED g_idx
    BY <1>3 DEF PauseDownload
  <2>2. Protocol!Pause(s)
    BY <2>1 DEF Protocol!Pause, SetStatus, Protocol!RUNNING, RUNNING, Protocol!PAUSED,
       PAUSED
  <2> QED
    BY <2>2, ProtocolNames DEF Protocol!PoolNext
<1>4. ASSUME NEW i \in Items, ResumeDownload(i) PROVE Kept
  BY <1>1, <1>4 DEF ResumeDownload, Reported
<1>5. ASSUME NEW i \in Items, CancelDownload(i) PROVE Kept
  BY <1>2, <1>5 DEF CancelDownload, Free
<1>6. ASSUME NEW i \in Items, DispatchDownload(i) PROVE Kept
  <2>1. PICK s \in Slots : Dispatchable(s) /\ g_idx' = [g_idx EXCEPT ![s] = i]
    BY <1>6 DEF DispatchDownload
  <2>2. Unhandled(i) /\ UNCHANGED status
    BY <1>6 DEF DispatchDownload
  <2>3. Protocol!Assign(i)
    BY <2>1, <2>2, ProtocolNames DEF Protocol!Assign
  <2> QED
    BY <2>3 DEF Protocol!PoolNext
<1>7. ASSUME NEW w \in Workers, HeadSucceeds(w) PROVE Kept
  <2>1. at[UI] \in Slots /\ UNCHANGED g_idx
    BY <1>7, Attached, Constants DEF HeadSucceeds
  <2>2. CASE status[at[UI]] < 1
    <3>1. Protocol!Admit(at[UI])
      BY <1>7, <2>2 DEF HeadSucceeds, SetStatus, Protocol!Admit, Protocol!PENDING, PENDING
    <3> QED
      BY <2>1, <3>1, ProtocolNames DEF Protocol!PoolNext
  <2>3. CASE ~(status[at[UI]] < 1)
    <3>1. status' = [status EXCEPT ![at[UI]] = status[at[UI]]]
      BY <1>7, <2>3 DEF HeadSucceeds, SetStatus
    <3>2. UNCHANGED status
      BY <2>1, <3>1 DEF TypeOK
    <3> QED
      BY <2>1, <3>2
  <2> QED
    BY <2>2, <2>3
<1>8. CASE HeadFails
  BY <1>1, <1>8, Attached, Constants DEF HeadFails, Reported
<1>9. ASSUME NEW p \in Procs, InstallInBackground(p) PROVE Kept
  BY <1>2, <1>9, Attached DEF InstallInBackground, Free
<1>10. ASSUME NEW w \in Workers, BeginDownload(w) \/ EnterDownload(w) PROVE Kept
  BY <1>1, <1>10, Attached, Constants DEF BeginDownload, EnterDownload, Reported
<1>11. ASSUME NEW w \in Workers, EndDownload(w) PROVE Kept
  <2>1. at[w] \in Slots /\ UNCHANGED g_idx
    BY <1>11, Attached, Constants DEF EndDownload
  <2>2. ret[w] \in {0, ABORTED, ENOENT} \cup DlErrors
    BY Constants DEF TypeOK
  <2>3. (IF ret[w] = 0 THEN COMPLETED ELSE ret[w]) \in Reported
    BY <2>2 DEF Reported
  <2> QED
    BY <1>1, <1>11, <2>1, <2>3 DEF EndDownload
<1>12. ASSUME NEW p \in Procs, BeginInstall(p) \/ BeginProgress(p) PROVE Kept
  BY <1>1, <1>12, Attached DEF BeginInstall, BeginProgress, Reported
<1>13. ASSUME NEW p \in Procs, InstallFails(p) PROVE Kept
  <2>1. PICK e \in {CANCELED} \cup SysErrors : SetStatus(at[p], e)
    BY <1>13 DEF InstallFails
  <2> QED
    BY <1>1, <1>13, <2>1, Attached DEF InstallFails, Reported
<1>14. ASSUME NEW p \in Procs, EndProgress(p) PROVE Kept
  <2>1. PICK v \in {COMPLETED} \cup SysErrors : SetStatus(at[p], v)
    BY <1>14 DEF EndProgress
  <2> QED
    BY <1>1, <1>14, <2>1, Attached DEF EndProgress, Reported
<1>15. ASSUME NEW p \in Procs, CleanUp(p) PROVE Kept
  BY <1>2, <1>15, Attached DEF CleanUp
<1>16. CASE \/ \E i \in Items : InstallDownloaded(i)
            \/ Settings \/ SettingsReloaded
            \/ UNCHANGED vars
  BY <1>16
     DEF InstallDownloaded, Settings, vars, slotVars, ToggleAutoInstall,
         ToggleLegacyInstall, SetFolder, SaveSettings, SettingsReloaded
<1>17. CASE \/ \E w \in Workers : \/ UnlinkOutput(w) \/ OpenOutput(w) \/ EndTransfer(w)
                                  \/ BreakTransfer(w) \/ AutoInstall(w)
            \/ \E p \in Procs : \/ InstallInline(p) \/ EndInstall(p)
                                \/ \E t \in Installers : InstallInThread(p, t)
  BY <1>17
     DEF UnlinkOutput, OpenOutput, EndTransfer, BreakTransfer, AutoInstall, InstallInline,
         InstallInThread, EndInstall, slotVars
<1> QED
  BY <1>3, <1>4, <1>5, <1>6, <1>7, <1>8, <1>9, <1>10, <1>11, <1>12, <1>13, <1>14,
     <1>15, <1>16, <1>17
     DEF Next, Command, FinishCall, Download, Install

(* Whatever the threads do, whomever a cancel or a reuse catches, and       *)
(* however many slots and threads there are, the slots keep the protocol    *)
(* of Pool: the pool implements its abstract specification.                 *)
THEOREM PoolImplemented == Spec => PoolProtocol
<1>1. TypeOK /\ [Next]_vars => [Protocol!PoolNext]_(Protocol!poolVars)
  BY StepProtocol
<1> QED
  BY InitProtocol, TypeCorrect, <1>1, PTL DEF Spec, PoolProtocol, Protocol!PoolSpec

-----------------------------------------------------------------------------
(* Who works on a slot, and what its status then says. *)

(* Which code each thread runs: the UI never runs start_routine2, and only  *)
(* the UI waits for a HEAD request or reloads the settings.                 *)
Roles ==
  /\ pc[UI] \in {"none", "head", "load", "pkg", "check", "offer", "inst", "poll", "clean",
                 "tail", "left"}
  /\ \A w \in Workers : pc[w] \notin {"head", "load"}
  /\ \A t \in Installers : pc[t] \in {"none", "inst", "poll", "clean"}

(* Until it is taken over a slot has one thread, or it has an install_prog    *)
(* thread and the one that started it, which is about to return.              *)
SoleOwner ==
  \A s \in Slots \ overrun : \A p, q \in Procs :
    at[p] = s /\ at[q] = s /\ p # q
      => \/ pc[p] = "left" /\ q \in Installers
         \/ pc[q] = "left" /\ p \in Installers

(* The inductive invariant. StatusTruthful is not inductive without the rest: *)
(* what one thread leaves in the status must not surprise another.            *)
Owned == TypeOK /\ Roles /\ SoleOwner /\ StatusTruthful

LEMMA StepRoles == TypeOK /\ Roles /\ [Next]_vars => Roles'
<1> SUFFICES ASSUME TypeOK, Roles, [Next]_vars PROVE Roles'
  OBVIOUS
<1> USE Constants, PoolAssumption DEF Roles, Procs, PoolAssumption
<1>1. CASE UNCHANGED pc
  BY <1>1
<1>2. ASSUME NEW p \in Procs, NEW l \in Locations \ {"head", "load"},
             pc' = [pc EXCEPT ![p] = l],
             p = UI => l \notin {"created", "begun", "entered", "unlinked", "transfer", "ret"},
             p \in Installers => l \in {"none", "inst", "poll", "clean"}
      PROVE  Roles'
  BY <1>2 DEF TypeOK, Locations
<1>3. ASSUME NEW i \in Items, Command(i) PROVE Roles'
  <2>1. UNCHANGED pc \/ \E l \in {"head", "pkg"} : pc' = [pc EXCEPT ![UI] = l]
    BY <1>3 DEF Command, PauseDownload, ResumeDownload, CancelDownload, DispatchDownload,
                InstallDownloaded, Goto, procVars
  <2> QED
    BY <1>1, <2>1 DEF TypeOK
<1>4. CASE Settings
  <2>1. UNCHANGED pc \/ pc' = [pc EXCEPT ![UI] = "load"]
    BY <1>4 DEF Settings, ToggleAutoInstall, ToggleLegacyInstall, SetFolder, SaveSettings,
                Goto, procVars
  <2> QED
    BY <1>1, <2>1 DEF TypeOK
<1>5. ASSUME NEW w \in Workers, HeadSucceeds(w) PROVE Roles'
  BY <1>5 DEF HeadSucceeds, Spawn, TypeOK
<1>6. ASSUME NEW p \in Procs, NEW t \in Installers, InstallInThread(p, t) PROVE Roles'
  <2>1. p \notin Installers
    BY <1>6 DEF InstallInThread
  <2> QED
    BY <1>6, <2>1 DEF InstallInThread, TypeOK
<1>7. CASE HeadFails \/ SettingsReloaded
  <2>1. pc' = [pc EXCEPT ![UI] = "none"]
    BY <1>7 DEF HeadFails, SettingsReloaded, Leave, Goto
  <2> QED
    BY <2>1 DEF TypeOK
<1>8. ASSUME NEW w \in Workers, Download(w) \/ BreakTransfer(w) PROVE Roles'
  <2>1. \E l \in {"begun", "entered", "unlinked", "transfer", "ret", "pkg", "none"} :
           pc' = [pc EXCEPT ![w] = l]
    BY <1>8 DEF Download, BeginDownload, EnterDownload, UnlinkOutput, OpenOutput,
                EndTransfer, AutoInstall, EndDownload, BreakTransfer, Leave, Goto
  <2> QED
    BY <2>1 DEF TypeOK
<1>9. ASSUME NEW p \in Procs, Install(p), \A t \in Installers : ~InstallInThread(p, t)
      PROVE  Roles'
  <2>1. PICK l \in {"check", "offer", "none", "inst", "poll", "clean", "tail", "left"} :
           /\ pc' = [pc EXCEPT ![p] = l]
           /\ l \in {"check", "offer"} => pc[p] = "pkg"
           /\ l = "left" => pc[p] = "offer"
           /\ l = "tail" => p \notin Installers
    BY <1>9 DEF Install, BeginInstall, InstallFails, InstallInline, InstallInBackground,
                BeginProgress, EndProgress, CleanUp, EndInstall, Leave, Goto
  <2> QED
    BY <1>2, <2>1 DEF Locations
<1> QED
  BY <1>1, <1>3, <1>4, <1>5, <1>6, <1>7, <1>8, <1>9 DEF Next, FinishCall, vars, procVars

(* A slot's thread goes on to l and leaves v in the status.               *)
LEMMA ThreadGoesOn ==
  ASSUME Owned, NEW p \in Procs, at[p] \in Slots, pc[p] # "left", NEW l, NEW v,
         status' = [status EXCEPT ![at[p]] = v],
         pc' = [pc EXCEPT ![p] = l],
         UNCHANGED <<at, overrun>>,
         at[p] \notin overrun => v \in Expected(p, l)
  PROVE  SoleOwner' /\ StatusTruthful'
<1> USE DEF Owned, TypeOK
<1>1. SoleOwner'
  BY DEF SoleOwner
<1>2. ASSUME NEW s \in Slots \ overrun, NEW q \in Procs, at[q] = s
      PROVE  status'[s] \in Expected(q, pc'[q])
  <2>1. CASE q = p
    BY <1>2, <2>1
  <2>2. CASE q # p /\ s # at[p]
    <3>1. status'[s] = status[s] /\ pc'[q] = pc[q]
      BY <2>2
    <3> QED
      BY <1>2, <3>1 DEF StatusTruthful
  <2>3. CASE q # p /\ s = at[p]
    <3>1. pc'[q] = "left" /\ v \in StatusValues
      BY <1>2, <2>3 DEF SoleOwner, Expected
    <3> QED
      BY <1>2, <2>3, <3>1 DEF Expected
  <2> QED
    BY <2>1, <2>2, <2>3
<1>3. StatusTruthful'
  BY <1>2 DEF StatusTruthful, Expected
<1> QED
  BY <1>1, <1>3

(* A slot's thread ends, whatever it leaves in the status. *)
LEMMA ThreadLeaves ==
  ASSUME Owned, NEW p \in Procs, at[p] \in Slots, NEW v \in StatusValues,
         status' = [status EXCEPT ![at[p]] = v],
         pc[p] # "left" \/ v = status[at[p]],
         Leave(p),
         UNCHANGED overrun
  PROVE  SoleOwner' /\ StatusTruthful'
<1> USE Constants DEF Owned, TypeOK, Leave, Goto
<1>1. SoleOwner'
  BY DEF SoleOwner
<1>2. ASSUME NEW s \in Slots \ overrun, NEW q \in Procs, at'[q] = s
      PROVE  status'[s] \in Expected(q, pc'[q])
  <2>1. q # p /\ at[q] = s /\ pc'[q] = pc[q]
    BY <1>2
  <2>2. CASE s # at[p] \/ v = status[at[p]]
    <3>1. status'[s] = status[s]
      BY <2>2
    <3> QED
      BY <1>2, <2>1, <3>1 DEF StatusTruthful
  <2>3. CASE s = at[p] /\ pc[p] # "left"
    <3>1. pc[q] = "left"
      BY <1>2, <2>1, <2>3 DEF SoleOwner
    <3> QED
      BY <2>1, <2>3, <3>1 DEF Expected
  <2> QED
    BY <2>2, <2>3
<1>3. StatusTruthful'
  BY <1>2 DEF StatusTruthful, Expected
<1> QED
  BY <1>1, <1>3

(* The UI hands its slot to a download thread. *)
LEMMA ThreadStarts ==
  ASSUME Owned, NEW t \in Workers, at[UI] \in Slots, pc[UI] = "head", NEW l, NEW v,
         pc[t] = "none",
         status' = [status EXCEPT ![at[UI]] = v],
         Spawn(t, at[UI], l),
         UNCHANGED overrun,
         at[UI] \notin overrun => v \in Expected(t, l)
  PROVE  SoleOwner' /\ StatusTruthful'
<1> USE Constants, PoolAssumption DEF Owned, TypeOK, Spawn, PoolAssumption
<1>0. at[UI] \notin overrun => \A q \in Procs \ {UI} : at[q] # at[UI]
  BY DEF SoleOwner
<1>1. SoleOwner'
  BY <1>0 DEF SoleOwner
<1>2. ASSUME NEW s \in Slots \ overrun, NEW q \in Procs, at'[q] = s
      PROVE  status'[s] \in Expected(q, pc'[q])
  <2>1. CASE q = t
    BY <1>2, <2>1
  <2>2. CASE q # t
    <3>1. q # UI /\ at[q] = s
      BY <1>2, <2>2
    <3>2. s # at[UI]
      BY <1>0, <1>2, <3>1
    <3>3. status'[s] = status[s] /\ pc'[q] = pc[q]
      BY <2>2, <3>1, <3>2
    <3> QED
      BY <1>2, <3>1, <3>3 DEF StatusTruthful
  <2> QED
    BY <2>1, <2>2
<1>3. StatusTruthful'
  BY <1>2 DEF StatusTruthful, Expected
<1> QED
  BY <1>1, <1>3

(* The UI takes a slot for a call of its own: if a thread was still on it, it *)
(* no longer counts.                                                          *)
LEMMA UITakes ==
  ASSUME Owned, Idle, NEW s \in Slots, NEW l,
         TakeOver(s),
         at' = [at EXCEPT ![UI] = s],
         pc' = [pc EXCEPT ![UI] = l],
         UNCHANGED status,
         status[s] \in Expected(UI, l)
  PROVE  SoleOwner' /\ StatusTruthful'
<1> USE Constants DEF Owned, TypeOK, Idle
<1>1. at[UI] = NoSlot
  OBVIOUS
<1>2. overrun \subseteq overrun' /\ (s \notin overrun' => \A q \in Procs : at[q] # s)
  BY DEF TakeOver, Attended, history
<1>3. SoleOwner'
  BY <1>1, <1>2 DEF SoleOwner
<1>4. ASSUME NEW r \in Slots \ overrun', NEW q \in Procs, at'[q] = r
      PROVE  status'[r] \in Expected(q, pc'[q])
  <2>1. CASE q = UI
    BY <1>4, <2>1
  <2>2. CASE q # UI
    BY <1>2, <1>4, <2>2 DEF StatusTruthful
  <2> QED
    BY <2>1, <2>2
<1>5. StatusTruthful'
  BY <1>4 DEF StatusTruthful, Expected
<1> QED
  BY <1>3, <1>5

(* The status of a slot is set behind its thread's back, to a value the *)
(* thread allows for.                                                   *)
LEMMA StatusSet ==
  ASSUME Owned, NEW s \in Slots, NEW v,
         status' = [status EXCEPT ![s] = v],
         UNCHANGED <<at, pc>>, overrun \subseteq overrun',
         \A q \in Procs : at[q] = s /\ s \notin overrun' => v \in Expected(q, pc[q])
  PROVE  SoleOwner' /\ StatusTruthful'
<1>1. SoleOwner'
  BY DEF Owned, SoleOwner
<1>2. ASSUME NEW r \in Slots \ overrun', NEW q \in Procs, at[q] = r
      PROVE  status'[r] \in Expected(q, pc[q])
  BY <1>2 DEF Owned, TypeOK, StatusTruthful
<1>3. StatusTruthful'
  BY <1>2 DEF StatusTruthful, Expected
<1> QED
  BY <1>1, <1>3

(* Numbers of pt_status that are told apart. *)
LEMMA StatusNumbers ==
  /\ ~(RUNNING \in {PENDING, PAUSED, COMPLETED, INSTALLING_APP} \cup Free \cup SysErrors)
  /\ ~(PAUSED \in {PENDING, RUNNING, COMPLETED, INSTALLING_APP} \cup Free \cup SysErrors)
  /\ ~(COMPLETED \in Active \cup Free \cup SysErrors)
  /\ Active \cap (Free \cup SysErrors \cup {COMPLETED, ABORTED}) = {}
  /\ \A e \in Free : e < 1
BY PoolAssumption
   DEF PoolAssumption, Free, Active, CANCELED, READY, PAUSED, RUNNING, COMPLETED,
       INSTALLING_APP, PENDING, ABORTED

LEMMA StepOwned == Owned /\ [Next]_vars => Owned'
<1> SUFFICES ASSUME Owned, [Next]_vars PROVE SoleOwner' /\ StatusTruthful'
  BY StepTyped, StepRoles DEF Owned
<1> USE Constants, PoolAssumption DEF PoolAssumption
<1>a. TypeOK /\ Roles /\ SoleOwner /\ StatusTruthful
  BY DEF Owned
<1>b. ASSUME NEW p \in Procs, at[p] \in Slots \ overrun
      PROVE  status[at[p]] \in Expected(p, pc[p])
  BY <1>a, <1>b DEF StatusTruthful
<1>c. ASSUME UNCHANGED <<status, pc, at, overrun>> PROVE SoleOwner' /\ StatusTruthful'
  BY <1>a, <1>c DEF SoleOwner, StatusTruthful, Expected
<1>d. ASSUME NEW p \in Procs, at[p] \in Slots
      PROVE  status' = status => status' = [status EXCEPT ![at[p]] = status[at[p]]]
  BY <1>a DEF TypeOK
<1>1. ASSUME NEW i \in Items, PauseDownload(i) PROVE SoleOwner' /\ StatusTruthful'
  <2>1. PICK s \in Slots : status[s] = RUNNING /\ status' = [status EXCEPT ![s] = PAUSED]
    BY <1>1 DEF PauseDownload, SetStatus
  <2>2. ASSUME NEW q \in Procs, at[q] = s, s \notin overrun
        PROVE  PAUSED \in Expected(q, pc[q])
    BY <2>1, <2>2, <1>b, StatusNumbers, Statuses DEF Expected
  <2>3. UNCHANGED <<at, pc, overrun>>
    BY <1>1 DEF PauseDownload, procVars, history
  <2> QED
    BY <2>1, <2>2, <2>3, StatusSet
<1>2. ASSUME NEW i \in Items, ResumeDownload(i) PROVE SoleOwner' /\ StatusTruthful'
  <2>1. PICK s \in Slots : status[s] = PAUSED /\ status' = [status EXCEPT ![s] = RUNNING]
    BY <1>2 DEF ResumeDownload, SetStatus
  <2>2. ASSUME NEW q \in Procs, at[q] = s, s \notin overrun
        PROVE  RUNNING \in Expected(q, pc[q])
    BY <2>1, <2>2, <1>b, StatusNumbers, Statuses DEF Expected
  <2>3. UNCHANGED <<at, pc, overrun>>
    BY <1>2 DEF ResumeDownload, procVars, history
  <2> QED
    BY <2>1, <2>2, <2>3, StatusSet
<1>3. ASSUME NEW i \in Items, CancelDownload(i) PROVE SoleOwner' /\ StatusTruthful'
  <2>1. PICK s \in Slots : TakeOver(s) /\ status' = [status EXCEPT ![s] = CANCELED]
    BY <1>3 DEF CancelDownload, SetStatus
  <2>2. overrun \subseteq overrun' /\ (s \notin overrun' => \A q \in Procs : at[q] # s)
    BY <1>a, <2>1 DEF TakeOver, Attended, history, TypeOK
  <2>3. UNCHANGED <<at, pc>>
    BY <1>3 DEF CancelDownload
  <2>4. ASSUME NEW r \in Slots \ overrun', NEW q \in Procs, at[q] = r
        PROVE  status'[r] \in Expected(q, pc[q])
    BY <1>a, <2>1, <2>2, <2>4 DEF StatusTruthful, TypeOK
  <2> QED
    BY <1>a, <2>2, <2>3, <2>4 DEF SoleOwner, StatusTruthful, Expected
<1>4. ASSUME NEW i \in Items, DispatchDownload(i) PROVE SoleOwner' /\ StatusTruthful'
  <2>1. PICK s \in Slots : Dispatchable(s) /\ at' = [at EXCEPT ![UI] = s] /\ TakeOver(s)
    BY <1>4 DEF DispatchDownload
  <2>2. status[s] \in Expected(UI, "head")
    BY <1>a, <2>1 DEF Dispatchable, Expected, TypeOK
  <2>3. Idle /\ pc' = [pc EXCEPT ![UI] = "head"] /\ UNCHANGED status
    BY <1>4 DEF DispatchDownload, Goto
  <2> QED
    BY <2>1, <2>2, <2>3, UITakes
<1>5. ASSUME NEW i \in Items, InstallDownloaded(i) PROVE SoleOwner' /\ StatusTruthful'
  <2>1. PICK s \in Slots :
          status[s] = COMPLETED /\ at' = [at EXCEPT ![UI] = s] /\ TakeOver(s)
    BY <1>5 DEF InstallDownloaded
  <2>2. status[s] \in Expected(UI, "pkg")
    BY <1>a, <2>1 DEF Expected, TypeOK
  <2>3. Idle /\ pc' = [pc EXCEPT ![UI] = "pkg"] /\ UNCHANGED status
    BY <1>5 DEF InstallDownloaded, Goto, slotVars
  <2> QED
    BY <2>1, <2>2, <2>3, UITakes
<1>6. CASE \/ ToggleAutoInstall \/ ToggleLegacyInstall \/ UNCHANGED vars
           \/ \E f \in Folders : SetFolder(f)
  BY <1>c, <1>6 DEF ToggleAutoInstall, ToggleLegacyInstall, SetFolder, vars, slotVars,
                    procVars, history
<1>7. CASE SaveSettings \/ SettingsReloaded
  <2>1. /\ at[UI] = NoSlot
        /\ \E l \in {"none", "load"} : pc' = [pc EXCEPT ![UI] = l]
        /\ UNCHANGED <<status, at, overrun>>
    BY <1>a, <1>7 DEF SaveSettings, SettingsReloaded, Idle, Goto, slotVars, history, TypeOK
  <2>2. \A s \in Slots, q \in Procs : at[q] = s => q # UI /\ pc'[q] = pc[q]
    BY <1>a, <2>1 DEF TypeOK
  <2> QED
    BY <1>a, <2>1, <2>2 DEF SoleOwner, StatusTruthful, Expected
<1>8. ASSUME NEW w \in Workers, HeadSucceeds(w) PROVE SoleOwner' /\ StatusTruthful'
  <2> DEFINE v == IF status[at[UI]] < 1 THEN PENDING ELSE status[at[UI]]
  <2>1. /\ pc[UI] = "head" /\ pc[w] = "none"
        /\ status' = [status EXCEPT ![at[UI]] = v]
        /\ Spawn(w, at[UI], "created")
        /\ UNCHANGED overrun
    BY <1>8 DEF HeadSucceeds, SetStatus, history
  <2>2. at[UI] \in Slots
    BY <1>a, <2>1, Attached
  <2>3. ASSUME at[UI] \notin overrun PROVE v \in Expected(w, "created")
    <3>1. status[at[UI]] \in Free
      BY <1>b, <2>1, <2>2, <2>3 DEF Expected
    <3> QED
      BY <3>1, StatusNumbers, Statuses DEF Expected
  <2> QED
    BY <2>1, <2>2, <2>3, ThreadStarts
<1>9. ASSUME NEW p \in Procs, NEW t \in Installers, InstallInThread(p, t)
      PROVE  SoleOwner' /\ StatusTruthful'
  <2>1. /\ pc[p] = "offer" /\ pc[t] = "none"
        /\ pc' = [pc EXCEPT ![p] = "left", ![t] = "inst"]
        /\ at' = [at EXCEPT ![t] = at[p]]
        /\ UNCHANGED <<status, overrun>>
    BY <1>9 DEF InstallInThread, slotVars, history
  <2>2. at[p] \in Slots /\ p \notin Installers /\ at[t] = NoSlot /\ t \in Procs \ {p}
    BY <1>a, <2>1, Attached DEF Roles, TypeOK
  <2>3. at[p] \notin overrun => \A q \in Procs \ {p} : at[q] # at[p]
    BY <1>a, <2>1, <2>2 DEF SoleOwner
  <2>4. /\ at'[t] = at[p] /\ pc'[t] = "inst" /\ pc'[p] = "left"
        /\ \A q \in Procs \ {t} : at'[q] = at[q]
        /\ \A q \in Procs \ {p, t} : pc'[q] = pc[q]
    BY <1>a, <2>1, <2>2 DEF TypeOK
  <2>5. ASSUME NEW s \in Slots \ overrun, NEW q \in Procs, NEW r \in Procs,
               at'[q] = s, at'[r] = s, q # r
        PROVE  \/ pc'[q] = "left" /\ r \in Installers
               \/ pc'[r] = "left" /\ q \in Installers
    <3>1. CASE q = t
      BY <2>2, <2>3, <2>4, <2>5, <3>1
    <3>2. CASE r = t
      BY <2>2, <2>3, <2>4, <2>5, <3>2
    <3>3. CASE q # t /\ r # t
      <4>1. at[q] = s /\ at[r] = s
        BY <2>4, <2>5, <3>3
      <4>2. q # p /\ r # p
        BY <2>3, <2>5, <4>1
      <4>3. pc'[q] = pc[q] /\ pc'[r] = pc[r]
        BY <2>4, <3>3, <4>2
      <4> QED
        BY <1>a, <2>5, <4>1, <4>3 DEF SoleOwner
    <3> QED
      BY <3>1, <3>2, <3>3
  <2>6. ASSUME NEW s \in Slots \ overrun, NEW q \in Procs, at'[q] = s
        PROVE  status[s] \in Expected(q, pc'[q])
    <3>1. CASE q = t
      BY <1>b, <2>1, <2>2, <2>4, <2>6, <3>1 DEF Expected
    <3>2. CASE q = p
      BY <1>b, <2>1, <2>2, <2>4, <2>6, <3>2 DEF Expected
    <3>3. CASE q \notin {p, t}
      BY <1>b, <2>4, <2>6, <3>3
    <3> QED
      BY <3>1, <3>2, <3>3
  <2>7. StatusTruthful'
    BY <2>1, <2>6 DEF StatusTruthful, Expected
  <2>8. SoleOwner'
    <3>1. overrun' = overrun
      BY <2>1
    <3>2. \A s \in Slots \ overrun : \A q, r \in Procs :
            at'[q] = s /\ at'[r] = s /\ q # r
              => \/ pc'[q] = "left" /\ r \in Installers
                 \/ pc'[r] = "left" /\ q \in Installers
      BY ONLY <2>5
    <3> QED
      BY ONLY <3>1, <3>2 DEF SoleOwner
  <2> QED
    BY <2>7, <2>8
<1>10. CASE HeadFails
  <2>1. /\ pc[UI] = "head"
        /\ status' = [status EXCEPT ![at[UI]] = CANCELED]
        /\ Leave(UI)
        /\ UNCHANGED overrun
    BY <1>10 DEF HeadFails, SetStatus, history
  <2> QED
    BY <1>a, <2>1, Attached, Statuses, ThreadLeaves
<1>11. ASSUME NEW w \in Workers, Download(w) \/ BreakTransfer(w)
       PROVE  SoleOwner' /\ StatusTruthful'
  <2>0. w \in Procs
    OBVIOUS
  <2>1. at[w] \in Slots
    BY <1>a, <1>11, Attached
       DEF Download, BeginDownload, EnterDownload, UnlinkOutput, OpenOutput, EndTransfer,
           AutoInstall, EndDownload, BreakTransfer
  <2>2. CASE BeginDownload(w) \/ EnterDownload(w)
    <3>1. \E l \in {"begun", "entered"} : pc' = [pc EXCEPT ![w] = l]
      BY <2>2 DEF BeginDownload, EnterDownload, Goto
    <3>2. /\ status' = [status EXCEPT ![at[w]] = RUNNING] /\ UNCHANGED <<at, overrun>>
          /\ pc[w] # "left"
      BY <2>2 DEF BeginDownload, EnterDownload, SetStatus, history
    <3>3. \A l \in {"begun", "entered"} : RUNNING \in Expected(w, l)
      BY Statuses DEF Expected
    <3> QED
      BY <2>1, <3>1, <3>2, <3>3, ThreadGoesOn
  <2>3. CASE \/ UnlinkOutput(w) \/ OpenOutput(w) \/ EndTransfer(w)
             \/ BreakTransfer(w) \/ AutoInstall(w)
    <3>1. /\ pc[w] \in {"entered", "unlinked", "transfer", "ret"}
          /\ \E l \in {"unlinked", "transfer", "ret", "pkg"} : pc' = [pc EXCEPT ![w] = l]
          /\ UNCHANGED <<status, at, overrun>>
      BY <2>3 DEF UnlinkOutput, OpenOutput, EndTransfer, BreakTransfer, AutoInstall, Goto, slotVars,
                  history
    <3>2. ASSUME at[w] \notin overrun, NEW l \in {"unlinked", "transfer", "ret", "pkg"}
          PROVE  status[at[w]] \in Expected(w, l)
      <4>1. w # UI
        OBVIOUS
      <4>2. status[at[w]] \in Expected(w, pc[w])
        BY <1>b, <2>1, <3>2
      <4> QED
        BY <3>1, <4>1, <4>2 DEF Expected
    <3> QED
      BY <1>d, <2>1, <3>1, <3>2, ThreadGoesOn
  <2>4. CASE EndDownload(w)
    <3>1. (IF ret[w] = 0 THEN COMPLETED ELSE ret[w]) \in StatusValues /\ pc[w] # "left"
      BY <1>a, <2>4, Statuses DEF TypeOK, EndDownload
    <3> QED
      BY <2>1, <2>4, <3>1, ThreadLeaves DEF EndDownload, SetStatus, history
  <2> QED
    BY <1>11, <2>2, <2>3, <2>4 DEF Download
<1>12. ASSUME NEW p \in Procs, Install(p), \A t \in Installers : ~InstallInThread(p, t)
       PROVE  SoleOwner' /\ StatusTruthful'
  <2>1. at[p] \in Slots
    BY <1>a, <1>12, Attached
       DEF Install, BeginInstall, InstallFails, InstallInline, InstallInBackground,
           BeginProgress, EndProgress, CleanUp, EndInstall
  <2>2. CASE BeginInstall(p) \/ BeginProgress(p)
    <3>1. \E l \in {"check", "offer", "poll"} : pc' = [pc EXCEPT ![p] = l]
      BY <2>2 DEF BeginInstall, BeginProgress, Goto
    <3>2. /\ status' = [status EXCEPT ![at[p]] = INSTALLING_APP] /\ UNCHANGED <<at, overrun>>
          /\ pc[p] # "left"
      BY <2>2 DEF BeginInstall, BeginProgress, SetStatus, history
    <3>3. \A l \in {"check", "offer", "poll"} : INSTALLING_APP \in Expected(p, l)
      BY Statuses DEF Expected
    <3> QED
      BY <2>1, <3>1, <3>2, <3>3, ThreadGoesOn
  <2>3. CASE InstallInline(p)
    <3>1. /\ pc[p] = "check" /\ pc' = [pc EXCEPT ![p] = "inst"]
          /\ UNCHANGED <<status, at, overrun>>
      BY <2>3 DEF InstallInline, Goto, slotVars, history
    <3>2. ASSUME at[p] \notin overrun PROVE status[at[p]] \in Expected(p, "inst")
      BY <1>b, <2>1, <3>1, <3>2 DEF Expected
    <3> QED
      BY <1>d, <2>1, <3>1, <3>2, ThreadGoesOn
  <2>4. CASE EndProgress(p)
    <3>1. PICK v \in {COMPLETED} \cup SysErrors : status' = [status EXCEPT ![at[p]] = v]
      BY <2>4 DEF EndProgress, SetStatus
    <3>2. v \in Expected(p, "clean")
      BY Statuses DEF Expected
    <3> QED
      BY <2>1, <2>4, <3>1, <3>2, ThreadGoesOn DEF EndProgress, Goto, history
  <2>5. CASE CleanUp(p) /\ p \notin Installers
    <3>1. /\ pc[p] = "clean" /\ pc' = [pc EXCEPT ![p] = "tail"]
          /\ UNCHANGED <<status, at, overrun>>
      BY <2>5 DEF CleanUp, Goto, history
    <3>2. ASSUME at[p] \notin overrun PROVE status[at[p]] \in Expected(p, "tail")
      BY <1>b, <2>1, <3>1, <3>2 DEF Expected
    <3> QED
      BY <1>d, <2>1, <3>1, <3>2, ThreadGoesOn
  <2>6. CASE InstallFails(p)
    <3>1. PICK e \in {CANCELED} \cup SysErrors : status' = [status EXCEPT ![at[p]] = e]
      BY <2>6 DEF InstallFails, SetStatus
    <3>2. e \in StatusValues /\ pc[p] # "left" /\ Leave(p) /\ UNCHANGED overrun
      BY <2>6, Statuses DEF InstallFails, history
    <3> QED
      BY <2>1, <3>1, <3>2, ThreadLeaves
  <2>7. CASE EndInstall(p) \/ (CleanUp(p) /\ p \in Installers)
    <3>1. Leave(p) /\ UNCHANGED <<status, overrun>> /\ status[at[p]] \in StatusValues
      BY <1>a, <2>1, <2>7 DEF EndInstall, CleanUp, history, TypeOK
    <3> QED
      BY <1>d, <2>1, <3>1, ThreadLeaves
  <2>8. CASE InstallInBackground(p)
    <3>1. /\ pc[p] = "offer" /\ pc' = [pc EXCEPT ![p] = "left"]
          /\ status' = [status EXCEPT ![at[p]] = READY]
          /\ UNCHANGED <<at, overrun>>
      BY <2>8 DEF InstallInBackground, Goto, SetStatus, history
    <3>2. READY \in Expected(p, "left")
      BY Statuses DEF Expected
    <3> QED
      BY <2>1, <3>1, <3>2, ThreadGoesOn
  <2> QED
    BY <1>12, <2>2, <2>3, <2>4, <2>5, <2>6, <2>7, <2>8 DEF Install
<1> QED
  BY <1>1, <1>2, <1>3, <1>4, <1>5, <1>6, <1>7, <1>8, <1>9, <1>10, <1>11, <1>12
     DEF Next, Command, Settings, FinishCall, Install

LEMMA AlwaysOwned == Spec => []Owned
<1>1. Init => Owned
  BY InitTyped, Constants, PoolAssumption
     DEF Init, Owned, Roles, SoleOwner, StatusTruthful, PoolAssumption, Procs
<1> QED
  BY <1>1, StepOwned, PTL DEF Spec

(* Until a cancel or a reuse catches a live thread, the status of a slot tells *)
(* the buttons what its thread is doing.                                       *)
THEOREM StatusMeansWhatItSays == Spec => []StatusTruthful
BY AlwaysOwned, PTL DEF Owned

-----------------------------------------------------------------------------
(* Where slots are lost. *)

(* A thread works for an item until pkginstall, or the install_prog it      *)
(* called, gives the item up and has only to return.                        *)
Serving ==
  \A p \in Procs :
    at[p] \in Slots \ overrun =>
      /\ pc[p] \notin {"tail", "left"} => g_idx[at[p]] # NoItem
      /\ pc[p] = "tail" => g_idx[at[p]] = NoItem

(* A slot without an item is free or an install has ended in it: whatever a *)
(* download leaves in its slot, there is an item to cancel or retry it by.  *)
(* FullQueueDrains fails by the second kind, and by that alone.             *)
OnlyInstallsStrand ==
  \A s \in Slots \ overrun :
    g_idx[s] = NoItem => status[s] \in Free \cup {COMPLETED} \cup SysErrors

(* A step of thread p in its own slot, which keeps its item. *)
LEMMA ServesOn ==
  ASSUME Owned, Serving, OnlyInstallsStrand, NEW p \in Procs,
         at[p] \in Slots, pc[p] \notin {"tail", "left"},
         UNCHANGED <<g_idx, overrun>>,
         \A q \in Procs \ {p} : pc'[q] = pc[q] /\ at'[q] = at[q],
         at'[p] = NoSlot \/ (at'[p] = at[p] /\ pc'[p] # "tail"),
         \A s \in Slots \ {at[p]} : status'[s] = status[s]
  PROVE  Serving' /\ OnlyInstallsStrand'
<1>1. at[p] \notin overrun => g_idx[at[p]] # NoItem
  BY DEF Serving
<1>2. Serving'
  BY <1>1, Constants DEF Serving
<1>3. OnlyInstallsStrand'
  <2> SUFFICES ASSUME NEW s \in Slots \ overrun, g_idx[s] = NoItem
               PROVE  status'[s] \in Free \cup {COMPLETED} \cup SysErrors
    BY DEF OnlyInstallsStrand
  <2>1. s # at[p]
    BY <1>1
  <2> QED
    BY <2>1 DEF OnlyInstallsStrand
<1> QED
  BY <1>2, <1>3

(* The same when the slot loses its item and p has only to return. *)
LEMMA GivesUp ==
  ASSUME Owned, Serving, OnlyInstallsStrand, NEW p \in Procs, at[p] \in Slots,
         pc[p] # "left",
         g_idx' = [g_idx EXCEPT ![at[p]] = NoItem], UNCHANGED overrun,
         \A q \in Procs \ {p} : pc'[q] = pc[q] /\ at'[q] = at[q],
         at'[p] = NoSlot \/ (at'[p] = at[p] /\ pc'[p] \in {"tail", "left"}),
         \A s \in Slots \ {at[p]} : status'[s] = status[s],
         at[p] \notin overrun => status'[at[p]] \in Free \cup {COMPLETED} \cup SysErrors
  PROVE  Serving' /\ OnlyInstallsStrand'
<1>t. g_idx \in [Slots -> Items \cup {NoItem}] /\ SoleOwner
  BY DEF Owned, TypeOK
<1>1. Serving'
  <2> SUFFICES ASSUME NEW q \in Procs, at'[q] \in Slots \ overrun
               PROVE  /\ pc'[q] \notin {"tail", "left"} => g_idx'[at'[q]] # NoItem
                      /\ pc'[q] = "tail" => g_idx'[at'[q]] = NoItem
    BY DEF Serving
  <2>1. CASE q = p
    BY <1>t, <2>1, Constants
  <2>2. CASE q # p /\ at[q] = at[p]
    <3>1. pc'[q] = "left"
      BY <1>t, <2>2 DEF SoleOwner
    <3> QED
      BY <3>1
  <2>3. CASE q # p /\ at[q] # at[p]
    BY <1>t, <2>3 DEF Serving
  <2> QED
    BY <2>1, <2>2, <2>3
<1>2. OnlyInstallsStrand'
  BY <1>t DEF OnlyInstallsStrand
<1> QED
  BY <1>1, <1>2

LEMMA StepStrands ==
  ASSUME Owned, Serving, OnlyInstallsStrand, [Next]_vars
  PROVE  Serving' /\ OnlyInstallsStrand'
<1> DEFINE Kept == Serving' /\ OnlyInstallsStrand'
<1> USE Constants, PoolAssumption DEF PoolAssumption
<1>t. /\ TypeOK /\ Roles /\ SoleOwner /\ StatusTruthful
      /\ status \in [Slots -> StatusValues] /\ g_idx \in [Slots -> Items \cup {NoItem}]
      /\ at \in [Procs -> Slots \cup {NoSlot}] /\ pc \in [Procs -> Locations]
  BY DEF Owned, TypeOK
<1>1. CASE UNCHANGED <<status, g_idx, pc, at, overrun>>
  BY <1>1 DEF Serving, OnlyInstallsStrand
<1>2. ASSUME NEW i \in Items, PauseDownload(i) \/ ResumeDownload(i) PROVE Kept
  <2>1. PICK s \in Slots : g_idx[s] = i /\ \E v : status' = [status EXCEPT ![s] = v]
    BY <1>2 DEF PauseDownload, ResumeDownload, Handles, SetStatus
  <2>2. UNCHANGED <<g_idx, pc, at, overrun>>
    BY <1>2 DEF PauseDownload, ResumeDownload, procVars, history
  <2> QED
    BY <1>t, <2>1, <2>2 DEF Serving, OnlyInstallsStrand
<1>3. ASSUME NEW i \in Items, CancelDownload(i) PROVE Kept
  <2>1. PICK s \in Slots : /\ TakeOver(s) /\ status' = [status EXCEPT ![s] = CANCELED]
                           /\ g_idx' = [g_idx EXCEPT ![s] = NoItem]
    BY <1>3 DEF CancelDownload, SetStatus
  <2>2. overrun \subseteq overrun' /\ (s \notin overrun' => \A q \in Procs : at[q] # s)
    BY <1>t, <2>1 DEF TakeOver, Attended, history
  <2>3. UNCHANGED <<at, pc>>
    BY <1>3 DEF CancelDownload
  <2>4. Serving'
    BY <1>t, <2>1, <2>2, <2>3 DEF Serving
  <2>5. OnlyInstallsStrand'
    BY <1>t, <2>1, <2>2 DEF OnlyInstallsStrand, Free
  <2> QED
    BY <2>4, <2>5
<1>4. ASSUME NEW i \in Items, DispatchDownload(i) \/ InstallDownloaded(i) PROVE Kept
  <2>1. PICK s \in Slots :
          /\ TakeOver(s) /\ at' = [at EXCEPT ![UI] = s]
          /\ \/ g_idx' = [g_idx EXCEPT ![s] = i]
             \/ UNCHANGED g_idx /\ g_idx[s] = i
    BY <1>4 DEF DispatchDownload, InstallDownloaded, Handles, slotVars
  <2>2. overrun \subseteq overrun' /\ (s \notin overrun' => \A q \in Procs : at[q] # s)
    BY <1>t, <2>1 DEF TakeOver, Attended, history
  <2>3. UNCHANGED status /\ \E l \in {"head", "pkg"} : pc' = [pc EXCEPT ![UI] = l]
    BY <1>4 DEF DispatchDownload, InstallDownloaded, Goto, slotVars
  <2>4. g_idx'[s] # NoItem /\ \A r \in Slots \ {s} : g_idx'[r] = g_idx[r]
    BY <1>t, <2>1
  <2>5. Serving'
    <3> SUFFICES ASSUME NEW q \in Procs, at'[q] \in Slots \ overrun'
                 PROVE  /\ pc'[q] \notin {"tail", "left"} => g_idx'[at'[q]] # NoItem
                        /\ pc'[q] = "tail" => g_idx'[at'[q]] = NoItem
      BY DEF Serving
    <3>1. CASE at'[q] = s
      <4>1. q = UI
        BY <1>t, <2>1, <2>2, <3>1
      <4> QED
        BY <1>t, <2>3, <2>4, <3>1, <4>1
    <3>2. CASE at'[q] # s
      <4>1. at'[q] = at[q] /\ pc'[q] = pc[q]
        BY <1>t, <2>1, <2>3, <3>2
      <4> QED
        BY <2>2, <2>4, <3>2, <4>1 DEF Serving
    <3> QED
      BY <3>1, <3>2
  <2>6. OnlyInstallsStrand'
    BY <2>2, <2>3, <2>4 DEF OnlyInstallsStrand
  <2> QED
    BY <2>5, <2>6
<1>5. ASSUME NEW w \in Workers, HeadSucceeds(w) PROVE Kept
  <2>1. /\ pc[UI] = "head" /\ pc[w] = "none"
        /\ at' = [at EXCEPT ![UI] = NoSlot, ![w] = at[UI]]
        /\ pc' = [pc EXCEPT ![UI] = "none", ![w] = "created"]
        /\ UNCHANGED <<g_idx, overrun>>
        /\ \E v : status' = [status EXCEPT ![at[UI]] = v]
    BY <1>5 DEF HeadSucceeds, Spawn, SetStatus, history
  <2>2. at[UI] \in Slots /\ w \in Procs \ {UI}
    BY <1>t, <2>1, Attached DEF Procs
  <2>3. at[UI] \notin overrun => g_idx[at[UI]] # NoItem
    BY <2>1, <2>2 DEF Serving
  <2>4. Serving'
    <3> SUFFICES ASSUME NEW q \in Procs, at'[q] \in Slots \ overrun
                 PROVE  /\ pc'[q] \notin {"tail", "left"} => g_idx[at'[q]] # NoItem
                        /\ pc'[q] = "tail" => g_idx[at'[q]] = NoItem
      BY <2>1 DEF Serving
    <3>1. CASE q = w
      BY <1>t, <2>1, <2>2, <2>3, <3>1
    <3>2. CASE q # w
      <4>1. q # UI /\ at'[q] = at[q] /\ pc'[q] = pc[q]
        BY <1>t, <2>1, <2>2, <3>2
      <4> QED
        BY <4>1 DEF Serving
    <3> QED
      BY <3>1, <3>2
  <2>5. OnlyInstallsStrand'
    BY <1>t, <2>1, <2>2, <2>3 DEF OnlyInstallsStrand
  <2> QED
    BY <2>4, <2>5
<1>6. CASE HeadFails
  <2>1. /\ pc[UI] = "head" /\ Leave(UI) /\ UNCHANGED <<g_idx, overrun>>
        /\ status' = [status EXCEPT ![at[UI]] = CANCELED]
    BY <1>6 DEF HeadFails, SetStatus, history
  <2> QED
    BY <1>t, <2>1, Attached, ServesOn DEF Leave, Goto
<1>7. ASSUME NEW p \in Procs, InstallInBackground(p) PROVE Kept
  <2>1. /\ pc[p] = "offer" /\ pc' = [pc EXCEPT ![p] = "left"]
        /\ g_idx' = [g_idx EXCEPT ![at[p]] = NoItem]
        /\ status' = [status EXCEPT ![at[p]] = READY]
        /\ UNCHANGED <<at, overrun>>
    BY <1>7 DEF InstallInBackground, SetStatus, Goto, history
  <2>2. at[p] \in Slots
    BY <1>t, <2>1, Attached
  <2>3. status'[at[p]] \in Free
    BY <1>t, <2>1, <2>2 DEF Free
  <2> QED
    BY <1>t, <2>1, <2>2, <2>3, GivesUp
<1>8. CASE SaveSettings \/ SettingsReloaded
  <2>1. /\ at[UI] = NoSlot
        /\ \E l \in {"none", "load"} : pc' = [pc EXCEPT ![UI] = l]
        /\ UNCHANGED <<status, g_idx, at, overrun>>
    BY <1>t, <1>8
       DEF SaveSettings, SettingsReloaded, Idle, Goto, slotVars, history, TypeOK
  <2> QED
    BY <1>t, <2>1 DEF Serving, OnlyInstallsStrand
<1>9. ASSUME NEW w \in Workers, Download(w) \/ BreakTransfer(w) PROVE Kept
  <2>1. /\ pc[w] \in {"created", "begun", "entered", "unlinked", "transfer", "ret"}
        /\ \E l \in Locations \ {"tail"} : pc' = [pc EXCEPT ![w] = l]
        /\ at' \in {at, [at EXCEPT ![w] = NoSlot]}
        /\ UNCHANGED status \/ \E v : status' = [status EXCEPT ![at[w]] = v]
        /\ UNCHANGED <<g_idx, overrun>>
    BY <1>9
       DEF Download, BreakTransfer, BeginDownload, EnterDownload, UnlinkOutput, OpenOutput,
           EndTransfer, AutoInstall, EndDownload, Leave, Goto, SetStatus, slotVars, history, Locations
  <2> QED
    BY <1>t, <2>1, Attached, ServesOn
<1>10. ASSUME NEW p \in Procs,
              \/ BeginInstall(p) \/ InstallFails(p) \/ InstallInline(p)
              \/ BeginProgress(p) \/ EndProgress(p)
       PROVE  Kept
  <2>1. /\ pc[p] \in {"pkg", "check", "offer", "inst", "poll"}
        /\ \E l \in Locations \ {"tail"} : pc' = [pc EXCEPT ![p] = l]
        /\ at' \in {at, [at EXCEPT ![p] = NoSlot]}
        /\ UNCHANGED status \/ \E v : status' = [status EXCEPT ![at[p]] = v]
        /\ UNCHANGED <<g_idx, overrun>>
    BY <1>10
       DEF BeginInstall, InstallFails, InstallInline, BeginProgress,
           EndProgress, Leave, Goto, SetStatus, slotVars, history, Locations
  <2> QED
    BY <1>t, <2>1, Attached, ServesOn
<1>11. ASSUME NEW p \in Procs, CleanUp(p) PROVE Kept
  <2>1. /\ pc[p] = "clean" /\ UNCHANGED <<status, overrun>>
        /\ g_idx' = [g_idx EXCEPT ![at[p]] = NoItem]
        /\ \/ pc' = [pc EXCEPT ![p] = "none"] /\ at' = [at EXCEPT ![p] = NoSlot]
           \/ pc' = [pc EXCEPT ![p] = "tail"] /\ UNCHANGED at
    BY <1>11 DEF CleanUp, Leave, Goto, history
  <2>2. at[p] \in Slots
    BY <1>t, <2>1, Attached
  <2>3. at[p] \notin overrun => status[at[p]] \in {COMPLETED} \cup SysErrors
    BY <1>t, <2>1, <2>2 DEF StatusTruthful, Expected
  <2> QED
    BY <1>t, <2>1, <2>2, <2>3, GivesUp
<1>14. ASSUME NEW p \in Procs, NEW t \in Installers, InstallInThread(p, t) PROVE Kept
  <2>1. /\ pc[p] = "offer" /\ pc[t] = "none"
        /\ pc' = [pc EXCEPT ![p] = "left", ![t] = "inst"]
        /\ at' = [at EXCEPT ![t] = at[p]]
        /\ UNCHANGED <<status, g_idx, overrun>>
    BY <1>14 DEF InstallInThread, slotVars, history
  <2>2. at[p] \in Slots /\ (at[p] \notin overrun => g_idx[at[p]] # NoItem)
    BY <1>t, <2>1, Attached DEF Serving
  <2>3. Serving'
    <3> SUFFICES ASSUME NEW q \in Procs, at'[q] \in Slots \ overrun
                 PROVE  /\ pc'[q] \notin {"tail", "left"} => g_idx[at'[q]] # NoItem
                        /\ pc'[q] = "tail" => g_idx[at'[q]] = NoItem
      BY <2>1 DEF Serving
    <3>1. CASE q = t
      BY <1>t, <2>1, <2>2, <3>1
    <3>2. CASE q = p /\ q # t
      BY <1>t, <2>1, <3>2
    <3>3. CASE q \notin {p, t}
      BY <1>t, <2>1, <3>3 DEF Serving
    <3> QED
      BY <3>1, <3>2, <3>3
  <2> QED
    BY <2>1, <2>3 DEF OnlyInstallsStrand
<1>12. ASSUME NEW p \in Procs, EndInstall(p) PROVE Kept
  <2>1. /\ pc' = [pc EXCEPT ![p] = "none"] /\ at' = [at EXCEPT ![p] = NoSlot]
        /\ UNCHANGED <<status, g_idx, overrun>>
    BY <1>12 DEF EndInstall, Leave, Goto, history
  <2> QED
    BY <1>t, <2>1 DEF Serving, OnlyInstallsStrand
<1>13. CASE \/ ToggleAutoInstall \/ ToggleLegacyInstall \/ UNCHANGED vars
            \/ \E f \in Folders : SetFolder(f)
  BY <1>1, <1>13
     DEF ToggleAutoInstall, ToggleLegacyInstall, SetFolder, vars, slotVars, procVars, history
<1> QED
  BY <1>2, <1>3, <1>4, <1>5, <1>6, <1>7, <1>8, <1>9, <1>10, <1>11, <1>12, <1>13, <1>14
     DEF Next, Command, Settings, FinishCall, Install

LEMMA AlwaysServing == Spec => [](Owned /\ Serving /\ OnlyInstallsStrand)
<1>1. Init => Serving /\ OnlyInstallsStrand
  BY Constants DEF Init, Serving, OnlyInstallsStrand, Free
<1>2. Owned /\ Serving /\ OnlyInstallsStrand /\ [Next]_vars
        => (Serving /\ OnlyInstallsStrand)'
  BY StepStrands
<1> QED
  BY <1>1, <1>2, AlwaysOwned, PTL DEF Spec

(* The only slots the queue loses for good are those an install ended in:   *)
(* its status stays what install_prog left, and thread_dispatch_index       *)
(* takes none but READY and CANCELED. A failed download, which also leaves  *)
(* such a status, still has its item.                                       *)
THEOREM SlotsAreLostToInstalls == Spec => []OnlyInstallsStrand
BY AlwaysServing, PTL

-----------------------------------------------------------------------------
(* What the UI may build on the status of a slot. *)

(* A slot whose status lets it be dispatched, or its download be installed,  *)
(* has no thread left that would write to it on the way out, but for the two *)
(* last stores of an install.                                                *)
LEMMA StepReuses ==
  ASSUME Owned, Serving, [Next]_vars, NEW s \in Slots, at[UI] = NoSlot, at'[UI] = s,
         NEW p \in Procs, at[p] = s, s \notin overrun
  PROVE  pc[p] \in {"clean", "left"}
<1>t. TypeOK /\ Roles /\ status[s] \in Expected(p, pc[p])
  BY DEF Owned, StatusTruthful
<1> USE Constants, PoolAssumption DEF PoolAssumption
<1>1. p # UI
  OBVIOUS
<1>2. pc[p] \notin {"none", "load", "head"}
  BY <1>t, <1>1 DEF TypeOK, Roles, Procs
<1>3. /\ pc[p] = "tail" => g_idx[s] = NoItem
      /\ pc[p] \in Locations
  BY <1>t DEF Serving, TypeOK
<1>4. CASE \E i \in Items : DispatchDownload(i) \/ InstallDownloaded(i)
  <2>1. PICK i \in Items, r \in Slots :
          /\ at' = [at EXCEPT ![UI] = r]
          /\ \/ status[r] \in Free
             \/ status[r] = COMPLETED /\ g_idx[r] = i
    BY <1>4 DEF DispatchDownload, InstallDownloaded, Dispatchable, Handles
  <2>2. r = s
    BY <1>t, <2>1 DEF TypeOK
  <2>3. status[s] \in Free \/ (status[s] = COMPLETED /\ g_idx[s] # NoItem)
    BY <2>1, <2>2
  <2>4. /\ status[s] \notin {PENDING, RUNNING, PAUSED, INSTALLING_APP}
        /\ status[s] \notin SysErrors
    <3>1. Free \cap SysErrors = {}
      BY DEF Free, CANCELED, READY
    <3> QED
      BY <2>3, <3>1, StatusNumbers DEF Active
  <2>5. pc[p] # "created" /\ pc[p] \notin {"begun", "entered", "unlinked", "transfer", "ret", "pkg"}
    BY <1>t, <1>1, <2>4 DEF Expected
  <2>6. pc[p] \notin {"check", "offer", "inst", "poll"}
    BY <1>t, <2>4 DEF Expected
  <2>7. pc[p] # "tail"
    <3>1. pc[p] = "tail" => status[s] \in {COMPLETED} \cup SysErrors
      BY <1>t DEF Expected
    <3> QED
      BY <1>3, <2>3, <2>4, <3>1, StatusNumbers
  <2> QED
    BY <1>2, <1>3, <2>5, <2>6, <2>7 DEF Locations
<1>5. CASE \E q \in Procs, t \in Installers : InstallInThread(q, t)
  <2>1. at'[UI] = at[UI]
    BY <1>t, <1>5 DEF InstallInThread, TypeOK
  <2> QED
    BY <2>1
<1>6. CASE ~(\E i \in Items : DispatchDownload(i) \/ InstallDownloaded(i))
             /\ ~(\E q \in Procs, t \in Installers : InstallInThread(q, t))
  <2>1. \/ UNCHANGED at \/ \E q \in Procs : at' = [at EXCEPT ![q] = NoSlot]
        \/ \E w \in Workers : at' = [at EXCEPT ![UI] = NoSlot, ![w] = at[UI]]
    BY <1>6
       DEF Next, Command, Settings, FinishCall, Download, Install, PauseDownload,
           ResumeDownload, CancelDownload, ToggleAutoInstall, ToggleLegacyInstall, SetFolder,
           SaveSettings, HeadSucceeds, HeadFails, SettingsReloaded, BeginDownload,
           EnterDownload, UnlinkOutput, OpenOutput, EndTransfer, BreakTransfer, AutoInstall,
           EndDownload, BeginInstall, InstallFails, InstallInline, InstallInBackground,
           BeginProgress, EndProgress, CleanUp, EndInstall, Leave, Spawn, vars, procVars
  <2>2. at'[UI] = NoSlot
    BY <1>t, <2>1 DEF TypeOK
  <2> QED
    BY <2>2
<1> QED
  BY <1>4, <1>5, <1>6

(* thread_dispatch_index and the Install button look at nothing but the      *)
(* status, and still give a slot away only when the thread that was on it is *)
(* done with it, or when a cancel caught that thread before.                 *)
THEOREM FinishedSlotsAreReused == Spec => ReusesFinishedSlots
<1>1. Owned /\ Serving /\ [Next]_vars
        => [\A s \in Slots :
              at[UI] = NoSlot /\ at'[UI] = s
                => s \in overrun \/ \A p \in Procs : at[p] = s => pc[p] \in {"clean", "left"}]_vars
  BY StepReuses
<1> QED
  BY <1>1, AlwaysServing, PTL DEF Spec, ReusesFinishedSlots

-----------------------------------------------------------------------------
(* A busy slot has a thread. *)

(* Somebody will change the status of s, or can by its item. *)
Manned(s) ==
  \/ \E p \in Procs : at[p] = s /\ pc[p] # "left"
  \/ s \in misread /\ g_idx[s] # NoItem

(* A step that touches slot s and its threads only. *)
LEMMA OthersManned ==
  ASSUME NoGhost, NEW s \in Slots, overrun \subseteq overrun',
         \A r \in Slots \ {s} : /\ status'[r] = status[r] /\ g_idx'[r] = g_idx[r]
                                /\ r \in misread => r \in misread',
         \A q \in Procs : at[q] \in Slots \ {s} => at'[q] = at[q] /\ pc'[q] = pc[q],
         s \notin overrun' => status'[s] \notin Active \/ Manned(s)'
  PROVE  NoGhost'
<1> SUFFICES ASSUME NEW r \in Slots \ overrun', status'[r] \in Active PROVE Manned(r)'
  BY DEF NoGhost, Manned
<1>1. CASE r = s
  BY <1>1
<1>2. CASE r # s
  <2>1. Manned(r)
    BY <1>2 DEF NoGhost, Manned
  <2> QED
    BY <1>2, <2>1 DEF Manned
<1> QED
  BY <1>1, <1>2

(* Thread p goes on, or leaves a status that is not busy. *)
LEMMA ThreadManned ==
  ASSUME Owned, NoGhost, NEW p \in Procs, at[p] \in Slots, NEW l,
         pc' = [pc EXCEPT ![p] = l], at' \in {at, [at EXCEPT ![p] = NoSlot]},
         UNCHANGED <<g_idx, misread, overrun>>,
         UNCHANGED status \/ \E v : status' = [status EXCEPT ![at[p]] = v],
         \/ l # "left" /\ UNCHANGED at
         \/ at[p] \notin overrun => status'[at[p]] \notin Active
         \/ pc[p] = "left" /\ UNCHANGED status
  PROVE  NoGhost'
<1>t. TypeOK
  BY DEF Owned
<1>1. /\ \A r \in Slots \ {at[p]} : status'[r] = status[r]
      /\ \A q \in Procs \ {p} : at'[q] = at[q] /\ pc'[q] = pc[q]
      /\ pc'[p] = l
  BY <1>t DEF TypeOK
<1>2. PICK s \in Slots : at[p] = s
  OBVIOUS
<1>3. ASSUME s \notin overrun PROVE status'[s] \notin Active \/ Manned(s)'
  <2>1. CASE l # "left" /\ UNCHANGED at
    BY <1>1, <1>2, <2>1 DEF Manned
  <2>2. CASE pc[p] = "left" /\ UNCHANGED status
    <3>1. status[s] \in Active => Manned(s)
      BY <1>2, <1>3 DEF NoGhost, Manned
    <3> QED
      BY <1>1, <1>2, <2>2, <3>1 DEF Manned
  <2> QED
    BY <1>2, <1>3, <2>1, <2>2
<1> QED
  BY <1>1, <1>2, <1>3, OthersManned

LEMMA StepNoGhost ==
  ASSUME Owned, Serving, NoGhost, [Next]_vars
  PROVE  NoGhost'
<1> USE Constants, PoolAssumption DEF PoolAssumption
<1>t. TypeOK /\ Roles /\ StatusTruthful
  BY DEF Owned
<1>1. CASE UNCHANGED <<status, g_idx, misread, pc, at, overrun>>
  BY <1>1 DEF NoGhost
<1>2. ASSUME NEW i \in Items, PauseDownload(i) \/ ResumeDownload(i) PROVE NoGhost'
  <2>1. PICK s \in Slots : status[s] \in Active /\ \E v : status' = [status EXCEPT ![s] = v]
    BY <1>2 DEF PauseDownload, ResumeDownload, SetStatus, Active
  <2>2. UNCHANGED <<g_idx, misread, pc, at, overrun>>
    BY <1>2 DEF PauseDownload, ResumeDownload, procVars, history
  <2>3. s \notin overrun => Manned(s)
    BY <2>1 DEF NoGhost, Manned
  <2>4. s \notin overrun' => Manned(s)'
    BY <2>2, <2>3 DEF Manned
  <2>5. \A r \in Slots \ {s} : status'[r] = status[r]
    BY <1>t, <2>1 DEF TypeOK
  <2> QED
    BY <2>2, <2>4, <2>5, OthersManned
<1>3. ASSUME NEW i \in Items, CancelDownload(i) PROVE NoGhost'
  <2>1. PICK s \in Slots : /\ TakeOver(s) /\ status' = [status EXCEPT ![s] = CANCELED]
                           /\ g_idx' = [g_idx EXCEPT ![s] = NoItem]
                           /\ misread' = misread \ {s}
    BY <1>3 DEF CancelDownload, SetStatus
  <2>2. overrun \subseteq overrun' /\ UNCHANGED <<at, pc>>
    BY <1>3, <2>1 DEF CancelDownload, TakeOver, history
  <2>3. /\ status'[s] \notin Active
        /\ \A r \in Slots \ {s} : status'[r] = status[r] /\ g_idx'[r] = g_idx[r]
    BY <1>t, <2>1, StatusNumbers DEF TypeOK, Free
  <2> QED
    BY <2>1, <2>2, <2>3, OthersManned
<1>4. ASSUME NEW i \in Items, DispatchDownload(i) \/ InstallDownloaded(i) PROVE NoGhost'
  <2>1. PICK s \in Slots :
          /\ TakeOver(s) /\ at' = [at EXCEPT ![UI] = s]
          /\ \/ g_idx' = [g_idx EXCEPT ![s] = i] /\ misread' = misread \ {s}
             \/ UNCHANGED <<g_idx, misread>>
    BY <1>4 DEF DispatchDownload, InstallDownloaded, slotVars
  <2>2. /\ overrun \subseteq overrun' /\ at[UI] = NoSlot /\ UNCHANGED status
        /\ \E l \in {"head", "pkg"} : pc' = [pc EXCEPT ![UI] = l]
    BY <1>t, <1>4, <2>1
       DEF DispatchDownload, InstallDownloaded, TakeOver, history, slotVars, Idle, Goto,
           TypeOK
  <2>3. /\ at'[UI] = s /\ pc'[UI] # "left"
        /\ \A q \in Procs \ {UI} : at'[q] = at[q] /\ pc'[q] = pc[q]
        /\ \A r \in Slots \ {s} : g_idx'[r] = g_idx[r] /\ (r \in misread => r \in misread')
    BY <1>t, <2>1, <2>2 DEF TypeOK
  <2>4. Manned(s)'
    BY <2>3 DEF Manned
  <2>5. \A q \in Procs : at[q] \in Slots \ {s} => at'[q] = at[q] /\ pc'[q] = pc[q]
    BY <2>2, <2>3
  <2> QED
    BY <2>2, <2>3, <2>4, <2>5, OthersManned
<1>5. ASSUME NEW p \in Procs, NEW t \in Procs, NEW l, NEW m, p # t,
             at[p] \in Slots, at[t] = NoSlot,
             at' \in {[at EXCEPT ![t] = at[p]], [at EXCEPT ![p] = NoSlot, ![t] = at[p]]},
             pc' = [pc EXCEPT ![p] = l, ![t] = m], m # "left",
             UNCHANGED status \/ \E v : status' = [status EXCEPT ![at[p]] = v],
             UNCHANGED <<g_idx, misread, overrun>>
      PROVE  NoGhost'
  <2>0. PICK s \in Slots : at[p] = s
    BY <1>5
  <2>1. /\ at'[t] = s /\ pc'[t] = m
        /\ \A q \in Procs : at[q] \in Slots \ {s} => at'[q] = at[q] /\ pc'[q] = pc[q]
        /\ \A r \in Slots \ {s} : status'[r] = status[r]
    BY <1>t, <1>5, <2>0 DEF TypeOK
  <2>2. Manned(s)'
    BY <1>5, <2>1 DEF Manned
  <2> QED
    BY <1>5, <2>1, <2>2, OthersManned
<1>6. ASSUME NEW w \in Workers, HeadSucceeds(w) PROVE NoGhost'
  <2>1. at[UI] \in Slots /\ at[w] = NoSlot /\ w \in Procs \ {UI}
    BY <1>t, <1>6, Attached DEF HeadSucceeds, TypeOK
  <2> QED
    BY <1>5, <1>6, <2>1 DEF HeadSucceeds, Spawn, SetStatus, history
<1>7. ASSUME NEW p \in Procs, NEW t \in Installers, InstallInThread(p, t) PROVE NoGhost'
  <2>1. at[p] \in Slots /\ at[t] = NoSlot /\ t \in Procs \ {p}
    BY <1>t, <1>7, Attached DEF InstallInThread, TypeOK
  <2> QED
    BY <1>5, <1>7, <2>1 DEF InstallInThread, slotVars, history
<1>8. CASE HeadFails
  <2>1. /\ at[UI] \in Slots /\ Leave(UI) /\ UNCHANGED <<g_idx, misread, overrun>>
        /\ status' = [status EXCEPT ![at[UI]] = CANCELED]
    BY <1>t, <1>8, Attached DEF HeadFails, SetStatus, history
  <2>2. status'[at[UI]] \notin Active
    BY <1>t, <2>1, StatusNumbers DEF TypeOK, Free
  <2> QED
    BY <2>1, <2>2, ThreadManned DEF Leave, Goto
<1>9. ASSUME NEW w \in Workers,
             \/ BeginDownload(w) \/ EnterDownload(w) \/ UnlinkOutput(w) \/ OpenOutput(w)
             \/ EndTransfer(w) \/ BreakTransfer(w) \/ AutoInstall(w)
      PROVE  NoGhost'
  <2>1. /\ at[w] \in Slots
        /\ \E l \in Locations \ {"left"} : pc' = [pc EXCEPT ![w] = l]
        /\ UNCHANGED <<at, g_idx, misread, overrun>>
        /\ UNCHANGED status \/ \E v : status' = [status EXCEPT ![at[w]] = v]
    BY <1>t, <1>9, Attached
       DEF BeginDownload, EnterDownload, UnlinkOutput, OpenOutput, EndTransfer, AutoInstall,
           BreakTransfer, Goto, SetStatus, slotVars, history, Locations
  <2> QED
    BY <2>1, ThreadManned
<1>10. ASSUME NEW w \in Workers, EndDownload(w) PROVE NoGhost'
  <2>0. PICK s \in Slots : at[w] = s
    BY <1>t, <1>10, Attached DEF EndDownload
  <2>1. /\ at[w] = s /\ Leave(w) /\ UNCHANGED <<g_idx, overrun>> /\ pc[w] = "ret"
        /\ status' = [status EXCEPT ![s] = IF ret[w] = 0 THEN COMPLETED ELSE ret[w]]
        /\ misread' = IF ret[w] \in Active THEN misread \cup {s} ELSE misread
    BY <1>10, <2>0 DEF EndDownload, SetStatus, history
  <2>2. /\ \A q \in Procs \ {w} : at'[q] = at[q] /\ pc'[q] = pc[q]
        /\ \A r \in Slots \ {s} : status'[r] = status[r]
        /\ status'[s] = IF ret[w] = 0 THEN COMPLETED ELSE ret[w]
    BY <1>t, <2>1 DEF Leave, Goto, TypeOK
  <2>3. ASSUME s \notin overrun, status'[s] \in Active PROVE Manned(s)'
    <3>1. ret[w] \in Active /\ g_idx[s] # NoItem
      BY <2>1, <2>2, <2>3, StatusNumbers DEF Serving
    <3> QED
      BY <2>1, <3>1 DEF Manned
  <2> QED
    BY <2>1, <2>2, <2>3, OthersManned
<1>11. ASSUME NEW p \in Procs, BeginInstall(p) \/ BeginProgress(p) \/ InstallInline(p)
       PROVE  NoGhost'
  <2>1. /\ at[p] \in Slots
        /\ \E l \in Locations \ {"left"} : pc' = [pc EXCEPT ![p] = l]
        /\ UNCHANGED <<at, g_idx, misread, overrun>>
        /\ UNCHANGED status \/ \E v : status' = [status EXCEPT ![at[p]] = v]
    BY <1>t, <1>11, Attached
       DEF BeginInstall, BeginProgress, InstallInline, Goto, SetStatus, slotVars, history,
           Locations
  <2> QED
    BY <2>1, ThreadManned
<1>12. ASSUME NEW p \in Procs, EndProgress(p) PROVE NoGhost'
  <2>1. /\ at[p] \in Slots /\ pc' = [pc EXCEPT ![p] = "clean"]
        /\ UNCHANGED <<at, g_idx, misread, overrun>>
        /\ \E v : status' = [status EXCEPT ![at[p]] = v]
    BY <1>t, <1>12, Attached DEF EndProgress, Goto, SetStatus, history
  <2> QED
    BY <2>1, ThreadManned
<1>13. ASSUME NEW p \in Procs, InstallFails(p) PROVE NoGhost'
  <2>1. PICK e \in {CANCELED} \cup SysErrors : status' = [status EXCEPT ![at[p]] = e]
    BY <1>13 DEF InstallFails, SetStatus
  <2>2. at[p] \in Slots /\ Leave(p) /\ UNCHANGED <<g_idx, misread, overrun>>
    BY <1>t, <1>13, Attached DEF InstallFails, history
  <2>3. status'[at[p]] \notin Active
    BY <1>t, <2>1, <2>2, StatusNumbers DEF TypeOK, Free
  <2> QED
    BY <2>1, <2>2, <2>3, ThreadManned DEF Leave, Goto
<1>14. ASSUME NEW p \in Procs, InstallInBackground(p) \/ CleanUp(p) PROVE NoGhost'
  <2>1. /\ at[p] \in Slots /\ pc[p] \in {"offer", "clean"}
        /\ \E l : pc' = [pc EXCEPT ![p] = l]
        /\ at' \in {at, [at EXCEPT ![p] = NoSlot]}
        /\ g_idx' = [g_idx EXCEPT ![at[p]] = NoItem]
        /\ UNCHANGED <<misread, overrun>>
        /\ \/ status' = [status EXCEPT ![at[p]] = READY]
           \/ UNCHANGED status /\ pc[p] = "clean"
    BY <1>t, <1>14, Attached
       DEF InstallInBackground, CleanUp, Leave, Goto, SetStatus, history
  <2>2. ASSUME at[p] \notin overrun PROVE status'[at[p]] \notin Active
    <3>1. pc[p] = "clean" => status[at[p]] \in {COMPLETED} \cup SysErrors
      BY <1>t, <2>1, <2>2 DEF StatusTruthful, Expected
    <3>2. READY \notin Active
      BY StatusNumbers DEF Free
    <3> QED
      BY <1>t, <2>1, <3>1, <3>2, StatusNumbers DEF TypeOK
  <2>3. /\ \A q \in Procs \ {p} : at'[q] = at[q] /\ pc'[q] = pc[q]
        /\ \A r \in Slots \ {at[p]} : status'[r] = status[r] /\ g_idx'[r] = g_idx[r]
    BY <1>t, <2>1 DEF TypeOK
  <2> QED
    BY <2>1, <2>2, <2>3, OthersManned
<1>15. ASSUME NEW p \in Procs, EndInstall(p) PROVE NoGhost'
  <2>1. /\ at[p] \in Slots /\ pc[p] \in {"tail", "left"} /\ Leave(p)
        /\ UNCHANGED <<status, g_idx, misread, overrun>>
    BY <1>t, <1>15, Attached DEF EndInstall, history
  <2>2. ASSUME pc[p] = "tail", at[p] \notin overrun PROVE status[at[p]] \notin Active
    <3>1. status[at[p]] \in {COMPLETED} \cup SysErrors
      BY <1>t, <2>1, <2>2 DEF StatusTruthful, Expected
    <3> QED
      BY <3>1, StatusNumbers
  <2> QED
    BY <2>1, <2>2, ThreadManned DEF Leave, Goto
<1>16. CASE SaveSettings \/ SettingsReloaded
  <2>1. /\ at[UI] = NoSlot
        /\ \E l \in {"none", "load"} : pc' = [pc EXCEPT ![UI] = l]
        /\ UNCHANGED <<status, g_idx, misread, at, overrun>>
    BY <1>t, <1>16
       DEF SaveSettings, SettingsReloaded, Idle, Goto, slotVars, history, TypeOK
  <2>2. \A q \in Procs : at[q] \in Slots => pc'[q] = pc[q]
    BY <1>t, <2>1 DEF TypeOK
  <2> QED
    BY <2>1, <2>2 DEF NoGhost
<1> QED
  BY <1>1, <1>2, <1>3, <1>4, <1>6, <1>7, <1>8, <1>9, <1>10, <1>11, <1>12, <1>13, <1>14,
     <1>15, <1>16
     DEF Next, Command, Settings, FinishCall, Download, Install, vars, slotVars, procVars,
         history, ToggleAutoInstall, ToggleLegacyInstall, SetFolder

(* Whatever number a failing download returns, a slot that shows as busy has *)
(* a thread that will change that, or still has the item by which Cancel     *)
(* frees it: no status is busy for ever without a way out.                   *)
THEOREM BusySlotsProgress == Spec => []NoGhost
<1>1. Init => NoGhost
  BY StatusNumbers DEF Init, NoGhost, Free
<1>2. Owned /\ Serving /\ NoGhost /\ [Next]_vars => NoGhost'
  BY StepNoGhost
<1> QED
  BY <1>1, <1>2, AlwaysServing, PTL DEF Spec

-----------------------------------------------------------------------------
(* What reaches the installer. *)

(* The path of slot s is that of a package of its item, ... *)
Named(s) == dst[s] \in Paths /\ dst[s][2] = g_idx[s]

(* ... or it no longer matters: install_prog watches the install. *)
Watched(s) == \E t \in Procs : at[t] = s /\ pc[t] \in {"inst", "poll", "clean"}

(* The download of s goes on, or failed; its status does not offer an       *)
(* install, nor the slot to another download.                               *)
Unfinished(s) ==
  \/ \E p \in Procs : at[p] = s /\ (pc[p] = "transfer" \/ (pc[p] = "ret" /\ ret[p] # 0))
  \/ status[s] \notin Free \cup {COMPLETED} /\ \A p \in Procs : at[p] # s

(* What thread p relies on. *)
Holds(p) ==
  /\ pc[p] = "left" => g_idx[at[p]] = NoItem \/ Watched(at[p])
  /\ pc[p] = "begun" => arg[p] = dst[at[p]]
  /\ pc[p] = "transfer" => out[p] = dst[at[p]]
  /\ pc[p] \in {"unlinked", "transfer"} => files[dst[at[p]]] # "full"
  /\ p = UI /\ pc[p] \in {"pkg", "check", "offer"}
       => arg[p] \in Paths /\ arg[p][2] = g_idx[at[p]]

(* Every incomplete package belongs to the unfinished download of its item. *)
Tracks ==
  /\ \A s \in Slots : g_idx[s] = NoItem \/ Named(s) \/ Watched(s)
  /\ \A p \in Procs : at[p] \in Slots => Holds(p)
  /\ \A f \in Paths :
       files[f] = "partial" => \E s \in Slots : dst[s] = f /\ g_idx[s] = f[2] /\ Unfinished(s)

(* The inductive invariant behind InstallWhole. *)
Whole == overrun = {} => Tracks

LEMMA OverrunGrows == TypeOK /\ [Next]_vars => overrun \subseteq overrun'
<1> SUFFICES ASSUME TypeOK, [Next]_vars PROVE overrun \subseteq overrun'
  OBVIOUS
<1>1. ASSUME UNCHANGED overrun PROVE overrun \subseteq overrun'
  BY <1>1
<1>2. ASSUME NEW i \in Items,
             CancelDownload(i) \/ DispatchDownload(i) \/ InstallDownloaded(i)
      PROVE  overrun \subseteq overrun'
  BY <1>2 DEF CancelDownload, DispatchDownload, InstallDownloaded, TakeOver, history
<1> QED
  BY <1>1, <1>2
     DEF Next, Command, Settings, FinishCall, Download, Install, PauseDownload,
         ResumeDownload, ToggleAutoInstall, ToggleLegacyInstall, SetFolder, SaveSettings,
         HeadSucceeds, HeadFails, SettingsReloaded, InstallInThread, InstallInBackground,
         BeginDownload, EnterDownload, UnlinkOutput, OpenOutput, EndTransfer,
         BreakTransfer, AutoInstall, EndDownload, BeginInstall, InstallFails,
         InstallInline, BeginProgress, EndProgress, CleanUp, EndInstall, vars, history

(* While no slot was taken over, taking one means nobody was on it. *)
LEMMA TakenFree ==
  ASSUME TypeOK, NEW s \in Slots, TakeOver(s), overrun' = {}
  PROVE  \A q \in Procs : at[q] # s
BY DEF TakeOver, Attended, history

(* The part of a step that concerns slot s alone. *)
Steady == Owned /\ Serving /\ UniqueItem /\ Tracks /\ overrun = {}

(* A thread that downloads, or has a package to install, knows its path, and *)
(* nobody watches an install beside it.                                      *)
LEMMA ThreadNamed ==
  ASSUME Steady, NEW p \in Procs, NEW s \in Slots, at[p] = s,
         pc[p] \notin {"inst", "poll", "clean", "tail", "left"}
  PROVE  /\ g_idx[s] \in Items /\ Named(s) /\ ~Watched(s)
         /\ \A q \in Procs \ {p} : at[q] # s
<1> USE DEF Steady, Owned
<1>1. \A q \in Procs \ {p} : at[q] # s
  <2> SUFFICES ASSUME NEW q \in Procs \ {p}, at[q] = s PROVE FALSE
    OBVIOUS
  <2>1. p \in Installers
    BY DEF SoleOwner
  <2>2. pc[p] = "none"
    BY <2>1 DEF Roles
  <2> QED
    BY <2>2, Constants DEF TypeOK
<1>2. ~Watched(s)
  BY <1>1 DEF Watched
<1>3. g_idx[s] # NoItem
  BY DEF Serving
<1> QED
  BY <1>1, <1>2, <1>3 DEF Tracks, TypeOK

(* An incomplete package of a slot's item is that slot's. *)
LEMMA OwnPartial ==
  ASSUME Steady, NEW s \in Slots, NEW f \in Paths, f[2] = g_idx[s], files[f] = "partial"
  PROVE  dst[s] = f /\ Unfinished(s)
<1>1. f[2] # NoItem
  BY PoolAssumption DEF Paths, PoolAssumption
<1> QED
  BY <1>1 DEF Steady, Tracks, UniqueItem

(* A thread on s that is not in a download leaves s nothing unfinished. *)
LEMMA NotUnfinished ==
  ASSUME Steady, NEW p \in Procs, NEW s \in Slots, at[p] = s,
         pc[p] \notin {"transfer", "left"}, pc[p] = "ret" => ret[p] = 0
  PROVE  ~Unfinished(s)
<1> SUFFICES ASSUME NEW q \in Procs, at[q] = s, pc[q] \in {"transfer", "ret"}, q # p
             PROVE  FALSE
  BY DEF Unfinished
<1> QED
  BY DEF Steady, Owned, SoleOwner

(* A step that changes slot s, its threads and the files of its item only. *)
LEMMA OthersTrack ==
  ASSUME Steady, NEW s \in Slots,
         \A r \in Slots \ {s} : status'[r] = status[r] /\ g_idx'[r] = g_idx[r] /\ dst'[r] = dst[r],
         \A q \in Procs :
           /\ at[q] \in Slots \ {s} =>
                /\ at'[q] = at[q] /\ pc'[q] = pc[q] /\ arg'[q] = arg[q] /\ ret'[q] = ret[q]
                /\ out[q] \in Paths /\ out[q][2] # g_idx[s] => out'[q] = out[q]
           /\ at[q] \notin Slots \ {s} => at'[q] \in {s, NoSlot},
         \A f \in Paths : f[2] # g_idx[s] => files'[f] = files[f],
         (g_idx[s] = NoItem \/ Named(s) \/ Watched(s))',
         \A q \in Procs : at'[q] = s => Holds(q)',
         \A f \in Paths : f[2] = g_idx[s] /\ files'[f] = "partial"
                            => dst'[s] = f /\ g_idx'[s] = f[2] /\ Unfinished(s)'
  PROVE  Tracks'
<1> USE Constants
<1>t. TypeOK /\ SoleOwner /\ Roles
  BY DEF Steady, Owned
<1>1. ASSUME NEW r \in Slots \ {s}
      PROVE  /\ Watched(r)' = Watched(r) /\ Unfinished(r)' = Unfinished(r)
             /\ Named(r)' = Named(r)
  <2>1. \A q \in Procs : at'[q] = r <=> at[q] = r
    BY <1>t DEF TypeOK
  <2>2. \A q \in Procs : at[q] = r => pc'[q] = pc[q] /\ ret'[q] = ret[q]
    OBVIOUS
  <2> QED
    BY <2>1, <2>2 DEF Watched, Unfinished, Named
<1>2. ASSUME NEW q \in Procs, at'[q] \in Slots \ {s} PROVE Holds(q)'
  <2>1. PICK r \in Slots \ {s} : at'[q] = r /\ at[q] = r
    BY <1>t, <1>2 DEF TypeOK
  <2>2. Holds(q) /\ pc'[q] = pc[q] /\ arg'[q] = arg[q] /\ dst'[r] = dst[r]
    BY <2>1 DEF Steady, Tracks
  <2>3. pc[q] \in {"unlinked", "transfer"} => dst[r] \in Paths /\ dst[r][2] # g_idx[s]
    <3>1. CASE pc[q] \in {"unlinked", "transfer"}
      <4>1. g_idx[r] \in Items /\ Named(r)
        BY <2>1, <3>1, ThreadNamed
      <4>2. g_idx[r] # g_idx[s]
        BY <2>1, <4>1, PoolAssumption DEF Steady, UniqueItem, PoolAssumption
      <4> QED
        BY <4>1, <4>2 DEF Named
    <3> QED
      BY <3>1
  <2>4. /\ pc[q] \in {"unlinked", "transfer"} => files'[dst[r]] = files[dst[r]]
        /\ pc[q] = "transfer" => out'[q] = out[q]
    BY <2>1, <2>2, <2>3 DEF Holds
  <2>5. g_idx'[r] = g_idx[r] /\ Watched(r)' = Watched(r)
    BY <1>1
  <2> QED
    BY <2>1, <2>2, <2>4, <2>5 DEF Holds
<1>3. ASSUME NEW f \in Paths, files'[f] = "partial"
      PROVE  \E r \in Slots : dst'[r] = f /\ g_idx'[r] = f[2] /\ Unfinished(r)'
  <2>1. CASE f[2] = g_idx[s]
    BY <1>3, <2>1
  <2>2. CASE f[2] # g_idx[s]
    <3>1. PICK r \in Slots : dst[r] = f /\ g_idx[r] = f[2] /\ Unfinished(r)
      BY <1>3, <2>2 DEF Steady, Tracks
    <3> QED
      BY <1>1, <2>2, <3>1
  <2> QED
    BY <2>1, <2>2
<1>4. \A r \in Slots : (g_idx[r] = NoItem \/ Named(r) \/ Watched(r))'
  BY <1>1 DEF Steady, Tracks
<1>5. \A q \in Procs : at'[q] \in Slots => Holds(q)'
  BY <1>2
<1> QED
  BY <1>3, <1>4, <1>5 DEF Tracks

(* A step of thread p, which is on slot s: it goes on or leaves, and what it *)
(* changes is the slot and the files of the slot's item.                     *)
Moves(p, s) ==
  /\ at[p] = s /\ at' \in {at, [at EXCEPT ![p] = NoSlot]}
  /\ \E l : pc' = [pc EXCEPT ![p] = l]

Apart(p, s) ==
  /\ \A r \in Slots \ {s} : status'[r] = status[r] /\ g_idx'[r] = g_idx[r] /\ dst'[r] = dst[r]
  /\ \A q \in Procs \ {p} :
       /\ arg'[q] = arg[q] /\ ret'[q] = ret[q]
       /\ out[q] \in Paths /\ out[q][2] # g_idx[s] => out'[q] = out[q]
  /\ \A f \in Paths : f[2] # g_idx[s] => files'[f] = files[f]

(* What the step leaves behind at slot s. *)
Arrives(p, s) ==
  /\ (g_idx[s] = NoItem \/ Named(s) \/ Watched(s))'
  /\ at'[p] = s => Holds(p)'
  /\ \A q \in Procs \ {p} : at[q] = s => Holds(q)'

Accounted(s) ==
  \A f \in Paths : f[2] = g_idx[s] /\ files'[f] = "partial"
                     => dst'[s] = f /\ g_idx'[s] = f[2] /\ Unfinished(s)'

(* The same when a single thread moves, and the files change only below. *)
LEMMA ThreadTracks ==
  ASSUME Steady, NEW p \in Procs, NEW s \in Slots,
         Moves(p, s), Apart(p, s), Arrives(p, s), Accounted(s)
  PROVE  Tracks'
<1> USE DEF Moves, Apart, Arrives, Accounted
<1>t. TypeOK
  BY DEF Steady, Owned
<1>1. \A q \in Procs \ {p} : at'[q] = at[q] /\ pc'[q] = pc[q]
  BY <1>t DEF TypeOK
<1>2. at'[p] \in {s, NoSlot}
  BY <1>t DEF TypeOK
<1>3. \A q \in Procs : at'[q] = s => Holds(q)'
  BY <1>1
<1>4. \A q \in Procs :
        /\ at[q] \in Slots \ {s} =>
             /\ at'[q] = at[q] /\ pc'[q] = pc[q] /\ arg'[q] = arg[q] /\ ret'[q] = ret[q]
             /\ out[q] \in Paths /\ out[q][2] # g_idx[s] => out'[q] = out[q]
        /\ at[q] \notin Slots \ {s} => at'[q] \in {s, NoSlot}
  BY <1>t, <1>1, <1>2 DEF TypeOK
<1> QED
  BY <1>3, <1>4, OthersTrack

(* A thread that downloads or is about to install goes on or leaves; nothing *)
(* of its item is incomplete before.                                         *)
LEMMA AloneTracks ==
  ASSUME Steady, NEW p \in Procs, NEW s \in Slots, at[p] = s, NEW l,
         pc[p] \notin {"inst", "poll", "clean", "tail", "left", "transfer"},
         pc[p] = "ret" => ret[p] = 0,
         pc' = [pc EXCEPT ![p] = l], at' \in {at, [at EXCEPT ![p] = NoSlot]},
         \A r \in Slots \ {s} : status'[r] = status[r],
         \A q \in Procs \ {p} : arg'[q] = arg[q] /\ ret'[q] = ret[q],
         UNCHANGED <<g_idx, dst, out, files>>,
         at'[p] = s => Holds(p)'
  PROVE  Tracks'
<1>1. Named(s) /\ \A q \in Procs \ {p} : at[q] # s
  BY ThreadNamed
<1>2. Named(s)'
  BY <1>1 DEF Named
<1>3. \A f \in Paths : ~(f[2] = g_idx[s] /\ files'[f] = "partial")
  BY OwnPartial, NotUnfinished
<1>4. Moves(p, s)
  BY DEF Moves
<1>5. Apart(p, s)
  BY DEF Apart
<1>6. Arrives(p, s)
  BY <1>1, <1>2 DEF Arrives
<1>7. Accounted(s)
  BY <1>3 DEF Accounted
<1> QED
  BY <1>4, <1>5, <1>6, <1>7, ThreadTracks

(* The UI turns to a slot no thread is on. *)
LEMMA UITracks ==
  ASSUME Steady, NEW s \in Slots, NEW l \in {"head", "pkg"}, Idle,
         \A q \in Procs : at[q] # s,
         status[s] \in Free \cup {COMPLETED},
         at' = [at EXCEPT ![UI] = s], pc' = [pc EXCEPT ![UI] = l],
         \A r \in Slots \ {s} : g_idx'[r] = g_idx[r] /\ dst'[r] = dst[r],
         \A q \in Procs \ {UI} : arg'[q] = arg[q],
         UNCHANGED <<status, files, out, ret>>,
         (g_idx[s] = NoItem \/ Named(s))',
         l = "pkg" => arg'[UI] \in Paths /\ arg'[UI][2] = g_idx'[s]
  PROVE  Tracks'
<1> USE Constants
<1>t. TypeOK
  BY DEF Steady, Owned
<1>1. at[UI] = NoSlot /\ at'[UI] = s /\ pc'[UI] = l
  BY <1>t DEF TypeOK, Idle
<1>2. \A q \in Procs \ {UI} : at'[q] = at[q] /\ pc'[q] = pc[q]
  BY <1>t DEF TypeOK
<1>3. \A f \in Paths : ~(f[2] = g_idx[s] /\ files'[f] = "partial")
  <2>1. ~Unfinished(s)
    BY DEF Unfinished
  <2> QED
    BY <2>1, OwnPartial
<1>4. \A q \in Procs :
        /\ at[q] \in Slots \ {s} =>
             /\ at'[q] = at[q] /\ pc'[q] = pc[q] /\ arg'[q] = arg[q] /\ ret'[q] = ret[q]
             /\ out[q] \in Paths /\ out[q][2] # g_idx[s] => out'[q] = out[q]
        /\ at[q] \notin Slots \ {s} => at'[q] \in {s, NoSlot}
  BY <1>t, <1>1, <1>2 DEF TypeOK
<1>5. Holds(UI)'
  BY <1>1 DEF Holds
<1>6. \A q \in Procs : at'[q] = s => Holds(q)'
  BY <1>2, <1>5
<1>7. (g_idx[s] = NoItem \/ Named(s) \/ Watched(s))'
  OBVIOUS
<1> QED
  BY <1>3, <1>4, <1>6, <1>7, OthersTrack

(* A thread on its way through install_prog, or out of pkginstall. *)
LEMMA InstallTracks ==
  ASSUME Steady, NEW p \in Procs, NEW s \in Slots, at[p] = s,
         pc[p] \in {"offer", "inst", "poll", "clean", "tail", "left"},
         \E l : pc' = [pc EXCEPT ![p] = l],
         \/ at' = [at EXCEPT ![p] = NoSlot]
         \/ UNCHANGED at /\ pc'[p] \in {"poll", "clean", "tail", "left"},
         \A r \in Slots \ {s} : status'[r] = status[r] /\ g_idx'[r] = g_idx[r] /\ dst'[r] = dst[r],
         \A q \in Procs \ {p} : arg'[q] = arg[q],
         UNCHANGED <<ret, out, files>>,
         g_idx'[s] = NoItem \/ Watched(s)'
  PROVE  Tracks'
<1> USE Constants, PoolAssumption DEF PoolAssumption
<1>t. TypeOK /\ Roles /\ SoleOwner /\ Tracks /\ overrun = {}
  BY DEF Steady, Owned
<1>1. \A f \in Paths : ~(f[2] = g_idx[s] /\ files'[f] = "partial")
  <2> SUFFICES ASSUME NEW f \in Paths, f[2] = g_idx[s], files[f] = "partial" PROVE FALSE
    OBVIOUS
  <2>1. Unfinished(s) /\ g_idx[s] # NoItem
    BY OwnPartial DEF Paths
  <2>2. pc[p] = "left"
    BY <2>1, NotUnfinished
  <2>3. PICK t \in Procs : at[t] = s /\ pc[t] \in {"inst", "poll", "clean"}
    BY <1>t, <2>1, <2>2 DEF Tracks, Holds, Watched
  <2> QED
    BY <2>1, <2>3, NotUnfinished
<1>2. ASSUME NEW q \in Procs, at'[q] = s, q = p \/ pc[q] \in {"none", "inst", "poll", "clean", "left"}
      PROVE  Holds(q)'
  <2>1. pc'[q] \in {"none", "inst", "poll", "clean", "tail", "left"}
    BY <1>t, <1>2 DEF TypeOK
  <2> QED
    BY <1>2, <2>1 DEF Holds
<1>3. ASSUME NEW q \in Procs \ {p}, at[q] = s
      PROVE  pc[q] \in {"none", "inst", "poll", "clean", "left"}
  <2>1. \/ pc[p] = "left" /\ q \in Installers
        \/ pc[q] = "left" /\ p \in Installers
    BY <1>t, <1>3 DEF SoleOwner
  <2> QED
    BY <1>t, <2>1 DEF Roles
<1>4. \A q \in Procs \ {p} : at'[q] = at[q]
  BY <1>t DEF TypeOK
<1>5. /\ at'[p] = s => Holds(p)'
      /\ \A q \in Procs \ {p} : at[q] = s => Holds(q)'
  BY <1>2, <1>3, <1>4
<1>6. Moves(p, s)
  BY DEF Moves
<1>7. Apart(p, s)
  BY DEF Apart
<1>8. Arrives(p, s)
  BY <1>5 DEF Arrives
<1>9. Accounted(s)
  BY <1>1 DEF Accounted
<1> QED
  BY <1>6, <1>7, <1>8, <1>9, ThreadTracks

LEMMA StepTracks ==
  ASSUME Steady, [Next]_vars, overrun' = {}
  PROVE  Tracks'
<1> USE Constants, PoolAssumption DEF PoolAssumption
<1>t. TypeOK /\ Roles /\ SoleOwner /\ Serving /\ UniqueItem /\ Tracks /\ overrun = {}
  BY DEF Steady, Owned
<1>1. ASSUME \A q \in Procs : at[q] \in Slots => pc'[q] = pc[q],
             UNCHANGED <<status, g_idx, dst, at, arg, out, ret, files>>
      PROVE  Tracks'
  <2>1. \A s \in Slots : /\ Named(s)' = Named(s) /\ Watched(s)' = Watched(s)
                         /\ Unfinished(s)' = Unfinished(s)
    BY <1>1 DEF Named, Watched, Unfinished
  <2>2. ASSUME NEW q \in Procs, at[q] \in Slots PROVE Holds(q)'
    <3>1. PICK s \in Slots : at[q] = s /\ at'[q] = s
      BY <1>1, <2>2
    <3>2. Holds(q) /\ Watched(s)' = Watched(s)
      BY <1>t, <2>1, <2>2 DEF Tracks
    <3> QED
      BY <1>1, <3>1, <3>2 DEF Holds
  <2> QED
    BY <1>1, <1>t, <2>1, <2>2 DEF Tracks
<1>2. ASSUME NEW i \in Items, PauseDownload(i) \/ ResumeDownload(i) PROVE Tracks'
  <2>1. PICK s \in Slots : /\ status[s] \in {RUNNING, PAUSED}
                           /\ \E v \in {RUNNING, PAUSED} : status' = [status EXCEPT ![s] = v]
    BY <1>2 DEF PauseDownload, ResumeDownload, SetStatus
  <2>2. UNCHANGED <<g_idx, dst, pc, at, arg, out, ret, files>>
    BY <1>2 DEF PauseDownload, ResumeDownload, procVars
  <2>3. \A r \in Slots : status[r] \notin Free \cup {COMPLETED}
                           <=> status'[r] \notin Free \cup {COMPLETED}
    BY <1>t, <2>1, StatusNumbers DEF TypeOK
  <2>4. \A r \in Slots : /\ Named(r)' = Named(r) /\ Watched(r)' = Watched(r)
                         /\ Unfinished(r)' = Unfinished(r)
    BY <2>2, <2>3 DEF Named, Watched, Unfinished
  <2>5. ASSUME NEW q \in Procs, at[q] \in Slots PROVE Holds(q)'
    <3>1. PICK r \in Slots : at[q] = r /\ at'[q] = r
      BY <2>2, <2>5
    <3>2. Holds(q) /\ Watched(r)' = Watched(r)
      BY <1>t, <2>4, <2>5 DEF Tracks
    <3> QED
      BY <2>2, <3>1, <3>2 DEF Holds
  <2> QED
    BY <1>t, <2>2, <2>4, <2>5 DEF Tracks
<1>3. ASSUME NEW i \in Items, CancelDownload(i) PROVE Tracks'
  <2>1. PICK s \in Slots :
          /\ g_idx[s] = i /\ TakeOver(s)
          /\ files' = UnlinkedFiles(dst[s]) /\ out' = UnlinkedOut(dst[s])
          /\ dst' = [dst EXCEPT ![s] = NoItem] /\ g_idx' = [g_idx EXCEPT ![s] = NoItem]
          /\ status' = [status EXCEPT ![s] = CANCELED]
    BY <1>3 DEF CancelDownload, Handles, SetStatus
  <2>2. UNCHANGED <<pc, at, arg, ret>> /\ \A q \in Procs : at[q] # s
    BY <1>3, <1>t, <2>1, TakenFree DEF CancelDownload
  <2>3. Named(s) /\ ~Watched(s)
    BY <1>t, <2>1, <2>2 DEF Tracks, Watched
  <2>4. /\ \A f \in Paths : f[2] # g_idx[s] => files'[f] = files[f]
        /\ \A q \in Procs : out[q] \in Paths /\ out[q][2] # g_idx[s] => out'[q] = out[q]
    BY <2>1, <2>3 DEF Named, UnlinkedFiles, UnlinkedOut
  <2>5. \A f \in Paths : ~(f[2] = g_idx[s] /\ files'[f] = "partial")
    <3> SUFFICES ASSUME NEW f \in Paths, f[2] = g_idx[s], files'[f] = "partial" PROVE FALSE
      OBVIOUS
    <3>1. f # dst[s] /\ files[f] = "partial"
      BY <2>1 DEF UnlinkedFiles
    <3> QED
      BY <3>1, OwnPartial
  <2>6. (g_idx[s] = NoItem \/ Named(s) \/ Watched(s))'
    BY <1>t, <2>1 DEF TypeOK
  <2>7. /\ \A r \in Slots \ {s} :
             status'[r] = status[r] /\ g_idx'[r] = g_idx[r] /\ dst'[r] = dst[r]
        /\ \A q \in Procs : at'[q] = s => Holds(q)'
        /\ \A q \in Procs :
             /\ at[q] \in Slots \ {s} =>
                  /\ at'[q] = at[q] /\ pc'[q] = pc[q] /\ arg'[q] = arg[q] /\ ret'[q] = ret[q]
                  /\ out[q] \in Paths /\ out[q][2] # g_idx[s] => out'[q] = out[q]
             /\ at[q] \notin Slots \ {s} => at'[q] \in {s, NoSlot}
    BY <1>t, <2>1, <2>2, <2>4 DEF TypeOK
  <2> QED
    BY <2>4, <2>5, <2>6, <2>7, OthersTrack
<1>4. ASSUME NEW i \in Items, DispatchDownload(i) PROVE Tracks'
  <2>1. PICK s \in Slots :
          /\ Dispatchable(s) /\ TakeOver(s)
          /\ dst' = [dst EXCEPT ![s] = <<tmp, i>>] /\ g_idx' = [g_idx EXCEPT ![s] = i]
          /\ at' = [at EXCEPT ![UI] = s]
    BY <1>4 DEF DispatchDownload
  <2>2. /\ Idle /\ pc' = [pc EXCEPT ![UI] = "head"]
        /\ UNCHANGED <<status, files, arg, out, ret>>
    BY <1>4 DEF DispatchDownload, Goto
  <2>3. /\ dst'[s] = <<tmp, i>> /\ g_idx'[s] = i /\ <<tmp, i>> \in Paths
        /\ \A r \in Slots \ {s} : g_idx'[r] = g_idx[r] /\ dst'[r] = dst[r]
    BY <1>t, <2>1 DEF TypeOK, Paths
  <2>4. (g_idx[s] = NoItem \/ Named(s))'
    BY <2>3 DEF Named
  <2>5. status[s] \in Free /\ \A q \in Procs : at[q] # s
    BY <1>t, <2>1, TakenFree DEF Dispatchable
  <2> QED
    BY <2>1, <2>2, <2>3, <2>4, <2>5, UITracks
<1>5. ASSUME NEW i \in Items, InstallDownloaded(i) PROVE Tracks'
  <2>1. PICK s \in Slots : /\ g_idx[s] = i /\ status[s] = COMPLETED
                           /\ at' = [at EXCEPT ![UI] = s] /\ TakeOver(s)
    BY <1>5 DEF InstallDownloaded, Handles
  <2>2. /\ Idle /\ pc' = [pc EXCEPT ![UI] = "pkg"] /\ arg' = [arg EXCEPT ![UI] = <<tmp, i>>]
        /\ UNCHANGED <<status, g_idx, dst, files, out, ret>>
    BY <1>5 DEF InstallDownloaded, Goto, slotVars
  <2>3. \A q \in Procs : at[q] # s
    BY <1>t, <2>1, TakenFree
  <2>4. (g_idx[s] = NoItem \/ Named(s))'
    <3>1. g_idx[s] = NoItem \/ Named(s)
      BY <1>t, <2>3 DEF Tracks, Watched
    <3> QED
      BY <2>2, <3>1 DEF Named
  <2>5. /\ arg'[UI] \in Paths /\ arg'[UI][2] = g_idx'[s]
        /\ \A q \in Procs \ {UI} : arg'[q] = arg[q]
    BY <1>t, <2>1, <2>2 DEF TypeOK, Paths
  <2> QED
    BY <2>1, <2>2, <2>3, <2>4, <2>5, UITracks
<1>6. CASE SaveSettings \/ SettingsReloaded
  <2>1. /\ at[UI] = NoSlot
        /\ \E l \in {"none", "load"} : pc' = [pc EXCEPT ![UI] = l]
        /\ UNCHANGED <<status, g_idx, dst, at, arg, out, ret, files>>
    BY <1>t, <1>6 DEF SaveSettings, SettingsReloaded, Idle, Goto, slotVars, TypeOK
  <2>2. \A q \in Procs : at[q] \in Slots => pc'[q] = pc[q]
    BY <1>t, <2>1 DEF TypeOK
  <2> QED
    BY <1>1, <2>1, <2>2
<1>7. ASSUME NEW w \in Workers, HeadSucceeds(w) PROVE Tracks'
  <2>1. /\ pc[UI] = "head" /\ pc[w] = "none"
        /\ pc' = [pc EXCEPT ![UI] = "none", ![w] = "created"]
        /\ at' = [at EXCEPT ![UI] = NoSlot, ![w] = at[UI]]
        /\ UNCHANGED <<g_idx, dst, arg, files, out, ret>>
        /\ \E v : status' = [status EXCEPT ![at[UI]] = v]
    BY <1>7 DEF HeadSucceeds, SetStatus, Spawn
  <2>2. PICK s \in Slots : at[UI] = s
    BY <1>t, <2>1, Attached
  <2>3. Named(s) /\ \A q \in Procs \ {UI} : at[q] # s
    BY <2>1, <2>2, ThreadNamed
  <2>4. \A f \in Paths : ~(f[2] = g_idx[s] /\ files'[f] = "partial")
    BY <2>1, <2>2, OwnPartial, NotUnfinished
  <2>5. at[w] = NoSlot /\ w # UI
    BY <1>t, <2>1 DEF TypeOK
  <2>6. at'[w] = s /\ pc'[w] = "created" /\ at'[UI] = NoSlot
    BY <1>t, <2>1, <2>2, <2>5 DEF TypeOK
  <2>7. Holds(w)'
    BY <2>5, <2>6 DEF Holds
  <2>8. (g_idx[s] = NoItem \/ Named(s) \/ Watched(s))'
    BY <2>1, <2>3 DEF Named
  <2>9. \A q \in Procs : at'[q] = s => q = w
    BY <1>t, <2>1, <2>3, <2>6 DEF TypeOK
  <2>10. \A q \in Procs :
           /\ at[q] \in Slots \ {s} =>
                /\ at'[q] = at[q] /\ pc'[q] = pc[q] /\ arg'[q] = arg[q] /\ ret'[q] = ret[q]
                /\ out[q] \in Paths /\ out[q][2] # g_idx[s] => out'[q] = out[q]
           /\ at[q] \notin Slots \ {s} => at'[q] \in {s, NoSlot}
    BY <1>t, <2>1, <2>2, <2>5, <2>6 DEF TypeOK
  <2>11. \A r \in Slots \ {s} :
           status'[r] = status[r] /\ g_idx'[r] = g_idx[r] /\ dst'[r] = dst[r]
    BY <1>t, <2>1, <2>2 DEF TypeOK
  <2>12. /\ \A f \in Paths : f[2] # g_idx[s] => files'[f] = files[f]
         /\ \A f \in Paths : f[2] = g_idx[s] /\ files'[f] = "partial"
                               => dst'[s] = f /\ g_idx'[s] = f[2] /\ Unfinished(s)'
         /\ \A q \in Procs : at'[q] = s => Holds(q)'
    BY <2>1, <2>4, <2>7, <2>9
  <2> QED
    BY <2>8, <2>10, <2>11, <2>12, OthersTrack
<1>8. CASE HeadFails
  <2>1. /\ pc[UI] = "head" /\ status' = [status EXCEPT ![at[UI]] = CANCELED]
        /\ pc' = [pc EXCEPT ![UI] = "none"] /\ at' = [at EXCEPT ![UI] = NoSlot]
        /\ UNCHANGED <<g_idx, dst, arg, out, ret, files>>
    BY <1>8 DEF HeadFails, SetStatus, Leave, Goto
  <2>2. PICK s \in Slots : at[UI] = s
    BY <1>t, <2>1, Attached
  <2>3. at'[UI] # s /\ \A r \in Slots \ {s} : status'[r] = status[r]
    BY <1>t, <2>1, <2>2 DEF TypeOK
  <2> QED
    BY <2>1, <2>2, <2>3, AloneTracks
<1>9. ASSUME NEW w \in Workers, BeginDownload(w) PROVE Tracks'
  <2>1. /\ pc[w] = "created" /\ status' = [status EXCEPT ![at[w]] = RUNNING]
        /\ arg' = [arg EXCEPT ![w] = dst[at[w]]] /\ pc' = [pc EXCEPT ![w] = "begun"]
        /\ UNCHANGED <<g_idx, dst, at, out, ret, files>>
    BY <1>9 DEF BeginDownload, SetStatus, Goto
  <2>2. PICK s \in Slots : at[w] = s
    BY <1>t, <2>1, Attached
  <2>3. /\ \A q \in Procs \ {w} : arg'[q] = arg[q] /\ ret'[q] = ret[q]
        /\ \A r \in Slots \ {s} : status'[r] = status[r]
        /\ pc'[w] = "begun" /\ arg'[w] = dst'[s] /\ at'[w] = s
    BY <1>t, <2>1, <2>2 DEF TypeOK
  <2>4. Holds(w)'
    BY <2>3 DEF Holds
  <2> QED
    BY <2>1, <2>2, <2>3, <2>4, AloneTracks
<1>10. ASSUME NEW w \in Workers, EnterDownload(w) PROVE Tracks'
  <2>1. /\ pc[w] = "begun" /\ status' = [status EXCEPT ![at[w]] = RUNNING]
        /\ dst' = [dst EXCEPT ![at[w]] = arg[w]]
        /\ arg' = [arg EXCEPT ![w] = NoItem] /\ pc' = [pc EXCEPT ![w] = "entered"]
        /\ UNCHANGED <<g_idx, at, out, ret, files>>
    BY <1>10 DEF EnterDownload, SetStatus, Goto
  <2>2. PICK s \in Slots : at[w] = s
    BY <1>t, <2>1, Attached
  <2>3. dst' = dst
    BY <1>t, <2>1, <2>2 DEF Tracks, Holds, TypeOK
  <2>4. /\ \A q \in Procs \ {w} : arg'[q] = arg[q] /\ ret'[q] = ret[q]
        /\ \A r \in Slots \ {s} : status'[r] = status[r]
        /\ pc'[w] = "entered" /\ at'[w] = s
    BY <1>t, <2>1, <2>2 DEF TypeOK
  <2>5. Holds(w)'
    BY <2>4 DEF Holds
  <2> QED
    BY <2>1, <2>2, <2>3, <2>4, <2>5, AloneTracks
<1>11. ASSUME NEW w \in Workers, NEW s \in Slots, at[w] = s, NEW l \in {"unlinked", "transfer", "ret"},
              pc[w] \in {"entered", "unlinked", "transfer"},
              pc' = [pc EXCEPT ![w] = l],
              UNCHANGED <<status, g_idx, dst, at, arg>>,
              \A q \in Procs \ {w} :
                 ret'[q] = ret[q] /\ (out[q] # dst[s] => out'[q] = out[q]),
              \A f \in Paths \ {dst[s]} : files'[f] = files[f],
              l = "transfer" => out'[w] = dst[s],
              l # "ret" => files'[dst[s]] # "full",
              files'[dst[s]] = "partial" => l = "transfer" \/ (l = "ret" /\ ret'[w] # 0)
       PROVE  Tracks'
  <2>1. Named(s) /\ \A q \in Procs \ {w} : at[q] # s
    BY <1>11, ThreadNamed
  <2>2. at'[w] = s /\ pc'[w] = l /\ w # UI
    BY <1>t, <1>11 DEF TypeOK
  <2>3. Holds(w)'
    BY <1>11, <2>2 DEF Holds
  <2>4. Named(s)'
    BY <1>11, <2>1 DEF Named
  <2>5. (g_idx[s] = NoItem \/ Named(s) \/ Watched(s))'
    BY <2>4
  <2>6. ASSUME NEW f \in Paths, f[2] = g_idx[s], files'[f] = "partial"
        PROVE  dst'[s] = f /\ g_idx'[s] = f[2] /\ Unfinished(s)'
    <3>1. f = dst[s]
      <4>1. CASE f # dst[s]
        <5>1. files[f] = "partial"
          BY <1>11, <2>6, <4>1
        <5> QED
          BY <2>6, <4>1, <5>1, OwnPartial
      <4> QED
        BY <4>1
    <3>2. Unfinished(s)'
      BY <1>11, <2>2, <2>6, <3>1 DEF Unfinished
    <3> QED
      BY <1>11, <2>6, <3>1, <3>2
  <2>7. Moves(w, s)
    BY <1>11 DEF Moves
  <2>8. Apart(w, s)
    BY <1>11, <2>1 DEF Apart, Named
  <2>9. Arrives(w, s)
    BY <2>1, <2>3, <2>5 DEF Arrives
  <2>10. Accounted(s)
    BY <2>6 DEF Accounted
  <2> QED
    BY <2>7, <2>8, <2>9, <2>10, ThreadTracks
<1>12. ASSUME NEW w \in Workers, UnlinkOutput(w) PROVE Tracks'
  <2>1. /\ pc[w] = "entered" /\ pc' = [pc EXCEPT ![w] = "unlinked"]
        /\ files' = UnlinkedFiles(dst[at[w]]) /\ out' = UnlinkedOut(dst[at[w]])
        /\ UNCHANGED <<status, g_idx, dst, at, arg, ret>>
    BY <1>12 DEF UnlinkOutput, Goto, slotVars
  <2>2. PICK s \in Slots : at[w] = s
    BY <1>t, <2>1, Attached
  <2>3. Named(s)
    BY <2>1, <2>2, ThreadNamed
  <2>4. /\ \A q \in Procs : out[q] # dst[s] => out'[q] = out[q]
        /\ \A f \in Paths \ {dst[s]} : files'[f] = files[f]
        /\ files'[dst[s]] = "none"
    BY <2>1, <2>2, <2>3 DEF UnlinkedFiles, UnlinkedOut, Named
  <2>5. /\ \A q \in Procs \ {w} : ret'[q] = ret[q] /\ (out[q] # dst[s] => out'[q] = out[q])
        /\ files'[dst[s]] # "partial" /\ files'[dst[s]] # "full"
    BY <2>1, <2>4
  <2> QED
    BY ONLY <1>11, <2>1, <2>2, <2>4, <2>5
<1>13. ASSUME NEW w \in Workers, OpenOutput(w) PROVE Tracks'
  <2>1. pc[w] = "unlinked" /\ UNCHANGED <<status, g_idx, dst, at, arg>>
    BY <1>13 DEF OpenOutput, slotVars
  <2>2. PICK s \in Slots : at[w] = s
    BY <1>t, <2>1, Attached
  <2>3. Named(s) /\ ~Unfinished(s)
    BY <2>1, <2>2, ThreadNamed, NotUnfinished
  <2>4. CASE /\ files' = [files EXCEPT ![dst[at[w]]] = "partial"]
             /\ out' = [UnlinkedOut(dst[at[w]]) EXCEPT ![w] = dst[at[w]]]
             /\ pc' = [pc EXCEPT ![w] = "transfer"]
             /\ UNCHANGED ret
    <3>1. /\ \A q \in Procs \ {w} : ret'[q] = ret[q] /\ (out[q] # dst[s] => out'[q] = out[q])
          /\ \A f \in Paths \ {dst[s]} : files'[f] = files[f]
          /\ out'[w] = dst[s] /\ files'[dst[s]] = "partial"
      BY <1>t, <2>2, <2>3, <2>4 DEF TypeOK, UnlinkedOut, Named
    <3>2. pc' = [pc EXCEPT ![w] = "transfer"]
      BY <2>4
    <3> QED
      BY <1>11, <2>1, <2>2, <3>1, <3>2
  <2>5. CASE /\ \E e : ret' = [ret EXCEPT ![w] = e]
             /\ pc' = [pc EXCEPT ![w] = "ret"] /\ UNCHANGED <<files, out>>
    <3>1. files'[dst[s]] # "partial"
      BY <2>3, <2>5, OwnPartial DEF Named
    <3>2. \A q \in Procs \ {w} : ret'[q] = ret[q] /\ (out[q] # dst[s] => out'[q] = out[q])
      BY <1>t, <2>5 DEF TypeOK
    <3>3. pc' = [pc EXCEPT ![w] = "ret"] /\ \A f \in Paths \ {dst[s]} : files'[f] = files[f]
      BY <2>5
    <3> QED
      BY ONLY <1>11, <2>1, <2>2, <3>1, <3>2, <3>3
  <2> QED
    BY <1>13, <2>4, <2>5 DEF OpenOutput, Goto
<1>14. ASSUME NEW w \in Workers, EndTransfer(w) \/ BreakTransfer(w) PROVE Tracks'
  <2>1. /\ pc[w] = "transfer" /\ UNCHANGED <<status, g_idx, dst, at, arg>>
        /\ out' = [out EXCEPT ![w] = NoItem] /\ pc' = [pc EXCEPT ![w] = "ret"]
    BY <1>14 DEF EndTransfer, BreakTransfer, Goto, slotVars
  <2>2. PICK s \in Slots : at[w] = s
    BY <1>t, <2>1, Attached
  <2>3. out[w] = dst[s] /\ dst[s] \in Paths /\ dst[s] # NoItem
    <3>1. Named(s)
      BY <1>t, <2>1, <2>2 DEF Tracks, Watched, SoleOwner, Serving
    <3> QED
      BY <1>t, <2>1, <2>2, <3>1 DEF Tracks, Holds, Named
  <2>4. PICK e \in {0, ABORTED} \cup DlErrors :
          /\ ret' = [ret EXCEPT ![w] = e]
          /\ \/ files' = IF out[w] = NoItem THEN files ELSE [files EXCEPT ![out[w]] = "full"]
             \/ e # 0 /\ UNCHANGED files
    BY <1>14, <1>t DEF EndTransfer, BreakTransfer, ABORTED
  <2>5. /\ files'[dst[s]] = "partial" => e # 0
        /\ \A f \in Paths \ {dst[s]} : files'[f] = files[f]
    BY <1>t, <2>3, <2>4 DEF TypeOK
  <2>6. /\ ret'[w] = e
        /\ \A q \in Procs \ {w} : ret'[q] = ret[q] /\ (out[q] # dst[s] => out'[q] = out[q])
    BY <1>t, <2>1, <2>4 DEF TypeOK
  <2> QED
    BY ONLY <1>11, <2>1, <2>2, <2>5, <2>6
<1>15. ASSUME NEW w \in Workers, AutoInstall(w) PROVE Tracks'
  <2>1. /\ pc[w] = "ret" /\ ret[w] = 0 /\ pc' = [pc EXCEPT ![w] = "pkg"]
        /\ UNCHANGED <<status, g_idx, dst, at, arg, out, ret, files>>
    BY <1>15 DEF AutoInstall, Goto, slotVars
  <2>2. PICK s \in Slots : at[w] = s
    BY <1>t, <2>1, Attached
  <2>3. pc'[w] = "pkg" /\ w # UI
    BY <1>t, <2>1 DEF TypeOK
  <2>4. Holds(w)'
    BY <2>3 DEF Holds
  <2> QED
    BY <2>1, <2>2, <2>4, AloneTracks
<1>16. ASSUME NEW w \in Workers, EndDownload(w) PROVE Tracks'
  <2>1. /\ pc[w] = "ret" /\ pc' = [pc EXCEPT ![w] = "none"]
        /\ at' = [at EXCEPT ![w] = NoSlot] /\ ret' = [ret EXCEPT ![w] = 0]
        /\ status' = [status EXCEPT ![at[w]] = IF ret[w] = 0 THEN COMPLETED ELSE ret[w]]
        /\ UNCHANGED <<g_idx, dst, arg, out, files>>
    BY <1>16 DEF EndDownload, SetStatus, Leave, Goto
  <2>2. PICK s \in Slots : at[w] = s
    BY <1>t, <2>1, Attached
  <2>3. Named(s) /\ \A q \in Procs \ {w} : at[q] # s
    BY <2>1, <2>2, ThreadNamed
  <2>4. /\ at'[w] = NoSlot /\ \A q \in Procs : at'[q] # s
        /\ status'[s] = IF ret[w] = 0 THEN COMPLETED ELSE ret[w]
        /\ \A r \in Slots \ {s} : status'[r] = status[r]
        /\ \A q \in Procs \ {w} : ret'[q] = ret[q]
    BY <1>t, <2>1, <2>2, <2>3 DEF TypeOK
  <2>5. ASSUME NEW f \in Paths, f[2] = g_idx[s], files'[f] = "partial"
        PROVE  dst'[s] = f /\ g_idx'[s] = f[2] /\ Unfinished(s)'
    <3>1. dst[s] = f /\ Unfinished(s)
      BY <2>1, <2>5, OwnPartial
    <3>2. ret[w] # 0
      BY <2>1, <2>2, <3>1, NotUnfinished
    <3>3. status'[s] \in {ABORTED, ENOENT} \cup DlErrors
      BY <1>t, <2>4, <3>2 DEF TypeOK
    <3>4. status'[s] \notin Free \cup {COMPLETED}
      BY <3>3 DEF Free, ABORTED, ENOENT, COMPLETED, CANCELED, READY
    <3> QED
      BY <2>1, <2>4, <2>5, <3>1, <3>4 DEF Unfinished
  <2>6. (g_idx[s] = NoItem \/ Named(s) \/ Watched(s))'
    BY <2>1, <2>3 DEF Named
  <2>7. Moves(w, s)
    BY <2>1, <2>2 DEF Moves
  <2>8. Apart(w, s)
    BY <2>1, <2>4 DEF Apart
  <2>9. Arrives(w, s)
    BY <2>3, <2>4, <2>6 DEF Arrives
  <2>10. Accounted(s)
    BY <2>5 DEF Accounted
  <2> QED
    BY <2>2, <2>7, <2>8, <2>9, <2>10, ThreadTracks
<1>17. ASSUME NEW p \in Procs, BeginInstall(p) PROVE Tracks'
  <2>1. /\ pc[p] = "pkg" /\ \E v : status' = [status EXCEPT ![at[p]] = v]
        /\ UNCHANGED <<g_idx, dst, at, arg, out, ret, files>>
    BY <1>17 DEF BeginInstall, SetStatus
  <2>2. PICK l \in {"check", "offer"} : pc' = [pc EXCEPT ![p] = l]
    BY <1>17 DEF BeginInstall, Goto
  <2>3. PICK s \in Slots : at[p] = s
    BY <1>t, <2>1, Attached
  <2>4. Holds(p) /\ pc'[p] = l /\ \A r \in Slots \ {s} : status'[r] = status[r]
    BY <1>t, <2>1, <2>2, <2>3 DEF TypeOK, Tracks
  <2>5. Holds(p)'
    BY <2>1, <2>4 DEF Holds
  <2> QED
    BY <2>1, <2>2, <2>3, <2>4, <2>5, AloneTracks
<1>18. ASSUME NEW p \in Procs, InstallFails(p) PROVE Tracks'
  <2>1. /\ pc[p] \in {"check", "offer"} /\ pc' = [pc EXCEPT ![p] = "none"]
        /\ at' = [at EXCEPT ![p] = NoSlot] /\ ret' = [ret EXCEPT ![p] = 0]
        /\ arg' = [arg EXCEPT ![p] = NoItem]
        /\ \E v : status' = [status EXCEPT ![at[p]] = v]
        /\ UNCHANGED <<g_idx, dst, out, files>>
    BY <1>18 DEF InstallFails, Leave, Goto, SetStatus
  <2>2. PICK s \in Slots : at[p] = s
    BY <1>t, <2>1, Attached
  <2>3. /\ at'[p] # s /\ \A r \in Slots \ {s} : status'[r] = status[r]
        /\ \A q \in Procs \ {p} : arg'[q] = arg[q] /\ ret'[q] = ret[q]
    BY <1>t, <2>1, <2>2 DEF TypeOK
  <2> QED
    BY <2>1, <2>2, <2>3, AloneTracks
<1>19. ASSUME NEW p \in Procs, InstallInline(p) PROVE Tracks'
  <2>1. /\ pc[p] = "check" /\ pc' = [pc EXCEPT ![p] = "inst"]
        /\ UNCHANGED <<status, g_idx, dst, at, arg, out, ret, files>>
    BY <1>19 DEF InstallInline, Goto, slotVars
  <2>2. PICK s \in Slots : at[p] = s
    BY <1>t, <2>1, Attached
  <2>3. pc'[p] = "inst"
    BY <1>t, <2>1 DEF TypeOK
  <2>4. Holds(p)'
    BY <2>3 DEF Holds
  <2> QED
    BY <2>1, <2>2, <2>4, AloneTracks
<1>20. ASSUME NEW p \in Procs, NEW t \in Installers, InstallInThread(p, t) PROVE Tracks'
  <2>1. /\ pc[p] = "offer" /\ pc[t] = "none"
        /\ pc' = [pc EXCEPT ![p] = "left", ![t] = "inst"]
        /\ at' = [at EXCEPT ![t] = at[p]]
        /\ UNCHANGED <<status, g_idx, dst, arg, out, ret, files>>
    BY <1>20 DEF InstallInThread, slotVars
  <2>2. PICK s \in Slots : at[p] = s
    BY <1>t, <2>1, Attached
  <2>3. \A q \in Procs \ {p} : at[q] # s
    BY <2>1, <2>2, ThreadNamed
  <2>4. \A f \in Paths : ~(f[2] = g_idx[s] /\ files'[f] = "partial")
    BY <2>1, <2>2, OwnPartial, NotUnfinished
  <2>5. p # t /\ at[t] = NoSlot /\ t # UI
    BY <1>t, <2>1 DEF TypeOK
  <2>6. at'[t] = s /\ at'[p] = s /\ pc'[t] = "inst" /\ pc'[p] = "left"
    BY <1>t, <2>1, <2>2, <2>5 DEF TypeOK
  <2>7. Watched(s)'
    BY <2>6 DEF Watched
  <2>8. Holds(t)' /\ Holds(p)'
    BY <2>6, <2>7 DEF Holds
  <2>9. \A q \in Procs : at'[q] = s => q \in {p, t}
    BY <1>t, <2>1, <2>3 DEF TypeOK
  <2>10. \A q \in Procs :
           /\ at[q] \in Slots \ {s} =>
                /\ at'[q] = at[q] /\ pc'[q] = pc[q] /\ arg'[q] = arg[q] /\ ret'[q] = ret[q]
                /\ out[q] \in Paths /\ out[q][2] # g_idx[s] => out'[q] = out[q]
           /\ at[q] \notin Slots \ {s} => at'[q] \in {s, NoSlot}
    BY <1>t, <2>1, <2>2, <2>5, <2>6 DEF TypeOK
  <2>11. /\ \A r \in Slots \ {s} : status'[r] = status[r] /\ g_idx'[r] = g_idx[r] /\ dst'[r] = dst[r]
         /\ \A f \in Paths : f[2] # g_idx[s] => files'[f] = files[f]
         /\ \A f \in Paths : f[2] = g_idx[s] /\ files'[f] = "partial"
                               => dst'[s] = f /\ g_idx'[s] = f[2] /\ Unfinished(s)'
         /\ \A q \in Procs : at'[q] = s => Holds(q)'
    BY <2>1, <2>4, <2>8, <2>9
  <2>12. (g_idx[s] = NoItem \/ Named(s) \/ Watched(s))'
    BY <2>7
  <2> QED
    BY <2>10, <2>11, <2>12, OthersTrack
<1>22. ASSUME NEW p \in Procs, InstallInBackground(p) \/ CleanUp(p) PROVE Tracks'
  <2>1. /\ pc[p] \in {"offer", "clean"}
        /\ \/ UNCHANGED at /\ \E l \in {"left", "tail"} : pc' = [pc EXCEPT ![p] = l]
           \/ at' = [at EXCEPT ![p] = NoSlot] /\ pc' = [pc EXCEPT ![p] = "none"]
        /\ g_idx' = [g_idx EXCEPT ![at[p]] = NoItem]
        /\ UNCHANGED status \/ status' = [status EXCEPT ![at[p]] = READY]
        /\ UNCHANGED <<dst, arg, ret, out, files>>
    BY <1>22 DEF InstallInBackground, CleanUp, Leave, Goto, SetStatus
  <2>2. PICK s \in Slots : at[p] = s
    BY <1>t, <2>1, Attached
  <2>3. /\ g_idx'[s] = NoItem
        /\ UNCHANGED at => pc'[p] \in {"left", "tail"}
        /\ \E l : pc' = [pc EXCEPT ![p] = l]
        /\ \A r \in Slots \ {s} : status'[r] = status[r] /\ g_idx'[r] = g_idx[r] /\ dst'[r] = dst[r]
        /\ \A q \in Procs \ {p} : arg'[q] = arg[q]
        /\ UNCHANGED <<ret, out, files>>
    BY <1>t, <2>1, <2>2 DEF TypeOK
  <2>4. /\ pc[p] \in {"offer", "inst", "poll", "clean", "tail", "left"}
        /\ \/ at' = [at EXCEPT ![p] = NoSlot]
           \/ UNCHANGED at /\ pc'[p] \in {"poll", "clean", "tail", "left"}
    BY <2>1, <2>3
  <2>5. g_idx'[s] = NoItem \/ Watched(s)'
    BY <2>3
  <2> QED
    BY InstallTracks, <2>2, <2>3, <2>4, <2>5
<1>23. ASSUME NEW p \in Procs, BeginProgress(p) \/ EndProgress(p) PROVE Tracks'
  <2>1. PICK l \in {"poll", "clean"} : pc' = [pc EXCEPT ![p] = l]
    BY <1>23 DEF BeginProgress, EndProgress, Goto
  <2>2. /\ pc[p] \in {"inst", "poll"} /\ UNCHANGED <<g_idx, dst, at, arg, ret, out, files>>
        /\ \E v : status' = [status EXCEPT ![at[p]] = v]
    BY <1>23 DEF BeginProgress, EndProgress, SetStatus
  <2>3. PICK s \in Slots : at[p] = s
    BY <1>t, <2>2, Attached
  <2>4. at'[p] = s /\ pc'[p] = l /\ \A r \in Slots \ {s} : status'[r] = status[r]
    BY <1>t, <2>1, <2>2, <2>3 DEF TypeOK
  <2>5. Watched(s)'
    BY <2>4 DEF Watched
  <2> QED
    BY InstallTracks, <2>1, <2>2, <2>3, <2>4, <2>5
<1>24. ASSUME NEW p \in Procs, EndInstall(p) PROVE Tracks'
  <2>1. /\ pc[p] \in {"tail", "left"} /\ dst' = [dst EXCEPT ![at[p]] = NoItem]
        /\ arg' = [arg EXCEPT ![p] = NoItem] /\ pc' = [pc EXCEPT ![p] = "none"]
        /\ at' = [at EXCEPT ![p] = NoSlot] /\ UNCHANGED <<status, g_idx, ret, out, files>>
    BY <1>24 DEF EndInstall, Leave, Goto
  <2>2. PICK s \in Slots : at[p] = s
    BY <1>t, <2>1, Attached
  <2>3. /\ at'[p] # s /\ \A q \in Procs \ {p} : at'[q] = at[q] /\ pc'[q] = pc[q]
        /\ \A r \in Slots \ {s} : dst'[r] = dst[r]
        /\ \A q \in Procs \ {p} : arg'[q] = arg[q]
    BY <1>t, <2>1, <2>2 DEF TypeOK
  <2>4. g_idx[s] = NoItem \/ Watched(s)
    <3>1. CASE pc[p] = "tail"
      BY <1>t, <2>2, <3>1 DEF Serving
    <3>2. CASE pc[p] = "left"
      BY <1>t, <2>2, <3>2 DEF Tracks, Holds
    <3> QED
      BY <2>1, <3>1, <3>2
  <2>5. Watched(s) => Watched(s)'
    BY <2>1, <2>3 DEF Watched
  <2>6. g_idx'[s] = NoItem \/ Watched(s)'
    BY <2>1, <2>4, <2>5
  <2> QED
    BY InstallTracks, <2>1, <2>2, <2>3, <2>6
<1>25. CASE \/ ToggleAutoInstall \/ ToggleLegacyInstall \/ UNCHANGED vars
            \/ \E f \in Folders : SetFolder(f)
  BY <1>1, <1>25
     DEF ToggleAutoInstall, ToggleLegacyInstall, SetFolder, vars, slotVars, procVars
<1> QED
  BY <1>2, <1>3, <1>4, <1>5, <1>6, <1>7, <1>8, <1>9, <1>10, <1>12, <1>13, <1>14, <1>15,
     <1>16, <1>17, <1>18, <1>19, <1>20, <1>22, <1>23, <1>24, <1>25
     DEF Next, Command, Settings, FinishCall, Download, Install

LEMMA AlwaysWhole == Spec => [](Owned /\ Serving /\ UniqueItem /\ Whole)
<1>1. Init => Whole
  BY Constants DEF Init, Whole, Tracks, Holds
<1>2. Owned /\ Serving /\ UniqueItem /\ Whole /\ [Next]_vars => Whole'
  BY StepTracks, OverrunGrows DEF Whole, Steady, Owned
<1> QED
  BY <1>1, <1>2, AlwaysServing, OneSlotPerItem, PTL DEF Spec

(* Until a cancel or a reuse catches a live thread, the file given to the      *)
(* installer is one whose transfer ended well, in whichever thread pkginstall  *)
(* runs, whatever the other slots download and wherever the download folder    *)
(* is by then.                                                                 *)
THEOREM InstallsWholePackages == Spec => []InstallWhole
<1>1. Owned /\ Serving /\ UniqueItem /\ Whole => InstallWhole
  <2> SUFFICES ASSUME Steady, NEW p \in Procs, pc[p] \in {"check", "offer"},
                      PkgPath(p) \in Paths, files[PkgPath(p)] = "partial"
               PROVE  FALSE
    BY DEF InstallWhole, TaskStarted, Exists, Whole, Steady, Owned, TypeOK
  <2>1. PICK s \in Slots : at[p] = s
    BY Attached DEF Steady, Owned
  <2>2. Named(s) /\ ~Unfinished(s)
    BY <2>1, ThreadNamed, NotUnfinished
  <2>3. PkgPath(p)[2] = g_idx[s]
    BY <2>1, <2>2 DEF PkgPath, Steady, Tracks, Holds, Named
  <2> QED
    BY <2>2, <2>3, OwnPartial
<1> QED
  BY <1>1, AlwaysWhole, PTL

(* A path that a download has unlinked and not finished with is its alone. *)
OneWriter ==
  overrun = {} =>
    \A p \in Procs : pc[p] \in {"unlinked", "transfer"} =>
      /\ files[dst[at[p]]] # "full"
      /\ \A q \in Procs :
           pc[q] \in {"unlinked", "transfer"} /\ dst[at[q]] = dst[at[p]] => q = p

(* Until a cancel or a reuse catches a live thread, no two threads are        *)
(* between the unlink of one path and the end of their transfers to it, and   *)
(* what is there is not a whole package: whatever the slots, and whatever the *)
(* folders the items were sent to.                                            *)
THEOREM FilesHaveOneWriter == Spec => []OneWriter
<1>1. Owned /\ Serving /\ UniqueItem /\ Whole => OneWriter
  <2> SUFFICES ASSUME Steady, NEW p \in Procs, pc[p] \in {"unlinked", "transfer"}
               PROVE  /\ files[dst[at[p]]] # "full"
                      /\ \A q \in Procs :
                           pc[q] \in {"unlinked", "transfer"} /\ dst[at[q]] = dst[at[p]]
                             => q = p
    BY DEF OneWriter, Whole, Steady
  <2>1. PICK s \in Slots : at[p] = s
    BY Attached DEF Steady, Owned
  <2>2. /\ g_idx[s] \in Items /\ dst[s][2] = g_idx[s]
        /\ \A q \in Procs \ {p} : at[q] # s
    BY <2>1, ThreadNamed DEF Named
  <2>3. ASSUME NEW q \in Procs, pc[q] \in {"unlinked", "transfer"}, dst[at[q]] = dst[s]
        PROVE  q = p
    <3>1. PICK r \in Slots : at[q] = r
      BY <2>3, Attached DEF Steady, Owned
    <3>2. g_idx[r] \in Items /\ dst[r][2] = g_idx[r]
      BY <2>3, <3>1, ThreadNamed DEF Named
    <3>3. r = s
      BY <2>2, <2>3, <3>1, <3>2, PoolAssumption DEF Steady, UniqueItem, PoolAssumption
    <3> QED
      BY <2>2, <3>1, <3>3
  <2>4. files[dst[s]] # "full"
    BY <2>1 DEF Steady, Tracks, Holds
  <2> QED
    BY <2>1, <2>3, <2>4
<1> QED
  BY <1>1, AlwaysWhole, PTL
-----------------------------------------------------------------------------
(* The badge of the "Updates" entry. *)

LEMMA StepBadge ==
  ASSUME Owned, Serving, BadgeCounts, [Next]_vars
  PROVE  BadgeCounts'
<1> SUFFICES ASSUME overrun' = {} PROVE updates_counter' = Cardinality(updatable')
  BY DEF BadgeCounts
<1>a. TypeOK
  BY DEF Owned
<1>b. overrun = {} /\ updates_counter = Cardinality(updatable)
  BY <1>a, OverrunGrows DEF BadgeCounts
<1>1. CASE UNCHANGED updVars
  BY <1>b, <1>1 DEF updVars
<1>2. ASSUME NEW p \in Procs, CleanUp(p)
      PROVE  updates_counter' = Cardinality(updatable')
  <2>1. pc[p] = "clean" /\ SettleUpdate(g_idx[at[p]])
    BY <1>2 DEF CleanUp
  <2>2. at[p] \in Slots
    BY <1>a, <2>1, Attached
  <2>3. PICK i \in Items : i = g_idx[at[p]]
    BY <1>a, <1>b, <2>1, <2>2 DEF Serving, TypeOK
  <2>4. IsFiniteSet(updatable) /\ i # NoItem
    BY <1>a, PoolAssumption, FS_Subset DEF TypeOK, PoolAssumption
  <2>5. /\ Cardinality(updatable) \in Nat
        /\ i \in updatable => Cardinality(updatable \ {i}) = Cardinality(updatable) - 1
        /\ Cardinality(updatable \ {i}) \in Nat
        /\ i \notin updatable => updatable \ {i} = updatable
    BY <2>4, FS_CardinalityType, FS_RemoveElement, FS_Subset
  <2>6. /\ updatable' = updatable \ {i}
        /\ i \in updatable =>
             updates_counter' = IF updates_counter > 0 THEN updates_counter - 1 ELSE 0
        /\ i \notin updatable => updates_counter' = updates_counter
    BY <2>1, <2>3, <2>4 DEF SettleUpdate
  <2>7. CASE i \in updatable
    <3>1. updates_counter - 1 \in Nat /\ updates_counter \in Nat
      BY <1>b, <2>5, <2>7
    <3> QED
      BY <1>b, <2>5, <2>6, <2>7, <3>1
  <2>8. CASE i \notin updatable
    BY <1>b, <2>5, <2>6, <2>8
  <2> QED
    BY <2>7, <2>8
<1> QED
  BY <1>1, <1>2
     DEF Next, Command, Settings, FinishCall, Download, Install, PauseDownload,
         ResumeDownload, CancelDownload, DispatchDownload, InstallDownloaded,
         ToggleAutoInstall, ToggleLegacyInstall, SaveSettings, HeadSucceeds, HeadFails,
         SetFolder, SettingsReloaded, InstallInThread, InstallInBackground, BeginDownload,
         EnterDownload, UnlinkOutput, OpenOutput, EndTransfer, BreakTransfer, AutoInstall,
         EndDownload, BeginInstall, InstallFails, InstallInline, BeginProgress,
         EndProgress, EndInstall, vars

(* Until a cancel or a reuse catches a live thread, the badge is the number of *)
(* games that still have an update: every install is counted once, because the *)
(* slot still names its item when install_prog looks.                          *)
THEOREM BadgeIsExact == Spec => []BadgeCounts
<1>1. Init => BadgeCounts
  BY DEF Init, BadgeCounts
<1>2. Owned /\ Serving /\ BadgeCounts /\ [Next]_vars => BadgeCounts'
  BY StepBadge
<1> QED
  BY <1>1, <1>2, AlwaysServing, PTL DEF Spec

-----------------------------------------------------------------------------
(* What the screens rely on, and what the threads cannot do to one another. *)

(* A step of a thread that is not the UI's: start_routine2, install_prog,   *)
(* or the pkginstall a download goes on to.                                 *)
ThreadStep(p) ==
  \/ p \in Workers /\ (Download(p) \/ BreakTransfer(p))
  \/ p # UI /\ Install(p)

(* Of the pool, p touches no slot but its own: it reports while the slot is *)
(* busy and gives the item up once the install is over or left to the       *)
(* console, unless the slot was taken from it.                              *)
OwnSlotOnly(p) ==
  \/ UNCHANGED <<status, g_idx>>
  \/ Protocol!Report(at[p]) /\ (at[p] \in overrun \/ status[at[p]] \in Active)
  \/ Protocol!Release(at[p]) /\ (at[p] \in overrun \/ status[at[p]] \in Active)
  \/ /\ Protocol!Settle(at[p])
     /\ at[p] \in overrun \/ status[at[p]] \notin Free \cup Active

(* The steps Screens lets the other threads take, ThreadMoves there, are    *)
(* all that the threads of the pool take.                                   *)
ThreadsKeepToTheirSlots ==
  [][\A p \in Procs : ThreadStep(p) => OwnSlotOnly(p)]_vars

(* Where a thread is about to store a status. *)
Writing == {"created", "begun", "ret", "pkg", "check", "offer", "inst", "poll"}

(* What a thread finds in its own slot where it is about to write to it. *)
LEMMA OwnStatus ==
  ASSUME Owned, NEW p \in Procs, p # UI, pc[p] \notin {"none", "load"}
  PROVE  /\ at[p] \in Slots
         /\ pc[p] \in Writing
              => at[p] \in overrun \/ status[at[p]] \in Active
         /\ pc[p] = "clean"
              => at[p] \in overrun \/ status[at[p]] \notin Free \cup Active
<1>1. at[p] \in Slots
  BY Attached DEF Owned
<1>2. at[p] \in overrun \/ status[at[p]] \in Expected(p, pc[p])
  BY <1>1 DEF Owned, StatusTruthful
<1>3. Expected(p, pc[p]) \subseteq Active
        \/ pc[p] \notin Writing
  BY DEF Expected, Active, Writing
<1>4. pc[p] = "clean" => Expected(p, pc[p]) \cap (Free \cup Active) = {}
  BY StatusNumbers, PoolAssumption
     DEF Expected, PoolAssumption, Free, COMPLETED, READY, CANCELED
<1> QED
  BY <1>1, <1>2, <1>3, <1>4

LEMMA StepKeepsToSlot ==
  ASSUME Owned, NEW p \in Procs, ThreadStep(p)
  PROVE  OwnSlotOnly(p)
<1> USE Constants, PoolAssumption DEF PoolAssumption
<1>t. TypeOK /\ Roles
  BY DEF Owned
<1>1. ASSUME NEW v \in Reported, p # UI, SetStatus(at[p], v), UNCHANGED g_idx,
             pc[p] \in Writing
      PROVE  OwnSlotOnly(p)
  <2>1. Protocol!Report(at[p])
    BY <1>1 DEF Protocol!Report, Reported, SetStatus, Protocol!CANCELED, CANCELED,
       Protocol!RUNNING, RUNNING, Protocol!COMPLETED, COMPLETED,
       Protocol!INSTALLING_APP, INSTALLING_APP
  <2>2. at[p] \in overrun \/ status[at[p]] \in Active
    BY <1>1, OwnStatus DEF Writing
  <2> QED
    BY <2>1, <2>2 DEF OwnSlotOnly
<1>2. CASE p \in Workers /\ (BeginDownload(p) \/ EnterDownload(p))
  <2>1. SetStatus(at[p], RUNNING) /\ UNCHANGED g_idx /\ pc[p] \in {"created", "begun"}
    BY <1>2 DEF BeginDownload, EnterDownload
  <2> QED
    BY <1>1, <1>2, <2>1 DEF Reported, Writing
<1>3. CASE p \in Workers /\ EndDownload(p)
  <2>1. /\ SetStatus(at[p], IF ret[p] = 0 THEN COMPLETED ELSE ret[p])
        /\ UNCHANGED g_idx /\ pc[p] = "ret"
    BY <1>3 DEF EndDownload
  <2>2. (IF ret[p] = 0 THEN COMPLETED ELSE ret[p]) \in Reported
    BY <1>t DEF TypeOK, Reported
  <2> QED
    BY <1>1, <1>3, <2>1, <2>2 DEF Writing
<1>4. CASE p # UI /\ (BeginInstall(p) \/ BeginProgress(p))
  <2>1. SetStatus(at[p], INSTALLING_APP) /\ UNCHANGED g_idx /\ pc[p] \in {"pkg", "inst"}
    BY <1>4 DEF BeginInstall, BeginProgress
  <2> QED
    BY <1>1, <1>4, <2>1 DEF Reported, Writing
<1>5. CASE p # UI /\ InstallFails(p)
  <2>1. PICK e \in {CANCELED} \cup SysErrors : SetStatus(at[p], e)
    BY <1>5 DEF InstallFails
  <2>2. UNCHANGED g_idx /\ pc[p] \in {"check", "offer"}
    BY <1>5 DEF InstallFails
  <2> QED
    BY <1>1, <1>5, <2>1, <2>2 DEF Reported, Writing
<1>6. CASE p # UI /\ EndProgress(p)
  <2>1. PICK v \in {COMPLETED} \cup SysErrors : SetStatus(at[p], v)
    BY <1>6 DEF EndProgress
  <2>2. UNCHANGED g_idx /\ pc[p] = "poll"
    BY <1>6 DEF EndProgress
  <2> QED
    BY <1>1, <1>6, <2>1, <2>2 DEF Reported, Writing
<1>7. CASE p # UI /\ CleanUp(p)
  <2>1. Protocol!Settle(at[p]) /\ pc[p] = "clean"
    BY <1>7 DEF CleanUp, Protocol!Settle
  <2>2. at[p] \in overrun \/ status[at[p]] \notin Free \cup Active
    BY <1>7, <2>1, OwnStatus
  <2> QED
    BY <2>1, <2>2 DEF OwnSlotOnly
<1>8. CASE p # UI /\ InstallInBackground(p)
  <2>1. SetStatus(at[p], READY) /\ g_idx' = [g_idx EXCEPT ![at[p]] = NoItem] /\ pc[p] = "offer"
    BY <1>8 DEF InstallInBackground
  <2>2. Protocol!Release(at[p])
    BY <2>1, ProtocolNames DEF Protocol!Release, SetStatus, Free
  <2>3. at[p] \in overrun \/ status[at[p]] \in Active
    BY <1>8, <2>1, OwnStatus DEF Writing
  <2> QED
    BY <2>2, <2>3 DEF OwnSlotOnly
<1>9. CASE \/ UnlinkOutput(p) \/ OpenOutput(p) \/ EndTransfer(p) \/ BreakTransfer(p)
           \/ AutoInstall(p) \/ InstallInline(p) \/ EndInstall(p)
           \/ \E t \in Installers : InstallInThread(p, t)
  BY <1>9
     DEF UnlinkOutput, OpenOutput, EndTransfer, BreakTransfer, AutoInstall, InstallInline,
         InstallInThread, EndInstall, slotVars, OwnSlotOnly
<1> QED
  BY <1>2, <1>3, <1>4, <1>5, <1>6, <1>7, <1>8, <1>9 DEF ThreadStep, Download, Install

(* A thread of the pool writes to the slot it was given and to no other,    *)
(* and unless the slot was taken from it only while the slot is busy: what  *)
(* Screens assumes of the threads, which that module does not model.        *)
THEOREM ThreadsDoWhatScreensAssumes == Spec => ThreadsKeepToTheirSlots
<1>1. Owned => [\A p \in Procs : ThreadStep(p) => OwnSlotOnly(p)]_vars
  BY StepKeepsToSlot
<1> QED
  BY <1>1, AlwaysOwned, PTL DEF ThreadsKeepToTheirSlots

(* One thread serves an item, or two where install_prog has a thread of its  *)
(* own and the one that started it has yet to return: more of them would     *)
(* have to share a slot, or two slots the item.                              *)
OneThreadPerItem ==
  \A p, q \in Procs :
    /\ at[p] \in Slots \ overrun /\ at[q] \in Slots \ overrun
    /\ g_idx[at[p]] = g_idx[at[q]] /\ g_idx[at[p]] # NoItem
    /\ pc[p] # "left" /\ pc[q] # "left"
    => p = q

(* No item is downloaded twice, installed twice, or downloaded while it is  *)
(* being installed, as long as no slot of it was taken over: Download makes *)
(* sure that no slot has the item, and what it then finds free has no       *)
(* thread that still acts on an item.                                       *)
THEOREM OneThreadServesAnItem == Spec => []OneThreadPerItem
<1>1. Owned /\ UniqueItem => OneThreadPerItem
  BY DEF Owned, SoleOwner, UniqueItem, OneThreadPerItem
<1> QED
  BY <1>1, AlwaysOwned, OneSlotPerItem, PTL
=============================================================================
