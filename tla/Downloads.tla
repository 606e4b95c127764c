----------------------------- MODULE Downloads -----------------------------
(***************************************************************************)
(* The download and install pool of the Store (GLES2_q.cpp, http.cpp,      *)
(* installpkg.cpp and the download panel of GLES2_scene_v2.cpp).           *)
(*                                                                         *)
(* ENTRIES slots (pt_info, each a dl_arg_t) are shared without a lock by   *)
(* the UI thread, which starts, pauses, resumes, cancels and installs, by  *)
(* one detached thread per download (start_routine2) and, when "show       *)
(* install progress" is on, by one thread per install (install_prog).      *)
(* The fields they exchange are atomics, so a step here is a run of code up *)
(* to the next point where another thread can be noticed. url and dst are   *)
(* strings, which two threads touch at a time only after a take-over; the   *)
(* model then lets one access follow the other.                             *)
(***************************************************************************)
EXTENDS PtInfo, FiniteSets

CONSTANTS
  UI,          (* the thread that renders and handles buttons              *)
  Workers,     (* identities of threads running start_routine2             *)
  Installers,  (* identities of threads running install_prog               *)
  DlErrors,    (* what a failing start_routine returns: CURLcode or errno  *)
  SysErrors,   (* what failing BGFT and AppInst calls return (0x8.......)  *)
  Folders,     (* what set.opt[TMP_PATH] may name, missing folders too     *)
  DefaultFolder, (* what it names after a reset                            *)
  MaxTakeOvers (* bound: how often the UI takes a slot from a live thread  *)

Procs == {UI} \cup Workers \cup Installers

(* Other values a download leaves in the field of enum pt_status *)
ABORTED == 42        \* CURLE_ABORTED_BY_CALLBACK
ENOENT  == 2

Active == {PENDING, RUNNING, PAUSED, INSTALLING_APP}

(* A download's file: the folder as it was set, and the package. *)
Paths == Folders \X Items

(* COMPLETED is no error of a download: as a CURLcode it says that the URL  *)
(* is malformed, which the request of ini_dl_req would have met first, and  *)
(* as an errno, ESRCH, fopen does not have it. Any other number, those of   *)
(* pt_status too, may be returned: ENOENT, for a folder that is missing, is *)
(* RUNNING.                                                                  *)
ASSUME PoolAssumption ==
  /\ ENTRIES \in Nat \ {0}
  /\ IsFiniteSet(Items)
  /\ NoItem \notin Items
  /\ UI \notin Workers \cup Installers
  /\ Workers \cap Installers = {}
  /\ DlErrors \subseteq Nat \ {0, COMPLETED}
  /\ \A e \in SysErrors : e \in Int /\ e < CANCELED
  /\ DefaultFolder \in Folders /\ NoItem \notin Paths
  /\ MaxTakeOvers \in Nat

VARIABLES
  dst,      (* dst[s]: the path of the package                             *)
  misread,  (* history: slots whose download failed with an error that     *)
            (* reads as a busy status                                      *)
  pc,       (* where each thread is                                        *)
  at,       (* the slot whose dl_arg_t the thread works on                 *)
  arg,      (* a path the thread holds by value                            *)
  out,      (* the path whose file its open output decides, if it has one: *)
            (* nobody has unlinked or truncated it since                   *)
  ret,      (* start_routine's result                                      *)
  files,    (* what is at each path; "full" is what a whole transfer left, *)
            (* whose last flush nobody checks (see Transfer)               *)
  auto,     (* set.auto_install                                            *)
  legacy,   (* set.Legacy_Install                                          *)
  ini,      (* auto_install in the INI, while it is being reloaded         *)
  tmp,      (* set.opt[TMP_PATH]                                           *)
  updatable,        (* the games whose update_status is UPDATE_FOUND       *)
  updates_counter,  (* the badge of the "Updates" entry                    *)
  overrun,  (* history: slots the UI took over while a thread was on them  *)
  takeovers (* history: how often it did                                   *)

slotVars == <<status, g_idx, dst, misread>>
procVars == <<pc, at, arg, out, ret>>
setVars  == <<auto, legacy, ini, tmp>>
updVars  == <<updatable, updates_counter>>
history  == <<overrun, takeovers>>
vars     == <<slotVars, procVars, files, setVars, updVars, history>>

Locations ==
  { "none",                                       \* no thread; UI idle
    "head", "load",                               \* UI only
    "created", "begun", "entered", "unlinked", "transfer", "ret",
    "pkg",
    "check", "offer",                             \* pkginstall with and without
                                                  \* its Auto_install argument
    "inst", "poll", "clean", "tail",
    "left" }                                      \* the slot is out of its hands

StatusValues ==
  Free \cup Active \cup {COMPLETED, ABORTED, ENOENT} \cup DlErrors \cup SysErrors

TypeOK ==
  /\ status \in [Slots -> StatusValues]
  /\ g_idx \in [Slots -> Items \cup {NoItem}]
  /\ dst \in [Slots -> Paths \cup {NoItem}]
  /\ misread \subseteq Slots
  /\ pc \in [Procs -> Locations]
  /\ at \in [Procs -> Slots \cup {NoSlot}]
  /\ arg \in [Procs -> Paths \cup {NoItem}]
  /\ out \in [Procs -> Paths \cup {NoItem}]
  /\ ret \in [Procs -> {0, ABORTED, ENOENT} \cup DlErrors]
  /\ files \in [Paths -> {"none", "partial", "full"}]
  /\ {auto, legacy, ini} \subseteq BOOLEAN
  /\ tmp \in Folders
  /\ updatable \subseteq Items
  /\ updates_counter \in Nat
  /\ overrun \subseteq Slots
  /\ takeovers \in Nat
  /\ \A p \in Procs : at[p] = NoSlot <=> pc[p] \in {"none", "load"}

(* queue_panel_init, the wiped download folder, the settings as loaded. *)
(* The counter starts as the startup check of CheckUpdate leaves it.    *)
Init ==
  /\ status = [s \in Slots |-> CANCELED]
  /\ g_idx = [s \in Slots |-> NoItem]
  /\ dst = [s \in Slots |-> NoItem]
  /\ misread = {}
  /\ pc = [p \in Procs |-> "none"]
  /\ at = [p \in Procs |-> NoSlot]
  /\ arg = [p \in Procs |-> NoItem]
  /\ out = [p \in Procs |-> NoItem]
  /\ ret = [p \in Procs |-> 0]
  /\ files = [f \in Paths |-> "none"]
  /\ auto \in BOOLEAN
  /\ legacy = FALSE
  /\ ini = FALSE
  /\ tmp = DefaultFolder
  /\ updatable = Items
  /\ updates_counter = Cardinality(Items)
  /\ overrun = {}
  /\ takeovers = 0

-----------------------------------------------------------------------------
(* Lookups and shared effects. *)

Attended(s) == \E p \in Procs : at[p] = s

Idle == pc[UI] = "none"

SetStatus(s, v) == status' = [status EXCEPT ![s] = v]
Goto(p, l)      == pc' = [pc EXCEPT ![p] = l]

(* The UI hands slot s to a new thread t; its own call returns. *)
Spawn(t, s, l) ==
  /\ pc' = [pc EXCEPT ![UI] = "none", ![t] = l]
  /\ at' = [at EXCEPT ![UI] = NoSlot, ![t] = s]

(* Thread p ends, or the UI's call returns. *)
Leave(p) ==
  /\ Goto(p, "none")
  /\ at' = [at EXCEPT ![p] = NoSlot]

(* unlink(f): a file somebody still writes loses its name. *)
UnlinkedOut(f)   == [p \in Procs |-> IF out[p] = f THEN NoItem ELSE out[p]]
UnlinkedFiles(f) == [g \in Paths |-> IF g = f THEN "none" ELSE files[g]]

Exists(f) == f \in Paths /\ files[f] # "none"

(* The UI acts on slot s whether or not a thread is still using it. *)
TakeOver(s) ==
  IF Attended(s)
  THEN /\ takeovers < MaxTakeOvers
       /\ overrun' = overrun \cup {s}
       /\ takeovers' = takeovers + 1
  ELSE UNCHANGED history

-----------------------------------------------------------------------------
(* The UI thread: buttons of the download panel. *)

(* Mutant: whatever is not paused is paused. *)
PauseAnything(i) ==
  /\ Idle
  /\ \E s \in Slots : Handles(s, i) /\ status[s] > READY /\ SetStatus(s, PAUSED)
  /\ UNCHANGED <<g_idx, dst, misread, procVars, files, setVars, updVars, history>>

PauseDownload(i) ==
  /\ Idle
  /\ \E s \in Slots :
       /\ Handles(s, i)
       /\ status[s] = RUNNING
       /\ SetStatus(s, PAUSED)
  /\ UNCHANGED <<g_idx, dst, misread, procVars, files, setVars, updVars, history>>

ResumeDownload(i) ==
  /\ Idle
  /\ \E s \in Slots :
       /\ Handles(s, i)
       /\ status[s] = PAUSED
       /\ SetStatus(s, RUNNING)
  /\ UNCHANGED <<g_idx, dst, misread, procVars, files, setVars, updVars, history>>

(* Mutant: Download does not look for a slot that serves the item. *)
DispatchAgain(i) ==
  /\ Idle
  /\ \E s \in Slots :
       /\ Dispatchable(s)
       /\ dst' = [dst EXCEPT ![s] = <<tmp, i>>]
       /\ misread' = misread \ {s}
       /\ g_idx' = [g_idx EXCEPT ![s] = i]
       /\ at' = [at EXCEPT ![UI] = s]
       /\ TakeOver(s)
  /\ Goto(UI, "head")
  /\ UNCHANGED <<status, arg, out, ret, files, setVars, updVars>>

(* Download on an item no slot serves: dl_from_url_v2 up to its request. *)
DispatchDownload(i) ==
  /\ Idle
  /\ Unhandled(i)
  /\ \E s \in Slots :
       /\ Dispatchable(s)
       /\ dst' = [dst EXCEPT ![s] = <<tmp, i>>]
       /\ misread' = misread \ {s}
       /\ g_idx' = [g_idx EXCEPT ![s] = i]
       /\ at' = [at EXCEPT ![UI] = s]
       /\ TakeOver(s)
  /\ Goto(UI, "head")
  /\ UNCHANGED <<status, arg, out, ret, files, setVars, updVars>>

(* Mutant: the slot is not marked before its thread runs. *)
HeadSucceedsUnmarked(w) ==
  /\ pc[UI] = "head"
  /\ pc[w] = "none"
  /\ Spawn(w, at[UI], "created")
  /\ UNCHANGED <<slotVars, arg, out, ret, files, setVars, updVars, history>>

(* ini_dl_req got its 200: mark the slot and start the thread. *)
HeadSucceeds(w) ==
  /\ pc[UI] = "head"
  /\ pc[w] = "none"
  /\ LET s == at[UI] IN
       /\ SetStatus(s, IF status[s] < 1 THEN PENDING ELSE status[s])
       /\ Spawn(w, s, "created")
  /\ UNCHANGED <<g_idx, dst, misread, arg, out, ret, files, setVars, updVars, history>>

(* Any other answer: the slot keeps its item but may be handed out again. *)
HeadFails ==
  /\ pc[UI] = "head"
  /\ SetStatus(at[UI], CANCELED)
  /\ Leave(UI)
  /\ UNCHANGED <<g_idx, dst, misread, arg, out, ret, files, setVars, updVars, history>>

CancelDownload(i) ==
  /\ Idle
  /\ \E s \in Slots :
       /\ Handles(s, i)
       /\ status[s] > READY
       /\ files' = UnlinkedFiles(dst[s])
       /\ out' = UnlinkedOut(dst[s])
       /\ dst' = [dst EXCEPT ![s] = NoItem]
       /\ g_idx' = [g_idx EXCEPT ![s] = NoItem]
       /\ misread' = misread \ {s}
       /\ SetStatus(s, CANCELED)
       /\ TakeOver(s)
  /\ UNCHANGED <<pc, at, arg, ret, setVars, updVars>>

(* Install on a finished download: the UI thread itself runs pkginstall, on *)
(* the path as the settings give it now.                                    *)
InstallDownloaded(i) ==
  /\ Idle
  /\ \E s \in Slots :
       /\ Handles(s, i)
       /\ status[s] = COMPLETED
       /\ at' = [at EXCEPT ![UI] = s]
       /\ TakeOver(s)
  /\ arg' = [arg EXCEPT ![UI] = <<tmp, i>>]
  /\ Goto(UI, "pkg")
  /\ UNCHANGED <<slotVars, out, ret, files, setVars, updVars>>

-----------------------------------------------------------------------------
(* The UI thread: settings. *)

ToggleAutoInstall ==
  /\ Idle
  /\ auto \/ ~legacy
  /\ auto' = ~auto
  /\ UNCHANGED <<slotVars, procVars, files, legacy, ini, tmp, updVars, history>>

ToggleLegacyInstall ==
  /\ Idle
  /\ legacy \/ ~auto
  /\ legacy' = ~legacy
  /\ UNCHANGED <<slotVars, procVars, files, auto, ini, tmp, updVars, history>>

(* Another download folder. *)
SetFolder(f) ==
  /\ Idle
  /\ tmp' = f
  /\ UNCHANGED <<slotVars, procVars, files, auto, legacy, ini, updVars, history>>

(* SaveOptions writes the INI; LoadOptions first resets both settings to *)
(* their defaults. "Reset" sets the defaults and goes on to save.        *)
SaveSettings ==
  /\ Idle
  /\ \/ ini' = auto /\ UNCHANGED tmp
     \/ ini' = TRUE /\ tmp' = DefaultFolder
  /\ auto' = TRUE
  /\ legacy' = FALSE
  /\ Goto(UI, "load")
  /\ UNCHANGED <<slotVars, at, arg, out, ret, files, updVars, history>>

(* ini_parse restores auto_install; the key SaveOptions writes for the   *)
(* other setting is not the one print_ini_info reads.                    *)
SettingsReloaded ==
  /\ pc[UI] = "load"
  /\ auto' = ini
  /\ ini' = FALSE
  /\ Goto(UI, "none")
  /\ UNCHANGED <<slotVars, at, arg, out, ret, files, legacy, tmp, updVars, history>>

-----------------------------------------------------------------------------
(* A download thread: start_routine2. *)

(* status = RUNNING, then dst is copied into the arguments of the call. *)
BeginDownload(w) ==
  /\ pc[w] = "created"
  /\ SetStatus(at[w], RUNNING)
  /\ arg' = [arg EXCEPT ![w] = dst[at[w]]]
  /\ Goto(w, "begun")
  /\ UNCHANGED <<g_idx, dst, misread, at, out, ret, files, setVars, updVars, history>>

(* dl_from_url_v3_threaded writes both back. *)
EnterDownload(w) ==
  /\ pc[w] = "begun"
  /\ dst' = [dst EXCEPT ![at[w]] = arg[w]]
  /\ SetStatus(at[w], RUNNING)
  /\ arg' = [arg EXCEPT ![w] = NoItem]
  /\ Goto(w, "entered")
  /\ UNCHANGED <<g_idx, misread, at, out, ret, files, setVars, updVars, history>>

(* start_routine: unlink the path, ... *)
UnlinkOutput(w) ==
  /\ pc[w] = "entered"
  /\ files' = UnlinkedFiles(dst[at[w]])
  /\ out' = UnlinkedOut(dst[at[w]])
  /\ Goto(w, "unlinked")
  /\ UNCHANGED <<slotVars, at, arg, ret, setVars, updVars, history>>

(* ... create the file, whatever has appeared there meanwhile, or fail to. *)
(* Without a curl handle it goes on to report success, with no file.       *)
OpenOutput(w) ==
  /\ pc[w] = "unlinked"
  /\ LET f == dst[at[w]] IN
     \/ /\ f # NoItem
        /\ files' = [files EXCEPT ![f] = "partial"]
        /\ out' = [UnlinkedOut(f) EXCEPT ![w] = f]
        /\ Goto(w, "transfer")
        /\ UNCHANGED ret
     \/ /\ \E e \in {0} \cup IF f = NoItem THEN {ENOENT} ELSE DlErrors :
             ret' = [ret EXCEPT ![w] = e]
        /\ Goto(w, "ret")
        /\ UNCHANGED <<files, out>>
  /\ UNCHANGED <<slotVars, at, arg, setVars, updVars, history>>

(* Mutant: write_data holds back every transfer that is not RUNNING. *)
EndTransferRunning(w) ==
  /\ pc[w] = "transfer"
  /\ status[at[w]] = RUNNING
  /\ files' = IF out[w] = NoItem THEN files ELSE [files EXCEPT ![out[w]] = "full"]
  /\ out' = [out EXCEPT ![w] = NoItem]
  /\ Goto(w, "ret")
  /\ UNCHANGED <<slotVars, at, arg, ret, setVars, updVars, history>>

(* curl_easy_perform ends. A paused transfer gets no data, a cancelled   *)
(* one is aborted from my_progress_func unless it has just finished. Two *)
(* threads of one slot share dlfd: what the one closes the other writes.  *)
EndTransfer(w) ==
  /\ pc[w] = "transfer"
  /\ \/ /\ status[at[w]] # PAUSED
        /\ ret' = [ret EXCEPT ![w] = 0]
        /\ \E c \in IF at[w] \in overrun THEN {"partial", "full"} ELSE {"full"} :
             files' = IF out[w] = NoItem THEN files ELSE [files EXCEPT ![out[w]] = c]
     \/ /\ status[at[w]] = CANCELED
        /\ ret' = [ret EXCEPT ![w] = ABORTED]
        /\ UNCHANGED files
  /\ out' = [out EXCEPT ![w] = NoItem]
  /\ Goto(w, "ret")
  /\ UNCHANGED <<slotVars, at, arg, setVars, updVars, history>>

(* The connection or the disk fails, in whatever state the transfer is.   *)
BreakTransfer(w) ==
  /\ pc[w] = "transfer"
  /\ \E e \in DlErrors : ret' = [ret EXCEPT ![w] = e]
  /\ out' = [out EXCEPT ![w] = NoItem]
  /\ Goto(w, "ret")
  /\ UNCHANGED <<slotVars, at, arg, files, setVars, updVars, history>>

(* The thread goes on to install the package ... *)
AutoInstall(w) ==
  /\ pc[w] = "ret"
  /\ ret[w] = 0 /\ auto
  /\ Goto(w, "pkg")
  /\ UNCHANGED <<slotVars, at, arg, out, ret, files, setVars, updVars, history>>

(* Mutant: a failed download does not store its error. *)
EndDownloadSilently(w) ==
  /\ pc[w] = "ret"
  /\ ~(ret[w] = 0 /\ auto)
  /\ status' = IF ret[w] = 0 THEN [status EXCEPT ![at[w]] = COMPLETED] ELSE status
  /\ ret' = [ret EXCEPT ![w] = 0]
  /\ Leave(w)
  /\ UNCHANGED <<g_idx, dst, misread, arg, out, files, setVars, updVars, history>>

(* Mutant: a download that ended is taken for one that succeeded. *)
EndDownloadUnchecked(w) ==
  /\ pc[w] = "ret"
  /\ ~(ret[w] = 0 /\ auto)
  /\ SetStatus(at[w], COMPLETED)
  /\ ret' = [ret EXCEPT ![w] = 0]
  /\ Leave(w)
  /\ UNCHANGED <<g_idx, dst, misread, arg, out, files, setVars, updVars, history>>

(* ... or leaves its result in the slot and ends. *)
EndDownload(w) ==
  /\ pc[w] = "ret"
  /\ ~(ret[w] = 0 /\ auto)
  /\ SetStatus(at[w], IF ret[w] = 0 THEN COMPLETED ELSE ret[w])
  /\ misread' = IF ret[w] \in Active THEN misread \cup {at[w]} ELSE misread
  /\ ret' = [ret EXCEPT ![w] = 0]
  /\ Leave(w)
  /\ UNCHANGED <<g_idx, dst, arg, out, files, setVars, updVars, history>>

-----------------------------------------------------------------------------
(* pkginstall, run by a download thread or by the UI thread. *)

PkgPath(p)     == IF p = UI THEN arg[UI] ELSE dst[at[p]]
TaskStarted(p) == Exists(PkgPath(p))

(* The caller reads auto_install for the argument: a download thread for   *)
(* the second time.                                                        *)
BeginInstall(p) ==
  /\ pc[p] = "pkg"
  /\ SetStatus(at[p], INSTALLING_APP)
  /\ Goto(p, IF auto THEN "check" ELSE "offer")
  /\ UNCHANGED <<g_idx, dst, misread, at, arg, out, ret, files, setVars, updVars, history>>

(* PKG_ERROR: -1 when the file or a service is missing, else the call's *)
(* error. The slot keeps its item.                                       *)
InstallFails(p) ==
  /\ pc[p] \in {"check", "offer"}
  /\ \E e \in {CANCELED} \cup SysErrors :
       /\ e \in SysErrors => Exists(PkgPath(p))
       /\ SetStatus(at[p], e)
  /\ arg' = [arg EXCEPT ![p] = NoItem]
  /\ ret' = [ret EXCEPT ![p] = 0]
  /\ Leave(p)
  /\ UNCHANGED <<g_idx, dst, misread, out, files, setVars, updVars, history>>

(* Auto install: install_prog is called in this thread. *)
InstallInline(p) ==
  /\ pc[p] = "check" /\ TaskStarted(p)
  /\ Goto(p, "inst")
  /\ UNCHANGED <<slotVars, at, arg, out, ret, files, setVars, updVars, history>>

(* "Show install progress": a thread of its own watches the install. *)
InstallInThread(p, t) ==
  /\ pc[p] = "offer" /\ TaskStarted(p)
  /\ legacy
  /\ pc[t] = "none"
  /\ pc' = [pc EXCEPT ![p] = "left", ![t] = "inst"]
  /\ at' = [at EXCEPT ![t] = at[p]]
  /\ UNCHANGED <<slotVars, arg, out, ret, files, setVars, updVars, history>>

(* Neither: the console installs in the background, the slot is done. *)
InstallInBackground(p) ==
  /\ pc[p] = "offer" /\ TaskStarted(p)
  /\ ~legacy
  /\ SetStatus(at[p], READY)
  /\ g_idx' = [g_idx EXCEPT ![at[p]] = NoItem]
  /\ Goto(p, "left")
  /\ UNCHANGED <<dst, misread, at, arg, out, ret, files, setVars, updVars, history>>

-----------------------------------------------------------------------------
(* install_prog. *)

BeginProgress(p) ==
  /\ pc[p] = "inst"
  /\ SetStatus(at[p], INSTALLING_APP)
  /\ Goto(p, "poll")
  /\ UNCHANGED <<g_idx, dst, misread, at, arg, out, ret, files, setVars, updVars, history>>

(* The polling loop ends at 99 % or with an error. *)
EndProgress(p) ==
  /\ pc[p] = "poll"
  /\ \E v \in {COMPLETED} \cup SysErrors : SetStatus(at[p], v)
  /\ Goto(p, "clean")
  /\ UNCHANGED <<g_idx, dst, misread, at, arg, out, ret, files, setVars, updVars, history>>

(* Mutant: the counter is lowered without a look at its value. *)
SettleUnbounded(i) ==
  /\ updatable' = updatable \ {i}
  /\ \/ /\ i \in updatable \cup {NoItem}
        /\ updates_counter' = updates_counter - 1
     \/ /\ i \notin updatable
        /\ UNCHANGED updates_counter

(* Mutant: every install lowers the counter. *)
SettleAlways(i) ==
  /\ updatable' = updatable \ {i}
  /\ updates_counter' = IF updates_counter > 0 THEN updates_counter - 1 ELSE 0

(* The item's update is done with. With g_idx = -1, games[-1] is read:   *)
(* what lies there may or may not look like UPDATE_FOUND.                *)
SettleUpdate(i) ==
  /\ updatable' = updatable \ {i}
  /\ \/ /\ i \in updatable \cup {NoItem}
        /\ updates_counter' = IF updates_counter > 0 THEN updates_counter - 1 ELSE 0
     \/ /\ i \notin updatable
        /\ UNCHANGED updates_counter

CleanUp(p) ==
  /\ pc[p] = "clean"
  /\ SettleUpdate(g_idx[at[p]])
  /\ g_idx' = [g_idx EXCEPT ![at[p]] = NoItem]
  /\ IF p \in Installers THEN Leave(p) ELSE Goto(p, "tail") /\ UNCHANGED at
  /\ UNCHANGED <<status, dst, misread, arg, out, ret, files, setVars, history>>

(* Back in pkginstall: dst is cleared, whosever it is by now, and the      *)
(* caller ends.                                                             *)
EndInstall(p) ==
  /\ pc[p] \in {"tail", "left"}
  /\ dst' = [dst EXCEPT ![at[p]] = NoItem]
  /\ arg' = [arg EXCEPT ![p] = NoItem]
  /\ Leave(p)
  /\ UNCHANGED <<status, g_idx, misread, out, ret, files, setVars, updVars, history>>

-----------------------------------------------------------------------------
Command(i) ==
  \/ PauseDownload(i) \/ ResumeDownload(i) \/ CancelDownload(i)
  \/ DispatchDownload(i) \/ InstallDownloaded(i)

Settings ==
  \/ ToggleAutoInstall \/ ToggleLegacyInstall \/ SaveSettings
  \/ \E f \in Folders : SetFolder(f)

(* What the UI thread does before it can take another command. *)
FinishCall ==
  \/ \E w \in Workers : HeadSucceeds(w)
  \/ HeadFails
  \/ SettingsReloaded

Download(w) ==
  \/ BeginDownload(w) \/ EnterDownload(w) \/ UnlinkOutput(w) \/ OpenOutput(w)
  \/ EndTransfer(w) \/ AutoInstall(w) \/ EndDownload(w)

Install(p) ==
  \/ BeginInstall(p) \/ InstallFails(p) \/ InstallInline(p)
  \/ (\E t \in Installers : InstallInThread(p, t)) \/ InstallInBackground(p)
  \/ BeginProgress(p) \/ EndProgress(p) \/ CleanUp(p) \/ EndInstall(p)

Next ==
  \/ \E i \in Items : Command(i)
  \/ Settings
  \/ FinishCall
  \/ \E w \in Workers : Download(w) \/ BreakTransfer(w)
  \/ \E p \in Procs : Install(p)

Spec == Init /\ [][Next]_vars

(* The scheduler runs every thread, servers and the console answer every *)
(* request, and a transfer that is not paused ends. Buttons are not fair. *)
Fairness ==
  /\ WF_vars(FinishCall)
  /\ \A w \in Workers : WF_vars(Download(w))
  /\ \A p \in Procs : WF_vars(Install(p))

FairSpec == Spec /\ Fairness

-----------------------------------------------------------------------------
(* Properties. *)

(* Two slots never serve the same item: what lets thread_find_by_item and *)
(* every command on an item speak of "the" slot of the item.              *)
UniqueItem ==
  \A r, s \in Slots : g_idx[r] = g_idx[s] /\ g_idx[r] # NoItem => r = s

(* What thread p at l may find in the status of a slot nobody took from it. *)
Expected(p, l) ==
  {v \in StatusValues :
     /\ l = "head" => v \in Free
     /\ l = "created" => v = PENDING
     /\ l \in {"begun", "entered", "unlinked", "transfer", "ret"} => v \in {RUNNING, PAUSED}
     /\ l = "pkg" => v \in IF p = UI THEN {COMPLETED} ELSE {RUNNING, PAUSED}
     /\ l \in {"check", "offer", "inst", "poll"} => v = INSTALLING_APP
     /\ l \in {"clean", "tail"} => v \in {COMPLETED} \cup SysErrors}

(* The UI gives a slot a new download or install only when the thread that  *)
(* was on it is done with it, although nothing but the status tells it so.   *)
(* Only a cancel breaks that (its slot is in overrun from then on), and      *)
(* the two stores that come too late in pkginstall: COMPLETED before the     *)
(* item is given up, and READY before dst is cleared.                        *)
ReusesFinishedSlots ==
  [][\A s \in Slots :
       at[UI] = NoSlot /\ at'[UI] = s
         => s \in overrun \/ \A p \in Procs : at[p] = s => pc[p] \in {"clean", "left"}]_vars

(* The status of a slot says what its thread is doing, so the buttons the  *)
(* status enables are the ones the thread can obey.                        *)
StatusTruthful ==
  \A s \in Slots \ overrun : \A p \in Procs : at[p] = s => status[s] \in Expected(p, pc[p])

(* A slot shown as busy has a thread that will change that, or it is left  *)
(* over from a download whose error is the number of a busy status, as     *)
(* ENOENT is; and then it still has its item, by which Cancel frees it.    *)
NoGhost ==
  \A s \in Slots \ overrun :
    status[s] \in Active =>
      \/ \E p \in Procs : at[p] = s /\ pc[p] # "left"
      \/ s \in misread /\ g_idx[s] # NoItem

(* The file given to the installer is one whose transfer ended well,       *)
(* unless some slot was taken over: no other download can have truncated   *)
(* or replaced it, in whatever folder it was made.                         *)
InstallWhole ==
  overrun = {} =>
    \A p \in Procs : pc[p] \in {"check", "offer"} /\ TaskStarted(p)
                      => files[PkgPath(p)] = "full"

(* The badge counts the games that still have an update, however installs  *)
(* finish and interleave, unless some slot was taken over.                 *)
BadgeCounts == overrun = {} => updates_counter = Cardinality(updatable)

Protocol == INSTANCE Pool WITH
  ENTRIES <- ENTRIES, Items <- Items, NoItem <- NoItem,
  status <- status, g_idx <- g_idx,
  Reports <- {CANCELED, RUNNING, COMPLETED, INSTALLING_APP, ABORTED, ENOENT}
               \cup DlErrors \cup SysErrors

(* Whatever the threads do, and whomever a cancel or a reuse catches, the  *)
(* slots keep their protocol: an item gets a slot only while no other slot *)
(* serves it, keeps it until an install or a cancel is over, and nothing   *)
(* but a running transfer is paused.                                       *)
PoolProtocol == Protocol!PoolSpec

(* A thread that runs on leaves: neither a cancel, nor a reused slot, nor  *)
(* an error leaves a thread behind for ever. Only a pause may hold it.     *)
ThreadsEnd ==
  \A p \in Procs :
    pc[p] # "none"
      ~> (pc[p] = "none" \/ \E s \in Slots : at[p] = s /\ status[s] = PAUSED)

(* GLES2_q.cpp:498, "Full Queue, please wait!": when no slot is free, some *)
(* slot has a thread to wait for, or an item whose command can free it.    *)
FullQueueDrains ==
  (\A s \in Slots : status[s] \notin Free)
    => \E s \in Slots : Attended(s) \/ g_idx[s] # NoItem
=============================================================================
