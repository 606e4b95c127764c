------------------------------ MODULE Database ------------------------------
(***************************************************************************)
(* The Store's database: store.db in the app's folder, brought up to date  *)
(* when the Store starts and every five minutes after that, and the one    *)
(* that Settings downloads from another server for the next start. A new   *)
(* database in the background restarts the Store. The Store may be stopped *)
(* between any two steps; files stay.                                      *)
(***************************************************************************)
EXTENDS Naturals

CONSTANTS
  CDNs, Default,  (* servers, and the one of a Store without an INI        *)
  MaxVersion,     (* bound: databases each server publishes                *)
  MaxFailures,    (* bound: stops and failed requests                      *)
  MaxPresses,     (* bound: what the user does in Settings                 *)
  None, Broken    (* a file that is not there, or is not whole             *)

Databases == [cdn : CDNs, n : 1 .. MaxVersion]
Contents  == Databases \cup {None, Broken}

ASSUME DatabaseAssumption ==
  /\ Default \in CDNs /\ MaxVersion \in Nat \ {0}
  /\ MaxFailures \in Nat /\ MaxPresses \in Nat
  /\ None # Broken /\ None \notin Databases /\ Broken \notin Databases
  /\ None \notin CDNs

VARIABLES
  pc,          (* where the Store is                                       *)
  up,          (* where its update thread is                               *)
  ui,          (* what Settings is doing                                   *)
  store_db,    (* store.db                                                 *)
  downloaded,  (* store_downloaded.db                                      *)
  ini,         (* CDN in settings.ini; None when it is empty               *)
  cdn,         (* set.opt[CDN_URL]                                         *)
  home,        (* the CDN that the update thread took when it began        *)
  wanted,      (* the CDN that is being tried in Settings                  *)
  db,          (* the database that was loaded, in memory                  *)
  server,      (* the newest database of each server                       *)
  began,       (* history: the server's newest when the Store began        *)
  failures, presses  (* history                                            *)

files    == <<store_db, downloaded, ini>>
memory   == <<cdn, home, wanted, db>>
threads  == <<pc, up, ui>>
history  == <<began, failures, presses>>
vars     == <<threads, files, memory, server, history>>

Newest(c) == [cdn |-> c, n |-> server[c]]

TypeOK ==
  /\ pc \in {"off", "options", "copy?", "copy", "unlink", "check", "fetch", "load", "run"}
  /\ up \in {"none", "check", "fetch", "sleep"}
  /\ ui \in {"idle", "fetch", "discard", "save"}
  /\ {store_db, downloaded, db} \subseteq Contents
  /\ ini \in CDNs \cup {None}
  /\ {cdn, home, wanted} \subseteq CDNs
  /\ server \in [CDNs -> 1 .. MaxVersion]
  /\ began \in 1 .. MaxVersion
  /\ failures \in 0 .. MaxFailures /\ presses \in 0 .. MaxPresses

Init ==
  /\ pc = "off" /\ up = "none" /\ ui = "idle"
  /\ store_db = None /\ downloaded = None
  /\ ini \in CDNs
  /\ cdn = Default /\ home = Default /\ wanted = Default
  /\ db = None
  /\ server = [c \in CDNs |-> 1]
  /\ began = 1
  /\ failures = 0 /\ presses = 0

(* The process is gone, with all its threads. *)
Exit == pc' = "off" /\ up' = "none" /\ ui' = "idle"

-----------------------------------------------------------------------------
(* Starting: initGL_for_the_store. *)

Boot(from, to) == pc = from /\ pc' = to /\ UNCHANGED <<up, ui>>

Start ==
  /\ Boot("off", "options")
  /\ db' = None
  /\ UNCHANGED <<files, cdn, home, wanted, server, history>>

(* Mutant: no default for a setting that is not there. *)
OptionsNoDefault ==
  /\ Boot("options", "copy?")
  /\ cdn' = ini
  /\ began' = IF ini = None THEN 1 ELSE server[ini]
  /\ UNCHANGED <<files, home, wanted, db, server, failures, presses>>

(* LoadOptions; without an INI, or with an empty one, the default server. *)
Options ==
  /\ Boot("options", "copy?")
  /\ cdn' = IF ini = None THEN Default ELSE ini
  /\ began' = server[cdn']
  /\ UNCHANGED <<files, home, wanted, db, server, failures, presses>>

(* A database that Settings downloaded takes the place of store.db: unlink *)
(* and open ...                                                            *)
UseDownloaded ==
  /\ pc = "copy?"
  /\ pc' = IF downloaded = None THEN "check" ELSE "copy"
  /\ store_db' = IF downloaded = None THEN store_db ELSE Broken
  /\ UNCHANGED <<up, ui, downloaded, ini, memory, server, history>>

(* ... copy ... *)
CopyDownloaded ==
  /\ Boot("copy", "unlink")
  /\ store_db' = downloaded
  /\ UNCHANGED <<downloaded, ini, memory, server, history>>

(* ... and unlink the other one. *)
UnlinkDownloaded ==
  /\ Boot("unlink", "check")
  /\ downloaded' = None
  /\ UNCHANGED <<store_db, ini, memory, server, history>>

(* Mutant: a database that is there is taken for one that is current. *)
CheckPresent ==
  /\ pc = "check"
  /\ pc' = IF store_db # None THEN "load" ELSE "fetch"
  /\ store_db' = IF store_db # None THEN store_db ELSE Broken
  /\ UNCHANGED <<up, ui, downloaded, ini, memory, server, history>>

(* check_store_from_url: the file's hash against the server's. A download   *)
(* opens the file for writing.                                              *)
Check ==
  /\ pc = "check"
  /\ pc' = IF store_db = Newest(cdn) THEN "load" ELSE "fetch"
  /\ store_db' = IF store_db = Newest(cdn) THEN store_db ELSE Broken
  /\ UNCHANGED <<up, ui, downloaded, ini, memory, server, history>>

Fetch ==
  /\ Boot("fetch", "load")
  /\ store_db' = Newest(cdn)
  /\ UNCHANGED <<downloaded, ini, memory, server, history>>

(* SQL_Load_DB reads the file into memory; the update thread begins. *)
Load ==
  /\ pc = "load" /\ pc' = "run"
  /\ up' = "check" /\ ui' = "idle"
  /\ db' = store_db
  /\ home' = cdn
  /\ UNCHANGED <<files, cdn, wanted, server, history>>

-----------------------------------------------------------------------------
(* The update thread: check_for_updates. *)

Update(from, to) == pc = "run" /\ up = from /\ up' = to /\ UNCHANGED <<pc, ui>>

(* Mutant: the update thread asks the default server. *)
UpdateCheckDefault ==
  /\ pc = "run" /\ up = "check"
  /\ up' = IF store_db = Newest(Default) THEN "sleep" ELSE "fetch"
  /\ store_db' = IF store_db = Newest(Default) THEN store_db ELSE Broken
  /\ UNCHANGED <<pc, ui, downloaded, ini, memory, server, history>>

UpdateCheck ==
  /\ pc = "run" /\ up = "check"
  /\ up' = IF store_db = Newest(home) THEN "sleep" ELSE "fetch"
  /\ store_db' = IF store_db = Newest(home) THEN store_db ELSE Broken
  /\ UNCHANGED <<pc, ui, downloaded, ini, memory, server, history>>

(* The new database is there: restart. *)
UpdateFetch ==
  /\ pc = "run" /\ up = "fetch"
  /\ store_db' = Newest(home)
  /\ Exit
  /\ UNCHANGED <<downloaded, ini, memory, server, history>>

Wake ==
  /\ Update("sleep", "check")
  /\ UNCHANGED <<files, memory, server, history>>

-----------------------------------------------------------------------------
(* Settings, in the UI thread. *)

Settle(from, to) == pc = "run" /\ ui = from /\ ui' = to /\ UNCHANGED <<pc, up>>

Press(to) ==
  /\ Settle("idle", to)
  /\ presses < MaxPresses
  /\ presses' = presses + 1

(* Another server: its database is downloaded first. *)
TryCDN(c) ==
  /\ Press("fetch")
  /\ wanted' = c
  /\ downloaded' = Broken
  /\ UNCHANGED <<store_db, ini, cdn, home, db, server, began, failures>>

(* Mutant: the other server's database takes the place of store.db at once. *)
UseCDNAtOnce ==
  /\ Settle("fetch", "idle")
  /\ store_db' = Newest(wanted) /\ downloaded' = None
  /\ cdn' = wanted
  /\ UNCHANGED <<ini, home, wanted, db, server, history>>

(* Only then it is the one in use, and only until Save for this run. *)
UseCDN ==
  /\ Settle("fetch", "idle")
  /\ downloaded' = Newest(wanted)
  /\ cdn' = wanted
  /\ UNCHANGED <<store_db, ini, home, wanted, db, server, history>>

RefuseCDN ==
  /\ Settle("fetch", "discard")
  /\ failures < MaxFailures
  /\ failures' = failures + 1
  /\ UNCHANGED <<files, memory, server, began, presses>>

DiscardDownloaded ==
  /\ Settle("discard", "idle")
  /\ downloaded' = None
  /\ UNCHANGED <<store_db, ini, memory, server, history>>

(* Save empties settings.ini ... *)
Save ==
  /\ Press("save")
  /\ ini' = None
  /\ UNCHANGED <<store_db, downloaded, memory, server, began, failures>>

(* ... and writes it. *)
WriteINI ==
  /\ Settle("save", "idle")
  /\ ini' = cdn
  /\ UNCHANGED <<store_db, downloaded, memory, server, history>>

(* "Reset" is the default server, saved. *)
Reset ==
  /\ Press("save")
  /\ ini' = None
  /\ cdn' = Default
  /\ UNCHANGED <<store_db, downloaded, home, wanted, db, server, began, failures>>

(* "Refresh DB" restarts the Store. *)
RefreshDB ==
  /\ pc = "run" /\ ui = "idle"
  /\ presses < MaxPresses
  /\ presses' = presses + 1
  /\ Exit
  /\ UNCHANGED <<files, memory, server, began, failures>>

-----------------------------------------------------------------------------
(* A request fails and the Store ends with a message, in the background as  *)
(* well; or the Store is closed, or the console stops.                      *)
Stop ==
  /\ pc # "off"
  /\ failures < MaxFailures
  /\ failures' = failures + 1
  /\ Exit
  /\ UNCHANGED <<files, memory, server, began, presses>>

Publish(c) ==
  /\ server[c] < MaxVersion
  /\ server' = [server EXCEPT ![c] = @ + 1]
  /\ UNCHANGED <<threads, files, memory, history>>

Starting ==
  \/ Start \/ Options \/ UseDownloaded \/ CopyDownloaded \/ UnlinkDownloaded
  \/ Check \/ Fetch \/ Load

Updating == UpdateCheck \/ UpdateFetch \/ Wake

Setting ==
  \/ \E c \in CDNs : TryCDN(c)
  \/ UseCDN \/ RefuseCDN \/ DiscardDownloaded \/ Save \/ WriteINI \/ Reset \/ RefreshDB

Next == Starting \/ Updating \/ Setting \/ Stop \/ \E c \in CDNs : Publish(c)

Spec == Init /\ [][Next]_vars

(* The Store is started whenever it is not running, its threads are        *)
(* scheduled, and servers answer except for the failures counted.          *)
FairSpec ==
  /\ Spec
  /\ WF_vars(Starting)
  /\ WF_vars(Updating)
  /\ WF_vars(UseCDN \/ DiscardDownloaded \/ WriteINI)

-----------------------------------------------------------------------------
(* Properties. *)

(* What the Store shows is a whole database of the server it is set to, and *)
(* at least what the server had when the Store began: whichever file was    *)
(* cut off, copied or left over, and from whatever server.                  *)
ShowsCurrent ==
  pc = "run" => /\ db \in Databases
                /\ db.cdn = home /\ began <= db.n

(* The update thread never takes store.db from a server it does not check   *)
(* against: another CDN in Settings waits for the next start.               *)
OneServer ==
  pc = "run" /\ store_db \in Databases => store_db.cdn = home

(* Restarting for a new database comes to an end: once no more is pressed,  *)
(* published or lost, the Store runs and goes on running.                   *)
Settles == <>[](pc = "run")
=============================================================================
