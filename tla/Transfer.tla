------------------------------ MODULE Transfer ------------------------------
(***************************************************************************)
(* One download inside start_routine (http.cpp): libcurl calls write_data  *)
(* and my_progress_func in the download thread, while the UI thread        *)
(* changes the slot's status. Pausing is a handshake of both callbacks     *)
(* with libcurl's own pause flag.                                          *)
(***************************************************************************)
EXTENDS Naturals, Sequences

CONSTANTS
  Pieces,    (* number of buffers the package comes in                      *)
  MaxDrops,  (* bound: how often the server closes a connection early       *)
  Patient    (* the user lets my_progress_func run between two presses,     *)
             (* which libcurl calls at least once a second                  *)

ASSUME TransferAssumption ==
  Pieces \in Nat /\ MaxDrops \in Nat /\ Patient \in BOOLEAN

VARIABLES
  status,    (* dl_arg_t.status, as far as this thread and the UI set it    *)
  running,   (* dl_arg_t.running                                            *)
  paused,    (* dl_arg_t.paused                                             *)
  held,      (* libcurl: receiving is paused on the current handle          *)
  file,      (* the buffers in the output file                              *)
  next,      (* the buffer the connection delivers next                     *)
  pc,        (* where the thread is                                         *)
  result,    (* what start_routine returns                                  *)
  flaw,      (* history: what start_routine does not notice: that it got   *)
             (* no "handle" to begin with, that the last "flush" failed     *)
  drops,     (* history: connections closed early                           *)
  seen,      (* history: my_progress_func has run since the last press      *)
  late       (* history: buffers written since the last pause or cancel    *)

slotVars == <<status, running, paused>>
curlVars == <<held, next>>
history  == <<drops, seen, late>>
vars     == <<slotVars, curlVars, file, pc, result, flaw, history>>

Results == {"none", "ok", "aborted", "error"}

TypeOK ==
  /\ status \in {"RUNNING", "PAUSED", "CANCELED"}
  /\ running \in BOOLEAN /\ paused \in BOOLEAN /\ held \in BOOLEAN /\ seen \in BOOLEAN
  /\ file \in Seq(1 .. Pieces)
  /\ next \in 1 .. Pieces + 1
  /\ pc \in {"open", "perform", "write", "progress", "partial", "ended"}
  /\ result \in Results
  /\ flaw \in {"none", "handle", "flush"}
  /\ drops \in 0 .. MaxDrops
  /\ late \in Nat
  /\ result = "none" <=> pc # "ended"

(* The flags are whatever the slot's last download left in them. *)
Init ==
  /\ status = "RUNNING"
  /\ running \in BOOLEAN /\ paused = ~running
  /\ held = FALSE
  /\ file = <<>>
  /\ next = 1
  /\ pc = "open"
  /\ result = "none"
  /\ flaw = "none"
  /\ drops = 0
  /\ seen = TRUE
  /\ late = 0

-----------------------------------------------------------------------------
(* The download thread. *)

(* unlink and fopen, and curl_easy_perform on a new handle. *)
Open ==
  /\ pc = "open"
  /\ file' = <<>>
  /\ next' = 1
  /\ held' = FALSE
  /\ pc' = "perform"
  /\ UNCHANGED <<slotVars, result, flaw, history>>

(* The thread ends, and fclose writes what is still buffered: how much of it *)
(* got to the disk nobody asks.                                              *)
End(r) ==
  /\ pc' = "ended" /\ result' = r
  /\ \E n \in 0 .. Len(file) :
       /\ file' = SubSeq(file, 1, n)
       /\ flaw' = IF n = Len(file) THEN "none" ELSE "flush"

(* fopen fails: errno is returned. *)
OpenFails ==
  /\ pc = "open"
  /\ End("error")
  /\ UNCHANGED <<slotVars, curlVars, history>>

(* There is no handle to begin with: all the rest is passed over, and 0 is *)
(* returned.                                                               *)
NoFirstHandle ==
  /\ pc = "open"
  /\ pc' = "ended" /\ result' = "ok" /\ flaw' = "handle"
  /\ UNCHANGED <<slotVars, curlVars, file, history>>

Begin == Open \/ OpenFails \/ NoFirstHandle

(* Mutant: write_data does not look at the status. *)
ReceiveAnyway ==
  /\ pc = "perform"
  /\ ~held /\ next <= Pieces
  /\ pc' = "write"
  /\ UNCHANGED <<slotVars, held, next, file, result, flaw, history>>

(* A buffer arrives: write_data looks at the status. A paused transfer     *)
(* refuses the buffer, and libcurl keeps it and stops receiving.           *)
Receive ==
  /\ pc = "perform"
  /\ ~held /\ next <= Pieces
  /\ IF status = "PAUSED" THEN held' = TRUE  /\ pc' = "progress"
                          ELSE held' = held  /\ pc' = "write"
  /\ UNCHANGED <<slotVars, next, file, result, flaw, history>>

(* ... and writes the buffer; libcurl then calls the progress function. *)
Write ==
  /\ pc = "write"
  /\ file' = Append(file, next)
  /\ next' = next + 1
  /\ late' = IF status = "RUNNING" THEN late ELSE late + 1
  /\ pc' = "progress"
  /\ UNCHANGED <<slotVars, held, result, flaw, drops, seen>>

(* Mutant: the failed write is noted, and the transfer goes on. *)
WriteFailsUnnoticed ==
  /\ pc = "write"
  /\ pc' = "progress" /\ result' = "error"
  /\ UNCHANGED <<slotVars, curlVars, file, flaw, history>>

(* A short write makes curl_easy_perform fail. *)
WriteFails ==
  /\ pc = "write"
  /\ End("error")
  /\ UNCHANGED <<slotVars, curlVars, history>>

(* Nothing arrives for a while. *)
Tick ==
  /\ pc = "perform"
  /\ pc' = "progress"
  /\ UNCHANGED <<slotVars, curlVars, file, result, flaw, history>>

(* Mutant: the cancelled transfer is not aborted. *)
ProgressCanceledGoesOn ==
  /\ pc = "progress"
  /\ status = "CANCELED"
  /\ pc' = "perform"
  /\ seen' = TRUE
  /\ UNCHANGED <<slotVars, curlVars, file, result, flaw, drops, late>>

(* my_progress_func, CANCELED: the transfer is aborted. *)
ProgressCanceled ==
  /\ pc = "progress"
  /\ status = "CANCELED"
  /\ End("aborted")
  /\ seen' = TRUE
  /\ UNCHANGED <<slotVars, curlVars, drops, late>>

(* PAUSED: CURLPAUSE_ALL, once. *)
ProgressPaused ==
  /\ pc = "progress"
  /\ status = "PAUSED"
  /\ held' = IF paused THEN held ELSE TRUE
  /\ paused' = TRUE
  /\ running' = IF paused THEN running ELSE FALSE
  /\ pc' = "perform"
  /\ seen' = TRUE
  /\ UNCHANGED <<status, next, file, result, flaw, drops, late>>

(* Mutant: a resumed transfer is not continued. *)
ProgressRunningIdle ==
  /\ pc = "progress"
  /\ status = "RUNNING"
  /\ running' = TRUE
  /\ paused' = IF running THEN paused ELSE FALSE
  /\ pc' = "perform"
  /\ seen' = TRUE
  /\ UNCHANGED <<status, held, next, file, result, flaw, drops, late>>

(* RUNNING: CURLPAUSE_CONT, unless the flag says that it runs already. *)
ProgressRunning ==
  /\ pc = "progress"
  /\ status = "RUNNING"
  /\ held' = IF running THEN held ELSE FALSE
  /\ running' = TRUE
  /\ paused' = IF running THEN paused ELSE FALSE
  /\ pc' = "perform"
  /\ seen' = TRUE
  /\ UNCHANGED <<status, next, file, result, flaw, drops, late>>

Progress == ProgressCanceled \/ ProgressPaused \/ ProgressRunning

(* curl_easy_perform returns CURLE_OK: everything announced has arrived. *)
Finish ==
  /\ pc = "perform"
  /\ ~held /\ next = Pieces + 1
  /\ End("ok")
  /\ UNCHANGED <<slotVars, curlVars, history>>

(* The server closes early: CURLE_PARTIAL_FILE. *)
Drop ==
  /\ pc = "perform"
  /\ ~held /\ next <= Pieces
  /\ drops < MaxDrops
  /\ drops' = drops + 1
  /\ pc' = "partial"
  /\ UNCHANGED <<slotVars, curlVars, file, result, flaw, seen, late>>

(* Any other CURLcode. *)
Break ==
  /\ pc = "perform"
  /\ End("error")
  /\ UNCHANGED <<slotVars, curlVars, history>>

(* Mutant: the range is the one before the last buffer was written. *)
ReconnectStale ==
  /\ pc = "partial"
  /\ next' = IF Len(file) = 0 THEN 1 ELSE Len(file)
  /\ held' = FALSE
  /\ pc' = "perform"
  /\ UNCHANGED <<slotVars, file, result, flaw, history>>

(* Resume_loopback: a new handle asks for the range from ftell on. *)
Reconnect ==
  /\ pc = "partial"
  /\ next' = Len(file) + 1
  /\ held' = FALSE
  /\ pc' = "perform"
  /\ UNCHANGED <<slotVars, file, result, flaw, history>>

(* ... or there is no new handle, and CURLE_PARTIAL_FILE is returned. *)
NoHandle ==
  /\ pc = "partial"
  /\ End("error")
  /\ UNCHANGED <<slotVars, curlVars, history>>

Thread ==
  \/ Begin \/ Receive \/ Write \/ WriteFails \/ Tick \/ Progress
  \/ Finish \/ Drop \/ Break \/ Reconnect \/ NoHandle

-----------------------------------------------------------------------------
(* The UI thread: X_action_dispatch. *)

Press(s) ==
  /\ pc # "ended"
  /\ Patient => seen
  /\ status' = s
  /\ seen' = FALSE
  /\ late' = 0
  /\ UNCHANGED <<running, paused, curlVars, file, pc, result, flaw, drops>>

Pause  == status = "RUNNING" /\ Press("PAUSED")
Resume == status = "PAUSED" /\ Press("RUNNING")
Cancel == status \in {"RUNNING", "PAUSED"} /\ Press("CANCELED")

Buttons == Pause \/ Resume \/ Cancel

Next == Thread \/ Buttons

Spec == Init /\ [][Next]_vars

(* The download thread is scheduled; data the server owes arrives, however *)
(* often libcurl only ticks; and libcurl calls the progress function.      *)
Fairness ==
  /\ WF_vars(Begin \/ Write \/ Progress \/ Reconnect)
  /\ WF_vars(Tick)
  /\ SF_vars(Receive \/ Finish)

FairSpec == Spec /\ Fairness

-----------------------------------------------------------------------------
(* Properties. *)

(* Pausing, resuming, lost connections and left-over flags never show in    *)
(* the file: it is delivered in order, and success is reported only when    *)
(* the whole package was written, of which the closing flush may yet lose   *)
(* the end, or when there was no handle to begin with.                      *)
Promise == INSTANCE Delivery WITH
  file <- file, result <- result, flaw <- flaw, Pieces <- Pieces
Delivers == Promise!Spec

(* While it is paused a transfer writes at most one buffer, the one that     *)
(* write_data had let through: a reconnection does not set it going again.   *)
PauseHolds == status = "PAUSED" => late <= 1

(* After a cancel it writes at most one more as well, so the file that the   *)
(* cancel unlinked does not go on growing.                                   *)
CancelStops == status = "CANCELED" => late <= 1

(* ... and it ends, whatever the pause flags were.                          *)
CancelEnds == status = "CANCELED" ~> pc = "ended"

(* A transfer that is not paused ends: a resumed one does not stay held.    *)
ResumeFlows == status = "RUNNING" ~> (pc = "ended" \/ status # "RUNNING")
=============================================================================
