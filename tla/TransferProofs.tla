--------------------------- MODULE TransferProofs ---------------------------
(***************************************************************************)
(* Theorems about Transfer, for a package of any length and any number of  *)
(* lost connections, presses and left-over flags.                          *)
(***************************************************************************)
EXTENDS Transfer, SequenceTheorems, TLAPS

(* The connection stands where the file ends; without that, a step that      *)
(* writes is not the abstract step that delivers the next buffer.            *)
InStep ==
  /\ pc = "open" => file = <<>>
  /\ pc \in {"perform", "write", "progress"} => next = Len(file) + 1
  /\ pc = "write" => next <= Pieces
  /\ Len(file) <= Pieces

(* A paused transfer that has written a buffer takes no other, a cancelled  *)
(* one that has is about to notice.                                         *)
Noticing ==
  /\ status = "RUNNING" => late = 0
  /\ late <= 1
  /\ late = 1 /\ status = "PAUSED" => pc # "write"
  /\ late = 1 /\ status = "CANCELED" => pc \in {"progress", "ended"}

Inv == TypeOK /\ InStep /\ Noticing

LEMMA EmptyFile == <<>> \in Seq(1 .. Pieces) /\ Len(<<>>) = 0
OBVIOUS

(* Closing the file leaves a beginning of it, and notes whether it is all. *)
LEMMA Closing ==
  ASSUME file \in Seq(1 .. Pieces), NEW r, End(r)
  PROVE  /\ pc' = "ended" /\ result' = r
         /\ file' \in Seq(1 .. Pieces) /\ Len(file') <= Len(file)
         /\ \A k \in 1 .. Len(file') : file'[k] = file[k]
         /\ flaw' \in {"none", "flush"}
         /\ flaw' = "none" => Len(file') = Len(file)
<1>1. PICK n \in 0 .. Len(file) :
        file' = SubSeq(file, 1, n) /\ flaw' = IF n = Len(file) THEN "none" ELSE "flush"
  BY DEF End
<1>2. Len(file) \in Nat /\ \A k \in 1 .. n : file[k] \in 1 .. Pieces
  <2>1. Len(file) \in Nat /\ \A k \in 1 .. Len(file) : file[k] \in 1 .. Pieces
    BY ElementOfSeq, LenProperties
  <2> QED
    BY <2>1
<1>3. /\ file' \in Seq(1 .. Pieces) /\ Len(file') = n
      /\ \A k \in 1 .. n : file'[k] = file[k]
  <2>1. /\ SubSeq(file, 1, n) \in Seq(1 .. Pieces)
        /\ Len(SubSeq(file, 1, n)) = IF 1 <= n THEN n - 1 + 1 ELSE 0
        /\ \A k \in 1 .. n - 1 + 1 : SubSeq(file, 1, n)[k] = file[1 + k - 1]
    BY <1>2, SubSeqProperties
  <2>2. (IF 1 <= n THEN n - 1 + 1 ELSE 0) = n /\ 1 .. n - 1 + 1 = 1 .. n
    BY <1>2
  <2>3. \A k \in 1 .. n : 1 + k - 1 = k
    BY <1>2
  <2> QED
    BY <1>1, <2>1, <2>2, <2>3
<1> QED
  BY <1>1, <1>2, <1>3 DEF End

LEMMA InitInv == Init => Inv
<1> SUFFICES ASSUME Init PROVE Inv
  OBVIOUS
<1> USE EmptyFile, TransferAssumption DEF TransferAssumption
<1>1. running \in BOOLEAN /\ paused \in BOOLEAN /\ held \in BOOLEAN /\ seen \in BOOLEAN
  BY Zenon DEF Init
<1>2. TypeOK
  BY <1>1 DEF Init, TypeOK, Results
<1>3. InStep /\ Noticing
  BY DEF Init, InStep, Noticing
<1> QED
  BY <1>2, <1>3 DEF Inv

LEMMA StepInv == Inv /\ [Next]_vars => Inv'
<1> SUFFICES ASSUME Inv, [Next]_vars PROVE Inv'
  OBVIOUS
<1> USE EmptyFile, TransferAssumption
    DEF TransferAssumption, Inv, TypeOK, InStep, Noticing, Results, slotVars, curlVars,
        history
<1>1. CASE Open
  <2>1. file' \in Seq(1 .. Pieces) /\ Len(file') = 0 /\ next' = 1
    BY <1>1 DEF Open
  <2>2. held' \in BOOLEAN
    BY <1>1, Zenon DEF Open
  <2>3. TypeOK'
    BY <1>1, <2>1, <2>2 DEF Open
  <2> QED
    BY <1>1, <2>1, <2>3 DEF Open
<1>2. CASE Receive
  BY <1>2 DEF Receive
<1>3. CASE Write
  <2>1. next \in 1 .. Pieces /\ file \in Seq(1 .. Pieces) /\ next = Len(file) + 1
    BY <1>3 DEF Write
  <2>2. file' \in Seq(1 .. Pieces) /\ Len(file') = Len(file) + 1
    BY <1>3, <2>1 DEF Write
  <2>3. TypeOK'
    BY <1>3, <2>1, <2>2 DEF Write
  <2>4. InStep'
    BY <1>3, <2>1, <2>2 DEF Write
  <2>5. Noticing'
    BY <1>3 DEF Write
  <2> QED
    BY <2>3, <2>4, <2>5
<1>4. ASSUME NEW r \in Results \ {"none"}, End(r),
             UNCHANGED <<slotVars, next, held, drops, late>>, seen' \in BOOLEAN
      PROVE  Inv'
  <2>1. /\ pc' = "ended" /\ result' = r
        /\ file' \in Seq(1 .. Pieces) /\ Len(file') <= Len(file)
        /\ flaw' \in {"none", "flush"}
    BY <1>4, Closing
  <2>2. Len(file) \in Nat /\ Len(file') \in Nat
    BY <2>1
  <2>3. TypeOK'
    BY <1>4, <2>1
  <2>4. InStep' /\ Noticing'
    BY <1>4, <2>1, <2>2
  <2> QED
    BY <2>3, <2>4
<1>16. CASE WriteFails \/ OpenFails \/ Finish \/ Break \/ NoHandle \/ ProgressCanceled
  <2>1. PICK r \in Results \ {"none"} : End(r)
    BY <1>16 DEF WriteFails, OpenFails, Finish, Break, NoHandle, ProgressCanceled
  <2>2. UNCHANGED <<slotVars, next, held, drops, late>>
    BY <1>16 DEF WriteFails, OpenFails, Finish, Break, NoHandle, ProgressCanceled
  <2>3. seen' \in BOOLEAN
    BY <1>16, Zenon
       DEF WriteFails, OpenFails, Finish, Break, NoHandle, ProgressCanceled
  <2> QED
    BY <1>4, <2>1, <2>2, <2>3
<1>6. CASE NoFirstHandle
  BY <1>6 DEF NoFirstHandle
<1>5. CASE Tick
  BY <1>5 DEF Tick
<1>7. CASE ProgressPaused
  <2>1. held' \in BOOLEAN /\ running' \in BOOLEAN /\ paused' \in BOOLEAN /\ seen' \in BOOLEAN
    BY <1>7, Zenon DEF ProgressPaused
  <2>2. /\ pc = "progress" /\ status # "CANCELED" /\ pc' = "perform"
        /\ UNCHANGED <<status, next, file, result, flaw, drops, late>>
    BY <1>7 DEF ProgressPaused
  <2> QED
    BY <2>1, <2>2
<1>8. CASE ProgressRunning
  <2>1. held' \in BOOLEAN /\ running' \in BOOLEAN /\ paused' \in BOOLEAN /\ seen' \in BOOLEAN
    BY <1>8, Zenon DEF ProgressRunning
  <2>2. /\ pc = "progress" /\ status # "CANCELED" /\ pc' = "perform"
        /\ UNCHANGED <<status, next, file, result, flaw, drops, late>>
    BY <1>8 DEF ProgressRunning
  <2> QED
    BY <2>1, <2>2
<1>10. CASE Drop
  BY <1>10 DEF Drop
<1>12. CASE Reconnect
  <2>1. Len(file) \in Nat
    OBVIOUS
  <2>2. Len(file) <= Pieces
    BY <1>12 DEF Reconnect
  <2>3. held' \in BOOLEAN
    BY <1>12, Zenon DEF Reconnect
  <2> QED
    BY <1>12, <2>1, <2>2, <2>3 DEF Reconnect
<1>14. CASE Buttons
  <2>1. seen' \in BOOLEAN
    BY <1>14, Zenon DEF Buttons, Pause, Resume, Cancel, Press
  <2>2. /\ status' \in {"RUNNING", "PAUSED", "CANCELED"} /\ late' = 0
        /\ UNCHANGED <<running, paused, held, next, file, pc, result, flaw, drops>>
    BY <1>14 DEF Buttons, Pause, Resume, Cancel, Press
  <2> QED
    BY <2>1, <2>2
<1>15. CASE UNCHANGED vars
  BY <1>15 DEF vars
<1> QED
  BY <1>1, <1>2, <1>3, <1>5, <1>6, <1>7, <1>8, <1>10, <1>12, <1>14, <1>15, <1>16
     DEF Next, Thread, Begin, Progress

(* The types, and the result is there exactly when the thread has ended. *)
THEOREM TransferTyped == Spec => []TypeOK
BY InitInv, StepInv, PTL DEF Spec, Inv

(* A paused download writes at most one buffer, through however many lost   *)
(* connections the pause lasts.                                             *)
THEOREM PausedHolds == Spec => []PauseHolds
<1>1. Inv => PauseHolds
  BY DEF Inv, Noticing, PauseHolds
<1> QED
  BY <1>1, InitInv, StepInv, PTL DEF Spec

(* A cancelled download writes at most one more buffer, wherever in the two *)
(* callbacks the cancel falls.                                              *)
THEOREM CancelledStops == Spec => []CancelStops
<1>1. Inv => CancelStops
  BY DEF Inv, Noticing, CancelStops
<1> QED
  BY <1>1, InitInv, StepInv, PTL DEF Spec

(* Every step is a step of Delivery or leaves its variables alone. *)
LEMMA StepDelivers == Inv /\ [Next]_vars => [Promise!Next]_<<file, result, flaw>>
<1> SUFFICES ASSUME Inv, [Next]_vars PROVE [Promise!Next]_<<file, result, flaw>>
  OBVIOUS
<1> USE TransferAssumption DEF TransferAssumption, Inv, TypeOK, InStep
<1>1. CASE Open
  BY <1>1 DEF Open
<1>2. CASE Write
  <2>1. Len(file) < Pieces /\ next = Len(file) + 1 /\ result = "none"
    BY <1>2 DEF Write
  <2> QED
    BY <1>2, <2>1 DEF Write, Promise!Next, Promise!Grow
<1>3. ASSUME NEW r, End(r) PROVE Promise!Close
  BY <1>3 DEF End, Promise!Close
<1>4. CASE Finish
  <2>1. Len(file) = Pieces /\ result = "none" /\ result' = "ok" /\ End("ok")
    BY <1>4 DEF Finish, End
  <2> QED
    BY <1>3, <2>1 DEF Promise!Next, Promise!Succeed
<1>5. CASE WriteFails \/ OpenFails \/ Break \/ NoHandle \/ ProgressCanceled
  <2>1. PICK r \in {"aborted", "error"} : End(r)
    BY <1>5 DEF WriteFails, OpenFails, Break, NoHandle, ProgressCanceled
  <2>2. result = "none" /\ result' = r
    BY <1>5, <2>1 DEF WriteFails, OpenFails, Break, NoHandle, ProgressCanceled, End
  <2> QED
    BY <1>3, <2>1, <2>2 DEF Promise!Next, Promise!Fail
<1>6. CASE NoFirstHandle
  BY <1>6 DEF NoFirstHandle, Promise!Next, Promise!Skip
<1>7. CASE \/ Receive \/ Tick \/ ProgressPaused \/ ProgressRunning
           \/ Drop \/ Reconnect \/ Buttons \/ UNCHANGED vars
  BY <1>7 DEF Receive, Tick, ProgressPaused, ProgressRunning, Drop, Reconnect, Buttons,
              Pause, Resume, Cancel, Press, vars
<1> QED
  BY <1>1, <1>2, <1>4, <1>5, <1>6, <1>7 DEF Next, Thread, Begin, Progress

(* Transfer implements Delivery: through pauses, resumes, dropped connections *)
(* and flags left by an earlier download, the file is delivered in order, and *)
(* start_routine reports success only when all of it was written, or when it  *)
(* had no handle to begin with.                                               *)
THEOREM TransferDelivers == Spec => Delivers
<1>1. Init => Promise!Init
  BY DEF Init, Promise!Init
<1> QED
  BY <1>1, InitInv, StepInv, StepDelivers, PTL DEF Spec, Delivers, Promise!Spec

-----------------------------------------------------------------------------
(* The handshake of my_progress_func with libcurl's pause, for a user who   *)
(* lets the function run between two presses. The flag says running while   *)
(* libcurl holds the transfer only between a pause that write_data saw      *)
(* first and the next call of my_progress_func, or after a cancel.          *)
Handshake ==
  /\ paused <=> ~running
  /\ held /\ running => status = "CANCELED" \/ (status = "PAUSED" /\ ~seen)
  /\ status = "PAUSED" /\ seen => ~running
  /\ status = "RUNNING" /\ seen => ~held

(* my_progress_func goes by its flag alone, so a held transfer whose flag   *)
(* said running would stay held; and once it has run after a resume,        *)
(* libcurl receives again.                                                  *)
ResumeLetsGo ==
  /\ status = "RUNNING" /\ held => ~running
  /\ status = "RUNNING" /\ seen => ~held

LEMMA HandshakeInit == Init => Handshake
<1> SUFFICES ASSUME Init PROVE Handshake
  OBVIOUS
<1>1. paused <=> ~running
  BY Zenon DEF Init
<1>2. status = "RUNNING" /\ ~held
  BY DEF Init
<1> QED
  BY <1>1, <1>2 DEF Handshake

LEMMA HandshakeStep ==
  ASSUME Patient, TypeOK, Handshake, [Next]_vars
  PROVE  Handshake'
<1> USE DEF Handshake, slotVars, curlVars, history
<1>1. CASE Open
  BY <1>1 DEF Open
<1>2. CASE Receive
  <2>1. UNCHANGED <<status, running, paused, seen>>
    BY <1>2 DEF Receive
  <2>2. CASE status = "PAUSED"
    BY <1>2, <2>1, <2>2 DEF Receive
  <2>3. CASE status # "PAUSED"
    <3>1. held' = held
      BY <1>2, <2>3 DEF Receive
    <3> QED
      BY <2>1, <3>1
  <2> QED
    BY <2>2, <2>3
<1>3. CASE \/ OpenFails \/ NoFirstHandle \/ Write \/ WriteFails \/ Tick \/ Finish
           \/ Drop \/ Break \/ NoHandle \/ UNCHANGED vars
  <2>1. UNCHANGED <<status, running, paused, held, seen>>
    BY <1>3 DEF OpenFails, NoFirstHandle, Write, WriteFails, Tick, Finish, Drop, Break,
                NoHandle, vars
  <2> QED
    BY <2>1
<1>4. CASE ProgressCanceled
  <2>1. status = "CANCELED" /\ UNCHANGED <<status, running, paused, held>>
    BY <1>4 DEF ProgressCanceled
  <2> QED
    BY <2>1
<1>5. CASE ProgressPaused
  <2>1. status = "PAUSED" /\ UNCHANGED status
    BY <1>5 DEF ProgressPaused
  <2>2. paused' /\ ~running'
    <3>1. CASE paused
      <4>1. ~running
        BY <3>1
      <4> QED
        BY <1>5, <3>1, <4>1, Zenon DEF ProgressPaused
    <3>2. CASE ~paused
      BY <1>5, <3>2, Zenon DEF ProgressPaused
    <3> QED
      BY <3>1, <3>2
  <2> QED
    BY <2>1, <2>2
<1>6. CASE ProgressRunning
  <2>1. status = "RUNNING" /\ UNCHANGED status
    BY <1>6 DEF ProgressRunning
  <2>2. running' /\ ~paused' /\ ~held'
    <3>1. CASE running
      <4>1. ~held /\ ~paused
        BY <2>1, <3>1
      <4> QED
        BY <1>6, <3>1, <4>1, Zenon DEF ProgressRunning
    <3>2. CASE ~running
      BY <1>6, <3>2, Zenon DEF ProgressRunning
    <3> QED
      BY <3>1, <3>2
  <2> QED
    BY <2>1, <2>2
<1>7. CASE Reconnect
  <2>1. ~held' /\ UNCHANGED <<status, running, paused, seen>>
    BY <1>7 DEF Reconnect
  <2> QED
    BY <2>1
<1>8. CASE Buttons
  <2>1. /\ UNCHANGED <<running, paused, held>> /\ ~seen' /\ seen
        /\ \/ status = "RUNNING" /\ status' = "PAUSED"
           \/ status = "PAUSED" /\ status' = "RUNNING"
           \/ status' = "CANCELED"
    BY <1>8 DEF Buttons, Pause, Resume, Cancel, Press
  <2> QED
    BY <2>1
<1> QED
  BY <1>1, <1>2, <1>3, <1>4, <1>5, <1>6, <1>7, <1>8 DEF Next, Thread, Begin, Progress

(* A download that was resumed is not left held: whatever flags an earlier  *)
(* download left, however many connections were lost while it was paused,   *)
(* and whichever of the two callbacks saw the pause first. The user must    *)
(* let my_progress_func, which libcurl calls at least once a second, run    *)
(* between two presses.                                                     *)
THEOREM ResumeHandshake == ASSUME Patient PROVE Spec => []ResumeLetsGo
<1>1. Inv /\ Handshake /\ [Next]_vars => Inv' /\ Handshake'
  BY StepInv, HandshakeStep DEF Inv
<1>2. Handshake => ResumeLetsGo
  BY DEF Handshake, ResumeLetsGo
<1> QED
  BY <1>1, <1>2, InitInv, HandshakeInit, PTL DEF Spec

-----------------------------------------------------------------------------
(* What the abstract specification is worth to the caller of start_routine. *)

(* The file is a beginning of the package, all of which was written before *)
(* success is reported, unless there was no handle to begin with.           *)
InOrder ==
  /\ \A k \in 1 .. Len(file) : file[k] = k
  /\ result = "ok" /\ flaw # "handle" => next = Pieces + 1
  /\ result = "ok" /\ flaw = "none" => Len(file) = Pieces

LEMMA StepInOrder == Inv /\ InOrder /\ [Next]_vars => InOrder'
<1> SUFFICES ASSUME Inv, InOrder, [Next]_vars PROVE InOrder'
  OBVIOUS
<1> USE TransferAssumption DEF TransferAssumption, InOrder
<1>t. /\ file \in Seq(1 .. Pieces) /\ next \in 1 .. Pieces + 1
      /\ pc # "ended" => result = "none"
      /\ pc = "open" => file = <<>>
      /\ pc \in {"perform", "write", "progress"} => next = Len(file) + 1
      /\ pc = "write" => next <= Pieces
  BY DEF Inv, TypeOK, InStep
<1>1. CASE Open
  <2>1. file' = <<>> /\ result' = "none"
    BY <1>1, <1>t DEF Open
  <2> QED
    BY <2>1, EmptyFile
<1>2. CASE Write
  <2>1. file' = Append(file, Len(file) + 1) /\ result' = "none" /\ Len(file) + 1 \in 1 .. Pieces
    BY <1>2, <1>t DEF Write
  <2> QED
    BY <2>1, <1>t
<1>3. ASSUME NEW r, End(r)
      PROVE  /\ result' = r /\ flaw' \in {"none", "flush"}
             /\ \A k \in 1 .. Len(file') : file'[k] = k
             /\ flaw' = "none" => Len(file') = Len(file)
  <2>1. /\ result' = r /\ file' \in Seq(1 .. Pieces) /\ Len(file') <= Len(file)
        /\ flaw' \in {"none", "flush"}
        /\ \A k \in 1 .. Len(file') : file'[k] = file[k]
        /\ flaw' = "none" => Len(file') = Len(file)
    BY <1>3, <1>t, Closing
  <2>2. Len(file) \in Nat /\ Len(file') \in Nat
    BY <1>t, <2>1
  <2> QED
    BY <2>1, <2>2
<1>4. CASE Finish
  <2>1. End("ok") /\ next' = next /\ next = Pieces + 1 /\ Len(file) = Pieces
    BY <1>4, <1>t DEF Finish, curlVars
  <2> QED
    BY <1>3, <2>1
<1>5. CASE WriteFails \/ OpenFails \/ Break \/ NoHandle \/ ProgressCanceled
  <2>1. PICK r \in {"aborted", "error"} : End(r)
    BY <1>5 DEF WriteFails, OpenFails, Break, NoHandle, ProgressCanceled
  <2> QED
    BY <1>3, <2>1
<1>6. CASE NoFirstHandle
  BY <1>6 DEF NoFirstHandle
<1>7. CASE \/ Receive \/ Tick \/ ProgressPaused \/ ProgressRunning
           \/ Drop \/ Reconnect \/ Buttons \/ UNCHANGED vars
  <2>1. UNCHANGED <<file, result, flaw>> /\ (result = "ok" => UNCHANGED next)
    BY <1>7, <1>t DEF Receive, Tick, ProgressPaused, ProgressRunning, Drop, Reconnect,
                Buttons, Pause, Resume, Cancel, Press, vars, curlVars
  <2> QED
    BY <2>1
<1> QED
  BY <1>1, <1>2, <1>4, <1>5, <1>6, <1>7 DEF Next, Thread, Begin, Progress

(* When start_routine returns success and had a handle to begin with, every *)
(* buffer of the package was received and given to fwrite, however often    *)
(* the connection was lost and whatever was paused on the way; and its file *)
(* is these buffers, once and in order, less the end that the closing flush *)
(* may have lost. DownloadsProofs takes it from here: "full" there is what  *)
(* such a success leaves.                                                   *)
THEOREM SuccessIsWhole ==
  Spec => [](result = "ok" /\ flaw # "handle"
               => /\ next = Pieces + 1
                  /\ \A k \in 1 .. Len(file) : file[k] = k
                  /\ flaw = "none" => Len(file) = Pieces)
<1>1. Init => InOrder
  BY EmptyFile DEF Init, InOrder
<1> QED
  BY <1>1, InitInv, StepInv, StepInOrder, PTL DEF Spec, InOrder
=============================================================================
