-------------------------------- MODULE Pool --------------------------------
(***************************************************************************)
(* The protocol of a slot: what the UI thread, the download threads and    *)
(* the install threads may do to its status and its item, whatever they    *)
(* are busy with. Downloads implements it; the screens, which read the     *)
(* slots without a lock, rely on nothing else.                             *)
(***************************************************************************)
EXTENDS PtInfo

CONSTANT
  Reports      (* what a thread that works on a slot may leave in status   *)

poolVars == <<status, g_idx>>

PoolInit ==
  /\ status = [s \in Slots |-> CANCELED]
  /\ g_idx = [s \in Slots |-> NoItem]

(* Only an item no slot serves gets a slot, the first free one. *)
Assign(i) ==
  /\ Unhandled(i)
  /\ \E s \in Slots : Dispatchable(s) /\ g_idx' = [g_idx EXCEPT ![s] = i]
  /\ UNCHANGED status

(* The server knows the package: a thread will come. *)
Admit(s) ==
  /\ status[s] < 1
  /\ status' = [status EXCEPT ![s] = PENDING]
  /\ UNCHANGED g_idx

Pause(s) ==
  /\ status[s] = RUNNING
  /\ status' = [status EXCEPT ![s] = PAUSED]
  /\ UNCHANGED g_idx

(* A thread goes on, ends or fails. One whose slot was taken from it does *)
(* so whatever the slot's status is by now.                               *)
Report(s) ==
  /\ \E v \in Reports : status' = [status EXCEPT ![s] = v]
  /\ UNCHANGED g_idx

(* An install is over: its slot keeps its status and loses its item. *)
Settle(s) ==
  /\ g_idx' = [g_idx EXCEPT ![s] = NoItem]
  /\ UNCHANGED status

(* A cancel, or an install left to the console, empties the slot. *)
Release(s) ==
  /\ g_idx' = [g_idx EXCEPT ![s] = NoItem]
  /\ \E v \in Free : status' = [status EXCEPT ![s] = v]

PoolNext ==
  \/ \E i \in Items : Assign(i)
  \/ \E s \in Slots :
       Admit(s) \/ Pause(s) \/ Report(s) \/ Settle(s) \/ Release(s)

PoolSpec == PoolInit /\ [][PoolNext]_poolVars
=============================================================================
