------------------------------- MODULE PtInfo -------------------------------
(***************************************************************************)
(* pt_info, the slots of the download and install pool (GLES2_q.cpp), as   *)
(* every part of the Store sees them: the status and the item of each slot *)
(* and the lookups over both. Downloads says what the threads do to them,  *)
(* Pool what everybody else may rely on.                                   *)
(***************************************************************************)
EXTENDS Integers

CONSTANTS
  ENTRIES,     (* number of slots, 4 in the source                         *)
  Items,       (* indices into icon_panel->item_d that can be downloaded   *)
  NoItem       (* g_idx = -1, and an empty dst                             *)

VARIABLES
  status,   (* status[s]: dl_arg_t.status                                  *)
  g_idx     (* g_idx[s]: the item the slot serves                          *)

NoSlot == -1
Slots  == 0 .. ENTRIES - 1

(* enum pt_status, and the value ini_dl_req stores in the same field *)
CANCELED       == -1
READY          == 0
PAUSED         == 1
RUNNING        == 2
COMPLETED      == 3
INSTALLING_APP == 4
PENDING        == 4919      \* 0x1337

Free == {READY, CANCELED}

(* thread_find_by_item(i) = s *)
Handles(s, i) == g_idx[s] = i /\ \A r \in Slots : g_idx[r] = i => s <= r

(* thread_find_by_item(i) = -1 *)
Unhandled(i) == \A s \in Slots : g_idx[s] # i

(* thread_dispatch_index() = s *)
Dispatchable(s) ==
  status[s] \in Free /\ \A r \in Slots : status[r] \in Free => s <= r
=============================================================================
