---------------------------- MODULE MCDownloads ----------------------------
(***************************************************************************)
(* Small instances of Downloads: two slots instead of four, so that a full *)
(* queue is two downloads away, and more threads than slots.               *)
(***************************************************************************)
EXTENDS Downloads, TLC

(* ENOENT, which is RUNNING, and CURLE_HTTP_RETURNED_ERROR, which is no    *)
(* pt_status.                                                              *)
MCDlErrors == {2, 22}

(* A system error, 0x80020002, as the int it is stored in. *)
MCSysErrors == {-2147352574}

MCSymmetry == Permutations(Items) \cup Permutations(Workers)
=============================================================================
