------------------------------ MODULE Delivery ------------------------------
(***************************************************************************)
(* What a download promises to whoever waits for it: the output file grows *)
(* by the next piece of the package and by nothing else, and the result is *)
(* "ok" only when every piece was written, or when nothing was even tried. *)
(* That the disk took the last pieces is not promised; flaw records when   *)
(* "ok" does not mean a whole file.                                        *)
(***************************************************************************)
EXTENDS Naturals, Sequences

CONSTANT Pieces   (* number of pieces the package comes in *)

VARIABLES file, result, flaw

Init == file = <<>> /\ result = "none" /\ flaw = "none"

Grow ==
  /\ result = "none"
  /\ Len(file) < Pieces
  /\ file' = Append(file, Len(file) + 1)
  /\ UNCHANGED <<result, flaw>>

(* The file is closed: it loses its end, or nothing. *)
Close ==
  \E n \in 0 .. Len(file) :
    /\ file' = SubSeq(file, 1, n)
    /\ flaw' = IF n = Len(file) THEN "none" ELSE "flush"

Succeed ==
  /\ result = "none"
  /\ Len(file) = Pieces
  /\ result' = "ok"
  /\ Close

Fail ==
  /\ result = "none"
  /\ result' \in {"aborted", "error"}
  /\ Close

(* Nothing is tried, and success reported. *)
Skip ==
  /\ result = "none"
  /\ file = <<>>
  /\ result' = "ok" /\ flaw' = "handle"
  /\ UNCHANGED file

Next == Grow \/ Succeed \/ Fail \/ Skip

Spec == Init /\ [][Next]_<<file, result, flaw>>
=============================================================================
