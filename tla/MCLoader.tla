------------------------------ MODULE MCLoader ------------------------------
(***************************************************************************)
(* Two servers with two releases each; the first of one of them is revoked. *)
(***************************************************************************)
EXTENDS Loader

CONSTANTS c1, c2

MCRevoked == {[cdn |-> c1, n |-> 1]}
=============================================================================
