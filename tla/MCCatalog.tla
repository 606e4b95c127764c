----------------------------- MODULE MCCatalog -----------------------------
(***************************************************************************)
(* A catalogue of three apps on pages of two icons, in two of three groups. *)
(***************************************************************************)
EXTENDS Catalog

MCGroupOf == [a \in Apps |-> IF a = 1 THEN 3 ELSE 1]
=============================================================================
