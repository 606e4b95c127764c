----------------------------- MODULE MCScreens -----------------------------
(***************************************************************************)
(* Small instances of Screens: two slots are the fewest in which a list    *)
(* has rows to mix up, two items the fewest of which one is not on show.   *)
(***************************************************************************)
EXTENDS Screens, TLC

(* 22, CURLE_HTTP_RETURNED_ERROR, stands for every error that Cancel can   *)
(* clear; those it cannot are negative, as CANCELED is.                    *)
MCReports == {CANCELED, RUNNING, COMPLETED, INSTALLING_APP, 22}

MCSymmetry == Permutations(Items)
=============================================================================
