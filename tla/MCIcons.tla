------------------------------ MODULE MCIcons ------------------------------
(***************************************************************************)
(* Two apps on pages of one icon, one of them preloaded, and a list of     *)
(* both; nothing around the page is spared, a catalogue of any size drops,  *)
(* and Clear cache deletes the picture that is not preloaded.               *)
(***************************************************************************)
EXTENDS Icons

MCLists == {<<1, 0>>}
=============================================================================
