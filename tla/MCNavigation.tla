---------------------------- MODULE MCNavigation ----------------------------
(* Navigation, with one item of each kind. *)
EXTENDS Navigation
=============================================================================
