------------------------------ MODULE MCDisplay ------------------------------
(***************************************************************************)
(* Display with three rows and three pages on a console whose gVsync line  *)
(* lies in the vertical blank (NTSC and MPAL).                             *)
(***************************************************************************)
EXTENDS Display
=============================================================================
