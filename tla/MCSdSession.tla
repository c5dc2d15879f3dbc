---------------------------- MODULE MCSdSession ----------------------------
(***************************************************************************)
(* SdSession on a card of a few sectors, requests of at most two.          *)
(***************************************************************************)
EXTENDS SdSession

AllFaults == FaultKinds
OnlyWr == {"wr"}
=============================================================================
