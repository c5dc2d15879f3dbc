------------------------------- MODULE MCSdInit -------------------------------
(***************************************************************************)
(* SdInit with three polls and cards that need up to five.  Any command    *)
(* and any answer may be lost but those of CMD8: a high capacity card whose *)
(* CMD8 is not answered is taken for version 1, and SD_HC is not set.      *)
(***************************************************************************)
EXTENDS SdInit

AllButCMD8 == Commands \ {"CMD8"}
=============================================================================
