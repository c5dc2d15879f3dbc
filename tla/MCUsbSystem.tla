---------------------------- MODULE MCUsbSystem ----------------------------
(***************************************************************************)
(* UsbSystem with blocks of two units and an image of a few blocks.        *)
(***************************************************************************)
EXTENDS UsbSystem
=============================================================================
