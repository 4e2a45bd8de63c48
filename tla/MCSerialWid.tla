---------------------------- MODULE MCSerialWid ----------------------------
(***************************************************************************)
(* The serial port against the slot: any caller writes at any time, the    *)
(* user opens, closes and runs loop tests in the dialog.                   *)
(***************************************************************************)
EXTENDS SerialWid
=============================================================================
