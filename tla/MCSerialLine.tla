---------------------------- MODULE MCSerialLine ----------------------------
(***************************************************************************)
(* SerialLine against the slot: any caller writes at any time, the user    *)
(* opens, closes and runs loop tests.                                      *)
(***************************************************************************)
EXTENDS SerialLine
=============================================================================
