----------------------------- MODULE MCSession -----------------------------
(***************************************************************************)
(* Session with any client and any network.                                *)
(***************************************************************************)
EXTENDS Session
=============================================================================
