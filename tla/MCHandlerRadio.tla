---------------------------- MODULE MCHandlerRadio ----------------------------
(***************************************************************************)
(* HandlerRadio for TLC.                                                   *)
(***************************************************************************)
EXTENDS HandlerRadio
=============================================================================
