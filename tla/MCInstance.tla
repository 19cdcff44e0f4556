----------------------------- MODULE MCInstance -----------------------------
(***************************************************************************)
(* Instance for TLC: a scheduled callback, one that is invoked by others,  *)
(* and handlers of 'exit' of both kinds.                                   *)
(***************************************************************************)
EXTENDS Instance
=============================================================================
