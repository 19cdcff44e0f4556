------------------------------ MODULE MCQueue -------------------------------
(***************************************************************************)
(* Queue for TLC: two values, an array that starts with one slot and grows *)
(* twice, and enough pushes for every array to wrap around.                *)
(***************************************************************************)
EXTENDS Queue
=============================================================================
