----------------------------- MODULE MCExecutor -----------------------------
(***************************************************************************)
(* Executor for TLC.  Tasks are interchangeable, and so are the runs of    *)
(* one kind.                                                               *)
(***************************************************************************)
EXTENDS Executor, TLC

Symmetry == Permutations(Tasks)
=============================================================================
