------------------------------ MODULE Deadline ------------------------------
(***************************************************************************)
(* What DeadlineTimer promises: the callback that was set last, unless it  *)
(* was aborted, is called once, and not before its deadline.               *)
(***************************************************************************)
EXTENDS Naturals

CONSTANTS Callbacks, Nobody

VARIABLES now, armed, end, called

deadlineVars == <<now, armed, end, called>>

DeadlineInit == now = 0 /\ armed = Nobody /\ end = 0 /\ called = {}

Passes == now' = now + 1 /\ UNCHANGED <<armed, end, called>>

Arm == /\ armed' \in Callbacks \ called /\ end' \in Nat /\ end' >= now
       /\ UNCHANGED <<now, called>>

Cancel == armed' = Nobody /\ end' = 0 /\ UNCHANGED <<now, called>>

Call == /\ armed # Nobody /\ now >= end
        /\ called' = called \cup {armed}
        /\ armed' = Nobody /\ end' = 0 /\ UNCHANGED now

DeadlineNext == Passes \/ Arm \/ Cancel \/ Call

DeadlineSpec == DeadlineInit /\ [][DeadlineNext]_deadlineVars
=============================================================================
