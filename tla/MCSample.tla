------------------------------ MODULE MCSample ------------------------------
(***************************************************************************)
(* The service for TLC.  A behaviour is about one of two subjects: the     *)
(* life of the process with its port and connections, or the requests      *)
(* that come in while the port is open.  The other one does not move.      *)
(***************************************************************************)
EXTENDS Service, Sample

VARIABLE subject

everything == <<subject, serviceVars, sampleVars>>

MCInit ==
  /\ subject \in {"life", "requests"}
  /\ ServiceInit /\ SampleInit

Life == subject = "life" /\ UNCHANGED <<subject, sampleVars>>
Traffic == subject = "requests" /\ UNCHANGED <<subject, serviceVars>>

MCNext ==
  \/ ServiceNext /\ Life
  \/ SampleNext /\ Traffic

MCSpec ==
  /\ MCInit /\ [][MCNext]_everything
  /\ WF_everything(Due /\ Life)
  /\ \A r \in Requests : WF_everything(Onward(r) /\ Traffic)

\* What an earlier process reported: the result of an asynchronous instruction,
\* and a number.
MCOldLines ==
  <<[by |-> "before", number |-> FALSE, result |-> 0],
    [by |-> "before", number |-> TRUE, result |-> 1]>>

\* With a number below 0 the count may go down.
MCNumbers == {-2, 1}
=============================================================================
