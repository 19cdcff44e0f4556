---------------------------- MODULE MCContainer -----------------------------
(***************************************************************************)
(* The registry of a module and the scope of an instance side by side: a   *)
(* behaviour exercises one of them.  The template has no circles: the      *)
(* service needs a store and the logger and, after it was made, itself and *)
(* the logger, which the store needs before it is made.                    *)
(***************************************************************************)
EXTENDS Registry, Scope

VARIABLE subject

MCParts ==
  [service |-> <<[stage |-> Made, inject |-> <<"store", "logger">>],
                 [stage |-> Decorated, inject |-> <<"service", "logger">>]>>,
   store   |-> <<[stage |-> Hooked, inject |-> <<"logger">>],
                 [stage |-> Made, inject |-> <<>>]>>,
   logger  |-> <<[stage |-> Made, inject |-> <<>>]>>]

ASSUME MCNoCircles == NoCircles

Only(s) ==
  /\ subject = s /\ UNCHANGED subject
  /\ IF s = "registry" THEN TRUE ELSE UNCHANGED registry
  /\ IF s = "scope" THEN TRUE ELSE UNCHANGED scopeVars

allVars == <<subject, registry, scopeVars>>

MCInit == subject \in {"registry", "scope"} /\ RegistryInit /\ ScopeInit

MCNext ==
  \/ RegistryNext /\ Only("registry")
  \/ ScopeNext /\ Only("scope")

\* What runs goes on, and what is promised settles.
MCSpec ==
  /\ MCInit /\ [][MCNext]_allVars
  /\ WF_allVars(Running /\ Only("scope"))
  /\ WF_allVars((\E c \in Constructions : Turn(c)) /\ Only("scope"))
=============================================================================
