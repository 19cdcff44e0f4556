-------------------------------- MODULE Fifo --------------------------------
(***************************************************************************)
(* What the class Queue promises ("A FIFO (First In, First Out) queue      *)
(* implementation"): a sequence of elements, pushed at the back, shifted   *)
(* from the front.  The variable out is what the last call returned.       *)
(***************************************************************************)
EXTENDS Naturals, Sequences

CONSTANTS Values,   \* the elements
          Undef     \* JavaScript's undefined

VARIABLES items, out

vars == <<items, out>>

Init == items = <<>> /\ out = Undef

Push(v) == items' = Append(items, v) /\ out' = Undef

\* shift() of an empty queue returns undefined and changes nothing.
Shift ==
  \/ items = <<>> /\ out' = Undef /\ UNCHANGED items
  \/ items # <<>> /\ out' = Head(items) /\ items' = Tail(items)

\* front(), peek() and back() only look.
Peek ==
  /\ UNCHANGED items
  /\ \/ items = <<>> /\ out' = Undef
     \/ items # <<>> /\ out' \in {items[1], items[Len(items)]}

Clear == items' = <<>> /\ out' = Undef

Next == (\E v \in Values : Push(v)) \/ Shift \/ Peek \/ Clear

Spec == Init /\ [][Next]_vars
=============================================================================
