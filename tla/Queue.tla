------------------------------- MODULE Queue --------------------------------
(***************************************************************************)
(* packages/core/Queue.mjs: a queue kept in a circular array.  head and    *)
(* tail only grow; a slot is addressed by their remainder modulo the       *)
(* length of the array, and a full array is copied into one twice as long. *)
(* The executor keeps its callbacks, and the service logger its lines, in  *)
(* one of these.  Array index i of the code is position i + 1 here.        *)
(***************************************************************************)
EXTENDS Naturals, Sequences

CONSTANTS Values,      \* what is pushed
          Undef,       \* JavaScript's undefined, what an empty slot holds
          Capacity0,   \* the constructor's argument
          MaxTail      \* bound on tail, that is on pushes between two resets

ASSUME QueueAssumption ==
  /\ Undef \notin Values
  /\ Capacity0 \in Nat
  /\ MaxTail \in Nat

VARIABLES array,      \* the slots
          head, tail, \* positions of the first element and after the last
          length,     \* number of elements
          capacity,   \* the field capacity, from which grow() doubles
          out         \* what the last call returned

vars == <<array, head, tail, length, capacity, out>>

Slot(i) == (i % Len(array)) + 1

Blank(n) == [i \in 1 .. n |-> Undef]

Init ==
  /\ array = Blank(Capacity0)
  /\ capacity = Capacity0
  /\ head = 0 /\ tail = 0 /\ length = 0
  /\ out = Undef

-----------------------------------------------------------------------------
\* grow() moves the elements, oldest first, to the start of a larger array.
NewCapacity == IF capacity = 0 THEN 1 ELSE capacity * 2

\* Mutated form of Grown, for the check that ImplementsFifo can fail: the array
\* is copied as it lies, without starting from head.
GrownUnrotated ==
  [i \in 1 .. NewCapacity |-> IF i <= length THEN array[i] ELSE Undef]

Grown == [i \in 1 .. NewCapacity |->
            IF i <= length THEN array[Slot(head + i - 1)] ELSE Undef]

Push(v) ==
  /\ tail < MaxTail
  /\ IF length = Len(array)
       THEN /\ array' = [Grown EXCEPT ![(length % NewCapacity) + 1] = v]
            /\ head' = 0 /\ tail' = length + 1
            /\ capacity' = NewCapacity
       ELSE /\ array' = [array EXCEPT ![Slot(tail)] = v]
            /\ tail' = tail + 1
            /\ UNCHANGED <<head, capacity>>
  /\ length' = length + 1
  /\ out' = Undef

\* Mutated form of Shift, for SlotsExact: the vacated slot keeps its element.
ShiftKeepsSlot ==
  /\ IF length = 0
       THEN out' = Undef /\ UNCHANGED <<head, length>>
       ELSE /\ out' = array[Slot(head)]
            /\ head' = head + 1
            /\ length' = length - 1
  /\ UNCHANGED <<array, tail, capacity>>

\* The vacated slot is overwritten, so that the element can be collected.
Shift ==
  /\ IF length = 0
       THEN out' = Undef /\ UNCHANGED <<array, head, length>>
       ELSE /\ out' = array[Slot(head)]
            /\ array' = [array EXCEPT ![Slot(head)] = Undef]
            /\ head' = head + 1
            /\ length' = length - 1
  /\ UNCHANGED <<tail, capacity>>

Front == IF length = 0 THEN Undef ELSE array[Slot(head)]

Back == IF length = 0 THEN Undef ELSE array[Slot(tail - 1)]

Peek == out' \in {Front, Back} /\ UNCHANGED <<array, head, tail, length, capacity>>

\* Mutated form of Clear, for TypeOK: capacity is not reset with the array.
ClearKeepsCapacity ==
  /\ array' = <<>>
  /\ head' = 0 /\ tail' = 0 /\ length' = 0
  /\ out' = Undef
  /\ UNCHANGED capacity

Clear ==
  /\ array' = <<>>
  /\ head' = 0 /\ tail' = 0 /\ length' = 0 /\ capacity' = 0
  /\ out' = Undef

Next == (\E v \in Values : Push(v)) \/ Shift \/ Peek \/ Clear

Spec == Init /\ [][Next]_vars

-----------------------------------------------------------------------------
\* The elements in the order in which shift() will return them.
Items == [i \in 1 .. length |-> array[Slot(head + i - 1)]]

\* The slots that hold an element.
Live == {Slot(head + i - 1) : i \in 1 .. length}

\* The fields have their types, the capacity field is the length of the array
\* that grow() doubles, and tail runs length positions ahead of head.
TypeOK ==
  /\ array \in Seq(Values \cup {Undef})
  /\ head \in Nat /\ tail \in Nat
  /\ capacity = Len(array)
  /\ length \in 0 .. capacity
  /\ tail = head + length
  /\ out \in Values \cup {Undef}

\* Wrapping around never makes two elements share a slot nor leaves one in a
\* slot outside the window: a slot holds a value exactly when it is live
\* (Queue.mjs:104 clears a slot "to help GC"; a queue that kept a callback
\* alive, or overwrote a waiting one, would break this).
SlotsExact ==
  \A s \in 1 .. Len(array) : s \in Live <=> array[s] # Undef

Abstract == INSTANCE Fifo WITH items <- Items

\* Queue.mjs:2 "A FIFO (First In, First Out) queue implementation": through
\* growth, wrap-around and clear(), every call returns what it returns on the
\* sequence of the elements pushed and not yet shifted.
ImplementsFifo == Abstract!Spec
=============================================================================
