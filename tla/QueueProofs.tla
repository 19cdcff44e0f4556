---------------------------- MODULE QueueProofs -----------------------------
(***************************************************************************)
(* The circular array is a FIFO queue for every initial capacity, every    *)
(* set of values and every number of pushes.  Everything rests on one fact *)
(* of arithmetic: positions less than the length of the array apart have   *)
(* different remainders, so a window of positions never meets itself.      *)
(***************************************************************************)
EXTENDS Queue, Integers, SequenceTheorems, TLAPS

LEMMA RemainderRange ==
  ASSUME NEW n \in Nat \ {0}, NEW a \in Nat
  PROVE  (a % n) \in 0 .. n - 1
  OBVIOUS

LEMMA RemainderSmall ==
  ASSUME NEW n \in Nat \ {0}, NEW a \in 0 .. n - 1
  PROVE  (a % n) = a
  OBVIOUS

LEMMA Division ==
  ASSUME NEW n \in Nat \ {0}, NEW a \in Nat
  PROVE  /\ (a \div n) \in Int
         /\ a = n * (a \div n) + (a % n)
  OBVIOUS

LEMMA NoMultipleBetween ==
  ASSUME NEW n \in Nat \ {0}, NEW q \in Int, 0 < n * q
  PROVE  n <= n * q
  OBVIOUS

\* Two positions of one window never share a slot.
LEMMA RemaindersDiffer ==
  ASSUME NEW n \in Nat \ {0}, NEW a \in Nat, NEW b \in Nat,
         a < b, b < a + n
  PROVE  (a % n) # (b % n)
  <1> DEFINE p == a \div n
             q == b \div n
  <1>1. /\ p \in Int /\ a = n * p + (a % n)
        /\ q \in Int /\ b = n * q + (b % n)
    BY Division
  <1> HIDE DEF p, q
  <1>2. /\ n * p \in Int /\ n * q \in Int /\ q - p \in Int
        /\ n * (q - p) = n * q - n * p
    BY <1>1
  <1> SUFFICES ASSUME (a % n) = (b % n) PROVE FALSE
    OBVIOUS
  <1>3. b - a = n * (q - p)
    BY <1>1, <1>2, RemainderRange
  <1>4. n <= n * (q - p)
    BY <1>2, <1>3, NoMultipleBetween
  <1> QED BY <1>3, <1>4
-----------------------------------------------------------------------------
(* Slots of the window head .. tail - 1.                                   *)

LEMMA CapacityGrows ==
  ASSUME TypeOK
  PROVE  NewCapacity \in Nat \ {0} /\ length <= Len(array)
         /\ Len(array) \in Nat
         /\ (length = Len(array) => length < NewCapacity)
  BY DEF TypeOK, NewCapacity

LEMMA SlotInArray ==
  ASSUME TypeOK, Len(array) # 0, NEW i \in Nat
  PROVE  Slot(i) \in 1 .. Len(array)
  <1>1. Len(array) \in Nat \ {0}
    BY DEF TypeOK
  <1>2. (i % Len(array)) \in 0 .. Len(array) - 1
    BY <1>1, RemainderRange
  <1> QED BY <1>1, <1>2 DEF Slot

LEMMA SlotsDiffer ==
  ASSUME TypeOK, Len(array) # 0, NEW i \in Nat, NEW j \in Nat,
         i < j, j < i + Len(array)
  PROVE  Slot(i) # Slot(j)
  <1>1. Len(array) \in Nat \ {0}
    BY DEF TypeOK
  <1>2. (i % Len(array)) # (j % Len(array))
    BY <1>1, RemaindersDiffer
  <1>3. (i % Len(array)) \in 0 .. Len(array) - 1 /\ (j % Len(array)) \in 0 .. Len(array) - 1
    BY <1>1, RemainderRange
  <1> QED BY <1>2, <1>3 DEF Slot

-----------------------------------------------------------------------------
LEMMA TypeInit == Init => TypeOK
  <1> SUFFICES ASSUME Init PROVE TypeOK
    OBVIOUS
  <1>1. /\ Blank(Capacity0) \in Seq(Values \cup {Undef})
        /\ Len(Blank(Capacity0)) = Capacity0
    BY QueueAssumption DEF Blank
  <1> QED BY <1>1, QueueAssumption DEF Init, TypeOK

LEMMA GrownType ==
  ASSUME TypeOK, length = Len(array)
  PROVE  /\ Grown \in Seq(Values \cup {Undef})
         /\ Len(Grown) = NewCapacity
         /\ \A i \in 1 .. NewCapacity :
              Grown[i] = IF i <= length THEN array[Slot(head + i - 1)] ELSE Undef
  <1>1. NewCapacity \in Nat \ {0} /\ length \in Nat /\ head \in Nat
    BY CapacityGrows DEF TypeOK
  <1>2. ASSUME NEW i \in 1 .. NewCapacity, i <= length
        PROVE  array[Slot(head + i - 1)] \in Values \cup {Undef}
    <2>1. head + i - 1 \in Nat /\ Len(array) # 0
      BY <1>1, <1>2
    <2>2. Slot(head + i - 1) \in 1 .. Len(array)
      BY <2>1, SlotInArray
    <2> QED BY <2>2 DEF TypeOK
  <1>3. Grown \in [1 .. NewCapacity -> Values \cup {Undef}]
    BY <1>2 DEF Grown
  <1> QED BY <1>1, <1>3 DEF Grown

LEMMA TypeNext == TypeOK /\ [Next]_vars => TypeOK'
  <1> SUFFICES ASSUME TypeOK, [Next]_vars PROVE TypeOK'
    OBVIOUS
  <1> USE DEF TypeOK
  <1>1. ASSUME NEW v \in Values, Push(v) PROVE TypeOK'
    <2>1. CASE length = Len(array)
      <3>1. (length % NewCapacity) = length
        BY <2>1, CapacityGrows, RemainderSmall
      <3>2. array' = [Grown EXCEPT ![length + 1] = v]
        BY <1>1, <2>1, <3>1 DEF Push
      <3>3. array' \in Seq(Values \cup {Undef}) /\ Len(array') = NewCapacity
        <4>1. Grown \in Seq(Values \cup {Undef}) /\ Len(Grown) = NewCapacity
          BY <2>1, GrownType
        <4>2. length + 1 \in 1 .. Len(Grown)
          BY <2>1, <4>1, CapacityGrows
        <4> QED BY <3>2, <4>1, <4>2, ExceptSeq
      <3> QED BY <1>1, <2>1, <3>3, CapacityGrows, QueueAssumption DEF Push
    <2>2. CASE length # Len(array)
      <3>1. Slot(tail) \in 1 .. Len(array)
        <4>1. Len(array) # 0 /\ tail \in Nat
          BY <2>2
        <4> QED BY <4>1, SlotInArray
      <3>2. array' = [array EXCEPT ![Slot(tail)] = v]
        BY <1>1, <2>2 DEF Push
      <3>3. array' \in Seq(Values \cup {Undef}) /\ Len(array') = Len(array)
        BY <3>1, <3>2, ExceptSeq
      <3> QED BY <1>1, <2>2, <3>3 DEF Push
    <2> QED BY <2>1, <2>2
  <1>2. ASSUME Shift PROVE TypeOK'
    <2>1. CASE length = 0
      BY <1>2, <2>1 DEF Shift
    <2>2. CASE length # 0
      <3>1. Slot(head) \in 1 .. Len(array)
        <4>1. Len(array) # 0 /\ head \in Nat
          BY <2>2
        <4> QED BY <4>1, SlotInArray
      <3>2. array' \in Seq(Values \cup {Undef}) /\ Len(array') = Len(array)
        <4>1. array' = [array EXCEPT ![Slot(head)] = Undef]
          BY <1>2, <2>2 DEF Shift
        <4> QED BY <3>1, <4>1, ExceptSeq
      <3>3. out' \in Values \cup {Undef}
        BY <1>2, <2>2, <3>1 DEF Shift
      <3> QED BY <1>2, <2>2, <3>2, <3>3 DEF Shift
    <2> QED BY <2>1, <2>2
  <1>3. ASSUME Peek PROVE TypeOK'
    <2>1. ASSUME length # 0
          PROVE  Slot(head) \in 1 .. Len(array) /\ Slot(tail - 1) \in 1 .. Len(array)
      <3>1. Len(array) # 0 /\ head \in Nat /\ tail - 1 \in Nat
        BY <2>1
      <3> QED BY <3>1, SlotInArray
    <2>2. Front \in Values \cup {Undef} /\ Back \in Values \cup {Undef}
      BY <2>1 DEF Front, Back
    <2> QED BY <1>3, <2>2 DEF Peek
  <1>4. ASSUME Clear PROVE TypeOK'
    BY <1>4 DEF Clear
  <1>5. ASSUME UNCHANGED vars PROVE TypeOK'
    BY <1>5 DEF vars
  <1> QED BY <1>1, <1>2, <1>3, <1>4, <1>5 DEF Next

\* The fields of the queue keep their types, and tail runs length positions
\* ahead of head in an array of the recorded capacity, whatever is called.
THEOREM TypeCorrect == Spec => []TypeOK
  BY TypeInit, TypeNext, PTL DEF Spec

-----------------------------------------------------------------------------
(* Refinement: each call acts on Items as the call of Fifo does.           *)

LEMMA ItemsSeq ==
  /\ TypeOK => /\ Items \in Seq(Values \cup {Undef}) /\ Len(Items) = length
               /\ \A i \in 1 .. length : Items[i] = array[Slot(head + i - 1)]
  /\ TypeOK' => /\ Items' \in Seq(Values \cup {Undef}) /\ Len(Items') = length'
                /\ \A i \in 1 .. length' : Items'[i] = array'[Slot(head + i - 1)']
  <1>1. ASSUME TypeOK
        PROVE  /\ Items \in Seq(Values \cup {Undef}) /\ Len(Items) = length
               /\ \A i \in 1 .. length : Items[i] = array[Slot(head + i - 1)]
    <2>1. length \in Nat /\ head \in Nat
      BY <1>1 DEF TypeOK
    <2>2. ASSUME NEW i \in 1 .. length
          PROVE  array[Slot(head + i - 1)] \in Values \cup {Undef}
      <3>1. Len(array) # 0 /\ head + i - 1 \in Nat
        BY <1>1 DEF TypeOK
      <3>2. Slot(head + i - 1) \in 1 .. Len(array)
        BY <1>1, <3>1, SlotInArray
      <3> QED BY <1>1, <3>2 DEF TypeOK
    <2>3. Items \in [1 .. length -> Values \cup {Undef}]
      BY <2>2 DEF Items
    <2> QED BY <2>1, <2>3 DEF Items
  <1>2. (TypeOK => /\ Items \in Seq(Values \cup {Undef}) /\ Len(Items) = length
                   /\ \A i \in 1 .. length : Items[i] = array[Slot(head + i - 1)])'
    BY <1>1, PTL
  <1> QED BY <1>1, <1>2

LEMMA PushItems ==
  ASSUME TypeOK, TypeOK', NEW v \in Values, Push(v)
  PROVE  Items' = Append(Items, v)
  <1> USE DEF TypeOK
  <1>1. length' = length + 1 /\ length \in Nat
    BY DEF Push
  <1>2. SUFFICES ASSUME NEW i \in 1 .. length + 1
                 PROVE  array'[Slot(head + i - 1)'] = IF i <= length THEN Items[i] ELSE v
    <2> HIDE DEF TypeOK
    <2>1. Append(Items, v) \in Seq(Values \cup {Undef}) /\ Len(Append(Items, v)) = length + 1
      BY <1>1, ItemsSeq, AppendProperties
    <2>2. \A i \in 1 .. length + 1 : Append(Items, v)[i] = IF i <= length THEN Items[i] ELSE v
      BY <1>1, ItemsSeq, AppendProperties
    <2> QED BY <1>1, <2>1, <2>2, ItemsSeq, SeqEqual
  <1>3. CASE length = Len(array)
    <2>1. (length % NewCapacity) = length
      BY <1>3, CapacityGrows, RemainderSmall
    <2>2. array' = [Grown EXCEPT ![length + 1] = v] /\ head' = 0
      BY <1>3, <2>1 DEF Push
    <2>3. Grown \in Seq(Values \cup {Undef}) /\ Len(Grown) = NewCapacity
      BY <1>3, GrownType
    <2>4. NewCapacity \in Nat \ {0} /\ length + 1 \in 1 .. NewCapacity
      BY <1>3, CapacityGrows
    <2>5. /\ Len(array') = NewCapacity
          /\ \A j \in 1 .. NewCapacity : array'[j] = IF j = length + 1 THEN v ELSE Grown[j]
      BY <2>2, <2>3, <2>4, ExceptSeq
    <2>6. i - 1 \in 0 .. NewCapacity - 1
      BY <2>4
    <2>7. ((i - 1) % NewCapacity) = i - 1
      BY <2>4, <2>6, RemainderSmall
    <2>8. Slot(head + i - 1)' = i
      <3>1. head' + i - 1 = i - 1
        BY <2>2
      <3>2. Slot(head + i - 1)' = ((head' + i - 1) % Len(array')) + 1
        BY DEF Slot
      <3>3. Len(array') = NewCapacity
        BY <2>5
      <3> HIDE DEF TypeOK
      <3>4. Slot(head + i - 1)' = (i - 1) + 1
        BY <2>7, <3>1, <3>2, <3>3
      <3> QED BY <3>4
    <2>9. i \in 1 .. NewCapacity
      BY <2>4, <1>3
    <2>10. ASSUME i <= length PROVE Grown[i] = Items[i]
      BY <1>3, <2>9, <2>10, GrownType DEF Items
    <2>11. array'[Slot(head + i - 1)'] = array'[i]
      BY ONLY <2>8
    <2>12. array'[i] = IF i = length + 1 THEN v ELSE Grown[i]
      BY <2>5, <2>9
    <2>13. i <= length <=> i # length + 1
      BY <1>1
    <2> HIDE DEF TypeOK
    <2> QED BY <2>10, <2>11, <2>12, <2>13
  <1>4. CASE length # Len(array)
    <2>1. array' = [array EXCEPT ![Slot(tail)] = v] /\ head' = head
      BY <1>4 DEF Push
    <2>2. Len(array) # 0 /\ tail \in Nat /\ length < Len(array) /\ Len(array) \in Nat
      BY <1>4
    <2>3. Slot(tail) \in 1 .. Len(array)
      BY <2>2, SlotInArray
    <2>4. /\ Len(array') = Len(array)
          /\ \A j \in 1 .. Len(array) : array'[j] = IF j = Slot(tail) THEN v ELSE array[j]
      BY <2>1, <2>3, ExceptSeq
    <2>5. head + i - 1 \in Nat
      OBVIOUS
    <2>6. Slot(head + i - 1)' = Slot(head + i - 1)
      BY <2>1, <2>4 DEF Slot
    <2>7. Slot(head + i - 1) \in 1 .. Len(array)
      BY <2>2, <2>5, SlotInArray
    <2>8. CASE i <= length
      <3>1. head + i - 1 < tail /\ tail < head + i - 1 + Len(array)
        BY <2>2, <2>8
      <3>2. Slot(head + i - 1) # Slot(tail)
        BY <2>2, <2>5, <3>1, SlotsDiffer
      <3> QED BY <2>4, <2>6, <2>7, <2>8, <3>2 DEF Items
    <2>9. CASE i = length + 1
      <3>1. head + i - 1 = tail
        BY <2>9
      <3> QED BY <2>3, <2>4, <2>6, <2>9, <3>1
    <2> QED BY <2>8, <2>9
  <1> QED BY <1>3, <1>4

LEMMA ShiftItems ==
  ASSUME TypeOK, TypeOK', Shift, length # 0
  PROVE  Items # <<>> /\ out' = Head(Items) /\ Items' = Tail(Items)
  <1> USE DEF TypeOK
  <1>1. /\ Len(array) # 0 /\ Len(array) \in Nat /\ head \in Nat
        /\ length <= Len(array) /\ length \in Nat
    OBVIOUS
  <1>2. Slot(head) \in 1 .. Len(array)
    BY <1>1, SlotInArray
  <1>3. /\ out' = array[Slot(head)] /\ head' = head + 1 /\ length' = length - 1
        /\ array' = [array EXCEPT ![Slot(head)] = Undef]
    BY DEF Shift
  <1>4. /\ Len(array') = Len(array)
        /\ \A j \in 1 .. Len(array) : array'[j] = IF j = Slot(head) THEN Undef ELSE array[j]
    BY <1>2, <1>3, ExceptSeq
  <1>5. Items # <<>> /\ out' = Head(Items)
    <2>1. Items # <<>> /\ Head(Items) = Items[1]
      BY <1>1, ItemsSeq
    <2>2. head + 1 - 1 = head /\ 1 \in 1 .. length
      BY <1>1
    <2> QED BY <1>3, <2>1, <2>2, ItemsSeq
  <1>6. ASSUME NEW i \in 1 .. length - 1
        PROVE  array'[Slot(head + i - 1)'] = Items[i + 1]
    <2>1. /\ head + i \in Nat /\ head < head + i /\ head + i < head + Len(array)
          /\ head' + i - 1 = head + i /\ head + (i + 1) - 1 = head + i
          /\ i + 1 \in 1 .. length
      BY <1>1, <1>3
    <2>2. Slot(head + i - 1)' = Slot(head + i)
      BY <1>4, <2>1 DEF Slot
    <2>3. Slot(head + i) \in 1 .. Len(array) /\ Slot(head + i) # Slot(head)
      BY <1>1, <2>1, SlotInArray, SlotsDiffer
    <2>4. Items[i + 1] = array[Slot(head + i)]
      BY <2>1 DEF Items
    <2> QED BY <1>4, <2>2, <2>3, <2>4
  <1>7. /\ Tail(Items) \in Seq(Values \cup {Undef}) /\ Len(Tail(Items)) = length - 1
        /\ \A i \in 1 .. length - 1 : Tail(Items)[i] = Items[i + 1]
    BY <1>5, ItemsSeq, HeadTailProperties
  <1> QED BY <1>3, <1>5, <1>6, <1>7, ItemsSeq, SeqEqual

LEMMA PeekItems ==
  ASSUME TypeOK, Peek
  PROVE  Abstract!Peek
  <1> USE DEF TypeOK
  <1>1. Items' = Items
    BY DEF Items, Peek, Slot
  <1>2. CASE length = 0
    BY <1>1, <1>2 DEF Items, Peek, Front, Back, Abstract!Peek
  <1>3. CASE length # 0
    <2>1. length \in Nat /\ 1 \in 1 .. length /\ length \in 1 .. length
      BY <1>3
    <2>2. Len(Items) = length /\ Items # <<>>
      BY <1>3, <2>1, ItemsSeq
    <2>3. head + 1 - 1 = head /\ head + length - 1 = tail - 1
      OBVIOUS
    <2>4. Items[1] = Front /\ Items[length] = Back
      BY <1>3, <2>1, <2>3 DEF Items, Front, Back
    <2> QED BY <1>1, <2>2, <2>4 DEF Peek, Abstract!Peek
  <1> QED BY <1>2, <1>3

\* The class Queue is a FIFO queue (Queue.mjs:2): from the empty queue on,
\* every call returns, and leaves behind, what it does on a sequence.
THEOREM QueueImplementsFifo == Spec => ImplementsFifo
  <1>1. Init => Abstract!Init
    BY QueueAssumption DEF Init, Abstract!Init, Items
  <1>2. TypeOK /\ TypeOK' /\ [Next]_vars => [Abstract!Next]_Abstract!vars
    <2> SUFFICES ASSUME TypeOK, TypeOK', [Next]_vars
                 PROVE  Abstract!Next \/ UNCHANGED Abstract!vars
      OBVIOUS
    <2>1. ASSUME NEW v \in Values, Push(v) PROVE Abstract!Next
      <3>1. Abstract!Push(v)
        BY <2>1, PushItems DEF Push, Abstract!Push
      <3> QED BY <3>1 DEF Abstract!Next
    <2>2. ASSUME Shift PROVE Abstract!Next
      <3>1. CASE length = 0
        <4>1. Items = <<>> /\ Items' = <<>> /\ out' = Undef
          BY <2>2, <3>1 DEF Shift, Items
        <4> QED BY <4>1 DEF Abstract!Shift, Abstract!Next
      <3>2. CASE length # 0
        BY <2>2, <3>2, ShiftItems DEF Abstract!Shift, Abstract!Next
      <3> QED BY <3>1, <3>2
    <2>3. ASSUME Peek PROVE Abstract!Next
      BY <2>3, PeekItems DEF Abstract!Next
    <2>4. ASSUME Clear PROVE Abstract!Next
      BY <2>4 DEF Clear, Items, Abstract!Clear, Abstract!Next
    <2>5. ASSUME UNCHANGED vars PROVE UNCHANGED Abstract!vars
      BY <2>5 DEF vars, Items, Slot, Abstract!vars
    <2> QED BY <2>1, <2>2, <2>3, <2>4, <2>5 DEF Next
  <1> QED BY <1>1, <1>2, TypeCorrect, PTL DEF Spec, ImplementsFifo, Abstract!Spec

-----------------------------------------------------------------------------
(* The slots: those of the window hold the elements, and no other does.    *)

Filled == \A i \in 1 .. length : array[Slot(head + i - 1)] # Undef

Vacant ==
  \A s \in 1 .. Len(array) :
    array[s] # Undef => \E i \in 1 .. length : s = Slot(head + i - 1)

LEMMA SlotsInParts == ASSUME TypeOK PROVE SlotsExact <=> Filled /\ Vacant
  <1>1. ASSUME NEW i \in 1 .. length PROVE Slot(head + i - 1) \in 1 .. Len(array)
    <2>1. Len(array) # 0 /\ head + i - 1 \in Nat
      BY DEF TypeOK
    <2> QED BY <2>1, SlotInArray
  <1>2. \A s : s \in Live <=> \E i \in 1 .. length : s = Slot(head + i - 1)
    BY DEF Live
  <1> QED BY <1>1, <1>2 DEF SlotsExact, Filled, Vacant

\* What the elements are tells which slots are filled.
LEMMA FilledItems ==
  /\ TypeOK => (Filled <=> \A i \in 1 .. length : Items[i] # Undef)
  /\ TypeOK' => (Filled' <=> \A i \in 1 .. length' : Items'[i] # Undef)
  <1>1. TypeOK => (Filled <=> \A i \in 1 .. length : Items[i] # Undef)
    BY ItemsSeq DEF Filled
  <1>2. (TypeOK => (Filled <=> \A i \in 1 .. length : Items[i] # Undef))'
    BY <1>1, PTL
  <1> QED BY <1>1, <1>2

LEMMA PushSlots ==
  ASSUME TypeOK, TypeOK', Filled, Vacant, NEW v \in Values, Push(v)
  PROVE  Filled' /\ Vacant'
  <1>1. length' = length + 1 /\ length \in Nat /\ head \in Nat /\ tail = head + length
    BY DEF Push, TypeOK
  <1>2. Filled'
    <2>a. \A i \in 1 .. length + 1 : Append(Items, v)[i] = IF i <= length THEN Items[i] ELSE v
      BY <1>1, ItemsSeq, AppendProperties
    <2>b. Items' = Append(Items, v)
      BY PushItems
    <2>1. \A i \in 1 .. length + 1 : Items'[i] = IF i <= length THEN Items[i] ELSE v
      BY ONLY <2>a, <2>b
    <2> QED BY <1>1, <2>1, FilledItems, QueueAssumption
  <1>3. CASE length = Len(array)
    <2>1. (length % NewCapacity) = length
      BY <1>3, CapacityGrows, RemainderSmall
    <2>2. array' = [Grown EXCEPT ![length + 1] = v] /\ head' = 0
      BY <1>3, <2>1 DEF Push
    <2>3. /\ Grown \in Seq(Values \cup {Undef}) /\ Len(Grown) = NewCapacity
          /\ \A i \in 1 .. NewCapacity : i > length => Grown[i] = Undef
      BY <1>1, <1>3, GrownType
    <2>4. NewCapacity \in Nat \ {0} /\ length + 1 \in 1 .. NewCapacity
      BY <1>3, CapacityGrows
    <2>5. /\ Len(array') = NewCapacity
          /\ \A j \in 1 .. NewCapacity : array'[j] = IF j = length + 1 THEN v ELSE Grown[j]
      BY <2>2, <2>3, <2>4, ExceptSeq
    <2>6. ASSUME NEW s \in 1 .. Len(array'), array'[s] # Undef
          PROVE  s \in 1 .. length' /\ s = Slot(head + s - 1)'
      <3>1. s \in 1 .. NewCapacity /\ s <= length + 1
        BY <1>1, <2>3, <2>4, <2>5, <2>6
      <3>2. ((s - 1) % NewCapacity) = s - 1
        <4>1. s - 1 \in 0 .. NewCapacity - 1
          BY <2>4, <3>1
        <4> QED BY <2>4, <4>1, RemainderSmall
      <3>3. Slot(head + s - 1)' = ((head' + s - 1) % Len(array')) + 1
        BY DEF Slot
      <3>4. head' + s - 1 = s - 1 /\ Len(array') = NewCapacity /\ (s - 1) + 1 = s
        BY <2>2, <2>5, <3>1
      <3>5. s \in 1 .. length'
        BY <1>1, <3>1
      <3> QED BY <3>2, <3>3, <3>4, <3>5
    <2> QED BY <1>2, <2>6 DEF Vacant
  <1>4. CASE length # Len(array)
    <2>1. array' = [array EXCEPT ![Slot(tail)] = v] /\ head' = head
      BY <1>4 DEF Push
    <2>2. Slot(tail) \in 1 .. Len(array)
      <3>1. Len(array) # 0 /\ tail \in Nat
        BY <1>4 DEF TypeOK
      <3> QED BY <3>1, SlotInArray
    <2>3. /\ Len(array') = Len(array)
          /\ \A j \in 1 .. Len(array) : array'[j] = IF j = Slot(tail) THEN v ELSE array[j]
      BY <2>1, <2>2, ExceptSeq DEF TypeOK
    <2>4. \A i : Slot(head + i - 1)' = Slot(head + i - 1)
      BY <2>1, <2>3 DEF Slot
    <2>5. ASSUME NEW s \in 1 .. Len(array'), array'[s] # Undef
          PROVE  \E i \in 1 .. length' : s = Slot(head + i - 1)
      <3>1. CASE s = Slot(tail)
        <4>1. length + 1 \in 1 .. length' /\ head + (length + 1) - 1 = tail
          BY <1>1
        <4> QED BY <3>1, <4>1
      <3>2. CASE s # Slot(tail)
        <4>1. PICK i \in 1 .. length : s = Slot(head + i - 1)
          BY <2>3, <2>5, <3>2 DEF Vacant
        <4>2. i \in 1 .. length'
          BY <1>1
        <4> QED BY <4>1, <4>2
      <3> QED BY <3>1, <3>2
    <2>6. \A s \in 1 .. Len(array') : array'[s] # Undef =>
            \E i \in 1 .. length' : s = Slot(head + i - 1)'
      BY ONLY <2>4, <2>5
    <2> QED BY <1>2, <2>6 DEF Vacant
  <1> QED BY <1>3, <1>4

LEMMA ShiftSlots ==
  ASSUME TypeOK, TypeOK', Filled, Vacant, Shift, length # 0
  PROVE  Filled' /\ Vacant'
  <1>1. /\ length' = length - 1 /\ length \in Nat \ {0} /\ head \in Nat /\ head' = head + 1
        /\ array' = [array EXCEPT ![Slot(head)] = Undef]
    BY DEF Shift, TypeOK
  <1>2. Filled'
    <2>a. /\ Items \in Seq(Values \cup {Undef}) /\ Len(Items) = length
          /\ Items # <<>> /\ Items' = Tail(Items)
      BY ShiftItems, ItemsSeq
    <2>b. \A i \in 1 .. length - 1 : Tail(Items)[i] = Items[i + 1]
      BY <1>1, <2>a, HeadTailProperties
    <2>1. \A i \in 1 .. length - 1 : Items'[i] = Items[i + 1]
      BY ONLY <2>a, <2>b
    <2>2. \A i \in 1 .. length - 1 : i + 1 \in 1 .. length
      BY <1>1
    <2> QED BY <1>1, <2>1, <2>2, FilledItems
  <1>3. Slot(head) \in 1 .. Len(array)
    <2>1. Len(array) # 0
      BY <1>1 DEF TypeOK
    <2> QED BY <1>1, <2>1, SlotInArray
  <1>4. /\ Len(array') = Len(array)
        /\ \A j \in 1 .. Len(array) : array'[j] = IF j = Slot(head) THEN Undef ELSE array[j]
    BY <1>1, <1>3, ExceptSeq DEF TypeOK
  <1>5. ASSUME NEW s \in 1 .. Len(array'), array'[s] # Undef
        PROVE  \E i \in 1 .. length' : s = Slot(head + i - 1)'
    <2>1. PICK i \in 1 .. length : s = Slot(head + i - 1)
      BY <1>4, <1>5 DEF Vacant
    <2>2. i # 1
      <3>1. head + 1 - 1 = head
        BY <1>1
      <3>2. s # Slot(head)
        BY <1>4, <1>5
      <3> QED BY <2>1, <3>1, <3>2
    <2>3. i - 1 \in 1 .. length' /\ head' + (i - 1) - 1 = head + i - 1
      BY <1>1, <2>2
    <2>4. Slot(head + (i - 1) - 1)' = Slot(head + i - 1)
      BY <1>4, <2>3 DEF Slot
    <2> QED BY <2>1, <2>3, <2>4
  <1> QED BY <1>2, <1>5 DEF Vacant

\* Whatever the window has wrapped around and the array grown from, no slot
\* outside it keeps an element and none in it is empty (Queue.mjs:104).
THEOREM SlotsAreExact == Spec => []SlotsExact
  <1>1. Init => Filled /\ Vacant
    <2> SUFFICES ASSUME Init PROVE Filled /\ Vacant
      OBVIOUS
    <2>1. length = 0 /\ array = Blank(Capacity0)
      BY DEF Init
    <2>2. \A s \in 1 .. Len(array) : array[s] = Undef
      BY <2>1, QueueAssumption DEF Blank
    <2> QED BY <2>1, <2>2 DEF Filled, Vacant
  <1>2. TypeOK /\ TypeOK' /\ Filled /\ Vacant /\ [Next]_vars => Filled' /\ Vacant'
    <2> SUFFICES ASSUME TypeOK, TypeOK', Filled, Vacant, [Next]_vars
                 PROVE  Filled' /\ Vacant'
      OBVIOUS
    <2>1. ASSUME NEW v \in Values, Push(v) PROVE Filled' /\ Vacant'
      BY <2>1, PushSlots
    <2>2. ASSUME UNCHANGED <<array, head, length>> PROVE Filled' /\ Vacant'
      BY <2>2 DEF Filled, Vacant, Slot
    <2>3. ASSUME Shift PROVE Filled' /\ Vacant'
      BY <2>2, <2>3, ShiftSlots DEF Shift
    <2>4. ASSUME Clear PROVE Filled' /\ Vacant'
      BY <2>4 DEF Clear, Filled, Vacant
    <2> QED BY <2>1, <2>2, <2>3, <2>4 DEF Next, Peek, vars
  <1>3. TypeOK => (Filled /\ Vacant => SlotsExact)
    BY SlotsInParts
  <1> QED BY <1>1, <1>2, <1>3, TypeCorrect, PTL DEF Spec
=============================================================================
