------------------------------- MODULE Cache --------------------------------
(***************************************************************************)
(* What a caller may expect of a cache of bounded capacity: it may forget  *)
(* anything when something is put into it, but what it answers is what was *)
(* last put for that key.                                                  *)
(***************************************************************************)
EXTENDS Naturals, FiniteSets

CONSTANTS Names, Data, Undefined, Capacity

VARIABLES store,   \* what is remembered: Undefined for what is not
          answer   \* the key of the last call and what it returned

CacheInit == store = [k \in Names |-> Undefined] /\ answer = <<>>

Put(k, v) ==
  \E kept \in SUBSET Names :
    /\ Cardinality(kept) <= Capacity
    /\ store' = [x \in Names |-> IF x \notin kept THEN Undefined
                                 ELSE IF x = k THEN v ELSE store[x]]
    /\ answer' = <<k, v>>

Look(k) == answer' = <<k, store[k]>> /\ UNCHANGED store

Forget == store' = [k \in Names |-> Undefined] /\ UNCHANGED answer

CacheNext ==
  Forget \/ \E k \in Names : Look(k) \/ \E v \in Data : Put(k, v)

CacheSpec == CacheInit /\ [][CacheNext]_<<store, answer>>
=============================================================================
