------------------------------- MODULE LRUMap -------------------------------
(***************************************************************************)
(* packages/core/LRUMap.mjs over a JavaScript Map, which keeps its entries *)
(* in the order in which their keys were inserted, and withCache.mjs, by   *)
(* which the router caches parsed paths and URLs and the evaluation of     *)
(* instructions its compiled expressions.                                  *)
(***************************************************************************)
EXTENDS Naturals, SequencesExt

CONSTANTS Names,      \* keys
          Data,       \* values other than undefined
          Undefined,
          Capacity    \* Math.max(0, maxLength)

ASSUME LRUAssumption == Capacity \in Nat /\ Undefined \notin Data

VARIABLES order,   \* the keys of the Map, in its order
          entry,   \* the value of every key, Undefined if it has none
          answer,  \* the key of the last call and what it returned
          newer    \* history: for every key, the keys that were inserted or
                   \* found since it was itself; Names for a key never used

lruVars == <<order, entry, answer, newer>>

LRUInit ==
  /\ order = <<>> /\ entry = [k \in Names |-> Undefined]
  /\ answer = <<>> /\ newer = [k \in Names |-> Names]

Known(k) == Contains(order, k)

\* k has just been inserted or found.
Used(k) == [x \in Names |-> IF x = k THEN {} ELSE newer[x] \cup {k}]

-----------------------------------------------------------------------------
\* The newest Capacity keys: the loop deletes the first key while there are
\* more of them.
Newest(keys) ==
  SubSeq(keys, IF Len(keys) > Capacity THEN Len(keys) - Capacity + 1 ELSE 1, Len(keys))

\* Mutated form of LRUSet, for LRUImplementsCache: as in a BiMap, a key that is
\* known keeps its value.
LRUSetOnce(k, v) ==
  LET kept == Newest(IF Known(k) THEN order ELSE Append(order, k))
  IN /\ order' = kept
     /\ entry' = [x \in Names |-> IF ~Contains(kept, x) THEN Undefined
                                  ELSE IF x = k /\ ~Known(k) THEN v ELSE entry[x]]
     /\ newer' = IF Known(k) THEN newer ELSE Used(k)
     /\ answer' = <<k, v>>

\* A key that is known keeps its place in the Map.
LRUSet(k, v) ==
  LET kept == Newest(IF Known(k) THEN order ELSE Append(order, k))
  IN /\ order' = kept
     /\ entry' = [x \in Names |-> IF ~Contains(kept, x) THEN Undefined
                                  ELSE IF x = k THEN v ELSE entry[x]]
     /\ newer' = IF Known(k) THEN newer ELSE Used(k)
     /\ answer' = <<k, v>>

\* Mutated form of LRUGet, for RecentStays: what is found keeps its place.
LRUGetInPlace(k) ==
  /\ answer' = <<k, entry[k]>>
  /\ newer' = IF Known(k) THEN Used(k) ELSE newer
  /\ UNCHANGED <<order, entry>>

LRUGet(k) ==
  /\ answer' = <<k, entry[k]>>
  /\ \/ ~Known(k) /\ UNCHANGED <<order, newer>>
     \/ \E i \in DOMAIN order :
          /\ order[i] = k /\ order' = Append(RemoveAt(order, i), k)
          /\ newer' = Used(k)
  /\ UNCHANGED entry

\* The function that withCache() returns, whose factory makes v of k.
Memo(k, v) == IF Known(k) THEN LRUGet(k) ELSE LRUSet(k, v)

LRUClear ==
  /\ order' = <<>> /\ entry' = [k \in Names |-> Undefined]
  /\ newer' = [k \in Names |-> Names]
  /\ UNCHANGED answer

LRUNext ==
  \/ LRUClear
  \/ \E k \in Names : LRUGet(k) \/ \E v \in Data : LRUSet(k, v) \/ Memo(k, v)

LRUSpec == LRUInit /\ [][LRUNext]_lruVars

-----------------------------------------------------------------------------
\* A key is evicted only after Capacity other keys have been inserted or found
\* since it was (LRUMap.mjs:43 "removes least recently used entries"); to set
\* a known key again is no use of it (LRUMap.mjs:50).
RecentStays ==
  \A k \in Names : newer[k] # Names /\ Cardinality(newer[k]) < Capacity => Known(k)

Abstract == INSTANCE Cache WITH store <- entry

\* Through evictions and rotations a key answers with the value last set for
\* it, or with undefined, and never more than Capacity keys are known.
LRUImplementsCache == Abstract!CacheSpec
=============================================================================
