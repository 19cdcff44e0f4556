------------------------------- MODULE BiMap --------------------------------
(***************************************************************************)
(* packages/core/BiMap.mjs: two maps, each the inverse of the other, whose *)
(* operations call one another.  Both sides have all the operations.  The  *)
(* children of every node of a RadixTree are kept in one.                  *)
(***************************************************************************)
EXTENDS Naturals, FiniteSets, Functions

CONSTANTS Keys, Vals    \* the keys of the two sides

VARIABLES data,   \* the field data of each side, a partial function
          size,   \* the field size of each side
          clean   \* history: nobody has set a new key to a value that is taken

biVars == <<data, size, clean>>

Sides == {"map", "inverse"}

Other(s) == IF s = "map" THEN "inverse" ELSE "map"

KeysOf(s) == IF s = "map" THEN Keys ELSE Vals

None == [x \in {} |-> x]

BiMapInit ==
  /\ data = [s \in Sides |-> None]
  /\ size = [s \in Sides |-> 0]
  /\ clean = TRUE

Has(s, k) == k \in DOMAIN data[s]

\* f with k mapped to v.
With(f, k, v) == [x \in DOMAIN f \cup {k} |-> IF x = k THEN v ELSE f[x]]

-----------------------------------------------------------------------------
\* set() of a known key is ignored.  The inverse is set in turn: it ignores a
\* value it knows, and otherwise calls back with a key that is now known.
BiSet(s, k, v) ==
  /\ IF Has(s, k)
       THEN UNCHANGED biVars
       ELSE LET o == Other(s)
                taken == Has(o, v)
            IN /\ data' = [data EXCEPT
                             ![s] = With(@, k, v),
                             ![o] = IF taken THEN @ ELSE With(@, v, k)]
               /\ size' = [size EXCEPT
                             ![s] = @ + 1, ![o] = IF taken THEN @ ELSE @ + 1]
               /\ clean' = (clean /\ ~taken)

\* The sets of keys, with their sides, that contain what delete() of any
\* member goes on to.
Closed(C) ==
  \A n \in C : Has(n[1], n[2]) => <<Other(n[1]), data[n[1]][n[2]]>> \in C

\* delete() removes the key, has the inverse delete its value, which has this
\* side delete what the inverse knew it by, and so on.
Chain(s, k) ==
  LET Nodes == ({"map"} \X Keys) \cup ({"inverse"} \X Vals)
  IN {n \in Nodes : \A C \in SUBSET Nodes : <<s, k>> \in C /\ Closed(C) => n \in C}

\* Mutated form of BiDelete, for BiMapConsistent: the inverse is not told.
BiDeleteHere(s, k) ==
  /\ data' = [data EXCEPT ![s] = Restrict(@, DOMAIN @ \ {k})]
  /\ size' = [size EXCEPT ![s] = IF Has(s, k) THEN @ - 1 ELSE @]
  /\ UNCHANGED clean

BiDelete(s, k) ==
  LET gone(t) == {x \in DOMAIN data[t] : <<t, x>> \in Chain(s, k)}
  IN /\ data' = [t \in Sides |-> Restrict(data[t], DOMAIN data[t] \ gone(t))]
     /\ size' = [t \in Sides |-> size[t] - Cardinality(gone(t))]
     /\ UNCHANGED clean

\* clear() of a side of size 0 returns at once, whatever the other side holds.
BiClear(s) ==
  /\ IF size[s] = 0
       THEN UNCHANGED biVars
       ELSE /\ data' = [t \in Sides |-> IF t = s \/ size[t] # 0 THEN None ELSE data[t]]
            /\ size' = [t \in Sides |-> 0]
            /\ clean' = TRUE

BiMapNext ==
  \E s \in Sides :
    \/ BiClear(s)
    \/ \E k \in KeysOf(s) : \/ BiDelete(s, k)
                            \/ \E v \in KeysOf(Other(s)) : BiSet(s, k, v)

BiMapSpec == BiMapInit /\ [][BiMapNext]_biVars

-----------------------------------------------------------------------------
\* "Each key maps to exactly one value, and each value maps to exactly one key"
\* (BiMap.mjs:5): both sizes count the entries of their side, and, as long as
\* no caller pairs a new key with a value that is taken, the sides are inverse
\* to each other through every sequence of set(), delete() and clear() on
\* either.  RadixTree only ever pairs a new segment with a new node
\* (RadixTree.mjs:70-77), and getPath() depends on it.
BiMapConsistent ==
  /\ \A s \in Sides : size[s] = Cardinality(DOMAIN data[s])
  /\ clean => \A s \in Sides : \A k \in DOMAIN data[s] :
                Has(Other(s), data[s][k]) /\ data[Other(s)][data[s][k]] = k
=============================================================================
