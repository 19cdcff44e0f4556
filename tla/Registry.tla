------------------------------ MODULE Registry ------------------------------
(***************************************************************************)
(* The class Module of packages/core/Module.mjs: descriptors of factories, *)
(* constants and hooks by identity.  Operations on an immutable module     *)
(* copy it twice, those on a mutable one change it.  Descriptors are       *)
(* objects: an entry names the cell of the heap its descriptor is in.      *)
(***************************************************************************)
EXTENDS Naturals, Sequences, Functions

CONSTANTS Identities, Callbacks,
          MaxModules   \* bound on copies

VARIABLE registry   \* mods: the modules made so far; heap: the descriptors

NewModule == [mutable |-> FALSE, schedule |-> {}, objects |-> << >>]

\* createModuleObjectDescriptor(); value and construct as sets of at most one.
Empty == [value |-> {}, construct |-> {}, before |-> {}, after |-> {}]

\* Two modules made by new Module().
RegistryInit == registry = [mods |-> <<NewModule, NewModule>>, heap |-> << >>]

ModuleIds == DOMAIN registry.mods

Known(r, m, x) == x \in DOMAIN r.mods[m].objects

Descriptor(r, m, x) == r.heap[r.mods[m].objects[x]]

\* f with the entries of g, which replace those of f.
Merge(f, g) ==
  [x \in DOMAIN f \cup DOMAIN g |-> IF x \in DOMAIN g THEN g[x] ELSE f[x]]

-----------------------------------------------------------------------------
\* Mutated form of Copied, for ImmutableKept: the descriptors are not copied.
CopiedShallow(r, m, mutable) ==
  [r EXCEPT !.mods = Append(@, [r.mods[m] EXCEPT !.mutable = mutable])]

\* new Module({ ...module, mutable }): descriptors and their sets are copied.
Copied(r, m, mutable) ==
  LET n == Len(r.mods) + 1
      D == DOMAIN r.mods[m].objects
  IN [mods |-> Append(r.mods, [r.mods[m] EXCEPT
                                 !.mutable = mutable,
                                 !.objects = [x \in D |-> <<n, x>>]]),
      heap |-> Merge(r.heap, [c \in {n} \X D |-> Descriptor(r, m, c[2])])]

\* Module m with descriptor d in a cell of its own for x.
Placed(r, m, x, d) ==
  [mods |-> [r.mods EXCEPT ![m].objects = Merge(@, [y \in {x} |-> <<m, x>>])],
   heap |-> Merge(r.heap, [c \in {<<m, x>>} |-> d])]

\* objects.get(identity) makes an empty descriptor for one that is missing.
Fetched(r, m, x) == IF Known(r, m, x) THEN r ELSE Placed(r, m, x, Empty)

\* The same with descriptor d in the cell of x.
Updated(r, m, x, d) == [r EXCEPT !.heap[r.mods[m].objects[x]] = d]

\* withMutations(): the module that its callback is given, which may keep it for
\* later, and the registry then; and the end of it, where r is what the callback
\* has left.  A mutable module is changed in place; of an immutable one a
\* mutable copy is, and an immutable copy of that is returned.
Obj(m) == IF registry.mods[m].mutable THEN m ELSE Len(registry.mods) + 1

Opened(m) == IF Obj(m) = m THEN registry ELSE Copied(registry, m, TRUE)

WithMutations(m, r) ==
  IF Obj(m) = m
    THEN registry' = r
    ELSE Obj(m) < MaxModules /\ registry' = Copied(r, Obj(m), FALSE)

AsMutable(m) ==
  /\ ~registry.mods[m].mutable /\ Len(registry.mods) < MaxModules
  /\ registry' = Copied(registry, m, TRUE)

\* asImmutable() of a mutable module, which initiate() calls too.
AsImmutable(m) ==
  /\ registry.mods[m].mutable /\ Len(registry.mods) < MaxModules
  /\ registry' = Copied(registry, m, FALSE)

\* A change of the descriptor that get() finds or makes for x.
Looked(m, x) == Fetched(Opened(m), Obj(m), x)

Found(m, x) == Descriptor(Looked(m, x), Obj(m), x)

Change(m, x, d) == WithMutations(m, Updated(Looked(m, x), Obj(m), x, d))

After(m, x, f) == Change(m, x, [Found(m, x) EXCEPT !.after = @ \cup {f}])

Before(m, x, f) == Change(m, x, [Found(m, x) EXCEPT !.before = @ \cup {f}])

\* The identity of a factory is the function itself.
Factory(m, x) == Change(m, x, [Found(m, x) EXCEPT !.value = {}, !.construct = {x}])

Constant(m, x, v) == Change(m, x, [Found(m, x) EXCEPT !.value = {v}])

Delete(m, x) ==
  WithMutations(m, [Opened(m) EXCEPT !.mods[Obj(m)].objects = Restrict(@, DOMAIN @ \ {x})])

Schedule(m, f) ==
  WithMutations(m, [Opened(m) EXCEPT !.mods[Obj(m)].schedule = @ \cup {f}])

\* extends() puts copies of all of their descriptors in the place of ours.
Extends(m, other) ==
  LET r == Opened(m)
      n == Obj(m)
      D == DOMAIN r.mods[other].objects
  IN WithMutations(m,
       [mods |-> [r.mods EXCEPT
                    ![n].schedule = @ \cup r.mods[other].schedule,
                    ![n].objects = Merge(@, [x \in D |-> <<n, x>>])],
        heap |-> Merge(r.heap, [c \in {n} \X D |-> Descriptor(r, other, c[2])])])

\* Scope.construct() asks the map of the immutable module it was given, which
\* thereby gets an empty descriptor for an identity that nobody registered.
GetDescriptor(m, x) ==
  /\ ~registry.mods[m].mutable
  /\ registry' = Fetched(registry, m, x)

RegistryNext ==
  \E m \in ModuleIds :
    \/ AsMutable(m) \/ AsImmutable(m) \/ \E other \in ModuleIds : Extends(m, other)
    \/ \E f \in Callbacks : Schedule(m, f)
    \/ \E x \in Identities :
         \/ GetDescriptor(m, x) \/ Delete(m, x) \/ Factory(m, x)
         \/ \E f \in Callbacks : After(m, x, f) \/ Before(m, x, f) \/ Constant(m, x, f)

RegistrySpec == RegistryInit /\ [][RegistryNext]_registry

-----------------------------------------------------------------------------
\* What module m knows of x: the set of its descriptor, or {}.
View(r, m, x) == IF Known(r, m, x) THEN {Descriptor(r, m, x)} ELSE {}

\* A module that is immutable stays as it is (Module.mjs:350 "Creates an
\* immutable copy"), whatever is done to the modules it was copied from or
\* that were copied from it; all that can come to it are the empty
\* descriptors that looking up unknown identities leaves behind.
ImmutableKept ==
  [][\A m \in ModuleIds :
       ~registry.mods[m].mutable =>
         /\ registry'.mods[m].schedule = registry.mods[m].schedule
         /\ \A x \in Identities :
              \/ View(registry', m, x) = View(registry, m, x)
              \/ View(registry, m, x) = {} /\ View(registry', m, x) = {Empty}]_registry
=============================================================================
