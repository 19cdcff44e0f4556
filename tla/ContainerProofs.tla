---------------------------- MODULE ContainerProofs ----------------------------
(***************************************************************************)
(* The scope of an instance for all templates, and the registry for all    *)
(* modules.                                                                *)
(*                                                                         *)
(* That the stages of a construction follow each other holds for every     *)
(* template; that an identity is constructed once, and that what is        *)
(* injected stays the same object until it is ready, for those without     *)
(* circles.  That immutable modules are not changed rests on no two of     *)
(* them having a descriptor in common.                                     *)
(***************************************************************************)
EXTENDS Scope, Registry, FiniteSetTheorems, SequenceTheorems, NaturalsInduction, TLAPS

States == {"none", "open", "promised", "ready", "failed", "thrown"}
Standings == {"waiting", "async", "done", "failed"}

FieldsOK ==
  /\ objects \in [Scopes -> [Objects -> 0 .. MaxAttempts]]
  /\ status \in [Constructions -> States]
  /\ calls \in [Constructions -> Seq(Standings)]
  /\ stack \in Seq(Constructions)
  /\ \A c \in Constructions : Len(calls[c]) <= Len(Parts[c.id])

\* The n-th construction of x in s.
Attempt(s, x, n) == [scope |-> s, id |-> x, n |-> n]

\* The attempts of an identity are numbered from 1 on.
NumbersOK ==
  \A s \in Scopes, x \in Objects : \A m, n \in 1 .. MaxAttempts :
    m < n /\ status[Attempt(s, x, n)] # "none" => status[Attempt(s, x, m)] # "none"

ScopeInv == FieldsOK /\ ScopeTypeOK /\ NumbersOK /\ HooksAround

-----------------------------------------------------------------------------
LEMMA AttemptFacts ==
  /\ \A s \in Scopes, x \in Objects, n \in 0 .. MaxAttempts :
       /\ Attempt(s, x, n) \in Constructions
       /\ Attempt(s, x, n).scope = s /\ Attempt(s, x, n).id = x /\ Attempt(s, x, n).n = n
  /\ \A c \in Constructions :
       /\ c.scope \in Scopes /\ c.id \in Objects /\ c.n \in 0 .. MaxAttempts
       /\ c = Attempt(c.scope, c.id, c.n)
  BY DEF Attempt, Constructions

LEMMA NumberFacts == MaxAttempts \in Nat /\ \A n \in 1 .. MaxAttempts : n \in 0 .. MaxAttempts /\ n # 0
  <1>1. MaxAttempts \in Nat
    BY ScopeAssumption
  <1> QED BY <1>1

LEMMA HolderFacts ==
  ASSUME NEW s \in Scopes, NEW x \in Objects
  PROVE  /\ objects[s][x] # 0 => Holder(s, x) = Attempt(s, x, objects[s][x])
         /\ objects[s][x] = 0 => Holder(s, x) = Attempt("main", x, objects["main"][x])
  BY DEF Holder, Attempt

LEMMA HolderKnown ==
  ASSUME FieldsOK, NEW s \in Scopes, NEW x \in Objects
  PROVE  Holder(s, x) \in Constructions
  <1>1. "main" \in Scopes
    BY DEF Scopes
  <1>2. objects[s][x] \in 0 .. MaxAttempts /\ objects["main"][x] \in 0 .. MaxAttempts
    BY <1>1 DEF FieldsOK
  <1>3. Holder(s, x) = Attempt(s, x, objects[s][x])
        \/ Holder(s, x) = Attempt("main", x, objects["main"][x])
    BY HolderFacts
  <1> QED BY <1>1, <1>2, <1>3, AttemptFacts

\* An attempt that begins is a new one.
LEMMA NextAttempt ==
  ASSUME FieldsOK, NumbersOK, NEW s \in Scopes, NEW x \in Objects,
         NEW n, n = Attempts(s, x) + 1, n <= MaxAttempts
  PROVE  /\ n \in 1 .. MaxAttempts /\ status[Attempt(s, x, n)] = "none"
         /\ \A m \in 1 .. MaxAttempts : m < n => status[Attempt(s, x, m)] # "none"
  <1> DEFINE A == {m \in 1 .. MaxAttempts : status[Attempt(s, x, m)] # "none"}
  <1>1. MaxAttempts \in Nat /\ A \subseteq 1 .. MaxAttempts
    BY ScopeAssumption
  <1>2. IsFiniteSet(A) /\ Cardinality(A) \in Nat /\ n = Cardinality(A) + 1
    <2>1. IsFiniteSet(A)
      BY <1>1, FS_Interval, FS_Subset
    <2>2. Attempts(s, x) = Cardinality(A)
      BY DEF Attempts, Attempt
    <2> QED BY <2>1, <2>2, FS_CardinalityType
  <1>3. \A m, k \in 1 .. MaxAttempts : m < k /\ k \in A => m \in A
    BY DEF NumbersOK
  <1> HIDE DEF A
  <1>4. n \in 1 .. MaxAttempts
    BY <1>1, <1>2
  <1>5. n \notin A
    <2> SUFFICES ASSUME n \in A PROVE FALSE
      OBVIOUS
    <2>1. 1 .. n \subseteq A
      BY <1>1, <1>3, <1>4
    <2>2. Cardinality(1 .. n) <= Cardinality(A)
      BY <1>2, <2>1, FS_Subset
    <2>3. Cardinality(1 .. n) = n
      BY <1>4, FS_Interval
    <2> QED BY <1>2, <2>2, <2>3
  <1>6. ASSUME NEW m \in 1 .. MaxAttempts, m < n PROVE m \in A
    <2> SUFFICES ASSUME m \notin A PROVE FALSE
      OBVIOUS
    <2>1. A \subseteq 1 .. (m - 1)
      BY <1>1, <1>3
    <2>2. IsFiniteSet(1 .. (m - 1)) /\ Cardinality(1 .. (m - 1)) = m - 1
      BY FS_Interval
    <2>3. Cardinality(A) <= m - 1
      BY <2>1, <2>2, FS_Subset
    <2> QED BY <1>2, <1>6, <2>3
  <1> QED BY <1>4, <1>5, <1>6 DEF A

\* The least of a set of numbers is one of them.
LEMMA LeastIsOne ==
  ASSUME NEW S, S \subseteq Nat, S # {}
  PROVE  Min(S) \in S
  <1>1. \E x \in S : \A y \in S : x <= y
    <2>1. PICK x \in S : \A y \in S : <<y, x>> \notin OpToRel(<, Nat)
      BY WFMin, NatLessThanWellFounded, Zenon
    <2>2. \A y \in S : ~ (y < x)
      BY <2>1, Zenon DEF OpToRel
    <2> QED BY <2>2
  <1> QED BY <1>1 DEF Min

-----------------------------------------------------------------------------
(* ScopeTypeOK and HooksAround in parts.                                   *)

StackOK ==
  \A i \in 1 .. Len(stack) :
    /\ status[stack[i]] = "open" \/ (i = 1 /\ status[stack[i]] = "promised")
    /\ \A j \in 1 .. Len(stack) : stack[i] = stack[j] => i = j

StatusOK(c) ==
  /\ status[c] = "open" => \E i \in 1 .. Len(stack) : stack[i] = c
  /\ status[c] = "none" => calls[c] = <<>>

HeldOK(s, x) ==
  objects[s][x] # 0 => status[Attempt(s, x, objects[s][x])] \in {"promised", "ready", "failed"}

\* The stages of a construction, and the end of it.
StagesOK(c) ==
  /\ \A i, j \in 1 .. Len(calls[c]) :
       Parts[c.id][i].stage < Parts[c.id][j].stage => calls[c][i] = "done"
  /\ status[c] = "ready" => Finished(c) /\ AllDone(c)

\* What is the same at another moment.
Whole ==
  /\ FieldsOK /\ StackOK /\ NumbersOK
  /\ \A c \in Constructions : StatusOK(c) /\ StagesOK(c)
  /\ \A s \in Scopes, x \in Objects : HeldOK(s, x)

LEMMA WholeIsInv == ScopeInv <=> Whole
  <1>1. ASSUME FieldsOK PROVE ScopeTypeOK <=> /\ StackOK
                                              /\ \A c \in Constructions : StatusOK(c)
                                              /\ \A s \in Scopes, x \in Objects : HeldOK(s, x)
    <2>1. DOMAIN stack = 1 .. Len(stack) /\ \A c \in Constructions : status[c] \in States
      BY <1>1 DEF FieldsOK
    <2>2. \A s \in Scopes, x \in Objects :
            objects[s][x] # 0 => Holder(s, x) = Attempt(s, x, objects[s][x])
      BY HolderFacts
    <2>3. (\A i \in DOMAIN stack :
            /\ status[stack[i]] \in IF i = 1 THEN {"open", "promised"} ELSE {"open"}
            /\ \A j \in DOMAIN stack : stack[i] = stack[j] => i = j) <=> StackOK
      BY <2>1 DEF StackOK
    <2>4. (\A c \in Constructions :
            /\ status[c] \in {"none", "open", "promised", "ready", "failed", "thrown"}
            /\ status[c] = "open" => \E i \in DOMAIN stack : stack[i] = c
            /\ status[c] = "none" => calls[c] = <<>>)
          <=> \A c \in Constructions : StatusOK(c)
      BY <2>1 DEF StatusOK, States
    <2>5. (\A s \in Scopes, x \in Objects :
            objects[s][x] # 0 => status[Holder(s, x)] \in {"promised", "ready", "failed"})
          <=> \A s \in Scopes, x \in Objects : HeldOK(s, x)
      BY <2>2 DEF HeldOK
    <2> QED BY <2>3, <2>4, <2>5 DEF ScopeTypeOK
  <1>2. ASSUME FieldsOK PROVE HooksAround <=> \A c \in Constructions : StagesOK(c)
    <2>1. \A c \in Constructions : DOMAIN calls[c] = 1 .. Len(calls[c])
      BY <1>2 DEF FieldsOK
    <2> QED BY <2>1 DEF HooksAround, StagesOK
  <1> QED BY <1>1, <1>2 DEF ScopeInv, Whole

\* A template in parts.
LEMMA PartFacts ==
  ASSUME NEW x \in Objects
  PROVE  /\ Parts[x] \in Seq([stage : 1 .. 3, inject : Seq(Objects)]) /\ Len(Parts[x]) \in Nat
         /\ \A k \in 1 .. Len(Parts[x]) :
              Parts[x][k].stage \in 1 .. 3 /\ Parts[x][k].inject \in Seq(Objects)
         /\ \A i, j \in 1 .. Len(Parts[x]) : i < j => Parts[x][i].stage <= Parts[x][j].stage
  <1>1. Parts[x] \in Seq([stage : 1 .. 3, inject : Seq(Objects)])
    BY ScopeAssumption DEF Hooked, Decorated
  <1>2. \A k \in 1 .. Len(Parts[x]) : Parts[x][k] \in [stage : 1 .. 3, inject : Seq(Objects)]
    <2> DEFINE R == [stage : 1 .. 3, inject : Seq(Objects)]
    <2>1. Parts[x] \in Seq(R)
      BY <1>1
    <2> HIDE DEF R
    <2>2. \A k \in 1 .. Len(Parts[x]) : Parts[x][k] \in R
      BY <2>1
    <2> QED BY <2>2 DEF R
  <1>3. DOMAIN Parts[x] = 1 .. Len(Parts[x]) /\ Len(Parts[x]) \in Nat
    BY <1>1
  <1>4. \A i, j \in DOMAIN Parts[x] : i < j => Parts[x][i].stage <= Parts[x][j].stage
    BY ScopeAssumption
  <1> QED BY <1>1, <1>2, <1>3, <1>4

LEMMA TopFacts ==
  ASSUME Whole, stack # <<>>
  PROVE  /\ Top \in Constructions /\ Len(stack) \in Nat \ {0} /\ Top = stack[Len(stack)]
         /\ status[Top] \in {"open", "promised"}
         /\ Top.id \in Objects /\ Top.scope \in Scopes
         /\ calls[Top] \in Seq(Standings) /\ Len(calls[Top]) \in Nat
         /\ Len(calls[Top]) <= Len(Parts[Top.id])
         /\ DOMAIN calls[Top] = 1 .. Len(calls[Top])
  <1>1. stack \in Seq(Constructions) /\ Len(stack) \in Nat \ {0} /\ Top = stack[Len(stack)]
    BY DEF Whole, FieldsOK, Top
  <1>2. Top \in Constructions
    BY <1>1
  <1>3. status[Top] \in {"open", "promised"}
    BY <1>1 DEF Whole, StackOK
  <1>4. calls[Top] \in Seq(Standings) /\ Len(calls[Top]) <= Len(Parts[Top.id])
    BY <1>2 DEF Whole, FieldsOK
  <1> QED BY <1>1, <1>2, <1>3, <1>4, AttemptFacts

-----------------------------------------------------------------------------
(* The steps.                                                              *)

\* A construction begins.
LEMMA EnterWhole ==
  ASSUME Whole, NEW s \in Scopes, NEW x \in Objects, NEW n \in 0 .. MaxAttempts,
         status[Attempt(s, x, n)] = "none",
         \A m \in 1 .. MaxAttempts : m < n => status[Attempt(s, x, m)] # "none",
         Enter(s, x, n)
  PROVE  /\ Whole' /\ UNCHANGED <<objects, calls>>
         /\ stack' = Append(stack, Attempt(s, x, n))
         /\ status' = [status EXCEPT ![Attempt(s, x, n)] = "open"]
  <1> DEFINE c == Attempt(s, x, n)
  <1>1. /\ UNCHANGED <<objects, calls>> /\ stack' = Append(stack, c)
        /\ status' = [status EXCEPT ![c] = "open"]
    BY DEF Enter, Attempt
  <1>2. /\ c \in Constructions /\ c.scope = s /\ c.id = x /\ c.n = n
    BY AttemptFacts
  <1>3. status[c] = "none"
    OBVIOUS
  <1> HIDE DEF c
  <1>4. FieldsOK'
    BY <1>1, <1>2 DEF Whole, FieldsOK, States
  <1>5. /\ status'[c] = "open" /\ \A d \in Constructions : d # c => status'[d] = status[d]
        /\ Len(stack') = Len(stack) + 1 /\ Len(stack) \in Nat /\ stack'[Len(stack) + 1] = c
        /\ \A i \in 1 .. Len(stack) : stack'[i] = stack[i] /\ stack[i] \in Constructions
    BY <1>1, <1>2 DEF Whole, FieldsOK
  <1>6. \A i \in 1 .. Len(stack) : stack[i] # c
    BY <1>3 DEF Whole, StackOK
  <1>7. StackOK'
    <2>1. \A i \in 1 .. Len(stack') : i \in 1 .. Len(stack) \/ i = Len(stack) + 1
      BY <1>5
    <2> QED BY <1>5, <1>6, <2>1 DEF Whole, StackOK
  <1>8. ASSUME NEW d \in Constructions PROVE StatusOK(d)' /\ StagesOK(d)'
    <2>1. StatusOK(d) /\ StagesOK(d)
      BY DEF Whole
    <2>2. StatusOK(d)'
      <3>1. CASE d = c
        BY <1>5, <3>1 DEF StatusOK
      <3>2. CASE d # c
        <4>1. status'[d] = "open" => \E i \in 1 .. Len(stack) : stack[i] = d
          BY <1>5, <2>1, <3>2 DEF StatusOK
        <4>2. status'[d] = "open" => \E i \in 1 .. Len(stack') : stack'[i] = d
          BY <1>5, <4>1
        <4> QED BY <1>1, <1>5, <2>1, <3>2, <4>2 DEF StatusOK
      <3> QED BY <3>1, <3>2
    <2>3. StagesOK(d)'
      <3>1. status'[d] = "ready" => status[d] = "ready"
        BY <1>5
      <3>2. (Finished(d)' <=> Finished(d)) /\ (AllDone(d)' <=> AllDone(d))
        BY <1>1 DEF Finished, AllDone, Now
      <3> QED BY <1>1, <2>1, <3>1, <3>2 DEF StagesOK
    <2> QED BY <2>2, <2>3
  <1>9. ASSUME NEW t \in Scopes, NEW y \in Objects PROVE HeldOK(t, y)'
    <2>1. HeldOK(t, y) /\ objects[t][y] \in 0 .. MaxAttempts
      BY DEF Whole, FieldsOK
    <2>2. Attempt(t, y, objects[t][y]) \in Constructions
      BY <2>1, AttemptFacts
    <2> QED BY <1>1, <1>3, <1>5, <2>1, <2>2 DEF HeldOK
  <1>10. NumbersOK'
    <2> SUFFICES ASSUME NEW t \in Scopes, NEW y \in Objects,
                        NEW m \in 1 .. MaxAttempts, NEW k \in 1 .. MaxAttempts, m < k,
                        status'[Attempt(t, y, k)] # "none"
                 PROVE  status'[Attempt(t, y, m)] # "none"
      BY DEF NumbersOK
    <2>1. /\ Attempt(t, y, k) \in Constructions /\ Attempt(t, y, m) \in Constructions
          /\ Attempt(t, y, k).scope = t /\ Attempt(t, y, k).id = y /\ Attempt(t, y, k).n = k
      BY AttemptFacts
    <2>2. CASE Attempt(t, y, k) = c
      <3>1. t = s /\ y = x /\ k = n
        BY <1>2, <2>1, <2>2
      <3>2. status[Attempt(s, x, m)] # "none"
        BY <3>1
      <3> QED BY <1>5, <2>1, <3>1, <3>2
    <2>3. CASE Attempt(t, y, k) # c
      <3>1. status[Attempt(t, y, m)] # "none"
        BY <1>5, <2>1, <2>3 DEF Whole, NumbersOK
      <3> QED BY <1>3, <1>5, <2>1, <3>1
    <2> QED BY <2>2, <2>3
  <1> QED BY <1>1, <1>4, <1>7, <1>8, <1>9, <1>10 DEF Whole, c

Kept == {"promised", "ready", "failed"}

\* Constructions come to an end or go on.
LEMMA StatusMoves ==
  ASSUME Whole, UNCHANGED calls, FieldsOK', StackOK',
         \A c \in Constructions :
           /\ status'[c] = "none" <=> status[c] = "none"
           /\ status'[c] = "ready" => status[c] = "ready" \/ (Finished(c) /\ AllDone(c))
           /\ status'[c] = "open" => \E i \in 1 .. Len(stack') : stack'[i] = c
           /\ status[c] \in Kept => status'[c] \in Kept,
         \A s \in Scopes, x \in Objects :
           \/ objects'[s][x] = objects[s][x]
           \/ status'[Attempt(s, x, objects'[s][x])] \in Kept
  PROVE  Whole'
  <1>1. ASSUME NEW c \in Constructions PROVE StatusOK(c)' /\ StagesOK(c)'
    <2>1. StatusOK(c) /\ StagesOK(c)
      BY DEF Whole
    <2>2. StatusOK(c)'
      BY <2>1 DEF StatusOK
    <2>3. (Finished(c)' <=> Finished(c)) /\ (AllDone(c)' <=> AllDone(c))
      BY DEF Finished, AllDone, Now
    <2>4. StagesOK(c)'
      BY <2>1, <2>3 DEF StagesOK
    <2> QED BY <2>2, <2>4
  <1>2. NumbersOK'
    <2>1. \A s \in Scopes, x \in Objects : \A n \in 1 .. MaxAttempts :
            Attempt(s, x, n) \in Constructions
      BY AttemptFacts
    <2> QED BY <2>1 DEF Whole, NumbersOK
  <1>3. ASSUME NEW s \in Scopes, NEW x \in Objects PROVE HeldOK(s, x)'
    <2>1. HeldOK(s, x) /\ objects[s][x] \in 0 .. MaxAttempts
      BY DEF Whole, FieldsOK
    <2>2. Attempt(s, x, objects[s][x]) \in Constructions
      BY <2>1, AttemptFacts
    <2>3. CASE objects'[s][x] = objects[s][x]
      BY <2>1, <2>2, <2>3 DEF HeldOK, Kept
    <2>4. CASE status'[Attempt(s, x, objects'[s][x])] \in Kept
      BY <2>4 DEF HeldOK, Kept
    <2> QED BY <2>3, <2>4
  <1> QED BY <1>1, <1>2, <1>3 DEF Whole

\* A part of a construction is called, or comes to an end.
LEMMA CallsMove ==
  ASSUME Whole, UNCHANGED <<objects, status, stack>>, NEW c \in Constructions,
         status[c] # "none", NEW new \in Seq(Standings), calls' = [calls EXCEPT ![c] = new],
         Len(new) <= Len(Parts[c.id]),
         \A i, j \in 1 .. Len(new) :
           Parts[c.id][i].stage < Parts[c.id][j].stage => new[i] = "done",
         status[c] # "ready"
  PROVE  Whole'
  <1>1. calls'[c] = new /\ \A d \in Constructions : d # c => calls'[d] = calls[d]
    BY DEF Whole, FieldsOK
  <1>2. FieldsOK'
    BY <1>1 DEF Whole, FieldsOK
  <1>3. StackOK' /\ NumbersOK' /\ \A s \in Scopes, x \in Objects : HeldOK(s, x)'
    BY DEF Whole, StackOK, NumbersOK, HeldOK
  <1>4. ASSUME NEW d \in Constructions PROVE StatusOK(d)' /\ StagesOK(d)'
    <2>1. StatusOK(d) /\ StagesOK(d)
      BY DEF Whole
    <2>2. StatusOK(d)'
      BY <1>1, <2>1 DEF StatusOK
    <2>3. StagesOK(d)'
      BY <1>1, <2>1 DEF StagesOK, Finished, AllDone, Now
    <2> QED BY <2>2, <2>3
  <1> QED BY <1>2, <1>3, <1>4 DEF Whole

LEMMA ThrowWhole ==
  ASSUME Whole, Throw
  PROVE  Whole'
  <1>1. /\ status' = [c \in Constructions |->
                        IF \A i \in DOMAIN stack : stack[i] # c THEN status[c]
                        ELSE IF status[c] = "promised" THEN "failed" ELSE "thrown"]
        /\ stack' = <<>> /\ UNCHANGED <<objects, calls>>
    BY DEF Throw
  <1>2. DOMAIN stack = 1 .. Len(stack) /\ stack \in Seq(Constructions)
        /\ \A i \in 1 .. Len(stack) : status[stack[i]] \in {"open", "promised"}
    BY DEF Whole, FieldsOK, StackOK
  <1>3. ASSUME NEW c \in Constructions
        PROVE  /\ status'[c] \in States
               /\ status'[c] = "none" <=> status[c] = "none"
               /\ status'[c] = "ready" => status[c] = "ready"
               /\ status'[c] # "open"
               /\ status[c] \in Kept => status'[c] \in Kept
    <2>1. status[c] \in States /\ StatusOK(c)
      BY DEF Whole, FieldsOK
    <2>2. CASE \A i \in DOMAIN stack : stack[i] # c
      BY <1>1, <1>2, <2>1, <2>2 DEF StatusOK
    <2>3. CASE \E i \in DOMAIN stack : stack[i] = c
      <3>1. status[c] \in {"open", "promised"}
        BY <1>2, <2>3
      <3>2. status'[c] = IF status[c] = "promised" THEN "failed" ELSE "thrown"
        BY <1>1, <2>3
      <3> QED BY <3>1, <3>2 DEF States, Kept
    <2> QED BY <2>2, <2>3
  <1>4. status' \in [Constructions -> States]
    <2>1. status' = [c \in Constructions |-> status'[c]]
      BY <1>1
    <2> QED BY <1>3, <2>1
  <1>5. FieldsOK'
    BY <1>1, <1>4 DEF Whole, FieldsOK
  <1>6. StackOK'
    BY <1>1 DEF StackOK
  <1> QED BY <1>1, <1>3, <1>5, <1>6, StatusMoves

LEMMA ReturnWhole ==
  ASSUME Whole, stack # <<>>, NEW how \in {"ready", "promised"}, Return(how),
         how = "ready" => Finished(Top) /\ AllDone(Top)
  PROVE  Whole'
  <1>1. /\ status' = [status EXCEPT ![Top] = how] /\ UNCHANGED calls
        /\ objects' = [objects EXCEPT ![Top.scope][Top.id] = IF Top.n = 0 THEN @ ELSE Top.n]
        /\ stack' = SubSeq(stack, 1, Len(stack) - 1)
    BY DEF Return
  <1>2. /\ Top \in Constructions /\ Len(stack) \in Nat \ {0} /\ Top = stack[Len(stack)]
        /\ status[Top] \in {"open", "promised"} /\ stack \in Seq(Constructions)
        /\ Top.scope \in Scopes /\ Top.id \in Objects /\ Top.n \in 0 .. MaxAttempts
        /\ Top = Attempt(Top.scope, Top.id, Top.n)
    BY TopFacts, AttemptFacts DEF Whole, FieldsOK
  <1> HIDE DEF Top
  <1>3. /\ stack' \in Seq(Constructions) /\ Len(stack') = Len(stack) - 1
        /\ \A i \in 1 .. Len(stack') : stack'[i] = stack[i] /\ i \in 1 .. Len(stack)
        /\ \A i \in 1 .. Len(stack) : i # Len(stack) => i \in 1 .. Len(stack')
    <2>a. Len(stack) - 1 \in Nat /\ Len(stack) - 1 < Len(stack)
      BY <1>2
    <2>1. PICK m \in Nat : m = Len(stack) - 1
      BY <2>a
    <2>2. stack' = SubSeq(stack, 1, m)
      BY <1>1, <2>1
    <2>3. stack' \in Seq(Constructions) /\ Len(stack') = m
      BY <1>2, <2>a, <2>1, <2>2, SubSeqProperties
    <2>4. \A i \in 1 .. m : stack'[i] = stack[i]
      BY <1>2, <2>a, <2>1, <2>2, <2>3
    <2> QED BY <1>2, <2>1, <2>3, <2>4
  <1>4. status'[Top] = how /\ \A c \in Constructions : c # Top => status'[c] = status[c]
    BY <1>1, <1>2 DEF Whole, FieldsOK
  <1>5. status' \in [Constructions -> States]
    BY <1>1, <1>2 DEF Whole, FieldsOK, States
  <1>6. objects' \in [Scopes -> [Objects -> 0 .. MaxAttempts]]
    BY <1>1, <1>2 DEF Whole, FieldsOK
  <1>7. FieldsOK'
    BY <1>1, <1>3, <1>5, <1>6 DEF Whole, FieldsOK
  <1>8. \A i \in 1 .. Len(stack') : stack'[i] # Top /\ stack'[i] \in Constructions
    BY <1>2, <1>3 DEF Whole, StackOK
  <1>9. StackOK'
    BY <1>3, <1>4, <1>8 DEF Whole, StackOK
  <1>10. ASSUME NEW c \in Constructions, status'[c] = "open"
         PROVE  \E i \in 1 .. Len(stack') : stack'[i] = c
    <2>1. c # Top /\ status[c] = "open"
      BY <1>4, <1>10
    <2>2. PICK i \in 1 .. Len(stack) : stack[i] = c
      BY <2>1 DEF Whole, StatusOK
    <2> QED BY <1>2, <1>3, <2>1, <2>2
  <1>11. \A c \in Constructions :
           /\ status'[c] = "none" <=> status[c] = "none"
           /\ status'[c] = "ready" => status[c] = "ready" \/ (Finished(c) /\ AllDone(c))
           /\ status[c] \in Kept => status'[c] \in Kept
    BY <1>2, <1>4 DEF Kept
  <1>12. ASSUME NEW s \in Scopes, NEW x \in Objects
         PROVE  \/ objects'[s][x] = objects[s][x]
                \/ status'[Attempt(s, x, objects'[s][x])] \in Kept
    <2>1. CASE s = Top.scope /\ x = Top.id /\ Top.n # 0
      <3>1. objects'[s][x] = Top.n
        BY <1>1, <1>2, <2>1 DEF Whole, FieldsOK
      <3> QED BY <1>2, <1>4, <2>1, <3>1 DEF Kept
    <2>2. CASE ~(s = Top.scope /\ x = Top.id /\ Top.n # 0)
      BY <1>1, <1>2, <2>2 DEF Whole, FieldsOK
    <2> QED BY <2>1, <2>2
  <1> QED BY <1>1, <1>7, <1>9, <1>10, <1>11, <1>12, StatusMoves

\* What a construction looks up: the first identity it misses.
LEMMA LookupFacts ==
  ASSUME Whole, Lookup
  PROVE  \E x \in Objects :
           /\ ~Cached(Top.scope, x)
           /\ \E i \in Injects(Top, Now(Top)) : x = Parts[Top.id][Now(Top)].inject[i]
           /\ \/ Throw
              \/ /\ Attempts(Top.scope, x) + 1 <= MaxAttempts
                 /\ Enter(Top.scope, x, Attempts(Top.scope, x) + 1)
  <1> DEFINE k == Now(Top)
             inject == Parts[Top.id][k].inject
             missing == {i \in Injects(Top, k) : ~Cached(Top.scope, inject[i])}
             x == inject[Min(missing)]
  <1>1. stack # <<>> /\ missing # {} /\ ~Finished(Top)
    BY DEF Lookup, Invoking
  <1>2. IF Attempts(Top.scope, x) < MaxAttempts
          THEN Enter(Top.scope, x, Attempts(Top.scope, x) + 1) ELSE Throw
    BY DEF Lookup
  <1>3. /\ Top \in Constructions /\ Top.id \in Objects /\ Top.scope \in Scopes
        /\ Len(calls[Top]) \in Nat /\ Len(Parts[Top.id]) \in Nat
    BY <1>1, TopFacts, PartFacts
  <1>4. k \in 1 .. Len(Parts[Top.id])
    BY <1>1, <1>3 DEF Finished, Now
  <1>5. inject \in Seq(Objects)
    BY <1>3, <1>4, PartFacts
  <1>6. Injects(Top, k) \subseteq 1 .. Len(inject) /\ missing \subseteq Nat
    BY <1>5 DEF Injects
  <1>7. Min(missing) \in missing
    BY <1>1, <1>6, LeastIsOne
  <1>8. PICK i \in missing : i = Min(missing)
    BY <1>7
  <1>9. PICK y : y = inject[i]
    OBVIOUS
  <1>10. i \in Injects(Top, k) /\ i \in 1 .. Len(inject) /\ ~Cached(Top.scope, y)
    BY <1>6, <1>8, <1>9
  <1>11. y \in Objects
    <2> HIDE DEF inject
    <2> QED BY <1>5, <1>9, <1>10
  <1>12. Attempts(Top.scope, y) \in Nat /\ MaxAttempts \in Nat
    <2> DEFINE A == {n \in 1 .. MaxAttempts :
                       status[[scope |-> Top.scope, id |-> y, n |-> n]] # "none"}
    <2>1. A \subseteq 1 .. MaxAttempts /\ Attempts(Top.scope, y) = Cardinality(A)
      BY DEF Attempts
    <2>a. MaxAttempts \in Nat
      BY ScopeAssumption
    <2>2. IsFiniteSet(1 .. MaxAttempts)
      BY <2>a, FS_Interval
    <2> HIDE DEF A
    <2>3. IsFiniteSet(A)
      BY <2>1, <2>2, FS_Subset
    <2> QED BY <2>a, <2>1, <2>3, FS_CardinalityType
  <1>13. IF Attempts(Top.scope, y) < MaxAttempts
           THEN Enter(Top.scope, y, Attempts(Top.scope, y) + 1) ELSE Throw
    BY <1>2, <1>8, <1>9
  <1>14. Attempts(Top.scope, y) < MaxAttempts => Attempts(Top.scope, y) + 1 <= MaxAttempts
    BY <1>12
  <1> HIDE DEF missing, x
  <1> QED BY <1>9, <1>10, <1>11, <1>13, <1>14

LEMMA LookupWhole ==
  ASSUME Whole, Lookup
  PROVE  Whole'
  <1>1. PICK x \in Objects :
          \/ Throw
          \/ /\ Attempts(Top.scope, x) + 1 <= MaxAttempts
             /\ Enter(Top.scope, x, Attempts(Top.scope, x) + 1)
    BY LookupFacts
  <1>2. Top.scope \in Scopes /\ FieldsOK /\ NumbersOK
    BY TopFacts DEF Lookup, Whole
  <1>3. PICK n : n = Attempts(Top.scope, x) + 1
    OBVIOUS
  <1>4. CASE n <= MaxAttempts /\ Enter(Top.scope, x, n)
    <2>1. n \in 1 .. MaxAttempts /\ status[Attempt(Top.scope, x, n)] = "none"
          /\ \A m \in 1 .. MaxAttempts : m < n => status[Attempt(Top.scope, x, m)] # "none"
      BY <1>2, <1>3, <1>4, NextAttempt
    <2> QED BY <1>2, <1>4, <2>1, EnterWhole
  <1> QED BY <1>1, <1>3, <1>4, ThrowWhole

\* A part is called: those of earlier stages have come to an end.
LEMMA InvokeWhole ==
  ASSUME Whole, Invoke
  PROVE  Whole'
  <1>1. stack # <<>> /\ ~Finished(Top) /\ (Barrier(Top) => AllDone(Top))
    BY DEF Invoke, Invoking
  <1>2. /\ Top \in Constructions /\ Top.id \in Objects /\ status[Top] \in {"open", "promised"}
        /\ calls[Top] \in Seq(Standings) /\ Len(calls[Top]) \in Nat
        /\ DOMAIN calls[Top] = 1 .. Len(calls[Top])
    BY <1>1, TopFacts
  <1>3. ASSUME NEW how \in {"waiting", "async", "done"}, UNCHANGED <<objects, status, stack>>,
               calls' = [calls EXCEPT ![Top] = Append(@, how)]
        PROVE  Whole'
    <2> DEFINE new == Append(calls[Top], how)
               n == Len(calls[Top])
    <2>1. /\ new \in Seq(Standings) /\ Len(new) = n + 1 /\ new[n + 1] = how
          /\ \A i \in 1 .. n : new[i] = calls[Top][i]
      BY <1>2 DEF Standings
    <2>2. calls' = [calls EXCEPT ![Top] = new]
      BY <1>2, <1>3 DEF Whole, FieldsOK
    <2>3. n + 1 <= Len(Parts[Top.id]) /\ Len(Parts[Top.id]) \in Nat
      BY <1>1, <1>2, PartFacts DEF Finished, Now
    <2> DEFINE stage(i) == Parts[Top.id][i].stage
    <2>4. ASSUME NEW i \in 1 .. n + 1, NEW j \in 1 .. n + 1, stage(i) < stage(j)
          PROVE  new[i] = "done"
      <3>1. /\ \A a \in 1 .. n + 1 : stage(a) \in 1 .. 3
            /\ \A a, b \in 1 .. n + 1 : a < b => stage(a) <= stage(b)
        <4>1. \A a \in 1 .. n + 1 : a \in 1 .. Len(Parts[Top.id])
          BY <1>2, <2>3
        <4> QED BY <1>2, <4>1, PartFacts
      <3>2. \A a, b \in 1 .. n : stage(a) < stage(b) => calls[Top][a] = "done"
        BY <1>2 DEF Whole, StagesOK
      <3>3. i < j /\ i \in 1 .. n
        BY <1>2, <2>4, <3>1
      <3>4. CASE j \in 1 .. n
        BY <2>1, <2>4, <3>2, <3>3, <3>4
      <3>5. CASE j = n + 1
        <4>1. n \in 1 .. n + 1 /\ n \in 1 .. n /\ stage(i) <= stage(n) /\ stage(n) <= stage(n + 1)
          BY <1>2, <3>1, <3>3, <3>5
        <4>2. CASE stage(n) < stage(n + 1)
          <5>1. Barrier(Top)
            BY <1>1, <1>2, <4>1, <4>2 DEF Barrier, Now
          <5> QED BY <1>1, <1>2, <2>1, <3>3, <5>1 DEF AllDone
        <4>3. CASE stage(n) = stage(n + 1)
          BY <2>1, <2>4, <3>2, <3>3, <3>5, <4>1, <4>3
        <4> QED BY <1>2, <3>1, <4>1, <4>2, <4>3
      <3> QED BY <1>2, <3>4, <3>5
    <2> QED BY <1>2, <1>3, <2>1, <2>2, <2>3, <2>4, CallsMove
  <1> QED BY <1>3, ThrowWhole DEF Invoke

LEMMA StageEndsWhole ==
  ASSUME Whole, StageEnds
  PROVE  Whole'
  BY ReturnWhole DEF StageEnds

LEMMA GetWhole ==
  ASSUME Whole, NEW x \in Objects, Get(x)
  PROVE  Whole'
  <1>1. PICK n : n = Attempts("main", x) + 1
    OBVIOUS
  <1>2. Enter("main", x, n) /\ n <= MaxAttempts /\ FieldsOK /\ NumbersOK
    BY <1>1 DEF Get, Enter, Whole
  <1>3. "main" \in Scopes
    BY DEF Scopes
  <1>4. n \in 1 .. MaxAttempts /\ status[Attempt("main", x, n)] = "none"
        /\ \A m \in 1 .. MaxAttempts : m < n => status[Attempt("main", x, m)] # "none"
    BY <1>1, <1>2, <1>3, NextAttempt
  <1> QED BY <1>2, <1>3, <1>4, EnterWhole

LEMMA ConstructWhole ==
  ASSUME Whole, NEW x \in Objects, Construct(x)
  PROVE  Whole'
  <1>1. "child" \in Scopes /\ 0 \in 0 .. MaxAttempts /\ Enter("child", x, 0)
    BY ScopeAssumption DEF Scopes, Construct
  <1>2. status[Attempt("child", x, 0)] = "none"
    BY <1>1, AttemptFacts DEF Construct
  <1>3. \A m \in 1 .. MaxAttempts : ~ (m < 0)
    OBVIOUS
  <1> QED BY <1>1, <1>2, <1>3, EnterWhole

LEMMA ResumeWhole ==
  ASSUME Whole, NEW c \in Constructions, Resume(c)
  PROVE  Whole'
  <1>1. stack = <<>> /\ status[c] = "promised" /\ UNCHANGED <<objects, calls>>
        /\ \A d \in Constructions : status[d] # "open"
    BY DEF Resume, Whole, StatusOK
  <1>2. CASE status' = [status EXCEPT ![c] = "failed"] /\ UNCHANGED stack
    <2>1. status'[c] = "failed" /\ \A d \in Constructions : d # c => status'[d] = status[d]
      BY <1>2 DEF Whole, FieldsOK
    <2>2. FieldsOK' /\ StackOK'
      BY <1>1, <1>2 DEF Whole, FieldsOK, StackOK, States
    <2> QED BY <1>1, <2>1, <2>2, StatusMoves DEF Kept
  <1>3. CASE stack' = <<c>> /\ UNCHANGED status
    <2>1. FieldsOK'
      BY <1>1, <1>3 DEF Whole, FieldsOK
    <2>2. StackOK'
      BY <1>1, <1>3 DEF StackOK
    <2>3. \A d \in Constructions : status[d] = "ready" => (Finished(d) /\ AllDone(d))
      BY DEF Whole, StagesOK
    <2> QED BY <1>1, <1>3, <2>1, <2>2, StatusMoves
  <1> QED BY <1>2, <1>3 DEF Resume

\* The promise of a part settles, or what it was given is there.
LEMMA SettleWhole ==
  ASSUME Whole, NEW c \in Constructions, NEW k \in DOMAIN calls[c],
         CallWaiting(c, k) \/ Settle(c, k)
  PROVE  Whole'
  <1>1. PICK how \in Standings :
          /\ UNCHANGED <<objects, status, stack>> /\ calls[c][k] \in {"waiting", "async"}
          /\ calls' = [calls EXCEPT ![c][k] = how]
    BY DEF CallWaiting, Settle, Standings
  <1>2. calls[c] \in Seq(Standings) /\ Len(calls[c]) <= Len(Parts[c.id])
        /\ DOMAIN calls[c] = 1 .. Len(calls[c])
    BY DEF Whole, FieldsOK
  <1>3. PICK new : new = [calls[c] EXCEPT ![k] = how]
    OBVIOUS
  <1>4. /\ new \in Seq(Standings) /\ Len(new) = Len(calls[c])
        /\ \A i \in 1 .. Len(new) : i # k => new[i] = calls[c][i]
    BY <1>2, <1>3
  <1>5. calls' = [calls EXCEPT ![c] = new]
    BY <1>1, <1>3 DEF Whole, FieldsOK
  <1>6. StagesOK(c) /\ StatusOK(c)
    BY DEF Whole
  <1>7. calls[c] # <<>> /\ status[c] # "none" /\ status[c] # "ready"
    BY <1>1, <1>2, <1>6 DEF StagesOK, StatusOK, AllDone
  <1>8. \A i, j \in 1 .. Len(new) :
          Parts[c.id][i].stage < Parts[c.id][j].stage => new[i] = "done"
    BY <1>1, <1>2, <1>4, <1>6 DEF StagesOK
  <1> QED BY <1>1, <1>2, <1>4, <1>5, <1>7, <1>8, CallsMove

LEMMA ScopeInitWhole == ScopeInit => Whole
  <1> SUFFICES ASSUME ScopeInit PROVE Whole
    OBVIOUS
  <1>1. /\ objects = [s \in Scopes |-> [x \in Objects |-> 0]]
        /\ status = [c \in Constructions |-> "none"]
        /\ calls = [c \in Constructions |-> <<>>] /\ stack = <<>>
    BY DEF ScopeInit
  <1>2. \A c \in Constructions : Len(Parts[c.id]) \in Nat
    BY PartFacts, AttemptFacts
  <1>3. 0 \in 0 .. MaxAttempts
    BY ScopeAssumption
  <1>4. FieldsOK
    BY <1>1, <1>2, <1>3 DEF FieldsOK, States
  <1>5. \A s \in Scopes, x \in Objects : \A n \in 1 .. MaxAttempts :
          status[Attempt(s, x, n)] = "none"
    BY <1>1, AttemptFacts
  <1>6. StackOK /\ NumbersOK
    BY <1>1, <1>5 DEF StackOK, NumbersOK
  <1>7. \A c \in Constructions : StatusOK(c) /\ StagesOK(c)
    BY <1>1 DEF StatusOK, StagesOK
  <1>8. \A s \in Scopes, x \in Objects : HeldOK(s, x)
    BY <1>1 DEF HeldOK
  <1> QED BY <1>4, <1>6, <1>7, <1>8 DEF Whole

LEMMA StandsWhole == Whole /\ UNCHANGED scopeVars => Whole'
  <1> SUFFICES ASSUME Whole, UNCHANGED scopeVars PROVE Whole'
    OBVIOUS
  <1>1. UNCHANGED <<objects, status, calls, stack>>
    BY DEF scopeVars
  <1>2. FieldsOK' /\ StackOK' /\ NumbersOK'
    BY <1>1 DEF Whole, FieldsOK, StackOK, NumbersOK
  <1>3. ASSUME NEW c \in Constructions PROVE StatusOK(c)' /\ StagesOK(c)'
    BY <1>1 DEF Whole, StatusOK, StagesOK, Finished, AllDone, Now
  <1>4. ASSUME NEW s \in Scopes, NEW x \in Objects PROVE HeldOK(s, x)'
    BY <1>1 DEF Whole, HeldOK
  <1> QED BY <1>2, <1>3, <1>4 DEF Whole

LEMMA ScopeStep == Whole /\ [ScopeNext]_scopeVars => Whole'
  <1> SUFFICES ASSUME Whole, [ScopeNext]_scopeVars PROVE Whole'
    OBVIOUS
  <1>1. CASE Running
    BY <1>1, LookupWhole, InvokeWhole, StageEndsWhole DEF Running
  <1>2. ASSUME NEW x \in Objects, Get(x) PROVE Whole'
    BY <1>2, GetWhole
  <1>3. ASSUME NEW x \in Fresh, Construct(x) PROVE Whole'
    BY <1>3, ConstructWhole, ScopeAssumption
  <1>4. ASSUME NEW c \in Constructions, Turn(c) PROVE Whole'
    BY <1>4, ResumeWhole, SettleWhole DEF Turn
  <1> QED BY <1>1, <1>2, <1>3, <1>4, StandsWhole DEF ScopeNext

\* The inductive invariant for every template.
THEOREM ScopeInvariant == ScopeSpec => []ScopeInv
  <1>1. ScopeInit => ScopeInv
    BY ScopeInitWhole, WholeIsInv
  <1>2. ScopeInv /\ [ScopeNext]_scopeVars => ScopeInv'
    <2>1. Whole' => ScopeInv'
      BY WholeIsInv, PTL
    <2> QED BY <2>1, ScopeStep, WholeIsInv
  <1> QED BY <1>1, <1>2, PTL DEF ScopeSpec

\* The stack of construct(), the promises and the kept objects fit together.
THEOREM ScopeTypeCorrect == ScopeSpec => []ScopeTypeOK
  <1>1. ScopeInv => ScopeTypeOK
    BY DEF ScopeInv
  <1> QED BY <1>1, ScopeInvariant, PTL

\* Before hooks, factory and after hooks follow each other.
THEOREM HooksSurround == ScopeSpec => []HooksAround
  <1>1. ScopeInv => HooksAround
    BY DEF ScopeInv
  <1> QED BY <1>1, ScopeInvariant, PTL

-----------------------------------------------------------------------------
(* Templates without circles.                                              *)

Order == CHOOSE rank \in [Objects -> 0 .. Cardinality(Objects)] : Ranks(rank)

\* Each construction on the stack is for the one below it.
Descends ==
  \A i, j \in 1 .. Len(stack) : i < j =>
    /\ Order[stack[j].id] < Order[stack[i].id]
    /\ stack[j].scope = stack[i].scope

\* While it is constructed an identity has no object, and then that one.
LiveOK(s, x, n) ==
  /\ status[Attempt(s, x, n)] = "open" => ~Cached(s, x)
  /\ status[Attempt(s, x, n)] \in Kept => objects[s][x] = n

\* What a part was given is kept, and was ready if the part has been called.
InjectOK(c) ==
  \A k \in 1 .. Len(calls[c]) : \A i \in Injects(c, k) :
    /\ Cached(c.scope, Parts[c.id][k].inject[i])
    /\ calls[c][k] \in {"async", "done"} =>
         status[Holder(c.scope, Parts[c.id][k].inject[i])] = "ready"

Single ==
  /\ Whole /\ Descends
  /\ \A s \in Scopes, x \in Objects : \A n \in 1 .. MaxAttempts : LiveOK(s, x, n)
  /\ \A c \in Constructions : InjectOK(c)

LEMMA OrderFacts ==
  ASSUME NoCircles
  PROVE  Ranks(Order) /\ \A x \in Objects : Order[x] \in Nat
  <1>1. Order \in [Objects -> 0 .. Cardinality(Objects)] /\ Ranks(Order)
    BY DEF NoCircles, Order
  <1>2. Cardinality(Objects) \in Nat
    BY ScopeAssumption, FS_CardinalityType
  <1> QED BY <1>1, <1>2

\* What a part injects comes before its own identity.
LEMMA InjectsBelow ==
  ASSUME NoCircles, NEW c \in Constructions, NEW k \in 1 .. Len(Parts[c.id]),
         NEW i \in Injects(c, k)
  PROVE  /\ i \in 1 .. Len(Parts[c.id][k].inject)
         /\ Parts[c.id][k].inject[i] \in Objects
         /\ Order[Parts[c.id][k].inject[i]] < Order[c.id]
  <1>1. c.id \in Objects
    BY AttemptFacts
  <1>2. DOMAIN Parts[c.id] = 1 .. Len(Parts[c.id]) /\ Parts[c.id][k].inject \in Seq(Objects)
    BY <1>1, PartFacts
  <1>3. i \in DOMAIN Parts[c.id][k].inject
        /\ ~(Parts[c.id][k].stage = Decorated /\ Parts[c.id][k].inject[i] = c.id)
    BY DEF Injects
  <1>4. Order[Parts[c.id][k].inject[i]] < Order[c.id]
    BY <1>1, <1>2, <1>3, OrderFacts DEF Ranks
  <1>5. i \in 1 .. Len(Parts[c.id][k].inject) /\ Parts[c.id][k].inject[i] \in Objects
    <2> DEFINE inject == Parts[c.id][k].inject
    <2>1. inject \in Seq(Objects) /\ i \in DOMAIN inject
      BY <1>2, <1>3
    <2> HIDE DEF inject
    <2>2. i \in 1 .. Len(inject) /\ inject[i] \in Objects
      BY <2>1
    <2> QED BY <2>2 DEF inject
  <1> QED BY <1>4, <1>5

\* An object that is there stays there.
LEMMA HolderStays ==
  ASSUME \A s \in Scopes, y \in Objects : objects'[s][y] = objects[s][y] \/ ~Cached(s, y),
         NEW s \in Scopes, NEW y \in Objects, Cached(s, y)
  PROVE  Cached(s, y)' /\ Holder(s, y)' = Holder(s, y)
  <1>1. "main" \in Scopes
    BY DEF Scopes
  <1>2. objects'[s][y] = objects[s][y]
    OBVIOUS
  <1>3. objects[s][y] = 0 => objects'["main"][y] = objects["main"][y]
    BY <1>1 DEF Cached
  <1> QED BY <1>2, <1>3 DEF Cached, Holder

\* What a step leaves, as long as no object is replaced.
LEMMA SingleStays ==
  ASSUME Single, NoCircles, Whole', Descends',
         \A s \in Scopes, y \in Objects : objects'[s][y] = objects[s][y] \/ ~Cached(s, y),
         \A c \in Constructions : status[c] = "ready" => status'[c] = "ready",
         \A s \in Scopes, x \in Objects : \A n \in 1 .. MaxAttempts : LiveOK(s, x, n)',
         \A c \in Constructions : calls'[c] = calls[c] \/ InjectOK(c)'
  PROVE  Single'
  <1>1. ASSUME NEW c \in Constructions, calls'[c] = calls[c] PROVE InjectOK(c)'
    <2> SUFFICES ASSUME NEW k \in 1 .. Len(calls[c]), NEW i \in Injects(c, k)
                 PROVE  /\ Cached(c.scope, Parts[c.id][k].inject[i])'
                        /\ calls[c][k] \in {"async", "done"} =>
                             status'[Holder(c.scope, Parts[c.id][k].inject[i])'] = "ready"
      BY <1>1 DEF InjectOK, Injects
    <2> DEFINE y == Parts[c.id][k].inject[i]
    <2>1. Cached(c.scope, y)
          /\ (calls[c][k] \in {"async", "done"} => status[Holder(c.scope, y)] = "ready")
      BY DEF Single, InjectOK
    <2>2. Len(calls[c]) <= Len(Parts[c.id]) /\ calls[c] \in Seq(Standings)
          /\ Parts[c.id] \in Seq([stage : 1 .. 3, inject : Seq(Objects)])
      BY PartFacts, AttemptFacts DEF Single, Whole, FieldsOK
    <2>3. k \in 1 .. Len(Parts[c.id])
      BY <2>2
    <2>4. c.scope \in Scopes /\ y \in Objects
      BY <2>3, AttemptFacts, InjectsBelow
    <2>5. Holder(c.scope, y) \in Constructions
      BY <2>4, HolderKnown DEF Single, Whole
    <2>6. Cached(c.scope, y)' /\ Holder(c.scope, y)' = Holder(c.scope, y)
      BY <2>1, <2>4, HolderStays
    <2> QED BY <2>1, <2>5, <2>6
  <1> QED BY <1>1 DEF Single

\* No construction began and none became one whose object is kept.
LEMMA LivesStay ==
  ASSUME Single, UNCHANGED objects,
         \A c \in Constructions :
           /\ status'[c] = "open" => status[c] = "open"
           /\ status'[c] \in Kept => status[c] \in Kept
  PROVE  \A s \in Scopes, x \in Objects : \A n \in 1 .. MaxAttempts : LiveOK(s, x, n)'
  <1> SUFFICES ASSUME NEW s \in Scopes, NEW x \in Objects, NEW n \in 1 .. MaxAttempts
               PROVE  LiveOK(s, x, n)'
    OBVIOUS
  <1>1. Attempt(s, x, n) \in Constructions
    BY NumberFacts, AttemptFacts
  <1> QED BY <1>1 DEF Single, LiveOK, Cached

\* A construction begins for an identity that has no object.
LEMMA EnterSingle ==
  ASSUME Single, NoCircles, NEW s \in Scopes, NEW x \in Objects, NEW n \in 0 .. MaxAttempts,
         status[Attempt(s, x, n)] = "none",
         \A m \in 1 .. MaxAttempts : m < n => status[Attempt(s, x, m)] # "none",
         Enter(s, x, n), n # 0 => ~Cached(s, x),
         \A i \in 1 .. Len(stack) : Order[x] < Order[stack[i].id] /\ s = stack[i].scope
  PROVE  Single'
  <1> DEFINE c == Attempt(s, x, n)
  <1>1. /\ Whole' /\ UNCHANGED <<objects, calls>> /\ stack' = Append(stack, c)
        /\ status' = [status EXCEPT ![c] = "open"]
    BY EnterWhole DEF Single
  <1>2. c \in Constructions /\ c.scope = s /\ c.id = x /\ c.n = n
    BY AttemptFacts
  <1> HIDE DEF c
  <1>3. status'[c] = "open" /\ \A d \in Constructions : d # c => status'[d] = status[d]
    BY <1>1, <1>2 DEF Single, Whole, FieldsOK
  <1>4. /\ Len(stack') = Len(stack) + 1 /\ Len(stack) \in Nat /\ stack'[Len(stack) + 1] = c
        /\ \A i \in 1 .. Len(stack) : stack'[i] = stack[i]
    BY <1>1, <1>2 DEF Single, Whole, FieldsOK
  <1>5. Descends'
    <2> SUFFICES ASSUME NEW i \in 1 .. Len(stack'), NEW j \in 1 .. Len(stack'), i < j
                 PROVE  /\ Order[stack'[j].id] < Order[stack'[i].id]
                        /\ stack'[j].scope = stack'[i].scope
      BY DEF Descends
    <2>1. i \in 1 .. Len(stack) /\ (j \in 1 .. Len(stack) \/ j = Len(stack) + 1)
      BY <1>4
    <2>2. CASE j \in 1 .. Len(stack)
      BY <1>4, <2>1, <2>2 DEF Single, Descends
    <2>3. CASE j = Len(stack) + 1
      BY <1>2, <1>4, <2>1, <2>3
    <2> QED BY <2>1, <2>2, <2>3
  <1>6. ASSUME NEW t \in Scopes, NEW y \in Objects, NEW m \in 1 .. MaxAttempts
        PROVE  LiveOK(t, y, m)'
    <2>1. LiveOK(t, y, m) /\ Cached(t, y)' = Cached(t, y) /\ MaxAttempts \in Nat
      BY <1>1, ScopeAssumption DEF Single, Cached
    <2>2. Attempt(t, y, m) \in Constructions /\ Attempt(t, y, m).scope = t
          /\ Attempt(t, y, m).id = y /\ Attempt(t, y, m).n = m
      BY <2>1, AttemptFacts
    <2>3. CASE Attempt(t, y, m) = c
      BY <1>2, <1>3, <2>1, <2>2, <2>3 DEF LiveOK, Kept
    <2>4. CASE Attempt(t, y, m) # c
      BY <1>1, <1>3, <2>1, <2>2, <2>4 DEF LiveOK
    <2> QED BY <2>3, <2>4
  <1>7. \A d \in Constructions : status[d] = "ready" => status'[d] = "ready"
    BY <1>3 DEF c
  <1> QED BY <1>1, <1>5, <1>6, <1>7, SingleStays

LEMMA ThrowSingle ==
  ASSUME Single, NoCircles, Throw
  PROVE  Single'
  <1>1. /\ status' = [c \in Constructions |->
                        IF \A i \in DOMAIN stack : stack[i] # c THEN status[c]
                        ELSE IF status[c] = "promised" THEN "failed" ELSE "thrown"]
        /\ stack' = <<>> /\ UNCHANGED <<objects, calls>>
    BY DEF Throw
  <1>2. Whole /\ Whole'
    BY ThrowWhole DEF Single
  <1>3. DOMAIN stack = 1 .. Len(stack)
        /\ \A i \in 1 .. Len(stack) : status[stack[i]] \in {"open", "promised"}
    BY <1>2 DEF Whole, FieldsOK, StackOK
  <1>4. \A c \in Constructions :
          /\ status'[c] = "open" => status[c] = "open"
          /\ status'[c] \in Kept => status[c] \in Kept
          /\ status[c] = "ready" => status'[c] = "ready"
    BY <1>1, <1>3 DEF Kept
  <1>5. Descends'
    BY <1>1 DEF Descends
  <1>6. \A s \in Scopes, x \in Objects : \A n \in 1 .. MaxAttempts : LiveOK(s, x, n)'
    BY <1>1, <1>4, LivesStay
  <1> QED BY <1>1, <1>2, <1>4, <1>5, <1>6, SingleStays

\* get() keeps what was constructed for it.
LEMMA ReturnSingle ==
  ASSUME Single, NoCircles, stack # <<>>, NEW how \in {"ready", "promised"}, Return(how),
         how = "ready" => Finished(Top) /\ AllDone(Top)
  PROVE  Single'
  <1>1. /\ status' = [status EXCEPT ![Top] = how] /\ UNCHANGED calls
        /\ objects' = [objects EXCEPT ![Top.scope][Top.id] = IF Top.n = 0 THEN @ ELSE Top.n]
        /\ stack' = SubSeq(stack, 1, Len(stack) - 1)
    BY DEF Return
  <1>2. Whole /\ Whole'
    BY ReturnWhole DEF Single
  <1>3. /\ Top \in Constructions /\ Len(stack) \in Nat \ {0} /\ Top = stack[Len(stack)]
        /\ status[Top] \in {"open", "promised"}
        /\ Top.scope \in Scopes /\ Top.id \in Objects /\ Top.n \in 0 .. MaxAttempts
        /\ Top = Attempt(Top.scope, Top.id, Top.n) /\ MaxAttempts \in Nat
    BY <1>2, TopFacts, AttemptFacts, NumberFacts
  <1> HIDE DEF Top
  <1>4. /\ Len(stack') = Len(stack) - 1
        /\ \A i \in 1 .. Len(stack') : stack'[i] = stack[i] /\ i \in 1 .. Len(stack) - 1
    <2>1. Len(stack) - 1 \in Nat /\ stack \in Seq(Constructions)
      BY <1>2, <1>3 DEF Whole, FieldsOK
    <2>2. PICK m \in Nat : m = Len(stack) - 1
      BY <2>1
    <2>3. stack' = SubSeq(stack, 1, m)
      BY <1>1, <2>2
    <2> QED BY <1>3, <2>1, <2>2, <2>3
  <1>5. status'[Top] = how /\ \A c \in Constructions : c # Top => status'[c] = status[c]
    BY <1>1, <1>2, <1>3 DEF Whole, FieldsOK
  <1>6. Top.n # 0 => LiveOK(Top.scope, Top.id, Top.n)
    BY <1>3 DEF Single
  <1>7. /\ Top.n # 0 => objects'[Top.scope][Top.id] = Top.n
        /\ \A s \in Scopes, y \in Objects :
             ~(s = Top.scope /\ y = Top.id /\ Top.n # 0) => objects'[s][y] = objects[s][y]
    BY <1>1, <1>2, <1>3 DEF Whole, FieldsOK
  <1>8. \A s \in Scopes, y \in Objects : objects'[s][y] = objects[s][y] \/ ~Cached(s, y)
    <2>1. Top.n # 0 => ~Cached(Top.scope, Top.id) \/ objects[Top.scope][Top.id] = Top.n
      BY <1>3, <1>6 DEF LiveOK, Kept
    <2> QED BY <1>3, <1>7, <2>1
  <1>9. Descends'
    <2> SUFFICES ASSUME NEW i \in 1 .. Len(stack'), NEW j \in 1 .. Len(stack'), i < j
                 PROVE  /\ Order[stack'[j].id] < Order[stack'[i].id]
                        /\ stack'[j].scope = stack'[i].scope
      BY DEF Descends
    <2>1. i \in 1 .. Len(stack) /\ j \in 1 .. Len(stack)
          /\ stack'[i] = stack[i] /\ stack'[j] = stack[j]
      BY <1>3, <1>4
    <2> QED BY <2>1 DEF Single, Descends
  <1>10. ASSUME NEW c \in Constructions, status'[c] = "open"
         PROVE  status[c] = "open" /\ c # Top /\ c.scope = Top.scope /\ c.id # Top.id
    <2>1. c # Top /\ status[c] = "open"
      BY <1>5, <1>10
    <2>2. PICK i \in 1 .. Len(stack) : stack[i] = c
      BY <1>2, <2>1 DEF Whole, StatusOK
    <2>3. i < Len(stack)
      BY <1>3, <2>1, <2>2
    <2>4. Order[Top.id] < Order[c.id] /\ c.scope = Top.scope
      BY <1>3, <2>2, <2>3 DEF Single, Descends
    <2>5. c.id \in Objects /\ Order[c.id] \in Nat
      BY AttemptFacts, OrderFacts
    <2> QED BY <2>1, <2>4, <2>5
  <1>11. ASSUME NEW s \in Scopes, NEW x \in Objects, NEW n \in 1 .. MaxAttempts
         PROVE  LiveOK(s, x, n)'
    <2>1. LiveOK(s, x, n) /\ n \in 0 .. MaxAttempts /\ n # 0
      BY DEF Single
    <2>2. /\ Attempt(s, x, n) \in Constructions /\ Attempt(s, x, n).scope = s
          /\ Attempt(s, x, n).id = x /\ Attempt(s, x, n).n = n
      BY <2>1, AttemptFacts
    <2>3. ASSUME status'[Attempt(s, x, n)] = "open" PROVE ~Cached(s, x)'
      <3>1. status[Attempt(s, x, n)] = "open" /\ x # Top.id
        BY <1>10, <2>2, <2>3
      <3>2. "main" \in Scopes
        BY DEF Scopes
      <3>3. objects'[s][x] = objects[s][x] /\ objects'["main"][x] = objects["main"][x]
        BY <1>7, <3>1, <3>2
      <3> QED BY <2>1, <3>1, <3>3 DEF LiveOK, Cached
    <2>4. ASSUME status'[Attempt(s, x, n)] \in Kept PROVE objects'[s][x] = n
      <3>1. CASE Attempt(s, x, n) = Top
        BY <1>7, <2>1, <2>2, <3>1
      <3>2. CASE Attempt(s, x, n) # Top
        <4>1. objects[s][x] = n
          BY <1>5, <2>1, <2>2, <2>4, <3>2 DEF LiveOK
        <4>2. Cached(s, x)
          BY <2>1, <4>1 DEF Cached
        <4> QED BY <1>8, <4>1, <4>2
      <3> QED BY <3>1, <3>2
    <2> QED BY <2>3, <2>4 DEF LiveOK
  <1>12. \A c \in Constructions : status[c] = "ready" => status'[c] = "ready"
    BY <1>3, <1>5
  <1> QED BY <1>1, <1>2, <1>8, <1>9, <1>11, <1>12, SingleStays

LEMMA StackBelow ==
  ASSUME Single, NoCircles, stack # <<>>, NEW x \in Objects, Order[x] < Order[Top.id]
  PROVE  \A i \in 1 .. Len(stack) : Order[x] < Order[stack[i].id] /\ Top.scope = stack[i].scope
  <1>1. Len(stack) \in Nat \ {0} /\ Top = stack[Len(stack)] /\ stack \in Seq(Constructions)
    BY TopFacts DEF Single, Whole, FieldsOK
  <1>2. \A i \in 1 .. Len(stack) : stack[i].id \in Objects
    BY <1>1, AttemptFacts
  <1>3. \A i \in 1 .. Len(stack) : Order[stack[i].id] \in Nat /\ Order[x] \in Nat
    BY <1>2, OrderFacts
  <1> HIDE DEF Top
  <1> TAKE i \in 1 .. Len(stack)
  <1>4. CASE i = Len(stack)
    BY <1>1, <1>4
  <1>5. CASE i # Len(stack)
    <2>1. Order[Top.id] < Order[stack[i].id] /\ Top.scope = stack[i].scope
      BY <1>1, <1>5 DEF Single, Descends
    <2>2. Top.id \in Objects
      BY <1>1, <1>2
    <2> QED BY <1>3, <2>1, <2>2, OrderFacts
  <1> QED BY <1>4, <1>5

LEMMA LookupSingle ==
  ASSUME Single, NoCircles, Lookup
  PROVE  Single'
  <1>1. PICK x \in Objects :
          /\ ~Cached(Top.scope, x)
          /\ \E i \in Injects(Top, Now(Top)) : x = Parts[Top.id][Now(Top)].inject[i]
          /\ \/ Throw
             \/ /\ Attempts(Top.scope, x) + 1 <= MaxAttempts
                /\ Enter(Top.scope, x, Attempts(Top.scope, x) + 1)
    BY LookupFacts DEF Single
  <1>2. stack # <<>> /\ ~Finished(Top) /\ FieldsOK /\ NumbersOK /\ Whole
    BY DEF Lookup, Invoking, Single, Whole
  <1>3. /\ Top \in Constructions /\ Top.id \in Objects /\ Top.scope \in Scopes
        /\ Len(calls[Top]) \in Nat /\ Len(Parts[Top.id]) \in Nat
    BY <1>2, TopFacts, PartFacts
  <1>4. Now(Top) \in 1 .. Len(Parts[Top.id])
    BY <1>2, <1>3 DEF Finished, Now
  <1>5. Order[x] < Order[Top.id]
    BY <1>1, <1>3, <1>4, InjectsBelow
  <1>6. PICK n : n = Attempts(Top.scope, x) + 1
    OBVIOUS
  <1>7. CASE n <= MaxAttempts /\ Enter(Top.scope, x, n)
    <2>1. n \in 1 .. MaxAttempts /\ status[Attempt(Top.scope, x, n)] = "none"
          /\ \A m \in 1 .. MaxAttempts : m < n => status[Attempt(Top.scope, x, m)] # "none"
      BY <1>2, <1>3, <1>6, <1>7, NextAttempt
    <2>2. n \in 0 .. MaxAttempts
      BY <2>1, ScopeAssumption
    <2>3. \A i \in 1 .. Len(stack) : Order[x] < Order[stack[i].id] /\ Top.scope = stack[i].scope
      BY <1>2, <1>5, StackBelow
    <2> QED BY <1>1, <1>3, <1>7, <2>1, <2>2, <2>3, EnterSingle
  <1> QED BY <1>1, <1>6, <1>7, ThrowSingle

\* The calls of one construction change, and nothing else.
LEMMA CallsSingle ==
  ASSUME Single, NoCircles, Whole', UNCHANGED <<objects, status, stack>>, NEW c \in Constructions,
         NEW new, calls' = [calls EXCEPT ![c] = new], InjectOK(c)'
  PROVE  Single'
  <1>1. \A d \in Constructions : d # c => calls'[d] = calls[d]
    BY DEF Single, Whole, FieldsOK
  <1>2. Descends'
    BY DEF Single, Descends
  <1>3. \A s \in Scopes, x \in Objects : \A n \in 1 .. MaxAttempts : LiveOK(s, x, n)'
    BY LivesStay
  <1>4. \A d \in Constructions : calls'[d] = calls[d] \/ InjectOK(d)'
    BY <1>1
  <1> QED BY <1>2, <1>3, <1>4, SingleStays

\* A part is called only with what is ready.
LEMMA InvokeSingle ==
  ASSUME Single, NoCircles, Invoke
  PROVE  Single'
  <1>1. stack # <<>> /\ Whole /\ Whole'
    BY InvokeWhole DEF Invoke, Single
  <1>2. /\ Top \in Constructions /\ calls[Top] \in Seq(Standings) /\ Len(calls[Top]) \in Nat
    BY <1>1, TopFacts
  <1>3. ASSUME NEW how \in IF Thenable(Top, Now(Top)) THEN {"waiting"} ELSE {"async", "done"},
               UNCHANGED <<objects, status, stack>>,
               calls' = [calls EXCEPT ![Top] = Append(@, how)]
        PROVE  Single'
    <2> DEFINE new == Append(calls[Top], how)
               n == Len(calls[Top])
    <2>1. /\ Len(new) = n + 1 /\ new[n + 1] = how /\ how \in Standings
          /\ \A i \in 1 .. n : new[i] = calls[Top][i]
      BY <1>2, <1>3 DEF Standings
    <2>2. calls' = [calls EXCEPT ![Top] = new] /\ calls'[Top] = new
      BY <1>1, <1>2, <1>3 DEF Whole, FieldsOK
    <2>3. Now(Top) = n + 1
      BY DEF Now
    <2>4. \A y, t : Cached(t, y)' = Cached(t, y) /\ Holder(t, y)' = Holder(t, y)
      BY <1>3 DEF Cached, Holder
    <2>5. ASSUME NEW i \in Injects(Top, n + 1)
          PROVE  /\ Cached(Top.scope, Parts[Top.id][n + 1].inject[i])
                 /\ how \in {"async", "done"} =>
                      status[Holder(Top.scope, Parts[Top.id][n + 1].inject[i])] = "ready"
      BY <1>3, <2>3, <2>5 DEF Invoke, Thenable, Injected
    <2>6. PICK c \in Constructions : c = Top
      BY <1>2
    <2>7. InjectOK(c)'
      <3> SUFFICES ASSUME NEW k \in 1 .. n + 1, NEW i \in Injects(Top, k)
                   PROVE  /\ Cached(Top.scope, Parts[Top.id][k].inject[i])
                          /\ new[k] \in {"async", "done"} =>
                               status[Holder(Top.scope, Parts[Top.id][k].inject[i])] = "ready"
        <4>1. calls'[c] = new /\ Len(calls'[c]) = n + 1 /\ UNCHANGED status
          BY <1>3, <2>1, <2>2, <2>6
        <4>2. ASSUME NEW k \in 1 .. n + 1, NEW i \in Injects(c, k)
              PROVE  /\ Cached(c.scope, Parts[c.id][k].inject[i])
                     /\ new[k] \in {"async", "done"} =>
                          status[Holder(c.scope, Parts[c.id][k].inject[i])] = "ready"
          BY <2>6
        <4> HIDE DEF new, n
        <4> QED BY <2>4, <4>1, <4>2 DEF InjectOK, Injects
      <3>1. k \in 1 .. n \/ k = n + 1
        BY <1>2
      <3>2. CASE k \in 1 .. n
        BY <1>2, <2>1, <3>2 DEF Single, InjectOK
      <3>3. CASE k = n + 1
        BY <2>1, <2>5, <3>3
      <3> QED BY <3>1, <3>2, <3>3
    <2> QED BY <1>1, <1>3, <2>2, <2>6, <2>7, CallsSingle
  <1> QED BY <1>3, ThrowSingle DEF Invoke

LEMMA StageEndsSingle ==
  ASSUME Single, NoCircles, StageEnds
  PROVE  Single'
  BY ReturnSingle DEF StageEnds

LEMMA GetSingle ==
  ASSUME Single, NoCircles, NEW x \in Objects, Get(x)
  PROVE  Single'
  <1>1. PICK n : n = Attempts("main", x) + 1
    OBVIOUS
  <1>2. Enter("main", x, n) /\ n <= MaxAttempts /\ FieldsOK /\ NumbersOK
        /\ ~Cached("main", x) /\ stack = <<>>
    BY <1>1 DEF Get, Enter, Single, Whole
  <1>3. "main" \in Scopes
    BY DEF Scopes
  <1>4. n \in 1 .. MaxAttempts /\ status[Attempt("main", x, n)] = "none"
        /\ \A m \in 1 .. MaxAttempts : m < n => status[Attempt("main", x, m)] # "none"
    BY <1>1, <1>2, <1>3, NextAttempt
  <1>5. n \in 0 .. MaxAttempts
    BY <1>4, ScopeAssumption
  <1>6. \A i \in 1 .. Len(stack) : Order[x] < Order[stack[i].id] /\ "main" = stack[i].scope
    BY <1>2
  <1> QED BY <1>2, <1>3, <1>4, <1>5, <1>6, EnterSingle

LEMMA ConstructSingle ==
  ASSUME Single, NoCircles, NEW x \in Objects, Construct(x)
  PROVE  Single'
  <1>1. "child" \in Scopes /\ 0 \in 0 .. MaxAttempts /\ Enter("child", x, 0) /\ stack = <<>>
    BY ScopeAssumption DEF Scopes, Construct
  <1>2. status[Attempt("child", x, 0)] = "none"
    BY <1>1, AttemptFacts DEF Construct
  <1>3. \A m \in 1 .. MaxAttempts : ~ (m < 0)
    OBVIOUS
  <1>4. \A i \in 1 .. Len(stack) : Order[x] < Order[stack[i].id] /\ "child" = stack[i].scope
    BY <1>1
  <1> QED BY <1>1, <1>2, <1>3, <1>4, EnterSingle

LEMMA ResumeSingle ==
  ASSUME Single, NoCircles, NEW c \in Constructions, Resume(c)
  PROVE  Single'
  <1>1. /\ stack = <<>> /\ status[c] = "promised" /\ UNCHANGED <<objects, calls>>
        /\ \/ status' = [status EXCEPT ![c] = "failed"] /\ UNCHANGED stack
           \/ stack' = <<c>> /\ UNCHANGED status
    BY DEF Resume
  <1>2. Whole /\ Whole'
    BY ResumeWhole DEF Single
  <1>3. \A d \in Constructions :
          /\ status'[d] = "open" => status[d] = "open"
          /\ status'[d] \in Kept => status[d] \in Kept
          /\ status[d] = "ready" => status'[d] = "ready"
    BY <1>1, <1>2 DEF Whole, FieldsOK, Kept
  <1>4. Descends'
    BY <1>1 DEF Descends
  <1>5. \A s \in Scopes, x \in Objects : \A n \in 1 .. MaxAttempts : LiveOK(s, x, n)'
    BY <1>1, <1>3, LivesStay
  <1> QED BY <1>1, <1>2, <1>3, <1>4, <1>5, SingleStays

LEMMA SettleSingle ==
  ASSUME Single, NoCircles, NEW c \in Constructions, NEW k \in DOMAIN calls[c],
         CallWaiting(c, k) \/ Settle(c, k)
  PROVE  Single'
  <1>1. PICK how \in Standings :
          /\ UNCHANGED <<objects, status, stack>> /\ calls[c][k] \in {"waiting", "async"}
          /\ calls' = [calls EXCEPT ![c][k] = how]
          /\ \/ calls[c][k] = "async" \/ how = "failed"
             \/ \A h \in Injected(c, k) : status[h] = "ready"
    BY DEF CallWaiting, Settle, Standings
  <1>2. Whole /\ Whole' /\ InjectOK(c)
    BY SettleWhole DEF Single
  <1>3. PICK new : new = [calls[c] EXCEPT ![k] = how]
    OBVIOUS
  <1>4. calls[c] \in Seq(Standings) /\ DOMAIN calls[c] = 1 .. Len(calls[c])
    BY <1>2 DEF Whole, FieldsOK
  <1>5. /\ Len(new) = Len(calls[c]) /\ new[k] = how
        /\ \A i \in 1 .. Len(new) : i # k => new[i] = calls[c][i]
    BY <1>3, <1>4
  <1>6. calls' = [calls EXCEPT ![c] = new] /\ calls'[c] = new
    BY <1>1, <1>2, <1>3 DEF Whole, FieldsOK
  <1>7. \A y, t : Cached(t, y)' = Cached(t, y) /\ Holder(t, y)' = Holder(t, y)
    BY <1>1 DEF Cached, Holder
  <1>8. \A i \in Injects(c, k) :
          how \in {"async", "done"} => status[Holder(c.scope, Parts[c.id][k].inject[i])] = "ready"
    BY <1>1, <1>2, <1>4 DEF InjectOK, Injected
  <1>9. \A j \in 1 .. Len(new) : \A i \in Injects(c, j) :
          /\ Cached(c.scope, Parts[c.id][j].inject[i])
          /\ new[j] \in {"async", "done"} =>
               status[Holder(c.scope, Parts[c.id][j].inject[i])] = "ready"
    BY <1>2, <1>5, <1>8 DEF InjectOK
  <1>10. InjectOK(c)'
    BY <1>1, <1>6, <1>7, <1>9 DEF InjectOK, Injects
  <1> QED BY <1>1, <1>2, <1>6, <1>10, CallsSingle

LEMMA ScopeInitSingle == ScopeInit => Single
  <1> SUFFICES ASSUME ScopeInit PROVE Single
    OBVIOUS
  <1>1. Whole /\ stack = <<>> /\ calls = [c \in Constructions |-> <<>>]
        /\ status = [c \in Constructions |-> "none"]
    BY ScopeInitWhole DEF ScopeInit
  <1>2. Descends /\ \A c \in Constructions : InjectOK(c)
    BY <1>1 DEF Descends, InjectOK
  <1>3. ASSUME NEW s \in Scopes, NEW x \in Objects, NEW n \in 1 .. MaxAttempts
        PROVE  LiveOK(s, x, n)
    <2>1. Attempt(s, x, n) \in Constructions
      BY NumberFacts, AttemptFacts
    <2>2. status[Attempt(s, x, n)] = "none"
      BY <1>1, <2>1
    <2> QED BY <2>2 DEF LiveOK, Kept
  <1> QED BY <1>1, <1>2, <1>3 DEF Single

LEMMA StandsSingle == Single /\ NoCircles /\ UNCHANGED scopeVars => Single'
  <1> SUFFICES ASSUME Single, NoCircles, UNCHANGED scopeVars PROVE Single'
    OBVIOUS
  <1>1. UNCHANGED <<objects, status, calls, stack>> /\ Whole'
    BY StandsWhole DEF scopeVars, Single
  <1>2. Descends'
    BY <1>1 DEF Single, Descends
  <1>3. \A s \in Scopes, x \in Objects : \A n \in 1 .. MaxAttempts : LiveOK(s, x, n)'
    BY <1>1, LivesStay
  <1> QED BY <1>1, <1>2, <1>3, SingleStays

LEMMA SingleStep == NoCircles /\ Single /\ [ScopeNext]_scopeVars => Single'
  <1> SUFFICES ASSUME NoCircles, Single, [ScopeNext]_scopeVars PROVE Single'
    OBVIOUS
  <1>1. CASE Running
    BY <1>1, LookupSingle, InvokeSingle, StageEndsSingle DEF Running
  <1>2. ASSUME NEW x \in Objects, Get(x) PROVE Single'
    BY <1>2, GetSingle
  <1>3. ASSUME NEW x \in Fresh, Construct(x) PROVE Single'
    BY <1>3, ConstructSingle, ScopeAssumption
  <1>4. ASSUME NEW c \in Constructions, Turn(c) PROVE Single'
    BY <1>4, ResumeSingle, SettleSingle DEF Turn
  <1> QED BY <1>1, <1>2, <1>3, <1>4, StandsSingle DEF ScopeNext

\* The inductive invariant for templates without circles.
THEOREM SingleInvariant == NoCircles => (ScopeSpec => []Single)
  <1> SUFFICES ASSUME NoCircles PROVE ScopeSpec => []Single
    OBVIOUS
  <1>1. Single /\ [ScopeNext]_scopeVars => Single'
    BY SingleStep
  <1> QED BY <1>1, ScopeInitSingle, PTL DEF ScopeSpec

\* A number of an attempt that has not thrown: there is no second one.
LEMMA SingleIsOne == Single /\ NoCircles => ConstructedOnce
  <1> SUFFICES ASSUME Single, NoCircles, NEW s \in Scopes, NEW x \in Objects
               PROVE  Cardinality({n \in 1 .. MaxAttempts : status[[scope |-> s, id |-> x, n |-> n]]
                                                            \notin {"none", "thrown"}}) <= 1
    BY DEF ConstructedOnce
  <1> DEFINE S == {n \in 1 .. MaxAttempts :
                     status[[scope |-> s, id |-> x, n |-> n]] \notin {"none", "thrown"}}
  <1>1. ASSUME NEW m \in S, NEW n \in S PROVE m = n
    <2>1. /\ m \in 0 .. MaxAttempts /\ n \in 0 .. MaxAttempts /\ MaxAttempts \in Nat
          /\ m \in 1 .. MaxAttempts /\ n \in 1 .. MaxAttempts
      BY ScopeAssumption
    <2>2. /\ Attempt(s, x, m) \in Constructions /\ Attempt(s, x, n) \in Constructions
          /\ Attempt(s, x, m).id = x /\ Attempt(s, x, n).id = x
          /\ Attempt(s, x, m).n = m /\ Attempt(s, x, n).n = n
      BY <2>1, AttemptFacts
    <2>3. LiveOK(s, x, m) /\ LiveOK(s, x, n)
      BY <2>1 DEF Single
    <2>4. status[Attempt(s, x, m)] \in Kept \cup {"open"} /\ status[Attempt(s, x, n)] \in Kept \cup {"open"}
      <3>1. status[Attempt(s, x, m)] \in States \ {"none", "thrown"}
            /\ status[Attempt(s, x, n)] \in States \ {"none", "thrown"}
        BY <2>2 DEF Attempt, Single, Whole, FieldsOK
      <3> QED BY <3>1 DEF States, Kept
    <2>5. CASE status[Attempt(s, x, m)] \in Kept \/ status[Attempt(s, x, n)] \in Kept
      <3>1. Cached(s, x)
        BY <2>1, <2>3, <2>5 DEF LiveOK, Cached
      <3> QED BY <2>3, <2>4, <3>1 DEF LiveOK
    <2>6. CASE status[Attempt(s, x, m)] = "open" /\ status[Attempt(s, x, n)] = "open"
      <3>1. PICK i \in 1 .. Len(stack) : stack[i] = Attempt(s, x, m)
        BY <2>2, <2>6 DEF Single, Whole, StatusOK
      <3>2. PICK j \in 1 .. Len(stack) : stack[j] = Attempt(s, x, n)
        BY <2>2, <2>6 DEF Single, Whole, StatusOK
      <3>3. stack[i].id = x /\ stack[j].id = x /\ Order[x] \in Nat
        BY <2>2, <3>1, <3>2, OrderFacts
      <3>4. ~(i < j) /\ ~(j < i)
        BY <3>3 DEF Single, Descends
      <3>5. i = j
        BY <3>4
      <3> QED BY <2>2, <3>1, <3>2, <3>5
    <2> QED BY <2>4, <2>5, <2>6
  <1> HIDE DEF S
  <1>2. S = {} \/ \E m \in S : S = {m}
    BY <1>1
  <1>3. Cardinality(S) = 0 \/ Cardinality(S) = 1
    <2>1. CASE S = {}
      BY <2>1, FS_EmptySet
    <2>2. ASSUME NEW m \in S, S = {m} PROVE Cardinality(S) = 1
      <3>1. Cardinality({m}) = 1
        BY FS_Singleton
      <3> QED BY <2>2, <3>1
    <2> QED BY <1>2, <2>1, <2>2
  <1>4. Cardinality(S) <= 1
    BY <1>3
  <1> QED BY <1>4 DEF S

\* An identity has one object in a scope, whoever asks for it and when: unless it
\* throws at once, it is not constructed again, if no identities need each other.
THEOREM OnceConstructed == NoCircles => (ScopeSpec => []ConstructedOnce)
  <1> SUFFICES ASSUME NoCircles PROVE ScopeSpec => []ConstructedOnce
    OBVIOUS
  <1>1. Single => ConstructedOnce
    BY SingleIsOne
  <1>2. ScopeSpec => []Single
    BY SingleInvariant
  <1> QED BY <1>1, <1>2, PTL

\* What a hook or a factory is called with is ready, and stays so.
THEOREM ReadyInjected == NoCircles => (ScopeSpec => []InjectedReady)
  <1> SUFFICES ASSUME NoCircles PROVE ScopeSpec => []InjectedReady
    OBVIOUS
  <1>1. Single => InjectedReady
    <2> SUFFICES ASSUME Single, NEW c \in Constructions, NEW k \in DOMAIN calls[c],
                        calls[c][k] \in {"async", "done"}, NEW h \in Injected(c, k)
                 PROVE  status[h] = "ready"
      BY DEF InjectedReady
    <2>1. DOMAIN calls[c] = 1 .. Len(calls[c])
      BY DEF Single, Whole, FieldsOK
    <2>2. PICK i \in Injects(c, k) : h = Holder(c.scope, Parts[c.id][k].inject[i])
      BY DEF Injected
    <2> QED BY <2>1, <2>2 DEF Single, InjectOK
  <1>2. ScopeSpec => []Single
    BY SingleInvariant
  <1> QED BY <1>1, <1>2, PTL

-----------------------------------------------------------------------------
(* The registry.                                                           *)

Fields == {"mutable", "schedule", "objects"}

\* A registry: an entry of a module is in a cell of its own.
Sound(r) ==
  /\ DOMAIN r = {"mods", "heap"} /\ \E S : r.mods \in Seq(S)
  /\ \A m \in 1 .. Len(r.mods) : DOMAIN r.mods[m] = Fields
  /\ \A m \in 1 .. Len(r.mods) : \A x \in DOMAIN r.mods[m].objects :
       r.mods[m].objects[x] = <<m, x>> /\ <<m, x>> \in DOMAIN r.heap

\* Registry q comes from r, and of the modules of r only n may have changed.
Follows(r, q, n) ==
  /\ Sound(q) /\ Len(r.mods) <= Len(q.mods)
  /\ \A k \in 1 .. Len(r.mods) : k # n =>
       /\ q.mods[k] = r.mods[k]
       /\ \A x \in DOMAIN r.mods[k].objects : q.heap[<<k, x>>] = r.heap[<<k, x>>]

LEMMA SoundFacts ==
  ASSUME NEW r, Sound(r)
  PROVE  Len(r.mods) \in Nat /\ DOMAIN r.mods = 1 .. Len(r.mods)
  BY DEF Sound

LEMMA FollowsTwice ==
  ASSUME NEW r, NEW q, NEW p, NEW n, Sound(r), Follows(r, q, n), Follows(q, p, n)
  PROVE  Follows(r, p, n)
  <1>1. Len(r.mods) \in Nat /\ Len(q.mods) \in Nat /\ Len(p.mods) \in Nat
        /\ Len(r.mods) <= Len(q.mods) /\ Len(q.mods) <= Len(p.mods)
    BY SoundFacts DEF Follows
  <1>2. \A k \in 1 .. Len(r.mods) : k \in 1 .. Len(q.mods)
    BY <1>1
  <1>3. ASSUME NEW k \in 1 .. Len(r.mods), k # n
        PROVE  /\ p.mods[k] = r.mods[k]
               /\ \A x \in DOMAIN r.mods[k].objects : p.heap[<<k, x>>] = r.heap[<<k, x>>]
    BY <1>2, <1>3 DEF Follows
  <1> QED BY <1>1, <1>3 DEF Follows

\* A copy is put behind the modules there are.
LEMMA CopiedFollows ==
  ASSUME NEW r, Sound(r), NEW m \in 1 .. Len(r.mods), NEW mutable, NEW n
  PROVE  /\ Follows(r, Copied(r, m, mutable), n)
         /\ Len(Copied(r, m, mutable).mods) = Len(r.mods) + 1
  <1> DEFINE q == Copied(r, m, mutable)
             b == Len(r.mods) + 1
             D == DOMAIN r.mods[m].objects
             new == [r.mods[m] EXCEPT !.mutable = mutable, !.objects = [x \in D |-> <<b, x>>]]
             cells == [c \in {b} \X D |-> Descriptor(r, m, c[2])]
  <1>1. q.mods = Append(r.mods, new) /\ q.heap = Merge(r.heap, cells) /\ DOMAIN q = {"mods", "heap"}
    BY DEF Copied
  <1>2. DOMAIN new = Fields /\ new.objects = [x \in D |-> <<b, x>>]
    BY DEF Sound, Fields
  <1>3. Len(r.mods) \in Nat
    BY SoundFacts
  <1>4. DOMAIN cells = {b} \X D
    OBVIOUS
  <1> HIDE DEF new, cells, q
  <1>5. /\ Len(q.mods) = b /\ q.mods[b] = new /\ \E S : q.mods \in Seq(S)
        /\ \A k \in 1 .. Len(r.mods) : q.mods[k] = r.mods[k]
    <2>1. PICK S : r.mods \in Seq(S)
      BY DEF Sound
    <2>2. q.mods \in Seq(S \cup {new})
      <3>1. r.mods \in Seq(S \cup {new}) /\ new \in S \cup {new}
        BY <2>1
      <3> QED BY <1>1, <3>1
    <2>3. /\ Len(q.mods) = b /\ q.mods[b] = new
          /\ \A k \in 1 .. Len(r.mods) : q.mods[k] = r.mods[k]
      BY <1>1, <2>1
    <2> QED BY <2>2, <2>3
  <1>6. /\ DOMAIN q.heap = DOMAIN r.heap \cup {b} \X D
        /\ \A c \in DOMAIN r.heap : c \notin {b} \X D => q.heap[c] = r.heap[c]
    BY <1>1, <1>4 DEF Merge
  <1>7. ASSUME NEW k \in 1 .. Len(r.mods), NEW x \in DOMAIN r.mods[k].objects
        PROVE  /\ r.mods[k].objects[x] = <<k, x>> /\ <<k, x>> \in DOMAIN q.heap
               /\ q.heap[<<k, x>>] = r.heap[<<k, x>>]
    <2>1. r.mods[k].objects[x] = <<k, x>> /\ <<k, x>> \in DOMAIN r.heap
      BY DEF Sound
    <2>2. k # b
      BY <1>3
    <2> QED BY <1>6, <2>1, <2>2
  <1>8. \A k \in 1 .. Len(q.mods) : k \in 1 .. Len(r.mods) \/ k = b
    BY <1>3, <1>5
  <1>9. \A x \in DOMAIN q.mods[b].objects : q.mods[b].objects[x] = <<b, x>> /\ <<b, x>> \in DOMAIN q.heap
    BY <1>2, <1>5, <1>6
  <1>10. Sound(q)
    <2>1. \A k \in 1 .. Len(q.mods) : DOMAIN q.mods[k] = Fields
      BY <1>2, <1>5, <1>8 DEF Sound
    <2>2. \A k \in 1 .. Len(q.mods) : \A x \in DOMAIN q.mods[k].objects :
            q.mods[k].objects[x] = <<k, x>> /\ <<k, x>> \in DOMAIN q.heap
      <3> TAKE k \in 1 .. Len(q.mods)
      <3>1. CASE k \in 1 .. Len(r.mods)
        <4>1. q.mods[k] = r.mods[k]
          BY <1>5, <3>1
        <4> QED BY <1>7, <3>1, <4>1
      <3> QED BY <1>8, <1>9, <3>1
    <2> QED BY <1>1, <1>5, <2>1, <2>2 DEF Sound
  <1>11. Len(r.mods) <= Len(q.mods)
    BY <1>3, <1>5
  <1>12. Follows(r, q, n)
    BY <1>5, <1>7, <1>10, <1>11 DEF Follows
  <1> QED BY <1>5, <1>12 DEF q

\* Of a registry only module n changes, and the cells of its entries.
LEMMA ChangedFollows ==
  ASSUME NEW r, Sound(r), NEW n \in 1 .. Len(r.mods), NEW q, NEW S,
         DOMAIN q = {"mods", "heap"}, q.mods \in Seq(S), Len(q.mods) = Len(r.mods),
         \A k \in 1 .. Len(r.mods) : k # n => q.mods[k] = r.mods[k],
         DOMAIN q.mods[n] = Fields,
         \A x \in DOMAIN q.mods[n].objects :
           q.mods[n].objects[x] = <<n, x>> /\ <<n, x>> \in DOMAIN q.heap,
         \A k \in 1 .. Len(r.mods) : \A x : k # n /\ <<k, x>> \in DOMAIN r.heap =>
           <<k, x>> \in DOMAIN q.heap /\ q.heap[<<k, x>>] = r.heap[<<k, x>>]
  PROVE  Follows(r, q, n)
  <1>1. ASSUME NEW k \in 1 .. Len(r.mods), NEW x \in DOMAIN r.mods[k].objects, k # n
        PROVE  /\ r.mods[k].objects[x] = <<k, x>> /\ <<k, x>> \in DOMAIN q.heap
               /\ q.heap[<<k, x>>] = r.heap[<<k, x>>]
    BY <1>1 DEF Sound
  <1>2. ASSUME NEW k \in 1 .. Len(q.mods)
        PROVE  /\ DOMAIN q.mods[k] = Fields
               /\ \A x \in DOMAIN q.mods[k].objects :
                    q.mods[k].objects[x] = <<k, x>> /\ <<k, x>> \in DOMAIN q.heap
    <2>1. CASE k = n
      BY <2>1
    <2>2. CASE k # n
      <3>1. q.mods[k] = r.mods[k] /\ k \in 1 .. Len(r.mods)
        BY <2>2
      <3> QED BY <1>1, <2>2, <3>1 DEF Sound
    <2> QED BY <2>1, <2>2
  <1>3. Sound(q)
    BY <1>2 DEF Sound
  <1>4. Len(r.mods) <= Len(q.mods)
    BY SoundFacts
  <1> QED BY <1>1, <1>3, <1>4 DEF Follows

LEMMA PlacedFollows ==
  ASSUME NEW r, Sound(r), NEW n \in 1 .. Len(r.mods), NEW x, NEW d
  PROVE  /\ Follows(r, Placed(r, n, x, d), n) /\ Known(Placed(r, n, x, d), n, x)
         /\ Len(Placed(r, n, x, d).mods) = Len(r.mods)
         /\ \A y : y # x => View(Placed(r, n, x, d), n, y) = View(r, n, y)
         /\ View(Placed(r, n, x, d), n, x) = {d}
  <1> DEFINE q == Placed(r, n, x, d)
             entry == [y \in {x} |-> <<n, x>>]
             cell == [c \in {<<n, x>>} |-> d]
             new == [r.mods[n] EXCEPT !.objects = Merge(@, entry)]
             O == DOMAIN r.mods[n].objects
  <1>1. /\ q.mods = [r.mods EXCEPT ![n] = new] /\ q.heap = Merge(r.heap, cell)
        /\ DOMAIN q = {"mods", "heap"}
    BY DEF Placed
  <1>2. /\ DOMAIN new = Fields /\ DOMAIN new.objects = O \cup {x}
        /\ new.objects[x] = <<n, x>>
        /\ \A y \in O : y # x => new.objects[y] = r.mods[n].objects[y]
    <2>1. DOMAIN r.mods[n] = Fields /\ "objects" \in Fields
      BY DEF Sound, Fields
    <2>2. new.objects = Merge(r.mods[n].objects, entry)
      BY <2>1
    <2> QED BY <2>1, <2>2 DEF Merge
  <1>3. PICK S : r.mods \in Seq(S)
    BY DEF Sound
  <1>4. /\ DOMAIN q.heap = DOMAIN r.heap \cup {<<n, x>>} /\ q.heap[<<n, x>>] = d
        /\ \A c \in DOMAIN r.heap : c # <<n, x>> => q.heap[c] = r.heap[c]
    BY <1>1 DEF Merge
  <1> HIDE DEF new, q
  <1>5. /\ q.mods \in Seq(S \cup {new}) /\ Len(q.mods) = Len(r.mods) /\ q.mods[n] = new
        /\ \A k \in 1 .. Len(r.mods) : k # n => q.mods[k] = r.mods[k]
    <2>1. r.mods \in Seq(S \cup {new})
      BY <1>3
    <2> QED BY <1>1, <2>1
  <1>6. \A y \in O : r.mods[n].objects[y] = <<n, y>> /\ <<n, y>> \in DOMAIN r.heap
    BY DEF Sound
  <1>7. \A y \in DOMAIN q.mods[n].objects :
          q.mods[n].objects[y] = <<n, y>> /\ <<n, y>> \in DOMAIN q.heap
    BY <1>2, <1>4, <1>5, <1>6
  <1>8. \A k \in 1 .. Len(r.mods) : \A y : k # n /\ <<k, y>> \in DOMAIN r.heap =>
          <<k, y>> \in DOMAIN q.heap /\ q.heap[<<k, y>>] = r.heap[<<k, y>>]
    BY <1>4
  <1>9. Follows(r, q, n)
    BY <1>1, <1>2, <1>5, <1>7, <1>8, ChangedFollows
  <1>10. ASSUME NEW y, y # x PROVE View(q, n, y) = View(r, n, y)
    <2>1. CASE y \in O
      <3>1. /\ q.mods[n].objects[y] = <<n, y>> /\ r.mods[n].objects[y] = <<n, y>>
            /\ q.heap[<<n, y>>] = r.heap[<<n, y>>] /\ y \in DOMAIN q.mods[n].objects
        BY <1>2, <1>4, <1>5, <1>6, <1>10, <2>1
      <3> QED BY <2>1, <3>1 DEF View, Known, Descriptor
    <2>2. CASE y \notin O
      <3>1. y \notin DOMAIN q.mods[n].objects
        BY <1>2, <1>5, <1>10, <2>2
      <3> QED BY <2>2, <3>1 DEF View, Known
    <2> QED BY <2>1, <2>2
  <1>11. Known(q, n, x) /\ View(q, n, x) = {d}
    BY <1>2, <1>4, <1>5 DEF View, Known, Descriptor
  <1> QED BY <1>5, <1>9, <1>10, <1>11 DEF q

LEMMA FollowsItself ==
  ASSUME NEW r, Sound(r), NEW n
  PROVE  Follows(r, r, n)
  BY SoundFacts DEF Follows

LEMMA FetchedFollows ==
  ASSUME NEW r, Sound(r), NEW n \in 1 .. Len(r.mods), NEW x
  PROVE  /\ Follows(r, Fetched(r, n, x), n) /\ Known(Fetched(r, n, x), n, x)
         /\ Len(Fetched(r, n, x).mods) = Len(r.mods)
         /\ \A y : \/ View(Fetched(r, n, x), n, y) = View(r, n, y)
                   \/ View(r, n, y) = {} /\ View(Fetched(r, n, x), n, y) = {Empty}
  <1>1. CASE Known(r, n, x)
    BY <1>1, FollowsItself DEF Fetched
  <1>2. CASE ~Known(r, n, x)
    <2>1. Fetched(r, n, x) = Placed(r, n, x, Empty) /\ View(r, n, x) = {}
      BY <1>2 DEF Fetched, View
    <2> QED BY <2>1, PlacedFollows
  <1> QED BY <1>1, <1>2

\* A descriptor in a cell of n is changed.
LEMMA UpdatedFollows ==
  ASSUME NEW r, Sound(r), NEW n \in 1 .. Len(r.mods), NEW x, Known(r, n, x), NEW d
  PROVE  Follows(r, Updated(r, n, x, d), n) /\ Len(Updated(r, n, x, d).mods) = Len(r.mods)
  <1> DEFINE q == Updated(r, n, x, d)
  <1>1. r.mods[n].objects[x] = <<n, x>> /\ <<n, x>> \in DOMAIN r.heap
    BY DEF Sound, Known
  <1>2. DOMAIN r = {"mods", "heap"}
    BY DEF Sound
  <1>3. /\ q.mods = r.mods /\ DOMAIN q = {"mods", "heap"} /\ DOMAIN q.heap = DOMAIN r.heap
        /\ \A c \in DOMAIN r.heap : c # <<n, x>> => q.heap[c] = r.heap[c]
    BY <1>1, <1>2 DEF Updated
  <1> HIDE DEF q
  <1>4. PICK S : r.mods \in Seq(S)
    BY DEF Sound
  <1>5. DOMAIN r.mods[n] = Fields
        /\ \A y \in DOMAIN r.mods[n].objects :
             r.mods[n].objects[y] = <<n, y>> /\ <<n, y>> \in DOMAIN r.heap
    BY DEF Sound
  <1>6. \A k \in 1 .. Len(r.mods) : \A y : k # n /\ <<k, y>> \in DOMAIN r.heap =>
          <<k, y>> \in DOMAIN q.heap /\ q.heap[<<k, y>>] = r.heap[<<k, y>>]
    BY <1>3
  <1>7. Follows(r, q, n)
    BY <1>3, <1>4, <1>5, <1>6, ChangedFollows
  <1> QED BY <1>3, <1>7 DEF q

\* A module loses an entry, or gets a callback.
LEMMA ModuleFollows ==
  ASSUME NEW r, Sound(r), NEW n \in 1 .. Len(r.mods), NEW q, NEW new,
         q = [r EXCEPT !.mods[n] = new], DOMAIN new = Fields,
         \A x \in DOMAIN new.objects :
           x \in DOMAIN r.mods[n].objects /\ new.objects[x] = r.mods[n].objects[x]
  PROVE  Follows(r, q, n) /\ Len(q.mods) = Len(r.mods)
  <1>1. DOMAIN r = {"mods", "heap"}
    BY DEF Sound
  <1>2. q.mods = [r.mods EXCEPT ![n] = new] /\ q.heap = r.heap /\ DOMAIN q = {"mods", "heap"}
    BY <1>1
  <1>3. PICK S : r.mods \in Seq(S)
    BY DEF Sound
  <1>4. /\ q.mods \in Seq(S \cup {new}) /\ Len(q.mods) = Len(r.mods) /\ q.mods[n] = new
        /\ \A k \in 1 .. Len(r.mods) : k # n => q.mods[k] = r.mods[k]
    <2>1. r.mods \in Seq(S \cup {new})
      BY <1>3
    <2> QED BY <1>2, <2>1
  <1>5. \A x \in DOMAIN new.objects : new.objects[x] = <<n, x>> /\ <<n, x>> \in DOMAIN q.heap
    BY <1>2 DEF Sound
  <1>6. Follows(r, q, n)
    BY <1>2, <1>4, <1>5, ChangedFollows
  <1> QED BY <1>4, <1>6

\* extends(): entries of module n are replaced by copies.
Extended(r, n, other) ==
  [mods |-> [r.mods EXCEPT
               ![n].schedule = @ \cup r.mods[other].schedule,
               ![n].objects = Merge(@, [x \in DOMAIN r.mods[other].objects |-> <<n, x>>])],
   heap |-> Merge(r.heap, [c \in {n} \X DOMAIN r.mods[other].objects |->
                             Descriptor(r, other, c[2])])]

LEMMA ExtendedFollows ==
  ASSUME NEW r, Sound(r), NEW n \in 1 .. Len(r.mods), NEW other \in 1 .. Len(r.mods)
  PROVE  Follows(r, Extended(r, n, other), n) /\ Len(Extended(r, n, other).mods) = Len(r.mods)
  <1> DEFINE q == Extended(r, n, other)
             D == DOMAIN r.mods[other].objects
             O == DOMAIN r.mods[n].objects
             entries == [x \in D |-> <<n, x>>]
             cells == [c \in {n} \X D |-> Descriptor(r, other, c[2])]
             new == [[r.mods[n] EXCEPT !.schedule = @ \cup r.mods[other].schedule]
                       EXCEPT !.objects = Merge(@, entries)]
  <1>1. PICK S : r.mods \in Seq(S)
    BY DEF Sound
  <1>2. DOMAIN r.mods[n] = Fields /\ "objects" \in Fields /\ "schedule" \in Fields
    BY DEF Sound, Fields
  <1>3. q.mods = [r.mods EXCEPT ![n] = new]
    BY <1>1, <1>2 DEF Extended
  <1>4. /\ q.heap = Merge(r.heap, cells) /\ DOMAIN q = {"mods", "heap"}
        /\ DOMAIN cells = {n} \X D
    BY DEF Extended
  <1>5. DOMAIN new = Fields /\ new.objects = Merge(r.mods[n].objects, entries)
    BY <1>2
  <1>6. /\ DOMAIN new.objects = O \cup D /\ \A x \in D : new.objects[x] = <<n, x>>
        /\ \A x \in O : x \notin D => new.objects[x] = r.mods[n].objects[x]
    BY <1>5 DEF Merge
  <1> HIDE DEF new, cells, q
  <1>7. /\ DOMAIN q.heap = DOMAIN r.heap \cup {n} \X D
        /\ \A c \in DOMAIN r.heap : c \notin {n} \X D => q.heap[c] = r.heap[c]
    BY <1>4 DEF Merge
  <1>8. /\ q.mods \in Seq(S \cup {new}) /\ Len(q.mods) = Len(r.mods) /\ q.mods[n] = new
        /\ \A k \in 1 .. Len(r.mods) : k # n => q.mods[k] = r.mods[k]
    <2>1. r.mods \in Seq(S \cup {new})
      BY <1>1
    <2> QED BY <1>3, <2>1
  <1>9. \A x \in O : r.mods[n].objects[x] = <<n, x>> /\ <<n, x>> \in DOMAIN r.heap
    BY DEF Sound
  <1>10. ASSUME NEW x \in DOMAIN q.mods[n].objects
         PROVE  q.mods[n].objects[x] = <<n, x>> /\ <<n, x>> \in DOMAIN q.heap
    BY <1>6, <1>7, <1>8, <1>9
  <1>11. \A k \in 1 .. Len(r.mods) : \A y : k # n /\ <<k, y>> \in DOMAIN r.heap =>
           <<k, y>> \in DOMAIN q.heap /\ q.heap[<<k, y>>] = r.heap[<<k, y>>]
    BY <1>7
  <1>12. Follows(r, q, n)
    BY <1>4, <1>5, <1>8, <1>10, <1>11, ChangedFollows
  <1> QED BY <1>8, <1>12 DEF q

-----------------------------------------------------------------------------
\* The module that withMutations() hands out.
LEMMA OpenedFollows ==
  ASSUME Sound(registry), NEW m \in ModuleIds
  PROVE  /\ Follows(registry, Opened(m), Obj(m)) /\ Sound(Opened(m))
         /\ Obj(m) \in 1 .. Len(Opened(m).mods)
         /\ \A k \in ModuleIds : k \in 1 .. Len(Opened(m).mods)
         /\ \A k \in ModuleIds : ~registry.mods[k].mutable => k # Obj(m)
  <1>1. ModuleIds = 1 .. Len(registry.mods) /\ Len(registry.mods) \in Nat
    BY SoundFacts DEF ModuleIds
  <1>2. CASE registry.mods[m].mutable
    <2>1. Obj(m) = m /\ Opened(m) = registry
      BY <1>2 DEF Obj, Opened
    <2> QED BY <1>1, <1>2, <2>1, FollowsItself
  <1>3. CASE ~registry.mods[m].mutable
    <2>a. Obj(m) = Len(registry.mods) + 1
      BY <1>3 DEF Obj
    <2>b. Obj(m) # m
      BY <1>1, <2>a
    <2>1. Obj(m) = Len(registry.mods) + 1 /\ Opened(m) = Copied(registry, m, TRUE)
      BY <2>a, <2>b DEF Opened
    <2>2. Follows(registry, Opened(m), Obj(m)) /\ Len(Opened(m).mods) = Len(registry.mods) + 1
      BY <1>1, <2>1, CopiedFollows
    <2>3. PICK r : r = Opened(m)
      OBVIOUS
    <2>4. Sound(r) /\ Len(r.mods) = Len(registry.mods) + 1
      BY <2>2, <2>3 DEF Follows
    <2>5. \A k \in ModuleIds : k \in 1 .. Len(r.mods) /\ k # Obj(m)
      BY <1>1, <2>1, <2>4
    <2>6. Obj(m) \in 1 .. Len(r.mods)
      BY <1>1, <2>1, <2>4
    <2> QED BY <2>2, <2>3, <2>4, <2>5, <2>6
  <1> QED BY <1>2, <1>3

\* Nothing but that module changes, whatever the callback does to it.
LEMMA MutationsKeep ==
  ASSUME Sound(registry), NEW m \in ModuleIds, NEW r, Follows(Opened(m), r, Obj(m)),
         WithMutations(m, r)
  PROVE  Follows(registry, registry', Obj(m))
  <1>1. Follows(registry, Opened(m), Obj(m)) /\ Obj(m) \in 1 .. Len(Opened(m).mods)
    BY OpenedFollows
  <1>2. Follows(registry, r, Obj(m))
    BY <1>1, FollowsTwice
  <1>3. CASE registry' = r
    BY <1>2, <1>3
  <1>4. CASE registry' = Copied(r, Obj(m), FALSE)
    <2>1. Sound(r) /\ Sound(Opened(m)) /\ Len(Opened(m).mods) <= Len(r.mods)
      BY <1>1 DEF Follows
    <2>2. Obj(m) \in 1 .. Len(r.mods)
      BY <1>1, <2>1, SoundFacts
    <2>3. Follows(r, registry', Obj(m))
      BY <1>4, <2>1, <2>2, CopiedFollows
    <2> QED BY <1>2, <2>3, FollowsTwice
  <1> QED BY <1>3, <1>4 DEF WithMutations

LEMMA ChangeKeeps ==
  ASSUME Sound(registry), NEW m \in ModuleIds, NEW x, NEW d, Change(m, x, d)
  PROVE  Follows(registry, registry', Obj(m))
  <1> DEFINE r == Opened(m)
             q == Looked(m, x)
             p == Updated(q, Obj(m), x, d)
  <1>1. Sound(r) /\ Obj(m) \in 1 .. Len(r.mods)
    BY OpenedFollows
  <1>2. Follows(r, q, Obj(m)) /\ Known(q, Obj(m), x) /\ Len(q.mods) = Len(r.mods)
    BY <1>1, FetchedFollows DEF Looked
  <1>3. Follows(q, p, Obj(m))
    BY <1>1, <1>2, UpdatedFollows DEF Follows
  <1>4. Follows(r, p, Obj(m))
    BY <1>1, <1>2, <1>3, FollowsTwice
  <1> QED BY <1>4, MutationsKeep DEF Change

LEMMA DeleteKeeps ==
  ASSUME Sound(registry), NEW m \in ModuleIds, NEW x, Delete(m, x)
  PROVE  Follows(registry, registry', Obj(m))
  <1> DEFINE n == Obj(m)
  <1>1. PICK r : r = Opened(m)
    OBVIOUS
  <1>2. Sound(r) /\ n \in 1 .. Len(r.mods)
    BY <1>1, OpenedFollows
  <1> DEFINE new == [r.mods[n] EXCEPT !.objects = Restrict(@, DOMAIN @ \ {x})]
             q == [r EXCEPT !.mods[n].objects = Restrict(@, DOMAIN @ \ {x})]
  <1>3. DOMAIN r.mods[n] = Fields /\ "objects" \in Fields /\ DOMAIN r = {"mods", "heap"}
    BY <1>2 DEF Sound, Fields
  <1>4. q = [r EXCEPT !.mods[n] = new]
    BY <1>2, <1>3
  <1>5. DOMAIN new = Fields
        /\ \A y \in DOMAIN new.objects :
             y \in DOMAIN r.mods[n].objects /\ new.objects[y] = r.mods[n].objects[y]
    BY <1>3 DEF Restrict
  <1>6. WithMutations(m, q)
    BY <1>1 DEF Delete
  <1> HIDE DEF new, q, n
  <1>7. Follows(r, q, n)
    BY <1>2, <1>4, <1>5, ModuleFollows
  <1> QED BY <1>1, <1>6, <1>7, MutationsKeep DEF n

LEMMA ScheduleKeeps ==
  ASSUME Sound(registry), NEW m \in ModuleIds, NEW f, Schedule(m, f)
  PROVE  Follows(registry, registry', Obj(m))
  <1> DEFINE n == Obj(m)
  <1>1. PICK r : r = Opened(m)
    OBVIOUS
  <1>2. Sound(r) /\ n \in 1 .. Len(r.mods)
    BY <1>1, OpenedFollows
  <1> DEFINE new == [r.mods[n] EXCEPT !.schedule = @ \cup {f}]
             q == [r EXCEPT !.mods[n].schedule = @ \cup {f}]
  <1>3. DOMAIN r.mods[n] = Fields /\ "objects" \in Fields /\ DOMAIN r = {"mods", "heap"}
    BY <1>2 DEF Sound, Fields
  <1>4. q = [r EXCEPT !.mods[n] = new]
    BY <1>2, <1>3
  <1>5. DOMAIN new = Fields /\ new.objects = r.mods[n].objects
    BY <1>3
  <1>6. WithMutations(m, q)
    BY <1>1 DEF Schedule
  <1> HIDE DEF new, q, n
  <1>7. Follows(r, q, n)
    BY <1>2, <1>4, <1>5, ModuleFollows
  <1> QED BY <1>1, <1>6, <1>7, MutationsKeep DEF n

LEMMA ExtendsKeeps ==
  ASSUME Sound(registry), NEW m \in ModuleIds, NEW other \in ModuleIds, Extends(m, other)
  PROVE  Follows(registry, registry', Obj(m))
  <1>1. Sound(Opened(m)) /\ Obj(m) \in 1 .. Len(Opened(m).mods)
        /\ other \in 1 .. Len(Opened(m).mods)
    BY OpenedFollows
  <1>2. WithMutations(m, Extended(Opened(m), Obj(m), other))
    BY DEF Extends, Extended
  <1> QED BY <1>1, <1>2, ExtendedFollows, MutationsKeep

\* What a step may change.
StaysSo(k) ==
  /\ registry'.mods[k].schedule = registry.mods[k].schedule
  /\ \A x \in Identities :
       \/ View(registry', k, x) = View(registry, k, x)
       \/ View(registry, k, x) = {} /\ View(registry', k, x) = {Empty}

LEMMA FollowsKept ==
  ASSUME Sound(registry), NEW n, Follows(registry, registry', n),
         NEW k \in ModuleIds, k # n
  PROVE  StaysSo(k)
  <1>1. k \in 1 .. Len(registry.mods)
    BY SoundFacts DEF ModuleIds
  <1>2. registry'.mods[k] = registry.mods[k]
        /\ \A x \in DOMAIN registry.mods[k].objects :
             /\ registry.mods[k].objects[x] = <<k, x>>
             /\ registry'.heap[<<k, x>>] = registry.heap[<<k, x>>]
    BY <1>1 DEF Follows, Sound
  <1>3. \A x : View(registry', k, x) = View(registry, k, x)
    BY <1>2 DEF View, Known, Descriptor
  <1> QED BY <1>2, <1>3 DEF StaysSo

LEMMA RegistryStep ==
  ASSUME Sound(registry), RegistryNext
  PROVE  Sound(registry') /\ \A k \in ModuleIds : ~registry.mods[k].mutable => StaysSo(k)
  <1>1. PICK m \in ModuleIds :
          \/ AsMutable(m) \/ AsImmutable(m) \/ \E other \in ModuleIds : Extends(m, other)
          \/ \E f \in Callbacks : Schedule(m, f)
          \/ \E x \in Identities :
               \/ GetDescriptor(m, x) \/ Delete(m, x) \/ Factory(m, x)
               \/ \E f \in Callbacks : After(m, x, f) \/ Before(m, x, f) \/ Constant(m, x, f)
    BY DEF RegistryNext
  <1>2. ModuleIds = 1 .. Len(registry.mods) /\ Len(registry.mods) \in Nat
    BY SoundFacts DEF ModuleIds
  <1>3. CASE Follows(registry, registry', Obj(m))
    <2>1. Sound(registry')
      BY <1>3 DEF Follows
    <2>2. ASSUME NEW k \in ModuleIds, ~registry.mods[k].mutable PROVE StaysSo(k)
      BY <1>3, <2>2, OpenedFollows, FollowsKept
    <2> QED BY <2>1, <2>2
  <1>4. CASE AsMutable(m) \/ AsImmutable(m)
    <2>1. Follows(registry, registry', 0)
      BY <1>2, <1>4, CopiedFollows DEF AsMutable, AsImmutable
    <2>2. \A k \in ModuleIds : k # 0
      BY <1>2
    <2> QED BY <2>1, <2>2, FollowsKept DEF Follows
  <1>5. ASSUME NEW x \in Identities, GetDescriptor(m, x)
        PROVE  Sound(registry') /\ \A k \in ModuleIds : StaysSo(k)
    <2>1. registry' = Fetched(registry, m, x)
      BY <1>5 DEF GetDescriptor
    <2>2. /\ Follows(registry, registry', m)
          /\ \A y : \/ View(registry', m, y) = View(registry, m, y)
                    \/ View(registry, m, y) = {} /\ View(registry', m, y) = {Empty}
      BY <1>2, <2>1, FetchedFollows
    <2>3. registry'.mods[m].schedule = registry.mods[m].schedule
      <3>1. CASE Known(registry, m, x)
        BY <2>1, <3>1 DEF Fetched
      <3>2. CASE ~Known(registry, m, x)
        <4>1. registry' = Placed(registry, m, x, Empty)
          BY <2>1, <3>2 DEF Fetched
        <4>2. DOMAIN registry.mods[m] = Fields /\ m \in DOMAIN registry.mods
          BY <1>2 DEF Sound, ModuleIds
        <4> QED BY <4>1, <4>2 DEF Placed, Fields
      <3> QED BY <3>1, <3>2
    <2>4. StaysSo(m)
      BY <2>2, <2>3 DEF StaysSo
    <2>5. ASSUME NEW k \in ModuleIds PROVE StaysSo(k)
      BY <2>2, <2>4, FollowsKept
    <2> QED BY <2>2, <2>5 DEF Follows
  <1>6. ASSUME NEW x, Delete(m, x) \/ Factory(m, x)
        PROVE  Follows(registry, registry', Obj(m))
    BY <1>6, DeleteKeeps, ChangeKeeps DEF Factory
  <1>7. ASSUME NEW x, NEW f, After(m, x, f) \/ Before(m, x, f) \/ Constant(m, x, f)
        PROVE  Follows(registry, registry', Obj(m))
    BY <1>7, ChangeKeeps DEF After, Before, Constant
  <1> QED BY <1>1, <1>3, <1>4, <1>5, <1>6, <1>7, ExtendsKeeps, ScheduleKeeps

LEMMA RegistryBegins == RegistryInit => Sound(registry)
  <1> SUFFICES ASSUME RegistryInit PROVE Sound(registry)
    OBVIOUS
  <1>1. /\ registry.mods = <<NewModule, NewModule>> /\ DOMAIN registry = {"mods", "heap"}
    BY DEF RegistryInit
  <1>2. registry.mods \in Seq({NewModule}) /\ Len(registry.mods) = 2
        /\ \A m \in 1 .. 2 : registry.mods[m] = NewModule
    BY <1>1
  <1>3. DOMAIN NewModule = Fields /\ DOMAIN NewModule.objects = {}
    BY DEF NewModule, Fields
  <1>4. \A m \in 1 .. 2 : DOMAIN registry.mods[m] = Fields /\ DOMAIN registry.mods[m].objects = {}
    BY <1>2, <1>3
  <1> QED BY <1>1, <1>2, <1>4 DEF Sound

\* Entries of different modules share no descriptor, whatever copies are made.
THEOREM RegistryInvariant == RegistrySpec => []Sound(registry)
  <1>1. Sound(registry) /\ [RegistryNext]_registry => Sound(registry)'
    BY RegistryStep
  <1> QED BY <1>1, RegistryBegins, PTL DEF RegistrySpec

\* An immutable module stays as it is, whatever is done to its copies, but for
\* the empty descriptors that looking up unknown identities leaves.
THEOREM ImmutablesKept == RegistrySpec => ImmutableKept
  <1>1. Sound(registry) /\ [RegistryNext]_registry =>
          [\A m \in ModuleIds :
             ~registry.mods[m].mutable =>
               /\ registry'.mods[m].schedule = registry.mods[m].schedule
               /\ \A x \in Identities :
                    \/ View(registry', m, x) = View(registry, m, x)
                    \/ View(registry, m, x) = {} /\ View(registry', m, x) = {Empty}]_registry
    BY RegistryStep DEF StaysSo
  <1> QED BY <1>1, RegistryInvariant, PTL DEF RegistrySpec, ImmutableKept
=============================================================================
