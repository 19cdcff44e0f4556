--------------------------- MODULE StructuresProofs ---------------------------
(***************************************************************************)
(* The data structures for all keys, values, capacities and sequences of   *)
(* calls: the log of the service, the LRU map, the bidirectional map and   *)
(* the routes of the router.                                               *)
(***************************************************************************)
EXTENDS BiMap, LRUMap, Router, ServiceLogger, FiniteSetTheorems, SequenceTheorems, TLAPS

(***************************************************************************)
(* The log.                                                                *)
(***************************************************************************)

\* The last Limit of n lines begin here.
From(n) == IF n > Limit THEN n - Limit + 1 ELSE 1

Latest(d) == SubSeq(d, From(Len(d)), Len(d))

\* A line that process is not yet there for is in no queue, and no line that
\* has been delivered is newer than the last one.
LoggerInv ==
  /\ process \in {"absent", "ready", "promise", "pair"} /\ lines \in Nat
  /\ waiting \in Seq(Nat) /\ queue \in Seq(Nat) /\ delivered \in Seq(Nat)
  /\ process = "absent" => delivered = <<>>
  /\ process = "ready" => \A i \in 1 .. Len(delivered) : delivered[i] <= lines
  /\ LogHistory

LEMMA LatestFacts ==
  ASSUME NEW d \in Seq(Nat)
  PROVE  /\ Latest(d) \in Seq(Nat)
         /\ Len(d) > Limit => /\ Len(Latest(d)) = Limit
                              /\ \A i \in 1 .. Limit : Latest(d)[i] = d[Len(d) - Limit + i]
         /\ Len(d) <= Limit => Latest(d) = d
  <1>0. Limit \in Nat /\ Len(d) \in Nat
    BY LoggerAssumption
  <1>1. CASE Len(d) > Limit
    <2>1. From(Len(d)) = Len(d) - Limit + 1 /\ Len(d) - Limit + 1 \in 1 .. Len(d) + 1
      BY <1>0, <1>1 DEF From
    <2>2. /\ Latest(d) \in Seq(Nat) /\ Len(Latest(d)) = Limit
          /\ \A i \in 1 .. Limit : Latest(d)[i] = d[Len(d) - Limit + i]
      BY <1>0, <2>1 DEF Latest
    <2> QED BY <1>0, <1>1, <2>2
  <1>2. CASE Len(d) <= Limit
    <2>1. From(Len(d)) = 1
      BY <1>0, <1>2 DEF From
    <2>2. SubSeq(d, 1, Len(d)) = d
      OBVIOUS
    <2> QED BY <1>0, <1>2, <2>1, <2>2 DEF Latest
  <1> QED BY <1>0, <1>1, <1>2

\* The window moves by one line.
LEMMA LastMoves ==
  ASSUME NEW d \in Seq(Nat), NEW n \in Nat
  PROVE  Latest(Append(d, n)) = IF Limit < Len(Latest(d)) + 1 THEN Tail(Append(Latest(d), n))
                                                          ELSE Append(Latest(d), n)
  <1> DEFINE q == Latest(d)
             e == Append(d, n)
  <1>0. Limit \in Nat /\ Len(d) \in Nat /\ q \in Seq(Nat) /\ e \in Seq(Nat)
    BY LoggerAssumption, LatestFacts
  <1>1. Len(e) = Len(d) + 1 /\ e[Len(d) + 1] = n /\ \A i \in 1 .. Len(d) : e[i] = d[i]
    OBVIOUS
  <1>2. /\ Len(d) > Limit => Len(q) = Limit /\ \A i \in 1 .. Limit : q[i] = d[Len(d) - Limit + i]
        /\ Len(d) <= Limit => q = d
    BY LatestFacts
  <1>3. /\ Latest(e) \in Seq(Nat)
        /\ Len(e) > Limit => Len(Latest(e)) = Limit /\ \A i \in 1 .. Limit : Latest(e)[i] = e[Len(e) - Limit + i]
        /\ Len(e) <= Limit => Latest(e) = e
    BY <1>0, LatestFacts
  <1> HIDE DEF e, q
  <1>4. CASE Limit < Len(q) + 1
    <2>1. Len(d) >= Limit /\ Len(q) = Limit /\ Len(e) > Limit
      BY <1>0, <1>1, <1>2, <1>4
    <2>2. ASSUME NEW i \in 1 .. Limit PROVE q[i] = d[Len(d) - Limit + i]
      <3>1. CASE Len(d) = Limit
        <4>1. Len(d) - Limit + i = i /\ q = d
          BY <1>0, <1>2, <3>1
        <4> QED BY <4>1
      <3> QED BY <1>0, <1>2, <2>1, <3>1
    <2>3. PICK r : r = Tail(Append(q, n))
      OBVIOUS
    <2>4. /\ r \in Seq(Nat) /\ Len(r) = Limit
          /\ \A i \in 1 .. Limit : r[i] = IF i = Limit THEN n ELSE q[i + 1]
      <3>1. PICK a : a = Append(q, n)
        OBVIOUS
      <3>2. /\ a \in Seq(Nat) /\ Len(a) = Limit + 1 /\ a # <<>>
            /\ \A i \in 1 .. Limit + 1 : a[i] = IF i = Limit + 1 THEN n ELSE q[i]
        <4>1. /\ a \in Seq(Nat) /\ a # <<>> /\ Len(a) = Len(q) + 1
          BY <1>0, <3>1, AppendProperties
        <4>2. a[Limit + 1] = n /\ \A i \in 1 .. Limit : a[i] = q[i]
          BY <1>0, <2>1, <3>1, AppendProperties
        <4> QED BY <1>0, <2>1, <4>1, <4>2
      <3>3. r \in Seq(Nat) /\ Len(r) = Limit /\ \A i \in 1 .. Limit : r[i] = a[i + 1]
        BY <1>0, <2>3, <3>1, <3>2, HeadTailProperties
      <3>4. \A i \in 1 .. Limit : i + 1 \in 1 .. Limit + 1 /\ (i + 1 = Limit + 1 <=> i = Limit)
        BY <1>0
      <3> QED BY <3>2, <3>3, <3>4
    <2>5. ASSUME NEW i \in 1 .. Limit PROVE r[i] = Latest(e)[i]
      <3>1. Latest(e)[i] = e[Len(d) + 1 - Limit + i]
        BY <1>0, <1>1, <1>3, <2>1
      <3>2. CASE i = Limit
        <4>1. Len(d) + 1 - Limit + i = Len(d) + 1
          BY <1>0, <3>2
        <4> QED BY <1>1, <2>4, <3>1, <3>2, <4>1
      <3>3. CASE i # Limit
        <4>1. i + 1 \in 1 .. Limit /\ q[i + 1] = d[Len(d) - Limit + (i + 1)]
          BY <1>0, <2>2, <3>3
        <4>2. /\ Len(d) + 1 - Limit + i \in 1 .. Len(d)
              /\ Len(d) - Limit + (i + 1) = Len(d) + 1 - Limit + i
          BY <1>0, <2>1, <3>3
        <4> QED BY <1>1, <2>4, <3>1, <3>3, <4>1, <4>2
      <3> QED BY <3>2, <3>3
    <2>6. r = Latest(e)
      BY <1>0, <1>3, <2>1, <2>4, <2>5, SeqEqual
    <2> QED BY <1>4, <2>3, <2>6 DEF e, q
  <1>5. CASE ~(Limit < Len(q) + 1)
    <2>1. Len(d) < Limit /\ q = d
      BY <1>0, <1>2, <1>5
    <2>2. Latest(e) = e
      BY <1>0, <1>1, <1>3, <2>1
    <2> QED BY <1>5, <2>1, <2>2 DEF e, q
  <1> QED BY <1>4, <1>5

LEMMA PushedOn ==
  ASSUME LoggerInv, process = "ready" \/ process = "absent", NEW n \in Nat, n = lines + 1,
         lines' = n, process' = "ready", Push(n), UNCHANGED waiting
  PROVE  LoggerInv'
  <1>1. queue = Latest(delivered)
    <2>1. CASE process = "absent"
      <3>1. queue = <<>> /\ delivered = <<>> /\ Limit \in Nat
        BY <2>1, LoggerAssumption DEF LoggerInv, LogHistory
      <3>2. <<>> \in Seq(Nat) /\ Len(<<>>) <= Limit
        BY <3>1
      <3> QED BY <3>1, <3>2, LatestFacts
    <2>2. CASE process = "ready"
      BY <2>2 DEF LoggerInv, LogHistory, Latest, From
    <2> QED BY <2>1, <2>2
  <1>2. delivered \in Seq(Nat) /\ delivered' = Append(delivered, n) /\ lines \in Nat
    BY DEF LoggerInv, Push
  <1>3. queue' = Latest(delivered')
    BY <1>1, <1>2, LastMoves DEF Push
  <1>4. queue' \in Seq(Nat) /\ delivered' \in Seq(Nat)
    <2>1. delivered' \in Seq(Nat)
      BY <1>2
    <2> QED BY <1>3, <2>1, LatestFacts
  <1>5. /\ \A i \in 1 .. Len(delivered) : delivered[i] <= lines
        /\ \A i, j \in 1 .. Len(delivered) : i < j => delivered[i] < delivered[j]
    BY DEF LoggerInv, LogHistory
  <1>6. /\ Len(delivered') = Len(delivered) + 1 /\ delivered'[Len(delivered) + 1] = n
        /\ \A i \in 1 .. Len(delivered) : delivered'[i] = delivered[i] /\ delivered[i] \in Nat
    BY <1>2
  <1>7. \A i \in 1 .. Len(delivered') : delivered'[i] <= lines'
    BY <1>2, <1>5, <1>6
  <1>8. \A i, j \in 1 .. Len(delivered') : i < j => delivered'[i] < delivered'[j]
    BY <1>2, <1>5, <1>6
  <1> QED BY <1>2, <1>3, <1>4, <1>7, <1>8 DEF LoggerInv, LogHistory, Latest, From

\* What is queued as it was delivered stays so.
LEMMA PushedAll ==
  ASSUME LoggerInv, process # "ready", UNCHANGED process, process # "absent", NEW n \in Nat,
         PushThrows(n), lines' \in Nat, waiting' \in Seq(Nat)
  PROVE  LoggerInv'
  <1>1. queue = delivered /\ queue' = Append(queue, n) /\ delivered' = Append(delivered, n)
        /\ queue \in Seq(Nat)
    BY DEF LoggerInv, LogHistory, PushThrows
  <1>2. queue' \in Seq(Nat)
    BY <1>1
  <1> QED BY <1>1, <1>2 DEF LoggerInv, LogHistory

LEMMA LoggerInvNext == LoggerInv /\ [LoggerNext]_loggerVars => LoggerInv'
  <1> SUFFICES ASSUME LoggerInv, [LoggerNext]_loggerVars PROVE LoggerInv'
    OBVIOUS
  <1>1. CASE Log
    <2> DEFINE n == lines + 1
    <2>1. n \in Nat /\ lines' = n
      BY <1>1 DEF Log, LoggerInv
    <2>2. CASE process' = "ready" /\ Push(n) /\ UNCHANGED waiting /\ process \in {"absent", "ready"}
      BY <2>1, <2>2, PushedOn
    <2>3. CASE process = "absent" /\ UNCHANGED <<process, waiting, queue, delivered>>
      BY <2>1, <2>3 DEF LoggerInv, LogHistory
    <2>4. CASE /\ process \in {"absent", "promise"} /\ process' = "promise"
               /\ waiting' = Append(waiting, n) /\ UNCHANGED <<queue, delivered>>
      <3>1. waiting' \in Seq(Nat)
        BY <2>1, <2>4 DEF LoggerInv
      <3> QED BY <2>1, <2>4, <3>1 DEF LoggerInv, LogHistory
    <2>5. CASE process = "pair" /\ PushThrows(n) /\ UNCHANGED <<process, waiting>>
      <3>1. waiting' \in Seq(Nat)
        BY <2>5 DEF LoggerInv
      <3> QED BY <2>1, <2>5, <3>1, PushedAll
    <2> QED BY <1>1, <2>2, <2>3, <2>4, <2>5 DEF Log
  <1>2. CASE Constructed
    BY <1>2 DEF Constructed, LoggerInv, LogHistory
  <1>3. CASE Deliver
    <2>1. Head(waiting) \in Nat /\ waiting' \in Seq(Nat)
      BY <1>3, HeadTailProperties DEF Deliver, LoggerInv
    <2>2. lines' \in Nat /\ process = "pair" /\ UNCHANGED process /\ PushThrows(Head(waiting))
      BY <1>3 DEF Deliver, LoggerInv
    <2> QED BY <2>1, <2>2, PushedAll
  <1>4. CASE GetRecentLogs
    <2>1. queue' = <<>> /\ delivered' = <<>> /\ UNCHANGED <<process, lines, waiting>>
      BY <1>4 DEF GetRecentLogs
    <2>2. queue' = Latest(delivered') /\ queue' \in Seq(Nat) /\ Len(delivered') = 0
      <3>1. <<>> \in Seq(Nat) /\ Len(<<>>) = 0 /\ Len(<<>>) <= Limit
        BY LoggerAssumption
      <3> QED BY <2>1, <3>1, LatestFacts
    <2>3. LogHistory'
      BY <2>1, <2>2 DEF LogHistory, Latest, From
    <2> QED BY <2>1, <2>2, <2>3 DEF LoggerInv
  <1>5. CASE UNCHANGED loggerVars
    BY <1>5 DEF loggerVars, LoggerInv, LogHistory
  <1> QED BY <1>1, <1>2, <1>3, <1>4, <1>5 DEF LoggerNext

\* The recent logs are the newest lines since the last read, in the order in
\* which they were logged, whenever Process is constructed at once; else nothing
\* is forgotten that reached the queue.
THEOREM HistoryIsRecent == LoggerSpec => []LogHistory
  <1>1. LoggerInit => LoggerInv
    BY DEF LoggerInit, LoggerInv, LogHistory
  <1>2. LoggerInv => LogHistory
    BY DEF LoggerInv
  <1> QED BY <1>1, <1>2, LoggerInvNext, PTL DEF LoggerSpec


(***************************************************************************)
(* The LRU map.                                                            *)
(***************************************************************************)

Once(s) == \A i, j \in 1 .. Len(s) : s[i] = s[j] => i = j

\* What comes later in s has been used since.
Aged(s, used) == \A i, j \in 1 .. Len(s) : i < j => s[j] \in used[s[i]]

\* A key that has been used is known, or as many others as there is room for
\* have been used since.
Recent(k) ==
  /\ k \in newer[k] => newer[k] = Names /\ ~Known(k)
  /\ k \notin newer[k] =>
       IsFiniteSet(newer[k]) /\ (Known(k) \/ Capacity <= Cardinality(newer[k]))

LRUInv ==
  /\ order \in Seq(Names) /\ Len(order) <= Capacity /\ Once(order)
  /\ entry \in [Names -> Data \cup {Undefined}]
  /\ \A k \in Names : ~Known(k) => entry[k] = Undefined
  /\ newer \in [Names -> SUBSET Names] /\ Aged(order, newer)
  /\ \A k \in Names : Recent(k)

\* A key that is used grows older with every use of another.
LEMMA UsedFacts ==
  ASSUME newer \in [Names -> SUBSET Names], NEW k \in Names
  PROVE  /\ Used(k) \in [Names -> SUBSET Names] /\ Used(k)[k] = {}
         /\ \A x \in Names \ {k} : Used(k)[x] = newer[x] \cup {k}
  BY DEF Used

LEMMA OlderStill ==
  ASSUME LRUInv, NEW k \in Names, newer' = Used(k), NEW x \in Names \ {k}, Known(x)' <=> Known(x)
  PROVE  Recent(x)'
  <1>1. newer'[x] = newer[x] \cup {k} /\ newer[x] \subseteq Names /\ Recent(x)
    BY UsedFacts DEF LRUInv
  <1>2. CASE x \in newer[x]
    BY <1>1, <1>2 DEF Recent
  <1>3. CASE x \notin newer[x]
    <2>1. IsFiniteSet(newer[x]) /\ (Known(x) \/ Capacity <= Cardinality(newer[x]))
      BY <1>1, <1>3 DEF Recent
    <2>2. IsFiniteSet(newer'[x]) /\ Cardinality(newer[x]) <= Cardinality(newer'[x])
      BY <1>1, <2>1, FS_AddElement, FS_Subset
    <2>3. Cardinality(newer[x]) \in Nat /\ Cardinality(newer'[x]) \in Nat /\ Capacity \in Nat
      BY <2>1, <2>2, FS_CardinalityType, LRUAssumption
    <2> QED BY <1>1, <1>3, <2>1, <2>2, <2>3 DEF Recent
  <1> QED BY <1>2, <1>3

\* A key that is found goes to the end.
LEMMA Rotated ==
  ASSUME LRUInv, NEW k \in Names, NEW i \in DOMAIN order, order[i] = k,
         order' = Append(RemoveAt(order, i), k), newer' = Used(k)
  PROVE  /\ order' \in Seq(Names) /\ Len(order') = Len(order)
         /\ Once(order') /\ Aged(order', newer')
         /\ \A x \in Names : Known(x)' <=> Known(x)
  <1> DEFINE n == Len(order)
  <1>0. /\ order \in Seq(Names) /\ n \in Nat /\ i \in 1 .. n
        /\ Once(order) /\ Aged(order, newer) /\ newer \in [Names -> SUBSET Names]
    BY DEF LRUInv
  <1>1. PICK a : a = SubSeq(order, 1, i - 1)
    OBVIOUS
  <1>2. PICK b : b = SubSeq(order, i + 1, n)
    OBVIOUS
  <1>3. a \in Seq(Names) /\ Len(a) = i - 1 /\ \A j \in 1 .. i - 1 : a[j] = order[j]
    BY <1>0, <1>1
  <1>4. b \in Seq(Names) /\ Len(b) = n - i /\ \A j \in 1 .. n - i : b[j] = order[i + j]
    BY <1>0, <1>2
  <1>5. PICK c : c = a \o b
    OBVIOUS
  <1>6. /\ c \in Seq(Names) /\ Len(c) = n - 1
        /\ \A j \in 1 .. n - 1 : c[j] = IF j < i THEN order[j] ELSE order[j + 1]
    <2>1. /\ c \in Seq(Names) /\ Len(c) = Len(a) + Len(b)
          /\ \A j \in 1 .. Len(a) + Len(b) : c[j] = IF j <= Len(a) THEN a[j] ELSE b[j - Len(a)]
      BY <1>3, <1>4, <1>5, ConcatProperties
    <2>2. Len(c) = n - 1
      BY <1>0, <1>3, <1>4, <2>1
    <2>3. ASSUME NEW j \in 1 .. n - 1 PROVE c[j] = IF j < i THEN order[j] ELSE order[j + 1]
      <3>1. c[j] = IF j <= i - 1 THEN a[j] ELSE b[j - (i - 1)]
        <4>1. j \in 1 .. Len(a) + Len(b)
          BY <1>0, <1>3, <1>4, <2>3
        <4> QED BY <1>3, <2>1, <4>1
      <3>2. CASE j < i
        BY <1>0, <1>3, <2>3, <3>1, <3>2
      <3>3. CASE ~(j < i)
        <4>1. j - (i - 1) \in 1 .. n - i /\ i + (j - (i - 1)) = j + 1
          BY <1>0, <2>3, <3>3
        <4>2. b[j - (i - 1)] = order[i + (j - (i - 1))]
          BY <1>4, <4>1
        <4> QED BY <1>0, <2>3, <3>1, <3>3, <4>1, <4>2
      <3> QED BY <3>2, <3>3
    <2> QED BY <2>1, <2>2, <2>3
  <1>7. order' = Append(c, k)
    BY <1>1, <1>2, <1>5 DEF RemoveAt
  <1>8. /\ order' \in Seq(Names) /\ Len(order') = n
        /\ order'[n] = k /\ \A j \in 1 .. n - 1 : order'[j] = c[j]
    <2>1. /\ Append(c, k) \in Seq(Names) /\ Len(Append(c, k)) = Len(c) + 1
          /\ \A j \in 1 .. Len(c) : Append(c, k)[j] = c[j] /\ Append(c, k)[Len(c) + 1] = k
      BY <1>6, AppendProperties
    <2>2. Append(c, k)[Len(c) + 1] = k /\ Len(c) + 1 = n
      BY <1>0, <1>6, AppendProperties
    <2> QED BY <1>6, <1>7, <2>1, <2>2
  \* Where in order the j-th key was.
  <1>9. PICK from : /\ from \in [1 .. n -> 1 .. n] /\ from[n] = i
                    /\ \A j \in 1 .. n - 1 : from[j] = IF j < i THEN j ELSE j + 1
    <2>1. PICK f : f = [j \in 1 .. n |-> IF j = n THEN i ELSE IF j < i THEN j ELSE j + 1]
      OBVIOUS
    <2>2. f \in [1 .. n -> 1 .. n] /\ f[n] = i
      BY <1>0, <2>1
    <2>3. \A j \in 1 .. n - 1 : f[j] = IF j < i THEN j ELSE j + 1
      BY <1>0, <2>1
    <2> QED BY <2>2, <2>3
  <1>10. \A j \in 1 .. n : order'[j] = order[from[j]]
    <2>1. ASSUME NEW j \in 1 .. n - 1 PROVE order'[j] = order[from[j]]
      <3>1. order'[j] = c[j] /\ c[j] = IF j < i THEN order[j] ELSE order[j + 1]
        BY <1>6, <1>8
      <3>2. from[j] = IF j < i THEN j ELSE j + 1
        BY <1>9
      <3> QED BY <3>1, <3>2
    <2>2. order'[n] = order[from[n]]
      BY <1>8, <1>9
    <2> SUFFICES ASSUME NEW j \in 1 .. n PROVE order'[j] = order[from[j]]
      OBVIOUS
    <2>3. CASE j = n
      BY <2>2, <2>3
    <2>4. CASE j # n
      <3>1. j \in 1 .. n - 1
        BY <1>0, <2>4
      <3> QED BY <2>1, <3>1
    <2> QED BY <2>3, <2>4
  <1>11. \A j, l \in 1 .. n : from[j] = from[l] => j = l
    <2>1. \A j \in 1 .. n - 1 : from[j] # i
      BY <1>0, <1>9
    <2>2. \A j, l \in 1 .. n - 1 : from[j] = from[l] => j = l
      BY <1>0, <1>9
    <2> QED BY <1>0, <1>9, <2>1, <2>2
  <1>12. Once(order')
    <2> SUFFICES ASSUME NEW j \in 1 .. Len(order'), NEW l \in 1 .. Len(order'), order'[j] = order'[l]
                 PROVE  j = l
      BY DEF Once
    <2>1. j \in 1 .. n /\ l \in 1 .. n
      BY <1>8
    <2>2. order[from[j]] = order[from[l]] /\ from[j] \in 1 .. n /\ from[l] \in 1 .. n
      BY <1>9, <1>10, <2>1
    <2> QED BY <1>0, <1>11, <2>1, <2>2 DEF Once
  <1>13. Aged(order', newer')
    <2> SUFFICES ASSUME NEW j \in 1 .. Len(order'), NEW l \in 1 .. Len(order'), j < l
                 PROVE  order'[l] \in newer'[order'[j]]
      BY DEF Aged
    <2>0. j \in 1 .. n /\ l \in 1 .. n
      BY <1>8
    <2>1. from[j] \in 1 .. n /\ from[j] # i /\ from[l] \in 1 .. n
      <3>1. j \in 1 .. n - 1
        BY <1>0, <2>0
      <3> QED BY <1>0, <1>9, <2>0, <3>1
    <2>2. order'[j] \in Names \ {k}
      <3>1. order'[j] = order[from[j]] /\ order[from[j]] \in Names
        BY <1>0, <1>10, <2>0, <2>1
      <3>2. order[from[j]] # order[i]
        BY <1>0, <2>1 DEF Once
      <3> QED BY <3>1, <3>2
    <2>3. newer'[order'[j]] = newer[order'[j]] \cup {k}
      BY <1>0, <2>2, UsedFacts
    <2>4. CASE l = n
      BY <1>8, <2>3, <2>4
    <2>5. CASE l # n
      <3>1. from[j] < from[l]
        BY <1>0, <1>9, <2>0, <2>5
      <3>2. order[from[l]] \in newer[order[from[j]]]
        BY <1>0, <2>1, <3>1 DEF Aged
      <3> QED BY <1>10, <2>0, <2>3, <3>2
    <2> QED BY <2>4, <2>5
  <1>14. ASSUME NEW x \in Names PROVE Known(x)' <=> Known(x)
    <2>1. Known(x)' => Known(x)
      BY <1>8, <1>9, <1>10 DEF Known, Contains
    <2>2. ASSUME NEW j \in 1 .. n PROVE \E l \in 1 .. n : from[l] = j
      <3>1. CASE j < i
        <4>1. j \in 1 .. n - 1 /\ from[j] = j
          BY <1>0, <1>9, <3>1
        <4> QED BY <4>1
      <3>2. CASE j = i
        BY <1>0, <1>9, <3>2
      <3>3. CASE j > i
        <4>1. j - 1 \in 1 .. n - 1 /\ from[j - 1] = j
          BY <1>0, <1>9, <3>3
        <4> QED BY <1>0, <4>1
      <3> QED BY <1>0, <3>1, <3>2, <3>3
    <2>3. Known(x) => Known(x)'
      <3> HAVE Known(x)
      <3>1. PICK j \in 1 .. n : order[j] = x
        BY DEF Known, Contains
      <3>2. PICK l \in 1 .. n : from[l] = j
        BY <2>2
      <3>3. order'[l] = x
        BY <1>10, <3>1, <3>2
      <3> QED BY <1>8, <3>3 DEF Known, Contains
    <2> QED BY <2>1, <2>3
  <1> QED BY <1>8, <1>12, <1>13, <1>14

\* One key too many pushes the first one out.
LEMMA NewestFacts ==
  ASSUME NEW s \in Seq(Names), Len(s) <= Capacity + 1
  PROVE  /\ Len(s) <= Capacity => Newest(s) = s
         /\ Len(s) > Capacity => Newest(s) = Tail(s)
  <1>0. Capacity \in Nat /\ Len(s) \in Nat
    BY LRUAssumption
  <1>1. CASE Len(s) <= Capacity
    <2>1. Newest(s) = SubSeq(s, 1, Len(s))
      <3>1. ~(Len(s) > Capacity)
        BY <1>0, <1>1
      <3> QED BY <3>1 DEF Newest
    <2>2. SubSeq(s, 1, Len(s)) = s
      BY SubSeqFull
    <2>3. Newest(s) = s
      BY <2>1, <2>2, Zenon
    <2> QED BY <1>0, <1>1, <2>3
  <1>2. CASE Len(s) > Capacity
    <2>1. Len(s) = Capacity + 1 /\ Len(s) - Capacity + 1 = 2
      BY <1>0, <1>2
    <2>2. Newest(s) = SubSeq(s, 2, Len(s))
      <3>1. Newest(s) = SubSeq(s, Len(s) - Capacity + 1, Len(s))
        BY <1>2 DEF Newest
      <3> QED BY <2>1, <3>1
    <2>3. s # <<>>
      BY <1>0, <2>1
    <2>4. Newest(s) = Tail(s)
      BY <2>2, <2>3, TailIsSubSeq
    <2> QED BY <1>0, <1>2, <2>4
  <1> QED BY <1>0, <1>1, <1>2

\* A key that is new goes to the end.
LEMMA Appended ==
  ASSUME LRUInv, NEW k \in Names, ~Known(k), NEW o, o = Append(order, k)
  PROVE  /\ o \in Seq(Names) /\ Len(o) = Len(order) + 1 /\ o[Len(o)] = k
         /\ \A j \in 1 .. Len(order) : o[j] = order[j] /\ o[j] \in Names \ {k}
         /\ Once(o) /\ Aged(o, Used(k))
  <1>0. /\ order \in Seq(Names) /\ Len(order) \in Nat
        /\ Once(order) /\ Aged(order, newer) /\ newer \in [Names -> SUBSET Names]
    BY DEF LRUInv
  <1>1. /\ o \in Seq(Names) /\ Len(o) = Len(order) + 1
        /\ \A j \in 1 .. Len(order) : o[j] = order[j]
        /\ o[Len(order) + 1] = k
    BY <1>0, AppendProperties
  <1>2. ASSUME NEW j \in 1 .. Len(order) PROVE o[j] = order[j] /\ o[j] \in Names \ {k}
    <2>1. order[j] # k
      BY <1>0 DEF Known, Contains
    <2> QED BY <1>0, <1>1, <2>1
  <1>3. ASSUME NEW j \in 1 .. Len(o), NEW l \in 1 .. Len(o), o[j] = o[l] PROVE j = l
    <2>1. CASE j \in 1 .. Len(order) /\ l \in 1 .. Len(order)
      BY <1>0, <1>2, <1>3, <2>1 DEF Once
    <2>2. CASE j = Len(order) + 1 \/ l = Len(order) + 1
      BY <1>0, <1>1, <1>2, <1>3, <2>2
    <2> QED BY <1>0, <1>1, <2>1, <2>2
  <1>4. ASSUME NEW j \in 1 .. Len(o), NEW l \in 1 .. Len(o), j < l
        PROVE  o[l] \in Used(k)[o[j]]
    <2>1. j \in 1 .. Len(order)
      BY <1>0, <1>1, <1>4
    <2>2. Used(k)[o[j]] = newer[o[j]] \cup {k}
      BY <1>0, <1>2, <2>1, UsedFacts
    <2>3. CASE l = Len(order) + 1
      BY <1>1, <2>2, <2>3
    <2>4. CASE l \in 1 .. Len(order)
      <3>1. order[l] \in newer[order[j]]
        BY <1>0, <1>4, <2>1, <2>4 DEF Aged
      <3> QED BY <1>2, <2>1, <2>2, <2>4, <3>1
    <2> QED BY <1>0, <1>1, <2>3, <2>4
  <1>5. Once(o)
    BY <1>3 DEF Once
  <1>6. Aged(o, Used(k))
    BY <1>4 DEF Aged
  <1> QED BY <1>1, <1>2, <1>5, <1>6

\* As many keys as follow each other in the map have been used.
LEMMA ManyUsed ==
  ASSUME NEW s \in Seq(Names), Once(s), NEW used, IsFiniteSet(used),
         \A j \in 1 .. Len(s) : s[j] \in used
  PROVE  Len(s) <= Cardinality(used)
  <1>1. s \in [1 .. Len(s) -> used] /\ Len(s) \in Nat
    BY LenProperties
  <1>2. s \in Injection(1 .. Len(s), used)
    BY <1>1 DEF Injection, IsInjective, Once
  <1>3. Cardinality(1 .. Len(s)) = Len(s)
    <2>1. PICK n \in Nat : n = Len(s)
      BY <1>1
    <2>2. 1 \in Int /\ n \in Int /\ (IF 1 > n THEN 0 ELSE n - 1 + 1) = n
      BY <2>1
    <2>3. Cardinality(1 .. n) = n
      BY <2>2, FS_Interval
    <2> QED BY <2>1, <2>3
  <1> QED BY <1>2, <1>3, FS_Injection

\* What is true of o holds of the keys that are kept of it.
LEMMA Shortened ==
  ASSUME NEW o \in Seq(Names), Len(o) = Capacity + 1, NEW used, Once(o), Aged(o, used)
  PROVE  /\ Newest(o) \in Seq(Names) /\ Len(Newest(o)) = Capacity
         /\ \A j \in 1 .. Capacity : Newest(o)[j] = o[j + 1]
         /\ Once(Newest(o)) /\ Aged(Newest(o), used)
  <1>0. Capacity \in Nat /\ o # <<>>
    BY LRUAssumption
  <1>1. Newest(o) = Tail(o)
    BY <1>0, NewestFacts
  <1>2. PICK s : s = Newest(o)
    OBVIOUS
  <1>3. s \in Seq(Names) /\ Len(s) = Capacity /\ \A j \in 1 .. Capacity : s[j] = o[j + 1]
    <2>1. /\ Tail(o) \in Seq(Names) /\ Len(Tail(o)) = Len(o) - 1
          /\ \A i \in 1 .. Len(Tail(o)) : Tail(o)[i] = o[i + 1]
      BY <1>0, HeadTailProperties
    <2>2. Len(o) - 1 = Capacity
      BY <1>0
    <2> QED BY <1>1, <1>2, <2>1, <2>2
  <1>4. ASSUME NEW j \in 1 .. Len(s), NEW l \in 1 .. Len(s)
        PROVE  (s[j] = s[l] => j = l) /\ (j < l => s[l] \in used[s[j]])
    <2>1. j + 1 \in 1 .. Len(o) /\ l + 1 \in 1 .. Len(o)
      BY <1>0, <1>3
    <2>2. s[j] = o[j + 1] /\ s[l] = o[l + 1]
      BY <1>3
    <2>3. o[j + 1] = o[l + 1] => j + 1 = l + 1
      BY <2>1 DEF Once
    <2>4. j + 1 < l + 1 => o[l + 1] \in used[o[j + 1]]
      BY <2>1 DEF Aged
    <2> QED BY <1>3, <2>2, <2>3, <2>4
  <1>5. Once(s)
    BY <1>4 DEF Once
  <1>6. Aged(s, used)
    BY <1>4 DEF Aged
  <1> QED BY <1>2, <1>3, <1>5, <1>6

LEMMA JustUsed ==
  ASSUME LRUInv, NEW k \in Names, newer' = Used(k), Known(k)' \/ Capacity = 0
  PROVE  Recent(k)'
  <1>1. newer'[k] = {}
    BY UsedFacts DEF LRUInv
  <1>2. IsFiniteSet({}) /\ Cardinality({}) = 0
    BY FS_EmptySet
  <1>3. Known(k)' \/ Capacity <= Cardinality(newer'[k])
    <2>1. Capacity = 0 => Capacity <= Cardinality(newer'[k])
      BY <1>1, <1>2
    <2> QED BY <2>1
  <1> QED BY <1>1, <1>2, <1>3 DEF Recent

\* The key that is evicted is older than as many others as there is room for.
LEMMA Inserted ==
  ASSUME LRUInv, NEW k \in Names, ~Known(k), newer' = Used(k),
         order' = Newest(Append(order, k))
  PROVE  /\ order' \in Seq(Names) /\ Len(order') <= Capacity
         /\ Once(order') /\ Aged(order', newer')
         /\ \A x \in Names : Recent(x)' /\ (Known(x)' => Known(x) \/ x = k)
  <1>0. /\ order \in Seq(Names) /\ Len(order) \in Nat /\ Len(order) <= Capacity
        /\ Capacity \in Nat /\ newer \in [Names -> SUBSET Names]
    BY LRUAssumption DEF LRUInv
  <1>1. PICK o : o = Append(order, k)
    OBVIOUS
  <1>2. /\ o \in Seq(Names) /\ Len(o) = Len(order) + 1 /\ o[Len(o)] = k
        /\ \A j \in 1 .. Len(order) : o[j] = order[j] /\ o[j] \in Names \ {k}
        /\ Once(o) /\ Aged(o, newer')
    <2>1. /\ o \in Seq(Names) /\ Len(o) = Len(order) + 1 /\ o[Len(o)] = k
          /\ \A j \in 1 .. Len(order) : o[j] = order[j] /\ o[j] \in Names \ {k}
          /\ Once(o) /\ Aged(o, Used(k))
      <3>1. o \in Seq(Names) /\ Len(o) = Len(order) + 1 /\ o[Len(o)] = k
        BY <1>1, Appended
      <3>2. \A j \in 1 .. Len(order) : o[j] = order[j]
        BY <1>1, Appended
      <3>3. \A j \in 1 .. Len(order) : o[j] \in Names \ {k}
        BY <1>1, Appended
      <3>4. Once(o) /\ Aged(o, Used(k))
        BY <1>1, Appended
      <3> QED BY <3>1, <3>2, <3>3, <3>4
    <2> QED BY <2>1
  <1>3. CASE Len(order) < Capacity
    <2>1. order' = o
      <3>1. Len(o) <= Capacity /\ Len(o) <= Capacity + 1
        BY <1>0, <1>2, <1>3
      <3>2. Newest(o) = o
        BY <1>2, <3>1, NewestFacts
      <3> QED BY <1>1, <3>2
    <2>2. Known(k)'
      <3>1. Len(o) \in 1 .. Len(o)
        BY <1>0, <1>2
      <3> QED BY <1>2, <2>1, <3>1 DEF Known, Contains
    <2>3. ASSUME NEW x \in Names \ {k} PROVE Known(x)' <=> Known(x)
      <3>1. Known(x)' => Known(x)
        <4> HAVE Known(x)'
        <4>1. PICK j \in 1 .. Len(o) : o[j] = x
          BY <2>1 DEF Known, Contains
        <4>2. j \in 1 .. Len(order)
          BY <1>0, <1>2, <2>3, <4>1
        <4> QED BY <1>2, <4>1, <4>2 DEF Known, Contains
      <3>2. Known(x) => Known(x)'
        <4> HAVE Known(x)
        <4>1. PICK j \in 1 .. Len(order) : order[j] = x
          BY DEF Known, Contains
        <4>2. o[j] = x /\ j \in 1 .. Len(o)
          BY <1>0, <1>2, <4>1
        <4> QED BY <2>1, <4>2 DEF Known, Contains
      <3> QED BY <3>1, <3>2
    <2>4. ASSUME NEW x \in Names PROVE Recent(x)' /\ (Known(x)' => Known(x) \/ x = k)
      <3>1. CASE x = k
        BY <2>2, <3>1, JustUsed
      <3>2. CASE x # k
        <4>1. Known(x)' <=> Known(x)
          BY <2>3, <3>2
        <4> QED BY <3>2, <4>1, OlderStill
      <3> QED BY <3>1, <3>2
    <2>5. Len(order') <= Capacity
      BY <1>0, <1>2, <1>3, <2>1
    <2> QED BY <1>2, <2>1, <2>4, <2>5
  <1>4. CASE Len(order) = Capacity
    <2>1. Len(o) = Capacity + 1 /\ order' = Newest(o)
      BY <1>1, <1>2, <1>4
    <2>2. /\ order' \in Seq(Names) /\ Len(order') = Capacity
          /\ \A j \in 1 .. Capacity : order'[j] = o[j + 1]
          /\ Once(order') /\ Aged(order', newer')
      BY <1>2, <2>1, Shortened
    <2>3. Known(k)' \/ Capacity = 0
      <3> SUFFICES ASSUME Capacity # 0 PROVE Known(k)'
        OBVIOUS
      <3>1. Capacity \in 1 .. Capacity
        BY <1>0
      <3>2. order'[Capacity] = k
        BY <1>2, <2>1, <2>2, <3>1
      <3> QED BY <2>2, <3>1, <3>2 DEF Known, Contains
    <2>4. ASSUME NEW x \in Names \ {k}, ~Known(x) PROVE ~Known(x)'
      <3> SUFFICES ASSUME Known(x)' PROVE FALSE
        OBVIOUS
      <3>1. PICK j \in 1 .. Capacity : order'[j] = x
        BY <2>2 DEF Known, Contains
      <3>2. o[j + 1] = x /\ j + 1 \in 1 .. Len(o)
        BY <1>0, <2>1, <2>2, <3>1
      <3>3. j + 1 \in 1 .. Len(order)
        BY <1>0, <1>2, <2>4, <3>2
      <3> QED BY <1>2, <2>4, <3>2, <3>3 DEF Known, Contains
    <2>5. ASSUME NEW x \in Names \ {k}, Known(x), ~Known(x)'
          PROVE  Recent(x)'
      <3>1. PICK j \in 1 .. Len(order) : order[j] = x
        BY <2>5 DEF Known, Contains
      <3>2. j = 1
        <4> SUFFICES ASSUME j # 1 PROVE FALSE
          OBVIOUS
        <4>1. j - 1 \in 1 .. Capacity /\ (j - 1) + 1 = j
          BY <1>0, <1>4
        <4>2. order'[j - 1] = x
          BY <1>2, <2>2, <3>1, <4>1
        <4> QED BY <2>2, <2>5, <4>1, <4>2 DEF Known, Contains
      <3>3. o[1] = x /\ 1 \in 1 .. Len(o)
        BY <1>0, <1>2, <3>1, <3>2
      <3>4. newer'[x] = newer[x] \cup {k} /\ Recent(x)
        BY <1>0, UsedFacts DEF LRUInv
      <3>5. x \notin newer[x] /\ IsFiniteSet(newer[x])
        BY <2>5, <3>4 DEF Recent
      <3>6. x \notin newer'[x] /\ IsFiniteSet(newer'[x])
        BY <3>4, <3>5, FS_AddElement
      <3>7. ASSUME NEW l \in 1 .. Len(order') PROVE order'[l] \in newer'[x]
        <4>1. l + 1 \in 1 .. Len(o) /\ 1 < l + 1
          BY <1>0, <2>1, <2>2
        <4>2. order'[l] = o[l + 1]
          BY <2>2
        <4> QED BY <1>2, <3>3, <4>1, <4>2 DEF Aged
      <3>8. Capacity <= Cardinality(newer'[x])
        BY <2>2, <3>6, <3>7, ManyUsed
      <3> QED BY <3>6, <3>8 DEF Recent
    <2>6. ASSUME NEW x \in Names PROVE Recent(x)' /\ (Known(x)' => Known(x) \/ x = k)
      <3>1. CASE x = k
        BY <2>3, <3>1, JustUsed
      <3>2. CASE x # k /\ Known(x) /\ ~Known(x)'
        BY <2>5, <3>2
      <3>3. CASE x # k /\ ~(Known(x) /\ ~Known(x)')
        <4>1. Known(x)' <=> Known(x)
          BY <2>4, <3>3
        <4> QED BY <3>3, <4>1, OlderStill
      <3> QED BY <3>1, <3>2, <3>3
    <2> QED BY <1>0, <2>2, <2>6
  <1> QED BY <1>0, <1>3, <1>4

LEMMA SetKnown ==
  ASSUME LRUInv, NEW k \in Names, NEW v \in Data, LRUSet(k, v), Known(k)
  PROVE  order' = order /\ newer' = newer
  <1>1. order \in Seq(Names) /\ Len(order) <= Capacity /\ Len(order) <= Capacity + 1
    BY LRUAssumption DEF LRUInv
  <1>2. Newest(order) = order
    BY <1>1, NewestFacts
  <1> QED BY <1>2 DEF LRUSet

LEMMA SetKeys ==
  ASSUME LRUInv, NEW k \in Names, NEW v \in Data, LRUSet(k, v)
  PROVE  /\ order' \in Seq(Names) /\ Len(order') <= Capacity
         /\ Once(order') /\ Aged(order', newer') /\ newer' \in [Names -> SUBSET Names]
         /\ \A x \in Names : Recent(x)' /\ (Known(x)' => Known(x) \/ x = k)
  <1>1. CASE Known(k)
    <2>1. order' = order /\ newer' = newer
      BY <1>1, SetKnown
    <2>2. ASSUME NEW x \in Names PROVE Recent(x)' /\ (Known(x)' => Known(x))
      BY <2>1 DEF LRUInv, Recent, Known
    <2> QED BY <2>1, <2>2 DEF LRUInv
  <1>2. CASE ~Known(k)
    <2>1. newer' = Used(k) /\ order' = Newest(Append(order, k))
      BY <1>2 DEF LRUSet
    <2>2. newer' \in [Names -> SUBSET Names]
      BY <2>1, UsedFacts DEF LRUInv
    <2> QED BY <1>2, <2>1, <2>2, Inserted
  <1> QED BY <1>1, <1>2

LEMMA SetEntries ==
  ASSUME NEW k \in Names, NEW v \in Data, LRUSet(k, v)
  PROVE  entry' = [x \in Names |-> IF ~Known(x)' THEN Undefined
                                   ELSE IF x = k THEN v ELSE entry[x]]
  BY DEF LRUSet, Known

LEMMA SetKeepsInv ==
  ASSUME LRUInv, NEW k \in Names, NEW v \in Data, LRUSet(k, v)
  PROVE  LRUInv'
  <1>1. entry' \in [Names -> Data \cup {Undefined}]
    BY SetEntries DEF LRUInv
  <1>2. ASSUME NEW x \in Names, ~Known(x)' PROVE entry'[x] = Undefined
    BY <1>2, SetEntries
  <1>3. \A x \in Names : Recent(x)'
    BY SetKeys
  <1> QED BY <1>1, <1>2, <1>3, SetKeys DEF LRUInv

LEMMA GetKeepsInv ==
  ASSUME LRUInv, NEW k \in Names, LRUGet(k)
  PROVE  LRUInv'
  <1>1. entry' = entry
    BY DEF LRUGet
  <1>2. CASE order' = order /\ newer' = newer
    <2>1. ASSUME NEW x \in Names PROVE Recent(x)' /\ (Known(x)' <=> Known(x))
      BY <1>2 DEF LRUInv, Recent, Known
    <2> QED BY <1>1, <1>2, <2>1 DEF LRUInv
  <1>3. ASSUME NEW i \in DOMAIN order, order[i] = k,
               order' = Append(RemoveAt(order, i), k), newer' = Used(k)
        PROVE  LRUInv'
    <2>1. /\ order' \in Seq(Names) /\ Len(order') = Len(order)
          /\ Once(order') /\ Aged(order', newer')
      BY <1>3, Rotated
    <2>2. \A x \in Names : Known(x)' <=> Known(x)
      BY <1>3, Rotated
    <2>3. Known(k)
      BY <1>3 DEF LRUInv, Known, Contains
    <2>4. ASSUME NEW x \in Names PROVE Recent(x)'
      <3>1. CASE x = k
        BY <1>3, <2>2, <2>3, <3>1, JustUsed
      <3>2. CASE x # k
        <4>1. Known(x)' <=> Known(x)
          BY <2>2
        <4> QED BY <1>3, <3>2, <4>1, OlderStill
      <3> QED BY <3>1, <3>2
    <2>5. newer' \in [Names -> SUBSET Names]
      BY <1>3, UsedFacts DEF LRUInv
    <2>6. Len(order') <= Capacity
      BY <2>1 DEF LRUInv
    <2>7. \A x \in Names : ~Known(x)' => entry'[x] = Undefined
      BY <1>1, <2>2 DEF LRUInv
    <2> QED BY <1>1, <2>1, <2>4, <2>5, <2>6, <2>7 DEF LRUInv
  <1> QED BY <1>2, <1>3 DEF LRUGet

LEMMA LRUInvNext ==
  ASSUME LRUInv, [LRUNext]_lruVars
  PROVE  LRUInv'
  <1>1. CASE LRUClear
    <2>1. order' = <<>> /\ newer' = [k \in Names |-> Names]
          /\ entry' = [k \in Names |-> Undefined]
      BY <1>1 DEF LRUClear
    <2>2. <<>> \in Seq(Names) /\ Len(<<>>) = 0 /\ 0 <= Capacity
      BY LRUAssumption
    <2>3. Once(order') /\ Aged(order', newer') /\ \A k \in Names : ~Known(k)'
      BY <2>1 DEF Once, Aged, Known, Contains
    <2>4. \A k \in Names : Recent(k)'
      BY <2>1, <2>3 DEF Recent
    <2> QED BY <2>1, <2>2, <2>3, <2>4 DEF LRUInv
  <1>2. ASSUME NEW k \in Names, LRUGet(k) PROVE LRUInv'
    BY <1>2, GetKeepsInv
  <1>3. ASSUME NEW k \in Names, NEW v \in Data, LRUSet(k, v) PROVE LRUInv'
    BY <1>3, SetKeepsInv
  <1>4. CASE UNCHANGED lruVars
    <2>1. ASSUME NEW x \in Names PROVE Recent(x)' /\ (Known(x)' <=> Known(x))
      BY <1>4 DEF LRUInv, Recent, Known, lruVars
    <2> QED BY <1>4, <2>1 DEF LRUInv, lruVars
  <1> QED BY <1>1, <1>2, <1>3, <1>4 DEF LRUNext, Memo

LEMMA LRUInvInit ==
  ASSUME LRUInit
  PROVE  LRUInv
  <1>1. <<>> \in Seq(Names) /\ Len(<<>>) = 0 /\ 0 <= Capacity
    BY LRUAssumption
  <1>2. Once(order) /\ Aged(order, newer) /\ \A k \in Names : ~Known(k)
    BY DEF LRUInit, Once, Aged, Known, Contains
  <1>3. \A k \in Names : Recent(k)
    BY <1>2 DEF LRUInit, Recent
  <1> QED BY <1>1, <1>2, <1>3 DEF LRUInit, LRUInv

THEOREM LRUInvariant == LRUSpec => []LRUInv
  BY LRUInvInit, LRUInvNext, PTL DEF LRUSpec

\* A key is evicted only after as many other keys as there is room for have been
\* inserted or found since it was, whatever the capacity.
THEOREM LRURecentStays == LRUSpec => []RecentStays
  <1>1. LRUInv => RecentStays
    <2> SUFFICES ASSUME LRUInv, NEW k \in Names, newer[k] # Names,
                        Cardinality(newer[k]) < Capacity
                 PROVE  Known(k)
      BY DEF RecentStays
    <2>1. Recent(k) /\ Capacity \in Nat
      BY LRUAssumption DEF LRUInv
    <2>2. IsFiniteSet(newer[k]) /\ (Known(k) \/ Capacity <= Cardinality(newer[k]))
      BY <2>1 DEF Recent
    <2>3. Cardinality(newer[k]) \in Nat
      BY <2>2, FS_CardinalityType
    <2> QED BY <2>1, <2>2, <2>3
  <1> QED BY <1>1, LRUInvariant, PTL

\* No more keys are known than there is room for.
LEMMA FewKnown ==
  ASSUME NEW s \in Seq(Names), Len(s) <= Capacity,
         NEW kept, kept = {x \in Names : \E i \in 1 .. Len(s) : s[i] = x}
  PROVE  Cardinality(kept) <= Capacity
  <1>1. s \in [1 .. Len(s) -> kept] /\ Len(s) \in Nat
    BY LenProperties
  <1>2. s \in Surjection(1 .. Len(s), kept)
    BY <1>1 DEF Surjection
  <1>3. PICK n \in Nat : n = Len(s)
    BY <1>1
  <1>4. 1 \in Int /\ n \in Int /\ (IF 1 > n THEN 0 ELSE n - 1 + 1) = n
    BY <1>3
  <1>5. IsFiniteSet(1 .. n) /\ Cardinality(1 .. n) = n
    BY <1>4, FS_Interval
  <1>6. IsFiniteSet(kept) /\ Cardinality(kept) <= n
    BY <1>2, <1>3, <1>5, FS_Surjection
  <1>7. Cardinality(kept) \in Nat /\ Capacity \in Nat
    BY <1>6, FS_CardinalityType, LRUAssumption
  <1> QED BY <1>3, <1>6, <1>7

LEMMA SetPuts ==
  ASSUME LRUInv, LRUInv', NEW k \in Names, NEW v \in Data, LRUSet(k, v)
  PROVE  Abstract!Put(k, v)
  <1>1. PICK kept : kept = {x \in Names : \E i \in 1 .. Len(order') : order'[i] = x}
    OBVIOUS
  <1>2. \A x \in Names : x \in kept <=> Known(x)'
    BY <1>1 DEF LRUInv, Known, Contains
  <1>3. kept \in SUBSET Names /\ Cardinality(kept) <= Capacity
    BY <1>1, FewKnown DEF LRUInv
  <1>4. entry' = [x \in Names |-> IF x \notin kept THEN Undefined
                                  ELSE IF x = k THEN v ELSE entry[x]]
    BY <1>2, SetEntries
  <1>5. answer' = <<k, v>>
    BY DEF LRUSet
  <1> SUFFICES \E K \in SUBSET Names :
                 /\ Cardinality(K) <= Capacity
                 /\ entry' = [x \in Names |-> IF x \notin K THEN Undefined
                                              ELSE IF x = k THEN v ELSE entry[x]]
                 /\ answer' = <<k, v>>
    BY Zenon DEF Abstract!Put, Abstract!Cardinality, Cardinality
  <1>6. kept \in SUBSET Names
    BY <1>3
  <1> WITNESS kept \in SUBSET Names
  <1> QED BY <1>3, <1>4, <1>5, Zenon

LEMMA LRUSteps ==
  ASSUME LRUInv, LRUInv', [LRUNext]_lruVars
  PROVE  [Abstract!CacheNext]_<<entry, answer>>
  <1>1. CASE LRUClear
    BY <1>1 DEF LRUClear, Abstract!CacheNext, Abstract!Forget
  <1>2. ASSUME NEW k \in Names, LRUGet(k) PROVE Abstract!CacheNext
    BY <1>2 DEF LRUGet, Abstract!CacheNext, Abstract!Look
  <1>3. ASSUME NEW k \in Names, NEW v \in Data, LRUSet(k, v) PROVE Abstract!CacheNext
    BY <1>3, SetPuts DEF Abstract!CacheNext
  <1>4. CASE UNCHANGED lruVars
    BY <1>4 DEF lruVars
  <1> QED BY <1>1, <1>2, <1>3, <1>4 DEF LRUNext, Memo

\* The LRU map is a cache: through evictions and rotations a key answers with
\* the value that was last set for it, or with undefined.
THEOREM LRUIsCache == LRUSpec => LRUImplementsCache
  <1>1. LRUInit => Abstract!CacheInit
    BY DEF LRUInit, Abstract!CacheInit
  <1> QED BY <1>1, LRUSteps, LRUInvariant, PTL
       DEF LRUSpec, LRUImplementsCache, Abstract!CacheSpec

(***************************************************************************)
(* The bidirectional map.                                                  *)
(***************************************************************************)

\* f holds finitely many entries of side s.
Holds(s, f) ==
  /\ f \in [DOMAIN f -> KeysOf(Other(s))]
  /\ DOMAIN f \subseteq KeysOf(s) /\ IsFiniteSet(DOMAIN f)

Inverses(f, g) == \A k \in DOMAIN f : f[k] \in DOMAIN g /\ g[f[k]] = k

BiInv ==
  /\ DOMAIN data = Sides /\ DOMAIN size = Sides
  /\ \A s \in Sides : Holds(s, data[s]) /\ size[s] = Cardinality(DOMAIN data[s])
  /\ clean => \A s \in Sides : Inverses(data[s], data[Other(s)])

LEMMA BiConsistent ==
  ASSUME BiInv
  PROVE  BiMapConsistent
  BY DEF BiInv, BiMapConsistent, Inverses, Has

LEMMA OtherFacts ==
  /\ \A s \in Sides : Other(s) \in Sides /\ Other(s) # s /\ Other(Other(s)) = s
  /\ \A s, t \in Sides : t = s \/ t = Other(s)
  BY DEF Sides, Other

LEMMA WithHolds ==
  ASSUME NEW s \in Sides, NEW f, Holds(s, f), NEW k \in KeysOf(s), NEW v \in KeysOf(Other(s)),
         k \notin DOMAIN f, NEW g, g = With(f, k, v)
  PROVE  Holds(s, g) /\ Cardinality(DOMAIN g) = Cardinality(DOMAIN f) + 1
  <1>1. DOMAIN g = DOMAIN f \cup {k}
    BY DEF With
  <1>2. IsFiniteSet(DOMAIN f)
    BY DEF Holds
  <1>3. /\ IsFiniteSet(DOMAIN f \cup {k})
        /\ Cardinality(DOMAIN f \cup {k}) = Cardinality(DOMAIN f) + 1
    BY <1>2, FS_AddElement
  <1>4. g \in [DOMAIN f \cup {k} -> KeysOf(Other(s))]
    BY DEF Holds, With
  <1>5. DOMAIN f \cup {k} \subseteq KeysOf(s)
    BY DEF Holds
  <1> QED BY <1>1, <1>3, <1>4, <1>5 DEF Holds

\* A new pair keeps two inverse maps inverse to each other.
LEMMA WithInverse ==
  ASSUME NEW f, NEW g, NEW k, NEW v, k \notin DOMAIN f, v \notin DOMAIN g, Inverses(f, g)
  PROVE  Inverses(With(f, k, v), With(g, v, k))
  <1> SUFFICES ASSUME NEW x \in DOMAIN f \cup {k}
               PROVE  /\ With(f, k, v)[x] \in DOMAIN g \cup {v}
                      /\ With(g, v, k)[With(f, k, v)[x]] = x
    BY DEF Inverses, With
  <1>1. CASE x = k
    BY <1>1 DEF With
  <1>2. CASE x # k
    <2>1. x \in DOMAIN f /\ f[x] \in DOMAIN g /\ g[f[x]] = x
      BY <1>2 DEF Inverses
    <2>2. With(f, k, v)[x] = f[x] /\ f[x] # v
      BY <1>2, <2>1 DEF With
    <2>3. With(g, v, k)[f[x]] = x
      BY <2>1, <2>2 DEF With
    <2> QED BY <2>1, <2>2, <2>3
  <1> QED BY <1>1, <1>2

LEMMA SideGrows ==
  ASSUME BiInv, NEW s \in Sides, NEW k \in KeysOf(s), NEW v \in KeysOf(Other(s)), ~Has(s, k),
         data'[s] = With(data[s], k, v), size'[s] = size[s] + 1
  PROVE  Holds(s, data'[s]) /\ size'[s] = Cardinality(DOMAIN data'[s])
  <1>1. PICK f : f = data[s]
    OBVIOUS
  <1>2. Holds(s, f) /\ size[s] = Cardinality(DOMAIN f) /\ k \notin DOMAIN f
    BY <1>1 DEF BiInv, Has
  <1>3. PICK g : g = With(f, k, v)
    OBVIOUS
  <1>4. Holds(s, g) /\ Cardinality(DOMAIN g) = Cardinality(DOMAIN f) + 1
    BY <1>2, <1>3, WithHolds
  <1> QED BY <1>1, <1>2, <1>3, <1>4

LEMMA BiSetKeeps ==
  ASSUME BiInv, NEW s \in Sides, NEW k \in KeysOf(s), NEW v \in KeysOf(Other(s)), BiSet(s, k, v)
  PROVE  BiInv'
  <1>0. PICK o \in Sides : o = Other(s) /\ o # s /\ Other(o) = s /\ \A t \in Sides : t = s \/ t = o
    BY OtherFacts
  <1>1. CASE Has(s, k)
    BY <1>1 DEF BiSet, BiInv, biVars
  <1>2. CASE ~Has(s, k) /\ Has(o, v)
    <2>1. /\ data' = [data EXCEPT ![s] = With(@, k, v), ![o] = @]
          /\ size' = [size EXCEPT ![s] = @ + 1, ![o] = @]
          /\ clean' = (clean /\ FALSE)
      BY <1>0, <1>2, Zenon DEF BiSet
    <2>2. /\ DOMAIN data' = Sides /\ DOMAIN size' = Sides /\ ~clean'
          /\ data'[s] = With(data[s], k, v) /\ data'[o] = data[o]
          /\ size'[s] = size[s] + 1 /\ size'[o] = size[o]
      BY <1>0, <2>1 DEF BiInv
    <2>4. Holds(s, data'[s]) /\ size'[s] = Cardinality(DOMAIN data'[s])
      BY <1>2, <2>2, SideGrows
    <2>5. Holds(o, data'[o]) /\ size'[o] = Cardinality(DOMAIN data'[o])
      BY <2>2 DEF BiInv
    <2> QED BY <1>0, <2>2, <2>4, <2>5 DEF BiInv
  <1>3. CASE ~Has(s, k) /\ ~Has(o, v)
    <2>1. /\ data' = [data EXCEPT ![s] = With(@, k, v), ![o] = With(@, v, k)]
          /\ size' = [size EXCEPT ![s] = @ + 1, ![o] = @ + 1]
          /\ clean' = (clean /\ TRUE)
      BY <1>0, <1>3, Zenon DEF BiSet
    <2>2. /\ DOMAIN data' = Sides /\ DOMAIN size' = Sides
          /\ data'[s] = With(data[s], k, v) /\ data'[o] = With(data[o], v, k)
          /\ size'[s] = size[s] + 1 /\ size'[o] = size[o] + 1
      BY <1>0, <2>1 DEF BiInv
    <2>4. Holds(s, data'[s]) /\ size'[s] = Cardinality(DOMAIN data'[s])
      BY <1>3, <2>2, SideGrows
    <2>5. Holds(o, data'[o]) /\ size'[o] = Cardinality(DOMAIN data'[o])
      <3>1. v \in KeysOf(o) /\ k \in KeysOf(Other(o))
        BY <1>0
      <3> QED BY <1>3, <2>2, <3>1, SideGrows
    <2>6. ASSUME clean' PROVE Inverses(data'[s], data'[o]) /\ Inverses(data'[o], data'[s])
      <3>1. Inverses(data[s], data[o]) /\ Inverses(data[o], data[s])
        BY <1>0, <2>1, <2>6 DEF BiInv
      <3> QED BY <1>3, <2>2, <3>1, WithInverse DEF Has
    <2> QED BY <1>0, <2>2, <2>4, <2>5, <2>6 DEF BiInv
  <1> QED BY <1>1, <1>2, <1>3

\* What delete() goes on to from a key that it removes is removed, too.
LEMMA ChainGoesOn ==
  ASSUME BiInv, NEW s, NEW k, NEW t \in Sides, NEW x \in DOMAIN data[t],
         <<t, x>> \in Chain(s, k)
  PROVE  <<Other(t), data[t][x]>> \in Chain(s, k)
  <1> DEFINE Nodes == ({"map"} \X Keys) \cup ({"inverse"} \X Vals)
             next == <<Other(t), data[t][x]>>
  <1>1. next \in Nodes
    <2>1. data[t][x] \in KeysOf(Other(t))
      BY DEF BiInv, Holds
    <2> QED BY <2>1 DEF Sides, Other, KeysOf
  <1>2. ASSUME NEW C \in SUBSET Nodes, <<s, k>> \in C, Closed(C) PROVE next \in C
    <2>1. <<t, x>> \in C
      BY <1>2 DEF Chain
    <2> QED BY <1>2, <2>1 DEF Closed, Has
  <1> QED BY <1>1, <1>2 DEF Chain

\* Without what is gone, a side holds the rest.
LEMMA Shrunk ==
  ASSUME NEW s \in Sides, NEW f, Holds(s, f), NEW gone, gone \subseteq DOMAIN f,
         NEW g, g = Restrict(f, DOMAIN f \ gone)
  PROVE  /\ Holds(s, g) /\ DOMAIN g = DOMAIN f \ gone /\ \A x \in DOMAIN g : g[x] = f[x]
         /\ Cardinality(DOMAIN g) = Cardinality(DOMAIN f) - Cardinality(gone)
  <1>1. DOMAIN g = DOMAIN f \ gone /\ \A x \in DOMAIN g : g[x] = f[x]
    BY DEF Restrict
  <1>2. IsFiniteSet(DOMAIN f) /\ DOMAIN f \cap gone = gone
    BY DEF Holds
  <1>3. /\ IsFiniteSet(DOMAIN f \ gone)
        /\ Cardinality(DOMAIN f \ gone) = Cardinality(DOMAIN f) - Cardinality(DOMAIN f \cap gone)
    BY <1>2, FS_Difference
  <1>4. g \in [DOMAIN g -> KeysOf(Other(s))] /\ DOMAIN g \subseteq KeysOf(s)
    BY <1>1 DEF Holds, Restrict
  <1> QED BY <1>1, <1>2, <1>3, <1>4 DEF Holds

LEMMA BiDeleteKeeps ==
  ASSUME BiInv, NEW s \in Sides, NEW k, BiDelete(s, k)
  PROVE  BiInv'
  <1>1. PICK gone : gone = [t \in Sides |-> {x \in DOMAIN data[t] : <<t, x>> \in Chain(s, k)}]
    OBVIOUS
  <1>2. /\ data' = [t \in Sides |-> Restrict(data[t], DOMAIN data[t] \ gone[t])]
        /\ size' = [t \in Sides |-> size[t] - Cardinality(gone[t])]
        /\ clean' = clean
    BY <1>1 DEF BiDelete
  <1>3. ASSUME NEW t \in Sides
        PROVE  /\ Holds(t, data'[t]) /\ size'[t] = Cardinality(DOMAIN data'[t])
               /\ DOMAIN data'[t] = DOMAIN data[t] \ gone[t]
               /\ \A x \in DOMAIN data'[t] : data'[t][x] = data[t][x]
    <2>1. PICK f : f = data[t]
      OBVIOUS
    <2>2. PICK g : g = data'[t]
      OBVIOUS
    <2>3. PICK d : d = gone[t]
      OBVIOUS
    <2>4. Holds(t, f) /\ d \subseteq DOMAIN f /\ g = Restrict(f, DOMAIN f \ d)
      BY <1>1, <1>2, <2>1, <2>2, <2>3 DEF BiInv
    <2>5. /\ Holds(t, g) /\ DOMAIN g = DOMAIN f \ d /\ \A x \in DOMAIN g : g[x] = f[x]
          /\ Cardinality(DOMAIN g) = Cardinality(DOMAIN f) - Cardinality(d)
      BY <2>4, Shrunk
    <2>6. size'[t] = size[t] - Cardinality(d) /\ size[t] = Cardinality(DOMAIN f)
      BY <1>2, <2>1, <2>3 DEF BiInv
    <2> QED BY <2>1, <2>2, <2>3, <2>5, <2>6
  <1>4. ASSUME clean, NEW t \in Sides PROVE Inverses(data'[t], data'[Other(t)])
    <2> SUFFICES ASSUME NEW x \in DOMAIN data'[t]
                 PROVE  /\ data'[t][x] \in DOMAIN data'[Other(t)]
                        /\ data'[Other(t)][data'[t][x]] = x
      BY DEF Inverses
    <2>1. PICK y : y = data'[t][x]
      OBVIOUS
    <2>2. PICK o \in Sides : o = Other(t) /\ Other(o) = t
      BY OtherFacts
    <2>3. x \in DOMAIN data[t] /\ x \notin gone[t] /\ y = data[t][x]
      BY <1>3, <2>1
    <2>4. y \in DOMAIN data[o] /\ data[o][y] = x
      BY <1>4, <2>2, <2>3 DEF BiInv, Inverses
    <2>5. y \notin gone[o]
      <3> SUFFICES ASSUME <<o, y>> \in Chain(s, k) PROVE FALSE
        BY <1>1
      <3>1. <<Other(o), data[o][y]>> \in Chain(s, k)
        BY <2>4, ChainGoesOn
      <3>2. <<t, x>> \in Chain(s, k)
        BY <2>2, <2>4, <3>1
      <3> QED BY <1>1, <2>3, <3>2
    <2>6. y \in DOMAIN data'[o] /\ data'[o][y] = x
      BY <1>3, <2>4, <2>5
    <2> QED BY <2>1, <2>2, <2>6
  <1>5. DOMAIN data' = Sides /\ DOMAIN size' = Sides
    BY <1>2
  <1> QED BY <1>2, <1>3, <1>4, <1>5 DEF BiInv

LEMMA BiClearKeeps ==
  ASSUME BiInv, NEW s \in Sides, BiClear(s)
  PROVE  BiInv'
  <1>1. CASE size[s] = 0
    BY <1>1 DEF BiClear, BiInv, biVars
  <1>2. CASE size[s] # 0
    <2>1. /\ data' = [t \in Sides |-> IF t = s \/ size[t] # 0 THEN None ELSE data[t]]
          /\ size' = [t \in Sides |-> 0]
      BY <1>2 DEF BiClear
    <2>2. DOMAIN None = {} /\ IsFiniteSet({}) /\ Cardinality({}) = 0
      BY FS_EmptySet DEF None
    <2>3. ASSUME NEW t \in Sides PROVE Holds(t, data'[t]) /\ DOMAIN data'[t] = {}
      <3>1. CASE t = s \/ size[t] # 0
        <4>1. data'[t] = None
          BY <2>1, <3>1
        <4>2. Holds(t, None)
          BY <2>2 DEF Holds, None
        <4> QED BY <2>2, <4>1, <4>2
      <3>2. CASE ~(t = s \/ size[t] # 0)
        <4>1. PICK f : f = data[t]
          OBVIOUS
        <4>2. data'[t] = f /\ Holds(t, f) /\ Cardinality(DOMAIN f) = 0
          BY <2>1, <3>2, <4>1 DEF BiInv
        <4>3. IsFiniteSet(DOMAIN f)
          BY <4>2 DEF Holds
        <4>4. DOMAIN f = {}
          BY <4>2, <4>3, FS_EmptySet
        <4> QED BY <4>2, <4>4
      <3> QED BY <3>1, <3>2
    <2>4. \A t \in Sides : size'[t] = Cardinality(DOMAIN data'[t])
      BY <2>1, <2>2, <2>3
    <2>5. \A t \in Sides : Inverses(data'[t], data'[Other(t)])
      BY <2>3 DEF Inverses
    <2>6. DOMAIN data' = Sides /\ DOMAIN size' = Sides
      BY <2>1
    <2> QED BY <2>3, <2>4, <2>5, <2>6 DEF BiInv
  <1> QED BY <1>1, <1>2

LEMMA BiInvInit ==
  ASSUME BiMapInit
  PROVE  BiInv
  <1>1. DOMAIN None = {} /\ IsFiniteSet({}) /\ Cardinality({}) = 0
    BY FS_EmptySet DEF None
  <1>2. \A s \in Sides : data[s] = None /\ size[s] = 0
    BY DEF BiMapInit
  <1>3. \A s \in Sides : Holds(s, None)
    BY <1>1 DEF Holds, None
  <1>4. \A s \in Sides : Inverses(data[s], data[Other(s)])
    BY <1>1, <1>2 DEF Inverses
  <1> QED BY <1>1, <1>2, <1>3, <1>4 DEF BiMapInit, BiInv

LEMMA BiInvAlways == BiMapSpec => []BiInv
  <1>1. ASSUME BiInv, [BiMapNext]_biVars PROVE BiInv'
    <2>1. CASE UNCHANGED biVars
      BY <1>1, <2>1 DEF BiInv, biVars
    <2> QED BY <1>1, <2>1, BiClearKeeps, BiDeleteKeeps, BiSetKeeps DEF BiMapNext
  <1> QED BY <1>1, BiInvInit, PTL DEF BiMapSpec

\* Both sizes count, and through every sequence of calls on either side the two
\* maps stay inverse to each other for a caller that pairs nothing twice.
THEOREM BiMapIsConsistent == BiMapSpec => []BiMapConsistent
  BY BiInvAlways, BiConsistent, PTL

\* What a key and its value are called on side t.
Pair(s, k, t) == IF t = s THEN {k} ELSE {data[s][x] : x \in {k} \cap DOMAIN data[s]}

\* While the sides are inverse to each other, the recursion of delete() ends
\* with the key and its value.
LEMMA ChainIsPair ==
  ASSUME BiInv, clean, NEW s \in Sides, NEW k \in KeysOf(s), NEW t \in Sides
  PROVE  {x \in DOMAIN data[t] : <<t, x>> \in Chain(s, k)} = DOMAIN data[t] \cap Pair(s, k, t)
  <1> DEFINE Nodes == ({"map"} \X Keys) \cup ({"inverse"} \X Vals)
             C == {n \in Nodes : n[2] \in Pair(s, k, n[1])}
  <1>1. PICK o \in Sides : o = Other(s) /\ o # s /\ Other(o) = s /\ \A u \in Sides : u = s \/ u = o
    BY OtherFacts
  <1>2. \A u \in Sides : \A x \in KeysOf(u) : <<u, x>> \in Nodes
    BY DEF Sides, KeysOf
  <1>3. <<s, k>> \in Chain(s, k)
    BY <1>2 DEF Chain
  <1>4. <<s, k>> \in C
    BY <1>2 DEF Pair
  <1>5. Closed(C)
    <2> SUFFICES ASSUME NEW n \in C, Has(n[1], n[2])
                 PROVE  <<Other(n[1]), data[n[1]][n[2]]>> \in C
      BY DEF Closed
    <2>1. n[1] \in Sides /\ n[2] \in Pair(s, k, n[1])
      BY DEF Sides
    <2>2. data[n[1]][n[2]] \in KeysOf(Other(n[1]))
      BY <2>1 DEF BiInv, Holds, Has
    <2>3. <<Other(n[1]), data[n[1]][n[2]]>> \in Nodes
      BY <1>2, <2>1, <2>2, OtherFacts
    <2>4. CASE n[1] = s
      <3>1. n[2] = k /\ k \in DOMAIN data[s]
        BY <2>1, <2>4 DEF Pair, Has
      <3>2. data[s][k] \in Pair(s, k, o)
        BY <1>1, <3>1 DEF Pair
      <3> QED BY <1>1, <2>3, <2>4, <3>1, <3>2
    <2>5. CASE n[1] = o
      <3>1. k \in DOMAIN data[s] /\ n[2] = data[s][k]
        BY <1>1, <2>1, <2>5 DEF Pair
      <3>2. data[o][data[s][k]] = k
        BY <1>1, <3>1 DEF BiInv, Inverses
      <3>3. k \in Pair(s, k, s)
        BY DEF Pair
      <3> QED BY <1>1, <2>3, <2>5, <3>1, <3>2, <3>3
    <2> QED BY <1>1, <2>1, <2>4, <2>5
  <1>6. ASSUME NEW x, <<t, x>> \in Chain(s, k) PROVE x \in Pair(s, k, t)
    <2>1. C \in SUBSET Nodes
      OBVIOUS
    <2>2. <<t, x>> \in C
      BY <1>4, <1>5, <1>6, <2>1 DEF Chain
    <2> QED BY <2>2
  <1>7. ASSUME NEW x \in DOMAIN data[t], x \in Pair(s, k, t) PROVE <<t, x>> \in Chain(s, k)
    <2>1. CASE t = s
      BY <1>3, <1>7, <2>1 DEF Pair
    <2>2. CASE t # s
      <3>1. k \in DOMAIN data[s] /\ x = data[s][k]
        BY <1>7, <2>2 DEF Pair
      <3> QED BY <1>1, <1>3, <2>2, <3>1, ChainGoesOn
    <2> QED BY <2>1, <2>2
  <1> QED BY <1>6, <1>7

\* delete() takes one pair and nothing else: the key, and the value it had.
DeletesPair ==
  \A s \in Sides : \A k \in KeysOf(s) : clean /\ BiDelete(s, k) =>
    \A t \in Sides : data'[t] = Restrict(data[t], DOMAIN data[t] \ Pair(s, k, t))

\* Although the two sides of a BiMap delete in turns for as long as the other
\* side knows the entry (BiMap.mjs:187-196), a delete() removes one entry of each
\* side at most, and leaves every other entry as it was, in every reachable state
\* in which nobody has paired a new key with a value that was taken.
THEOREM DeleteTakesOnePair == BiMapSpec => [][DeletesPair]_biVars
  <1>1. ASSUME BiInv PROVE DeletesPair
    <2> SUFFICES ASSUME NEW s \in Sides, NEW k \in KeysOf(s), clean, BiDelete(s, k), NEW t \in Sides
                 PROVE  data'[t] = Restrict(data[t], DOMAIN data[t] \ Pair(s, k, t))
      BY DEF DeletesPair
    <2>1. PICK gone : gone = {x \in DOMAIN data[t] : <<t, x>> \in Chain(s, k)}
      OBVIOUS
    <2>2. data'[t] = Restrict(data[t], DOMAIN data[t] \ gone)
      BY <2>1 DEF BiDelete
    <2>3. gone = DOMAIN data[t] \cap Pair(s, k, t)
      BY <1>1, <2>1, ChainIsPair
    <2>4. DOMAIN data[t] \ gone = DOMAIN data[t] \ Pair(s, k, t)
      BY <2>3
    <2> QED BY <2>2, <2>4
  <1> QED BY <1>1, BiInvAlways, PTL DEF BiMapSpec

(***************************************************************************)
(* The routes.                                                             *)
(***************************************************************************)

Labels == Segments \cup {Star}

\* The nodes on the way to the node of a pattern, itself included.
Ways(p) == {SubSeq(Path(p), 1, i) : i \in 1 .. Len(p)}

\* The route n is the last one with that static path in l.
LastStatic(q, n, l) ==
  /\ n \in 1 .. Len(l) /\ l[n] = q /\ ~Dynamic(q)
  /\ \A m \in n + 1 .. Len(l) : l[m] # q

\* The value v of node q is that of the last dynamic route of its shape in l.
LastDynamic(q, v, l) ==
  /\ v.handler \in 1 .. Len(l) /\ Dynamic(l[v.handler]) /\ Path(l[v.handler]) = q
  /\ v.names = NamesOf(l[v.handler])
  /\ \A m \in v.handler + 1 .. Len(l) : Dynamic(l[m]) => Path(l[m]) # q

StaticInv ==
  /\ \A q \in DOMAIN staticRoutes : LastStatic(q, staticRoutes[q], log)
  /\ \A n \in 1 .. Len(log) : ~Dynamic(log[n]) => log[n] \in DOMAIN staticRoutes

TreeInv ==
  /\ \A q : q \in DOMAIN tree <=>
              \E m \in 1 .. Len(log) : Dynamic(log[m]) /\ q \in Ways(log[m])
  /\ \A q \in DOMAIN tree : tree[q].handler = 0 \/ LastDynamic(q, tree[q], log)
  /\ \A m \in 1 .. Len(log) : Dynamic(log[m]) => tree[Path(log[m])].handler # 0

RouterInv == log \in Seq(Patterns) /\ StaticInv /\ TreeInv

LEMMA PatternFacts ==
  ASSUME NEW p \in Patterns
  PROVE  /\ p \in Seq(Segments \cup Params) /\ Len(p) \in Nat /\ Len(p) >= 1
         /\ DOMAIN p = 1 .. Len(p)
         /\ Path(p) \in Seq(Labels) /\ Len(Path(p)) = Len(p)
         /\ \A i \in 1 .. Len(p) : /\ p[i] \in Segments \cup Params
                                   /\ Path(p)[i] = IF p[i] \in Params THEN Star ELSE p[i]
                                   /\ Path(p)[i] = Star <=> p[i] \in Params
  <1>1. p \in Seq(Segments \cup Params) /\ p # <<>>
    BY RouterAssumption
  <1>2. Len(p) \in Nat /\ Len(p) >= 1 /\ DOMAIN p = 1 .. Len(p)
    BY <1>1
  <1>3. \A i \in 1 .. Len(p) : p[i] \in Segments \cup Params
    BY <1>1, <1>2
  <1>4. /\ Path(p) \in [1 .. Len(p) -> Labels]
        /\ \A i \in 1 .. Len(p) : Path(p)[i] = IF p[i] \in Params THEN Star ELSE p[i]
    BY <1>2, <1>3 DEF Path, Labels
  <1>5. Path(p) \in Seq(Labels) /\ Len(Path(p)) = Len(p)
    BY <1>2, <1>4
  <1>6. \A i \in 1 .. Len(p) : Path(p)[i] = Star <=> p[i] \in Params
    BY <1>3, <1>4, RouterAssumption
  <1> QED BY <1>1, <1>2, <1>3, <1>4, <1>5, <1>6

LEMMA PrefixFacts ==
  ASSUME NEW p \in Patterns
  PROVE  /\ Path(p) \in Ways(p)
         /\ Ways(p) = Ancestors(Path(p)) \cup {Path(p)}
         /\ \A q \in Ways(p) :
              /\ q \in Seq(Labels) /\ Len(q) \in 1 .. Len(p)
              /\ \A j \in 1 .. Len(q) : q[j] = Path(p)[j]
  <1>1. PICK s : s = Path(p)
    OBVIOUS
  <1>2. s \in Seq(Labels) /\ Len(s) = Len(p) /\ Len(p) \in Nat /\ Len(p) >= 1
    BY <1>1, PatternFacts
  <1>3. SubSeq(s, 1, Len(s)) = s
    BY <1>2, SubSeqFull
  <1>4. s \in Ways(p)
    <2>1. Len(p) \in 1 .. Len(p) /\ SubSeq(s, 1, Len(p)) = s
      BY <1>2, <1>3
    <2>2. SubSeq(s, 1, Len(p)) \in Ways(p)
      BY <1>1, <2>1, Zenon DEF Ways
    <2> QED BY <2>1, <2>2
  <1>5. Ways(p) = Ancestors(s) \cup {s}
    <2>1. 1 .. Len(p) = (1 .. Len(s) - 1) \cup {Len(s)}
      BY <1>2
    <2>2. Ways(p) = {SubSeq(s, 1, i) : i \in (1 .. Len(s) - 1) \cup {Len(s)}}
      BY <1>1, <2>1, Zenon DEF Ways
    <2>3. Ways(p) = {SubSeq(s, 1, i) : i \in 1 .. Len(s) - 1} \cup {SubSeq(s, 1, Len(s))}
      BY <2>2, Zenon
    <2> QED BY <1>3, <2>3, Zenon DEF Ancestors
  <1>6. ASSUME NEW i \in 1 .. Len(p), NEW q, q = SubSeq(s, 1, i)
        PROVE  /\ q \in Seq(Labels) /\ Len(q) \in 1 .. Len(p)
               /\ \A j \in 1 .. Len(q) : q[j] = s[j]
    <2>1. \A j \in 1 .. i : s[j] \in Labels
      BY <1>2
    <2>2. i \in Int /\ 1 \in Int /\ 1 <= i /\ i - 1 + 1 = i
      BY <1>2
    <2>3. /\ SubSeq(s, 1, i) \in Seq(Labels)
          /\ Len(SubSeq(s, 1, i)) = IF 1 <= i THEN i - 1 + 1 ELSE 0
          /\ \A j \in 1 .. i - 1 + 1 : SubSeq(s, 1, i)[j] = s[1 + j - 1]
      BY <2>1, <2>2, SubSeqProperties
    <2>4. \A j \in 1 .. i : 1 + j - 1 = j
      BY <2>2
    <2> QED BY <1>6, <2>2, <2>3, <2>4
  <1>7. ASSUME NEW q \in Ways(p)
        PROVE  /\ q \in Seq(Labels) /\ Len(q) \in 1 .. Len(p)
               /\ \A j \in 1 .. Len(q) : q[j] = s[j]
    <2>1. PICK i \in 1 .. Len(p) : q = SubSeq(s, 1, i)
      BY <1>1, Zenon DEF Ways
    <2> QED BY <1>6, <2>1
  <1> QED BY <1>1, <1>4, <1>5, <1>7

\* The child q[i] of the (i - 1)-th node on the way to q is the i-th.
LEMMA NextPrefix ==
  ASSUME NEW q \in Seq(Labels), NEW i \in 1 .. Len(q)
  PROVE  SubSeq(q, 1, i) = Append(SubSeq(q, 1, i - 1), q[i])
  <1>1. /\ i \in Nat /\ 1 <= i /\ i <= Len(q) /\ Len(q) \in Nat
        /\ \A j \in 1 .. Len(q) : q[j] \in Labels
    OBVIOUS
  <1>2. PICK a : a = SubSeq(q, 1, i - 1)
    OBVIOUS
  <1>3. PICK b : b = SubSeq(q, 1, i)
    OBVIOUS
  <1>4. PICK c : c = Append(a, q[i])
    OBVIOUS
  <1>5. a \in Seq(Labels) /\ Len(a) = i - 1 /\ \A j \in 1 .. i - 1 : a[j] = q[j]
    BY <1>1, <1>2
  <1>6. b \in Seq(Labels) /\ Len(b) = i /\ \A j \in 1 .. i : b[j] = q[j]
    BY <1>1, <1>3
  <1>7. /\ c \in Seq(Labels) /\ Len(c) = Len(a) + 1 /\ c[Len(a) + 1] = q[i]
        /\ \A j \in 1 .. Len(a) : c[j] = a[j]
    BY <1>1, <1>4, <1>5, AppendProperties
  <1>8. Len(c) = i /\ c[i] = q[i] /\ \A j \in 1 .. i - 1 : c[j] = q[j]
    BY <1>1, <1>5, <1>7
  <1>9. \A j \in 1 .. Len(b) : b[j] = c[j]
    BY <1>1, <1>6, <1>8
  <1>10. Len(b) = Len(c)
    BY <1>6, <1>8
  <1>11. b = c
    BY <1>6, <1>7, <1>9, <1>10, SeqEqual
  <1> QED BY <1>2, <1>3, <1>4, <1>11

\* Appending a route leaves the others in their places.
LEMMA LogFacts ==
  ASSUME RouterInv, NEW p \in Patterns, log' = Append(log, p), NEW n, n = Len(log) + 1
  PROVE  /\ log' \in Seq(Patterns) /\ Len(log') = n /\ log'[n] = p
         /\ Len(log) \in Nat /\ n \in 1 .. Len(log')
         /\ \A m \in 1 .. Len(log) :
              log'[m] = log[m] /\ log[m] \in Patterns /\ m \in 1 .. Len(log')
         /\ \A m \in 1 .. Len(log') : m = n \/ m \in 1 .. Len(log)
  <1>1. log \in Seq(Patterns) /\ Len(log) \in Nat
    BY DEF RouterInv
  <1>2. /\ log' \in Seq(Patterns) /\ Len(log') = Len(log) + 1 /\ log'[Len(log) + 1] = p
        /\ \A m \in 1 .. Len(log) : log'[m] = log[m]
    BY <1>1, AppendProperties
  <1> QED BY <1>1, <1>2

LEMMA StaticStays ==
  ASSUME RouterInv, NEW p \in Patterns, log' = Append(log, p),
         NEW q, NEW v, LastStatic(q, v, log), p # q
  PROVE  LastStatic(q, v, log')
  <1>1. PICK n : n = Len(log) + 1
    OBVIOUS
  <1>2. /\ Len(log') = n /\ log'[n] = p /\ Len(log) \in Nat
        /\ \A m \in 1 .. Len(log) : log'[m] = log[m] /\ m \in 1 .. Len(log')
        /\ \A m \in 1 .. Len(log') : m = n \/ m \in 1 .. Len(log)
    BY <1>1, LogFacts
  <1>3. v \in 1 .. Len(log) /\ log[v] = q /\ ~Dynamic(q) /\ \A m \in v + 1 .. Len(log) : log[m] # q
    BY DEF LastStatic
  <1>4. ASSUME NEW m \in v + 1 .. Len(log') PROVE log'[m] # q
    <2>1. m \in 1 .. Len(log')
      BY <1>2, <1>3
    <2>2. CASE m = n
      BY <1>2, <2>2
    <2>3. CASE m \in 1 .. Len(log)
      <3>1. m \in v + 1 .. Len(log)
        BY <1>2, <1>3, <2>3
      <3> QED BY <1>2, <1>3, <2>3, <3>1
    <2> QED BY <1>2, <2>1, <2>2, <2>3
  <1> QED BY <1>2, <1>3, <1>4 DEF LastStatic

LEMMA DynamicStays ==
  ASSUME RouterInv, NEW p \in Patterns, log' = Append(log, p),
         NEW q, NEW v, LastDynamic(q, v, log), Dynamic(p) => Path(p) # q
  PROVE  LastDynamic(q, v, log')
  <1>1. PICK n : n = Len(log) + 1
    OBVIOUS
  <1>2. /\ Len(log') = n /\ log'[n] = p /\ Len(log) \in Nat
        /\ \A m \in 1 .. Len(log) : log'[m] = log[m] /\ m \in 1 .. Len(log')
        /\ \A m \in 1 .. Len(log') : m = n \/ m \in 1 .. Len(log)
    BY <1>1, LogFacts
  <1>3. PICK h : h = v.handler
    OBVIOUS
  <1>4. /\ h \in 1 .. Len(log) /\ Dynamic(log[h]) /\ Path(log[h]) = q /\ v.names = NamesOf(log[h])
        /\ \A m \in h + 1 .. Len(log) : Dynamic(log[m]) => Path(log[m]) # q
    BY <1>3 DEF LastDynamic
  <1>5. ASSUME NEW m \in h + 1 .. Len(log'), Dynamic(log'[m]) PROVE Path(log'[m]) # q
    <2>1. m \in 1 .. Len(log')
      BY <1>2, <1>4
    <2>2. CASE m = n
      BY <1>2, <1>5, <2>2
    <2>3. CASE m \in 1 .. Len(log)
      <3>1. m \in h + 1 .. Len(log)
        BY <1>2, <1>4, <2>3
      <3> QED BY <1>2, <1>4, <1>5, <2>3, <3>1
    <2> QED BY <1>2, <2>1, <2>2, <2>3
  <1>6. h \in 1 .. Len(log') /\ log'[h] = log[h]
    BY <1>2, <1>4
  <1> QED BY <1>3, <1>4, <1>5, <1>6 DEF LastDynamic

LEMMA StaticKept ==
  ASSUME RouterInv, NEW p \in Patterns, Route(p)
  PROVE  StaticInv'
  <1>1. PICK n : n = Len(log) + 1
    OBVIOUS
  <1>2. /\ Len(log') = n /\ log'[n] = p /\ Len(log) \in Nat /\ n \in 1 .. Len(log')
        /\ \A m \in 1 .. Len(log) : log'[m] = log[m] /\ m \in 1 .. Len(log')
        /\ \A m \in 1 .. Len(log') : m = n \/ m \in 1 .. Len(log)
    BY <1>1, LogFacts DEF Route
  <1>3. /\ \A q \in DOMAIN staticRoutes : LastStatic(q, staticRoutes[q], log)
        /\ \A m \in 1 .. Len(log) : ~Dynamic(log[m]) => log[m] \in DOMAIN staticRoutes
    BY DEF RouterInv, StaticInv
  <1>4. CASE Dynamic(p)
    <2>1. staticRoutes' = staticRoutes
      BY <1>4 DEF Route
    <2>2. ASSUME NEW q \in DOMAIN staticRoutes PROVE LastStatic(q, staticRoutes[q], log')
      <3>1. LastStatic(q, staticRoutes[q], log) /\ p # q
        BY <1>3, <1>4 DEF LastStatic
      <3> QED BY <3>1, StaticStays DEF Route
    <2>3. ASSUME NEW m \in 1 .. Len(log'), ~Dynamic(log'[m]) PROVE log'[m] \in DOMAIN staticRoutes
      BY <1>2, <1>3, <1>4, <2>3
    <2> QED BY <2>1, <2>2, <2>3 DEF StaticInv
  <1>5. CASE ~Dynamic(p)
    <2>1. staticRoutes' = [q \in DOMAIN staticRoutes \cup {p} |->
                             IF q = p THEN n ELSE staticRoutes[q]]
      BY <1>1, <1>5 DEF Route
    <2>2. ASSUME NEW q \in DOMAIN staticRoutes' PROVE LastStatic(q, staticRoutes'[q], log')
      <3>1. CASE q = p
        <4>1. staticRoutes'[q] = n
          BY <2>1, <3>1
        <4>2. \A m \in n + 1 .. Len(log') : log'[m] # q
          BY <1>2
        <4> QED BY <1>2, <1>5, <3>1, <4>1, <4>2 DEF LastStatic
      <3>2. CASE q # p
        <4>1. q \in DOMAIN staticRoutes /\ staticRoutes'[q] = staticRoutes[q]
          BY <2>1, <2>2, <3>2
        <4>2. LastStatic(q, staticRoutes[q], log)
          BY <1>3, <4>1
        <4> QED BY <3>2, <4>1, <4>2, StaticStays DEF Route
      <3> QED BY <3>1, <3>2
    <2>3. ASSUME NEW m \in 1 .. Len(log'), ~Dynamic(log'[m]) PROVE log'[m] \in DOMAIN staticRoutes'
      <3>1. DOMAIN staticRoutes' = DOMAIN staticRoutes \cup {p}
        BY <2>1
      <3>2. CASE m = n
        BY <1>2, <3>1, <3>2
      <3>3. CASE m \in 1 .. Len(log)
        BY <1>2, <1>3, <2>3, <3>1, <3>3
      <3> QED BY <1>2, <3>2, <3>3
    <2> QED BY <2>2, <2>3 DEF StaticInv
  <1> QED BY <1>4, <1>5

LEMMA TreeKept ==
  ASSUME RouterInv, NEW p \in Patterns, Route(p)
  PROVE  TreeInv'
  <1>1. PICK n : n = Len(log) + 1
    OBVIOUS
  <1>2. /\ Len(log') = n /\ log'[n] = p /\ Len(log) \in Nat /\ n \in 1 .. Len(log')
        /\ \A m \in 1 .. Len(log) : /\ log'[m] = log[m] /\ m \in 1 .. Len(log')
                                    /\ log[m] \in Patterns
        /\ \A m \in 1 .. Len(log') : m = n \/ m \in 1 .. Len(log)
    BY <1>1, LogFacts DEF Route
  <1>3. /\ \A q : q \in DOMAIN tree <=>
                    \E m \in 1 .. Len(log) : Dynamic(log[m]) /\ q \in Ways(log[m])
        /\ \A q \in DOMAIN tree : tree[q].handler = 0 \/ LastDynamic(q, tree[q], log)
        /\ \A m \in 1 .. Len(log) : Dynamic(log[m]) => tree[Path(log[m])].handler # 0
    BY DEF RouterInv, TreeInv
  <1>4. CASE ~Dynamic(p)
    <2>1. tree' = tree
      BY <1>4 DEF Route
    <2>2. ASSUME NEW q PROVE q \in DOMAIN tree <=>
                    \E m \in 1 .. Len(log') : Dynamic(log'[m]) /\ q \in Ways(log'[m])
      BY <1>2, <1>3, <1>4
    <2>3. ASSUME NEW q \in DOMAIN tree
          PROVE  tree[q].handler = 0 \/ LastDynamic(q, tree[q], log')
      <3>1. LastDynamic(q, tree[q], log) => LastDynamic(q, tree[q], log')
        BY <1>4, DynamicStays DEF Route
      <3> QED BY <1>3, <3>1
    <2>4. \A m \in 1 .. Len(log') : Dynamic(log'[m]) => tree[Path(log'[m])].handler # 0
      BY <1>2, <1>3, <1>4
    <2> QED BY <2>1, <2>2, <2>3, <2>4 DEF TreeInv
  <1>5. CASE Dynamic(p)
    <2>1. PICK s : s = Path(p)
      OBVIOUS
    <2>2. PICK v : v = [handler |-> n, names |-> NamesOf(p)]
      OBVIOUS
    <2>3. tree' = [q \in DOMAIN tree \cup Ways(p) |->
                     IF q = s THEN v ELSE IF q \in DOMAIN tree THEN tree[q] ELSE Blank]
      <3>1. DOMAIN tree \cup Ancestors(s) \cup {s} = DOMAIN tree \cup Ways(p)
        BY <2>1, PrefixFacts
      <3>2. tree' = SetIn(s, v)
        BY <1>1, <1>5, <2>1, <2>2 DEF Route
      <3> QED BY <3>1, <3>2 DEF SetIn
    <2>4. DOMAIN tree' = DOMAIN tree \cup Ways(p) /\ s \in Ways(p) /\ tree'[s] = v
      BY <2>1, <2>3, PrefixFacts
    <2>5. ASSUME NEW q PROVE q \in DOMAIN tree' <=>
                    \E m \in 1 .. Len(log') : Dynamic(log'[m]) /\ q \in Ways(log'[m])
      <3>1. ASSUME q \in Ways(p)
            PROVE  \E m \in 1 .. Len(log') : Dynamic(log'[m]) /\ q \in Ways(log'[m])
        BY <1>2, <1>5, <3>1
      <3>2. ASSUME q \in DOMAIN tree
            PROVE  \E m \in 1 .. Len(log') : Dynamic(log'[m]) /\ q \in Ways(log'[m])
        BY <1>2, <1>3, <3>2
      <3>3. ASSUME NEW m \in 1 .. Len(log'), Dynamic(log'[m]), q \in Ways(log'[m])
            PROVE  q \in DOMAIN tree \cup Ways(p)
        BY <1>2, <1>3, <3>3
      <3> QED BY <2>4, <3>1, <3>2, <3>3
    <2>6. ASSUME NEW q \in DOMAIN tree'
          PROVE  tree'[q].handler = 0 \/ LastDynamic(q, tree'[q], log')
      <3>1. CASE q = s
        <4>1. v.handler = n /\ v.names = NamesOf(p)
          BY <2>2
        <4>2. \A m \in n + 1 .. Len(log') : Dynamic(log'[m]) => Path(log'[m]) # q
          BY <1>2
        <4>3. LastDynamic(q, v, log')
          BY <1>2, <1>5, <2>1, <3>1, <4>1, <4>2 DEF LastDynamic
        <4> QED BY <2>4, <3>1, <4>3
      <3>2. CASE q # s /\ q \in DOMAIN tree
        <4>1. PICK w : w = tree[q]
          OBVIOUS
        <4>2. tree'[q] = w
          BY <2>3, <2>6, <3>2, <4>1
        <4>3. LastDynamic(q, w, log) => LastDynamic(q, w, log')
          BY <2>1, <3>2, DynamicStays DEF Route
        <4> QED BY <1>3, <3>2, <4>1, <4>2, <4>3
      <3>3. CASE q # s /\ q \notin DOMAIN tree
        <4>1. tree'[q] = Blank
          BY <2>3, <2>4, <2>6, <3>3
        <4> QED BY <4>1 DEF Blank
      <3> QED BY <3>1, <3>2, <3>3
    <2>7. ASSUME NEW m \in 1 .. Len(log'), Dynamic(log'[m])
          PROVE  tree'[Path(log'[m])].handler # 0
      <3>1. v.handler # 0
        BY <1>1, <1>2, <2>2
      <3>2. CASE Path(log'[m]) = s
        BY <2>4, <3>1, <3>2
      <3>3. CASE Path(log'[m]) # s
        <4>1. m \in 1 .. Len(log) /\ log'[m] = log[m]
          BY <1>2, <2>1, <3>3
        <4>2. PICK q : q = Path(log[m])
          OBVIOUS
        <4>3. q \in Ways(log[m])
          BY <1>2, <4>1, <4>2, PrefixFacts
        <4>4. q \in DOMAIN tree /\ tree[q].handler # 0
          BY <1>3, <2>7, <4>1, <4>2, <4>3
        <4>5. tree'[q] = tree[q]
          BY <2>3, <3>3, <4>1, <4>2, <4>4
        <4> QED BY <4>1, <4>2, <4>4, <4>5
      <3> QED BY <3>2, <3>3
    <2> QED BY <2>5, <2>6, <2>7 DEF TreeInv
  <1> QED BY <1>4, <1>5

THEOREM RouterInvariant == RouterSpec => []RouterInv
  <1>1. RouterInit => RouterInv
    <2> HAVE RouterInit
    <2>1. log = <<>> /\ DOMAIN staticRoutes = {} /\ DOMAIN tree = {}
      BY DEF RouterInit
    <2>2. <<>> \in Seq(Patterns) /\ Len(<<>>) = 0 /\ 1 .. 0 = {}
      OBVIOUS
    <2>3. StaticInv
      BY <2>1, <2>2 DEF StaticInv
    <2>4. TreeInv
      BY <2>1, <2>2 DEF TreeInv
    <2> QED BY <2>1, <2>2, <2>3, <2>4 DEF RouterInv
  <1>2. ASSUME RouterInv, [RouterNext]_routerVars PROVE RouterInv'
    <2>1. ASSUME NEW p \in Patterns, Route(p) PROVE RouterInv'
      <3>1. log' \in Seq(Patterns)
        BY <1>2, <2>1 DEF Route, RouterInv
      <3> QED BY <1>2, <2>1, <3>1, StaticKept, TreeKept DEF RouterInv
    <2>2. CASE UNCHANGED routerVars
      BY <1>2, <2>2 DEF routerVars, RouterInv, StaticInv, TreeInv
    <2> QED BY <1>2, <2>1, <2>2 DEF RouterNext
  <1> QED BY <1>1, <1>2, PTL DEF RouterSpec

\* A path without parameters is its own, and only its own.
LEMMA StaticPath ==
  ASSUME NEW p \in Patterns, NEW path \in Seq(Segments), Matches(p, path), ~Dynamic(p)
  PROVE  p = path
  <1>1. /\ p \in Seq(Segments \cup Params) /\ DOMAIN p = 1 .. Len(p) /\ Len(p) = Len(path)
        /\ path \in Seq(Segments \cup Params)
    BY PatternFacts DEF Matches
  <1>2. \A i \in 1 .. Len(p) : p[i] = path[i]
    BY <1>1 DEF Matches, Dynamic
  <1> QED BY <1>1, <1>2, SeqEqual

LEMMA RequestFacts ==
  ASSUME NEW req \in Requests
  PROVE  /\ req.path \in Seq(Segments) /\ Len(req.path) \in Nat
         /\ DOMAIN req.path = 1 .. Len(req.path)
         /\ \A i \in 1 .. Len(req.path) : /\ req.path[i] \in Segments
                                          /\ req.path[i] # Star /\ req.path[i] \notin Params
         /\ ~Dynamic(req.path)
  <1>1. req.path \in Seq(Segments)
    BY RouterAssumption
  <1>2. Len(req.path) \in Nat /\ DOMAIN req.path = 1 .. Len(req.path)
    BY <1>1
  <1>3. \A i \in 1 .. Len(req.path) : req.path[i] \in Segments
    BY <1>1, <1>2
  <1>4. \A x \in Segments : x # Star /\ x \notin Params
    BY RouterAssumption
  <1>5. \A i \in 1 .. Len(req.path) : req.path[i] # Star /\ req.path[i] \notin Params
    BY <1>3, <1>4
  <1> QED BY <1>1, <1>2, <1>3, <1>5 DEF Dynamic

\* The node that a request descends to has the shape of routes that match it.
LEMMA DescentMatches ==
  ASSUME NEW req \in Requests, NEW p \in Patterns, Descends(Path(p), req.path)
  PROVE  Matches(p, req.path)
  <1>1. PICK path : path = req.path
    OBVIOUS
  <1>2. /\ Len(path) \in Nat /\ DOMAIN path = 1 .. Len(path)
        /\ \A i \in 1 .. Len(path) : path[i] # Star /\ path[i] \notin Params
    BY <1>1, RequestFacts
  <1>3. /\ DOMAIN p = 1 .. Len(p) /\ Len(Path(p)) = Len(p)
        /\ \A i \in 1 .. Len(p) : Path(p)[i] = IF p[i] \in Params THEN Star ELSE p[i]
    BY PatternFacts
  <1>4. Len(p) = Len(path) /\ \A i \in DOMAIN path : Path(p)[i] = path[i] \/ Path(p)[i] = Star
    BY <1>1, <1>3 DEF Descends
  <1>5. ASSUME NEW i \in 1 .. Len(p) PROVE p[i] \in Params \/ p[i] = path[i]
    <2>1. Path(p)[i] = Star => p[i] \in Params
      <3>1. \A x \in Segments \cup Params : x # Star
        BY RouterAssumption
      <3>2. p[i] \in Segments \cup Params
        BY PatternFacts
      <3> QED BY <1>3, <3>1, <3>2
    <2> QED BY <1>2, <1>3, <1>4, <2>1
  <1> QED BY <1>1, <1>3, <1>4, <1>5 DEF Matches

\* The three outcomes of a request.
LEMMA DispatchCases ==
  ASSUME RouterInv, NEW req \in Requests
  PROVE  \/ req.path \in DOMAIN staticRoutes
              /\ Dispatch(req) = [handler |-> staticRoutes[req.path], params |-> << >>]
         \/ req.path \notin DOMAIN staticRoutes
              /\ \E q \in NodesFor(req.path) :
                   Dispatch(req) = [handler |-> tree[q].handler,
                                    params |-> ParamsOf(tree[q].names, req)]
         \/ req.path \notin DOMAIN staticRoutes /\ NodesFor(req.path) = {}
              /\ Dispatch(req) = NotFound
  <1>1. CASE req.path \in DOMAIN staticRoutes
    BY <1>1 DEF Dispatch
  <1>2. CASE req.path \notin DOMAIN staticRoutes /\ NodesFor(req.path) # {}
    <2>1. PICK q : q = CHOOSE x \in NodesFor(req.path) : TRUE
      OBVIOUS
    <2>2. q \in NodesFor(req.path)
      BY <1>2, <2>1
    <2>3. Dispatch(req) = [handler |-> tree[q].handler, params |-> ParamsOf(tree[q].names, req)]
      BY <1>2, <2>1, Zenon DEF Dispatch
    <2> QED BY <1>2, <2>2, <2>3
  <1>3. CASE req.path \notin DOMAIN staticRoutes /\ NodesFor(req.path) = {}
    BY <1>3 DEF Dispatch
  <1> QED BY <1>1, <1>2, <1>3

\* A parameter answers with the segment of its last occurrence.
LEMMA ParamValue ==
  ASSUME NEW req \in Requests, NEW p \in Patterns, NEW i \in 1 .. Len(p), p[i] \in Params,
         \A j \in i + 1 .. Len(p) : p[j] # p[i]
  PROVE  ParamsOf(NamesOf(p), req)[p[i]][1] = req.path[i]
  <1>1. PICK names : names = NamesOf(p)
    OBVIOUS
  <1>2. /\ Len(p) \in Nat /\ DOMAIN names = 1 .. Len(p) /\ Len(names) = Len(p)
        /\ \A j \in 1 .. Len(p) : names[j] = IF p[j] \in Params THEN p[j] ELSE j
    <2>1. DOMAIN p = 1 .. Len(p) /\ Len(p) \in Nat
      BY PatternFacts
    <2>2. /\ DOMAIN names = 1 .. Len(p)
          /\ \A j \in 1 .. Len(p) : names[j] = IF p[j] \in Params THEN p[j] ELSE j
      BY <1>1, <2>1 DEF NamesOf
    <2>3. names \in Seq({names[j] : j \in 1 .. Len(p)}) /\ Len(names) = Len(p)
      BY <1>1, <2>1, <2>2 DEF NamesOf
    <2> QED BY <2>1, <2>2, <2>3
  <1>3. PICK x : x = p[i]
    OBVIOUS
  <1>4. ASSUME NEW j \in 1 .. Len(p) PROVE names[j] = x <=> p[j] = x
    <2>1. j \notin Params
      BY RouterAssumption
    <2> QED BY <1>2, <1>3, <2>1
  <1>5. PICK c : c = CHOOSE j \in DOMAIN names :
                       names[j] = x /\ \A l \in j + 1 .. Len(names) : names[l] # x
    OBVIOUS
  <1>6. i \in DOMAIN names /\ names[i] = x /\ \A l \in i + 1 .. Len(names) : names[l] # x
    BY <1>2, <1>3, <1>4
  <1>7. c \in DOMAIN names /\ names[c] = x /\ \A l \in c + 1 .. Len(names) : names[l] # x
    BY <1>5, <1>6
  <1>8. c = i
    <2>1. ~(c < i)
      BY <1>2, <1>6, <1>7
    <2>2. ~(i < c)
      BY <1>2, <1>6, <1>7
    <2> QED BY <1>2, <1>7, <2>1, <2>2
  <1>9. ParamsOf(names, req)[x] = Value(req, c)
    <2>1. x \in {names[j] : j \in DOMAIN names}
      BY <1>6
    <2> QED BY <1>5, <2>1 DEF ParamsOf
  <1> QED BY <1>1, <1>3, <1>8, <1>9 DEF Value

LEMMA StaticSound ==
  ASSUME RouterInv, NEW req \in Requests, req.path \in DOMAIN staticRoutes,
         NEW h, h = staticRoutes[req.path]
  PROVE  /\ h \in 1 .. Len(log) /\ Matches(log[h], req.path) /\ ~Dynamic(log[h])
         /\ \A n \in h + 1 .. Len(log) : Path(log[n]) # Path(log[h])
  <1>1. LastStatic(req.path, h, log) /\ log \in Seq(Patterns) /\ Len(log) \in Nat
    BY DEF RouterInv, StaticInv
  <1>2. PICK path : path = req.path
    OBVIOUS
  <1>3. /\ h \in 1 .. Len(log) /\ log[h] = path /\ ~Dynamic(path)
        /\ \A m \in h + 1 .. Len(log) : log[m] # path
    BY <1>1, <1>2 DEF LastStatic
  <1>4. log[h] \in Patterns
    BY <1>1, <1>3
  <1>5. ASSUME NEW n \in h + 1 .. Len(log), Path(log[n]) = Path(log[h]) PROVE FALSE
    <2>1. log[n] \in Patterns /\ log[n] # path
      BY <1>1, <1>3
    <2>2. PICK p : p = log[n]
      OBVIOUS
    <2>3. /\ DOMAIN path = 1 .. Len(path) /\ Len(Path(path)) = Len(path)
          /\ \A i \in 1 .. Len(path) : Path(path)[i] = path[i] /\ Path(path)[i] # Star
      <3>1. \A i \in 1 .. Len(path) : path[i] \notin Params
        BY <1>2, RequestFacts
      <3>2. path \in Patterns
        BY <1>3, <1>4
      <3> QED BY <3>1, <3>2, PatternFacts
    <2>4. /\ DOMAIN p = 1 .. Len(p) /\ Len(Path(p)) = Len(p)
          /\ \A i \in 1 .. Len(p) : /\ Path(p)[i] = IF p[i] \in Params THEN Star ELSE p[i]
                                    /\ Path(p)[i] = Star <=> p[i] \in Params
      BY <2>1, <2>2, PatternFacts
    <2>5. Path(p) = Path(path)
      BY <1>3, <1>5, <2>2
    <2>6. Len(p) = Len(path) /\ \A i \in 1 .. Len(p) : p[i] = path[i]
      BY <2>3, <2>4, <2>5
    <2>7. p \in Seq(Segments \cup Params) /\ path \in Seq(Segments \cup Params)
      BY <1>3, <1>4, <2>1, <2>2, PatternFacts
    <2>8. p = path
      BY <2>6, <2>7, SeqEqual
    <2> QED BY <2>1, <2>2, <2>8
  <1>6. Matches(path, path)
    BY DEF Matches
  <1> QED BY <1>2, <1>3, <1>5, <1>6

LEMMA DynamicSound ==
  ASSUME RouterInv, NEW req \in Requests, req.path \notin DOMAIN staticRoutes,
         NEW q \in NodesFor(req.path), NEW h, h = tree[q].handler
  PROVE  /\ h \in 1 .. Len(log) /\ log[h] \in Patterns /\ Matches(log[h], req.path)
         /\ tree[q].names = NamesOf(log[h])
         /\ \A n \in h + 1 .. Len(log) : Path(log[n]) # Path(log[h])
         /\ \A n \in 1 .. Len(log) : log[n] # req.path
  <1>1. q \in DOMAIN tree /\ Descends(q, req.path) /\ h # 0
    BY DEF NodesFor
  <1>2. LastDynamic(q, tree[q], log) /\ log \in Seq(Patterns) /\ Len(log) \in Nat
    BY <1>1 DEF RouterInv, TreeInv
  <1>3. /\ h \in 1 .. Len(log) /\ Dynamic(log[h]) /\ Path(log[h]) = q
        /\ tree[q].names = NamesOf(log[h])
        /\ \A m \in h + 1 .. Len(log) : Dynamic(log[m]) => Path(log[m]) # q
    BY <1>2 DEF LastDynamic
  <1>4. log[h] \in Patterns
    BY <1>2, <1>3
  <1>5. Matches(log[h], req.path)
    BY <1>1, <1>3, <1>4, DescentMatches
  <1>6. ASSUME NEW n \in h + 1 .. Len(log) PROVE Path(log[n]) # q
    <2> SUFFICES ASSUME Path(log[n]) = q PROVE Dynamic(log[n])
      BY <1>3
    <2>1. log[n] \in Patterns
      BY <1>2, <1>3
    <2>2. PICK i \in 1 .. Len(log[h]) : log[h][i] \in Params
      BY <1>3, <1>4, PatternFacts DEF Dynamic
    <2>3. q[i] = Star /\ Len(q) = Len(log[h])
      BY <1>3, <1>4, <2>2, PatternFacts
    <2>4. Len(q) = Len(log[n])
      BY <2>1, PatternFacts
    <2>5. log[n][i] \in Params /\ i \in DOMAIN log[n]
      BY <2>1, <2>2, <2>3, <2>4, PatternFacts
    <2> QED BY <2>5 DEF Dynamic
  <1>7. ASSUME NEW n \in 1 .. Len(log) PROVE log[n] # req.path
    <2> SUFFICES ASSUME log[n] = req.path PROVE FALSE
      OBVIOUS
    <2>1. ~Dynamic(log[n])
      BY RequestFacts
    <2> QED BY <2>1 DEF RouterInv, StaticInv
  <1> QED BY <1>3, <1>4, <1>5, <1>6, <1>7

LEMMA NotFoundIsZero ==
  ASSUME NEW h, NEW x
  PROVE  /\ [handler |-> h, params |-> x].handler = h /\ [handler |-> h, params |-> x].params = x
         /\ NotFound.handler = 0
  BY DEF NotFound

\* Whatever the patterns, the segments and the order in which routes are added,
\* a request reaches the last route of the shape that its descent ends at, which
\* matches it, unless a static route is registered for it; and the parameters are
\* its segments.
THEOREM ResolvesSoundly == RouterSpec => []ResolveSound
  <1>1. ASSUME RouterInv PROVE ResolveSound
    <2> SUFFICES ASSUME NEW req \in Requests, Dispatch(req) # NotFound,
                        NEW p, p = log[Dispatch(req).handler]
                 PROVE  /\ Matches(p, req.path)
                        /\ \A n \in Dispatch(req).handler + 1 .. Len(log) : Path(log[n]) # Path(p)
                        /\ Dynamic(p) =>
                             /\ \A n \in DOMAIN log : log[n] # req.path
                             /\ \A i \in DOMAIN p :
                                  p[i] \in Params /\ (\A j \in i + 1 .. Len(p) : p[j] # p[i]) =>
                                    Dispatch(req).params[p[i]][1] = req.path[i]
      BY DEF ResolveSound
    <2>0. DOMAIN log = 1 .. Len(log)
      BY <1>1 DEF RouterInv
    <2>1. CASE /\ req.path \in DOMAIN staticRoutes
               /\ Dispatch(req) = [handler |-> staticRoutes[req.path], params |-> << >>]
      <3>1. PICK h : h = staticRoutes[req.path]
        OBVIOUS
      <3>2. Dispatch(req).handler = h
        BY <2>1, <3>1, NotFoundIsZero
      <3>3. /\ Matches(log[h], req.path) /\ ~Dynamic(log[h])
            /\ \A n \in h + 1 .. Len(log) : Path(log[n]) # Path(log[h])
        BY <1>1, <2>1, <3>1, StaticSound
      <3> QED BY <3>2, <3>3
    <2>2. CASE /\ req.path \notin DOMAIN staticRoutes
               /\ \E q \in NodesFor(req.path) :
                    Dispatch(req) = [handler |-> tree[q].handler,
                                     params |-> ParamsOf(tree[q].names, req)]
      <3>1. PICK q \in NodesFor(req.path) :
                   Dispatch(req) = [handler |-> tree[q].handler,
                                    params |-> ParamsOf(tree[q].names, req)]
        BY <2>2
      <3>2. PICK h : h = tree[q].handler
        OBVIOUS
      <3>3. Dispatch(req).handler = h /\ Dispatch(req).params = ParamsOf(tree[q].names, req)
        BY <3>1, <3>2, NotFoundIsZero
      <3>4. /\ h \in 1 .. Len(log) /\ log[h] \in Patterns /\ Matches(log[h], req.path)
            /\ tree[q].names = NamesOf(log[h])
            /\ \A n \in h + 1 .. Len(log) : Path(log[n]) # Path(log[h])
            /\ \A n \in 1 .. Len(log) : log[n] # req.path
        BY <1>1, <2>2, <3>1, <3>2, DynamicSound
      <3>5. p = log[h] /\ p \in Patterns /\ DOMAIN p = 1 .. Len(p)
        BY <3>3, <3>4, PatternFacts
      <3>6. ASSUME NEW i \in DOMAIN p, p[i] \in Params, \A j \in i + 1 .. Len(p) : p[j] # p[i]
            PROVE  Dispatch(req).params[p[i]][1] = req.path[i]
        BY <3>3, <3>4, <3>5, <3>6, ParamValue
      <3> QED BY <2>0, <3>3, <3>4, <3>5, <3>6
    <2> QED BY <1>1, <2>1, <2>2, DispatchCases
  <1> QED BY <1>1, RouterInvariant, PTL

\* What two routes have in common up to a node, and the child of that node.
LEMMA Lured ==
  ASSUME NEW req \in Requests, NEW p \in Patterns, Matches(p, req.path),
         NEW i \in 1 .. Len(p), NEW d \in Patterns,
         NEW r, r = Append(SubSeq(Path(p), 1, i - 1), req.path[i]), r \in Ways(d)
  PROVE  /\ i <= Len(d) /\ d[i] = req.path[i]
         /\ \A j \in 1 .. i - 1 : d[j] \in Params \/ d[j] = req.path[j]
  <1>1. PICK path : path = req.path
    OBVIOUS
  <1>2. PICK s : s = Path(p)
    OBVIOUS
  <1>3. PICK a : a = SubSeq(s, 1, i - 1)
    OBVIOUS
  <1>4. /\ s \in Seq(Labels) /\ Len(s) = Len(p) /\ Len(p) \in Nat /\ Len(p) = Len(path)
        /\ \A j \in 1 .. Len(p) : s[j] = IF p[j] \in Params THEN Star ELSE p[j]
        /\ \A j \in 1 .. Len(p) : p[j] \in Params \/ p[j] = path[j]
    BY <1>1, <1>2, PatternFacts DEF Matches
  <1>5. path[i] \in Labels /\ path[i] # Star /\ i \in Nat /\ 1 <= i /\ i <= Len(p)
    <2>1. path[i] \in Segments /\ path[i] # Star
      BY <1>1, <1>4, RequestFacts
    <2> QED BY <1>4, <2>1 DEF Labels
  <1>6. a \in Seq(Labels) /\ Len(a) = i - 1 /\ \A j \in 1 .. i - 1 : a[j] = s[j]
    BY <1>3, <1>4, <1>5
  <1>7. /\ Len(r) = Len(a) + 1 /\ r[Len(a) + 1] = path[i]
        /\ \A j \in 1 .. Len(a) : r[j] = a[j]
    <2>1. PICK e \in Labels : e = path[i]
      BY <1>5
    <2>2. r = Append(a, e)
      BY <1>1, <1>2, <1>3, <2>1
    <2>3. Len(r) = Len(a) + 1 /\ r[Len(a) + 1] = e /\ \A j \in 1 .. Len(a) : r[j] = a[j]
      <3>1. /\ Len(Append(a, e)) = Len(a) + 1
            /\ \A j \in 1 .. Len(a) : Append(a, e)[j] = a[j]
            /\ Append(a, e)[Len(a) + 1] = e
        BY <1>6, <2>1, AppendProperties
      <3> QED BY <2>2, <3>1
    <2> QED BY <2>1, <2>3
  <1>8. Len(r) = i /\ r[i] = path[i] /\ \A j \in 1 .. i - 1 : r[j] = s[j]
    BY <1>5, <1>6, <1>7
  <1>9. Len(r) \in 1 .. Len(d) /\ \A j \in 1 .. Len(r) : r[j] = Path(d)[j]
    BY PrefixFacts
  <1>10. /\ Len(d) \in Nat
         /\ \A j \in 1 .. Len(d) : /\ Path(d)[j] = IF d[j] \in Params THEN Star ELSE d[j]
                                   /\ Path(d)[j] = Star <=> d[j] \in Params
    BY PatternFacts
  <1>11. i <= Len(d) /\ d[i] = path[i]
    BY <1>5, <1>8, <1>9, <1>10
  <1>12. ASSUME NEW j \in 1 .. i - 1 PROVE d[j] \in Params \/ d[j] = path[j]
    <2>1. j \in 1 .. Len(r) /\ j \in 1 .. Len(d) /\ j \in 1 .. Len(p)
      BY <1>4, <1>5, <1>8, <1>10, <1>11
    <2>2. Path(d)[j] = s[j]
      BY <1>8, <1>9, <2>1
    <2>3. CASE p[j] \in Params
      BY <1>4, <1>10, <2>1, <2>2, <2>3
    <2>4. CASE p[j] \notin Params
      BY <1>4, <1>10, <2>1, <2>2, <2>4
    <2> QED BY <2>3, <2>4
  <1> QED BY <1>1, <1>11, <1>12

\* A request that a dynamic route matches descends to its node, unless another
\* dynamic route leads it away.
LEMMA DescentFails ==
  ASSUME RouterInv, NEW req \in Requests, NEW n \in 1 .. Len(log), Dynamic(log[n]),
         Matches(log[n], req.path), NodesFor(req.path) = {}
  PROVE  \E m \in 1 .. Len(log), i \in 1 .. Len(log[n]) :
           /\ Dynamic(log[m]) /\ log[n][i] \in Params
           /\ Append(SubSeq(Path(log[n]), 1, i - 1), req.path[i]) \in Ways(log[m])
  <1>1. PICK p \in Patterns : p = log[n]
    BY DEF RouterInv
  <1>2. PICK q : q = Path(p)
    OBVIOUS
  <1>3. PICK path : path = req.path
    OBVIOUS
  <1>4. /\ \A x : x \in DOMAIN tree <=>
                    \E m \in 1 .. Len(log) : Dynamic(log[m]) /\ x \in Ways(log[m])
        /\ tree[q].handler # 0
    BY <1>1, <1>2 DEF RouterInv, TreeInv
  <1>5. \A x \in Ways(p) : x \in DOMAIN tree
    BY <1>1, <1>4
  <1>6. /\ q \in Seq(Labels) /\ Len(q) = Len(p) /\ Len(p) = Len(path)
        /\ DOMAIN path = 1 .. Len(p) /\ q \in Ways(p)
        /\ \A i \in 1 .. Len(p) : q[i] = IF p[i] \in Params THEN Star ELSE p[i]
        /\ \A i \in 1 .. Len(p) : p[i] \in Params \/ p[i] = path[i]
    BY <1>1, <1>2, <1>3, PatternFacts, PrefixFacts, RequestFacts DEF Matches
  <1>7. ~Descends(q, path)
    BY <1>3, <1>4, <1>5, <1>6 DEF NodesFor
  <1>8. PICK i \in 1 .. Len(p) :
          q[i] # IF Append(SubSeq(q, 1, i - 1), path[i]) \in DOMAIN tree THEN path[i] ELSE Star
    BY <1>6, <1>7 DEF Descends
  <1>9. PICK r : r = Append(SubSeq(q, 1, i - 1), path[i])
    OBVIOUS
  <1>10. CASE r \in DOMAIN tree
    <2>1. p[i] \in Params
      BY <1>6, <1>8, <1>9, <1>10
    <2>2. PICK m \in 1 .. Len(log) : Dynamic(log[m]) /\ r \in Ways(log[m])
      BY <1>4, <1>10
    <2> QED BY <1>1, <1>2, <1>3, <1>9, <2>1, <2>2
  <1>11. CASE r \notin DOMAIN tree
    <2>1. q[i] = path[i]
      BY <1>6, <1>8, <1>9, <1>11
    <2>2. r = SubSeq(q, 1, i)
      BY <1>6, <1>9, <2>1, NextPrefix
    <2>3. r \in Ways(p)
      BY <1>2, <2>2 DEF Ways
    <2> QED BY <1>5, <1>11, <2>3
  <1> QED BY <1>10, <1>11

\* A request that a route matches is answered with 404 only if a dynamic route
\* has the segment of the request where the matching one has a parameter, and
\* agrees with the request up to there.
THEOREM ResolvesCompletely == RouterSpec => []ResolveComplete
  <1>1. ASSUME RouterInv PROVE ResolveComplete
    <2>0. DOMAIN log = 1 .. Len(log) /\ \A n \in 1 .. Len(log) : DOMAIN log[n] = 1 .. Len(log[n])
      BY <1>1, PatternFacts DEF RouterInv
    <2> SUFFICES ASSUME NEW req \in Requests, NEW n \in DOMAIN log,
                        Matches(log[n], req.path), Dispatch(req) = NotFound
                 PROVE  \E m \in DOMAIN log, i \in DOMAIN log[n] :
                          /\ Dynamic(log[m]) /\ i <= Len(log[m])
                          /\ log[m][i] = req.path[i] /\ log[n][i] \in Params
                          /\ \A j \in 1 .. i - 1 : log[m][j] \in Params \/ log[m][j] = req.path[j]
      BY Zenon DEF ResolveComplete
    <2>1. \A m \in 1 .. Len(log) : log[m] \in Patterns
      BY <1>1 DEF RouterInv
    <2>2. req.path \notin DOMAIN staticRoutes
      <3> SUFFICES ASSUME req.path \in DOMAIN staticRoutes PROVE FALSE
        OBVIOUS
      <3>1. PICK h : h = staticRoutes[req.path]
        OBVIOUS
      <3>2. Dispatch(req) = [handler |-> h, params |-> << >>]
        BY <3>1, Zenon DEF Dispatch
      <3>3. h = 0
        BY <3>2, NotFoundIsZero
      <3>4. h \in 1 .. Len(log)
        BY <1>1, <3>1, StaticSound
      <3> QED BY <3>3, <3>4
    <2>3. Dynamic(log[n])
      <3> SUFFICES ASSUME ~Dynamic(log[n]) PROVE FALSE
        OBVIOUS
      <3>1. log[n] = req.path
        BY <2>1, RequestFacts, StaticPath
      <3>2. log[n] \in DOMAIN staticRoutes
        BY <1>1 DEF RouterInv, StaticInv
      <3> QED BY <2>2, <3>1, <3>2
    <2>4. NodesFor(req.path) = {}
      <3> SUFFICES ASSUME NodesFor(req.path) # {} PROVE FALSE
        OBVIOUS
      <3>1. PICK q \in NodesFor(req.path) :
              Dispatch(req) = [handler |-> tree[q].handler,
                               params |-> ParamsOf(tree[q].names, req)]
        BY <1>1, <2>2, DispatchCases
      <3>2. tree[q].handler = 0
        BY <3>1, NotFoundIsZero
      <3> QED BY <3>1, <3>2 DEF NodesFor
    <2>5. PICK m \in 1 .. Len(log), i \in 1 .. Len(log[n]) :
            /\ Dynamic(log[m]) /\ log[n][i] \in Params
            /\ Append(SubSeq(Path(log[n]), 1, i - 1), req.path[i]) \in Ways(log[m])
      BY <1>1, <2>0, <2>3, <2>4, DescentFails
    <2>6. /\ i <= Len(log[m]) /\ log[m][i] = req.path[i]
          /\ \A j \in 1 .. i - 1 : log[m][j] \in Params \/ log[m][j] = req.path[j]
      <3>1. PICK p \in Patterns : p = log[n]
        BY <2>0, <2>1
      <3>2. PICK d \in Patterns : d = log[m]
        BY <2>1
      <3>3. PICK r : r = Append(SubSeq(Path(p), 1, i - 1), req.path[i])
        OBVIOUS
      <3>4. i \in 1 .. Len(p) /\ Matches(p, req.path) /\ r \in Ways(d)
        BY <2>5, <3>1, <3>2, <3>3
      <3>5. /\ i <= Len(d) /\ d[i] = req.path[i]
            /\ \A j \in 1 .. i - 1 : d[j] \in Params \/ d[j] = req.path[j]
        BY <3>3, <3>4, Lured
      <3> QED BY <3>2, <3>5
    <2>7. m \in DOMAIN log /\ i \in DOMAIN log[n]
      BY <2>0, <2>5
    <2> QED BY <2>5, <2>6, <2>7
  <1> QED BY <1>1, RouterInvariant, PTL
=============================================================================
