------------------------ MODULE DeadlineTimerProofs -------------------------
(***************************************************************************)
(* The timer keeps its promise for all callbacks, delays, limits of the    *)
(* platform's timeouts and amounts by which they fire early.               *)
(***************************************************************************)
EXTENDS DeadlineTimer, TLAPS

\* The fields have their types; what is outstanding is due at some time.
TimerTypeOK ==
  /\ now \in Nat /\ end \in Nat
  /\ cb \in Callbacks \cup {Nobody} /\ called \subseteq Callbacks
  /\ timeoutId \in Ids \cup {NoId}
  /\ DOMAIN due \subseteq Ids

\* TimeoutExact is inductive with the types: clearing the timeout of the field
\* leaves none, so that the one set next is the only one.
TimerInv == TimerTypeOK /\ TimeoutExact

LEMMA ClearedDomain ==
  ASSUME NEW ids PROVE DOMAIN Cleared(ids) = DOMAIN due \ ids
  BY DEF Cleared

\* When ids holds all that is outstanding, the timeout set is the only one.
LEMMA SetTimeoutOnly ==
  ASSUME NEW ids, NEW ms, DOMAIN due \subseteq ids, SetTimeout(ids, ms)
  PROVE  timeoutId' \in Ids /\ DOMAIN due' = {timeoutId'}
  BY DEF SetTimeout

LEMMA ResetKeepsInv ==
  ASSUME TimerInv, NEW c \in Callbacks \cup {Nobody}, NEW ms \in Delays, Reset(c, ms)
  PROVE  TimerInv'
  <1>1. now' = now /\ called' = called /\ ms \in Nat
    BY TimerAssumption DEF Reset
  <1>2. cb' \in Callbacks \cup {Nobody} /\ end' \in Nat
    BY <1>1 DEF Reset, TimerInv, TimerTypeOK
  <1>3. CASE cb' # Nobody
    <2>1. DOMAIN due \subseteq {timeoutId}
      BY DEF TimerInv, TimeoutExact
    <2>2. timeoutId' \in Ids /\ DOMAIN due' = {timeoutId'}
      BY <1>3, <2>1, SetTimeoutOnly DEF Reset
    <2> QED BY <1>1, <1>2, <1>3, <2>2 DEF TimerInv, TimerTypeOK, TimeoutExact
  <1>4. CASE cb' = Nobody
    <2>1. cb = Nobody
      BY <1>4, TimerAssumption DEF Reset
    <2>2. timeoutId' = timeoutId /\ DOMAIN due' = {}
      BY <1>4, <2>1, ClearedDomain DEF Reset, TimerInv, TimeoutExact
    <2> QED BY <1>1, <1>2, <1>4, <2>1, <2>2 DEF TimerInv, TimerTypeOK, TimeoutExact
  <1> QED BY <1>3, <1>4

LEMMA AbortKeepsInv ==
  ASSUME TimerInv, Abort
  PROVE  TimerInv'
  BY ClearedDomain DEF Abort, TimerInv, TimerTypeOK, TimeoutExact

LEMMA HandleTimeoutKeepsInv ==
  ASSUME TimerInv, NEW i \in Ids, HandleTimeout(i)
  PROVE  TimerInv'
  <1>1. cb # Nobody /\ i = timeoutId /\ DOMAIN due = {i}
    BY DEF HandleTimeout, TimerInv, TimeoutExact
  <1>2. now' = now /\ end' = end
    BY DEF HandleTimeout
  <1>3. ASSUME SetTimeout({i}, end - now), UNCHANGED <<cb, called>>
        PROVE  TimerInv'
    <2>1. timeoutId' \in Ids /\ DOMAIN due' = {timeoutId'}
      BY <1>1, <1>3, SetTimeoutOnly
    <2> QED BY <1>1, <1>2, <1>3, <2>1 DEF TimerInv, TimerTypeOK, TimeoutExact
  <1>4. ASSUME due' = Cleared({i}), called' = called \cup ({cb} \ {Nobody}),
               cb' = Nobody, timeoutId' = NoId
        PROVE  TimerInv'
    BY <1>1, <1>2, <1>4, ClearedDomain DEF TimerInv, TimerTypeOK, TimeoutExact
  <1> QED BY <1>1, <1>3, <1>4 DEF HandleTimeout

LEMMA TimerInvariant == TimerSpec => []TimerInv
  <1>1. TimerInit => TimerInv
    BY DEF TimerInit, TimerInv, TimerTypeOK, TimeoutExact
  <1>2. TimerInv /\ [TimerNext]_timerVars => TimerInv'
    <2> SUFFICES ASSUME TimerInv, [TimerNext]_timerVars PROVE TimerInv'
      OBVIOUS
    <2>1. CASE Timeout
      BY <2>1, HandleTimeoutKeepsInv DEF Timeout
    <2>2. CASE TimePasses
      BY <2>2 DEF TimePasses, TimerInv, TimerTypeOK, TimeoutExact
    <2>3. CASE Abort
      BY <2>3, AbortKeepsInv
    <2>4. CASE \E c \in Callbacks \cup {Nobody}, ms \in Delays : Reset(c, ms)
      BY <2>4, ResetKeepsInv
    <2>5. CASE UNCHANGED timerVars
      BY <2>5 DEF timerVars, TimerInv, TimerTypeOK, TimeoutExact
    <2> QED BY <2>1, <2>2, <2>3, <2>4, <2>5 DEF TimerNext
  <1> QED BY <1>1, <1>2, PTL DEF TimerSpec

\* However reset(), abort() and early timeouts follow one another, a timer that
\* is armed has exactly the one timeout that abort() would clear
\* (DeadlineTimer.mjs:65-127).
THEOREM TimeoutIsExact == TimerSpec => []TimeoutExact
  <1>1. TimerInv => TimeoutExact
    BY DEF TimerInv
  <1> QED BY <1>1, TimerInvariant, PTL

-----------------------------------------------------------------------------
LEMMA ResetArms ==
  ASSUME TimerInv, NEW c \in Callbacks \cup {Nobody}, NEW ms \in Delays, Reset(c, ms)
  PROVE  [Promise!DeadlineNext]_Promise!deadlineVars
  <1>1. CASE c # Nobody
    <2>1. cb' = c /\ c \in Callbacks \ called /\ cb' # Nobody /\ end' = now + ms
          /\ now' = now /\ called' = called
      BY <1>1 DEF Reset, Given
    <2>2. end' \in Nat /\ end' >= now
      BY <2>1, TimerAssumption DEF TimerInv, TimerTypeOK
    <2>3. Promise!Arm
      BY <2>1, <2>2 DEF Promise!Arm
    <2> QED BY <2>3 DEF Promise!DeadlineNext
  <1>2. CASE c = Nobody
    BY <1>2 DEF Reset, Promise!deadlineVars
  <1> QED BY <1>1, <1>2

LEMMA HandleTimeoutCalls ==
  ASSUME TimerInv, NEW i \in Ids, HandleTimeout(i)
  PROVE  [Promise!DeadlineNext]_Promise!deadlineVars
  <1>1. cb # Nobody
    BY DEF HandleTimeout, TimerInv, TimeoutExact
  <1>2. CASE now < end
    <2>1. UNCHANGED <<now, cb, end, called>>
      BY <1>2 DEF HandleTimeout, TimerInv, TimerTypeOK
    <2> QED BY <2>1 DEF Promise!deadlineVars
  <1>3. CASE now >= end
    <2>1. Promise!Call
      BY <1>1, <1>3 DEF HandleTimeout, Promise!Call, TimerInv, TimerTypeOK
    <2> QED BY <2>1 DEF Promise!DeadlineNext
  <1> QED BY <1>2, <1>3 DEF TimerInv, TimerTypeOK

\* The callback set last is called once and not before its deadline, whatever
\* timeouts the platform gives early or late and however long they may be
\* (DeadlineTimer.mjs:9-11).
THEOREM TimerKeepsPromise == TimerSpec => TimerImplementsDeadline
  <1>1. TimerInit => Promise!DeadlineInit
    BY DEF TimerInit, Promise!DeadlineInit
  <1>2. TimerInv /\ [TimerNext]_timerVars => [Promise!DeadlineNext]_Promise!deadlineVars
    <2> SUFFICES ASSUME TimerInv, [TimerNext]_timerVars
                 PROVE  [Promise!DeadlineNext]_Promise!deadlineVars
      OBVIOUS
    <2>1. CASE Timeout
      BY <2>1, HandleTimeoutCalls DEF Timeout
    <2>2. CASE TimePasses
      <3>1. CASE now < MaxNow
        <4>1. Promise!Passes
          BY <2>2, <3>1 DEF TimePasses, Promise!Passes
        <4> QED BY <4>1 DEF Promise!DeadlineNext
      <3>2. CASE ~(now < MaxNow)
        BY <2>2, <3>2 DEF TimePasses, Promise!deadlineVars
      <3> QED BY <3>1, <3>2
    <2>3. CASE Abort
      <3>1. Promise!Cancel
        BY <2>3 DEF Abort, Promise!Cancel
      <3> QED BY <3>1 DEF Promise!DeadlineNext
    <2>4. CASE \E c \in Callbacks \cup {Nobody}, ms \in Delays : Reset(c, ms)
      BY <2>4, ResetArms
    <2>5. CASE UNCHANGED timerVars
      BY <2>5 DEF timerVars, Promise!deadlineVars
    <2> QED BY <2>1, <2>2, <2>3, <2>4, <2>5 DEF TimerNext
  <1> QED BY <1>1, <1>2, TimerInvariant, PTL DEF TimerSpec, TimerImplementsDeadline, Promise!DeadlineSpec
=============================================================================
