--------------------------- MODULE DeadlineTimer ----------------------------
(***************************************************************************)
(* packages/core/DeadlineTimer.mjs over the platform's timeouts, which are *)
(* limited in length, may fire late, and as performance.now() tells the    *)
(* time may fire early.  A reset() that gives a callback gives another     *)
(* one: to the timer they are all the same.                                *)
(***************************************************************************)
EXTENDS Naturals, FiniteSets

CONSTANTS Callbacks, Nobody,  \* Nobody is null
          MaxTimeout,         \* maxSetTimeoutValue
          Delays,             \* values of ms
          Early,              \* how much too early a timeout may fire
          MaxNow,             \* bound on the deadlines
          Ids, NoId           \* names of timeouts, and null

ASSUME TimerAssumption ==
  /\ Nobody \notin Callbacks /\ NoId \notin Ids
  /\ MaxTimeout \in Nat \ {0} /\ Early \in Nat /\ MaxNow \in Nat /\ Delays \subseteq Nat

VARIABLES now,
          cb, end,      \* the fields
          timeoutId,    \* the field _setTimeoutId
          due,          \* the timeouts outstanding, and when they are due
          called        \* history: the callbacks that have been called

timerVars == <<now, cb, end, timeoutId, due, called>>

Min2(a, b) == IF a < b THEN a ELSE b

TimerInit ==
  /\ now = 0 /\ cb = Nobody /\ end = 0 /\ timeoutId = NoId
  /\ due = [i \in {} |-> 0] /\ called = {}

\* clearTimeout() and setTimeout(): what is outstanding without the timeouts
\* of ids, and with one more, whose name is free, in ms.
Cleared(ids) == [i \in DOMAIN due \ ids |-> due[i]]

SetTimeout(ids, ms) ==
  \E i \in Ids \ (DOMAIN due \ ids) :
    /\ timeoutId' = i
    /\ due' = [j \in (DOMAIN due \ ids) \cup {i} |->
                 IF j = i THEN now + Min2(ms, MaxTimeout) ELSE due[j]]

-----------------------------------------------------------------------------
\* A callback that is not in use, with a deadline within the bound; without a
\* callback reset() may be called as often as one likes.
Given(c, ms) == c = Nobody \/ (now + ms <= MaxNow /\ c \notin called \cup {cb})

\* Mutated form of Reset, for TimeoutExact: the timeout in progress is left.
ResetKeepsTimeout(c, ms) ==
  /\ Given(c, ms)
  /\ IF c # Nobody THEN cb' = c /\ end' = now + ms ELSE UNCHANGED <<cb, end>>
  /\ IF cb' # Nobody
       THEN SetTimeout({}, ms)
       ELSE UNCHANGED <<timeoutId, due>>
  /\ UNCHANGED <<now, called>>

\* reset(cb, ms).  Without a callback the deadline stays, and only the next
\* timeout is at another time.  new DeadlineTimer(cb, ms) is this on a timer
\* that is not armed.
Reset(c, ms) ==
  /\ Given(c, ms)
  /\ IF c # Nobody THEN cb' = c /\ end' = now + ms ELSE UNCHANGED <<cb, end>>
  /\ IF cb' # Nobody
       THEN SetTimeout({timeoutId}, ms)
       ELSE due' = Cleared({timeoutId}) /\ UNCHANGED timeoutId
  /\ UNCHANGED <<now, called>>

Abort ==
  /\ cb' = Nobody /\ end' = 0
  /\ due' = Cleared({timeoutId}) /\ timeoutId' = NoId
  /\ UNCHANGED <<now, called>>

\* Mutated form of HandleTimeout, for TimerImplementsDeadline: every timeout is
\* taken for the last one.
HandleTimeoutAtOnce(i) ==
  /\ i \in DOMAIN due /\ now + Early >= due[i]
  /\ cb # Nobody
  /\ called' = called \cup {cb}
  /\ cb' = Nobody /\ timeoutId' = NoId /\ due' = Cleared({i})
  /\ UNCHANGED <<now, end>>

\* Mutated form of HandleTimeout, for TimerFires: a timeout that came early is
\* not followed by another one.
HandleTimeoutOnce(i) ==
  /\ i \in DOMAIN due /\ now + Early >= due[i]
  /\ due' = Cleared({i})
  /\ IF now < end \/ cb = Nobody
       THEN UNCHANGED <<cb, timeoutId, called>>
       ELSE called' = called \cup {cb} /\ cb' = Nobody /\ timeoutId' = NoId
  /\ UNCHANGED <<now, end>>

\* The fields are reset before the callback is called, so that what it does to
\* the timer comes after this step.
HandleTimeout(i) ==
  /\ i \in DOMAIN due /\ now + Early >= due[i]
  /\ \/ /\ now < end
        /\ SetTimeout({i}, end - now)
        /\ UNCHANGED <<cb, called>>
     \/ /\ now >= end
        /\ due' = Cleared({i})
        /\ called' = called \cup ({cb} \ {Nobody}) /\ cb' = Nobody
        /\ timeoutId' = IF cb = Nobody THEN timeoutId ELSE NoId
  /\ UNCHANGED <<now, end>>

\* Time has no end: from MaxNow on, when every deadline has passed, the clock
\* stands still and what is due in the future comes nearer instead.
TimePasses ==
  /\ IF now < MaxNow
       THEN now' = now + 1 /\ UNCHANGED due
       ELSE /\ due' = [i \in DOMAIN due |-> IF due[i] > now THEN due[i] - 1 ELSE due[i]]
            /\ UNCHANGED now
  /\ UNCHANGED <<cb, end, timeoutId, called>>

Timeout == \E i \in Ids : HandleTimeout(i)

TimerNext ==
  \/ Timeout \/ TimePasses \/ Abort
  \/ \E c \in Callbacks \cup {Nobody}, ms \in Delays : Reset(c, ms)

TimerSpec == TimerInit /\ [][TimerNext]_timerVars

-----------------------------------------------------------------------------
\* No reset(), abort() or early timeout leaves a second timeout behind, or an
\* armed timer without one: the timer is armed exactly when one timeout is
\* outstanding, which is the one that abort() would clear.
TimeoutExact ==
  /\ DOMAIN due = IF cb = Nobody THEN {} ELSE {timeoutId}
  /\ cb = Nobody => timeoutId = NoId

Promise == INSTANCE Deadline WITH
             armed <- cb, end <- IF cb = Nobody THEN 0 ELSE end

\* "DeadlineTimer ensures the callback is called after the exact deadline has
\* passed" and "handles the setTimeout maximum value limitation by using
\* multiple timeouts" (DeadlineTimer.mjs:9-11): whatever early timeouts and
\* reset() and abort() do, the callback set last is the one called, once, and
\* not before its deadline.
TimerImplementsDeadline == Promise!DeadlineSpec

\* reset() is called without a callback, which only moves the next timeout.
Postpone == \E ms \in Delays : Reset(Nobody, ms)

\* A callback that was set is called unless it is replaced or aborted, however
\* many timeouts its deadline takes and however often the next one is moved, as
\* long as that comes to an end: reset(null, ms) again and again puts the call
\* off for ever (DeadlineTimer.mjs:65-78, 111-117).
TimerFires ==
  \A c \in Callbacks : <>[][~Postpone]_timerVars => (cb = c ~> cb # c)
=============================================================================
