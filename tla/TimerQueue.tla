----------------------------- MODULE TimerQueue -----------------------------
(***************************************************************************)
(* net/TimerQueue.cpp and net/Timer.cpp: the timers of one EventLoop, kept *)
(* in two sets and served by one timerfd.                                  *)
(*                                                                         *)
(* Time is discrete and relative: an expiration is the number of ticks     *)
(* from now, negative when it has passed, so a tick lowers every           *)
(* expiration and the model needs no bound on the time it runs.  The wall  *)
(* clock, which Timestamp::now() reads, may be set back or forward under   *)
(* the timerfd, which counts monotonic time.  One tick is at least the     *)
(* 100 microseconds that howMuchTimeFromNow() rounds up to.                *)
(*                                                                         *)
(* A Timer is an object on the heap; the address of a deleted one may be   *)
(* given to the next.  Other threads reach the queue through the FIFO of   *)
(* functors that EventLoop.tla specifies.                                  *)
(***************************************************************************)
EXTENDS Integers, Sequences, FiniteSets

CONSTANTS Addrs,        \* the addresses a Timer may have
          Delays,       \* of the first expiration, relative to the call
          Intervals,    \* of repeating timers
          MaxCreated,   \* bound: timers created
          MaxLate,      \* bound: ticks of lateness told apart
          MaxSteps,     \* bound: how often the wall clock is set
          MaxPending    \* bound: functors waiting

ASSUME TimerAssumption ==
  /\ Addrs \subseteq Nat
  /\ Delays \subseteq Int
  /\ Intervals \subseteq Nat \ {0}
  /\ MaxCreated \in Nat /\ MaxLate \in Nat /\ MaxSteps \in Nat /\ MaxPending \in Nat

VARIABLES timer,                  \* the Timer objects alive, by address
          s_numCreated_,
          timers_,                \* set of <<expiration, address>>
          activeTimers_,          \* set of <<address, sequence>>
          callingExpiredTimers_,
          cancelingTimers_,
          timerfd_,               \* ticks to go, 0 when readable, Disarmed or Closed
          active,                 \* poll() has reported timerfdChannel_
          expired,                \* the timers in handleRead()'s vector
          torun,                  \* its entries whose callback is still to come
          late,                   \* ticks since handleRead() took its now
          pendingFunctors_,       \* calls queued by other threads
          ids,                    \* every TimerId returned so far
          returning,              \* <<address, sequence>> of the timers whose addTimer(),
                                  \* in another thread, has yet to return
          steps,                  \* times the wall clock has been set
          fired,                  \* sequences that have run
          cancelled               \* <<sequence, whether the queue held it>>
                                  \* for each cancelInLoop() done

queue == <<timers_, activeTimers_, cancelingTimers_, timerfd_>>
handling == <<callingExpiredTimers_, active, expired, torun, late>>
vars == <<timer, s_numCreated_, queue, handling, pendingFunctors_, ids, returning, steps,
          fired, cancelled>>

Disarmed == -1
Closed == -2

Up == timerfd_ # Closed
-----------------------------------------------------------------------------
\* howMuchTimeFromNow(): at least 100 microseconds.
howMuchTimeFromNow(when) == IF when < 1 THEN 1 ELSE when

\* The first entry of timers_, ordered by expiration.
Begin(entries) == CHOOSE e \in entries : \A f \in entries : e[1] <= f[1]

Entry(h, a) == <<h[a].expiration, a>>
ActiveTimer(h, a) == <<a, h[a].sequence>>

NewTimerOldCount(a, when, interval) ==
  [b \in DOMAIN timer \cup {a} |->
     IF b = a THEN [expiration |-> when, interval |-> interval, sequence |-> s_numCreated_]
              ELSE timer[b]]

\* The heap after new Timer at address a.
NewTimer(a, when, interval) ==
  [b \in DOMAIN timer \cup {a} |->
     IF b = a THEN [expiration |-> when, interval |-> interval,
                    sequence |-> s_numCreated_ + 1]
              ELSE timer[b]]

DeleteNothing(as) == timer

Delete(as) == [b \in DOMAIN timer \ as |-> timer[b]]
-----------------------------------------------------------------------------
EarliestIfEmpty(when) == timers_ = {}

\* What insert() returns.
EarliestChanged(when) == \A e \in timers_ : when < e[1]

\* insert() of the timers at the addresses as of the heap h.
insert(h, as) ==
  /\ timers_' = timers_ \cup {Entry(h, a) : a \in as}
  /\ activeTimers_' = activeTimers_ \cup {ActiveTimer(h, a) : a \in as}

\* timerfd_settime(), which also clears a timerfd that was readable.
resetTimerfd(when) == timerfd_' = howMuchTimeFromNow(when)

addTimerInLoop(h, a) ==
  /\ insert(h, {a})
  /\ IF EarliestChanged(h[a].expiration)
     THEN resetTimerfd(h[a].expiration) ELSE UNCHANGED timerfd_
  /\ UNCHANGED cancelingTimers_

\* What cancelInLoop() compares: the address alone would name another timer
\* once the address is used again.
HeldByAddress(id) == \E t \in activeTimers_ : t[1] = id[1]

Held(id) == id \in activeTimers_

cancelInLoop(id) ==
  /\ IF Held(id)
     THEN /\ timers_' = timers_ \ {Entry(timer, id[1])}
          /\ activeTimers_' = activeTimers_ \ {id}
          /\ timer' = Delete({id[1]})
          /\ UNCHANGED cancelingTimers_
     ELSE /\ cancelingTimers_' = IF callingExpiredTimers_
                                 THEN cancelingTimers_ \cup {id} ELSE cancelingTimers_
          /\ UNCHANGED <<timers_, activeTimers_, timer>>
  /\ cancelled' = cancelled \cup
       {<<id[2], id \in activeTimers_ \/
                 \E a \in expired : id = ActiveTimer(timer, a)>>}
  /\ UNCHANGED timerfd_

\* The calls of EventLoop that reach addTimer().
runAt(time) == [when |-> time, interval |-> 0]
runAfter(delay) == runAt(delay)
runEvery(interval) == [when |-> interval, interval |-> interval]

Requests == {runAfter(d) : d \in Delays} \cup {runEvery(i) : i \in Intervals}

\* new Timer, the part of addTimer() that runs in the calling thread.
Create(a, when, interval) ==
  /\ Up
  /\ s_numCreated_ < MaxCreated
  /\ a \notin DOMAIN timer
  /\ timer' = NewTimer(a, when, interval)
  /\ s_numCreated_' = s_numCreated_ + 1

\* addTimer() and cancel() in the loop's thread: from a timer callback, or
\* from another callback between two calls of handleRead().
AddTimer(a, when, interval) ==
  /\ Create(a, when, interval)
  /\ addTimerInLoop(timer', a)
  /\ ids' = ids \cup {ActiveTimer(timer', a)}
  /\ UNCHANGED <<handling, pendingFunctors_, returning, steps, fired, cancelled>>

Cancel(id) ==
  /\ Up
  /\ cancelInLoop(id)
  /\ UNCHANGED <<s_numCreated_, handling, pendingFunctors_, ids, returning, steps, fired>>

\* The same calls in another thread go through queueInLoop().
QueueAddTimer(a, when, interval) ==
  /\ Len(pendingFunctors_) < MaxPending
  /\ Create(a, when, interval)
  /\ pendingFunctors_' = Append(pendingFunctors_, <<"add", <<a, s_numCreated_ + 1>> >>)
  /\ returning' = returning \cup {<<a, s_numCreated_ + 1>>}
  /\ UNCHANGED <<queue, handling, ids, steps, fired, cancelled>>

\* addTimer() reads the sequence for the TimerId only now.  By then the Timer may be
\* deleted, and any value may be where it was; one that was never given out would
\* cancel nothing, as an old one does.
ReturnId(id) ==
  /\ id \in returning
  /\ returning' = returning \ {id}
  /\ \E s \in 1..s_numCreated_ :
       /\ id[1] \in DOMAIN timer => s = timer[id[1]].sequence
       /\ ids' = ids \cup {<<id[1], s>>}
  /\ UNCHANGED <<timer, s_numCreated_, queue, handling, pendingFunctors_, steps, fired,
                 cancelled>>

QueueCancel(id) ==
  /\ Up
  /\ Len(pendingFunctors_) < MaxPending
  /\ pendingFunctors_' = Append(pendingFunctors_, <<"cancel", id>>)
  /\ UNCHANGED <<timer, s_numCreated_, queue, handling, ids, returning, steps, fired, cancelled>>

\* doPendingFunctors() takes the next of them, once the events poll() reported
\* have been handled.
RunFunctor ==
  /\ Up /\ ~active /\ ~callingExpiredTimers_
  /\ pendingFunctors_ # << >>
  /\ pendingFunctors_' = Tail(pendingFunctors_)
  /\ LET f == Head(pendingFunctors_)
     IN  \/ /\ f[1] = "add"
            /\ addTimerInLoop(timer, f[2][1])
            /\ UNCHANGED <<timer, cancelled>>
         \/ f[1] = "cancel" /\ cancelInLoop(f[2])
  /\ UNCHANGED <<s_numCreated_, handling, ids, returning, steps, fired>>
-----------------------------------------------------------------------------
\* poll() returns with the timerfd readable; callbacks of other channels may
\* run before handleRead().
Poll ==
  /\ ~active /\ ~callingExpiredTimers_
  /\ timerfd_ = 0
  /\ active' = TRUE
  /\ UNCHANGED <<timer, s_numCreated_, queue, callingExpiredTimers_, expired, torun,
                 late, pendingFunctors_, ids, returning, steps, fired, cancelled>>

\* getExpired(now): the entries before the sentry <<now, UINTPTR_MAX>>.
getExpired == {e \in timers_ : e[1] <= 0}

\* The order of the set, in which their callbacks are called.
Precedes(e, f) == e[1] < f[1] \/ (e[1] = f[1] /\ e[2] <= f[2])

\* The read may find nothing after a timerfd_settime(); handleRead() goes on all
\* the same.
readTimerfd == timerfd_' = IF timerfd_ = 0 THEN Disarmed ELSE timerfd_

\* handleRead() up to the callbacks.
HandleRead ==
  /\ active
  /\ active' = FALSE
  /\ readTimerfd
  /\ late' = 0
  /\ expired' = {e[2] : e \in getExpired}
  /\ torun' = getExpired
  /\ timers_' = timers_ \ getExpired
  /\ activeTimers_' = activeTimers_ \ {ActiveTimer(timer, e[2]) : e \in getExpired}
  /\ callingExpiredTimers_' = TRUE
  /\ cancelingTimers_' = {}
  /\ UNCHANGED <<timer, s_numCreated_, pendingFunctors_, ids, returning, steps, fired, cancelled>>

\* The callback of the next expired timer; what it does to the queue are the
\* calls of AddTimer and Cancel before the following one.
RunCallback ==
  /\ callingExpiredTimers_
  /\ \E e \in torun :
       /\ \A f \in torun : Precedes(e, f)
       /\ torun' = torun \ {e}
       /\ fired' = fired \cup {timer[e[2]].sequence}
  /\ UNCHANGED <<timer, s_numCreated_, queue, callingExpiredTimers_, active, expired,
                 late, pendingFunctors_, ids, returning, steps, cancelled>>

RestartsIfRepeating(a) == timer[a].interval > 0

\* reset()'s condition for an expired timer.
Restarts(a) ==
  timer[a].interval > 0 /\ ActiveTimer(timer, a) \notin cancelingTimers_

\* Timer::restart(now), with the now of handleRead().
Restarted(a) == [timer[a] EXCEPT !.expiration = timer[a].interval - late]

RearmNever(entries) == UNCHANGED timerfd_

\* The end of reset(), with the timers that are then in the queue.
Rearm(entries) ==
  IF entries = {} THEN UNCHANGED timerfd_ ELSE resetTimerfd(Begin(entries)[1])

\* The callbacks are done; reset(expired, now).
Reset ==
  /\ callingExpiredTimers_
  /\ torun = {}
  /\ callingExpiredTimers_' = FALSE
  /\ expired' = {}
  /\ late' = 0
  /\ LET again == {a \in expired : Restarts(a)}
         h == [a \in DOMAIN timer \ (expired \ again) |->
                 IF a \in again THEN Restarted(a) ELSE timer[a]]
     IN  /\ timer' = h
         /\ insert(h, again)
         /\ Rearm(timers_')
  /\ UNCHANGED <<s_numCreated_, cancelingTimers_, active, torun, pendingFunctors_, ids, returning,
                 steps, fired, cancelled>>

DestroyKeepsTimers ==
  /\ Up /\ ~active /\ ~callingExpiredTimers_
  /\ timers_' = {} /\ activeTimers_' = {} /\ cancelingTimers_' = {}
  /\ timerfd_' = Closed
  /\ UNCHANGED <<timer, s_numCreated_, handling, pendingFunctors_, ids, returning, steps,
                 fired, cancelled>>

\* The destructor, once the loop has ended; functors that wait then never run, and
\* the Timers they hold are not deleted.
Destroy ==
  /\ Up /\ ~active /\ ~callingExpiredTimers_
  /\ timer' = Delete({e[2] : e \in timers_})
  /\ timers_' = {} /\ activeTimers_' = {} /\ cancelingTimers_' = {}
  /\ timerfd_' = Closed
  /\ UNCHANGED <<s_numCreated_, handling, pendingFunctors_, ids, returning, steps, fired,
                 cancelled>>
-----------------------------------------------------------------------------
\* The wall clock advances by d; how much later than MaxLate is not told apart.
Earlier(when, d) == IF when - d < -MaxLate THEN -MaxLate ELSE when - d

Shift(d) ==
  /\ timer' = [a \in DOMAIN timer |->
                 [timer[a] EXCEPT !.expiration = Earlier(timer[a].expiration, d)]]
  /\ timers_' = {<<Earlier(e[1], d), e[2]>> : e \in timers_}
  /\ late' = IF callingExpiredTimers_ THEN -Earlier(-late, d) ELSE 0
  /\ UNCHANGED <<s_numCreated_, activeTimers_, cancelingTimers_, callingExpiredTimers_,
                 active, expired, torun, pendingFunctors_, ids, returning, fired, cancelled>>

Tick ==
  /\ Shift(1)
  /\ timerfd_' = IF timerfd_ > 0 THEN timerfd_ - 1 ELSE timerfd_
  /\ UNCHANGED steps

\* settimeofday(): the timerfd does not follow.
SetClock ==
  /\ steps < MaxSteps
  /\ steps' = steps + 1
  /\ \E d \in {-1, 1} : Shift(d)
  /\ UNCHANGED timerfd_

Init ==
  /\ timer = [a \in {} |-> a]
  /\ s_numCreated_ = 0
  /\ timers_ = {} /\ activeTimers_ = {} /\ cancelingTimers_ = {}
  /\ timerfd_ = Disarmed
  /\ callingExpiredTimers_ = FALSE /\ active = FALSE
  /\ expired = {} /\ torun = {} /\ late = 0
  /\ pendingFunctors_ = << >>
  /\ ids = {} /\ returning = {}
  /\ steps = 0
  /\ fired = {} /\ cancelled = {}

Next ==
  \/ \E a \in Addrs, r \in Requests :
       AddTimer(a, r.when, r.interval) \/ QueueAddTimer(a, r.when, r.interval)
  \/ \E id \in returning : ReturnId(id)
  \/ \E id \in ids : Cancel(id) \/ QueueCancel(id)
  \/ RunFunctor \/ Poll \/ HandleRead \/ RunCallback \/ Reset
  \/ Destroy
  \/ Tick \/ SetClock

Spec == Init /\ [][Next]_vars

\* Time passes, and the loop's thread goes on with what it has to do.  Every
\* iteration of loop() runs the functors queued before it, however often the
\* timerfd is readable: this is QueuedRuns of EventLoop.tla.
Fairness ==
  /\ WF_vars(Tick)
  /\ SF_vars(RunFunctor)
  /\ WF_vars(Poll) /\ WF_vars(HandleRead) /\ WF_vars(RunCallback) /\ WF_vars(Reset)

FairSpec == Spec /\ Fairness
-----------------------------------------------------------------------------
TypeOK ==
  /\ DOMAIN timer \subseteq Addrs
  /\ \A a \in DOMAIN timer :
       timer[a] \in [expiration : Int, interval : Intervals \cup {0}, sequence : 1..MaxCreated]
  /\ s_numCreated_ \in 0..MaxCreated
  /\ timers_ \subseteq Int \X Addrs
  /\ activeTimers_ \subseteq Addrs \X (1..MaxCreated)
  /\ cancelingTimers_ \subseteq Addrs \X (1..MaxCreated)
  /\ timerfd_ \in Int /\ timerfd_ >= Closed
  /\ callingExpiredTimers_ \in BOOLEAN /\ active \in BOOLEAN
  /\ expired \subseteq Addrs
  /\ torun \subseteq Int \X expired
  /\ late \in Int
  /\ pendingFunctors_ \in Seq({"add", "cancel"} \X (Addrs \X (1..MaxCreated)))
  /\ ids \subseteq Addrs \X (1..MaxCreated) /\ returning \subseteq Addrs \X (1..MaxCreated)

\* timers_ and activeTimers_ hold the same timers, each under its present
\* expiration and sequence: the assertions on their sizes, on erase() in
\* getExpired() and cancelInLoop(), and on insert().  (With the types.)
InStep ==
  TypeOK /\ \E as \in SUBSET DOMAIN timer :
    /\ timers_ = {Entry(timer, a) : a \in as}
    /\ activeTimers_ = {ActiveTimer(timer, a) : a \in as}

\* Every Timer on the heap has exactly one owner, the queue, the vector of
\* handleRead() or a functor on its way to the loop, and none of them holds
\* a deleted one: nothing leaks, nothing is deleted twice.
Queued == {a \in DOMAIN timer : Entry(timer, a) \in timers_}
Coming == {pendingFunctors_[i][2][1] :
             i \in {j \in DOMAIN pendingFunctors_ : pendingFunctors_[j][1] = "add"}}
OwnedOnce ==
  /\ DOMAIN timer = Queued \cup expired \cup Coming
  /\ Queued \cap expired = {} /\ Queued \cap Coming = {} /\ expired \cap Coming = {}
  /\ \A e \in timers_ : e[2] \in DOMAIN timer

\* Outside handleRead() the timerfd is armed while a timer waits, and unless
\* the wall clock was set it is due no later than the earliest of them.
TimerfdArmed ==
  ~callingExpiredTimers_ /\ timers_ # {} =>
    /\ timerfd_ # Disarmed \/ active
    /\ steps = 0 => timerfd_ <= howMuchTimeFromNow(Begin(timers_)[1])

\* A timer that was cancelled while the queue or handleRead() had it, even in
\* its own callback, is never in the queue again; nor is one that does not
\* repeat and has run.
NeverAgain ==
  \A id \in activeTimers_ :
    /\ <<id[2], TRUE>> \notin cancelled
    /\ id[2] \in fired => timer[id[1]].interval > 0

\* EventLoop.h: "Cancels the timer. Safe to call from other threads."
CancelHolds ==
  \A id \in activeTimers_ : \A held \in BOOLEAN : <<id[2], held>> \notin cancelled

\* EventLoop.h of runAfter() and runEvery(): "Safe to call from other threads."  The
\* TimerId returned is that of the timer added.
IdsTrue == [][\A id \in returning \ returning' : id \in ids']_vars

\* A timer that is added and not cancelled runs while the queue lives, also when it was added from
\* a callback, behind timers that expire later, or the clock was set.
TimerRuns ==
  \A s \in 1..MaxCreated :
    s_numCreated_ = s ~> s \in fired \/ <<s, TRUE>> \in cancelled \/ ~Up
=============================================================================
