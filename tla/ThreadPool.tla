----------------------------- MODULE ThreadPool -----------------------------
(***************************************************************************)
(* base/ThreadPool.cpp with base/Thread.cpp, base/CountDownLatch.cpp,      *)
(* base/Mutex.h and base/Condition.h; and, as the same monitor without the *)
(* threads, base/BlockingQueue.h and base/BoundedBlockingQueue.h.          *)
(*                                                                         *)
(* Producers call run() or put(); workers take() and, in the pool, run     *)
(* tasks; the owner starts the pool, stops it and joins its threads.  Every *)
(* critical section takes the mutex in one step and does its work in the   *)
(* next; a thread in a set of sleeping wants the mutex again when it is    *)
(* woken, notified or not, and then tests its condition again.             *)
(*                                                                         *)
(* Tasks are numbered in the order in which they enter queue_.             *)
(***************************************************************************)
EXTENDS Integers, Sequences, Functions

CONSTANTS NumThreads,   \* threads of a pool, or consumers
          Producers,
          Owner,        \* the thread that owns the pool
          Nobody,       \* holder_ = 0
          Kinds,        \* which of "pool", "queue" and "bounded" are instantiated
          MaxSizes,     \* the values of maxQueueSize_, and capacities
          MaxTasks,     \* bound: calls of run() or put()
          MaxSpurious   \* bound: spurious wakeups

ASSUME PoolAssumption ==
  /\ Kinds \subseteq {"pool", "queue", "bounded"}
  /\ MaxSizes \subseteq Nat /\ MaxTasks \in Nat /\ MaxSpurious \in Nat
  /\ NumThreads \in Nat
  /\ Nobody \notin 1..NumThreads \cup Producers \cup {Owner}
  /\ Owner \notin 1..NumThreads \cup Producers
  /\ Producers \cap 1..NumThreads = {}

VARIABLES kind, maxQueueSize_,
          threads_,     \* threads of the pool that were started
          running_, queue_,
          holder_,      \* of mutex_
          sleeping,     \* the threads that wait for each condition
          count_,       \* of the latch of each Thread
          pc, joined,
          spurious,     \* spurious wakeups so far
          calls,        \* calls of run() or put() so far
          pushed, taken \* tasks pushed, and taken in this order

shape == <<kind, maxQueueSize_>>
data == <<threads_, running_, queue_>>
monitor == <<holder_, sleeping>>
start == <<count_, joined>>
history == <<calls, spurious, pushed, taken>>
vars == <<shape, data, monitor, start, pc, history>>

Workers == 1..NumThreads
Threads == Workers \cup Producers \cup {Owner}
Conditions == {"notEmpty_", "notFull_", "latch_"}
Stopped == kind = "pool" /\ pc[Owner] \in {"join", "stopped"}
-----------------------------------------------------------------------------
(* Mutex.h and Condition.h.                                                *)

Asleep(t) == \E c \in Conditions : t \in sleeping[c]

\* MutexLockGuard: thread t gets the mutex and goes from at to in.
Lock(t, at, in) ==
  /\ pc[t] = at /\ ~Asleep(t) /\ holder_ = Nobody
  /\ holder_' = t
  /\ pc' = [pc EXCEPT ![t] = in]
  /\ UNCHANGED <<shape, data, sleeping, start, history>>

\* wait(): the mutex is free while the thread sleeps; it goes on at back.
Wait(t, c, back) ==
  /\ holder_' = Nobody
  /\ sleeping' = [sleeping EXCEPT ![c] = @ \cup {t}]
  /\ pc' = [pc EXCEPT ![t] = back]

NotifyNot(c) == {sleeping[c]}

\* What notify() may leave sleeping.
Notified(c) == IF sleeping[c] = {} THEN {{}} ELSE {sleeping[c] \ {t} : t \in sleeping[c]}

\* The end of a critical section of t that notified the condition c.
UnlockNotifying(t, c) ==
  /\ holder_' = Nobody
  /\ \E s \in Notified(c) : sleeping' = [sleeping EXCEPT ![c] = s]

Unlock(t) == holder_' = Nobody /\ UNCHANGED sleeping

SpuriousWakeup(t, c) ==
  /\ t \in sleeping[c] /\ spurious < MaxSpurious
  /\ spurious' = spurious + 1
  /\ sleeping' = [sleeping EXCEPT ![c] = @ \ {t}]
  /\ UNCHANGED <<shape, data, holder_, start, pc, calls, pushed, taken>>
-----------------------------------------------------------------------------
(* run() and put().                                                        *)

isFull ==
  /\ kind # "queue"
  /\ kind = "pool" => maxQueueSize_ > 0
  /\ Len(queue_) >= maxQueueSize_

\* A call begins.  Not while start() is still filling threads_.
Call(p) ==
  /\ pc[p] = "idle" /\ calls < MaxTasks
  /\ pc[Owner] \in {"new", "up", "stopping", "join", "stopped"}
  /\ calls' = calls + 1
  /\ IF kind = "pool" /\ threads_ = 0
     THEN UNCHANGED pc                           \* the caller runs the task itself
     ELSE pc' = [pc EXCEPT ![p] = "put"]
  /\ UNCHANGED <<shape, data, monitor, start, spurious, pushed, taken>>

Put(p) ==
  /\ pc[p] = "putting"
  /\ IF isFull
     THEN Wait(p, "notFull_", "put") /\ UNCHANGED <<queue_, pushed>>
     ELSE /\ pushed' = pushed + 1
          /\ queue_' = Append(queue_, pushed + 1)
          /\ UnlockNotifying(p, "notEmpty_")
          /\ pc' = [pc EXCEPT ![p] = "idle"]
  /\ UNCHANGED <<shape, threads_, running_, start, calls, spurious, taken>>
-----------------------------------------------------------------------------
(* take() and runInThread().                                               *)

MustWait == queue_ = << >> /\ (kind = "pool" => running_)

WakesProducers == kind = "bounded" \/ (kind = "pool" /\ maxQueueSize_ > 0)

TakesLast == <<queue_[Len(queue_)], SubSeq(queue_, 1, Len(queue_) - 1)>>

\* The task that is taken, and what stays in queue_.
TakesFirst == <<Head(queue_), Tail(queue_)>>

Take(w) ==
  /\ pc[w] = "taking"
  /\ \/ /\ MustWait
        /\ Wait(w, "notEmpty_", "take")
        /\ UNCHANGED <<queue_, taken>>
     \/ /\ queue_ # << >>
        /\ taken' = Append(taken, TakesFirst[1])
        /\ queue_' = TakesFirst[2]
        /\ IF WakesProducers THEN UnlockNotifying(w, "notFull_") ELSE Unlock(w)
        /\ pc' = [pc EXCEPT ![w] = "run"]
     \/ /\ queue_ = << >> /\ ~MustWait           \* an empty task
        /\ Unlock(w)
        /\ pc' = [pc EXCEPT ![w] = "loop"]
        /\ UNCHANGED <<queue_, taken>>
  /\ UNCHANGED <<shape, threads_, running_, start, calls, spurious, pushed>>

\* The test of while (running_), without the mutex.
Loop(w) ==
  /\ pc[w] = "loop"
  /\ pc' = [pc EXCEPT ![w] = IF kind = "pool" /\ ~running_ THEN "done" ELSE "take"]
  /\ UNCHANGED <<shape, data, monitor, start, history>>

\* The task returns.
Ran(w) ==
  /\ pc[w] = "run"
  /\ pc' = [pc EXCEPT ![w] = "loop"]
  /\ UNCHANGED <<shape, data, monitor, start, history>>
-----------------------------------------------------------------------------
(* Thread and CountDownLatch.  The latch's own mutex makes each of its     *)
(* methods one step.                                                       *)

countDownQuietly(w) ==
  /\ count_' = [count_ EXCEPT ![w] = @ - 1]
  /\ UNCHANGED sleeping

countDown(w) ==
  /\ count_' = [count_ EXCEPT ![w] = @ - 1]
  /\ sleeping' = IF count_[w] = 1 THEN [sleeping EXCEPT !["latch_"] = {}] ELSE sleeping

\* ThreadData::runInThread() up to the call of func_.
RunInThread(w) ==
  /\ pc[w] = "born"
  /\ countDown(w)
  /\ pc' = [pc EXCEPT ![w] = "loop"]
  /\ UNCHANGED <<shape, data, holder_, joined, history>>

\* Thread::start() of the next thread of the pool, up to latch_.wait().
StartThread ==
  /\ pc[Owner] = "starting" /\ threads_ < NumThreads
  /\ threads_' = threads_ + 1
  /\ pc' = [pc EXCEPT ![Owner] = "latch", ![threads_ + 1] = "born"]
  /\ UNCHANGED <<shape, running_, queue_, monitor, start, history>>

LatchWait ==
  /\ pc[Owner] = "latch" /\ ~Asleep(Owner)
  /\ IF count_[threads_] > 0
     THEN sleeping' = [sleeping EXCEPT !["latch_"] = {Owner}] /\ UNCHANGED pc
     ELSE pc' = [pc EXCEPT ![Owner] = "starting"] /\ UNCHANGED sleeping
  /\ UNCHANGED <<shape, data, holder_, start, history>>
-----------------------------------------------------------------------------
(* start() and stop() of the pool; the destructor calls stop() if the pool *)
(* is running.                                                             *)

\* start(0) starts no thread.
Start ==
  /\ pc[Owner] = "new" /\ kind = "pool"
  /\ running_' = TRUE
  /\ \E to \in {"starting", "up"} : pc' = [pc EXCEPT ![Owner] = to]
  /\ UNCHANGED <<shape, threads_, queue_, monitor, start, history>>

Started ==
  /\ pc[Owner] = "starting" /\ threads_ = NumThreads
  /\ pc' = [pc EXCEPT ![Owner] = "up"]
  /\ UNCHANGED <<shape, data, monitor, start, history>>

NotifyOne == {w \in sleeping["notEmpty_"] : \E v \in sleeping["notEmpty_"] : v < w}

\* Those who sleep on notEmpty_ after the notifyAll() of stop().
LeftAsleep == {}

Stop ==
  /\ pc[Owner] = "stopping"
  /\ running_' = FALSE
  /\ sleeping' = [sleeping EXCEPT !["notEmpty_"] = LeftAsleep]
  /\ holder_' = Nobody
  /\ pc' = [pc EXCEPT ![Owner] = "join"]
  /\ UNCHANGED <<shape, threads_, queue_, start, history>>

Join ==
  /\ pc[Owner] = "join" /\ joined < threads_ /\ pc[joined + 1] = "done"
  /\ joined' = joined + 1
  /\ UNCHANGED <<shape, data, monitor, count_, pc, history>>

Joined ==
  /\ pc[Owner] = "join" /\ joined = threads_
  /\ pc' = [pc EXCEPT ![Owner] = "stopped"]
  /\ UNCHANGED <<shape, data, monitor, start, history>>
-----------------------------------------------------------------------------
Init ==
  /\ kind \in Kinds /\ maxQueueSize_ \in MaxSizes
  /\ kind = "bounded" => maxQueueSize_ > 0
  /\ threads_ = 0 /\ running_ = FALSE /\ queue_ = << >>
  /\ holder_ = Nobody /\ sleeping = [c \in Conditions |-> {}]
  /\ count_ = [w \in Workers |-> 1] /\ joined = 0
  /\ pc = [t \in Threads |-> CASE t = Owner -> IF kind = "pool" THEN "new" ELSE "up"
                               [] t \in Producers -> "idle"
                               [] t \in Workers -> IF kind = "pool" THEN "none" ELSE "loop"]
  /\ calls = 0 /\ spurious = 0 /\ pushed = 0 /\ taken = << >>

Worker(w) ==
  \/ RunInThread(w) \/ Loop(w) \/ Lock(w, "take", "taking") \/ Take(w) \/ Ran(w)

Produce(p) == Lock(p, "put", "putting") \/ Put(p)

BeginStop == kind = "pool" /\ Lock(Owner, "up", "stopping")

Own == StartThread \/ LatchWait \/ Started \/ Stop \/ Join \/ Joined

Next ==
  \/ \E w \in Workers : Worker(w)
  \/ \E p \in Producers : Call(p) \/ Produce(p)
  \/ Start \/ BeginStop \/ Own
  \/ \E t \in Threads, c \in Conditions : SpuriousWakeup(t, c)

\* Every thread that can go on does, and tasks return.  Nothing relies on a
\* spurious wakeup or on who gets the mutex, and the program need not start or
\* stop the pool.
Fairness ==
  /\ \A w \in Workers : WF_vars(Worker(w))
  /\ \A p \in Producers : WF_vars(Produce(p))
  /\ WF_vars(Own)

Spec == Init /\ [][Next]_vars /\ Fairness
-----------------------------------------------------------------------------
\* The mutex is held exactly by the thread that is inside a critical section, so
\* that the assertLocked() of isFull() holds also after a wait().
InCritical(t) == pc[t] \in {"putting", "taking", "stopping"}

TypeOK ==
  /\ \A t \in Threads : InCritical(t) <=> holder_ = t
  /\ \A t \in Threads : Asleep(t) => pc[t] \in {"put", "take", "latch"}

\* Tasks are taken once each, in the order in which they entered the queue, and
\* what is neither taken nor lost is still in it; the queue never grows past its
\* bound, for which put() and run() wait; and mutex_ has one holder.
InOrder ==
  /\ TypeOK
  /\ taken \o queue_ = [i \in 1..pushed |-> i]
  /\ kind = "bounded" \/ (kind = "pool" /\ maxQueueSize_ > 0)
       => Len(queue_) <= maxQueueSize_

\* No wakeup is lost: as long as the pool is not stopped a task in the queue is
\* taken, and a call of run() or put() that found the queue full returns.  (After
\* stop() neither holds: a task may stay in the queue, and a run() that waits for
\* room is never woken.)
Served ==
  /\ \A i \in 1..MaxTasks :
       (i \in Range(queue_)) ~> (i \in Range(taken) \/ Stopped)
  /\ \A p \in Producers : (pc[p] # "idle") ~> (pc[p] = "idle" \/ Stopped)

\* Once stop() has returned, no thread of the pool runs a task or will run one.
QuietAfterStop ==
  pc[Owner] = "stopped" => \A w \in Workers : pc[w] \in {"none", "done"}

\* start() and stop() return: the owner meets every thread at its latch and joins
\* every thread, however many tasks or sleepers there are; and once stop() has
\* returned no thread runs a task.
StartsAndStops ==
  /\ (pc[Owner] = "starting") ~> (pc[Owner] = "up")
  /\ (pc[Owner] = "stopping") ~> (pc[Owner] = "stopped")
  /\ []QuietAfterStop
=============================================================================
