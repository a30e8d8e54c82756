----------------------------- MODULE EventLoop ------------------------------
(***************************************************************************)
(* net/EventLoop.cpp: the loop thread alternates between poll(), the       *)
(* handlers of the active channels and the pending functors, while any     *)
(* thread may call queueInLoop(), runInLoop() and quit().                  *)
(*                                                                         *)
(* pc is the loop thread's place in loop(): "idle" outside loop(), "while" *)
(* at the test of quit_, "poll" in poller_->poll(), "handle" in the loop   *)
(* over activeChannels_, "io" inside a channel's user callback, "swap" and *)
(* "run" in doPendingFunctors(), "functor" inside a functor.  User code    *)
(* runs on the loop thread at "idle", "io" and "functor"; elsewhere it     *)
(* belongs to the library.  The eventfd counter is abstracted to zero or   *)
(* not zero, and a functor to its identity: it is handed over once.        *)
(***************************************************************************)
EXTENDS Sequences, Functions

CONSTANTS LoopThread,   \* the thread that created the loop (threadId_)
          Threads,      \* the other threads that hold a pointer to it
          Functors      \* the callbacks; their number bounds the calls

ASSUME ThreadsAssumption == LoopThread \notin Threads

VARIABLES pc,
          looping_,
          quit_,
          callingPendingFunctors_,
          activeChannels_,      \* channels poll() returned, not yet handled
          pendingFunctors_,
          functors,             \* the local of doPendingFunctors()
          wakeupFd_,            \* the eventfd is readable
          call,                 \* where a thread is in a call: see Calls
          ran,                  \* history: functors in the order they ran
          early                 \* history: queued by the loop thread outside loop()

vars == <<pc, looping_, quit_, callingPendingFunctors_, activeChannels_,
          pendingFunctors_, functors, wakeupFd_, call, ran, early>>

loopVars == <<looping_, callingPendingFunctors_, activeChannels_, functors>>

Places == {"idle", "while", "poll", "handle", "io", "swap", "run", "functor"}
UserCode == {"idle", "io", "functor"}
AllThreads == Threads \cup {LoopThread}

\* A thread is outside the loop's methods, or has done the first half of
\* queueInLoop() or quit() and still has to call wakeup().
Calls == {"none", "wakeup"}

\* The wakeup channel, and one channel standing for all the others.
Channels == {"wakeup", "other"}

\* A functor object is created once and handed over once.
Used == Range(ran) \cup Range(functors) \cup Range(pendingFunctors_)
-----------------------------------------------------------------------------
(***************************************************************************)
(* The loop thread.                                                        *)
(***************************************************************************)
Init ==
  /\ pc = "idle"
  /\ looping_ = FALSE
  /\ quit_ = FALSE
  /\ callingPendingFunctors_ = FALSE
  /\ activeChannels_ = {}
  /\ pendingFunctors_ = << >>
  /\ functors = << >>
  /\ wakeupFd_ = FALSE
  /\ call = [t \in AllThreads |-> "none"]
  /\ ran = << >>
  /\ early = {}

\* The loop thread is not inside queueInLoop() and stands at p.
At(p) == pc = p /\ call[LoopThread] = "none"

\* loop() up to its while: quit_ is cleared, whoever set it.
Loop ==
  /\ At("idle")
  /\ looping_' = TRUE
  /\ quit_' = FALSE
  /\ pc' = "while"
  /\ UNCHANGED <<callingPendingFunctors_, activeChannels_, pendingFunctors_,
                 functors, wakeupFd_, call, ran, early>>

\* while (!quit_), and activeChannels_.clear().
WhileTest ==
  /\ At("while")
  /\ IF quit_ THEN pc' = "idle" /\ looping_' = FALSE
              ELSE pc' = "poll" /\ looping_' = looping_
  /\ activeChannels_' = {}
  /\ UNCHANGED <<quit_, callingPendingFunctors_, pendingFunctors_, functors,
                 wakeupFd_, call, ran, early>>

\* poll() returns some of the ready channels; none when it times out after
\* kPollTimeMs or is interrupted.
Poll(active) ==
  /\ At("poll")
  /\ "wakeup" \in active => wakeupFd_
  /\ activeChannels_' = active
  /\ pc' = "handle"
  /\ UNCHANGED <<looping_, quit_, callingPendingFunctors_, pendingFunctors_,
                 functors, wakeupFd_, call, ran, early>>

\* handleEvent() of the wakeup channel: handleRead() empties the eventfd.
HandleRead ==
  /\ At("handle")
  /\ "wakeup" \in activeChannels_
  /\ activeChannels_' = activeChannels_ \ {"wakeup"}
  /\ wakeupFd_' = FALSE
  /\ UNCHANGED <<pc, looping_, quit_, callingPendingFunctors_,
                 pendingFunctors_, functors, call, ran, early>>

\* handleEvent() of another channel enters user code.
HandleEvent ==
  /\ At("handle")
  /\ "other" \in activeChannels_
  /\ activeChannels_' = activeChannels_ \ {"other"}
  /\ pc' = "io"
  /\ UNCHANGED <<looping_, quit_, callingPendingFunctors_, pendingFunctors_,
                 functors, wakeupFd_, call, ran, early>>

\* The user code called by handleEvent() or by a functor returns.
Return ==
  /\ \/ At("io") /\ pc' = "handle"
     \/ At("functor") /\ pc' = "run"
  /\ UNCHANGED <<quit_, pendingFunctors_, wakeupFd_, call, ran, early>>
  /\ UNCHANGED loopVars

\* doPendingFunctors() begins when every active channel has been handled.
EnterFunctors ==
  /\ At("handle")
  /\ activeChannels_ = {}
  /\ callingPendingFunctors_' = TRUE
  /\ pc' = "swap"
  /\ UNCHANGED <<looping_, quit_, activeChannels_, pendingFunctors_, functors,
                 wakeupFd_, call, ran, early>>

SwapFunctorsCopies ==
  /\ At("swap")
  /\ functors' = pendingFunctors_
  /\ pc' = "run"
  /\ UNCHANGED <<looping_, quit_, callingPendingFunctors_, activeChannels_,
                 pendingFunctors_, wakeupFd_, call, ran, early>>

\* The critical section of doPendingFunctors().
SwapFunctors ==
  /\ At("swap")
  /\ functors' = pendingFunctors_
  /\ pendingFunctors_' = << >>
  /\ pc' = "run"
  /\ UNCHANGED <<looping_, quit_, callingPendingFunctors_, activeChannels_,
                 wakeupFd_, call, ran, early>>

RunFunctor ==
  /\ At("run")
  /\ functors # << >>
  /\ ran' = Append(ran, Head(functors))
  /\ functors' = Tail(functors)
  /\ pc' = "functor"
  /\ UNCHANGED <<looping_, quit_, callingPendingFunctors_, activeChannels_,
                 pendingFunctors_, wakeupFd_, call, early>>

\* doPendingFunctors() returns.
LeaveFunctors ==
  /\ At("run")
  /\ functors = << >>
  /\ callingPendingFunctors_' = FALSE
  /\ pc' = "while"
  /\ UNCHANGED <<looping_, quit_, activeChannels_, pendingFunctors_, functors,
                 wakeupFd_, call, ran, early>>
-----------------------------------------------------------------------------
(***************************************************************************)
(* Calls, by any thread that runs user code.                               *)
(***************************************************************************)
CanCall(t) ==
  /\ call[t] = "none"
  /\ t = LoopThread => pc \in UserCode

NeedsWakeupOtherThreadOnly(t) == t # LoopThread

NeedsWakeupLoopThreadOnly(t) == t = LoopThread /\ callingPendingFunctors_

\* The condition under which queueInLoop() wakes the loop.
\* callingPendingFunctors_ is only read by the loop thread, which owns it.
NeedsWakeup(t) == t # LoopThread \/ callingPendingFunctors_

\* queueInLoop(): push under the mutex, then decide whether to wake the loop.
QueueInLoop(t, f) ==
  /\ CanCall(t)
  /\ f \notin Used
  /\ pendingFunctors_' = Append(pendingFunctors_, f)
  /\ call' = [call EXCEPT ![t] = IF NeedsWakeup(t) THEN "wakeup" ELSE "none"]
  /\ early' = IF t = LoopThread /\ pc = "idle" THEN early \cup {f} ELSE early
  /\ UNCHANGED <<pc, quit_, wakeupFd_, ran>>
  /\ UNCHANGED loopVars

\* runInLoop() on the loop thread: the functor runs inside the call.
RunHere(f) ==
  /\ CanCall(LoopThread)
  /\ f \notin Used
  /\ ran' = Append(ran, f)
  /\ UNCHANGED <<pc, quit_, pendingFunctors_, wakeupFd_, call, early>>
  /\ UNCHANGED loopVars

RunInLoop(t, f) == IF t = LoopThread THEN RunHere(f) ELSE QueueInLoop(t, f)

QuitNeedsNoWakeup(t) == FALSE

\* quit() wakes the loop unless the loop thread itself is the caller.
QuitNeedsWakeup(t) == t # LoopThread

\* quit() up to its call of wakeup().
Quit(t) ==
  /\ CanCall(t)
  /\ quit_' = TRUE
  /\ call' = [call EXCEPT ![t] = IF QuitNeedsWakeup(t) THEN "wakeup" ELSE "none"]
  /\ UNCHANGED <<pc, pendingFunctors_, wakeupFd_, ran, early>>
  /\ UNCHANGED loopVars

\* wakeup(), the last thing queueInLoop() and quit() do.
Wakeup(t) ==
  /\ call[t] = "wakeup"
  /\ wakeupFd_' = TRUE
  /\ call' = [call EXCEPT ![t] = "none"]
  /\ UNCHANGED <<pc, quit_, pendingFunctors_, ran, early>>
  /\ UNCHANGED loopVars
-----------------------------------------------------------------------------
\* The steps the loop thread takes by itself once it is in loop().
LoopStep ==
  \/ WhileTest \/ HandleRead \/ HandleEvent \/ Return
  \/ EnterFunctors \/ SwapFunctors \/ RunFunctor \/ LeaveFunctors

CallStep(t) ==
  \/ Quit(t)
  \/ Wakeup(t)
  \/ \E f \in Functors : QueueInLoop(t, f) \/ RunInLoop(t, f)

Next ==
  \/ Loop
  \/ LoopStep
  \/ \E active \in SUBSET Channels : Poll(active)
  \/ \E t \in AllThreads : CallStep(t)

Spec == Init /\ [][Next]_vars

\* The scheduler runs every thread, user callbacks return, and poll() returns
\* when the eventfd is readable.  Nothing is assumed of poll()'s timeout, of
\* other channels becoming ready, or of anybody calling loop() or quit().
Fairness ==
  /\ WF_vars(LoopStep)
  /\ WF_vars(\E active \in SUBSET Channels : "wakeup" \in active /\ Poll(active))
  /\ \A t \in AllThreads : WF_vars(Wakeup(t))

FairSpec == Spec /\ Fairness
-----------------------------------------------------------------------------
\* The state EventLoop.h declares, and its agreement with the loop thread's
\* place: looping_ (so loop()'s assertion holds), callingPendingFunctors_ and
\* the two work lists are what the code at that place relies on.
TypeOK ==
  /\ pc \in Places
  /\ looping_ \in BOOLEAN
  /\ quit_ \in BOOLEAN
  /\ callingPendingFunctors_ \in BOOLEAN
  /\ activeChannels_ \in SUBSET Channels
  /\ pendingFunctors_ \in Seq(Functors)
  /\ functors \in Seq(Functors)
  /\ wakeupFd_ \in BOOLEAN
  /\ call \in [AllThreads -> Calls]
  /\ ran \in Seq(Functors)
  /\ early \in SUBSET Functors
  /\ looping_ <=> pc # "idle"
  /\ callingPendingFunctors_ <=> pc \in {"swap", "run", "functor"}
  /\ functors # << >> => pc \in {"run", "functor"}
  /\ activeChannels_ # {} => pc \in {"handle", "io"}
  /\ call[LoopThread] # "none" => pc = "functor"

\* The eventfd is readable, or a thread is about to write it.
Signalled == wakeupFd_ \/ \E t \in AllThreads : call[t] = "wakeup"

\* The loop never waits in poll() over a functor that nobody will wake it for:
\* whatever another thread, a functor or a channel callback queued, either
\* doPendingFunctors() has taken it or the eventfd is, or is about to be,
\* readable.  The functors the loop thread queued outside loop() are exempt,
\* for queueInLoop() writes no wakeup for them.
NoLostWakeup ==
  pc = "poll" /\ ~(Range(pendingFunctors_) \subseteq early) => Signalled

\* A thread that called quit() and returned has either stopped the loop or left
\* it a reason to leave poll(): the loop cannot sleep on with quit_ set.
NoLostQuit == pc = "poll" /\ quit_ => Signalled

\* Queued functors run in the order of their pushes, each exactly once, even
\* when the batch being run, new pushes and runInLoop() calls interleave.
Exec == INSTANCE Executor WITH waiting <- functors \o pendingFunctors_
FifoExecution == Exec!Spec

\* A functor queued while the loop runs is run, or the loop is told to quit,
\* without the help of poll()'s timeout or of other channels.
QueuedRuns ==
  \A f \in Functors :
    (looping_ /\ f \in Range(pendingFunctors_) \ early)
       ~> (f \in Range(ran) \/ quit_)

\* Once quit() has been called on a running loop, loop() returns.
QuitStopsLoop == (looping_ /\ quit_) ~> ~looping_
=============================================================================
