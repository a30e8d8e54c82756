-------------------------- MODULE EventLoopThread ---------------------------
(***************************************************************************)
(* net/EventLoopThread.cpp composed with the event loop it runs: the owner *)
(* starts a thread, waits until the thread has published its loop, uses    *)
(* the loop, and destroys the EventLoopThread, which quits and joins.      *)
(*                                                                         *)
(* The owner is one of the loop's client threads.  The loop object lives   *)
(* on the stack of threadFunc(): it exists while thread is neither "none"  *)
(* nor "exited".  A store to a loop that is gone changes nothing here.     *)
(***************************************************************************)
EXTENDS EventLoop

CONSTANT Owner          \* the thread that owns the EventLoopThread

ASSUME OwnerAssumption == Owner \in Threads

VARIABLES loop_,        \* EventLoopThread::loop_ is not NULL
          thread,       \* where threadFunc() is
          owner         \* where the owner is

threadVars == <<loop_, thread, owner>>
allVars == <<vars, threadVars>>

\* "init": constructing the loop and running callback_; "published": loop_ is
\* set, loop() not yet called; "running": in loop(); "left": loop_ cleared.
ThreadPlaces == {"none", "init", "published", "running", "left", "exited"}

\* "startLoop": at the test of loop_; "waiting": in cond_.wait(); "using": has
\* the loop's address; "quit", "join": in the destructor; "gone": after it.
OwnerPlaces == {"new", "startLoop", "waiting", "using", "quit", "join", "gone"}

ThreadInit ==
  /\ Init
  /\ loop_ = FALSE
  /\ thread = "none"
  /\ owner = "new"
-----------------------------------------------------------------------------
\* startLoop() up to its critical section.
StartLoop ==
  /\ owner = "new"
  /\ thread' = "init"
  /\ owner' = "startLoop"
  /\ UNCHANGED <<vars, loop_>>

\* while (loop_ == NULL) cond_.wait(), one test under the mutex.
AwaitLoop ==
  /\ owner = "startLoop"
  /\ owner' = IF loop_ THEN "using" ELSE "waiting"
  /\ UNCHANGED <<vars, loop_, thread>>

PublishNoNotify ==
  /\ thread = "init"
  /\ call[LoopThread] = "none"
  /\ loop_' = TRUE
  /\ thread' = "published"
  /\ UNCHANGED <<vars, owner>>

\* threadFunc() after callback_: publish the loop and notify.
Publish ==
  /\ thread = "init"
  /\ call[LoopThread] = "none"
  /\ loop_' = TRUE
  /\ owner' = IF owner = "waiting" THEN "startLoop" ELSE owner
  /\ thread' = "published"
  /\ UNCHANGED vars

\* loop.loop().
EnterLoop ==
  /\ thread = "published"
  /\ Loop
  /\ thread' = "running"
  /\ UNCHANGED <<loop_, owner>>

RunLoop ==
  /\ thread = "running"
  /\ LoopStep \/ \E active \in SUBSET Channels : Poll(active)
  /\ UNCHANGED threadVars

\* loop() has returned: threadFunc() clears loop_ ...
ClearLoop ==
  /\ thread = "running"
  /\ pc = "idle"
  /\ loop_' = FALSE
  /\ thread' = "left"
  /\ UNCHANGED <<vars, owner>>

\* ... and returns, destroying the loop.
ThreadExit ==
  /\ thread = "left"
  /\ thread' = "exited"
  /\ UNCHANGED <<vars, loop_, owner>>
-----------------------------------------------------------------------------
\* User code on the loop thread: callback_, channel callbacks and functors.
LoopThreadCalls ==
  /\ thread = "init" \/ (thread = "running" /\ pc # "idle")
  /\ CallStep(LoopThread)
  /\ UNCHANGED threadVars

\* The threads that got the loop's address use it until the owner destroys the
\* EventLoopThread.
ClientCalls(t) ==
  /\ owner = "using"
  /\ thread # "exited"
  /\ CallStep(t)
  /\ UNCHANGED threadVars

\* A call that is under way completes; wakeup() on a dead loop has no effect.
ClientWakeup(t) ==
  /\ \/ thread # "exited" /\ Wakeup(t)
     \/ /\ thread = "exited"
        /\ call[t] = "wakeup"
        /\ call' = [call EXCEPT ![t] = "none"]
        /\ UNCHANGED <<pc, quit_, pendingFunctors_, wakeupFd_, ran, early>>
        /\ UNCHANGED loopVars
  /\ UNCHANGED threadVars

DestructorNoJoin ==
  /\ owner \in {"new", "using"}
  /\ \A t \in Threads : call[t] = "none"
  /\ owner' = "gone"
  /\ UNCHANGED <<vars, loop_, thread>>

\* ~EventLoopThread() reads loop_ without the mutex.  The owner destroys the
\* object when no other thread is inside a call on its loop.
Destructor ==
  /\ owner \in {"new", "using"}
  /\ \A t \in Threads : call[t] = "none"
  /\ owner' = IF loop_ THEN "quit" ELSE "gone"
  /\ UNCHANGED <<vars, loop_, thread>>

\* loop_->quit().
DestructorQuit ==
  /\ owner = "quit"
  /\ \/ thread # "exited" /\ Quit(Owner)
     \/ thread = "exited" /\ UNCHANGED vars
  /\ owner' = "join"
  /\ UNCHANGED <<loop_, thread>>

\* thread_.join().
DestructorJoin ==
  /\ owner = "join"
  /\ call[Owner] = "none"
  /\ thread = "exited"
  /\ owner' = "gone"
  /\ UNCHANGED <<vars, loop_, thread>>
-----------------------------------------------------------------------------
ThreadStep == Publish \/ EnterLoop \/ ClearLoop \/ ThreadExit

DestructorStep == DestructorQuit \/ DestructorJoin

ThreadNext ==
  \/ StartLoop \/ AwaitLoop \/ Destructor
  \/ ThreadStep \/ RunLoop \/ LoopThreadCalls
  \/ DestructorStep
  \/ \E t \in Threads : ClientCalls(t) \/ ClientWakeup(t)

\* Both threads are scheduled, user code returns, and poll() returns when the
\* eventfd is readable.  Whether startLoop() or the destructor is called is up
\* to the owner.
ThreadFairness ==
  /\ WF_allVars(AwaitLoop)
  /\ WF_allVars(ThreadStep)
  /\ WF_allVars(thread = "running" /\ LoopStep /\ UNCHANGED threadVars)
  /\ WF_allVars(/\ thread = "running"
                /\ \E active \in SUBSET Channels : "wakeup" \in active /\ Poll(active)
                /\ UNCHANGED threadVars)
  /\ WF_allVars(Wakeup(LoopThread) /\ UNCHANGED threadVars)
  /\ \A t \in Threads : WF_allVars(ClientWakeup(t))
  /\ WF_allVars(DestructorStep)

ThreadSpec == ThreadInit /\ [][ThreadNext]_allVars /\ ThreadFairness
-----------------------------------------------------------------------------
\* loop_ is set exactly while the thread is between its two critical sections,
\* and the owner never waits in startLoop() while loop_ is set.
ThreadTypeOK ==
  /\ thread \in ThreadPlaces
  /\ owner \in OwnerPlaces
  /\ loop_ \in BOOLEAN
  /\ loop_ <=> thread \in {"published", "running"}
  /\ pc # "idle" => thread = "running"
  /\ owner = "waiting" => ~loop_

\* The destructor returns only when the thread has left loop(): no callback of
\* the loop runs once the EventLoopThread is gone, whether the destructor
\* joined or found loop_ already cleared.  (With the types.)
NoLoopAfterDestructor ==
  ThreadTypeOK /\ (owner = "gone" => thread \in {"none", "left", "exited"})

\* startLoop() returns, the notify of threadFunc() is not missed, unless the
\* loop has run, quit and cleared loop_ before startLoop() looked again: then
\* nothing will set loop_ any more.
StartLoopReturns ==
  owner = "startLoop" ~> (owner = "using" \/ thread = "exited")

\* When the destructor's quit() reaches a running loop, the destructor returns.
DestructorJoinsRunningLoop ==
  (owner = "join" /\ looping_ /\ quit_) ~> owner = "gone"

\* Both waits of the owner end: startLoop() for the loop, and the destructor
\* for a loop that its quit() has reached; whoever calls quit() on a running
\* loop, loop() returns.
OwnerGoesOn == StartLoopReturns /\ DestructorJoinsRunningLoop /\ QuitStopsLoop

\* The comment on the destructor's quit() says it makes the IO thread's loop
\* exit and so the thread: then the join that follows always returns.
DestructorReturns == owner = "quit" ~> owner = "gone"
=============================================================================
