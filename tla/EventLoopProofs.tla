-------------------------- MODULE EventLoopProofs ---------------------------
(***************************************************************************)
(* The event loop's invariants and its refinement of Executor, by itself   *)
(* and under an EventLoopThread, for any number of threads and functors.   *)
(***************************************************************************)
EXTENDS EventLoopThread, SequenceTheorems, TLAPS

\* Every step of the loop or of a call keeps the type invariant.
LEMMA TypeStep == TypeOK /\ [Next]_vars => TypeOK'
<1>. USE ThreadsAssumption DEF Places, UserCode, AllThreads, Calls, Channels
<1>. SUFFICES ASSUME TypeOK, [Next]_vars PROVE TypeOK'
  OBVIOUS
<1>. USE DEF TypeOK, At, loopVars
<1>1. CASE Loop
  BY <1>1, Zenon DEF Loop
<1>2. CASE WhileTest
  BY <1>2, Zenon DEF WhileTest
<1>3. ASSUME NEW active \in SUBSET Channels, Poll(active) PROVE TypeOK'
  BY <1>3 DEF Poll
<1>4. CASE HandleRead
  BY <1>4, Zenon DEF HandleRead
<1>5. CASE HandleEvent
  BY <1>5 DEF HandleEvent
<1>6. CASE Return
  BY <1>6 DEF Return
<1>7. CASE EnterFunctors
  BY <1>7 DEF EnterFunctors
<1>8. CASE SwapFunctors
  BY <1>8, EmptySeq DEF SwapFunctors
<1>9. CASE RunFunctor
  BY <1>9, HeadTailProperties, AppendProperties DEF RunFunctor
<1>10. CASE LeaveFunctors
  BY <1>10, Zenon DEF LeaveFunctors
<1>11. ASSUME NEW t \in AllThreads, NEW f \in Functors, QueueInLoop(t, f)
       PROVE  TypeOK'
  <2>1. pendingFunctors_' \in Seq(Functors)
    BY <1>11, AppendProperties DEF QueueInLoop
  <2>2. call' \in [AllThreads -> Calls]
    BY <1>11 DEF QueueInLoop
  <2>3. call'[LoopThread] # "none" => pc = "functor"
    <3>1. CASE t = LoopThread
      BY <1>11, <3>1 DEF QueueInLoop, CanCall, NeedsWakeup
    <3>2. CASE t # LoopThread
      BY <1>11, <3>2 DEF QueueInLoop
    <3>. QED  BY <3>1, <3>2
  <2>. QED
    BY <1>11, <2>1, <2>2, <2>3 DEF QueueInLoop
<1>12. ASSUME NEW f \in Functors, RunHere(f) PROVE TypeOK'
  <2>1. ran' \in Seq(Functors)
    BY <1>12, AppendProperties DEF RunHere
  <2>. QED
    BY <1>12, <2>1 DEF RunHere
<1>13. ASSUME NEW t \in AllThreads, Quit(t) PROVE TypeOK'
  BY <1>13 DEF Quit, CanCall, QuitNeedsWakeup
<1>14. ASSUME NEW t \in AllThreads, Wakeup(t) PROVE TypeOK'
  BY <1>14 DEF Wakeup
<1>15. CASE UNCHANGED vars
  BY <1>15 DEF vars
<1>. QED
  BY <1>1, <1>2, <1>3, <1>4, <1>5, <1>6, <1>7, <1>8, <1>9, <1>10, <1>11,
     <1>12, <1>13, <1>14, <1>15, Zenon DEF Next, LoopStep, CallStep, RunInLoop

\* The type invariant holds: the flags of EventLoop follow the loop thread's
\* place in loop(), whatever other threads call.
THEOREM TypeCorrect == Spec => []TypeOK
<1>1. Init => TypeOK
  BY ThreadsAssumption, EmptySeq, Zenon DEF Init, TypeOK, Places, AllThreads, Calls, Channels
<1>. QED
  BY <1>1, TypeStep, PTL DEF Spec

\* The strengthening of NoLostWakeup and NoLostQuit that Next preserves.  From
\* the swap in doPendingFunctors() to the next return of poll() nobody reads
\* the eventfd, so each push since the swap keeps its signal; while channels
\* are handled the signal may be gone, but the swap is still to come.
WakeInv ==
  /\ pc \in {"run", "functor", "while", "poll", "idle"}
       /\ ~(Range(pendingFunctors_) \subseteq early) => Signalled
  /\ pc = "poll" /\ quit_ => Signalled

\* Appending one functor adds just that functor to those waiting.
LEMMA RangeAppend ==
  ASSUME NEW S, NEW s \in Seq(S), NEW e \in S
  PROVE  Range(Append(s, e)) = Range(s) \cup {e}
<1>1. DOMAIN s = 1..Len(s) /\ DOMAIN Append(s, e) = 1..(Len(s) + 1)
  BY AppendProperties, LenProperties
<1>2. Len(s) \in Nat /\ Append(s, e)[Len(s) + 1] = e
  BY AppendProperties, LenProperties
<1>3. \A i \in 1..Len(s) : Append(s, e)[i] = s[i]
  BY AppendProperties
<1>. QED
  BY <1>1, <1>2, <1>3 DEF Range

\* WakeInv is inductive.
LEMMA WakeInvStep == TypeOK /\ WakeInv /\ [Next]_vars => WakeInv'
<1>. SUFFICES ASSUME TypeOK, WakeInv, [Next]_vars PROVE WakeInv'
  OBVIOUS
<1>. USE ThreadsAssumption DEF TypeOK, WakeInv, At, loopVars, Signalled, AllThreads, Calls
<1>1. CASE Loop
  BY <1>1 DEF Loop
<1>2. CASE WhileTest
  BY <1>2, Zenon DEF WhileTest
<1>3. ASSUME NEW active \in SUBSET Channels, Poll(active) PROVE WakeInv'
  BY <1>3 DEF Poll
<1>4. CASE HandleRead
  BY <1>4 DEF HandleRead
<1>5. CASE HandleEvent
  BY <1>5 DEF HandleEvent
<1>6. CASE Return
  BY <1>6 DEF Return
<1>7. CASE EnterFunctors
  BY <1>7 DEF EnterFunctors
<1>8. CASE SwapFunctors
  BY <1>8 DEF SwapFunctors, Range
<1>9. CASE RunFunctor
  BY <1>9 DEF RunFunctor
<1>10. CASE LeaveFunctors
  BY <1>10 DEF LeaveFunctors
<1>11. ASSUME NEW t \in AllThreads, NEW f \in Functors, QueueInLoop(t, f)
       PROVE  WakeInv'
  <2>1. CASE NeedsWakeup(t)
    <3>1. call'[t] = "wakeup"
      BY <1>11, <2>1 DEF QueueInLoop
    <3>. QED
      BY <1>11, <3>1
  <2>2. CASE ~NeedsWakeup(t)
    <3>1. t = LoopThread /\ pc \in {"idle", "io"} /\ call' = call
      BY <1>11, <2>2 DEF QueueInLoop, NeedsWakeup, CanCall, UserCode
    <3>2. CASE pc = "io"
      BY <1>11, <3>2 DEF QueueInLoop
    <3>3. CASE pc = "idle"
      <4>1. early' = early \cup {f}
        BY <1>11, <3>1, <3>3 DEF QueueInLoop
      <4>2. Range(pendingFunctors_') = Range(pendingFunctors_) \cup {f}
        BY <1>11, RangeAppend DEF QueueInLoop
      <4>. QED
        BY <1>11, <3>1, <3>3, <4>1, <4>2 DEF QueueInLoop
    <3>. QED  BY <3>1, <3>2, <3>3
  <2>. QED  BY <2>1, <2>2
<1>12. ASSUME NEW f \in Functors, RunHere(f) PROVE WakeInv'
  BY <1>12 DEF RunHere
<1>13. ASSUME NEW t \in AllThreads, Quit(t) PROVE WakeInv'
  <2>1. CASE t = LoopThread
    BY <1>13, <2>1 DEF Quit, QuitNeedsWakeup, CanCall, UserCode
  <2>2. CASE t # LoopThread
    BY <1>13, <2>2 DEF Quit, QuitNeedsWakeup
  <2>. QED  BY <2>1, <2>2
<1>14. ASSUME NEW t \in AllThreads, Wakeup(t) PROVE WakeInv'
  BY <1>14 DEF Wakeup
<1>15. CASE UNCHANGED vars
  BY <1>15 DEF vars
<1>. QED
  BY <1>1, <1>2, <1>3, <1>4, <1>5, <1>6, <1>7, <1>8, <1>9, <1>10, <1>11,
     <1>12, <1>13, <1>14, <1>15 DEF Next, LoopStep, CallStep, RunInLoop

\* The loop never sleeps in poll() over a functor queued by another thread, by
\* a functor or by a channel callback: queueInLoop() loses no wakeup.
THEOREM WakeupsKept == Spec => []NoLostWakeup
<1>1. Init => WakeInv
  BY EmptySeq DEF Init, WakeInv, Range
<1>2. WakeInv => NoLostWakeup
  BY DEF WakeInv, NoLostWakeup
<1>. QED
  BY <1>1, <1>2, WakeInvStep, TypeCorrect, PTL DEF Spec

\* The loop never sleeps in poll() with quit_ set and no wakeup on its way.
THEOREM QuitsKept == Spec => []NoLostQuit
<1>1. Init => WakeInv
  BY EmptySeq DEF Init, WakeInv, Range
<1>2. WakeInv => NoLostQuit
  BY DEF WakeInv, NoLostQuit
<1>. QED
  BY <1>1, <1>2, WakeInvStep, TypeCorrect, PTL DEF Spec

-----------------------------------------------------------------------------
\* Queueing a functor behind the batch appends to the concatenation of both.
LEMMA ConcatAppend ==
  ASSUME NEW S, NEW s \in Seq(S), NEW t \in Seq(S), NEW e \in S
  PROVE  s \o Append(t, e) = Append(s \o t, e)
<1>1. /\ Append(t, e) = t \o <<e>>
      /\ s \o t \in Seq(S)
      /\ <<e>> \in Seq(S)
  BY AppendIsConcat, ConcatProperties
<1>2. Append(s \o t, e) = (s \o t) \o <<e>>
  BY <1>1, AppendIsConcat
<1>. QED
  BY <1>1, <1>2, ConcatAssociative

\* Running the head of the batch runs the head of the concatenation.
LEMMA ConcatHeadTail ==
  ASSUME NEW S, NEW s \in Seq(S), NEW t \in Seq(S), s # << >>
  PROVE  /\ s \o t # << >>
         /\ Head(s \o t) = Head(s)
         /\ Tail(s \o t) = Tail(s) \o t
<1>1. /\ Len(s) \in Nat \ {0} /\ Len(t) \in Nat
      /\ s \o t \in Seq(S)
      /\ Len(s \o t) = Len(s) + Len(t)
  BY EmptySeq, ConcatProperties, LenProperties
<1>2. s \o t # << >>
  BY <1>1, EmptySeq
<1>3. /\ Head(s \o t) = (s \o t)[1]
      /\ Head(s) = s[1]
      /\ (s \o t)[1] = s[1]
  BY <1>1, ConcatProperties
<1>4. /\ Tail(s \o t) \in Seq(S)
      /\ Len(Tail(s \o t)) = Len(s) + Len(t) - 1
      /\ \A i \in 1..Len(s) + Len(t) - 1 : Tail(s \o t)[i] = (s \o t)[i + 1]
  BY <1>1, <1>2, HeadTailProperties
<1>5. /\ Tail(s) \in Seq(S)
      /\ Len(Tail(s)) = Len(s) - 1
      /\ \A i \in 1..Len(s) - 1 : Tail(s)[i] = s[i + 1]
  BY HeadTailProperties
<1>6. /\ Tail(s) \o t \in Seq(S)
      /\ Len(Tail(s) \o t) = Len(s) - 1 + Len(t)
      /\ \A i \in 1..Len(s) - 1 + Len(t) :
            (Tail(s) \o t)[i] = IF i <= Len(s) - 1 THEN Tail(s)[i] ELSE t[i - (Len(s) - 1)]
  BY <1>1, <1>5, ConcatProperties
<1>7. \A i \in 1..Len(s) + Len(t) :
        (s \o t)[i] = IF i <= Len(s) THEN s[i] ELSE t[i - Len(s)]
  BY ConcatProperties
<1>8. ASSUME NEW i \in 1..Len(s) + Len(t) - 1
      PROVE  Tail(s \o t)[i] = (Tail(s) \o t)[i]
  <2>1. i + 1 \in 1..Len(s) + Len(t) /\ i \in 1..Len(s) - 1 + Len(t)
    BY <1>1
  <2>2. Tail(s \o t)[i] = IF i + 1 <= Len(s) THEN s[i + 1] ELSE t[i + 1 - Len(s)]
    BY <1>4, <1>7, <2>1
  <2>3. CASE i + 1 <= Len(s)
    BY <1>1, <1>5, <1>6, <2>1, <2>2, <2>3
  <2>4. CASE ~(i + 1 <= Len(s))
    <3>1. i + 1 - Len(s) = i - (Len(s) - 1) /\ ~(i <= Len(s) - 1)
      BY <1>1, <2>4
    <3>. QED
      BY <1>6, <2>1, <2>2, <2>4, <3>1
  <2>. QED  BY <2>3, <2>4
<1>9. Tail(s \o t) = Tail(s) \o t
  BY <1>1, <1>4, <1>6, <1>8, SeqEqual
<1>. QED  BY <1>2, <1>3, <1>9

\* A step of the loop or of a call is a step of the executor, or none.
LEMMA ExecutorStep ==
  TypeOK /\ [Next]_vars => [Exec!Next]_<<functors \o pendingFunctors_, ran>>
<1>. DEFINE W == functors \o pendingFunctors_
            XNext == \/ /\ W # << >>
                        /\ ran' = Append(ran, Head(W))
                        /\ W' = Tail(W)
                     \/ \E f \in Functors :
                          (W' = Append(W, f) /\ ran' = ran) \/ (ran' = Append(ran, f) /\ W' = W)
<1>1. TypeOK /\ [Next]_vars => XNext \/ (W' = W /\ ran' = ran)
  <2>. SUFFICES ASSUME TypeOK, [Next]_vars
                PROVE  XNext \/ (W' = W /\ ran' = ran)
    BY Zenon
  <2>0. functors \in Seq(Functors) /\ pendingFunctors_ \in Seq(Functors)
    BY DEF TypeOK
  <2>1. CASE Loop \/ WhileTest \/ (\E active \in SUBSET Channels : Poll(active))
             \/ HandleRead \/ HandleEvent \/ EnterFunctors \/ LeaveFunctors
    BY <2>1 DEF Loop, WhileTest, Poll, HandleRead, HandleEvent, EnterFunctors, LeaveFunctors
  <2>2. CASE Return \/ (\E t \in AllThreads : Quit(t) \/ Wakeup(t)) \/ UNCHANGED vars
    BY <2>2 DEF Return, Quit, Wakeup, loopVars, vars
  <2>3. CASE SwapFunctors
    <3>1. functors = << >> /\ ran' = ran
      BY <2>3 DEF SwapFunctors, At, TypeOK
    <3>2. W' = pendingFunctors_ \o << >>
      BY <2>3 DEF SwapFunctors
    <3>3. W = pendingFunctors_ /\ W' = pendingFunctors_
      BY <2>0, <3>1, <3>2, ConcatEmptySeq
    <3>. QED  BY <3>1, <3>3
  <2>4. CASE RunFunctor
    <3>1. /\ functors # << >>
          /\ ran' = Append(ran, Head(functors))
          /\ W' = Tail(functors) \o pendingFunctors_
      BY <2>4 DEF RunFunctor
    <3>2. W # << >> /\ Head(W) = Head(functors) /\ Tail(W) = Tail(functors) \o pendingFunctors_
      BY <2>0, <3>1, ConcatHeadTail
    <3>. QED  BY <3>1, <3>2, Zenon
  <2>5. ASSUME NEW t \in AllThreads, NEW f \in Functors, QueueInLoop(t, f)
        PROVE  XNext
    <3>1. W' = functors \o Append(pendingFunctors_, f) /\ ran' = ran
      BY <2>5 DEF QueueInLoop, loopVars
    <3>2. W' = Append(W, f)
      BY <2>0, <3>1, ConcatAppend
    <3>. QED  BY <3>1, <3>2
  <2>6. ASSUME NEW f \in Functors, RunHere(f) PROVE XNext
    BY <2>6 DEF RunHere, loopVars
  <2>. QED
    BY <2>1, <2>2, <2>3, <2>4, <2>5, <2>6, Zenon DEF Next, LoopStep, CallStep, RunInLoop
<1>. QED
  BY <1>1, Zenon DEF Exec!Next, Exec!RunNext, Exec!Submit, Exec!RunNow

\* The event loop implements the abstract executor: a functor that was queued
\* runs after those queued before it, and exactly once.
THEOREM LoopIsExecutor == Spec => FifoExecution
<1>1. Init => Exec!Init
  BY EmptySeq, ConcatEmptySeq DEF Init, Exec!Init
<1>. QED
  BY <1>1, ExecutorStep, TypeCorrect, PTL DEF Spec, FifoExecution, Exec!Spec
-----------------------------------------------------------------------------
(***************************************************************************)
(* The loop of an EventLoopThread.                                         *)
(***************************************************************************)
\* The owner gets on only with the thread it started: what makes
\* NoLoopAfterDestructor inductive.
Pair ==
  /\ NoLoopAfterDestructor
  /\ owner = "new" => thread = "none"
  /\ owner \in {"startLoop", "waiting"} => thread # "none"
  /\ owner \in {"using", "quit", "join"} => thread \in {"published", "running", "left", "exited"}

\* A wakeup() that reaches a loop that is gone.
DeadWakeup ==
  /\ thread = "exited"
  /\ \E t \in Threads : /\ call[t] = "wakeup"
                        /\ call' = [call EXCEPT ![t] = "none"]
  /\ UNCHANGED <<pc, quit_, pendingFunctors_, wakeupFd_, ran, early>>
  /\ UNCHANGED loopVars

\* Whatever the owner and threadFunc() do, the loop itself only takes steps of
\* EventLoop, until it is gone.
LEMMA OwnedLoopSteps == [ThreadNext]_allVars => [Next]_vars \/ DeadWakeup
<1>. SUFFICES ASSUME [ThreadNext]_allVars PROVE [Next]_vars \/ DeadWakeup
  OBVIOUS
<1>0. Owner \in AllThreads /\ LoopThread \in AllThreads /\ \A t \in Threads : t \in AllThreads
  BY OwnerAssumption DEF AllThreads
<1>1. CASE StartLoop \/ AwaitLoop \/ Destructor \/ Publish \/ ClearLoop \/ ThreadExit \/ DestructorJoin
  BY <1>1 DEF StartLoop, AwaitLoop, Destructor, Publish, ClearLoop, ThreadExit, DestructorJoin
<1>2. CASE EnterLoop \/ RunLoop
  BY <1>2 DEF EnterLoop, RunLoop, Next
<1>3. CASE LoopThreadCalls
  BY <1>0, <1>3 DEF LoopThreadCalls, Next
<1>4. CASE DestructorQuit
  BY <1>0, <1>4 DEF DestructorQuit, Next, CallStep
<1>5. ASSUME NEW t \in Threads, ClientCalls(t) PROVE Next
  BY <1>0, <1>5 DEF ClientCalls, Next
<1>6. ASSUME NEW t \in Threads, ClientWakeup(t) PROVE Next \/ DeadWakeup
  BY <1>0, <1>6 DEF ClientWakeup, DeadWakeup, Next, CallStep
<1>7. CASE UNCHANGED allVars
  BY <1>7 DEF allVars
<1>. QED
  BY <1>1, <1>2, <1>3, <1>4, <1>5, <1>6, <1>7 DEF ThreadNext, ThreadStep, DestructorStep

\* Calls do not move the loop thread.
LEMMA CallsStay ==
  ASSUME NEW t, CallStep(t)
  PROVE  pc' = pc
BY DEF CallStep, Quit, Wakeup, QueueInLoop, RunInLoop, RunHere

\* Pair is inductive.
LEMMA PairStep == Pair /\ [ThreadNext]_allVars => Pair'
<1>. SUFFICES ASSUME Pair, [ThreadNext]_allVars PROVE Pair'
  OBVIOUS
<1>. USE DEF Pair, NoLoopAfterDestructor, ThreadTypeOK, ThreadPlaces, OwnerPlaces, threadVars
<1>1. CASE StartLoop
  BY <1>1 DEF StartLoop, vars
<1>2. CASE AwaitLoop
  BY <1>2 DEF AwaitLoop, vars
<1>3. CASE Destructor
  BY <1>3 DEF Destructor, vars
<1>4. CASE Publish
  BY <1>4 DEF Publish, vars
<1>5. CASE EnterLoop
  BY <1>5 DEF EnterLoop
<1>6. CASE ClearLoop
  BY <1>6, Zenon DEF ClearLoop, vars
<1>7. CASE ThreadExit
  BY <1>7 DEF ThreadExit, vars
<1>8. CASE RunLoop
  BY <1>8 DEF RunLoop
<1>9. CASE LoopThreadCalls
  BY <1>9, CallsStay DEF LoopThreadCalls
<1>10. CASE DestructorQuit
  <2>1. pc' = pc
    BY <1>10 DEF DestructorQuit, Quit, vars
  <2>. QED  BY <1>10, <2>1 DEF DestructorQuit
<1>11. CASE DestructorJoin
  BY <1>11 DEF DestructorJoin, vars
<1>12. ASSUME NEW t \in Threads, ClientCalls(t) PROVE Pair'
  BY <1>12, CallsStay DEF ClientCalls
<1>13. ASSUME NEW t \in Threads, ClientWakeup(t) PROVE Pair'
  BY <1>13 DEF ClientWakeup, Wakeup
<1>14. CASE UNCHANGED allVars
  BY <1>14 DEF allVars, vars
<1>. QED
  BY <1>1, <1>2, <1>3, <1>4, <1>5, <1>6, <1>7, <1>8, <1>9, <1>10, <1>11, <1>12, <1>13, <1>14
     DEF ThreadNext, ThreadStep, DestructorStep

\* Every reachable state of owner and thread satisfies Pair.
LEMMA PairAlways == ThreadSpec => []Pair
<1>1. ThreadInit => Pair
  BY Zenon DEF ThreadInit, Init, Pair, NoLoopAfterDestructor, ThreadTypeOK, ThreadPlaces, OwnerPlaces
<1>. QED  BY <1>1, PairStep, PTL DEF ThreadSpec

\* The loop keeps its types also when it is owned, and its signals until it is
\* gone: only then does a wakeup() get lost, and it never runs again.
LEMMA OwnedLoopInv == ThreadSpec => [](TypeOK /\ (thread = "exited" \/ WakeInv))
<1>1. ThreadInit => TypeOK /\ WakeInv
  <2>1. Init => TypeOK
    BY ThreadsAssumption, EmptySeq, Zenon DEF Init, TypeOK, Places, AllThreads, Calls, Channels
  <2>2. Init => WakeInv
    BY EmptySeq DEF Init, WakeInv, Range
  <2>. QED  BY <2>1, <2>2 DEF ThreadInit
<1>2. Pair /\ TypeOK /\ (thread = "exited" \/ WakeInv) /\ [ThreadNext]_allVars
        => (TypeOK /\ (thread = "exited" \/ WakeInv))'
  <2>. SUFFICES ASSUME Pair, TypeOK, thread = "exited" \/ WakeInv, [ThreadNext]_allVars
                PROVE  TypeOK' /\ (thread' = "exited" \/ WakeInv')
    OBVIOUS
  <2>1. thread = "exited" => thread' = "exited"
    BY DEF ThreadNext, ThreadStep, DestructorStep, StartLoop, AwaitLoop, Publish, EnterLoop, RunLoop,
           ClearLoop, ThreadExit, LoopThreadCalls, ClientCalls, ClientWakeup, Destructor, DestructorQuit,
           DestructorJoin, threadVars, allVars, Pair
  <2>2. CASE [Next]_vars
    BY <2>1, <2>2, TypeStep, WakeInvStep
  <2>3. CASE DeadWakeup
    <3>1. thread = "exited" /\ pc = "idle"
      BY <2>3 DEF Pair, NoLoopAfterDestructor, ThreadTypeOK, DeadWakeup
    <3>2. TypeOK'
      BY <2>3, <3>1, ThreadsAssumption DEF DeadWakeup, TypeOK, loopVars, AllThreads, Calls
    <3>. QED  BY <2>1, <3>1, <3>2
  <2>. QED  BY <2>2, <2>3, OwnedLoopSteps
<1>. QED  BY <1>1, <1>2, PairAlways, PTL DEF ThreadSpec

\* When ~EventLoopThread() has returned the thread is not in loop(), whether the
\* destructor joined it or found loop_ cleared, and loop_ and the places of the
\* two threads always agree.
THEOREM DestructorEndsLoop == ThreadSpec => []NoLoopAfterDestructor
<1>1. Pair => NoLoopAfterDestructor
  BY DEF Pair
<1>. QED  BY <1>1, PairAlways, PTL

\* The loop of an EventLoopThread never sleeps in poll() over a functor or a
\* quit() of another thread, however its owner starts, uses and destroys it.
THEOREM OwnedLoopWakes == ThreadSpec => [](NoLostWakeup /\ NoLostQuit)
<1>1. Pair /\ (thread = "exited" \/ WakeInv) => NoLostWakeup /\ NoLostQuit
  BY DEF WakeInv, NoLostWakeup, NoLostQuit, Pair, NoLoopAfterDestructor, ThreadTypeOK
<1>. QED  BY <1>1, OwnedLoopInv, PairAlways, PTL

\* The loop of an EventLoopThread implements the abstract executor.
THEOREM OwnedLoopIsExecutor == ThreadSpec => FifoExecution
<1>1. ThreadInit => Exec!Init
  BY EmptySeq, ConcatEmptySeq DEF ThreadInit, Init, Exec!Init
<1>2. TypeOK /\ [ThreadNext]_allVars => [Exec!Next]_<<functors \o pendingFunctors_, ran>>
  <2>1. DeadWakeup => UNCHANGED <<functors \o pendingFunctors_, ran>>
    BY DEF DeadWakeup, loopVars
  <2>. QED  BY <2>1, OwnedLoopSteps, ExecutorStep
<1>. QED
  BY <1>1, <1>2, OwnedLoopInv, PTL DEF ThreadSpec, FifoExecution, Exec!Spec
=============================================================================
