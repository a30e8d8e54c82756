------------------------------ MODULE Executor ------------------------------
(***************************************************************************)
(* What EventLoop::queueInLoop and EventLoop::runInLoop promise, without   *)
(* threads, locks or file descriptors: one thread runs the functors, the   *)
(* queued ones in the order they were queued, none lost and none repeated. *)
(* A call of runInLoop from the loop thread runs its functor on the spot.  *)
(***************************************************************************)
EXTENDS Sequences

CONSTANT Functors       \* the callbacks handed to the loop

VARIABLES waiting,      \* accepted, not yet run, oldest first
          ran           \* run so far, oldest first

Init ==
  /\ waiting = << >>
  /\ ran = << >>

Submit(f) ==
  /\ waiting' = Append(waiting, f)
  /\ UNCHANGED ran

RunNext ==
  /\ waiting # << >>
  /\ ran' = Append(ran, Head(waiting))
  /\ waiting' = Tail(waiting)

RunNow(f) ==
  /\ ran' = Append(ran, f)
  /\ UNCHANGED waiting

Next ==
  \/ RunNext
  \/ \E f \in Functors : Submit(f) \/ RunNow(f)

Spec == Init /\ [][Next]_<<waiting, ran>>
=============================================================================
