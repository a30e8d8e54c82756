----------------------------- MODULE TcpServer ------------------------------
(***************************************************************************)
(* net/TcpServer.cpp with its Acceptor (net/Acceptor.cpp) and its          *)
(* EventLoopThreadPool: many connections, spread over the IO loops.        *)
(*                                                                         *)
(* The base loop's thread accepts, keeps the map of connections and runs   *)
(* the destructor.  Each IO loop goes round events, functors and the test  *)
(* of quit_, as EventLoop.tla has it; loop 0 is the base loop, which also  *)
(* serves as the IO loop when there are no IO threads.  Callbacks, and     *)
(* another thread, shut connections down or force their close; other       *)
(* threads open and close descriptors of their own.  One connection in all *)
(* its detail is in TcpConnection.tla.                                     *)
(***************************************************************************)
EXTENDS Integers, FiniteSets, Sequences, Functions

CONSTANTS ThreadNums,   \* the values of numThreads_
          FdLimit,      \* descriptors the process may have besides the fixed ones
          MaxConns,     \* bound: connections that clients make
          MaxExternal,  \* bound: descriptors other threads hold at a time
          MaxCalls      \* bound: calls of shutdown() and forceClose()

ASSUME ServerAssumption ==
  /\ ThreadNums \subseteq Nat /\ IsFiniteSet(ThreadNums)
  /\ FdLimit \in Nat \ {0} /\ MaxConns \in Nat /\ MaxExternal \in Nat
  /\ MaxCalls \in Nat

VARIABLES numThreads_, next_,
          listenning_, idleFd_, got,  \* the Acceptor; got: handleRead() holds a socket
          nextConnId_, connections_,
          server,       \* up, the destructor joining the IO threads, or gone
          joining,      \* the IO thread whose EventLoopThread is being destroyed
          pc,           \* the base loop's thread inside handleRead() or the destructor
          functors,     \* waiting in each loop, those of the batch first
          io,           \* each IO loop: phase, batch and quit_
          conns,        \* the TcpConnections: state_ and loop
          caller,       \* the other thread, between its test of state_ and the rest
          calls,        \* of shutdown() and forceClose() so far
          arrived,      \* connections made by clients
          backlog,      \* those the kernel holds for accept()
          external,     \* descriptors other threads hold
          aborted,      \* LOG_FATAL or an assertion ended the process
          mishaps

pool == <<numThreads_, next_>>
acceptor == <<listenning_, idleFd_, got>>
map == <<nextConnId_, connections_>>
life == <<server, joining>>
kernel == <<arrived, backlog, external>>
user == <<caller, calls>>
history == <<aborted, mishaps>>
vars == <<pool, acceptor, map, life, pc, functors, io, conns, user, kernel, history>>

Ids == 1..MaxConns
IoLoops == 1..numThreads_
Loops == 0..numThreads_

\* "fdTaken": another thread took the descriptor that handleRead() had freed;
\* "leftBehind": functors were waiting in an IO loop that ended, or came to it later;
\* "deadServer": a connection closed after the destructor had begun and calls its
\* server; "cutShort": connectDestroyed() found a connection kDisconnecting, which it
\* leaves so; "revived": shutdown() or forceClose() of another thread, whose test of
\* state_ was before the close, set kDisconnecting after it.
Mishaps == {"fdTaken", "leftBehind", "deadServer", "cutShort", "revived"}
NoMishap == mishaps = {}
Unharmed == mishaps \cap {"leftBehind", "cutShort", "revived"} = {}
If(cond, name) == IF cond THEN {name} ELSE {}

NoCall == [call |-> "none", conn |-> 0]

\* Somebody holds a TcpConnectionPtr: the map, a functor or the thread that calls.
\* Without one the connection is freed and its socket closed.
Refs(c) ==
  \/ c \in connections_
  \/ \E l \in Loops : \E f \in Range(functors[l]) : f[2] = c
  \/ caller.conn = c

Made(c) == c < nextConnId_

Free == FdLimit - Cardinality({c \in Ids : Refs(c)}) - external
        - (IF idleFd_ THEN 1 ELSE 0) - (IF got THEN 1 ELSE 0)

Push(fs, l, f) == [fs EXCEPT ![l] = Append(@, f)]
-----------------------------------------------------------------------------
(* EventLoopThreadPool.                                                    *)

nextSkipsLast(next, n) == IF next + 1 >= n - 1 THEN 0 ELSE next + 1

\* getNextLoop(): the index next_ after a connection went to loops_[next_].
advance(next, n) == IF next + 1 >= n THEN 0 ELSE next + 1

\* The loop that getNextLoop() returns.
NextLoop == IF numThreads_ = 0 THEN 0 ELSE next_ + 1

\* start() of the pool: each startLoop() returns once its loop is there.
PoolStart ==
  io' = [l \in IoLoops |-> [phase |-> "events", batch |-> 0, quit |-> FALSE]]
-----------------------------------------------------------------------------
(* TcpServer and Acceptor in the base loop's thread.                       *)

\* TcpServer::start() in the base loop's thread; later calls do nothing.
Start ==
  /\ server = "up" /\ pc = "idle" /\ ~listenning_
  /\ PoolStart
  /\ listenning_' = TRUE
  /\ UNCHANGED <<pool, idleFd_, got, map, life, pc, functors, conns, user, kernel,
                 history>>

\* start() in another thread: EventLoopThreadPool::start() insists on the base
\* loop's thread and ends the process.
StartElsewhere ==
  /\ server = "up" /\ ~listenning_
  /\ aborted' = TRUE
  /\ UNCHANGED <<pool, acceptor, map, life, pc, functors, io, conns, user, kernel,
                 mishaps>>

\* poll() reports the listening socket; a client may give up before accept().
AcceptReady ==
  /\ server = "up" /\ pc = "idle" /\ listenning_ /\ backlog > 0
  /\ pc' = "accept"
  /\ UNCHANGED <<pool, acceptor, map, life, functors, io, conns, user, kernel,
                 history>>

\* newConnection(): the next loop gets connectEstablished(), which runs at once
\* when that is the base loop.
newConnection(c) ==
  /\ next_' = IF numThreads_ = 0 THEN next_ ELSE advance(next_, numThreads_)
  /\ nextConnId_' = nextConnId_ + 1
  /\ connections_' = connections_ \cup {c}
  /\ conns' = [conns EXCEPT ![c] = [state_ |-> IF numThreads_ = 0 THEN "kConnected"
                                                                  ELSE "kConnecting",
                                    loop |-> NextLoop]]
  /\ functors' = IF numThreads_ = 0 THEN functors
                 ELSE Push(functors, NextLoop, <<"connectEstablished", c>>)

Accept ==
  /\ pc = "accept" /\ backlog > 0 /\ Free > 0
  /\ newConnection(nextConnId_)
  /\ backlog' = backlog - 1
  /\ pc' = "idle"
  /\ UNCHANGED <<numThreads_, acceptor, life, io, user, arrived, external, history>>

\* accept() fails with EAGAIN or ECONNABORTED.
AcceptNothing ==
  /\ pc = "accept" /\ backlog = 0
  /\ pc' = "idle"
  /\ UNCHANGED <<pool, acceptor, map, life, functors, io, conns, user, kernel,
                 history>>

CloseIdleNever ==
  /\ pc = "accept" /\ backlog > 0 /\ Free = 0
  /\ pc' = "idle"
  /\ UNCHANGED <<pool, acceptor, map, life, functors, io, conns, user, kernel,
                 history>>

\* accept() fails with EMFILE: the idle descriptor is closed ...
CloseIdle ==
  /\ pc = "accept" /\ backlog > 0 /\ Free = 0
  /\ idleFd_' = FALSE
  /\ pc' = "drop"
  /\ UNCHANGED <<pool, listenning_, got, map, life, functors, io, conns, user,
                 kernel, history>>

\* ... used to accept the connection ...
AcceptIdle ==
  /\ pc = "drop"
  /\ IF Free > 0 /\ backlog > 0
     THEN got' = TRUE /\ backlog' = backlog - 1
     ELSE UNCHANGED <<got, backlog>>
  /\ pc' = "reopen"
  /\ UNCHANGED <<pool, listenning_, idleFd_, map, life, functors, io, conns, user,
                 arrived,
                 external, history>>

\* ... which is closed at once ...
CloseGot ==
  /\ pc = "reopen" /\ got
  /\ got' = FALSE
  /\ UNCHANGED <<pool, listenning_, idleFd_, map, life, pc, functors, io, conns,
                 user, kernel, history>>

\* ... and opened again, if the process still has room for it.
Reopen ==
  /\ pc = "reopen" /\ ~got
  /\ idleFd_' = (Free > 0)
  /\ pc' = "idle"
  /\ UNCHANGED <<pool, listenning_, got, map, life, functors, io, conns, user,
                 kernel, history>>

-----------------------------------------------------------------------------
(* The end of a connection.                                                *)

DestroyedUntold(s) == s

\* What connectDestroyed() makes of state_.
DestroyedState(s) == IF s = "kConnected" THEN "kDisconnected" ELSE s

\* A connection that is shutting down: connectDestroyed() leaves its state_ alone.
IsCutShort(c) == conns[c].state_ = "kDisconnecting"

\* Established and not closed: what forceClose() and handleClose() ask for.
IsUp(c) == conns[c].state_ \in {"kConnected", "kDisconnecting"}

removeUnlisted(c, fs) ==
  /\ functors' = Push(fs, conns[c].loop, <<"connectDestroyed", c>>)
  /\ UNCHANGED <<aborted, connections_>>

\* removeConnectionInLoop(), while fs are the functors that wait.
removeConnectionInLoop(c, fs) ==
  /\ aborted' = (c \notin connections_)
  /\ connections_' = connections_ \ {c}
  /\ functors' = Push(fs, conns[c].loop, <<"connectDestroyed", c>>)

\* handleClose(); closeCallback_ is removeConnection(), which runs the removal in the
\* base loop.
handleClose(c, fs) ==
  /\ conns' = [conns EXCEPT ![c].state_ = "kDisconnected"]
  /\ IF conns[c].loop = 0 /\ server = "up" THEN removeConnectionInLoop(c, fs)
     ELSE /\ functors' = Push(fs, 0, <<"remove", c>>)
          /\ UNCHANGED <<aborted, connections_>>
  /\ mishaps' = mishaps \cup If(server # "up", "deadServer")

connectEstablished(c, fs) ==
  /\ conns' = [conns EXCEPT ![c].state_ = "kConnected"]
  /\ functors' = fs
  /\ UNCHANGED <<connections_, history>>

connectDestroyed(c, fs) ==
  /\ conns' = [conns EXCEPT ![c].state_ = DestroyedState(@)]
  /\ functors' = fs
  /\ mishaps' = mishaps \cup If(IsCutShort(c), "cutShort")
  /\ UNCHANGED <<connections_, aborted>>

forceCloseInLoop(c, fs) ==
  \/ IsUp(c) /\ handleClose(c, fs)
  \/ ~IsUp(c) /\ functors' = fs /\ UNCHANGED <<conns, connections_, history>>

\* The functor of a connection at the head of loop l.
RunHead(l) ==
  LET f == Head(functors[l])
      rest == [functors EXCEPT ![l] = Tail(@)]
  IN  \/ f[1] = "connectEstablished" /\ connectEstablished(f[2], rest)
      \/ f[1] = "connectDestroyed" /\ connectDestroyed(f[2], rest)
      \/ f[1] = "forceCloseInLoop" /\ forceCloseInLoop(f[2], rest)
-----------------------------------------------------------------------------
(* ~TcpServer().                                                           *)

\* The base loop's functor; after the destructor it has no server to work on.
RemoveFunctor ==
  /\ pc = "idle" /\ functors[0] # << >> /\ Head(functors[0])[1] = "remove"
  /\ LET rest == [functors EXCEPT ![0] = Tail(@)]
     IN  IF server = "up" THEN removeConnectionInLoop(Head(functors[0])[2], rest)
         ELSE functors' = rest /\ UNCHANGED <<aborted, connections_>>
  /\ UNCHANGED <<pool, acceptor, nextConnId_, life, pc, io, conns, user, kernel,
                 mishaps>>

\* The members of a set one after the other, as an iteration over the map has them.
InSomeOrder(S) == CHOOSE s \in Bijection(1..Cardinality(S), S) : TRUE

\* The destructor's body: connectDestroyed() for every connection, in its loop.
Destroy ==
  /\ server = "up" /\ pc = "idle"
  /\ server' = "joining" /\ joining' = 1 /\ pc' = "join"
  /\ IF numThreads_ = 0
     THEN /\ conns' = [c \in Ids |-> IF c \in connections_
                                     THEN [conns[c] EXCEPT !.state_ = DestroyedState(@)]
                                     ELSE conns[c]]
          /\ UNCHANGED functors
     ELSE /\ functors' = [l \in Loops |-> functors[l] \o
                            InSomeOrder({<<"connectDestroyed", c>> :
                                        c \in {d \in connections_ : conns[d].loop = l}})]
          /\ UNCHANGED conns
  /\ connections_' = {}
  /\ mishaps' = mishaps
       \cup If(\E f \in Range(functors[0]) : f[1] = "remove", "deadServer")
       \cup If(numThreads_ = 0 /\ \E c \in connections_ : IsCutShort(c), "cutShort")
  /\ UNCHANGED <<pool, acceptor, nextConnId_, io, user, kernel, aborted>>

\* The members go: ~EventLoopThread() of each IO thread calls quit() ...
Quit ==
  /\ pc = "join" /\ joining \in IoLoops /\ listenning_ /\ ~io[joining].quit
  /\ io' = [io EXCEPT ![joining].quit = TRUE]
  /\ UNCHANGED <<pool, acceptor, map, life, pc, functors, conns, user, kernel,
                 history>>

\* ... and joins the thread.
Join ==
  /\ pc = "join" /\ joining \in IoLoops /\ listenning_ /\ io[joining].phase = "exited"
  /\ joining' = joining + 1
  /\ UNCHANGED <<pool, acceptor, map, server, pc, functors, io, conns, user, kernel,
                 history>>

\* ~Acceptor(), and the destructor is done.
Destroyed ==
  /\ pc = "join" /\ (joining > numThreads_ \/ ~listenning_)
  /\ server' = "gone" /\ pc' = "idle"
  /\ listenning_' = FALSE /\ idleFd_' = FALSE
  /\ UNCHANGED <<pool, got, map, joining, functors, io, conns, user, kernel, history>>
-----------------------------------------------------------------------------
(* The IO loops.                                                           *)

\* Whether loop l is at its events, whose callbacks it runs one after the other.
AtEvents(l) == IF l = 0 THEN pc = "idle" ELSE io[l].phase = "events"

\* The peer closes: handleClose() as an event.  A connection that was cut short or
\* revived is no longer polled (bound: none closes by an event after that).
Close(c) ==
  /\ Made(c) /\ Refs(c) /\ IsUp(c) /\ AtEvents(conns[c].loop)
  /\ mishaps \cap {"cutShort", "revived"} = {}
  /\ handleClose(c, functors)
  /\ UNCHANGED <<pool, acceptor, nextConnId_, life, pc, io, user, kernel>>

DoPendingFunctors(l) ==
  /\ io[l].phase = "events"
  /\ io' = [io EXCEPT ![l].phase = "functors", ![l].batch = Len(functors[l])]
  /\ UNCHANGED <<pool, acceptor, map, life, pc, functors, conns, user, kernel,
                 history>>

RunFunctor(l) ==
  /\ io[l].phase = "functors" /\ io[l].batch > 0
  /\ RunHead(l)
  /\ io' = [io EXCEPT ![l].batch = @ - 1]
  /\ UNCHANGED <<pool, acceptor, nextConnId_, life, pc, user, kernel>>

\* The same in the base loop, when it is the IO loop.
RunInBase ==
  /\ pc = "idle" /\ functors[0] # << >>
  /\ RunHead(0)
  /\ UNCHANGED <<pool, acceptor, nextConnId_, life, pc, io, user, kernel>>

\* The test of quit_ after the batch.  The functors that wait in a loop that ends
\* are dropped with it.
GoRound(l) ==
  /\ io[l].phase = "functors" /\ io[l].batch = 0
  /\ IF io[l].quit
     THEN /\ io' = [io EXCEPT ![l].phase = "exited"]
          /\ functors' = [functors EXCEPT ![l] = << >>]
          /\ mishaps' = mishaps \cup If(functors[l] # << >>, "leftBehind")
     ELSE /\ io' = [io EXCEPT ![l].phase = "events"]
          /\ UNCHANGED <<functors, mishaps>>
  /\ UNCHANGED <<pool, acceptor, map, life, pc, conns, user, kernel, aborted>>
-----------------------------------------------------------------------------
(* shutdown() and forceClose().  shutdownInLoop(), which changes nothing   *)
(* that is modelled here, is in TcpConnection.tla.                         *)

\* What the two calls ask of state_ before they set it to kDisconnecting.
Passes(call, c) == IF call = "shutdown" THEN conns[c].state_ = "kConnected" ELSE IsUp(c)

\* Bound: no call is begun after a mishap.
Begin(call, c) ==
  /\ Made(c) /\ Refs(c) /\ Passes(call, c) /\ NoMishap
  /\ calls < MaxCalls /\ calls' = calls + 1

\* The rest of the call, after the test: setState() and, in forceClose(), the functor.
SetDisconnecting(call, c) ==
  LET l == conns[c].loop
  IN  /\ conns' = [conns EXCEPT ![c].state_ = "kDisconnecting"]
      /\ functors' = IF call = "shutdown" THEN functors
                     ELSE Push(functors, l, <<"forceCloseInLoop", c>>)
      /\ mishaps' = mishaps
           \cup If(conns[c].state_ = "kDisconnected", "revived")
           \cup If(call = "forceClose" /\ l # 0 /\ io[l].phase = "exited", "leftBehind")
  /\ UNCHANGED <<pool, acceptor, map, life, pc, io, kernel, aborted>>

\* The call in a callback of the connection's own loop: nothing comes in between.
CallInLoop(call, c) ==
  /\ Begin(call, c)
  /\ LET l == conns[c].loop
     IN  IF l = 0 THEN pc = "idle" ELSE io[l].phase \in {"events", "functors"}
  /\ SetDisconnecting(call, c)
  /\ UNCHANGED caller

\* The call in another thread: the test of state_ ...
TestState(call, c) ==
  /\ caller = NoCall /\ Begin(call, c)
  /\ caller' = [call |-> call, conn |-> c]
  /\ UNCHANGED <<pool, acceptor, map, life, pc, functors, io, conns, kernel, history>>

\* ... and the rest, whatever has become of the connection.
FinishCall ==
  /\ caller # NoCall
  /\ SetDisconnecting(caller.call, caller.conn)
  /\ caller' = NoCall /\ UNCHANGED calls
-----------------------------------------------------------------------------
(* Clients and other threads.                                              *)

ClientConnects ==
  /\ listenning_ /\ arrived < MaxConns
  /\ arrived' = arrived + 1 /\ backlog' = backlog + 1
  /\ UNCHANGED <<pool, acceptor, map, life, pc, functors, io, conns, user, external,
                 history>>

ClientGivesUp ==
  /\ backlog > 0
  /\ backlog' = backlog - 1
  /\ UNCHANGED <<pool, acceptor, map, life, pc, functors, io, conns, user, arrived,
                 external,
                 history>>

OpensFile ==
  /\ Free > 0 /\ external < MaxExternal
  /\ external' = external + 1
  /\ mishaps' = mishaps \cup If(pc \in {"drop", "reopen"}, "fdTaken")
  /\ UNCHANGED <<pool, acceptor, map, life, pc, functors, io, conns, user, arrived,
                 backlog,
                 aborted>>

ClosesFile ==
  /\ external > 0
  /\ external' = external - 1
  /\ UNCHANGED <<pool, acceptor, map, life, pc, functors, io, conns, user, arrived,
                 backlog,
                 history>>
-----------------------------------------------------------------------------
\* The constructors of the EventLoopThreadPool and of the Acceptor.
NewPool == numThreads_ \in ThreadNums /\ next_ = 0
NewAcceptor == listenning_ = FALSE /\ idleFd_ = TRUE /\ got = FALSE

Init ==
  /\ NewPool /\ NewAcceptor
  /\ nextConnId_ = 1 /\ connections_ = {}
  /\ server = "up" /\ joining = 0 /\ pc = "idle"
  /\ functors = [l \in Loops |-> << >>]
  /\ io = [l \in IoLoops |-> [phase |-> "none", batch |-> 0, quit |-> FALSE]]
  /\ conns = [c \in Ids |-> [state_ |-> "kConnecting", loop |-> 0]]
  /\ caller = NoCall /\ calls = 0
  /\ arrived = 0 /\ backlog = 0 /\ external = 0
  /\ aborted = FALSE /\ mishaps = {}

BaseLoop ==
  \/ AcceptReady \/ Accept \/ AcceptNothing
  \/ CloseIdle \/ AcceptIdle \/ CloseGot \/ Reopen
  \/ RemoveFunctor \/ RunInBase \/ Quit \/ Join \/ Destroyed

IoLoop(l) == DoPendingFunctors(l) \/ RunFunctor(l) \/ GoRound(l)

Next ==
  /\ ~aborted
  /\ \/ Start \/ StartElsewhere \/ Destroy
     \/ BaseLoop
     \/ \E l \in IoLoops : IoLoop(l)
     \/ \E c \in Ids : Close(c)
     \/ \E call \in {"shutdown", "forceClose"}, c \in Ids :
          CallInLoop(call, c) \/ TestState(call, c)
     \/ FinishCall
     \/ ClientConnects \/ ClientGivesUp \/ OpensFile \/ ClosesFile

\* The base loop goes round, and the listening socket gets its turn among the other
\* events and the functors.  Nothing is asked of the IO loops.
Fairness == WF_vars(BaseLoop) /\ SF_vars(AcceptReady)

Spec == Init /\ [][Next]_vars /\ Fairness
-----------------------------------------------------------------------------
Assigned(l) == Cardinality({c \in Ids : Made(c) /\ conns[c].loop = l})

\* Round robin: at no time has one IO loop been given two connections more than
\* another, and next_ stays an index of loops_.
LoadBalanced ==
  /\ \A l, m \in IoLoops : Assigned(l) - Assigned(m) <= 1
  /\ numThreads_ > 0 => next_ \in 0..(numThreads_ - 1)

Removals(c) ==
  Cardinality({i \in DOMAIN functors[0] : functors[0][i] = <<"remove", c>>})

\* The map and the connections agree across the threads: while the server is up,
\* it holds exactly the connections that are not closed or whose one removal is
\* still on its way, so that the erase() of removeConnectionInLoop() always finds
\* its connection.  (Unless another thread's call has revived a closed connection,
\* which then may close once more.)
MapInStep ==
  server = "up" /\ "revived" \notin mishaps =>
    \A c \in Ids : Made(c) =>
      /\ c \in connections_ <=> conns[c].state_ # "kDisconnected" \/ Removals(c) = 1
      /\ Removals(c) <= 1

\* No connection is freed before it is kDisconnected, as ~TcpConnection() asserts:
\* what queues connectDestroyed() is always there to run it, also when the server
\* is destroyed.  The exceptions: an IO loop that quits between the push and the
\* batch, a connection that is shutting down when the server goes, and a call of
\* another thread that comes too late.
FreedClosed ==
  Unharmed => \A c \in Ids : Made(c) /\ ~Refs(c) => conns[c].state_ = "kDisconnected"

\* No client waits for ever in front of a server that is up, even when the process
\* has no descriptor left: it is accepted or dropped, and the level-triggered loop
\* does not spin on it, unless another thread took the idle descriptor while
\* handleRead() had it closed.
BacklogServed ==
  (listenning_ /\ backlog > 0) ~>
    (backlog = 0 \/ server # "up" \/ "fdTaken" \in mishaps \/ aborted)

TypeOK ==
  /\ next_ \in Nat /\ Free \in 0..FdLimit
  /\ nextConnId_ \in 1..(MaxConns + 1) /\ connections_ \subseteq Ids
  /\ \A c \in Ids : conns[c].loop \in Loops
  /\ mishaps \subseteq Mishaps

\* The books of the base loop are right whatever the IO loops do: the map has the
\* connections there are, and the round robin has spread them evenly.  (With the types.)
BooksInStep == TypeOK /\ MapInStep /\ LoadBalanced

=============================================================================
