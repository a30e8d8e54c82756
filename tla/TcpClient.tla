----------------------------- MODULE TcpClient ------------------------------
(***************************************************************************)
(* net/TcpClient.cpp with its Connector (Connector.tla) and the            *)
(* connections it makes, one after the other.                              *)
(*                                                                         *)
(* Two threads act: the loop's, which runs functors, timers, events and    *)
(* the user's callbacks, and one other thread of the user.  Both call      *)
(* connect(), disconnect(), stop() and the destructor.  The loop polls,    *)
(* handles events of what it has polled, and runs the functors that wait   *)
(* by then; the order of the three is what keeps the connector's channel   *)
(* from being used again before it is reset.  A connection is what         *)
(* TcpConnection keeps of its life cycle: the state, the close callback    *)
(* and who holds a TcpConnectionPtr.                                       *)
(***************************************************************************)
EXTENDS Connector, Sequences, Functions

CONSTANTS Conns,        \* the TcpConnection objects, used again once freed
          NoConn,       \* a null TcpConnectionPtr
          MaxPending    \* bound: functors waiting when a call queues another

ASSUME ClientAssumption ==
  /\ NoConn \notin Conns /\ MaxPending \in Nat
  /\ Conns \cap {"connector", "retry", "holder"} = {}

VARIABLES connector,    \* the Connector: a record of Connector.tla
          connect_, retry_, connection_,
          alive,        \* the TcpClient is not destroyed
          phase,        \* of loop(): handling events, or running functors
          ready,        \* what poll() may have found ready and is not handled yet
          batch,        \* number of functors doPendingFunctors() has still to run
          functors,     \* those, then pendingFunctors_: <<name, connection>>
          holder,       \* the timer of the destructor that keeps the Connector
          connState,    \* TcpConnection::state_
          closeCallback_,
          held,         \* the user's TcpConnectionPtrs
          pc, cur,      \* where the loop's thread is, and in which connection
          leaving,      \* the other thread inside the destructor: its conn and unique
          caller,       \* or inside shutdown() or forceClose(), past the test of state_
          stopped,      \* stop() or the destructor was called, and no connect() since
          lost,         \* the last connection closed and was not to be replaced
          deadCall,     \* a TcpClient was called that is destroyed
          mishaps       \* what has undermined the client: see Mishaps

client == <<connect_, retry_, connection_, alive>>
conns == <<connState, closeCallback_, held>>
where == <<pc, cur, leaving, caller>>
history == <<stopped, lost, deadCall, mishaps>>
loop == <<phase, ready, batch>>
vars == <<connector, client, loop, functors, holder, conns, where, history>>

\* "busy": connect() came while an earlier one was still at work; "reconnect": it
\* came after a connection was made and is gone; "stopRaced": stop() of another
\* thread came after removeConnection() or handleWrite() had tested connect_ and
\* before what it decides; "revived": shutdown() or forceClose() of another thread,
\* whose test of state_ was before the close, set kDisconnecting after it;
\* "farThread": the destructor ran in another thread than the loop's; "inCallback":
\* it ran inside a callback of the connection; "early": it ran while functors of the
\* connector were waiting; "abandoned": the user let go of the last pointer to an
\* open connection.
Mishaps == {"busy", "reconnect", "stopRaced", "revived", "farThread", "inCallback",
            "early", "abandoned"}

Gone == [conn |-> NoConn, unique |-> FALSE, in |-> FALSE]
NoCall == [call |-> "none", conn |-> NoConn]

ConnectorFunctors == {"startInLoop", "stopInLoop", "resetChannel"}

Waiting(names) == \E f \in Range(functors) : f[1] \in names

\* The destructor runs in the frame of the other thread; the members of the
\* client exist until it returns.
Refs(c) ==
  \/ alive /\ connection_ = c
  \/ held[c]
  \/ \E f \in Range(functors) : f[2] = c
  \/ cur = c
  \/ leaving.conn = c
  \/ caller.conn = c

\* Somebody holds a ConnectorPtr: the client, a timer, or the functor that is to
\* add the destructor's timer.
ConnectorReferenced ==
  alive \/ holder \/ connector.timers > 0 \/ Waiting({"addTimerInLoop"})

\* No earlier connect() is at work, and no connection is there.
Idle ==
  /\ connector.state_ # "kConnecting" /\ connector.channel_ = "null"
  /\ connector.timers = 0 /\ ~Waiting(ConnectorFunctors)
  /\ connection_ = NoConn /\ pc \notin {"restart", "connected"}

\* disconnect() of the other thread holds mutex_ while it is inside shutdown().
Locked == caller.call = "shutdown"

Mishap(names) == mishaps' = mishaps \cup names
If(cond, name) == IF cond THEN {name} ELSE {}

\* Bounds: no call is begun after a mishap, or while many functors wait.
NoMishap == mishaps = {}
MayCall(t) ==
  /\ alive /\ NoMishap /\ Len(functors) < MaxPending
  /\ t = "loop" => pc \in {"idle", "established", "message", "closing"}
  /\ t = "other" => ~leaving.in /\ caller = NoCall

Queue(fs) == functors' = functors \o fs
-----------------------------------------------------------------------------
(* What the user calls, from thread t.                                     *)

Connect(t) ==
  /\ MayCall(t)
  /\ connect_' = TRUE
  /\ \/ /\ t = "loop"
        /\ \E e \in Errnos : connector' = startInLoop(start(connector), e)
        /\ UNCHANGED functors
     \/ /\ t = "other"
        /\ connector' = start(connector)
        /\ Queue(<< <<"startInLoop", NoConn>> >>)
  /\ stopped' = FALSE /\ lost' = FALSE
  /\ Mishap(If(~Idle, "busy") \cup If(Idle /\ connector.state_ = "kConnected", "reconnect"))
  /\ UNCHANGED <<loop, retry_, connection_, alive, holder, conns, where, deadCall>>

\* The condition of TcpConnection::shutdown().
CanShutdown(c) == c # NoConn /\ connState[c] = "kConnected"

\* disconnect(): what shutdown() does to the socket is in TcpConnection.tla.  In the
\* loop's thread nothing comes in between; the other thread tests state_ ...
Disconnect(t) ==
  /\ MayCall(t) /\ ~Locked
  /\ connect_' = FALSE
  /\ \/ /\ t = "loop"
        /\ connState' = [c \in Conns |-> IF c = connection_ /\ CanShutdown(c)
                                         THEN "kDisconnecting" ELSE connState[c]]
        /\ UNCHANGED caller
     \/ /\ t = "other"
        /\ caller' = IF CanShutdown(connection_)
                     THEN [call |-> "shutdown", conn |-> connection_] ELSE caller
        /\ UNCHANGED connState
  /\ UNCHANGED <<loop, connector, retry_, connection_, alive, functors, holder,
                 closeCallback_, held, pc, cur, leaving, history>>

\* ... and then sets it and, in forceClose(), queues the functor, whatever has become
\* of the connection.
FinishCall ==
  /\ caller # NoCall
  /\ connState' = [connState EXCEPT ![caller.conn] = "kDisconnecting"]
  /\ Queue(IF Locked THEN << >> ELSE << <<"forceCloseInLoop", caller.conn>> >>)
  /\ Mishap(If(connState[caller.conn] = "kDisconnected", "revived"))
  /\ caller' = NoCall
  /\ UNCHANGED <<loop, connector, client, holder, closeCallback_, held, pc, cur, leaving,
                 stopped, lost, deadCall>>

Stop(t) ==
  /\ MayCall(t)
  /\ connect_' = FALSE
  /\ connector' = stop(connector)
  /\ Queue(<< <<"stopInLoop", NoConn>> >>)
  /\ stopped' = TRUE
  /\ Mishap(If(pc \in {"restart", "connected"}, "stopRaced"))
  /\ UNCHANGED <<loop, retry_, connection_, alive, holder, conns, where, lost, deadCall>>

enableRetry ==
  /\ MayCall("loop") /\ ~retry_
  /\ retry_' = TRUE
  /\ UNCHANGED <<loop, connector, connect_, connection_, alive, functors, holder, conns,
                 where, history>>

\* The user copies connection() to keep it, closes it, and lets go of it.
Hold(c) ==
  /\ MayCall("loop") \/ MayCall("other")
  /\ ~Locked /\ connection_ = c /\ ~held[c]
  /\ held' = [held EXCEPT ![c] = TRUE]
  /\ UNCHANGED <<loop, connector, client, functors, holder, connState, closeCallback_,
                 where, history>>

\* TcpConnection::forceClose().
CanForceClose(c) == connState[c] \in {"kConnected", "kDisconnecting"}

ForceClose(t, c) ==
  /\ held[c] \/ (t = "loop" /\ cur = c)
  /\ Len(functors) < MaxPending /\ NoMishap
  /\ CanForceClose(c)
  /\ \/ /\ t = "loop" /\ pc \in {"idle", "established", "message", "closing"}
        /\ connState' = [connState EXCEPT ![c] = "kDisconnecting"]
        /\ Queue(<< <<"forceCloseInLoop", c>> >>)
        /\ UNCHANGED caller
     \/ /\ t = "other" /\ ~leaving.in /\ caller = NoCall
        /\ caller' = [call |-> "forceClose", conn |-> c]
        /\ UNCHANGED <<connState, functors>>
  /\ UNCHANGED <<loop, connector, client, holder, closeCallback_, held, pc, cur, leaving,
                 history>>

LetGo(c) ==
  /\ held[c] /\ NoMishap
  /\ held' = [held EXCEPT ![c] = FALSE]
  /\ UNCHANGED <<loop, connector, client, functors, holder, connState, closeCallback_,
                 where, stopped, lost, deadCall>>
  /\ Mishap(If(/\ ~alive \/ connection_ # c
               /\ CanForceClose(c) /\ caller.conn # c
               /\ \A f \in Range(functors) : f[2] # c, "abandoned"))
-----------------------------------------------------------------------------
(* The destructor.                                                         *)

\* connection_.unique()
NoOtherPointer(c) ==
  ~held[c] /\ cur # c /\ caller.conn # c /\ \A f \in Range(functors) : f[2] # c

LeaveCallback(t, cb) == cb

\* The close callback of the connection once the destructor has returned.
Rebind(t, cb) == IF t = "loop" THEN "detail" ELSE cb

DropConnector(t) == FALSE

\* The destructor has added a timer that holds a ConnectorPtr.
KeepConnector(t) == t = "loop"

\* The rest of the destructor, with its locals conn and unique, in thread t.  In
\* the loop's thread runInLoop() runs at once what it queues elsewhere.
Finish(t, conn, unique) ==
  LET forced == IF unique /\ CanForceClose(conn) THEN << <<"forceCloseInLoop", conn>> >>
                                                 ELSE << >>
      rebind == IF t = "loop" THEN << >> ELSE << <<"setCloseCallback", conn>> >>
  IN  /\ alive' = FALSE
      /\ stopped' = (stopped \/ conn = NoConn)
      /\ \/ /\ conn # NoConn
            /\ closeCallback_' = [closeCallback_ EXCEPT ![conn] = Rebind(t, @)]
            /\ Queue(rebind \o forced)
            /\ connState' = [connState EXCEPT ![conn] = IF forced # << >>
                                                        THEN "kDisconnecting" ELSE @]
            /\ UNCHANGED <<connector, holder>>
         \/ /\ conn = NoConn
            /\ connector' = stop(connector)
            /\ Queue(<< <<"stopInLoop", NoConn>> >> \o
                     IF t = "loop" THEN << >> ELSE << <<"addTimerInLoop", NoConn>> >>)
            /\ holder' = KeepConnector(t)
            /\ UNCHANGED <<connState, closeCallback_>>

Destroy ==
  /\ MayCall("loop") /\ ~Locked
  /\ Finish("loop", connection_, connection_ # NoConn /\ NoOtherPointer(connection_))
  /\ Mishap(If(cur # NoConn, "inCallback")
            \cup If(connection_ # NoConn /\ Waiting(ConnectorFunctors), "early"))
  /\ UNCHANGED <<loop, connect_, retry_, connection_, held, where, lost, deadCall>>

DestroyElsewhere ==
  /\ MayCall("other")
  /\ leaving' = [conn |-> connection_, in |-> TRUE,
                 unique |-> connection_ # NoConn /\ NoOtherPointer(connection_)]
  /\ Mishap({"farThread"})
  /\ UNCHANGED <<loop, connector, client, functors, holder, conns, pc, cur, caller, stopped,
                 lost, deadCall>>

FinishElsewhere ==
  /\ leaving.in
  /\ Finish("other", leaving.conn, leaving.unique)
  /\ leaving' = Gone
  /\ UNCHANGED <<loop, connect_, retry_, connection_, held, pc, cur, caller, lost,
                 deadCall, mishaps>>
-----------------------------------------------------------------------------
(* EventLoop::loop().                                                      *)

\* poll() returns: the channel of an attempt, the connections whose channel is in
\* the poller, and the timers that are due.  Any of them may have nothing to handle.
\* A connection that was revived is not polled (bound: none is, after that).
Poll ==
  /\ phase = "functors" /\ pc = "idle" /\ batch = 0
  /\ phase' = "events"
  /\ ready' = If(connector.channel_ = "watched", "connector")
              \cup If(connector.timers > 0, "retry") \cup If(holder, "holder")
              \cup {c \in Conns : Refs(c) /\ CanForceClose(c) /\ "revived" \notin mishaps}
  /\ UNCHANGED <<batch, connector, client, functors, holder, conns, where, history>>

DoPendingFunctors ==
  /\ phase = "events" /\ pc = "idle"
  /\ phase' = "functors" /\ ready' = {} /\ batch' = Len(functors)
  /\ UNCHANGED <<connector, client, functors, holder, conns, where, history>>
-----------------------------------------------------------------------------
(* The connector in the loop's thread.                                     *)

\* The next functor of the batch has this name, and the loop takes it.
Takes(name) ==
  /\ phase = "functors" /\ pc = "idle" /\ batch > 0 /\ Head(functors)[1] = name
  /\ batch' = batch - 1
  /\ UNCHANGED <<phase, ready>>

Runs(name) == Takes(name) /\ functors' = Tail(functors)

\* The loop handles the event that poll() found for x.
Handles(x) ==
  /\ phase = "events" /\ pc = "idle" /\ x \in ready
  /\ ready' = ready \ {x}
  /\ UNCHANGED <<phase, batch>>

StartInLoop ==
  /\ Runs("startInLoop")
  /\ \E e \in Errnos : connector' = startInLoop(connector, e)
  /\ UNCHANGED <<client, holder, conns, where, history>>

StopInLoop ==
  /\ Takes("stopInLoop")
  /\ IF connector.state_ = "kConnecting"
     THEN /\ connector' = stopConnecting(connector)
          /\ functors' = Append(Tail(functors), <<"resetChannel", NoConn>>)
     ELSE functors' = Tail(functors) /\ UNCHANGED connector
  /\ UNCHANGED <<client, holder, conns, where, history>>

ResetChannel ==
  /\ Runs("resetChannel")
  /\ connector' = resetChannel(connector)
  /\ UNCHANGED <<client, holder, conns, where, history>>

\* Assumed: kInitRetryDelayMs is enough for the loop to run the resetChannel that
\* was queued together with the timer.
RetryTimer ==
  /\ Handles("retry") /\ connector.timers > 0 /\ ~Waiting({"resetChannel"})
  /\ \E e \in Errnos :
       connector' = startInLoop([connector EXCEPT !.timers = @ - 1], e)
  /\ UNCHANGED <<client, functors, holder, conns, where, history>>

HandleError ==
  /\ Handles("connector") /\ connector.channel_ = "watched"
  /\ connector' = handleError(connector)
  /\ Queue(<< <<"resetChannel", NoConn>> >>)
  /\ UNCHANGED <<client, holder, conns, where, history>>

\* handleWrite() of an attempt that failed, or that stop() has overtaken.
HandleWrite(outcome) ==
  /\ Handles("connector") /\ connector.channel_ = "watched"
  /\ outcome # "connected" \/ ~connector.connect_
  /\ connector' = handleWrite(connector, outcome)
  /\ Queue(<< <<"resetChannel", NoConn>> >>)
  /\ UNCHANGED <<client, holder, conns, where, history>>

\* handleWrite() of an attempt that succeeded, up to newConnectionCallback_ (bound: a
\* TcpConnection is left for it) ...
Connected ==
  /\ Handles("connector") /\ connector.channel_ = "watched" /\ connector.connect_
  /\ \E c \in Conns : ~Refs(c)
  /\ connector' = handleWrite(connector, "connected")
  /\ Queue(<< <<"resetChannel", NoConn>> >>)
  /\ pc' = "connected"
  /\ UNCHANGED <<client, holder, conns, cur, leaving, caller, history>>

\* ... which is TcpClient::newConnection(), up to the user's connectionCallback_
\* inside connectEstablished().  The connection owns the socket from here on.  While
\* it is kConnecting no call has an effect on it.
NewConnection(c) ==
  /\ pc = "connected" /\ ~Refs(c)
  /\ connector' = close(connector)
  /\ \/ /\ alive /\ ~Locked
        /\ connection_' = c
        /\ connState' = [connState EXCEPT ![c] = "kConnected"]
        /\ closeCallback_' = [closeCallback_ EXCEPT ![c] = "client"]
        /\ pc' = "established" /\ cur' = c
        /\ UNCHANGED deadCall
     \/ /\ ~alive
        /\ deadCall' = TRUE /\ pc' = "idle"
        /\ UNCHANGED <<connection_, connState, closeCallback_, cur>>
  /\ UNCHANGED <<loop, connect_, retry_, alive, functors, holder, held, leaving, caller,
                 stopped, lost, mishaps>>

\* The destructor's runAfter(1, removeConnector), when it ran in another thread.
AddTimerInLoop ==
  /\ Runs("addTimerInLoop")
  /\ holder' = TRUE
  /\ UNCHANGED <<connector, client, conns, where, history>>

\* The destructor's timer.  Assumed: a second is enough for the loop to run the
\* functors stopInLoop and resetChannel.
RemoveConnector ==
  /\ Handles("holder") /\ holder /\ functors = << >>
  /\ holder' = FALSE
  /\ UNCHANGED <<connector, client, functors, conns, where, history>>
-----------------------------------------------------------------------------
(* The connection in the loop's thread.                                    *)

Message(c) ==
  /\ Handles(c) /\ Refs(c) /\ CanForceClose(c)
  /\ pc' = "message" /\ cur' = c
  /\ UNCHANGED <<connector, client, functors, holder, conns, leaving, caller, history>>

\* A callback of the user returns: the message callback, or the connection
\* callback of connectEstablished().
CallbackReturns ==
  /\ pc \in {"message", "established"}
  /\ pc' = "idle" /\ cur' = NoConn
  /\ UNCHANGED <<loop, connector, client, functors, holder, conns, leaving, caller, history>>

\* handleClose() up to the user's connectionCallback_.
handleClose(c) ==
  /\ connState' = [connState EXCEPT ![c] = "kDisconnected"]
  /\ pc' = "closing" /\ cur' = c

PeerCloses(c) ==
  /\ Handles(c) /\ Refs(c) /\ CanForceClose(c)
  /\ handleClose(c)
  /\ UNCHANGED <<connector, client, functors, holder, closeCallback_, held, leaving,
                 caller, history>>

ForceCloseInLoop ==
  /\ Runs("forceCloseInLoop")
  /\ LET c == Head(functors)[2]
     IN  IF CanForceClose(c) THEN handleClose(c) ELSE UNCHANGED <<connState, pc, cur>>
  /\ UNCHANGED <<connector, client, holder, closeCallback_, held, leaving, caller,
                 history>>

SetCloseCallback ==
  /\ Runs("setCloseCallback")
  /\ closeCallback_' = [closeCallback_ EXCEPT ![Head(functors)[2]] = "detail"]
  /\ UNCHANGED <<connector, client, holder, connState, held, where, history>>

\* connectDestroyed(); the state is not kConnected by then.
ConnectDestroyed ==
  /\ Runs("connectDestroyed")
  /\ UNCHANGED <<connector, client, holder, conns, where, history>>

\* detail::removeConnection(), the close callback the destructor leaves behind.
RemoveDetached ==
  /\ pc = "closing" /\ closeCallback_[cur] = "detail"
  /\ Queue(<< <<"connectDestroyed", cur>> >>)
  /\ pc' = "idle" /\ cur' = NoConn
  /\ UNCHANGED <<loop, connector, client, holder, conns, leaving, caller, history>>

\* TcpClient::removeConnection() up to the call of restart().
RemoveConnection ==
  /\ pc = "closing" /\ closeCallback_[cur] = "client"
  /\ \/ /\ alive /\ ~Locked
        /\ connector' = [connector EXCEPT !.aborted = @ \/ connection_ # cur]
        /\ connection_' = NoConn
        /\ Queue(<< <<"connectDestroyed", cur>> >>)
        /\ IF retry_ /\ connect_
           THEN pc' = "restart" /\ UNCHANGED <<cur, lost>>
           ELSE pc' = "idle" /\ cur' = NoConn /\ lost' = TRUE
        /\ UNCHANGED deadCall
     \/ /\ ~alive
        /\ deadCall' = TRUE
        /\ pc' = "idle" /\ cur' = NoConn
        /\ UNCHANGED <<connector, connection_, functors, lost>>
  /\ UNCHANGED <<loop, connect_, retry_, alive, holder, conns, leaving, caller, stopped,
                 mishaps>>

Restart ==
  /\ pc = "restart"
  /\ \E e \in Errnos : connector' = restart(connector, e)
  /\ pc' = "idle" /\ cur' = NoConn
  /\ UNCHANGED <<loop, client, functors, holder, conns, leaving, caller, history>>
-----------------------------------------------------------------------------
Init ==
  /\ connector = NewConnector
  /\ connect_ = TRUE /\ retry_ = FALSE /\ connection_ = NoConn /\ alive = TRUE
  /\ phase = "events" /\ ready = {} /\ batch = 0 /\ functors = << >>
  /\ holder = FALSE
  /\ connState = [c \in Conns |-> "kDisconnected"]
  /\ closeCallback_ = [c \in Conns |-> "client"]
  /\ held = [c \in Conns |-> FALSE]
  /\ pc = "idle" /\ cur = NoConn /\ leaving = Gone /\ caller = NoCall
  /\ stopped = FALSE /\ lost = FALSE /\ deadCall = FALSE /\ mishaps = {}

UserCall(t) ==
  Connect(t) \/ Disconnect(t) \/ Stop(t) \/ \E c \in Conns : ForceClose(t, c)

UserWithPointer(c) == Hold(c) \/ LetGo(c)

RunFunctor ==
  \/ StartInLoop \/ StopInLoop \/ ResetChannel \/ AddTimerInLoop
  \/ SetCloseCallback \/ ForceCloseInLoop \/ ConnectDestroyed

Timers == RetryTimer \/ RemoveConnector

FinishHandler ==
  \/ CallbackReturns \/ RemoveDetached \/ RemoveConnection \/ Restart
  \/ \E c \in Conns : NewConnection(c)

FinishOther == FinishElsewhere \/ FinishCall

Events ==
  \/ HandleError \/ Connected
  \/ \E o \in Outcomes : HandleWrite(o)
  \/ \E c \in Conns : Message(c) \/ PeerCloses(c)

Next ==
  /\ ~connector.aborted
  /\ \/ \E t \in {"loop", "other"} : UserCall(t)
     \/ enableRetry \/ Destroy \/ DestroyElsewhere
     \/ \E c \in Conns : UserWithPointer(c)
     \/ Poll \/ DoPendingFunctors \/ RunFunctor \/ Timers \/ FinishHandler \/ FinishOther \/ Events

\* The loop goes round, timers that are due fire, and a handler, a callback or a call
\* of the other thread that was begun returns.
Fairness ==
  /\ WF_vars(Poll) /\ WF_vars(DoPendingFunctors) /\ WF_vars(RunFunctor)
  /\ SF_vars(RetryTimer) /\ SF_vars(RemoveConnector)
  /\ WF_vars(FinishHandler) /\ WF_vars(FinishOther)

Spec == Init /\ [][Next]_vars /\ Fairness
-----------------------------------------------------------------------------
TypeOK ==
  /\ connector \in Connectors
  /\ connect_ \in BOOLEAN /\ retry_ \in BOOLEAN /\ alive \in BOOLEAN
  /\ connection_ \in Conns \cup {NoConn} /\ cur \in Conns \cup {NoConn}
  /\ connState \in [Conns -> {"kConnected", "kDisconnecting", "kDisconnected"}]

\* startInLoop() finds kDisconnected, connecting() finds that resetChannel() has run,
\* and removeConnection() finds the connection it is told about, as each asserts.
\* The exceptions: connect() while an earlier one is at work or after a connection
\* was made (see ConnectAgain), and a closed connection that another thread revived.
AssertionsHold ==
  connector.aborted => mishaps \cap {"busy", "reconnect", "revived"} # {}

\* A client with nothing under way can connect() once more.  The code does not have
\* this: state_ of the Connector stays kConnected when the connection is gone, and
\* startInLoop() asserts kDisconnected.
ConnectAgain == connector.aborted => mishaps \cap {"busy", "revived"} # {}

\* The connector's sockets: one while an attempt is watched and until its connection
\* takes it over, none otherwise.  No path of retry(), stop, self-connect or success
\* leaks a socket or closes one twice, and the channel in the poller is that of an
\* attempt.
SocketsAccounted ==
  ~connector.aborted =>
    /\ connector.fds = IF connector.channel_ = "watched" \/ pc = "connected" THEN 1 ELSE 0
    /\ connector.channel_ = "watched" <=> connector.state_ = "kConnecting"

\* A TcpConnection is freed only once it is closed, as its destructor asserts,
\* and nobody calls newConnection() or removeConnection() of a destroyed client,
\* unless the destructor ran in another thread or inside a callback ("FIXME: not
\* 100% safe"), the user abandons a connection, or a call of another thread revived
\* it ("FIXME: use compare and swap").
ClosedBeforeFreed ==
  mishaps \cap {"farThread", "inCallback", "abandoned", "revived"} = {} =>
    /\ \A c \in Conns : ~Refs(c) => connState[c] = "kDisconnected"
    /\ ~deadCall

\* The Connector outlives what holds a raw pointer to it: when the last
\* ConnectorPtr goes, the channel is reset and none of its functors waits.
ConnectorOutlives ==
  ~ConnectorReferenced /\ mishaps \cap {"farThread", "inCallback", "early"} = {}
    => connector.channel_ = "null" /\ ~Waiting(ConnectorFunctors)

\* A connector that was told to connect is at it: an attempt is watched, a retry
\* timer or a functor will start one, or a connection was made and is either
\* there or to be replaced; the exceptions are an error of connect(2) that is
\* not retried and a connection that was not to be replaced, the mishaps that
\* fail the assertions, and a destructor in the other thread.
KeepsTrying ==
  connector.connect_ /\ mishaps \cap {"busy", "reconnect", "revived", "farThread"} = {} =>
    \/ connector.state_ = "kConnecting" \/ connector.timers > 0
    \/ Waiting({"startInLoop"}) \/ connection_ # NoConn \/ pc \in {"restart", "connected"}
    \/ connector.gaveUp \/ lost

\* stop() holds until the next connect(): no connection is made after it, not even
\* one that the kernel had completed, and once stopInLoop() has run no attempt is
\* under way; only a removeConnection() or handleWrite() that had already tested
\* connect_ undoes it, or a restart that meets the destructor in the other thread.
StopHolds ==
  [][stopped /\ stopped' /\ mishaps \cap {"stopRaced", "farThread"} = {} =>
       /\ connection_' \in {connection_, NoConn}
       /\ ~Waiting({"stopInLoop"})' => connector'.state_ # "kConnecting"]_vars

\* A client destroyed in the loop's thread, outside of callbacks, leaves nothing
\* behind: its Connector is freed, and so is every connection the user does not
\* hold.
LeavesNothing ==
  (~alive /\ NoMishap) ~>
    (\/ ~ConnectorReferenced /\ \A c \in Conns : Refs(c) => held[c]
     \/ ~NoMishap)

\* What is owned is let go of when it should be: sockets of failed attempts,
\* connections once they are closed, the Connector once nothing refers to it.  (With the types.)
ReleasedInTime == TypeOK /\ SocketsAccounted /\ ClosedBeforeFreed /\ ConnectorOutlives

\* The attempts go on as they should: no assertion on the connector's state fails,
\* and a connector that is to connect never falls idle.
AttemptsGoOn == AssertionsHold /\ KeepsTrying

\* What stop() and the destructor end stays ended and is cleared away.
EndsForGood == StopHolds /\ LeavesNothing

=============================================================================
