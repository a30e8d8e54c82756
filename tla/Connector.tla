----------------------------- MODULE Connector ------------------------------
(***************************************************************************)
(* net/Connector.cpp: the object behind a TcpClient that opens a socket,   *)
(* waits for connect(2) to finish and retries with a growing delay.        *)
(*                                                                         *)
(* Its methods are operators from the object's state k to its next state;  *)
(* the modules that use them say from which thread each one runs and which *)
(* functors it leaves with the loop.  Besides the members of the class, k  *)
(* has what a run of the program can only observe outside of it:           *)
(*   timers    retry timers that hold a ConnectorPtr;                      *)
(*   fds       sockets opened here that nobody closed or took over;        *)
(*   gaveUp    the last connect(2) failed with an error that is not        *)
(*             retried;                                                    *)
(*   aborted   an assertion of the class has failed.                       *)
(***************************************************************************)
EXTENDS Integers, FiniteSetsExt

CONSTANTS kInitRetryDelayMs, kMaxRetryDelayMs

ASSUME DelayAssumption ==
  /\ kInitRetryDelayMs \in Nat \ {0}
  /\ kMaxRetryDelayMs \in Nat
  /\ kInitRetryDelayMs <= kMaxRetryDelayMs

States == {"kDisconnected", "kConnecting", "kConnected"}

\* channel_: a null pointer, a channel in the poller, or one taken out of it
\* that waits for resetChannel().
ChannelStates == {"null", "watched", "removed"}

Connectors ==
  [connect_ : BOOLEAN, state_ : States, channel_ : ChannelStates,
   retryDelayMs_ : kInitRetryDelayMs..kMaxRetryDelayMs,
   timers : Nat, fds : Int, gaveUp : BOOLEAN, aborted : BOOLEAN]

\* The constructor.
NewConnector ==
  [connect_ |-> FALSE, state_ |-> "kDisconnected", channel_ |-> "null",
   retryDelayMs_ |-> kInitRetryDelayMs,
   timers |-> 0, fds |-> 0, gaveUp |-> FALSE, aborted |-> FALSE]

\* What connect(2) returns, by the cases of connect(): under way or done; an
\* error to retry (EAGAIN, EADDRINUSE, EADDRNOTAVAIL, ECONNREFUSED,
\* ENETUNREACH); any other error.
Errnos == {"progress", "again", "other"}

\* What a finished attempt turns out to be, read from SO_ERROR and from the two
\* addresses of the socket.
Outcomes == {"error", "selfConnect", "connected"}
-----------------------------------------------------------------------------
closeForgotten(k) == k

\* sockets::close() of a socket of the connector.
close(k) == [k EXCEPT !.fds = @ - 1]

retryWithoutTimer(k) == [close(k) EXCEPT !.state_ = "kDisconnected"]

retryEverLonger(k) ==
  LET r == [close(k) EXCEPT !.state_ = "kDisconnected"]
  IN  IF k.connect_ THEN [r EXCEPT !.timers = @ + 1, !.retryDelayMs_ = 2 * @] ELSE r

\* retry(): the delay doubles up to its maximum.
retry(k) ==
  LET r == [close(k) EXCEPT !.state_ = "kDisconnected"]
  IN  IF k.connect_
      THEN [r EXCEPT !.timers = @ + 1,
                     !.retryDelayMs_ = Min({2 * @, kMaxRetryDelayMs})]
      ELSE r

\* connecting(): a channel that still waits for resetChannel() fails the
\* assertion.
connecting(k) ==
  [k EXCEPT !.state_ = "kConnecting", !.channel_ = "watched",
            !.aborted = @ \/ k.channel_ # "null"]

\* connect(): a new socket, and what connect(2) says of it.
connect(k, errno) ==
  LET opened == [k EXCEPT !.fds = @ + 1]
  IN  CASE errno = "progress" -> connecting(opened)
        [] errno = "again" -> retry(opened)
        [] errno = "other" -> [close(opened) EXCEPT !.gaveUp = TRUE]

startInLoop(k, errno) ==
  IF k.state_ # "kDisconnected" THEN [k EXCEPT !.aborted = TRUE]
  ELSE IF k.connect_ THEN connect(k, errno)
  ELSE k

\* start() up to the call of runInLoop(startInLoop).
start(k) == [k EXCEPT !.connect_ = TRUE, !.gaveUp = FALSE]

stopIgnored(k) == k

\* stop() up to the call of queueInLoop(stopInLoop).
stop(k) == [k EXCEPT !.connect_ = FALSE]

restartInState(k, errno) ==
  startInLoop([start(k) EXCEPT !.retryDelayMs_ = kInitRetryDelayMs], errno)

restart(k, errno) ==
  startInLoop([start(k) EXCEPT !.state_ = "kDisconnected",
                               !.retryDelayMs_ = kInitRetryDelayMs], errno)

\* removeAndResetChannel() up to the call of queueInLoop(resetChannel).
removeAndResetChannel(k) == [k EXCEPT !.channel_ = "removed"]

\* stopInLoop() of a connector that is connecting.
stopConnecting(k) == retry(removeAndResetChannel(k))

resetChannel(k) == [k EXCEPT !.channel_ = "null"]

\* handleWrite() with the socket's outcome; a socket that connected stays open
\* for newConnectionCallback_.
handleWrite(k, outcome) ==
  LET removed == removeAndResetChannel(k)
      done == [removed EXCEPT !.state_ = "kConnected"]
  IN  IF outcome # "connected" THEN retry(removed)
      ELSE IF k.connect_ THEN done ELSE close(done)

\* handleError(); the handleWrite() that Channel::handleEvent() may call after
\* it finds kDisconnected and does nothing.
handleError(k) == retry(removeAndResetChannel(k))
=============================================================================
