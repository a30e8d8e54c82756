--------------------------- MODULE TcpConnection ----------------------------
(***************************************************************************)
(* net/TcpConnection.cpp with its Channel (net/Channel.cpp): one           *)
(* connection of a TcpServer, from connectEstablished() to its destructor. *)
(*                                                                         *)
(* Four parties act on it: the thread of its loop, which handles events,   *)
(* runs functors and runs the user's callbacks; other threads that hold a  *)
(* TcpConnectionPtr; the server's base loop, which takes the connection    *)
(* out of its map; and the kernel with the peer behind it.  The functors   *)
(* of the loop are the FIFO that EventLoop.tla specifies.                  *)
(*                                                                         *)
(* Bytes are numbered in the order in which sendInLoop() takes them.       *)
(***************************************************************************)
EXTENDS Integers, Sequences, Functions

CONSTANTS Others,       \* threads, other than the loop's, that have a pointer
          OtherCalls,   \* the methods they call
          Lens,         \* lengths of the messages sent
          highWaterMark_,
          MaxBytes,     \* bound: bytes passed to send()
          MaxPending    \* bound: functors waiting when a call queues another

ASSUME ConnectionAssumption ==
  /\ OtherCalls \subseteq {"send", "shutdown", "forceClose", "startRead", "stopRead"}
  /\ Lens \subseteq Nat \ {0}
  /\ highWaterMark_ \in Nat /\ MaxBytes \in Nat /\ MaxPending \in Nat

VARIABLES state_, reading_,
          events_,            \* what channel_ is interested in
          index_,             \* of channel_: kNew, kAdded to epoll, or kDeleted
          outputBuffer_,
          pc,                 \* the loop's thread inside handleEvent()
          revents_,
          pendingFunctors_,
          caller,             \* another thread between its test of state_ and the rest
          pointers,           \* the other threads that have a pointer
          inMap,              \* the server's map has the connection
          removals,           \* removeConnectionInLoop() waiting in the base loop
          destroyed,          \* the TcpServer's destructor has run
          delays,             \* timers of forceCloseWithDelay()
          sock,               \* the kernel's socket
          written,            \* bytes the kernel has taken
          asked,              \* number of bytes passed to send()
          taken,              \* number of bytes sendInLoop() has taken
          dropped,            \* some were dropped after a fault
          closes,             \* calls of closeCallback_
          mishaps             \* what has undermined the life cycle: see Mishaps

conn == <<state_, reading_, events_, index_, outputBuffer_>>
handling == <<pc, revents_>>
others == <<caller, pointers>>
server == <<inMap, removals, destroyed, delays>>
kernel == <<sock, written>>
history == <<asked, taken, dropped, closes, mishaps>>
vars == <<conn, handling, pendingFunctors_, others, server, kernel, history>>

\* The functors that hold only a raw pointer to the connection.
Raw == {"sendInLoop", "shutdownInLoop", "startReadInLoop", "stopReadInLoop"}

\* Somebody has a TcpConnectionPtr: the map, the guard of handleEvent(), a
\* functor, the base loop's functor or another thread.
Alive ==
  \/ inMap \/ removals > 0 \/ pointers # {} \/ pc # "idle"
  \/ \E f \in Range(pendingFunctors_) : f[1] \notin Raw

\* "revived": another thread set state_ back from kDisconnected; "lateRead":
\* startRead() or stopRead() came to a closed connection; "readded": the first
\* handleClose() put a channel without interest back into epoll; "cutShort": the
\* server was destroyed while the connection was kDisconnecting; "deadServer": a
\* callback bound to the server was left, or made, after its destructor.
Mishaps == {"revived", "lateRead", "readded", "cutShort", "deadServer"}

MishapIf(cond, name) == mishaps' = IF cond THEN mishaps \cup {name} ELSE mishaps

\* Bounds: no call is begun after a mishap, or while many functors wait.
NoMishap == mishaps = {}
MayQueue == Len(pendingFunctors_) < MaxPending
-----------------------------------------------------------------------------
WriteDirectlyAlways == TRUE

\* Channel::update() with EPollPoller::updateChannel(): a channel that is not in
\* epoll is added, also when it has no interest in any event.
Update(events) ==
  /\ events_' = events
  /\ index_' = IF index_ = "kAdded" /\ events = {} THEN "kDeleted" ELSE "kAdded"

\* sendInLoop() may write to the socket when nothing is waiting in front.
WriteDirectly == "write" \notin events_ /\ outputBuffer_ = << >>

\* The callback queued when the output buffer grows from len by n bytes.
HighWater(len, n) ==
  IF len + n >= highWaterMark_ /\ len < highWaterMark_
  THEN << <<"highWaterMark", 0>> >> ELSE << >>

KeepSilently(bytes, fs) ==
  /\ outputBuffer_' = outputBuffer_ \o bytes
  /\ pendingFunctors_' = fs \o HighWater(Len(outputBuffer_), Len(bytes))
  /\ UNCHANGED <<events_, index_>>

Keep(bytes, fs) ==
  /\ outputBuffer_' = outputBuffer_ \o bytes
  /\ Update(events_ \cup {"write"})
  /\ pendingFunctors_' = fs \o HighWater(Len(outputBuffer_), Len(bytes))

\* sendInLoop() of len bytes, while the functors fs are waiting.
sendInLoop(len, fs) ==
  LET bytes == [i \in 1..len |-> taken + i]
  IN  \/ /\ state_ = "kDisconnected"
         /\ pendingFunctors_' = fs
         /\ UNCHANGED <<events_, index_, outputBuffer_, written, taken, dropped>>
      \/ /\ state_ # "kDisconnected"
         /\ taken' = taken + len
         /\ \/ /\ WriteDirectly /\ ~sock.shut /\ ~sock.rst
               /\ \E n \in 0..len :
                    /\ written' = written \o SubSeq(bytes, 1, n)
                    /\ IF n = len
                       THEN /\ pendingFunctors_' = Append(fs, <<"writeComplete", 0>>)
                            /\ UNCHANGED <<events_, index_, outputBuffer_>>
                       ELSE Keep(SubSeq(bytes, n + 1, len), fs)
               /\ UNCHANGED dropped
            \/ /\ WriteDirectly /\ (sock.shut \/ sock.rst)       \* EPIPE, ECONNRESET
               /\ dropped' = TRUE
               /\ pendingFunctors_' = fs
               /\ UNCHANGED <<events_, index_, outputBuffer_, written>>
            \/ /\ ~WriteDirectly
               /\ Keep(bytes, fs)
               /\ UNCHANGED <<written, dropped>>

shutdownAtOnce(events) == sock' = [sock EXCEPT !.shut = TRUE]

shutdownInLoop(events) ==
  sock' = IF "write" \notin events THEN [sock EXCEPT !.shut = TRUE] ELSE sock

handleCloseEnabled ==
  /\ state_' = "kDisconnected"
  /\ closes' = closes + 1
  /\ removals' = removals + 1
  /\ UNCHANGED <<events_, index_, mishaps>>

handleCloseUntold ==
  /\ state_' = "kDisconnected"
  /\ Update({})
  /\ UNCHANGED <<closes, removals, mishaps>>

\* handleClose(); closeCallback_ is TcpServer::removeConnection().
handleClose ==
  /\ state_' = "kDisconnected"
  /\ Update({})
  /\ closes' = closes + 1
  /\ removals' = removals + 1
  /\ mishaps' = mishaps \cup (IF index_ = "kDeleted" /\ state_ # "kDisconnected"
                                     THEN {"readded"} ELSE {})
                        \cup (IF destroyed THEN {"deadServer"} ELSE {})

closing == <<state_, events_, index_, closes, removals, mishaps>>

startReadInLoop ==
  /\ IF ~reading_ \/ "read" \notin events_
     THEN Update(events_ \cup {"read"}) /\ reading_' = TRUE
     ELSE UNCHANGED <<events_, index_, reading_>>
  /\ MishapIf(state_ = "kDisconnected", "lateRead")

stopReadInLoop ==
  /\ IF reading_ \/ "read" \in events_
     THEN Update(events_ \ {"read"}) /\ reading_' = FALSE
     ELSE UNCHANGED <<events_, index_, reading_>>
  /\ MishapIf(state_ = "kDisconnected", "lateRead")
-----------------------------------------------------------------------------
\* The constructor, with that of its Channel.
NewTcpConnection ==
  /\ state_ = "kConnecting" /\ reading_ = TRUE
  /\ events_ = {} /\ index_ = "kNew"
  /\ outputBuffer_ = << >>

\* TcpServer::newConnection() has put the connection into its map and queued
\* connectEstablished() in the connection's loop.
Init ==
  /\ NewTcpConnection
  /\ pc = "idle" /\ revents_ = {}
  /\ pendingFunctors_ = << <<"connectEstablished", 0>> >>
  /\ caller = [t \in Others |-> "none"]
  /\ pointers = {}
  /\ inMap = TRUE /\ removals = 0 /\ destroyed = FALSE /\ delays = 0
  /\ sock = [in |-> FALSE, fin |-> FALSE, rst |-> FALSE, err |-> FALSE, shut |-> FALSE]
  /\ written = << >>
  /\ asked = 0 /\ taken = 0 /\ dropped = FALSE /\ closes = 0 /\ mishaps = {}

(***************************************************************************)
(* The kernel and the peer.                                                *)
(***************************************************************************)
PeerSends ==
  /\ state_ # "kConnecting" /\ ~sock.in /\ ~sock.fin /\ ~sock.rst
  /\ sock' = [sock EXCEPT !.in = TRUE]

PeerCloses ==
  /\ state_ # "kConnecting" /\ ~sock.fin /\ ~sock.rst
  /\ sock' = [sock EXCEPT !.fin = TRUE]

PeerResets ==
  /\ state_ # "kConnecting" /\ ~sock.rst
  /\ sock' = [sock EXCEPT !.rst = TRUE, !.err = TRUE, !.in = FALSE]

Kernel ==
  /\ PeerSends \/ PeerCloses \/ PeerResets
  /\ UNCHANGED <<conn, handling, pendingFunctors_, others, server, written,
                 history>>

\* What epoll reports: POLLHUP and POLLERR always, the rest if asked for.
\* out is whether the kernel has room for output.
Ready(out) ==
  {e \in {"HUP", "ERR", "IN", "OUT"} :
     \/ e = "HUP" /\ (sock.rst \/ (sock.fin /\ sock.shut))
     \/ e = "ERR" /\ sock.err
     \/ e = "IN" /\ "read" \in events_ /\ (sock.in \/ sock.fin \/ sock.rst)
     \/ e = "OUT" /\ "write" \in events_ /\ (out \/ sock.shut \/ sock.rst)}
-----------------------------------------------------------------------------
(***************************************************************************)
(* The loop's thread: Channel::handleEvent(), whose guard keeps the        *)
(* connection alive, in the order of handleEventWithGuard().               *)
(***************************************************************************)
Poll(out) ==
  /\ pc = "idle" /\ index_ = "kAdded" /\ Alive
  /\ Ready(out) # {}
  /\ revents_' = Ready(out)
  /\ pc' = "close"
  /\ UNCHANGED <<conn, pendingFunctors_, others, server, kernel, history>>

\* POLLHUP without POLLIN closes; POLLERR calls handleError(), and reading
\* SO_ERROR clears it.
HandleHup ==
  /\ pc = "close"
  /\ pc' = "read"
  /\ IF "HUP" \in revents_ /\ "IN" \notin revents_
     THEN handleClose
     ELSE UNCHANGED closing
  /\ sock' = IF "ERR" \in revents_ THEN [sock EXCEPT !.err = FALSE] ELSE sock
  /\ UNCHANGED <<reading_, outputBuffer_, revents_, pendingFunctors_, others, inMap,
                 destroyed, delays, written, asked, taken, dropped>>

\* handleRead(): data is passed to messageCallback_, the end of the stream
\* closes, an error is only looked at.
ReadData ==
  /\ sock.in
  /\ sock' = [sock EXCEPT !.in = FALSE]
  /\ pc' = "message"
  /\ UNCHANGED closing

ReadEnd ==
  /\ ~sock.in /\ ~sock.err
  /\ sock.fin \/ sock.rst
  /\ handleClose
  /\ pc' = "write"
  /\ UNCHANGED sock

ReadError ==
  /\ sock.err
  /\ sock' = [sock EXCEPT !.err = FALSE]
  /\ pc' = "write"
  /\ UNCHANGED closing

NoRead ==
  /\ "IN" \notin revents_
  /\ pc' = "write"
  /\ UNCHANGED <<closing, sock>>

HandleRead ==
  /\ pc = "read"
  /\ NoRead \/ ("IN" \in revents_ /\ (ReadData \/ ReadEnd \/ ReadError))
  /\ UNCHANGED <<reading_, outputBuffer_, revents_, pendingFunctors_, others, inMap,
                 destroyed, delays, written, asked, taken, dropped>>

\* messageCallback_ returns.
MessageDone ==
  /\ pc = "message"
  /\ pc' = "write"
  /\ UNCHANGED <<conn, revents_, pendingFunctors_, others, server, kernel,
                 history>>

WrittenNoShutdown(n) ==
  /\ ~sock.shut /\ ~sock.rst
  /\ written' = written \o SubSeq(outputBuffer_, 1, n)
  /\ outputBuffer_' = SubSeq(outputBuffer_, n + 1, Len(outputBuffer_))
  /\ Update(IF outputBuffer_' = << >> THEN events_ \ {"write"} ELSE events_)
  /\ UNCHANGED <<pendingFunctors_, sock>>

\* handleWrite() when write() takes n bytes: the last ones end the interest in
\* POLLOUT and, after shutdown(), close the writing half.
Written(n) ==
  /\ ~sock.shut /\ ~sock.rst
  /\ written' = written \o SubSeq(outputBuffer_, 1, n)
  /\ outputBuffer_' = SubSeq(outputBuffer_, n + 1, Len(outputBuffer_))
  /\ IF outputBuffer_' = << >>
     THEN /\ Update(events_ \ {"write"})
          /\ pendingFunctors_' = Append(pendingFunctors_, <<"writeComplete", 0>>)
          /\ IF state_ = "kDisconnecting" THEN shutdownInLoop(events_') ELSE UNCHANGED sock
     ELSE UNCHANGED <<events_, index_, pendingFunctors_, sock>>

Writes == pc = "write" /\ "OUT" \in revents_ /\ "write" \in events_

HandleWrite ==
  /\ Writes
  /\ pc' = "idle" /\ revents_' = {}
  /\ \E n \in 1..Len(outputBuffer_) : Written(n)
  /\ UNCHANGED <<state_, reading_, others, server, history>>

\* write() fails, or handleWrite() is not called or has nothing to do.
NoWrite ==
  /\ pc = "write"
  /\ pc' = "idle" /\ revents_' = {}
  /\ UNCHANGED <<conn, pendingFunctors_, others, server, kernel, history>>
-----------------------------------------------------------------------------
(***************************************************************************)
(* doPendingFunctors(): the next functor.                                  *)
(***************************************************************************)
Takes(name) ==
  /\ pc = "idle" /\ pendingFunctors_ # << >> /\ Head(pendingFunctors_)[1] = name
  /\ name \in Raw => Alive

ConnectEstablished ==
  /\ Takes("connectEstablished")
  /\ state_' = "kConnected"
  /\ Update(events_ \cup {"read"})
  /\ pointers' = Others             \* connectionCallback_ hands them out
  /\ UNCHANGED <<reading_, outputBuffer_, caller, server, kernel, history>>

ConnectDestroyed ==
  /\ Takes("connectDestroyed")
  /\ IF state_ = "kConnected"
     THEN state_' = "kDisconnected" /\ events_' = {}
     ELSE UNCHANGED <<state_, events_>>
  /\ index_' = "kNew"
  /\ MishapIf(state_ = "kDisconnecting", "cutShort")
  /\ UNCHANGED <<reading_, outputBuffer_, others, server, kernel, asked, taken,
                 dropped, closes>>

ForceCloseInLoopAlways ==
  /\ Takes("forceCloseInLoop")
  /\ handleClose
  /\ UNCHANGED <<reading_, outputBuffer_, others, inMap, destroyed, delays, kernel,
                 asked, taken, dropped>>

ForceCloseInLoop ==
  /\ Takes("forceCloseInLoop")
  /\ IF state_ \in {"kConnected", "kDisconnecting"}
     THEN handleClose
     ELSE UNCHANGED closing
  /\ UNCHANGED <<reading_, outputBuffer_, others, inMap, destroyed, delays, kernel,
                 asked, taken, dropped>>

ShutdownInLoop ==
  /\ Takes("shutdownInLoop")
  /\ shutdownInLoop(events_)
  /\ UNCHANGED <<conn, others, server, written, history>>

ReadInLoop ==
  /\ (Takes("startReadInLoop") /\ startReadInLoop) \/ (Takes("stopReadInLoop") /\ stopReadInLoop)
  /\ UNCHANGED <<state_, outputBuffer_, others, server, kernel, asked, taken,
                 dropped, closes>>

UserCallback ==
  /\ Takes("writeComplete") \/ Takes("highWaterMark")
  /\ UNCHANGED <<conn, others, server, kernel, history>>

SendInLoop ==
  /\ Takes("sendInLoop")
  /\ sendInLoop(Head(pendingFunctors_)[2], Tail(pendingFunctors_))
  /\ UNCHANGED <<state_, reading_, others, server, sock, asked, closes,
                 mishaps>>

RunFunctor ==
  /\ \/ SendInLoop
     \/ /\ \/ ConnectEstablished \/ ConnectDestroyed \/ ForceCloseInLoop \/ ShutdownInLoop
           \/ ReadInLoop \/ UserCallback
        /\ pendingFunctors_' = Tail(pendingFunctors_)
  /\ UNCHANGED handling
-----------------------------------------------------------------------------
(***************************************************************************)
(* Calls from the loop's own thread: in messageCallback_, or in a callback *)
(* that is not this connection's.                                          *)
(***************************************************************************)
InCallback ==
  pc \in {"idle", "message"} /\ Alive /\ state_ # "kConnecting" /\ NoMishap

Send(len) ==
  /\ InCallback /\ state_ = "kConnected" /\ MayQueue
  /\ asked + len <= MaxBytes /\ asked' = asked + len
  /\ sendInLoop(len, pendingFunctors_)
  /\ UNCHANGED <<state_, reading_, handling, others, server, sock,
                 closes, mishaps>>

Shutdown ==
  /\ InCallback /\ state_ = "kConnected"
  /\ state_' = "kDisconnecting"
  /\ shutdownInLoop(events_)
  /\ UNCHANGED <<reading_, events_, index_, outputBuffer_, handling,
                 pendingFunctors_, others, server, written, history>>

ForceClose ==
  /\ InCallback /\ state_ \in {"kConnected", "kDisconnecting"} /\ MayQueue
  /\ state_' = "kDisconnecting"
  /\ pendingFunctors_' = Append(pendingFunctors_, <<"forceCloseInLoop", 0>>)
  /\ UNCHANGED <<reading_, events_, index_, outputBuffer_, handling, others,
                 server, kernel, history>>

\* The timer has a weak pointer; it calls forceClose().  Bound: one timer at a time.
ForceCloseWithDelay ==
  /\ InCallback /\ state_ \in {"kConnected", "kDisconnecting"} /\ delays = 0
  /\ state_' = "kDisconnecting"
  /\ delays' = delays + 1
  /\ UNCHANGED <<reading_, events_, index_, outputBuffer_, handling,
                 pendingFunctors_, others, inMap, removals, destroyed, kernel, history>>

DelayOver ==
  /\ pc = "idle" /\ delays > 0 /\ MayQueue
  /\ delays' = delays - 1
  /\ IF Alive /\ state_ \in {"kConnected", "kDisconnecting"}
     THEN /\ state_' = "kDisconnecting"
          /\ pendingFunctors_' = Append(pendingFunctors_, <<"forceCloseInLoop", 0>>)
     ELSE UNCHANGED <<state_, pendingFunctors_>>
  /\ UNCHANGED <<reading_, events_, index_, outputBuffer_, handling, others,
                 inMap, removals, destroyed, kernel, history>>

StartStopRead ==
  /\ InCallback
  /\ startReadInLoop \/ stopReadInLoop
  /\ UNCHANGED <<state_, outputBuffer_, handling, pendingFunctors_, others,
                 server, kernel, asked, taken, dropped, closes>>
-----------------------------------------------------------------------------
(***************************************************************************)
(* Calls from other threads.  They test state_ and act on what they saw in *)
(* a second step: nothing makes the two atomic.                            *)
(***************************************************************************)
Passes(call) ==
  \/ call \in {"startRead", "stopRead"}
  \/ call \in {"send", "shutdown"} /\ state_ = "kConnected"
  \/ call = "forceClose" /\ state_ \in {"kConnected", "kDisconnecting"}

TestState(t, call) ==
  /\ t \in pointers /\ caller[t] = "none" /\ NoMishap
  /\ Passes(call)
  /\ caller' = [caller EXCEPT ![t] = call]
  /\ UNCHANGED <<conn, handling, pendingFunctors_, pointers, server, kernel,
                 history>>

Functor(call, len) ==
  CASE call = "send" -> <<"sendInLoop", len>>
    [] call = "shutdown" -> <<"shutdownInLoop", 0>>
    [] call = "forceClose" -> <<"forceCloseInLoop", 0>>
    [] call = "startRead" -> <<"startReadInLoop", 0>>
    [] call = "stopRead" -> <<"stopReadInLoop", 0>>

QueueCall(t, len) ==
  /\ caller[t] # "none" /\ MayQueue
  /\ asked' = IF caller[t] = "send" THEN asked + len ELSE asked
  /\ asked' <= MaxBytes
  /\ IF caller[t] \in {"shutdown", "forceClose"}
     THEN /\ state_' = "kDisconnecting"
          /\ MishapIf(state_ = "kDisconnected", "revived")
     ELSE UNCHANGED <<state_, mishaps>>
  /\ pendingFunctors_' = Append(pendingFunctors_, Functor(caller[t], len))
  /\ caller' = [caller EXCEPT ![t] = "none"]
  /\ UNCHANGED <<reading_, events_, index_, outputBuffer_, handling, pointers,
                 server, kernel, taken, dropped, closes>>

DropPointer(t) ==
  /\ t \in pointers /\ caller[t] = "none"
  /\ pointers' = pointers \ {t}
  /\ UNCHANGED <<conn, handling, pendingFunctors_, caller, server, kernel,
                 history>>

\* TcpServer::removeConnectionInLoop() in the base loop.
RemoveConnectionInLoop ==
  /\ removals > 0
  /\ removals' = removals - 1
  /\ inMap' = FALSE
  /\ pendingFunctors_' = Append(pendingFunctors_, <<"connectDestroyed", 0>>)
  /\ UNCHANGED <<conn, handling, others, destroyed, delays, kernel, history>>

\* ~TcpServer() in the base loop, while the server has the connection.
ServerDestructor ==
  /\ inMap /\ ~destroyed /\ NoMishap
  /\ destroyed' = TRUE
  /\ inMap' = FALSE
  /\ pendingFunctors_' = Append(pendingFunctors_, <<"connectDestroyed", 0>>)
  /\ MishapIf(removals > 0, "deadServer")
  /\ UNCHANGED <<conn, handling, others, removals, delays, kernel, asked, taken,
                 dropped, closes>>

HandleEvent == HandleHup \/ HandleRead \/ MessageDone \/ HandleWrite \/ NoWrite

LoopCalls ==
  \/ \E len \in Lens : Send(len)
  \/ Shutdown \/ ForceClose \/ ForceCloseWithDelay \/ StartStopRead

OtherThreads ==
  \E t \in Others :
    \/ \E call \in OtherCalls : TestState(t, call)
    \/ \E len \in Lens : QueueCall(t, len)
    \/ DropPointer(t)

Next ==
  \/ Kernel
  \/ \E out \in BOOLEAN : Poll(out)
  \/ HandleEvent \/ RunFunctor \/ DelayOver
  \/ LoopCalls \/ OtherThreads
  \/ RemoveConnectionInLoop \/ ServerDestructor

Spec == Init /\ [][Next]_vars

\* loop() polls and runs its functors in every iteration, handleEvent() and the
\* base loop go on, timers fire, and a peer that stays connected goes on reading.
Fairness ==
  /\ SF_vars(Poll(TRUE)) /\ SF_vars(RunFunctor)
  /\ WF_vars(HandleEvent) /\ SF_vars(HandleWrite)
  /\ SF_vars(DelayOver)
  /\ WF_vars(RemoveConnectionInLoop)

FairSpec == Spec /\ Fairness
-----------------------------------------------------------------------------
FunctorNames == Raw \cup {"connectEstablished", "connectDestroyed", "forceCloseInLoop",
                          "writeComplete", "highWaterMark"}

TypeOK ==
  /\ state_ \in {"kConnecting", "kConnected", "kDisconnecting", "kDisconnected"}
  /\ reading_ \in BOOLEAN
  /\ events_ \subseteq {"read", "write"}
  /\ index_ \in {"kNew", "kAdded", "kDeleted"}
  /\ outputBuffer_ \in Seq(1..MaxBytes)
  /\ pc \in {"idle", "close", "read", "message", "write"}
  /\ revents_ \subseteq {"HUP", "ERR", "IN", "OUT"}
  /\ pendingFunctors_ \in Seq(FunctorNames \X (Lens \cup {0}))
  /\ caller \in [Others -> OtherCalls \cup {"none"}]
  /\ pointers \subseteq Others
  /\ inMap \in BOOLEAN /\ destroyed \in BOOLEAN /\ removals \in Nat /\ delays \in Nat
  /\ sock \in [in : BOOLEAN, fin : BOOLEAN, rst : BOOLEAN, err : BOOLEAN, shut : BOOLEAN]
  /\ written \in Seq(1..MaxBytes)
  /\ asked \in 0..MaxBytes /\ taken \in 0..asked /\ dropped \in BOOLEAN
  /\ closes \in Nat /\ mishaps \subseteq Mishaps

\* The bytes taken by sendInLoop() reach the kernel in order, each once: the
\* ones written and the ones in the output buffer are all of them, as long as
\* the connection has not failed or been shut under them.
StreamIntact ==
  LET all == written \o outputBuffer_
  IN  /\ \A i \in DOMAIN all : all[i] = i
      /\ ~dropped => Len(all) = taken

\* While the connection is up, POLLOUT is asked for exactly when bytes wait;
\* otherwise bytes would be stuck, or the loop would spin.
WritesWhatWaits ==
  state_ # "kDisconnected" /\ NoMishap =>
    ("write" \in events_ <=> outputBuffer_ # << >>)

\* While the connection is up, its writing half is only closed once the output
\* buffer is empty: shutdown() never cuts off what send() has put there.
ShutAfterData ==
  sock.shut /\ state_ # "kDisconnected" /\ NoMishap => outputBuffer_ = << >>

\* handleClose() runs once (its assertion on state_), and the server removes the
\* connection once (assert(n == 1) in removeConnectionInLoop()), however events,
\* functors and calls interleave, as long as none of Mishaps has happened.
ClosedOnce ==
  NoMishap => closes <= 1 /\ (removals > 0 => inMap)

\* The destructors' assertions: when the last pointer is gone the connection
\* is disconnected, and its channel is out of the poller with no interest left.
DestroyedClean ==
  ~Alive /\ NoMishap =>
    state_ = "kDisconnected" /\ index_ = "kNew" /\ events_ = {}

\* A connection ends once and leaves nothing behind: handleClose() and the
\* removal from the map happen once, and the destructors find it closed.  (With the types.)
EndsOnceAndClean == TypeOK /\ ClosedOnce /\ DestroyedClean

\* assert(state_ == kConnected || state_ == kDisconnecting) in handleClose(),
\* when the loop's thread is about to call it for POLLHUP and nobody has called
\* startRead() or stopRead() on the closed connection.
ClosesWhatIsUp ==
  /\ pc = "close" /\ "HUP" \in revents_ /\ "IN" \notin revents_
  /\ "lateRead" \notin mishaps
  => state_ \in {"kConnected", "kDisconnecting"}

\* assert(isNoneEvent()) in Channel::remove(), when connectDestroyed() is about to
\* call it without disableAll().
RemovesIdleChannel ==
  Takes("connectDestroyed") /\ state_ # "kConnected" => events_ = {}

\* send() is "thread safe, may be called across threads" (the comment on
\* it): the functor it queues with a raw this finds the connection alive.
NoDanglingFunctor ==
  ~Alive => \A f \in Range(pendingFunctors_) : f[1] \notin Raw

\* After shutdown() the writing half is closed in the end, also when bytes
\* were waiting, unless the connection goes down before.
ShutdownCompletes ==
  state_ = "kDisconnecting" /\ NoMishap ~>
    sock.shut \/ state_ = "kDisconnected" \/ ~NoMishap

\* A peer that closes or resets is noticed while the connection reads, and
\* a closed connection leaves the server's map and the poller.
CloseCompletes ==
  /\ (sock.fin \/ sock.rst) ~> (state_ = "kDisconnected" \/ ~reading_ \/ ~NoMishap)
  /\ state_ = "kDisconnected" ~> ~inMap /\ (index_ = "kNew" \/ ~NoMishap)
=============================================================================
