-------------------------- MODULE TcpClientProofs ---------------------------
(***************************************************************************)
(* Proofs about TcpClient.tla and Connector.tla: the Connector's sockets   *)
(* are accounted for, connections and the Connector are freed only when    *)
(* nothing of them is left, the attempts to connect go on, and stop()      *)
(* ends them.                                                              *)
(***************************************************************************)
EXTENDS TcpClient, TLAPS

Functors ==
  ((ConnectorFunctors \cup {"addTimerInLoop"}) \X {NoConn})
  \cup ({"forceCloseInLoop", "setCloseCallback", "connectDestroyed"} \X Conns)

\* What a queue q of functors holds: one of these names; at most one of this
\* name; one that holds the connection c; the connectDestroyed of c.
Has(q, names) == \E i \in 1..Len(q) : q[i][1] \in names

AtMostOne(q, name) ==
  \A i, j \in 1..Len(q) : q[i][1] = name /\ q[j][1] = name => i = j

About(q, c) == \E i \in 1..Len(q) : q[i][2] = c

Destroys(q, c) == \E i \in 1..Len(q) : q[i] = <<"connectDestroyed", c>>

\* resetChannel is among the first b functors, and before all that hold c.
ResetWithin(q, b) == \A i \in 1..Len(q) : q[i][1] = "resetChannel" => i <= b

ResetBefore(q, c) ==
  \A i, j \in 1..Len(q) : q[i][1] = "resetChannel" /\ q[j][2] = c => i < j

Unless(names) == mishaps \cap names = {}
-----------------------------------------------------------------------------
Types ==
  /\ TypeOK
  /\ functors \in Seq(Functors)
  /\ phase \in {"events", "functors"}
  /\ batch \in Nat /\ batch <= Len(functors)
  /\ phase = "functors" => ready = {}
  /\ closeCallback_ \in [Conns -> {"client", "detail"}]
  /\ held \in [Conns -> BOOLEAN]
  /\ holder \in BOOLEAN /\ lost \in BOOLEAN /\ deadCall \in BOOLEAN
  /\ pc \in {"idle", "connected", "established", "message", "closing", "restart"}
  /\ pc \notin {"idle", "connected"} => cur # NoConn
  /\ pc = "connected" => phase = "events"
  /\ leaving \in [conn : Conns \cup {NoConn}, unique : BOOLEAN, in : BOOLEAN]
  /\ leaving.unique => leaving.conn # NoConn
  /\ caller = NoCall \/ caller \in [call : {"shutdown", "forceClose"}, conn : Conns]
  /\ mishaps \subseteq Mishaps

\* The socket, the channel and the state of the connector go together, the
\* channel waits for exactly one resetChannel() once it is removed, and the connector
\* is connected as long as a connection is made, lasts or is to be replaced.
SocketInv ==
  ~connector.aborted =>
    /\ connector.fds = IF connector.channel_ = "watched" \/ pc = "connected" THEN 1 ELSE 0
    /\ connector.channel_ = "watched" <=> connector.state_ = "kConnecting"
    /\ connector.channel_ = "removed" <=> Has(functors, {"resetChannel"})
    /\ AtMostOne(functors, "resetChannel")
    /\ connection_ # NoConn \/ pc \in {"restart", "connected"} => connector.state_ = "kConnected"
    /\ pc \in {"restart", "connected"} => connection_ = NoConn

\* Unless a call of the other thread revives it: an open connection is the client's
\* connection_, what poll() found ready is open, and what is being closed or
\* destroyed is not.
OpenInv ==
  Unless({"revived"}) =>
    /\ \A c \in Conns : CanForceClose(c) => connection_ = c
    /\ \A c \in Conns : c \in ready => CanForceClose(c)
    /\ pc = "closing" => ~CanForceClose(cur) /\ (alive => connection_ = cur)
    /\ \A c \in Conns : Destroys(functors, c) => ~CanForceClose(c)

\* The close callback is the client's as long as the client lives; only another
\* thread's destructor leaves it to a functor to change it.  The other thread is in one
\* call at a time, and its disconnect() has connection_ locked.
CallbackInv ==
  /\ alive => \A c \in Conns : closeCallback_[c] = "client"
  /\ Has(functors, {"setCloseCallback"}) => ~alive
  /\ Has(functors, {"setCloseCallback"}) \/ leaving.in => "farThread" \in mishaps
  /\ leaving.in => caller = NoCall
  /\ Locked => alive /\ connection_ = caller.conn

\* An open connection is referred to by more than the handler that runs in it.
KeptInv ==
  Unless({"farThread", "inCallback", "abandoned", "revived"}) =>
    /\ \A c \in Conns :
         CanForceClose(c) =>
           (alive /\ connection_ = c) \/ held[c] \/ About(functors, c) \/ caller.conn = c
    /\ ~deadCall

\* A destroyed client is not called: its connector was stopped or has done its
\* work, and its connection, if it has one, closes by detail::removeConnection().
DeadInv ==
  ~alive /\ Unless({"farThread"}) =>
    /\ pc \notin {"restart", "connected"}
    /\ connection_ # NoConn \/ ~connector.connect_
    /\ Unless({"revived"}) =>
         \A c \in Conns : CanForceClose(c) => closeCallback_[c] = "detail"
    /\ pc = "closing" /\ Unless({"inCallback", "revived"}) => closeCallback_[cur] = "detail"

\* The connector of a destroyed client: it is at rest when a connection was there
\* or the destructor's timer is gone, and an attempt under way is to be stopped.
OutlivesInv ==
  ~alive /\ Unless({"farThread", "inCallback", "early"}) =>
    /\ connection_ # NoConn \/ ~holder =>
         connector.channel_ = "null" /\ ~Has(functors, ConnectorFunctors)
    /\ connection_ = NoConn /\ connector.state_ = "kConnecting" =>
         Has(functors, {"stopInLoop"})

\* As long as connect() finds the connector disconnected and idle, one thing at a time
\* drives the connector: a functor startInLoop, a retry timer, an attempt or a
\* connection; and the connection does not close before the connector's channel is
\* reset.
AloneInv ==
  Unless({"busy", "reconnect", "revived"}) =>
    /\ ~connector.aborted
    /\ Has(functors, {"startInLoop"}) =>
         /\ connector.state_ = "kDisconnected" /\ connector.channel_ = "null"
         /\ connector.timers = 0 /\ AtMostOne(functors, "startInLoop")
    /\ connector.timers > 0 => connector.timers = 1 /\ connector.state_ = "kDisconnected"
    /\ connector.state_ = "kConnected" /\ connector.channel_ = "removed" =>
         /\ pc \notin {"closing", "restart"}
         /\ connection_ # NoConn =>
              /\ phase = "events" => connection_ \notin ready
              /\ phase = "functors" => ResetWithin(functors, batch)
              /\ ResetBefore(functors, connection_)

\* A connector that is to connect is at it (KeepsTrying), and a functor stopInLoop
\* means that stop() still holds.
TryInv ==
  /\ Unless({"busy", "reconnect", "revived", "farThread"}) /\ connector.connect_ =>
       \/ connector.state_ = "kConnecting" \/ connector.timers > 0
       \/ Has(functors, {"startInLoop"}) \/ connection_ # NoConn
       \/ pc \in {"restart", "connected"} \/ connector.gaveUp \/ lost
  /\ NoMishap /\ Has(functors, {"stopInLoop"}) =>
       ~connector.connect_ /\ pc \notin {"restart", "connected"} /\ (alive => ~connect_)

\* What connect() undermines.
Late == If(~Idle, "busy") \cup If(Idle /\ connector.state_ = "kConnected", "reconnect")

IInv ==
  /\ Types /\ SocketInv /\ OpenInv /\ CallbackInv /\ KeptInv /\ DeadInv /\ OutlivesInv
  /\ AloneInv /\ TryInv
-----------------------------------------------------------------------------
(* The queue of functors.                                                  *)

\* A functor is a pair, and what it holds is a connection or nothing.
LEMMA FunctorParts ==
  ASSUME NEW f \in Functors
  PROVE  /\ f = <<f[1], f[2]>>
         /\ f[1] \in ConnectorFunctors \cup {"addTimerInLoop"} => f[2] = NoConn
         /\ f[1] \in {"forceCloseInLoop", "setCloseCallback", "connectDestroyed"} =>
              f[2] \in Conns
BY DEF Functors, ConnectorFunctors

\* Waiting() and the functors that hold a connection, by the places of the queue.
LEMMA QueueRange ==
  ASSUME functors \in Seq(Functors)
  PROVE  /\ \A names : Waiting(names) <=> Has(functors, names)
         /\ \A c : (\E f \in Range(functors) : f[2] = c) <=> About(functors, c)
BY DEF Waiting, Has, About, Range

\* The functor that destroys a connection holds it.
LEMMA DestroysAbout ==
  ASSUME NEW q, NEW c, Destroys(q, c)
  PROVE  About(q, c)
BY DEF Destroys, About

\* What queueInLoop() changes of a queue.
LEMMA QueueAppend ==
  ASSUME NEW q \in Seq(Functors), NEW f \in Functors
  PROVE  /\ q \o <<f>> \in Seq(Functors) /\ Len(q \o <<f>>) = Len(q) + 1
         /\ \A names : Has(q \o <<f>>, names) <=> Has(q, names) \/ f[1] \in names
         /\ \A name : AtMostOne(q, name) /\ ~(f[1] = name /\ Has(q, {name})) =>
                        AtMostOne(q \o <<f>>, name)
         /\ \A c : About(q \o <<f>>, c) <=> About(q, c) \/ f[2] = c
         /\ \A c : Destroys(q \o <<f>>, c) <=> Destroys(q, c) \/ f = <<"connectDestroyed", c>>
         /\ \A b : f[1] # "resetChannel" /\ ResetWithin(q, b) => ResetWithin(q \o <<f>>, b)
         /\ \A c : f[1] # "resetChannel" /\ ResetBefore(q, c) => ResetBefore(q \o <<f>>, c)
         /\ \A c : f[1] = "resetChannel" /\ f[2] # c /\ ~About(q, c) /\ ~Has(q, {"resetChannel"})
                     => ResetBefore(q \o <<f>>, c)
<1> DEFINE r == q \o <<f>>
<1>1. r \in Seq(Functors) /\ Len(r) = Len(q) + 1
  OBVIOUS
<1>2. \A i \in 1..Len(q) : r[i] = q[i] /\ i \in 1..Len(r)
  OBVIOUS
<1>3. r[Len(q) + 1] = f /\ Len(q) + 1 \in 1..Len(r)
  OBVIOUS
<1>4. \A i \in 1..Len(r) : i \in 1..Len(q) \/ i = Len(q) + 1
  BY <1>1
<1>5. \A i \in 1..Len(q) : i < Len(q) + 1
  OBVIOUS
<1> HIDE DEF r
<1>6. \A names : Has(r, names) <=> Has(q, names) \/ f[1] \in names
  BY <1>2, <1>3, <1>4, Zenon DEF Has
<1>7. \A name : AtMostOne(q, name) /\ ~(f[1] = name /\ Has(q, {name})) => AtMostOne(r, name)
  BY <1>2, <1>3, <1>4, Zenon DEF Has, AtMostOne
<1>8. \A c : About(r, c) <=> About(q, c) \/ f[2] = c
  BY <1>2, <1>3, <1>4, Zenon DEF About
<1>9. \A b : f[1] # "resetChannel" /\ ResetWithin(q, b) => ResetWithin(r, b)
  BY <1>2, <1>3, <1>4, Zenon DEF ResetWithin
<1>10. \A c : f[1] # "resetChannel" /\ ResetBefore(q, c) => ResetBefore(r, c)
  BY <1>2, <1>3, <1>4, <1>5, ZenonT(60) DEF ResetBefore
<1>11. \A c : f[1] = "resetChannel" /\ f[2] # c /\ ~About(q, c) /\ ~Has(q, {"resetChannel"})
                => ResetBefore(r, c)
  BY <1>2, <1>3, <1>4, Zenon DEF ResetBefore, About, Has
<1>12. \A c : Destroys(r, c) <=> Destroys(q, c) \/ f = <<"connectDestroyed", c>>
  BY <1>2, <1>3, <1>4, Zenon DEF Destroys
<1>13. QED
  BY <1>1, <1>6, <1>7, <1>8, <1>9, <1>10, <1>11, <1>12, Zenon DEF r

\* What doPendingFunctors() changes of a queue when it takes the first functor.
LEMMA QueueTake ==
  ASSUME NEW q \in Seq(Functors), Len(q) > 0
  PROVE  /\ Tail(q) \in Seq(Functors) /\ Len(Tail(q)) = Len(q) - 1
         /\ Head(q) = q[1] /\ q[1] \in Functors
         /\ \A names : Has(q, names) <=> Has(Tail(q), names) \/ q[1][1] \in names
         /\ \A name : AtMostOne(q, name) =>
              /\ AtMostOne(Tail(q), name)
              /\ q[1][1] = name => ~Has(Tail(q), {name})
         /\ \A c : About(q, c) <=> About(Tail(q), c) \/ q[1][2] = c
         /\ \A c : Destroys(Tail(q), c) => Destroys(q, c)
         /\ \A c : q[1][1] = "connectDestroyed" /\ q[1][2] = c => Destroys(q, c)
         /\ \A b \in Nat : ResetWithin(q, b) => ResetWithin(Tail(q), b - 1)
         /\ \A c : ResetBefore(q, c) => ResetBefore(Tail(q), c)
         /\ \A c : ResetBefore(q, c) /\ q[1][2] = c => ~Has(q, {"resetChannel"})
<1> DEFINE r == Tail(q)
<1>1. r \in Seq(Functors) /\ Len(r) = Len(q) - 1 /\ Head(q) = q[1] /\ q[1] \in Functors
  OBVIOUS
<1>2. \A i \in 1..Len(r) : r[i] = q[i + 1] /\ i + 1 \in 1..Len(q)
  OBVIOUS
<1>3. 1 \in 1..Len(q)
  OBVIOUS
<1>4. \A i \in 1..Len(q) : i = 1 \/ (i - 1 \in 1..Len(r) /\ r[i - 1] = q[i])
  OBVIOUS
<1> HIDE DEF r
<1>6. \A names : Has(q, names) <=> Has(r, names) \/ q[1][1] \in names
  BY <1>2, <1>3, <1>4, Zenon DEF Has
<1>7. \A name : AtMostOne(q, name) =>
        AtMostOne(r, name) /\ (q[1][1] = name => ~Has(r, {name}))
  <2> SUFFICES ASSUME NEW name, AtMostOne(q, name)
               PROVE  AtMostOne(r, name) /\ (q[1][1] = name => ~Has(r, {name}))
    BY Zenon
  <2>1. ASSUME NEW i \in 1..Len(r), NEW j \in 1..Len(r), r[i][1] = name, r[j][1] = name
        PROVE  i = j
    <3>1. i + 1 = j + 1
      BY <1>2, <2>1, ZenonT(60) DEF AtMostOne
    <3>2. QED
      BY <3>1
  <2>2. ASSUME q[1][1] = name, NEW i \in 1..Len(r), r[i][1] = name
        PROVE  FALSE
    <3>1. i + 1 = 1
      BY <1>2, <1>3, <2>2, Zenon DEF AtMostOne
    <3>2. QED
      BY <3>1
  <2>3. QED
    BY <2>1, <2>2, Zenon DEF AtMostOne, Has
<1>8. \A c : About(q, c) <=> About(r, c) \/ q[1][2] = c
  BY <1>2, <1>3, <1>4 DEF About
<1>9. \A b \in Nat : ResetWithin(q, b) => ResetWithin(r, b - 1)
  BY <1>2 DEF ResetWithin
<1>10. \A c : ResetBefore(q, c) => ResetBefore(r, c)
  BY <1>2, SMTT(30) DEF ResetBefore
<1>11. \A c : ResetBefore(q, c) /\ q[1][2] = c => ~Has(q, {"resetChannel"})
  BY <1>3 DEF ResetBefore, Has
<1>13. \A c : Destroys(r, c) => Destroys(q, c)
  BY <1>2, Zenon DEF Destroys
<1>14. \A c : q[1][1] = "connectDestroyed" /\ q[1][2] = c => Destroys(q, c)
  BY <1>1, <1>3, FunctorParts, Zenon DEF Destroys
<1>15. QED
  BY <1>1, <1>6, <1>7, <1>8, <1>9, <1>10, <1>11, <1>13, <1>14, Zenon DEF r
-----------------------------------------------------------------------------
(* The methods of the Connector.                                           *)

\* The delay between attempts stays within its bounds when it doubles.
LEMMA DelayDoubles ==
  ASSUME NEW d \in kInitRetryDelayMs..kMaxRetryDelayMs
  PROVE  Min({2 * d, kMaxRetryDelayMs}) \in kInitRetryDelayMs..kMaxRetryDelayMs
<1>1. kInitRetryDelayMs \in Nat /\ kMaxRetryDelayMs \in Nat
  BY DelayAssumption, Zenon
<1> DEFINE S == {2 * d, kMaxRetryDelayMs}
<1>2. \E x \in S : \A y \in S : x <= y
  BY <1>1
<1>3. Min(S) \in S /\ \A y \in S : Min(S) <= y
  BY <1>2, Zenon DEF Min
<1>4. QED
  BY <1>1, <1>3

\* What sockets::close() does to a connector, with the state set after it.
LEMMA CloseFacts ==
  ASSUME NEW k \in Connectors
  PROVE  /\ close(k) \in Connectors /\ close(k).fds = k.fds - 1
         /\ close(k).state_ = k.state_ /\ close(k).channel_ = k.channel_
         /\ close(k).timers = k.timers /\ close(k).connect_ = k.connect_
         /\ close(k).aborted = k.aborted /\ close(k).gaveUp = k.gaveUp
         /\ close(k).retryDelayMs_ = k.retryDelayMs_
BY DEF close, Connectors

\* What retry() does to a connector.
LEMMA RetryFacts ==
  ASSUME NEW k \in Connectors
  PROVE  /\ retry(k) \in Connectors
         /\ retry(k).state_ = "kDisconnected" /\ retry(k).fds = k.fds - 1
         /\ k.connect_ => retry(k).timers = k.timers + 1
         /\ ~k.connect_ => retry(k).timers = k.timers
         /\ retry(k).channel_ = k.channel_ /\ retry(k).connect_ = k.connect_
         /\ retry(k).aborted = k.aborted /\ retry(k).gaveUp = k.gaveUp
<1>1. Min({2 * k.retryDelayMs_, kMaxRetryDelayMs}) \in kInitRetryDelayMs..kMaxRetryDelayMs
  BY DelayDoubles, Zenon DEF Connectors
<1> DEFINE m == close(k)
           r == [m EXCEPT !.state_ = "kDisconnected"]
<1>2. /\ m \in Connectors /\ m.fds = k.fds - 1 /\ m.channel_ = k.channel_
      /\ m.timers = k.timers /\ m.connect_ = k.connect_ /\ m.aborted = k.aborted
      /\ m.gaveUp = k.gaveUp /\ m.retryDelayMs_ = k.retryDelayMs_
  BY CloseFacts, Zenon
<1> HIDE DEF m
<1>3. /\ r \in Connectors /\ r.fds = k.fds - 1 /\ r.channel_ = k.channel_
      /\ r.timers = k.timers /\ r.connect_ = k.connect_ /\ r.aborted = k.aborted
      /\ r.gaveUp = k.gaveUp /\ r.retryDelayMs_ = k.retryDelayMs_
      /\ r.state_ = "kDisconnected"
  BY <1>2, Zenon DEF Connectors, States
<1>4. CASE ~k.connect_
  <2>1. retry(k) = r
    BY <1>4, Zenon DEF retry, m
  <2>2. QED
    BY <1>3, <1>4, <2>1, Zenon
<1>5. CASE k.connect_
  <2> DEFINE d == Min({2 * r.retryDelayMs_, kMaxRetryDelayMs})
             t == r.timers + 1
  <2>1. retry(k) = [r EXCEPT !.timers = t, !.retryDelayMs_ = d]
    BY <1>5, Zenon DEF retry, m
  <2>3. d \in kInitRetryDelayMs..kMaxRetryDelayMs
    BY <1>1, <1>3, Zenon
  <2> HIDE DEF r
  <2>7. t \in Nat
    BY <1>3 DEF Connectors
  <2> HIDE DEF t, d
  <2>4. retry(k) \in Connectors
    BY <1>3, <2>1, <2>3, <2>7, Zenon DEF Connectors
  <2>5. /\ retry(k).timers = t
        /\ retry(k).state_ = r.state_ /\ retry(k).fds = r.fds
        /\ retry(k).channel_ = r.channel_ /\ retry(k).connect_ = r.connect_
        /\ retry(k).aborted = r.aborted /\ retry(k).gaveUp = r.gaveUp
    BY <1>3, <2>1, Zenon DEF Connectors
  <2>6. QED
    BY <1>3, <1>5, <2>4, <2>5, Zenon DEF t
<1>6. QED
  BY <1>4, <1>5, Zenon

\* What startInLoop() does to a connector.
LEMMA StartFacts ==
  ASSUME NEW k \in Connectors, NEW e \in Errnos, NEW r, r = startInLoop(k, e)
  PROVE  /\ r \in Connectors /\ r.connect_ = k.connect_
         /\ k.state_ # "kDisconnected" =>
              /\ r.aborted /\ r.state_ = k.state_ /\ r.channel_ = k.channel_
              /\ r.timers = k.timers /\ r.gaveUp = k.gaveUp
         /\ k.state_ = "kDisconnected" /\ ~k.connect_ => r = k
         /\ k.state_ = "kDisconnected" /\ k.connect_ =>
              \/ /\ r.state_ = "kConnecting" /\ r.channel_ = "watched"
                 /\ r.fds = k.fds + 1 /\ r.timers = k.timers
                 /\ r.aborted <=> k.aborted \/ k.channel_ # "null"
              \/ /\ r.state_ = "kDisconnected" /\ r.channel_ = k.channel_
                 /\ r.fds = k.fds /\ r.aborted = k.aborted
                 /\ \/ r.timers = k.timers + 1
                    \/ r.timers = k.timers /\ r.gaveUp
<1>1. CASE k.state_ # "kDisconnected"
  BY <1>1, Zenon DEF startInLoop, Connectors
<1>2. CASE k.state_ = "kDisconnected" /\ ~k.connect_
  BY <1>2, Zenon DEF startInLoop
<1>3. CASE k.state_ = "kDisconnected" /\ k.connect_
  <2> DEFINE opened == [k EXCEPT !.fds = @ + 1]
  <2>1. /\ opened \in Connectors /\ opened.connect_ = k.connect_
        /\ opened.state_ = k.state_ /\ opened.channel_ = k.channel_
        /\ opened.fds = k.fds + 1 /\ opened.timers = k.timers
        /\ opened.aborted = k.aborted
    BY DEF Connectors
  <2>2. r = connect(k, e)
    BY <1>3, Zenon DEF startInLoop
  <2> HIDE DEF opened
  <2>3. CASE e = "progress"
    <3>1. r = connecting(opened)
      BY <2>2, <2>3, Zenon DEF connect, opened
    <3>2. QED
      BY <1>3, <2>1, <3>1, Zenon DEF connecting, Connectors, States, ChannelStates
  <2>4. CASE e = "again"
    <3>1. r = retry(opened)
      BY <2>2, <2>4, Zenon DEF connect, opened
    <3>2. k.fds \in Int
      BY Zenon DEF Connectors
    <3>3. /\ r \in Connectors /\ r.state_ = "kDisconnected" /\ r.fds = opened.fds - 1
          /\ r.channel_ = opened.channel_
          /\ r.connect_ = opened.connect_ /\ r.aborted = opened.aborted
      BY <2>1, <3>1, RetryFacts, ZenonT(60)
    <3>6. r.timers = opened.timers + 1
      BY <1>3, <2>1, <3>1, RetryFacts, Zenon
    <3>4. r.fds = k.fds
      BY <2>1, <3>2, <3>3
    <3>5. QED
      BY <1>3, <2>1, <3>3, <3>4, <3>6, Zenon
  <2>5. CASE e = "other"
    <3>1. r = [close(opened) EXCEPT !.gaveUp = TRUE]
      BY <2>2, <2>5, Zenon DEF connect, opened
    <3> DEFINE m == close(opened)
    <3>2. /\ m \in Connectors /\ m.state_ = k.state_ /\ m.fds = opened.fds - 1
          /\ m.timers = k.timers /\ m.channel_ = k.channel_
          /\ m.connect_ = k.connect_ /\ m.aborted = k.aborted
      BY <2>1, CloseFacts, Zenon
    <3>3. k.fds \in Int
      BY Zenon DEF Connectors
    <3> HIDE DEF m
    <3>4. /\ r \in Connectors /\ r.state_ = m.state_ /\ r.fds = m.fds
          /\ r.timers = m.timers /\ r.channel_ = m.channel_
          /\ r.connect_ = m.connect_ /\ r.aborted = m.aborted /\ r.gaveUp
      BY <3>1, <3>2, Zenon DEF m, Connectors
    <3>5. r.fds = k.fds
      BY <2>1, <3>2, <3>3, <3>4
    <3>6. QED
      BY <1>3, <3>2, <3>4, <3>5, Zenon
  <2>6. QED
    BY <2>3, <2>4, <2>5, Zenon DEF Errnos
<1>4. QED
  BY <1>1, <1>2, <1>3, Zenon

\* What the methods that take the channel out of the poller do to a connector
\* whose attempt failed or was stopped: stopInLoop(), handleError(), handleWrite().
LEMMA GiveUpFacts ==
  ASSUME NEW k \in Connectors, NEW r,
         \/ r = stopConnecting(k) \/ r = handleError(k)
         \/ \E o \in Outcomes : o # "connected" /\ r = handleWrite(k, o)
  PROVE  /\ r \in Connectors
         /\ r.state_ = "kDisconnected" /\ r.fds = k.fds - 1
         /\ k.connect_ => r.timers = k.timers + 1
         /\ ~k.connect_ => r.timers = k.timers
         /\ r.channel_ = "removed" /\ r.connect_ = k.connect_
         /\ r.aborted = k.aborted /\ r.gaveUp = k.gaveUp
<1> DEFINE m == removeAndResetChannel(k)
<1>1. r = retry(m)
  BY Zenon DEF stopConnecting, handleError, handleWrite
<1>2. /\ m \in Connectors /\ m.channel_ = "removed" /\ m.fds = k.fds /\ m.timers = k.timers
      /\ m.connect_ = k.connect_ /\ m.aborted = k.aborted /\ m.gaveUp = k.gaveUp
  BY Zenon DEF removeAndResetChannel, Connectors, ChannelStates
<1>3. QED
  BY <1>1, <1>2, RetryFacts

\* What handleWrite() does to a connector whose attempt succeeded: it closes the socket
\* when the connector is not to connect, and hands it over when it is.
LEMMA SucceedFacts ==
  ASSUME NEW k \in Connectors, NEW r, r = handleWrite(k, "connected")
  PROVE  /\ r \in Connectors
         /\ r.state_ = "kConnected" /\ r.fds = IF k.connect_ THEN k.fds ELSE k.fds - 1
         /\ r.timers = k.timers
         /\ r.channel_ = "removed" /\ r.connect_ = k.connect_
         /\ r.aborted = k.aborted /\ r.gaveUp = k.gaveUp
<1> DEFINE m == [removeAndResetChannel(k) EXCEPT !.state_ = "kConnected"]
<1>1. r = IF k.connect_ THEN m ELSE close(m)
  BY Zenon DEF handleWrite
<1>2. /\ m \in Connectors /\ m.channel_ = "removed" /\ m.fds = k.fds /\ m.timers = k.timers
      /\ m.connect_ = k.connect_ /\ m.aborted = k.aborted /\ m.gaveUp = k.gaveUp
      /\ m.state_ = "kConnected"
  BY Zenon DEF removeAndResetChannel, Connectors, ChannelStates, States
<1> HIDE DEF m
<1>3. CASE k.connect_
  BY <1>1, <1>2, <1>3, Zenon
<1>4. CASE ~k.connect_
  <2>1. r = close(m)
    BY <1>1, <1>4, Zenon
  <2>2. QED
    BY <1>2, <1>4, <2>1, CloseFacts, SMTT(30)
<1>5. QED
  BY <1>3, <1>4, Zenon

\* What start(), stop(), restart() and resetChannel() do to a connector.
LEMMA SmallFacts ==
  ASSUME NEW k \in Connectors
  PROVE  /\ start(k) \in Connectors /\ start(k).connect_ /\ ~start(k).gaveUp
         /\ start(k).state_ = k.state_ /\ start(k).channel_ = k.channel_
         /\ start(k).fds = k.fds /\ start(k).timers = k.timers
         /\ start(k).aborted = k.aborted
         /\ stop(k) \in Connectors /\ ~stop(k).connect_
         /\ stop(k).state_ = k.state_ /\ stop(k).channel_ = k.channel_
         /\ stop(k).fds = k.fds /\ stop(k).timers = k.timers
         /\ stop(k).aborted = k.aborted /\ stop(k).gaveUp = k.gaveUp
         /\ resetChannel(k) \in Connectors /\ resetChannel(k).channel_ = "null"
         /\ resetChannel(k).state_ = k.state_ /\ resetChannel(k).connect_ = k.connect_
         /\ resetChannel(k).fds = k.fds /\ resetChannel(k).timers = k.timers
         /\ resetChannel(k).aborted = k.aborted /\ resetChannel(k).gaveUp = k.gaveUp
BY Zenon DEF start, stop, resetChannel, Connectors, ChannelStates

\* restart() starts, from kDisconnected, as startInLoop() does.
LEMMA RestartFacts ==
  ASSUME NEW k \in Connectors, NEW e \in Errnos, NEW r, r = restart(k, e)
  PROVE  /\ r \in Connectors /\ r.connect_
         /\ \/ /\ r.state_ = "kConnecting" /\ r.channel_ = "watched"
               /\ r.fds = k.fds + 1 /\ r.timers = k.timers
               /\ r.aborted <=> k.aborted \/ k.channel_ # "null"
            \/ /\ r.state_ = "kDisconnected" /\ r.channel_ = k.channel_
               /\ r.fds = k.fds /\ r.aborted = k.aborted
               /\ \/ r.timers = k.timers + 1
                  \/ r.timers = k.timers /\ r.gaveUp
<1> DEFINE m == [start(k) EXCEPT !.state_ = "kDisconnected",
                                 !.retryDelayMs_ = kInitRetryDelayMs]
<1>1. kInitRetryDelayMs \in kInitRetryDelayMs..kMaxRetryDelayMs
  BY DelayAssumption
<1>2. /\ m \in Connectors /\ m.connect_ /\ m.state_ = "kDisconnected"
      /\ m.channel_ = k.channel_ /\ m.fds = k.fds /\ m.timers = k.timers
      /\ m.aborted = k.aborted
  BY <1>1, Zenon DEF start, Connectors, States
<1>3. r = startInLoop(m, e)
  BY Zenon DEF restart
<1> HIDE DEF m
<1>4. QED
  BY <1>2, <1>3, StartFacts
-----------------------------------------------------------------------------
(* The steps of the loop that run a functor.                               *)

\* What a functor finds when the loop takes it, and what it leaves of the queue.
LEMMA TakeFacts ==
  ASSUME Types, NEW name, Takes(name), NEW q, q = Tail(functors)
  PROVE  /\ phase = "functors" /\ phase' = phase /\ ready = {} /\ ready' = ready
         /\ pc = "idle" /\ batch \in Nat /\ batch' = batch - 1 /\ batch' \in Nat
         /\ batch' <= Len(q)
         /\ q \in Seq(Functors)
         /\ Head(functors) \in Functors /\ Head(functors)[1] = name
         /\ \A names : Has(functors, names) <=> Has(q, names) \/ name \in names
         /\ \A n : AtMostOne(functors, n) => AtMostOne(q, n)
         /\ AtMostOne(functors, name) => ~Has(q, {name})
         /\ \A c : About(functors, c) <=> About(q, c) \/ Head(functors)[2] = c
         /\ \A c : Destroys(q, c) => Destroys(functors, c)
         /\ \A c : name = "connectDestroyed" /\ Head(functors)[2] = c => Destroys(functors, c)
         /\ ResetWithin(functors, batch) => ResetWithin(q, batch')
         /\ \A c : ResetBefore(functors, c) => ResetBefore(q, c)
         /\ \A c : ResetBefore(functors, c) /\ Head(functors)[2] = c =>
                     ~Has(functors, {"resetChannel"})
<1>1. /\ functors \in Seq(Functors) /\ Len(functors) > 0
      /\ phase = "functors" /\ phase' = phase /\ ready = {} /\ ready' = ready
      /\ pc = "idle" /\ batch \in Nat /\ batch' = batch - 1 /\ batch' \in Nat
      /\ batch <= Len(functors) /\ Head(functors)[1] = name
  BY DEF Types, Takes
<1>2. /\ q \in Seq(Functors) /\ Len(q) = Len(functors) - 1
      /\ Head(functors) = functors[1] /\ functors[1] \in Functors
  BY <1>1, QueueTake, Zenon
<1>3. functors[1][1] = name
  BY <1>1, <1>2, Zenon
<1>4. batch' <= Len(q)
  BY <1>1, <1>2
<1>5. \A names : Has(functors, names) <=> Has(q, names) \/ name \in names
  BY <1>1, <1>3, QueueTake
<1>9. /\ \A n : AtMostOne(functors, n) => AtMostOne(q, n)
      /\ AtMostOne(functors, name) => ~Has(q, {name})
  BY <1>1, <1>3, QueueTake, Zenon
<1>6. /\ \A c : About(functors, c) <=> About(q, c) \/ Head(functors)[2] = c
      /\ \A c : Destroys(q, c) => Destroys(functors, c)
      /\ \A c : name = "connectDestroyed" /\ Head(functors)[2] = c => Destroys(functors, c)
  BY <1>1, <1>2, <1>3, QueueTake, Zenon
<1>7. ResetWithin(functors, batch) => ResetWithin(q, batch')
  BY <1>1, QueueTake, Zenon
<1>10. \A c : ResetBefore(functors, c) => ResetBefore(q, c)
  BY <1>1, QueueTake, Zenon
<1>11. \A c : ResetBefore(functors, c) /\ Head(functors)[2] = c =>
                ~Has(functors, {"resetChannel"})
  BY <1>1, <1>2, QueueTake
<1>8. QED
  BY <1>1, <1>2, <1>4, <1>5, <1>6, <1>7, <1>9, <1>10, <1>11, Zenon

\* startInLoop(), as a functor, preserves the invariant.
LEMMA StartInLoopInv ==
  ASSUME IInv, ~connector.aborted, StartInLoop
  PROVE  IInv'
<1>0. Types /\ SocketInv /\ OpenInv /\ CallbackInv /\ KeptInv /\ DeadInv /\ OutlivesInv
      /\ AloneInv /\ TryInv
  BY Zenon DEF IInv
<1>1. /\ Takes("startInLoop") /\ functors' = Tail(functors)
      /\ UNCHANGED <<client, holder, conns, where, history>>
  BY Zenon DEF StartInLoop, Runs
<1>2. PICK e \in Errnos : connector' = startInLoop(connector, e)
  BY Zenon DEF StartInLoop
<1>3. connector \in Connectors
  BY <1>0, Zenon DEF Types, TypeOK
<1>4. /\ connector' \in Connectors /\ connector'.connect_ = connector.connect_
      /\ connector.state_ # "kDisconnected" =>
           /\ connector'.aborted /\ connector'.state_ = connector.state_
           /\ connector'.channel_ = connector.channel_
           /\ connector'.timers = connector.timers /\ connector'.gaveUp = connector.gaveUp
      /\ connector.state_ = "kDisconnected" /\ ~connector.connect_ => connector' = connector
      /\ connector.state_ = "kDisconnected" /\ connector.connect_ =>
           \/ /\ connector'.state_ = "kConnecting" /\ connector'.channel_ = "watched"
              /\ connector'.fds = connector.fds + 1 /\ connector'.timers = connector.timers
              /\ connector'.aborted <=> connector.aborted \/ connector.channel_ # "null"
           \/ /\ connector'.state_ = "kDisconnected"
              /\ connector'.channel_ = connector.channel_
              /\ connector'.fds = connector.fds /\ connector'.aborted = connector.aborted
              /\ \/ connector'.timers = connector.timers + 1
                 \/ connector'.timers = connector.timers /\ connector'.gaveUp
  BY <1>2, <1>3, StartFacts
<1>5. /\ phase = "functors" /\ phase' = phase /\ ready = {} /\ ready' = ready
      /\ pc = "idle" /\ batch' \in Nat /\ batch' <= Len(functors')
      /\ functors' \in Seq(Functors) /\ Head(functors)[2] = NoConn
  BY <1>0, <1>1, TakeFacts, FunctorParts, Zenon DEF ConnectorFunctors
<1>6. /\ \A names : Has(functors, names) <=> Has(functors', names) \/ "startInLoop" \in names
      /\ \A name : AtMostOne(functors, name) => AtMostOne(functors', name)
      /\ AtMostOne(functors, "startInLoop") => ~Has(functors', {"startInLoop"})
      /\ \A c : About(functors, c) <=> About(functors', c) \/ NoConn = c
      /\ \A c : Destroys(functors', c) => Destroys(functors, c)
      /\ ResetWithin(functors, batch) => ResetWithin(functors', batch')
      /\ \A c : ResetBefore(functors, c) => ResetBefore(functors', c)
  BY <1>0, <1>1, <1>5, TakeFacts, Zenon
<1>7. /\ UNCHANGED <<connect_, retry_, connection_, alive, holder, connState, closeCallback_>>
      /\ UNCHANGED <<held, pc, cur, leaving, caller, lost, deadCall, mishaps>>
  BY <1>1, Zenon DEF client, conns, where, history
<1>10. Types'
  BY <1>0, <1>4, <1>5, <1>6, <1>7 DEF Types, TypeOK
<1>11. SocketInv'
  BY <1>0, <1>4, <1>6, <1>7 DEF SocketInv, Connectors
<1>12. OpenInv'
  BY <1>0, <1>5, <1>6, <1>7, Zenon DEF OpenInv, Unless, CanForceClose
<1>13. CallbackInv'
  BY <1>0, <1>6, <1>7, Zenon DEF CallbackInv, Locked
<1>14. KeptInv'
  BY <1>0, <1>6, <1>7, ClientAssumption, Zenon DEF KeptInv, CanForceClose, Unless
<1>15. DeadInv'
  BY <1>0, <1>4, <1>6, <1>7, Zenon DEF DeadInv, CanForceClose, Unless
<1>16. OutlivesInv'
  BY <1>0, <1>4, <1>6, <1>7, Zenon DEF OutlivesInv, DeadInv, Unless, ConnectorFunctors
<1>17. AloneInv'
  BY <1>0, <1>4, <1>5, <1>6, <1>7, SMTT(30) DEF AloneInv, Unless, Connectors
<1>18. TryInv'
  <2>1. Unless({"busy", "reconnect", "revived"}) => connector.state_ = "kDisconnected"
    BY <1>0, <1>6, Zenon DEF AloneInv
  <2>2. connector.connect_ /\ connector.state_ = "kDisconnected" =>
          connector'.state_ = "kConnecting" \/ connector'.timers > 0 \/ connector'.gaveUp
    BY <1>3, <1>4, SMTT(30) DEF Connectors
  <2>3. QED
    BY <1>0, <1>4, <1>6, <1>7, <2>1, <2>2, Zenon DEF TryInv, NoMishap, Unless
<1>19. QED
  BY <1>10, <1>11, <1>12, <1>13, <1>14, <1>15, <1>16, <1>17, <1>18, Zenon DEF IInv
\* resetChannel() preserves the invariant.
LEMMA ResetChannelInv ==
  ASSUME IInv, ~connector.aborted, ResetChannel
  PROVE  IInv'
<1>0. Types /\ SocketInv /\ OpenInv /\ CallbackInv /\ KeptInv /\ DeadInv /\ OutlivesInv
      /\ AloneInv /\ TryInv
  BY Zenon DEF IInv
<1>1. /\ Takes("resetChannel") /\ functors' = Tail(functors)
      /\ connector' = resetChannel(connector)
      /\ UNCHANGED <<client, holder, conns, where, history>>
  BY Zenon DEF ResetChannel, Runs
<1>3. connector \in Connectors
  BY <1>0, Zenon DEF Types, TypeOK
<1>4. /\ connector' \in Connectors /\ connector'.channel_ = "null"
      /\ connector'.state_ = connector.state_ /\ connector'.connect_ = connector.connect_
      /\ connector'.fds = connector.fds /\ connector'.timers = connector.timers
      /\ connector'.aborted = connector.aborted /\ connector'.gaveUp = connector.gaveUp
  BY <1>1, <1>3, SmallFacts, Zenon
<1>5. /\ phase = "functors" /\ phase' = phase /\ ready = {} /\ ready' = ready
      /\ pc = "idle" /\ batch' \in Nat /\ batch' <= Len(functors')
      /\ functors' \in Seq(Functors) /\ Head(functors)[2] = NoConn
  BY <1>0, <1>1, TakeFacts, FunctorParts, Zenon DEF ConnectorFunctors
<1>6. /\ \A names : Has(functors, names) <=> Has(functors', names) \/ "resetChannel" \in names
      /\ \A name : AtMostOne(functors, name) => AtMostOne(functors', name)
      /\ \A c : About(functors, c) <=> About(functors', c) \/ Head(functors)[2] = c
      /\ \A c : Destroys(functors', c) => Destroys(functors, c)
      /\ ResetWithin(functors, batch) => ResetWithin(functors', batch')
      /\ \A c : ResetBefore(functors, c) => ResetBefore(functors', c)
      /\ AtMostOne(functors, "resetChannel") => ~Has(functors', {"resetChannel"})
  BY <1>0, <1>1, TakeFacts, Zenon
<1>7. /\ UNCHANGED <<connect_, retry_, connection_, alive, holder>>
      /\ UNCHANGED <<connState, closeCallback_, held, pc, cur, leaving, caller>>
      /\ UNCHANGED <<lost, deadCall, mishaps>>
  BY <1>1, Zenon DEF client, conns, where, history
<1>8. connector.channel_ = "removed"
  BY <1>0, <1>6, Zenon DEF SocketInv
<1>21. Types'
  BY <1>0, <1>4, <1>5, <1>6, <1>7 DEF Types, TypeOK
<1>22. SocketInv'
  BY <1>0, <1>4, <1>6, <1>7, <1>8, Zenon DEF SocketInv
<1>23. OpenInv'
  BY <1>0, <1>4, <1>5, <1>6, <1>7, Zenon DEF OpenInv, Unless, CanForceClose
<1>24. CallbackInv'
  BY <1>0, <1>4, <1>5, <1>6, <1>7, Zenon DEF CallbackInv, Locked
<1>25. KeptInv'
  BY <1>0, <1>5, <1>6, <1>7, ClientAssumption, Zenon DEF KeptInv, CanForceClose, Unless
<1>26. DeadInv'
  BY <1>0, <1>4, <1>5, <1>6, <1>7, Zenon DEF DeadInv, CanForceClose, Unless
<1>27. OutlivesInv'
  BY <1>0, <1>4, <1>6, <1>7, Zenon DEF OutlivesInv, Unless, ConnectorFunctors
<1>28. AloneInv'
  BY <1>0, <1>4, <1>5, <1>6, <1>7, Zenon DEF AloneInv, Unless
<1>29. TryInv'
  BY <1>0, <1>4, <1>5, <1>6, <1>7, Zenon DEF TryInv, NoMishap, Unless
<1>30. QED
  BY <1>21, <1>22, <1>23, <1>24, <1>25, <1>26, <1>27, <1>28, <1>29, Zenon DEF IInv

\* addTimerInLoop(), of the destructor's timer, preserves the invariant.
LEMMA AddTimerInLoopInv ==
  ASSUME IInv, ~connector.aborted, AddTimerInLoop
  PROVE  IInv'
<1>0. Types /\ SocketInv /\ OpenInv /\ CallbackInv /\ KeptInv /\ DeadInv /\ OutlivesInv
      /\ AloneInv /\ TryInv
  BY Zenon DEF IInv
<1>1. /\ Takes("addTimerInLoop") /\ functors' = Tail(functors)
      /\ holder' = TRUE
      /\ UNCHANGED <<connector, client, conns, where, history>>
  BY Zenon DEF AddTimerInLoop, Runs
<1>5. /\ phase = "functors" /\ phase' = phase /\ ready = {} /\ ready' = ready
      /\ pc = "idle" /\ batch' \in Nat /\ batch' <= Len(functors')
      /\ functors' \in Seq(Functors) /\ Head(functors)[2] = NoConn
  BY <1>0, <1>1, TakeFacts, FunctorParts, Zenon DEF ConnectorFunctors
<1>6. /\ \A names : Has(functors, names) <=> Has(functors', names) \/ "addTimerInLoop" \in names
      /\ \A name : AtMostOne(functors, name) => AtMostOne(functors', name)
      /\ \A c : About(functors, c) <=> About(functors', c) \/ Head(functors)[2] = c
      /\ \A c : Destroys(functors', c) => Destroys(functors, c)
      /\ ResetWithin(functors, batch) => ResetWithin(functors', batch')
      /\ \A c : ResetBefore(functors, c) => ResetBefore(functors', c)
  BY <1>0, <1>1, TakeFacts, Zenon
<1>7. /\ UNCHANGED <<connector, connect_, retry_, connection_, alive>>
      /\ UNCHANGED <<connState, closeCallback_, held, pc, cur, leaving, caller>>
      /\ UNCHANGED <<lost, deadCall, mishaps>>
  BY <1>1, Zenon DEF client, conns, where, history
<1>8. holder' \in BOOLEAN
  BY <1>1, Zenon
<1>21. Types'
  BY <1>0, <1>5, <1>6, <1>7, <1>8 DEF Types, TypeOK
<1>22. SocketInv'
  BY <1>0, <1>5, <1>6, <1>7, Zenon DEF SocketInv
<1>23. OpenInv'
  BY <1>0, <1>5, <1>6, <1>7, Zenon DEF OpenInv, Unless, CanForceClose
<1>24. CallbackInv'
  BY <1>0, <1>5, <1>6, <1>7, Zenon DEF CallbackInv, Locked
<1>25. KeptInv'
  BY <1>0, <1>5, <1>6, <1>7, ClientAssumption, Zenon DEF KeptInv, CanForceClose, Unless
<1>26. DeadInv'
  BY <1>0, <1>5, <1>6, <1>7, Zenon DEF DeadInv, CanForceClose, Unless
<1>27. OutlivesInv'
  BY <1>0, <1>1, <1>6, <1>7, Zenon DEF OutlivesInv, Unless, ConnectorFunctors
<1>28. AloneInv'
  BY <1>0, <1>5, <1>6, <1>7, Zenon DEF AloneInv, Unless
<1>29. TryInv'
  BY <1>0, <1>5, <1>6, <1>7, Zenon DEF TryInv, NoMishap, Unless
<1>30. QED
  BY <1>21, <1>22, <1>23, <1>24, <1>25, <1>26, <1>27, <1>28, <1>29, Zenon DEF IInv

\* setCloseCallback(), left by a destructor of another thread, preserves the invariant.
LEMMA SetCloseCallbackInv ==
  ASSUME IInv, ~connector.aborted, SetCloseCallback
  PROVE  IInv'
<1>0. Types /\ SocketInv /\ OpenInv /\ CallbackInv /\ KeptInv /\ DeadInv /\ OutlivesInv
      /\ AloneInv /\ TryInv
  BY Zenon DEF IInv
<1>1. /\ Takes("setCloseCallback") /\ functors' = Tail(functors)
      /\ closeCallback_' = [closeCallback_ EXCEPT ![Head(functors)[2]] = "detail"]
      /\ UNCHANGED <<connector, client, holder, connState, held, where, history>>
  BY Zenon DEF SetCloseCallback, Runs
<1>5. /\ phase = "functors" /\ phase' = phase /\ ready = {} /\ ready' = ready
      /\ pc = "idle" /\ batch' \in Nat /\ batch' <= Len(functors')
      /\ functors' \in Seq(Functors) /\ Head(functors)[2] \in Conns
  BY <1>0, <1>1, TakeFacts, FunctorParts, Zenon DEF ConnectorFunctors
<1>6. /\ \A names : Has(functors, names) <=> Has(functors', names) \/ "setCloseCallback" \in names
      /\ \A name : AtMostOne(functors, name) => AtMostOne(functors', name)
      /\ \A c : About(functors, c) <=> About(functors', c) \/ Head(functors)[2] = c
      /\ \A c : Destroys(functors', c) => Destroys(functors, c)
      /\ ResetWithin(functors, batch) => ResetWithin(functors', batch')
      /\ \A c : ResetBefore(functors, c) => ResetBefore(functors', c)
  BY <1>0, <1>1, TakeFacts, Zenon
<1>7. /\ UNCHANGED <<connector, connect_, retry_, connection_, alive, holder>>
      /\ UNCHANGED <<connState, held, pc, cur, leaving, caller>>
      /\ UNCHANGED <<lost, deadCall, mishaps>>
  BY <1>1, Zenon DEF client, where, history
<1>8. ~alive /\ "farThread" \in mishaps
  BY <1>0, <1>6, Zenon DEF CallbackInv
<1>9. closeCallback_' \in [Conns -> {"client", "detail"}]
  BY <1>0, <1>1, Zenon DEF Types
<1>21. Types'
  BY <1>0, <1>5, <1>6, <1>7, <1>9 DEF Types, TypeOK
<1>22. SocketInv'
  BY <1>0, <1>5, <1>6, <1>7, Zenon DEF SocketInv
<1>23. OpenInv'
  BY <1>0, <1>5, <1>6, <1>7, Zenon DEF OpenInv, Unless, CanForceClose
<1>24. CallbackInv'
  BY <1>0, <1>7, <1>8, Zenon DEF CallbackInv, Locked
<1>25. KeptInv'
  BY <1>0, <1>7, <1>8, Zenon DEF KeptInv, Unless
<1>26. DeadInv'
  BY <1>0, <1>7, <1>8, Zenon DEF DeadInv, Unless
<1>27. OutlivesInv'
  BY <1>0, <1>7, <1>8, Zenon DEF OutlivesInv, Unless
<1>28. AloneInv'
  BY <1>0, <1>5, <1>6, <1>7, Zenon DEF AloneInv, Unless
<1>29. TryInv'
  BY <1>0, <1>7, <1>8, Zenon DEF TryInv, NoMishap, Unless
<1>30. QED
  BY <1>21, <1>22, <1>23, <1>24, <1>25, <1>26, <1>27, <1>28, <1>29, Zenon DEF IInv

\* connectDestroyed() preserves the invariant: its connection is closed by then.
LEMMA ConnectDestroyedInv ==
  ASSUME IInv, ~connector.aborted, ConnectDestroyed
  PROVE  IInv'
<1>0. Types /\ SocketInv /\ OpenInv /\ CallbackInv /\ KeptInv /\ DeadInv /\ OutlivesInv
      /\ AloneInv /\ TryInv
  BY Zenon DEF IInv
<1>1. /\ Takes("connectDestroyed") /\ functors' = Tail(functors)
      /\ UNCHANGED <<connector, client, holder, conns, where, history>>
  BY Zenon DEF ConnectDestroyed, Runs
<1>5. /\ phase = "functors" /\ phase' = phase /\ ready = {} /\ ready' = ready
      /\ pc = "idle" /\ batch' \in Nat /\ batch' <= Len(functors')
      /\ functors' \in Seq(Functors) /\ Head(functors)[2] \in Conns
  BY <1>0, <1>1, TakeFacts, FunctorParts, Zenon DEF ConnectorFunctors
<1>6. /\ \A names : Has(functors, names) <=> Has(functors', names) \/ "connectDestroyed" \in names
      /\ \A name : AtMostOne(functors, name) => AtMostOne(functors', name)
      /\ \A c : About(functors, c) <=> About(functors', c) \/ Head(functors)[2] = c
      /\ \A c : Destroys(functors', c) => Destroys(functors, c)
      /\ ResetWithin(functors, batch) => ResetWithin(functors', batch')
      /\ \A c : ResetBefore(functors, c) => ResetBefore(functors', c)
      /\ Destroys(functors, Head(functors)[2])
  BY <1>0, <1>1, TakeFacts, Zenon
<1>7. /\ UNCHANGED <<connector, connect_, retry_, connection_, alive, holder>>
      /\ UNCHANGED <<connState, closeCallback_, held, pc, cur, leaving, caller>>
      /\ UNCHANGED <<lost, deadCall, mishaps>>
  BY <1>1, Zenon DEF client, where, history, conns
<1>8. Unless({"revived"}) => ~CanForceClose(Head(functors)[2])
  BY <1>0, <1>5, <1>6, Zenon DEF OpenInv
<1>21. Types'
  BY <1>0, <1>5, <1>6, <1>7 DEF Types, TypeOK
<1>22. SocketInv'
  BY <1>0, <1>5, <1>6, <1>7, Zenon DEF SocketInv
<1>23. OpenInv'
  BY <1>0, <1>5, <1>6, <1>7, Zenon DEF OpenInv, Unless, CanForceClose
<1>24. CallbackInv'
  BY <1>0, <1>5, <1>6, <1>7, Zenon DEF CallbackInv, Locked
<1>25. KeptInv'
  BY <1>0, <1>6, <1>7, <1>8, Zenon DEF KeptInv, CanForceClose, Unless
<1>26. DeadInv'
  BY <1>0, <1>5, <1>6, <1>7, Zenon DEF DeadInv, CanForceClose, Unless
<1>27. OutlivesInv'
  BY <1>0, <1>6, <1>7, Zenon DEF OutlivesInv, Unless, ConnectorFunctors
<1>28. AloneInv'
  BY <1>0, <1>5, <1>6, <1>7, Zenon DEF AloneInv, Unless
<1>29. TryInv'
  BY <1>0, <1>5, <1>6, <1>7, Zenon DEF TryInv, NoMishap, Unless
<1>30. QED
  BY <1>21, <1>22, <1>23, <1>24, <1>25, <1>26, <1>27, <1>28, <1>29, Zenon DEF IInv

\* forceCloseInLoop() preserves the invariant: it finds the connection of the client,
\* whose connector has been reset since, or one that is closed.
LEMMA ForceCloseInLoopInv ==
  ASSUME IInv, ~connector.aborted, ForceCloseInLoop
  PROVE  IInv'
<1>0. Types /\ SocketInv /\ OpenInv /\ CallbackInv /\ KeptInv /\ DeadInv /\ OutlivesInv
      /\ AloneInv /\ TryInv
  BY Zenon DEF IInv
<1>1. /\ Takes("forceCloseInLoop") /\ functors' = Tail(functors)
      /\ UNCHANGED <<connector, client, holder, closeCallback_, held, leaving, caller, history>>
  BY Zenon DEF ForceCloseInLoop, Runs
<1>2. PICK c \in Conns : c = Head(functors)[2]
  BY <1>0, <1>1, TakeFacts, FunctorParts, Zenon
<1>3. IF CanForceClose(c) THEN handleClose(c) ELSE UNCHANGED <<connState, pc, cur>>
  BY <1>2, Zenon DEF ForceCloseInLoop
<1>5. /\ phase = "functors" /\ phase' = phase /\ ready = {} /\ ready' = ready
      /\ pc = "idle" /\ batch' \in Nat /\ batch' <= Len(functors')
      /\ functors' \in Seq(Functors)
  BY <1>0, <1>1, TakeFacts, Zenon
<1>6. /\ \A names : Has(functors, names) <=> Has(functors', names) \/ "forceCloseInLoop" \in names
      /\ \A name : AtMostOne(functors, name) => AtMostOne(functors', name)
      /\ \A d : About(functors, d) <=> About(functors', d) \/ c = d
      /\ \A d : Destroys(functors', d) => Destroys(functors, d)
      /\ ResetWithin(functors, batch) => ResetWithin(functors', batch')
      /\ \A d : ResetBefore(functors, d) => ResetBefore(functors', d)
      /\ ResetBefore(functors, c) => ~Has(functors, {"resetChannel"})
  BY <1>0, <1>1, <1>2, TakeFacts, Zenon
<1>7. /\ UNCHANGED <<connector, connect_, retry_, connection_, alive, holder>>
      /\ UNCHANGED <<closeCallback_, held, leaving, caller>>
      /\ UNCHANGED <<lost, deadCall, mishaps>>
  BY <1>1, Zenon DEF client, history
<1>8. CASE ~CanForceClose(c)
  <2>1. UNCHANGED <<connState, pc, cur>>
    BY <1>3, <1>8, Zenon
  <2>21. Types'
    BY <1>0, <1>5, <1>6, <1>7, <2>1 DEF Types, TypeOK
  <2>22. SocketInv'
    BY <1>0, <1>5, <1>6, <1>7, <2>1, Zenon DEF SocketInv
  <2>23. OpenInv'
    BY <1>0, <1>5, <1>6, <1>7, <2>1, Zenon DEF OpenInv, Unless, CanForceClose
  <2>24. CallbackInv'
    BY <1>0, <1>5, <1>6, <1>7, <2>1, Zenon DEF CallbackInv, Locked
  <2>25. KeptInv'
    BY <1>0, <1>6, <1>7, <1>8, <2>1, Zenon DEF KeptInv, CanForceClose, Unless
  <2>26. DeadInv'
    BY <1>0, <1>5, <1>6, <1>7, <2>1, Zenon DEF DeadInv, CanForceClose, Unless
  <2>27. OutlivesInv'
    BY <1>0, <1>6, <1>7, Zenon DEF OutlivesInv, Unless, ConnectorFunctors
  <2>28. AloneInv'
    BY <1>0, <1>5, <1>6, <1>7, <2>1, Zenon DEF AloneInv, Unless
  <2>29. TryInv'
    BY <1>0, <1>5, <1>6, <1>7, <2>1, Zenon DEF TryInv, NoMishap, Unless
  <2>30. QED
    BY <2>21, <2>22, <2>23, <2>24, <2>25, <2>26, <2>27, <2>28, <2>29, Zenon DEF IInv
<1>9. CASE CanForceClose(c)
  <2>1. /\ connState' = [connState EXCEPT ![c] = "kDisconnected"]
        /\ pc' = "closing" /\ cur' = c
    BY <1>3, <1>9, Zenon DEF handleClose
  <2>2. c # NoConn /\ (Unless({"revived"}) => connection_ = c)
    BY <1>0, <1>5, <1>9, ClientAssumption, Zenon DEF OpenInv
  <2>3. ~CanForceClose(c)' /\ \A d \in Conns : d # c => (CanForceClose(d)' <=> CanForceClose(d))
    BY <1>0, <1>5, <2>1, Zenon DEF Types, TypeOK, CanForceClose
  <2>21. Types'
    BY <1>0, <1>5, <1>6, <1>7, <2>1, <2>2, ZenonT(60) DEF Types, TypeOK
  <2>22. SocketInv'
    BY <1>0, <1>5, <1>6, <1>7, <2>1, Zenon DEF SocketInv
  <2>23. OpenInv'
    BY <1>0, <1>5, <1>6, <1>7, <2>1, <2>2, <2>3, Zenon DEF OpenInv, Unless
  <2>24. CallbackInv'
    BY <1>0, <1>5, <1>6, <1>7, <2>1, Zenon DEF CallbackInv, Locked
  <2>25. KeptInv'
    BY <1>0, <1>6, <1>7, <2>3, Zenon DEF KeptInv, Unless
  <2>26. DeadInv'
    BY <1>0, <1>5, <1>7, <1>9, <2>1, <2>3, Zenon DEF DeadInv, Unless
  <2>27. OutlivesInv'
    BY <1>0, <1>6, <1>7, Zenon DEF OutlivesInv, Unless, ConnectorFunctors
  <2>28. AloneInv'
    BY <1>0, <1>5, <1>6, <1>7, <2>1, <2>2, Zenon DEF AloneInv, SocketInv, Unless
  <2>29. TryInv'
    BY <1>0, <1>5, <1>6, <1>7, <2>1, Zenon DEF TryInv, NoMishap, Unless
  <2>30. QED
    BY <2>21, <2>22, <2>23, <2>24, <2>25, <2>26, <2>27, <2>28, <2>29, Zenon DEF IInv
<1>10. QED
  BY <1>8, <1>9, Zenon

\* stopInLoop() preserves the invariant.
LEMMA StopInLoopInv ==
  ASSUME IInv, ~connector.aborted, StopInLoop
  PROVE  IInv'
<1>0. Types /\ SocketInv /\ OpenInv /\ CallbackInv /\ KeptInv /\ DeadInv /\ OutlivesInv
      /\ AloneInv /\ TryInv
  BY Zenon DEF IInv
<1>1. /\ Takes("stopInLoop")
      /\ UNCHANGED <<client, holder, conns, where, history>>
  BY Zenon DEF StopInLoop
<1> DEFINE q == Tail(functors)
           f == <<"resetChannel", NoConn>>
<1>2. IF connector.state_ = "kConnecting"
      THEN connector' = stopConnecting(connector) /\ functors' = Append(q, f)
      ELSE functors' = q /\ UNCHANGED connector
  BY Zenon DEF StopInLoop
<1>3. connector \in Connectors /\ f \in Functors /\ f[1] = "resetChannel" /\ f[2] = NoConn
  BY <1>0, Zenon DEF Types, TypeOK, Functors, ConnectorFunctors
<1>5. /\ phase = "functors" /\ phase' = phase /\ ready = {} /\ ready' = ready
      /\ pc = "idle" /\ batch' \in Nat /\ batch' <= Len(q)
      /\ q \in Seq(Functors) /\ Head(functors)[2] = NoConn
  BY <1>0, <1>1, TakeFacts, FunctorParts, Zenon DEF ConnectorFunctors
<1>6. /\ \A names : Has(functors, names) <=> Has(q, names) \/ "stopInLoop" \in names
      /\ \A name : AtMostOne(functors, name) => AtMostOne(q, name)
      /\ \A c : About(functors, c) <=> About(q, c) \/ Head(functors)[2] = c
      /\ \A c : Destroys(q, c) => Destroys(functors, c)
      /\ ResetWithin(functors, batch) => ResetWithin(q, batch')
      /\ \A c : ResetBefore(functors, c) => ResetBefore(q, c)
  BY <1>0, <1>1, TakeFacts, Zenon
<1>7. /\ UNCHANGED <<connect_, retry_, connection_, alive, holder>>
      /\ UNCHANGED <<connState, closeCallback_, held, pc, cur, leaving, caller>>
      /\ UNCHANGED <<lost, deadCall, mishaps>>
  BY <1>1, Zenon DEF client, conns, where, history
<1> HIDE DEF q, f
<1>8. CASE connector.state_ # "kConnecting"
  <2>1. functors' = q /\ connector' = connector
    BY <1>2, <1>8, Zenon
  <2>21. Types'
    BY <1>0, <1>5, <1>6, <1>7, <2>1 DEF Types, TypeOK
  <2>22. SocketInv'
    BY <1>0, <1>5, <1>6, <1>7, <2>1, Zenon DEF SocketInv
  <2>23. OpenInv'
    BY <1>0, <1>5, <1>6, <1>7, <2>1, Zenon DEF OpenInv, Unless, CanForceClose
  <2>24. CallbackInv'
    BY <1>0, <1>5, <1>6, <1>7, <2>1, Zenon DEF CallbackInv, Locked
  <2>25. KeptInv'
    BY <1>0, <1>5, <1>6, <1>7, <2>1, ClientAssumption, Zenon DEF KeptInv, CanForceClose,
      Unless
  <2>26. DeadInv'
    BY <1>0, <1>5, <1>6, <1>7, <2>1, Zenon DEF DeadInv, CanForceClose, Unless
  <2>27. OutlivesInv'
    BY <1>0, <1>6, <1>7, <1>8, <2>1, Zenon DEF OutlivesInv, Unless, ConnectorFunctors
  <2>28. AloneInv'
    BY <1>0, <1>5, <1>6, <1>7, <2>1, Zenon DEF AloneInv, Unless
  <2>29. TryInv'
    BY <1>0, <1>5, <1>6, <1>7, <2>1, Zenon DEF TryInv, NoMishap, Unless
  <2>30. QED
    BY <2>21, <2>22, <2>23, <2>24, <2>25, <2>26, <2>27, <2>28, <2>29, Zenon DEF IInv
<1>9. CASE connector.state_ = "kConnecting"
  <2>1. connector' = stopConnecting(connector) /\ functors' = q \o <<f>>
    BY <1>2, <1>3, <1>5, <1>9, SMTT(30)
  <2>2. /\ connector' \in Connectors
        /\ connector'.state_ = "kDisconnected" /\ connector'.fds = connector.fds - 1
        /\ connector.connect_ => connector'.timers = connector.timers + 1
        /\ ~connector.connect_ => connector'.timers = connector.timers
        /\ connector'.channel_ = "removed" /\ connector'.connect_ = connector.connect_
        /\ connector'.aborted = connector.aborted /\ connector'.gaveUp = connector.gaveUp
    BY <1>3, <2>1, GiveUpFacts, ZenonT(60)
  <2>3. /\ functors' \in Seq(Functors) /\ Len(functors') = Len(q) + 1
    BY <1>3, <1>5, <2>1, QueueAppend, Zenon
  <2>8. \A names : Has(functors', names) <=> Has(q, names) \/ "resetChannel" \in names
    <3>1. \A names : Has(q \o <<f>>, names) <=> Has(q, names) \/ f[1] \in names
      BY <1>3, <1>5, QueueAppend, Zenon
    <3>2. QED
      BY <1>3, <2>1, <3>1, Zenon
  <2>9. \A c : About(functors', c) <=> About(q, c) \/ NoConn = c
    BY <1>3, <1>5, <2>1, QueueAppend, Zenon
  <2>4. \A c : Destroys(functors', c) => Destroys(q, c)
    <3>1. \A c : f # <<"connectDestroyed", c>>
      BY Zenon DEF f
    <3>2. QED
      BY <1>3, <1>5, <2>1, <3>1, QueueAppend, Zenon
  <2>5. /\ connector.channel_ = "watched" /\ connector.fds = 1
        /\ ~Has(q, {"resetChannel"}) /\ connection_ = NoConn
    BY <1>0, <1>5, <1>6, <1>9, Zenon DEF SocketInv
  <2>6. AtMostOne(functors', "resetChannel")
    BY <1>0, <1>3, <1>5, <1>6, <2>1, <2>5, QueueAppend, Zenon DEF SocketInv
  <2>7. Len(q) \in Nat /\ batch' <= Len(functors')
    BY <1>5, <2>3
  <2>21. Types'
    BY <1>0, <1>5, <1>7, <2>2, <2>3, <2>7, SMTT(30) DEF Types, TypeOK
  <2>22. SocketInv'
    BY <1>0, <1>5, <1>7, <2>2, <2>5, <2>6, <2>8 DEF SocketInv
  <2>23. OpenInv'
    BY <1>0, <1>5, <1>6, <1>7, <2>4, Zenon DEF OpenInv, Unless, CanForceClose
  <2>24. CallbackInv'
    BY <1>0, <1>5, <1>6, <1>7, <2>8, Zenon DEF CallbackInv, Locked
  <2>25. KeptInv'
    BY <1>0, <1>5, <1>6, <1>7, <2>9, ClientAssumption, Zenon DEF KeptInv, CanForceClose,
      Unless
  <2>26. DeadInv'
    BY <1>0, <1>7, <2>2, Zenon DEF DeadInv, CanForceClose, Unless
  <2>27. OutlivesInv'
    BY <1>0, <1>6, <1>7, <2>2, <2>5, Zenon DEF OutlivesInv, Unless, ConnectorFunctors
  <2>28. AloneInv'
    BY <1>0, <1>3, <1>6, <1>7, <1>9, <2>2, <2>8 DEF AloneInv, Unless, Connectors
  <2>29. TryInv'
    <3>1. connector.connect_ => connector'.timers > 0
      BY <1>0, <2>2, SMTT(30) DEF Types, TypeOK, Connectors
    <3>2. QED
      BY <1>0, <1>6, <1>7, <2>2, <2>8, <3>1, Zenon DEF TryInv, NoMishap, Unless
  <2>30. QED
    BY <2>21, <2>22, <2>23, <2>24, <2>25, <2>26, <2>27, <2>28, <2>29, Zenon DEF IInv
<1>10. QED
  BY <1>8, <1>9, Zenon

-----------------------------------------------------------------------------
(* The steps that leave the connector and the functors alone.              *)

\* disconnect() preserves the invariant: in the other thread it has only tested state_.
LEMMA DisconnectInv ==
  ASSUME IInv, ~connector.aborted, NEW t, Disconnect(t)
  PROVE  IInv'
<1>0. Types /\ SocketInv /\ OpenInv /\ CallbackInv /\ KeptInv /\ DeadInv /\ OutlivesInv
      /\ AloneInv /\ TryInv
  BY Zenon DEF IInv
<1>1. /\ connect_' = FALSE /\ alive
      /\ UNCHANGED <<connector, retry_, connection_, alive, functors, holder, phase, ready>>
      /\ UNCHANGED <<batch, closeCallback_, held, pc, cur, leaving, lost, deadCall, mishaps>>
  BY Zenon DEF Disconnect, MayCall, history, loop
<1>5. \/ /\ connState' = [c \in Conns |-> IF c = connection_ /\ CanShutdown(c)
                                          THEN "kDisconnecting" ELSE connState[c]]
         /\ caller' = caller
      \/ /\ connState' = connState /\ ~leaving.in /\ caller = NoCall
         /\ \/ caller' = caller
            \/ /\ CanShutdown(connection_)
               /\ caller' = [call |-> "shutdown", conn |-> connection_]
  BY Zenon DEF Disconnect, MayCall
<1>2. \A c \in Conns : CanForceClose(c)' <=> CanForceClose(c)
  BY <1>0, <1>5, Zenon DEF Types, TypeOK, CanForceClose, CanShutdown
<1>3. cur # NoConn => cur \in Conns
  BY <1>0, Zenon DEF Types, TypeOK
<1>4. /\ connState' \in [Conns -> {"kConnected", "kDisconnecting", "kDisconnected"}]
      /\ connect_' \in BOOLEAN
  BY <1>0, <1>1, <1>5, Zenon DEF Types, TypeOK
<1>6. \/ caller' = caller
      \/ /\ caller = NoCall /\ ~leaving.in /\ caller'.conn = connection_
         /\ caller' \in [call : {"shutdown", "forceClose"}, conn : Conns]
  <2>1. CanShutdown(connection_) => connection_ \in Conns
    BY <1>0, Zenon DEF Types, TypeOK, CanShutdown
  <2>2. QED
    BY <1>5, <2>1, SMTT(30)
<1>8. NoCall.conn = NoConn
  BY Zenon DEF NoCall
<1>7. \A c \in Conns : caller.conn = c => caller'.conn = c
  BY <1>6, <1>8, ClientAssumption, Zenon
<1>21. Types'
  BY <1>0, <1>1, <1>4, <1>6 DEF Types, TypeOK
<1>22. SocketInv'
  BY <1>0, <1>1, Zenon DEF SocketInv
<1>23. OpenInv'
  BY <1>0, <1>1, <1>2, <1>3, Zenon DEF OpenInv, Unless, Types
<1>24. CallbackInv'
  BY <1>0, <1>1, <1>6, Zenon DEF CallbackInv, Locked
<1>25. KeptInv'
  BY <1>0, <1>1, <1>2, <1>7, Zenon DEF KeptInv, Unless
<1>26. DeadInv'
  BY <1>0, <1>1, <1>2, Zenon DEF DeadInv, Unless
<1>27. OutlivesInv'
  BY <1>0, <1>1, Zenon DEF OutlivesInv, Unless
<1>28. AloneInv'
  BY <1>0, <1>1, Zenon DEF AloneInv, Unless
<1>29. TryInv'
  BY <1>0, <1>1, Zenon DEF TryInv, NoMishap, Unless
<1>30. QED
  BY <1>21, <1>22, <1>23, <1>24, <1>25, <1>26, <1>27, <1>28, <1>29, Zenon DEF IInv

\* enableRetry() preserves the invariant.
LEMMA EnableRetryInv ==
  ASSUME IInv, ~connector.aborted, enableRetry
  PROVE  IInv'
<1>0. Types /\ SocketInv /\ OpenInv /\ CallbackInv /\ KeptInv /\ DeadInv /\ OutlivesInv
      /\ AloneInv /\ TryInv
  BY Zenon DEF IInv
<1>1. /\ retry_' = TRUE
      /\ UNCHANGED <<connector, connect_, connection_, alive, functors, holder, phase, ready>>
      /\ UNCHANGED <<batch, connState, closeCallback_, held, pc, cur, leaving, caller>>
      /\ UNCHANGED <<lost, deadCall, mishaps>>
  BY Zenon DEF enableRetry, where, history, loop, conns
<1>21. Types'
  BY <1>0, <1>1 DEF Types, TypeOK
<1>22. SocketInv'
  BY <1>0, <1>1, Zenon DEF SocketInv
<1>23. OpenInv'
  BY <1>0, <1>1, Zenon DEF OpenInv, Unless, CanForceClose
<1>24. CallbackInv'
  BY <1>0, <1>1, Zenon DEF CallbackInv, Locked
<1>25. KeptInv'
  BY <1>0, <1>1, Zenon DEF KeptInv, CanForceClose, Unless
<1>26. DeadInv'
  BY <1>0, <1>1, Zenon DEF DeadInv, CanForceClose, Unless
<1>27. OutlivesInv'
  BY <1>0, <1>1, Zenon DEF OutlivesInv, Unless
<1>28. AloneInv'
  BY <1>0, <1>1, Zenon DEF AloneInv, Unless
<1>29. TryInv'
  BY <1>0, <1>1, Zenon DEF TryInv, NoMishap, Unless
<1>30. QED
  BY <1>21, <1>22, <1>23, <1>24, <1>25, <1>26, <1>27, <1>28, <1>29, Zenon DEF IInv

\* A copy of connection() preserves the invariant.
LEMMA HoldInv ==
  ASSUME IInv, ~connector.aborted, NEW c \in Conns, Hold(c)
  PROVE  IInv'
<1>0. Types /\ SocketInv /\ OpenInv /\ CallbackInv /\ KeptInv /\ DeadInv /\ OutlivesInv
      /\ AloneInv /\ TryInv
  BY Zenon DEF IInv
<1>1. /\ held' = [held EXCEPT ![c] = TRUE]
      /\ UNCHANGED <<connector, connect_, retry_, connection_, alive, functors, holder>>
      /\ UNCHANGED <<phase, ready, batch, connState, closeCallback_, pc, cur, leaving, caller>>
      /\ UNCHANGED <<lost, deadCall, mishaps>>
  BY Zenon DEF Hold, client, where, history, loop
<1>2. \A d \in Conns : held[d] => held'[d]
  BY <1>0, <1>1, Zenon DEF Types
<1>21. Types'
  BY <1>0, <1>1 DEF Types, TypeOK
<1>22. SocketInv'
  BY <1>0, <1>1, Zenon DEF SocketInv
<1>23. OpenInv'
  BY <1>0, <1>1, Zenon DEF OpenInv, Unless, CanForceClose
<1>24. CallbackInv'
  BY <1>0, <1>1, Zenon DEF CallbackInv, Locked
<1>25. KeptInv'
  BY <1>0, <1>1, <1>2, Zenon DEF KeptInv, CanForceClose, Unless
<1>26. DeadInv'
  BY <1>0, <1>1, Zenon DEF DeadInv, CanForceClose, Unless
<1>27. OutlivesInv'
  BY <1>0, <1>1, Zenon DEF OutlivesInv, Unless
<1>28. AloneInv'
  BY <1>0, <1>1, Zenon DEF AloneInv, Unless
<1>29. TryInv'
  BY <1>0, <1>1, Zenon DEF TryInv, NoMishap, Unless
<1>30. QED
  BY <1>21, <1>22, <1>23, <1>24, <1>25, <1>26, <1>27, <1>28, <1>29, Zenon DEF IInv

\* The user lets go of a TcpConnectionPtr: the invariant is preserved.
LEMMA LetGoInv ==
  ASSUME IInv, ~connector.aborted, NEW c \in Conns, LetGo(c)
  PROVE  IInv'
<1>0. Types /\ SocketInv /\ OpenInv /\ CallbackInv /\ KeptInv /\ DeadInv /\ OutlivesInv
      /\ AloneInv /\ TryInv
  BY Zenon DEF IInv
<1>1. /\ held' = [held EXCEPT ![c] = FALSE]
      /\ mishaps' = mishaps \cup
           If((~alive \/ connection_ # c) /\ CanForceClose(c) /\ caller.conn # c
              /\ \A f \in Range(functors) : f[2] # c, "abandoned")
      /\ UNCHANGED <<connector, connect_, retry_, connection_, alive, functors, holder>>
      /\ UNCHANGED <<phase, ready, batch, connState, closeCallback_, pc, cur, leaving, caller>>
      /\ UNCHANGED <<lost, deadCall>>
  BY Zenon DEF LetGo, client, where, loop, Mishap
<1>2. /\ mishaps' \subseteq Mishaps /\ mishaps \subseteq mishaps'
      /\ \A m \in Mishaps \ {"abandoned"} : m \in mishaps' => m \in mishaps
  BY <1>0, <1>1, Zenon DEF Types, Mishaps, If
<1>3. \A d \in Conns : d # c => held'[d] = held[d]
  BY <1>0, <1>1, Zenon DEF Types
<1>4. (~alive \/ connection_ # c) /\ CanForceClose(c) /\ ~About(functors, c) /\ caller.conn # c =>
        "abandoned" \in mishaps'
  BY <1>0, <1>1, QueueRange, Zenon DEF Types, If
<1>21. Types'
  BY <1>0, <1>1, <1>2 DEF Types, TypeOK
<1>22. SocketInv'
  BY <1>0, <1>1, <1>2, Zenon DEF SocketInv
<1>23. OpenInv'
  BY <1>0, <1>1, <1>2, Zenon DEF OpenInv, Unless, CanForceClose
<1>24. CallbackInv'
  BY <1>0, <1>1, <1>2, Zenon DEF CallbackInv, Locked
<1>25. KeptInv'
  BY <1>0, <1>1, <1>2, <1>3, <1>4, Zenon DEF KeptInv, CanForceClose, Unless
<1>26. DeadInv'
  BY <1>0, <1>1, <1>2, Zenon DEF DeadInv, CanForceClose, Unless
<1>27. OutlivesInv'
  BY <1>0, <1>1, <1>2, Zenon DEF OutlivesInv, Unless
<1>28. AloneInv'
  BY <1>0, <1>1, <1>2, Zenon DEF AloneInv, Unless
<1>29. TryInv'
  BY <1>0, <1>1, <1>2, Zenon DEF TryInv, NoMishap, Unless
<1>30. QED
  BY <1>21, <1>22, <1>23, <1>24, <1>25, <1>26, <1>27, <1>28, <1>29, Zenon DEF IInv

\* poll() preserves the invariant.
LEMMA PollInv ==
  ASSUME IInv, ~connector.aborted, Poll
  PROVE  IInv'
<1>0. Types /\ SocketInv /\ OpenInv /\ CallbackInv /\ KeptInv /\ DeadInv /\ OutlivesInv
      /\ AloneInv /\ TryInv
  BY Zenon DEF IInv
<1>1. /\ phase = "functors" /\ pc = "idle" /\ batch = 0 /\ phase' = "events"
      /\ ready' = If(connector.channel_ = "watched", "connector")
                  \cup If(connector.timers > 0, "retry") \cup If(holder, "holder")
                  \cup {c \in Conns : Refs(c) /\ CanForceClose(c) /\ "revived" \notin mishaps}
      /\ UNCHANGED <<connector, connect_, retry_, connection_, alive, functors, holder>>
      /\ UNCHANGED <<batch, connState, closeCallback_, held, pc, cur, leaving, caller>>
      /\ UNCHANGED <<lost, deadCall, mishaps>>
  BY Zenon DEF Poll, client, where, history, conns
<1>2. \A c \in Conns : c \in ready' => CanForceClose(c)
  BY <1>1, ClientAssumption, Zenon DEF If
<1>3. ~(Has(functors, {"resetChannel"}) /\ ResetWithin(functors, 0))
  BY DEF Has, ResetWithin
<1>21. Types'
  BY <1>0, <1>1 DEF Types, TypeOK
<1>22. SocketInv'
  BY <1>0, <1>1, Zenon DEF SocketInv
<1>23. OpenInv'
  BY <1>0, <1>1, <1>2, Zenon DEF OpenInv, Unless, CanForceClose
<1>24. CallbackInv'
  BY <1>0, <1>1, Zenon DEF CallbackInv, Locked
<1>25. KeptInv'
  BY <1>0, <1>1, Zenon DEF KeptInv, CanForceClose, Unless
<1>26. DeadInv'
  BY <1>0, <1>1, Zenon DEF DeadInv, CanForceClose, Unless
<1>27. OutlivesInv'
  BY <1>0, <1>1, Zenon DEF OutlivesInv, Unless
<1>28. AloneInv'
  BY <1>0, <1>1, <1>3, Zenon DEF AloneInv, SocketInv, Unless
<1>29. TryInv'
  BY <1>0, <1>1, Zenon DEF TryInv, NoMishap, Unless
<1>30. QED
  BY <1>21, <1>22, <1>23, <1>24, <1>25, <1>26, <1>27, <1>28, <1>29, Zenon DEF IInv

\* doPendingFunctors() preserves the invariant.
LEMMA DoPendingFunctorsInv ==
  ASSUME IInv, ~connector.aborted, DoPendingFunctors
  PROVE  IInv'
<1>0. Types /\ SocketInv /\ OpenInv /\ CallbackInv /\ KeptInv /\ DeadInv /\ OutlivesInv
      /\ AloneInv /\ TryInv
  BY Zenon DEF IInv
<1>1. /\ phase = "events" /\ pc = "idle"
      /\ phase' = "functors" /\ ready' = {} /\ batch' = Len(functors)
      /\ UNCHANGED <<connector, connect_, retry_, connection_, alive, functors, holder>>
      /\ UNCHANGED <<connState, closeCallback_, held, pc, cur, leaving, caller>>
      /\ UNCHANGED <<lost, deadCall, mishaps>>
  BY Zenon DEF DoPendingFunctors, client, where, history, conns
<1>2. ResetWithin(functors', batch')
  BY <1>0, <1>1 DEF ResetWithin, Types
<1>21. Types'
  BY <1>0, <1>1 DEF Types, TypeOK
<1>22. SocketInv'
  BY <1>0, <1>1, Zenon DEF SocketInv
<1>23. OpenInv'
  BY <1>0, <1>1, Zenon DEF OpenInv, Unless, CanForceClose
<1>24. CallbackInv'
  BY <1>0, <1>1, Zenon DEF CallbackInv, Locked
<1>25. KeptInv'
  BY <1>0, <1>1, Zenon DEF KeptInv, CanForceClose, Unless
<1>26. DeadInv'
  BY <1>0, <1>1, Zenon DEF DeadInv, CanForceClose, Unless
<1>27. OutlivesInv'
  BY <1>0, <1>1, Zenon DEF OutlivesInv, Unless
<1>28. AloneInv'
  BY <1>0, <1>1, <1>2, Zenon DEF AloneInv, Unless
<1>29. TryInv'
  BY <1>0, <1>1, Zenon DEF TryInv, NoMishap, Unless
<1>30. QED
  BY <1>21, <1>22, <1>23, <1>24, <1>25, <1>26, <1>27, <1>28, <1>29, Zenon DEF IInv

\* The destructor's timer preserves the invariant: by the time it fires the connector
\* is at rest.
LEMMA RemoveConnectorInv ==
  ASSUME IInv, ~connector.aborted, RemoveConnector
  PROVE  IInv'
<1>0. Types /\ SocketInv /\ OpenInv /\ CallbackInv /\ KeptInv /\ DeadInv /\ OutlivesInv
      /\ AloneInv /\ TryInv
  BY Zenon DEF IInv
<1>1. /\ holder' = FALSE /\ ready' = ready \ {"holder"}
      /\ phase = "events"
      /\ UNCHANGED <<connector, connect_, retry_, connection_, alive, functors>>
      /\ UNCHANGED <<phase, batch, connState, closeCallback_, held, pc, cur, leaving, caller>>
      /\ UNCHANGED <<lost, deadCall, mishaps>>
  BY Zenon DEF RemoveConnector, Handles, client, where, history, conns
<1>2. \A names : ~Has(functors, names)
  BY DEF Has, RemoveConnector
<1>3. connector.channel_ \in ChannelStates /\ holder' \in BOOLEAN
  BY <1>0, <1>1, Zenon DEF Types, TypeOK, Connectors
<1>21. Types'
  BY <1>0, <1>1, <1>3 DEF Types, TypeOK
<1>22. SocketInv'
  BY <1>0, <1>1, Zenon DEF SocketInv
<1>23. OpenInv'
  BY <1>0, <1>1, Zenon DEF OpenInv, Unless, CanForceClose
<1>24. CallbackInv'
  BY <1>0, <1>1, Zenon DEF CallbackInv, Locked
<1>25. KeptInv'
  BY <1>0, <1>1, Zenon DEF KeptInv, CanForceClose, Unless
<1>26. DeadInv'
  BY <1>0, <1>1, Zenon DEF DeadInv, CanForceClose, Unless
<1>27. OutlivesInv'
  BY <1>0, <1>1, <1>2, <1>3, Zenon DEF OutlivesInv, SocketInv, ChannelStates, Unless
<1>28. AloneInv'
  BY <1>0, <1>1, Zenon DEF AloneInv, Unless
<1>29. TryInv'
  BY <1>0, <1>1, Zenon DEF TryInv, NoMishap, Unless
<1>30. QED
  BY <1>21, <1>22, <1>23, <1>24, <1>25, <1>26, <1>27, <1>28, <1>29, Zenon DEF IInv

\* A message callback preserves the invariant.
LEMMA MessageInv ==
  ASSUME IInv, ~connector.aborted, NEW c \in Conns, Message(c)
  PROVE  IInv'
<1>0. Types /\ SocketInv /\ OpenInv /\ CallbackInv /\ KeptInv /\ DeadInv /\ OutlivesInv
      /\ AloneInv /\ TryInv
  BY Zenon DEF IInv
<1>1. /\ phase = "events" /\ pc = "idle" /\ ready' = ready \ {c}
      /\ pc' = "message" /\ cur' = c
      /\ UNCHANGED <<connector, connect_, retry_, connection_, alive, functors, holder>>
      /\ UNCHANGED <<phase, batch, connState, closeCallback_, held, leaving, caller>>
      /\ UNCHANGED <<lost, deadCall, mishaps>>
  BY Zenon DEF Message, Handles, client, history, conns
<1>2. c # NoConn
  BY ClientAssumption, Zenon
<1>21. Types'
  BY <1>0, <1>1, <1>2, ZenonT(60) DEF Types, TypeOK
<1>22. SocketInv'
  BY <1>0, <1>1, Zenon DEF SocketInv
<1>23. OpenInv'
  BY <1>0, <1>1, Zenon DEF OpenInv, Unless, CanForceClose
<1>24. CallbackInv'
  BY <1>0, <1>1, Zenon DEF CallbackInv, Locked
<1>25. KeptInv'
  BY <1>0, <1>1, Zenon DEF KeptInv, CanForceClose, Unless
<1>26. DeadInv'
  BY <1>0, <1>1, Zenon DEF DeadInv, CanForceClose, Unless
<1>27. OutlivesInv'
  BY <1>0, <1>1, Zenon DEF OutlivesInv, Unless
<1>28. AloneInv'
  BY <1>0, <1>1, Zenon DEF AloneInv, Unless
<1>29. TryInv'
  BY <1>0, <1>1, Zenon DEF TryInv, NoMishap, Unless
<1>30. QED
  BY <1>21, <1>22, <1>23, <1>24, <1>25, <1>26, <1>27, <1>28, <1>29, Zenon DEF IInv

\* The return of a callback preserves the invariant.
LEMMA CallbackReturnsInv ==
  ASSUME IInv, ~connector.aborted, CallbackReturns
  PROVE  IInv'
<1>0. Types /\ SocketInv /\ OpenInv /\ CallbackInv /\ KeptInv /\ DeadInv /\ OutlivesInv
      /\ AloneInv /\ TryInv
  BY Zenon DEF IInv
<1>1. /\ pc \in {"message", "established"} /\ pc' = "idle" /\ cur' = NoConn
      /\ UNCHANGED <<connector, connect_, retry_, connection_, alive, functors, holder>>
      /\ UNCHANGED <<phase, ready, batch, connState, closeCallback_, held, leaving, caller>>
      /\ UNCHANGED <<lost, deadCall, mishaps>>
  BY Zenon DEF CallbackReturns, client, history, conns, loop
<1>21. Types'
  BY <1>0, <1>1 DEF Types, TypeOK
<1>22. SocketInv'
  BY <1>0, <1>1, Zenon DEF SocketInv
<1>23. OpenInv'
  BY <1>0, <1>1, Zenon DEF OpenInv, Unless, CanForceClose
<1>24. CallbackInv'
  BY <1>0, <1>1, Zenon DEF CallbackInv, Locked
<1>25. KeptInv'
  BY <1>0, <1>1, Zenon DEF KeptInv, CanForceClose, Unless
<1>26. DeadInv'
  BY <1>0, <1>1, Zenon DEF DeadInv, CanForceClose, Unless
<1>27. OutlivesInv'
  BY <1>0, <1>1, Zenon DEF OutlivesInv, Unless
<1>28. AloneInv'
  BY <1>0, <1>1, Zenon DEF AloneInv, Unless
<1>29. TryInv'
  BY <1>0, <1>1, Zenon DEF TryInv, NoMishap, Unless
<1>30. QED
  BY <1>21, <1>22, <1>23, <1>24, <1>25, <1>26, <1>27, <1>28, <1>29, Zenon DEF IInv

\* handleClose() on an event preserves the invariant: it finds the connection of the
\* client, whose connector has been reset since.
LEMMA PeerClosesInv ==
  ASSUME IInv, ~connector.aborted, NEW c \in Conns, PeerCloses(c)
  PROVE  IInv'
<1>0. Types /\ SocketInv /\ OpenInv /\ CallbackInv /\ KeptInv /\ DeadInv /\ OutlivesInv
      /\ AloneInv /\ TryInv
  BY Zenon DEF IInv
<1>1. /\ phase = "events" /\ pc = "idle" /\ c \in ready /\ ready' = ready \ {c}
      /\ CanForceClose(c)
      /\ connState' = [connState EXCEPT ![c] = "kDisconnected"]
      /\ pc' = "closing" /\ cur' = c
      /\ UNCHANGED <<connector, connect_, retry_, connection_, alive, functors, holder>>
      /\ UNCHANGED <<phase, batch, closeCallback_, held, leaving, caller>>
      /\ UNCHANGED <<lost, deadCall, mishaps>>
  BY Zenon DEF PeerCloses, handleClose, Handles, client, history
<1>2. c # NoConn /\ (Unless({"revived"}) => connection_ = c)
  BY <1>0, <1>1, ClientAssumption, Zenon DEF OpenInv
<1>3. ~CanForceClose(c)' /\ \A d \in Conns : d # c => (CanForceClose(d)' <=> CanForceClose(d))
  BY <1>0, <1>1, Zenon DEF Types, TypeOK, CanForceClose
<1>21. Types'
  BY <1>0, <1>1, <1>2, ZenonT(60) DEF Types, TypeOK
<1>22. SocketInv'
  BY <1>0, <1>1, Zenon DEF SocketInv
<1>23. OpenInv'
  BY <1>0, <1>1, <1>2, <1>3, Zenon DEF OpenInv, Unless
<1>24. CallbackInv'
  BY <1>0, <1>1, Zenon DEF CallbackInv, Locked
<1>25. KeptInv'
  BY <1>0, <1>1, <1>3, Zenon DEF KeptInv, Unless
<1>26. DeadInv'
  BY <1>0, <1>1, <1>3, Zenon DEF DeadInv, Unless
<1>27. OutlivesInv'
  BY <1>0, <1>1, Zenon DEF OutlivesInv, Unless
<1>28. AloneInv'
  BY <1>0, <1>1, <1>2, Zenon DEF AloneInv, Unless
<1>29. TryInv'
  BY <1>0, <1>1, Zenon DEF TryInv, NoMishap, Unless
<1>30. QED
  BY <1>21, <1>22, <1>23, <1>24, <1>25, <1>26, <1>27, <1>28, <1>29, Zenon DEF IInv

\* The destructor, when it begins in another thread, preserves the invariant.
LEMMA DestroyElsewhereInv ==
  ASSUME IInv, ~connector.aborted, DestroyElsewhere
  PROVE  IInv'
<1>0. Types /\ SocketInv /\ OpenInv /\ CallbackInv /\ KeptInv /\ DeadInv /\ OutlivesInv
      /\ AloneInv /\ TryInv
  BY Zenon DEF IInv
<1>1. /\ leaving' = [conn |-> connection_, in |-> TRUE,
                     unique |-> connection_ # NoConn /\ NoOtherPointer(connection_)]
      /\ mishaps' = mishaps \cup {"farThread"}
      /\ UNCHANGED <<connector, connect_, retry_, connection_, alive, functors, holder>>
      /\ UNCHANGED <<phase, ready, batch, connState, closeCallback_, held, pc, cur, caller>>
      /\ UNCHANGED <<lost, deadCall>> /\ caller = NoCall
  BY Zenon DEF DestroyElsewhere, MayCall, Mishap, client, conns, loop
<1>2. /\ mishaps' \subseteq Mishaps /\ "farThread" \in mishaps'
      /\ \A m \in {"busy", "reconnect", "revived"} : m \in mishaps' <=> m \in mishaps
  BY <1>0, <1>1, Zenon DEF Types, Mishaps
<1>3. (connection_ # NoConn /\ NoOtherPointer(connection_)) \in BOOLEAN
  BY Zenon
<1>4. /\ leaving' \in [conn : Conns \cup {NoConn}, unique : BOOLEAN, in : BOOLEAN]
      /\ leaving'.unique => leaving'.conn # NoConn
  BY <1>0, <1>1, <1>3, Zenon DEF Types, TypeOK
<1>21. Types'
  BY <1>0, <1>1, <1>2, <1>4 DEF Types, TypeOK
<1>22. SocketInv'
  BY <1>0, <1>1, <1>2, Zenon DEF SocketInv
<1>23. OpenInv'
  BY <1>0, <1>1, <1>2, Zenon DEF OpenInv, Unless, CanForceClose
<1>24. CallbackInv'
  BY <1>0, <1>1, <1>2, Zenon DEF CallbackInv, Locked
<1>25. KeptInv'
  BY <1>0, <1>1, <1>2, Zenon DEF KeptInv, CanForceClose, Unless
<1>26. DeadInv'
  BY <1>0, <1>1, <1>2, Zenon DEF DeadInv, CanForceClose, Unless
<1>27. OutlivesInv'
  BY <1>0, <1>1, <1>2, Zenon DEF OutlivesInv, Unless
<1>28. AloneInv'
  BY <1>0, <1>1, <1>2, Zenon DEF AloneInv, Unless
<1>29. TryInv'
  BY <1>0, <1>1, <1>2, Zenon DEF TryInv, NoMishap, Unless
<1>30. QED
  BY <1>21, <1>22, <1>23, <1>24, <1>25, <1>26, <1>27, <1>28, <1>29, Zenon DEF IInv

-----------------------------------------------------------------------------
(* The steps that change the connector only.                               *)

\* connect() in the loop's thread preserves the invariant.
LEMMA ConnectLoopInv ==
  ASSUME IInv, ~connector.aborted, Connect("loop")
  PROVE  IInv'
<1>0. Types /\ SocketInv /\ OpenInv /\ CallbackInv /\ KeptInv /\ DeadInv /\ OutlivesInv
      /\ AloneInv /\ TryInv
  BY Zenon DEF IInv
<1>1. /\ connect_' = TRUE /\ alive /\ NoMishap
      /\ lost' = FALSE /\ Mishap(Late)
      /\ UNCHANGED <<retry_, connection_, alive, functors, holder, phase, ready>>
      /\ UNCHANGED <<batch, connState, closeCallback_, held, pc, cur, leaving, caller, deadCall>>
  BY Zenon DEF Connect, MayCall, Late, where, conns, loop
<1>2. PICK e \in Errnos : connector' = startInLoop(start(connector), e)
  BY Zenon DEF Connect
<1>3. connector \in Connectors /\ pc \notin {"restart", "connected"}
  BY <1>0, Zenon DEF Types, TypeOK, Connect, MayCall
<1>4. /\ connector' \in Connectors /\ connector'.connect_
      /\ connector.state_ # "kDisconnected" =>
           /\ connector'.aborted /\ connector'.state_ = connector.state_
           /\ connector'.channel_ = connector.channel_
           /\ connector'.timers = connector.timers
      /\ connector.state_ = "kDisconnected" =>
           \/ /\ connector'.state_ = "kConnecting" /\ connector'.channel_ = "watched"
              /\ connector'.fds = connector.fds + 1 /\ connector'.timers = connector.timers
              /\ connector'.aborted <=> connector.channel_ # "null"
           \/ /\ connector'.state_ = "kDisconnected"
              /\ connector'.channel_ = connector.channel_
              /\ connector'.fds = connector.fds /\ ~connector'.aborted
              /\ \/ connector'.timers = connector.timers + 1
                 \/ connector'.timers = connector.timers /\ connector'.gaveUp
  BY <1>2, <1>3, StartFacts, SmallFacts
<1>5. /\ mishaps' \subseteq Mishaps
      /\ \A m \in Mishaps \ {"busy", "reconnect"} : m \notin mishaps'
      /\ connect_' \in BOOLEAN /\ lost' \in BOOLEAN
  BY <1>0, <1>1, Zenon DEF Types, Mishap, Mishaps, Late, If, NoMishap
<1>6. mishaps' \cap {"busy", "reconnect"} = {} =>
        /\ connector.state_ = "kDisconnected" /\ connector.channel_ = "null"
        /\ connector.timers = 0 /\ ~Has(functors, ConnectorFunctors)
        /\ connection_ = NoConn /\ pc \notin {"restart", "connected"}
  <2>1. mishaps' \cap {"busy", "reconnect"} = {} => Idle /\ connector.state_ # "kConnected"
    BY <1>1, Zenon DEF Mishap, Late, If
  <2>2. connector.state_ \in States
    BY <1>0, Zenon DEF Types, TypeOK, Connectors
  <2>3. QED
    BY <1>0, <2>1, <2>2, QueueRange, Zenon DEF Types, Idle, States
<1>7. ~Has(functors, ConnectorFunctors) => ~Has(functors, {"startInLoop"})
        /\ ~Has(functors, {"stopInLoop"}) /\ ~Has(functors, {"resetChannel"})
  BY Zenon DEF Has, ConnectorFunctors
<1>21. Types'
  BY <1>0, <1>1, <1>4, <1>5, SMTT(30) DEF Types, TypeOK
<1>22. SocketInv'
  BY <1>0, <1>1, <1>3, <1>4 DEF SocketInv, Connectors
<1>10. Unless({"revived"}) /\ Unless({"busy", "reconnect", "revived"})
  BY <1>1, Zenon DEF Unless, NoMishap
<1>23. OpenInv'
  BY <1>0, <1>1, <1>5, <1>10, Zenon DEF OpenInv, Unless, CanForceClose
<1>24. CallbackInv'
  BY <1>0, <1>1, <1>5, Zenon DEF CallbackInv, Locked, NoMishap
<1>25. KeptInv'
  BY <1>0, <1>1, <1>5, Zenon DEF KeptInv, CanForceClose, Unless, NoMishap
<1>26. DeadInv'
  BY <1>0, <1>1, Zenon DEF DeadInv
<1>27. OutlivesInv'
  BY <1>0, <1>1, Zenon DEF OutlivesInv
<1>28. AloneInv'
  BY <1>0, <1>1, <1>4, <1>6, <1>7, SMTT(30) DEF AloneInv, Unless
<1>29. TryInv'
  BY <1>0, <1>1, <1>4, <1>6, <1>7, SMTT(30) DEF TryInv, NoMishap, Unless
<1>30. QED
  BY <1>21, <1>22, <1>23, <1>24, <1>25, <1>26, <1>27, <1>28, <1>29, Zenon DEF IInv

\* A retry timer preserves the invariant.
LEMMA RetryTimerInv ==
  ASSUME IInv, ~connector.aborted, RetryTimer
  PROVE  IInv'
<1>0. Types /\ SocketInv /\ OpenInv /\ CallbackInv /\ KeptInv /\ DeadInv /\ OutlivesInv
      /\ AloneInv /\ TryInv
  BY Zenon DEF IInv
<1>1. /\ phase = "events" /\ pc = "idle" /\ ready' = ready \ {"retry"}
      /\ connector.timers > 0 /\ ~Waiting({"resetChannel"})
      /\ UNCHANGED <<connect_, retry_, connection_, alive, functors, holder, phase, lost>>
      /\ UNCHANGED <<batch, connState, closeCallback_, held, pc, cur, leaving, caller>>
      /\ UNCHANGED <<deadCall, mishaps>>
  BY Zenon DEF RetryTimer, Handles, client, where, conns, history
<1> DEFINE k == [connector EXCEPT !.timers = @ - 1]
<1>2. PICK e \in Errnos : connector' = startInLoop(k, e)
  BY Zenon DEF RetryTimer
<1>3. /\ connector \in Connectors /\ k \in Connectors /\ connector.timers \in Nat
      /\ k.timers = connector.timers - 1 /\ k.timers \in Nat
      /\ k.connect_ = connector.connect_
      /\ k.state_ = connector.state_ /\ k.channel_ = connector.channel_
      /\ k.fds = connector.fds /\ k.aborted = connector.aborted /\ k.gaveUp = connector.gaveUp
  BY <1>0, <1>1, SMTT(30) DEF Types, TypeOK, Connectors
<1> HIDE DEF k
<1>4. /\ connector' \in Connectors
      /\ connector.state_ = "kDisconnected" /\ ~connector.connect_ => connector' = k
      /\ connector'.connect_ = connector.connect_
      /\ connector.state_ # "kDisconnected" =>
           /\ connector'.aborted /\ connector'.state_ = connector.state_
           /\ connector'.channel_ = connector.channel_
           /\ connector'.timers = k.timers /\ connector'.gaveUp = connector.gaveUp
      /\ connector.state_ = "kDisconnected" /\ connector.connect_ =>
           \/ /\ connector'.state_ = "kConnecting" /\ connector'.channel_ = "watched"
              /\ connector'.fds = connector.fds + 1 /\ connector'.timers = k.timers
              /\ connector'.aborted <=> connector.channel_ # "null"
           \/ /\ connector'.state_ = "kDisconnected"
              /\ connector'.channel_ = connector.channel_
              /\ connector'.fds = connector.fds /\ ~connector'.aborted
              /\ \/ connector'.timers = k.timers + 1
                 \/ connector'.timers = k.timers /\ connector'.gaveUp
  BY <1>2, <1>3, StartFacts
<1>5. ~Has(functors, {"resetChannel"})
  BY <1>0, <1>1, QueueRange, Zenon DEF Types
<1>6. /\ Unless({"busy", "reconnect", "revived", "farThread"}) => connector.state_ = "kDisconnected"
      /\ NoMishap => connector.state_ = "kDisconnected"
  BY <1>0, <1>1, Zenon DEF AloneInv, Unless, NoMishap
<1>21. Types'
  BY <1>0, <1>1, <1>4, SMTT(30) DEF Types, TypeOK
<1>22. SocketInv'
  BY <1>0, <1>1, <1>3, <1>4 DEF SocketInv
<1>23. OpenInv'
  BY <1>0, <1>1, Zenon DEF OpenInv, Unless, CanForceClose
<1>24. CallbackInv'
  BY <1>0, <1>1, Zenon DEF CallbackInv, Locked
<1>25. KeptInv'
  BY <1>0, <1>1, Zenon DEF KeptInv, CanForceClose, Unless
<1>26. DeadInv'
  BY <1>0, <1>1, <1>3, <1>4, Zenon DEF DeadInv, CanForceClose, Unless
<1>27. OutlivesInv'
  BY <1>0, <1>1, <1>3, <1>4, Zenon DEF OutlivesInv, DeadInv, SocketInv, Unless
<1>28. AloneInv'
  BY <1>0, <1>1, <1>3, <1>4, <1>5, SMTT(30) DEF AloneInv, SocketInv, Unless, Connectors,
    ChannelStates
<1>29. TryInv'
  <2>1. /\ connection_' = connection_ /\ pc' = pc /\ functors' = functors /\ lost' = lost
        /\ mishaps' = mishaps /\ alive' = alive /\ connect_' = connect_
    BY <1>1, Zenon
  <2>2. connector.connect_ /\ connector.state_ = "kDisconnected" =>
          connector'.state_ = "kConnecting" \/ connector'.timers > 0 \/ connector'.gaveUp
    BY <1>3, <1>4, SMTT(30)
  <2>3. QED
    BY <1>0, <1>4, <1>6, <2>1, <2>2, Zenon DEF TryInv, NoMishap, Unless
<1>30. QED
  BY <1>21, <1>22, <1>23, <1>24, <1>25, <1>26, <1>27, <1>28, <1>29, Zenon DEF IInv

\* restart() preserves the invariant: the channel of the attempt before is reset.
LEMMA RestartInv ==
  ASSUME IInv, ~connector.aborted, Restart
  PROVE  IInv'
<1>0. Types /\ SocketInv /\ OpenInv /\ CallbackInv /\ KeptInv /\ DeadInv /\ OutlivesInv
      /\ AloneInv /\ TryInv
  BY Zenon DEF IInv
<1>1. /\ pc = "restart" /\ pc' = "idle" /\ cur' = NoConn
      /\ UNCHANGED <<connect_, retry_, connection_, alive, functors, holder, phase, ready>>
      /\ UNCHANGED <<batch, connState, closeCallback_, held, leaving, caller, lost>>
      /\ UNCHANGED <<deadCall, mishaps>>
  BY Zenon DEF Restart, client, conns, history, loop
<1>2. PICK e \in Errnos : connector' = restart(connector, e)
  BY Zenon DEF Restart
<1>3. connector \in Connectors
  BY <1>0, Zenon DEF Types, TypeOK
<1>4. /\ connector' \in Connectors /\ connector'.connect_
      /\ \/ /\ connector'.state_ = "kConnecting" /\ connector'.channel_ = "watched"
            /\ connector'.fds = connector.fds + 1 /\ connector'.timers = connector.timers
            /\ connector'.aborted <=> connector.channel_ # "null"
         \/ /\ connector'.state_ = "kDisconnected"
            /\ connector'.channel_ = connector.channel_
            /\ connector'.fds = connector.fds /\ ~connector'.aborted
            /\ \/ connector'.timers = connector.timers + 1
               \/ connector'.timers = connector.timers /\ connector'.gaveUp
  BY <1>2, <1>3, RestartFacts
<1>5. connection_ = NoConn
  BY <1>0, <1>1, Zenon DEF SocketInv
<1>6. /\ connector.state_ = "kConnected" /\ connector.channel_ # "watched"
      /\ connector.channel_ \in ChannelStates
  BY <1>0, <1>1, <1>3, Zenon DEF SocketInv, Connectors
<1>21. Types'
  BY <1>0, <1>1, <1>4, SMTT(30) DEF Types, TypeOK
<1>22. SocketInv'
  BY <1>0, <1>1, <1>3, <1>4, <1>5, <1>6 DEF SocketInv
<1>23. OpenInv'
  BY <1>0, <1>1, Zenon DEF OpenInv, Unless, CanForceClose
<1>24. CallbackInv'
  BY <1>0, <1>1, Zenon DEF CallbackInv, Locked
<1>25. KeptInv'
  BY <1>0, <1>1, Zenon DEF KeptInv, CanForceClose, Unless
<1>26. DeadInv'
  BY <1>0, <1>1, Zenon DEF DeadInv, CanForceClose, Unless
<1>27. OutlivesInv'
  BY <1>0, <1>1, Zenon DEF OutlivesInv, DeadInv, Unless
<1>28. AloneInv'
  BY <1>0, <1>1, <1>3, <1>4, <1>6, SMTT(30) DEF AloneInv, Unless, Connectors, ChannelStates
<1>29. TryInv'
  BY <1>0, <1>1, <1>3, <1>4, SMTT(30) DEF TryInv, NoMishap, Unless, Connectors
<1>30. QED
  BY <1>21, <1>22, <1>23, <1>24, <1>25, <1>26, <1>27, <1>28, <1>29, Zenon DEF IInv

-----------------------------------------------------------------------------
(* The steps that queue functors.                                          *)

\* What queueInLoop() of a functor that is not the connector's leaves as it was.
LEMMA OtherAppend ==
  ASSUME NEW p \in Seq(Functors), NEW f \in Functors, f[1] \notin ConnectorFunctors,
         NEW q, q = p \o <<f>>
  PROVE  /\ q \in Seq(Functors) /\ Len(p) \in Nat /\ Len(q) = Len(p) + 1
         /\ Has(q, {"startInLoop"}) <=> Has(p, {"startInLoop"})
         /\ Has(q, {"stopInLoop"}) <=> Has(p, {"stopInLoop"})
         /\ Has(q, {"resetChannel"}) <=> Has(p, {"resetChannel"})
         /\ Has(q, ConnectorFunctors) <=> Has(p, ConnectorFunctors)
         /\ Has(q, {"setCloseCallback"}) <=>
              Has(p, {"setCloseCallback"}) \/ f[1] = "setCloseCallback"
         /\ AtMostOne(p, "startInLoop") => AtMostOne(q, "startInLoop")
         /\ AtMostOne(p, "resetChannel") => AtMostOne(q, "resetChannel")
         /\ \A c : About(q, c) <=> About(p, c) \/ f[2] = c
         /\ \A c : Destroys(q, c) <=> Destroys(p, c) \/ f = <<"connectDestroyed", c>>
         /\ \A b : ResetWithin(p, b) => ResetWithin(q, b)
         /\ \A c : ResetBefore(p, c) => ResetBefore(q, c)
<1>1. f[1] # "startInLoop" /\ f[1] # "stopInLoop" /\ f[1] # "resetChannel"
  BY Zenon DEF ConnectorFunctors
<1>2. q \in Seq(Functors) /\ Len(q) = Len(p) + 1 /\ Len(p) \in Nat
  BY QueueAppend
<1>3. \A names : Has(q, names) <=> Has(p, names) \/ f[1] \in names
  BY QueueAppend, Zenon
<1>4. /\ Has(q, {"startInLoop"}) <=> Has(p, {"startInLoop"})
      /\ Has(q, {"stopInLoop"}) <=> Has(p, {"stopInLoop"})
      /\ Has(q, {"resetChannel"}) <=> Has(p, {"resetChannel"})
      /\ Has(q, ConnectorFunctors) <=> Has(p, ConnectorFunctors)
      /\ Has(q, {"setCloseCallback"}) <=>
           Has(p, {"setCloseCallback"}) \/ f[1] = "setCloseCallback"
  BY <1>1, <1>3, Zenon
<1>5. /\ AtMostOne(p, "startInLoop") => AtMostOne(q, "startInLoop")
      /\ AtMostOne(p, "resetChannel") => AtMostOne(q, "resetChannel")
  BY <1>1, QueueAppend, Zenon
<1>6. /\ \A c : About(q, c) <=> About(p, c) \/ f[2] = c
      /\ \A c : Destroys(q, c) <=> Destroys(p, c) \/ f = <<"connectDestroyed", c>>
  BY QueueAppend, Zenon
<1>7. /\ \A b : ResetWithin(p, b) => ResetWithin(q, b)
      /\ \A c : ResetBefore(p, c) => ResetBefore(q, c)
  BY <1>1, QueueAppend, Zenon
<1>8. QED
  BY <1>2, <1>4, <1>5, <1>6, <1>7, Zenon

\* What queueInLoop() of a functor of the connector changes.
LEMMA ConnectorAppend ==
  ASSUME NEW p \in Seq(Functors), NEW name \in ConnectorFunctors,
         NEW f, f = <<name, NoConn>>, NEW q, q = p \o <<f>>
  PROVE  /\ q \in Seq(Functors) /\ Len(p) \in Nat /\ Len(q) = Len(p) + 1
         /\ \A names : Has(q, names) <=> Has(p, names) \/ name \in names
         /\ \A n : AtMostOne(p, n) /\ ~(name = n /\ Has(p, {n})) => AtMostOne(q, n)
         /\ \A c \in Conns : About(q, c) <=> About(p, c)
         /\ \A c \in Conns : Destroys(q, c) <=> Destroys(p, c)
         /\ \A b : name # "resetChannel" /\ ResetWithin(p, b) => ResetWithin(q, b)
         /\ \A c : name # "resetChannel" /\ ResetBefore(p, c) => ResetBefore(q, c)
         /\ \A c \in Conns : name = "resetChannel" /\ ~About(p, c) /\ ~Has(p, {"resetChannel"})
                             => ResetBefore(q, c)
<1>1. /\ f \in Functors /\ f[1] = name /\ f[2] = NoConn
      /\ \A c \in Conns : f # <<"connectDestroyed", c>> /\ f[2] # c
  BY ClientAssumption, Zenon DEF Functors, ConnectorFunctors
<1>3. q \in Seq(Functors) /\ Len(q) = Len(p) + 1 /\ Len(p) \in Nat
  BY <1>1, QueueAppend
<1>4. \A names : Has(q, names) <=> Has(p, names) \/ name \in names
  <2>1. \A names : Has(q, names) <=> Has(p, names) \/ f[1] \in names
    BY <1>1, QueueAppend, Zenon
  <2>2. QED
    BY <1>1, <2>1, Zenon
<1>5. \A n : AtMostOne(p, n) /\ ~(name = n /\ Has(p, {n})) => AtMostOne(q, n)
  BY <1>1, QueueAppend, Zenon
<1>6. /\ \A c \in Conns : About(q, c) <=> About(p, c)
      /\ \A c \in Conns : Destroys(q, c) <=> Destroys(p, c)
  BY <1>1, QueueAppend, Zenon
<1>7. /\ \A b : name # "resetChannel" /\ ResetWithin(p, b) => ResetWithin(q, b)
      /\ \A c : name # "resetChannel" /\ ResetBefore(p, c) => ResetBefore(q, c)
  BY <1>1, QueueAppend, Zenon
<1>8. \A c \in Conns : name = "resetChannel" /\ ~About(p, c) /\ ~Has(p, {"resetChannel"})
                         => ResetBefore(q, c)
  BY <1>1, QueueAppend, Zenon
<1>9. QED
  BY <1>3, <1>4, <1>5, <1>6, <1>7, <1>8, Zenon

\* A queue with nothing, one or two functors behind it.
LEMMA AppendSome ==
  ASSUME NEW q \in Seq(Functors), NEW a \in Functors, NEW b \in Functors
  PROVE  /\ q \o << >> = q
         /\ q \o (<< >> \o << >>) = q
         /\ q \o (<< >> \o <<a>>) = q \o <<a>>
         /\ q \o (<<a>> \o << >>) = q \o <<a>>
         /\ q \o (<<a>> \o <<b>>) = (q \o <<a>>) \o <<b>>
BY SMTT(30)

\* forceClose() by the user in the loop's thread preserves the invariant.
LEMMA ForceCloseLoopInv ==
  ASSUME IInv, ~connector.aborted, NEW c \in Conns, ForceClose("loop", c)
  PROVE  IInv'
<1>0. Types /\ SocketInv /\ OpenInv /\ CallbackInv /\ KeptInv /\ DeadInv /\ OutlivesInv
      /\ AloneInv /\ TryInv
  BY Zenon DEF IInv
<1> DEFINE f == <<"forceCloseInLoop", c>>
<1>1. /\ CanForceClose(c) /\ connState' = [connState EXCEPT ![c] = "kDisconnecting"]
      /\ functors' = functors \o <<f>>
      /\ UNCHANGED <<connector, connect_, retry_, connection_, alive, holder, phase, ready>>
      /\ UNCHANGED <<batch, closeCallback_, held, pc, cur, leaving, lost, deadCall, mishaps>>
      /\ caller' = caller
  BY Zenon DEF ForceClose, Queue, client, history, loop
<1>2. /\ f \in Functors /\ f[1] = "forceCloseInLoop" /\ f[1] \notin ConnectorFunctors
      /\ \A d : f # <<"connectDestroyed", d>>
  BY Zenon DEF Functors, ConnectorFunctors
<1> HIDE DEF f
<1>3. functors \in Seq(Functors) /\ Len(functors) \in Nat /\ batch \in Nat /\ batch <= Len(functors)
  BY <1>0 DEF Types
<1>4. /\ functors' \in Seq(Functors) /\ Len(functors') = Len(functors) + 1
      /\ Has(functors', {"startInLoop"}) <=> Has(functors, {"startInLoop"})
      /\ Has(functors', {"stopInLoop"}) <=> Has(functors, {"stopInLoop"})
      /\ Has(functors', {"resetChannel"}) <=> Has(functors, {"resetChannel"})
      /\ Has(functors', ConnectorFunctors) <=> Has(functors, ConnectorFunctors)
      /\ Has(functors', {"setCloseCallback"}) <=> Has(functors, {"setCloseCallback"})
      /\ AtMostOne(functors, "startInLoop") => AtMostOne(functors', "startInLoop")
      /\ AtMostOne(functors, "resetChannel") => AtMostOne(functors', "resetChannel")
      /\ \A d : About(functors, d) => About(functors', d)
      /\ \A d : Destroys(functors', d) => Destroys(functors, d)
      /\ \A b : ResetWithin(functors, b) => ResetWithin(functors', b)
      /\ \A d : ResetBefore(functors, d) => ResetBefore(functors', d)
  BY <1>1, <1>2, <1>3, OtherAppend, ZenonT(60)
<1>5. \A d \in Conns : CanForceClose(d)' <=> CanForceClose(d)
  BY <1>0, <1>1, Zenon DEF Types, TypeOK, CanForceClose
<1>6. cur # NoConn => cur \in Conns
  BY <1>0, Zenon DEF Types, TypeOK
<1>21. Types'
  BY <1>0, <1>1, <1>3, <1>4 DEF Types, TypeOK
<1>22. SocketInv'
  BY <1>0, <1>1, <1>4, Zenon DEF SocketInv
<1>23. OpenInv'
  BY <1>0, <1>1, <1>4, <1>5, <1>6, Zenon DEF OpenInv, Unless, Types
<1>24. CallbackInv'
  BY <1>0, <1>1, <1>4, Zenon DEF CallbackInv, Locked
<1>25. KeptInv'
  BY <1>0, <1>1, <1>4, <1>5, Zenon DEF KeptInv, Unless
<1>26. DeadInv'
  BY <1>0, <1>1, <1>5, Zenon DEF DeadInv, Unless
<1>27. OutlivesInv'
  BY <1>0, <1>1, <1>4, Zenon DEF OutlivesInv, Unless
<1>28. AloneInv'
  BY <1>0, <1>1, <1>4, Zenon DEF AloneInv, Unless
<1>29. TryInv'
  BY <1>0, <1>1, <1>4, Zenon DEF TryInv, NoMishap, Unless
<1>30. QED
  BY <1>21, <1>22, <1>23, <1>24, <1>25, <1>26, <1>27, <1>28, <1>29, Zenon DEF IInv

\* forceClose() in the other thread preserves the invariant: it has only tested state_.
LEMMA ForceCloseOtherInv ==
  ASSUME IInv, ~connector.aborted, NEW c \in Conns, ForceClose("other", c)
  PROVE  IInv'
<1>0. Types /\ SocketInv /\ OpenInv /\ CallbackInv /\ KeptInv /\ DeadInv /\ OutlivesInv
      /\ AloneInv /\ TryInv
  BY Zenon DEF IInv
<1>1. /\ caller = NoCall /\ ~leaving.in /\ caller' = [call |-> "forceClose", conn |-> c]
      /\ UNCHANGED <<connector, connect_, retry_, connection_, alive, functors, holder, phase>>
      /\ UNCHANGED <<ready, batch, connState, closeCallback_, held, pc, cur, leaving, lost>>
      /\ UNCHANGED <<deadCall, mishaps>>
  BY Zenon DEF ForceClose, client, history, loop
<1>2. /\ caller' \in [call : {"shutdown", "forceClose"}, conn : Conns]
      /\ caller'.call # "shutdown"
  BY <1>1, Zenon
<1>3. \A d \in Conns : caller.conn # d
  BY <1>1, ClientAssumption, Zenon DEF NoCall
<1>21. Types'
  BY <1>0, <1>1, <1>2 DEF Types, TypeOK
<1>22. SocketInv'
  BY <1>0, <1>1, Zenon DEF SocketInv
<1>23. OpenInv'
  BY <1>0, <1>1, Zenon DEF OpenInv, Unless, CanForceClose
<1>24. CallbackInv'
  BY <1>0, <1>1, <1>2, Zenon DEF CallbackInv, Locked
<1>25. KeptInv'
  BY <1>0, <1>1, <1>3, Zenon DEF KeptInv, CanForceClose, Unless
<1>26. DeadInv'
  BY <1>0, <1>1, Zenon DEF DeadInv, CanForceClose, Unless
<1>27. OutlivesInv'
  BY <1>0, <1>1, Zenon DEF OutlivesInv, Unless
<1>28. AloneInv'
  BY <1>0, <1>1, Zenon DEF AloneInv, Unless
<1>29. TryInv'
  BY <1>0, <1>1, Zenon DEF TryInv, NoMishap, Unless
<1>30. QED
  BY <1>21, <1>22, <1>23, <1>24, <1>25, <1>26, <1>27, <1>28, <1>29, Zenon DEF IInv

\* The rest of shutdown() or forceClose() in the other thread preserves the invariant: the
\* connection is open still, or it is revived.
LEMMA FinishCallInv ==
  ASSUME IInv, ~connector.aborted, FinishCall
  PROVE  IInv'
<1>0. Types /\ SocketInv /\ OpenInv /\ CallbackInv /\ KeptInv /\ DeadInv /\ OutlivesInv
      /\ AloneInv /\ TryInv
  BY Zenon DEF IInv
<1>1. PICK c \in Conns : c = caller.conn
  BY <1>0, Zenon DEF FinishCall, Types
<1> DEFINE f == <<"forceCloseInLoop", c>>
<1>2. /\ connState' = [connState EXCEPT ![c] = "kDisconnecting"] /\ caller' = NoCall
      /\ functors' = functors \o IF Locked THEN << >> ELSE <<f>>
      /\ mishaps' = mishaps \cup If(connState[c] = "kDisconnected", "revived")
      /\ UNCHANGED <<connector, connect_, retry_, connection_, alive, holder, phase, ready>>
      /\ UNCHANGED <<batch, closeCallback_, held, pc, cur, leaving, lost, deadCall>>
  BY <1>1, Zenon DEF FinishCall, Queue, Mishap, client, loop
<1>3. /\ f \in Functors /\ f[1] = "forceCloseInLoop" /\ f[1] \notin ConnectorFunctors
      /\ f[2] = c /\ \A d : f # <<"connectDestroyed", d>>
  BY Zenon DEF Functors, ConnectorFunctors
<1> HIDE DEF f
<1>4. functors \in Seq(Functors) /\ Len(functors) \in Nat /\ batch \in Nat /\ batch <= Len(functors)
  BY <1>0 DEF Types
<1>5. functors' = IF Locked THEN functors ELSE functors \o <<f>>
  BY <1>2, <1>3, <1>4, AppendSome, Zenon
<1>6. /\ functors' \in Seq(Functors) /\ batch <= Len(functors')
      /\ Has(functors', {"startInLoop"}) <=> Has(functors, {"startInLoop"})
      /\ Has(functors', {"stopInLoop"}) <=> Has(functors, {"stopInLoop"})
      /\ Has(functors', {"resetChannel"}) <=> Has(functors, {"resetChannel"})
      /\ Has(functors', ConnectorFunctors) <=> Has(functors, ConnectorFunctors)
      /\ Has(functors', {"setCloseCallback"}) <=> Has(functors, {"setCloseCallback"})
      /\ AtMostOne(functors, "startInLoop") => AtMostOne(functors', "startInLoop")
      /\ AtMostOne(functors, "resetChannel") => AtMostOne(functors', "resetChannel")
      /\ \A d : About(functors, d) => About(functors', d)
      /\ ~Locked => About(functors', c)
      /\ \A d : Destroys(functors', d) => Destroys(functors, d)
      /\ \A b : ResetWithin(functors, b) => ResetWithin(functors', b)
      /\ \A d : ResetBefore(functors, d) => ResetBefore(functors', d)
  <2>1. CASE Locked
    BY <1>4, <1>5, <2>1, Zenon
  <2>2. CASE ~Locked
    <3>1. functors' = functors \o <<f>>
      BY <1>5, <2>2, Zenon
    <3>2. /\ functors' \in Seq(Functors) /\ Len(functors') = Len(functors) + 1
          /\ Has(functors', {"setCloseCallback"}) <=>
               Has(functors, {"setCloseCallback"}) \/ f[1] = "setCloseCallback"
          /\ \A d : About(functors', d) <=> About(functors, d) \/ f[2] = d
          /\ \A d : Destroys(functors', d) <=> Destroys(functors, d) \/ f = <<"connectDestroyed", d>>
      BY <1>3, <1>4, <3>1, OtherAppend, Zenon
    <3>3. /\ Has(functors', {"startInLoop"}) <=> Has(functors, {"startInLoop"})
          /\ Has(functors', {"stopInLoop"}) <=> Has(functors, {"stopInLoop"})
          /\ Has(functors', {"resetChannel"}) <=> Has(functors, {"resetChannel"})
          /\ Has(functors', ConnectorFunctors) <=> Has(functors, ConnectorFunctors)
      BY <1>3, <1>4, <3>1, OtherAppend, Zenon
    <3>4. /\ AtMostOne(functors, "startInLoop") => AtMostOne(functors', "startInLoop")
          /\ AtMostOne(functors, "resetChannel") => AtMostOne(functors', "resetChannel")
          /\ \A b : ResetWithin(functors, b) => ResetWithin(functors', b)
          /\ \A d : ResetBefore(functors, d) => ResetBefore(functors', d)
      BY <1>3, <1>4, <3>1, OtherAppend, Zenon
    <3>5. batch <= Len(functors')
      BY <1>4, <3>2
    <3>6. QED
      BY <1>3, <3>2, <3>3, <3>4, <3>5, Zenon
  <2>3. QED
    BY <2>1, <2>2, Zenon
<1>7. /\ mishaps' \subseteq Mishaps /\ mishaps \subseteq mishaps'
      /\ \A m \in Mishaps \ {"revived"} : m \in mishaps' => m \in mishaps
      /\ connState[c] = "kDisconnected" => "revived" \in mishaps'
  BY <1>0, <1>2, Zenon DEF Types, Mishaps, If
<1>8. connState' \in [Conns -> {"kConnected", "kDisconnecting", "kDisconnected"}]
  BY <1>0, <1>2, Zenon DEF Types, TypeOK
<1>9. "revived" \notin mishaps' =>
        /\ CanForceClose(c)
        /\ \A d \in Conns : CanForceClose(d)' <=> CanForceClose(d)
  BY <1>0, <1>2, <1>7, Zenon DEF Types, TypeOK, CanForceClose
<1>10. /\ cur # NoConn => cur \in Conns
       /\ caller'.conn = NoConn /\ caller'.call # "shutdown"
  BY <1>0, <1>2, Zenon DEF Types, TypeOK, NoCall
<1>11. \A d \in Conns : caller.conn = d /\ ~Locked => About(functors', d)
  BY <1>1, <1>6, Zenon
<1>21. Types'
  BY <1>0, <1>2, <1>4, <1>6, <1>7, <1>8 DEF Types, TypeOK
<1>22. SocketInv'
  BY <1>0, <1>2, <1>6, Zenon DEF SocketInv
<1>23. OpenInv'
  BY <1>0, <1>2, <1>6, <1>7, <1>9, <1>10, Zenon DEF OpenInv, Unless, Types
<1>24. CallbackInv'
  BY <1>0, <1>2, <1>6, <1>7, <1>10, Zenon DEF CallbackInv, Locked
<1>25. KeptInv'
  BY <1>0, <1>2, <1>6, <1>7, <1>9, <1>11, Zenon DEF KeptInv, CallbackInv, Unless
<1>26. DeadInv'
  BY <1>0, <1>2, <1>7, <1>9, Zenon DEF DeadInv, Unless
<1>27. OutlivesInv'
  BY <1>0, <1>2, <1>6, <1>7, Zenon DEF OutlivesInv, Unless
<1>28. AloneInv'
  BY <1>0, <1>2, <1>6, <1>7, Zenon DEF AloneInv, Unless
<1>29. TryInv'
  BY <1>0, <1>2, <1>6, <1>7, Zenon DEF TryInv, NoMishap, Unless
<1>30. QED
  BY <1>21, <1>22, <1>23, <1>24, <1>25, <1>26, <1>27, <1>28, <1>29, Zenon DEF IInv

\* detail::removeConnection() preserves the invariant.
LEMMA RemoveDetachedInv ==
  ASSUME IInv, ~connector.aborted, RemoveDetached
  PROVE  IInv'
<1>0. Types /\ SocketInv /\ OpenInv /\ CallbackInv /\ KeptInv /\ DeadInv /\ OutlivesInv
      /\ AloneInv /\ TryInv
  BY Zenon DEF IInv
<1>1. /\ pc = "closing" /\ pc' = "idle" /\ cur' = NoConn
      /\ functors' = functors \o << <<"connectDestroyed", cur>> >>
      /\ UNCHANGED <<connector, connect_, retry_, connection_, alive, holder, phase, ready>>
      /\ UNCHANGED <<batch, connState, closeCallback_, held, leaving, caller, lost>>
      /\ UNCHANGED <<deadCall, mishaps>>
  BY Zenon DEF RemoveDetached, Queue, client, conns, history, loop
<1>2. PICK c \in Conns : c = cur
  BY <1>0, <1>1, Zenon DEF Types, TypeOK
<1> DEFINE f == <<"connectDestroyed", c>>
<1>3. /\ f \in Functors /\ f[1] = "connectDestroyed" /\ f[1] \notin ConnectorFunctors
      /\ \A d : f = <<"connectDestroyed", d>> => d = c
  BY Zenon DEF Functors, ConnectorFunctors
<1>4. functors' = functors \o <<f>>
  BY <1>1, <1>2, Zenon
<1> HIDE DEF f
<1>5. functors \in Seq(Functors) /\ Len(functors) \in Nat /\ batch \in Nat /\ batch <= Len(functors)
  BY <1>0 DEF Types
<1>6. /\ functors' \in Seq(Functors) /\ Len(functors') = Len(functors) + 1
      /\ Has(functors', {"startInLoop"}) <=> Has(functors, {"startInLoop"})
      /\ Has(functors', {"stopInLoop"}) <=> Has(functors, {"stopInLoop"})
      /\ Has(functors', {"resetChannel"}) <=> Has(functors, {"resetChannel"})
      /\ Has(functors', ConnectorFunctors) <=> Has(functors, ConnectorFunctors)
      /\ Has(functors', {"setCloseCallback"}) <=> Has(functors, {"setCloseCallback"})
      /\ AtMostOne(functors, "startInLoop") => AtMostOne(functors', "startInLoop")
      /\ AtMostOne(functors, "resetChannel") => AtMostOne(functors', "resetChannel")
      /\ \A d : About(functors, d) => About(functors', d)
      /\ \A d : Destroys(functors', d) => Destroys(functors, d) \/ d = c
      /\ \A b : ResetWithin(functors, b) => ResetWithin(functors', b)
      /\ \A d : ResetBefore(functors, d) => ResetBefore(functors', d)
  BY <1>3, <1>4, <1>5, OtherAppend, ZenonT(60)
<1>7. Unless({"revived"}) => ~CanForceClose(c)
  BY <1>0, <1>1, <1>2, Zenon DEF OpenInv
<1>21. Types'
  BY <1>0, <1>1, <1>5, <1>6 DEF Types, TypeOK
<1>22. SocketInv'
  BY <1>0, <1>1, <1>6, Zenon DEF SocketInv
<1>23. OpenInv'
  BY <1>0, <1>1, <1>6, <1>7, Zenon DEF OpenInv, Unless, CanForceClose
<1>24. CallbackInv'
  BY <1>0, <1>1, <1>6, Zenon DEF CallbackInv, Locked
<1>25. KeptInv'
  BY <1>0, <1>1, <1>6, Zenon DEF KeptInv, CanForceClose, Unless
<1>26. DeadInv'
  BY <1>0, <1>1, <1>6, Zenon DEF DeadInv, CanForceClose, Unless
<1>27. OutlivesInv'
  BY <1>0, <1>1, <1>6, Zenon DEF OutlivesInv, Unless
<1>28. AloneInv'
  BY <1>0, <1>1, <1>6, Zenon DEF AloneInv, Unless
<1>29. TryInv'
  BY <1>0, <1>1, <1>6, Zenon DEF TryInv, NoMishap, Unless
<1>30. QED
  BY <1>21, <1>22, <1>23, <1>24, <1>25, <1>26, <1>27, <1>28, <1>29, Zenon DEF IInv

\* TcpClient::removeConnection() preserves the invariant: it finds the connection it is
\* told about, and is not called once the client is destroyed.
LEMMA RemoveConnectionInv ==
  ASSUME IInv, ~connector.aborted, RemoveConnection
  PROVE  IInv'
<1>0. Types /\ SocketInv /\ OpenInv /\ CallbackInv /\ KeptInv /\ DeadInv /\ OutlivesInv
      /\ AloneInv /\ TryInv
  BY Zenon DEF IInv
<1>1. /\ pc = "closing" /\ closeCallback_[cur] = "client"
      /\ UNCHANGED <<connect_, retry_, alive, holder, phase, ready>>
      /\ UNCHANGED <<batch, connState, closeCallback_, held, leaving, caller, mishaps>>
  BY Zenon DEF RemoveConnection, conns, loop
<1>2. PICK c \in Conns : c = cur
  BY <1>0, <1>1, ZenonT(60) DEF Types, TypeOK
<1>3. CASE alive
  <2>1. /\ connector' = [connector EXCEPT !.aborted = @ \/ connection_ # cur]
        /\ connection_' = NoConn /\ deadCall' = deadCall
        /\ functors' = functors \o << <<"connectDestroyed", c>> >> /\ ~Locked
        /\ \/ pc' = "restart" /\ connect_ /\ UNCHANGED <<cur, lost>>
           \/ pc' = "idle" /\ cur' = NoConn /\ lost' = TRUE
    BY <1>2, <1>3, Zenon DEF RemoveConnection, Queue
  <2> DEFINE f == <<"connectDestroyed", c>>
  <2>2. /\ f \in Functors /\ f[1] = "connectDestroyed" /\ f[1] \notin ConnectorFunctors
        /\ \A d : f = <<"connectDestroyed", d>> => d = c
    BY Zenon DEF Functors, ConnectorFunctors
  <2>3. functors' = functors \o <<f>>
    BY <2>1, Zenon
  <2> HIDE DEF f
  <2>4. functors \in Seq(Functors) /\ Len(functors) \in Nat /\ batch \in Nat
        /\ batch <= Len(functors)
    BY <1>0 DEF Types
  <2>5. /\ functors' \in Seq(Functors) /\ Len(functors') = Len(functors) + 1
        /\ Has(functors', {"startInLoop"}) <=> Has(functors, {"startInLoop"})
        /\ Has(functors', {"stopInLoop"}) <=> Has(functors, {"stopInLoop"})
        /\ Has(functors', {"resetChannel"}) <=> Has(functors, {"resetChannel"})
        /\ Has(functors', ConnectorFunctors) <=> Has(functors, ConnectorFunctors)
        /\ Has(functors', {"setCloseCallback"}) <=> Has(functors, {"setCloseCallback"})
        /\ AtMostOne(functors, "startInLoop") => AtMostOne(functors', "startInLoop")
        /\ AtMostOne(functors, "resetChannel") => AtMostOne(functors', "resetChannel")
        /\ \A d : About(functors, d) => About(functors', d)
        /\ \A d : Destroys(functors', d) => Destroys(functors, d) \/ d = c
        /\ \A b : ResetWithin(functors, b) => ResetWithin(functors', b)
        /\ \A d : ResetBefore(functors, d) => ResetBefore(functors', d)
    BY <2>2, <2>3, <2>4, OtherAppend, Zenon
  <2>6. /\ Unless({"revived"}) => ~CanForceClose(c) /\ connection_ = c
        /\ c # NoConn
    BY <1>0, <1>1, <1>2, <1>3, ClientAssumption, Zenon DEF OpenInv
  <2>12. connector' \in Connectors
    BY <1>0, <2>1, Zenon DEF Types, TypeOK, Connectors
  <2>7. connection_ = c => connector' = connector
    BY <1>0, <1>2, <2>1, Zenon DEF Types, TypeOK, Connectors
  <2>13. connection_ # c => connector'.aborted
    BY <1>0, <1>2, <2>1, Zenon DEF Types, TypeOK, Connectors
  <2>8. /\ lost' \in BOOLEAN /\ pc' \in {"restart", "idle"}
        /\ cur' \in Conns \cup {NoConn} /\ (pc' # "idle" => cur' # NoConn)
    BY <1>0, <1>2, <2>1, <2>6, Zenon DEF Types
  <2>11. /\ pc' \in {"idle", "connected", "established", "message", "closing", "restart"}
         /\ connection_' \in Conns \cup {NoConn} /\ deadCall' \in BOOLEAN
    BY <1>0, <2>1, <2>8, Zenon DEF Types
  <2>9. connection_ = c => connector.state_ = "kConnected"
    BY <1>0, <2>6, Zenon DEF SocketInv
  <2>10. Unless({"revived"}) => \A d \in Conns : ~CanForceClose(d)
    BY <1>0, <2>6, Zenon DEF OpenInv
  <2>21. Types'
    BY <1>0, <1>1, <2>4, <2>5, <2>8, <2>11, <2>12 DEF Types, TypeOK
  <2>22. SocketInv'
    BY <1>0, <1>1, <2>1, <2>5, <2>7, <2>9, <2>13, Zenon DEF SocketInv
  <2>23. OpenInv'
    BY <1>0, <1>1, <2>1, <2>5, <2>8, <2>10, Zenon DEF OpenInv, Unless, CanForceClose
  <2>24. CallbackInv'
    BY <1>0, <1>1, <1>3, <2>1, <2>5, Zenon DEF CallbackInv, Locked
  <2>25. KeptInv'
    BY <1>0, <1>1, <2>1, <2>10, Zenon DEF KeptInv, CanForceClose, Unless
  <2>26. DeadInv'
    BY <1>0, <1>1, <1>3, Zenon DEF DeadInv
  <2>27. OutlivesInv'
    BY <1>0, <1>1, <1>3, Zenon DEF OutlivesInv
  <2>28. AloneInv'
    BY <1>0, <1>1, <2>1, <2>5, <2>6, <2>7, Zenon DEF AloneInv, Unless
  <2>29. TryInv'
    BY <1>0, <1>1, <1>3, <2>1, <2>5, <2>6, <2>7, ZenonT(60) DEF TryInv, NoMishap, Unless
  <2>30. QED
    BY <2>21, <2>22, <2>23, <2>24, <2>25, <2>26, <2>27, <2>28, <2>29, Zenon DEF IInv
<1>4. CASE ~alive
  <2>1. /\ deadCall' = TRUE /\ pc' = "idle" /\ cur' = NoConn
        /\ UNCHANGED <<connector, connection_, functors, lost>>
    BY <1>4, Zenon DEF RemoveConnection
  <2>2. mishaps \cap {"farThread", "inCallback", "revived"} # {}
    BY <1>0, <1>1, <1>4, Zenon DEF DeadInv, Unless
  <2>3. deadCall' \in BOOLEAN
    BY <2>1, Zenon
  <2>21. Types'
    BY <1>0, <1>1, <2>1, <2>3 DEF Types, TypeOK
  <2>22. SocketInv'
    BY <1>0, <1>1, <2>1, Zenon DEF SocketInv
  <2>23. OpenInv'
    BY <1>0, <1>1, <2>1, Zenon DEF OpenInv, Unless, CanForceClose
  <2>24. CallbackInv'
    BY <1>0, <1>1, <2>1, Zenon DEF CallbackInv, Locked
  <2>25. KeptInv'
    BY <1>0, <1>1, <2>2, Zenon DEF KeptInv, Unless
  <2>26. DeadInv'
    BY <1>0, <1>1, <2>1, Zenon DEF DeadInv, CanForceClose, Unless
  <2>27. OutlivesInv'
    BY <1>0, <1>1, <2>1, Zenon DEF OutlivesInv, Unless
  <2>28. AloneInv'
    BY <1>0, <1>1, <2>1, Zenon DEF AloneInv, Unless
  <2>29. TryInv'
    BY <1>0, <1>1, <2>1, Zenon DEF TryInv, NoMishap, Unless
  <2>30. QED
    BY <2>21, <2>22, <2>23, <2>24, <2>25, <2>26, <2>27, <2>28, <2>29, Zenon DEF IInv
<1>5. QED
  BY <1>0, <1>3, <1>4, Zenon DEF Types, TypeOK

\* connect() in another thread preserves the invariant.
LEMMA ConnectOtherInv ==
  ASSUME IInv, ~connector.aborted, Connect("other")
  PROVE  IInv'
<1>0. Types /\ SocketInv /\ OpenInv /\ CallbackInv /\ KeptInv /\ DeadInv /\ OutlivesInv
      /\ AloneInv /\ TryInv
  BY Zenon DEF IInv
<1> DEFINE f == <<"startInLoop", NoConn>>
<1>1. /\ connect_' = TRUE /\ alive /\ NoMishap /\ functors' = functors \o <<f>>
      /\ lost' = FALSE /\ Mishap(Late)
      /\ UNCHANGED <<retry_, connection_, alive, holder, phase, ready>>
      /\ UNCHANGED <<batch, connState, closeCallback_, held, pc, cur, leaving, caller, deadCall>>
  BY Zenon DEF Connect, MayCall, Late, Queue, where, conns, loop
<1>2. connector \in Connectors /\ connector' = start(connector)
  BY <1>0, Zenon DEF Types, TypeOK, Connect
<1>3. /\ connector' \in Connectors /\ connector'.connect_
      /\ connector'.state_ = connector.state_ /\ connector'.channel_ = connector.channel_
      /\ connector'.fds = connector.fds /\ connector'.timers = connector.timers
      /\ connector'.aborted = connector.aborted
  BY <1>2, SmallFacts, Zenon
<1>4. functors \in Seq(Functors) /\ Len(functors) \in Nat /\ batch \in Nat /\ batch <= Len(functors)
  BY <1>0 DEF Types
<1>9. f = <<"startInLoop", NoConn>> /\ "startInLoop" \in ConnectorFunctors
  BY Zenon DEF ConnectorFunctors
<1> HIDE DEF f
<1>5. /\ functors' \in Seq(Functors) /\ Len(functors') = Len(functors) + 1
      /\ \A names : Has(functors', names) <=> Has(functors, names) \/ "startInLoop" \in names
      /\ \A c \in Conns : About(functors', c) <=> About(functors, c)
      /\ \A c \in Conns : Destroys(functors', c) <=> Destroys(functors, c)
      /\ AtMostOne(functors, "resetChannel") => AtMostOne(functors', "resetChannel")
      /\ AtMostOne(functors, "startInLoop") /\ ~Has(functors, {"startInLoop"}) =>
           AtMostOne(functors', "startInLoop")
  BY <1>1, <1>4, <1>9, ConnectorAppend, Zenon
<1>6. /\ mishaps' \subseteq Mishaps
      /\ \A m \in Mishaps \ {"busy", "reconnect"} : m \notin mishaps'
      /\ connect_' \in BOOLEAN /\ lost' \in BOOLEAN
  BY <1>0, <1>1, Zenon DEF Types, Mishap, Mishaps, Late, If, NoMishap
<1>7. mishaps' \cap {"busy", "reconnect"} = {} =>
        /\ connector.state_ = "kDisconnected" /\ connector.channel_ = "null"
        /\ connector.timers = 0 /\ ~Has(functors, ConnectorFunctors)
        /\ connection_ = NoConn /\ pc \notin {"restart", "connected"}
  <2>1. mishaps' \cap {"busy", "reconnect"} = {} => Idle /\ connector.state_ # "kConnected"
    BY <1>1, Zenon DEF Mishap, Late, If
  <2>2. connector.state_ \in States
    BY <1>0, Zenon DEF Types, TypeOK, Connectors
  <2>3. QED
    BY <1>0, <2>1, <2>2, QueueRange, Zenon DEF Types, Idle, States
<1>8. ~Has(functors, ConnectorFunctors) =>
        /\ ~Has(functors, {"startInLoop"}) /\ ~Has(functors, {"stopInLoop"})
        /\ AtMostOne(functors, "startInLoop")
  BY Zenon DEF Has, ConnectorFunctors, AtMostOne
<1>21. Types'
  BY <1>0, <1>1, <1>3, <1>4, <1>5, <1>6, SMTT(30) DEF Types, TypeOK
<1>22. SocketInv'
  BY <1>0, <1>1, <1>3, <1>5, Zenon DEF SocketInv
<1>10. Unless({"revived"}) /\ Unless({"busy", "reconnect", "revived"})
  BY <1>1, Zenon DEF Unless, NoMishap
<1>23. OpenInv'
  BY <1>0, <1>1, <1>5, <1>10, Zenon DEF OpenInv, Unless, CanForceClose
<1>24. CallbackInv'
  BY <1>0, <1>1, <1>5, <1>6, Zenon DEF CallbackInv, Locked, NoMishap
<1>25. KeptInv'
  BY <1>0, <1>1, <1>5, <1>6, Zenon DEF KeptInv, CanForceClose, Unless, NoMishap
<1>26. DeadInv'
  BY <1>0, <1>1, Zenon DEF DeadInv
<1>27. OutlivesInv'
  BY <1>0, <1>1, Zenon DEF OutlivesInv
<1>28. AloneInv'
  <2>1. Unless({"busy", "reconnect", "revived"})' => mishaps' \cap {"busy", "reconnect"} = {}
    BY Zenon DEF Unless
  <2>2. QED
    BY <1>0, <1>1, <1>3, <1>5, <1>7, <1>8, <1>10, <2>1, ZenonT(60) DEF AloneInv
<1>29. TryInv'
  BY <1>0, <1>1, <1>3, <1>5, <1>7, <1>8, ZenonT(60) DEF TryInv, NoMishap, Unless
<1>30. QED
  BY <1>21, <1>22, <1>23, <1>24, <1>25, <1>26, <1>27, <1>28, <1>29, Zenon DEF IInv

\* stop() preserves the invariant.
LEMMA StopInv ==
  ASSUME IInv, ~connector.aborted, NEW t, Stop(t)
  PROVE  IInv'
<1>0. Types /\ SocketInv /\ OpenInv /\ CallbackInv /\ KeptInv /\ DeadInv /\ OutlivesInv
      /\ AloneInv /\ TryInv
  BY Zenon DEF IInv
<1> DEFINE f == <<"stopInLoop", NoConn>>
<1>1. /\ connect_' = FALSE /\ alive /\ NoMishap /\ functors' = functors \o <<f>>
      /\ mishaps' = mishaps \cup If(pc \in {"restart", "connected"}, "stopRaced")
      /\ UNCHANGED <<retry_, connection_, alive, holder, phase, ready, lost>>
      /\ UNCHANGED <<batch, connState, closeCallback_, held, pc, cur, leaving, caller, deadCall>>
  BY Zenon DEF Stop, MayCall, Mishap, Queue, where, conns, loop
<1>2. connector \in Connectors /\ connector' = stop(connector)
  BY <1>0, Zenon DEF Types, TypeOK, Stop
<1>3. /\ connector' \in Connectors /\ ~connector'.connect_
      /\ connector'.state_ = connector.state_ /\ connector'.channel_ = connector.channel_
      /\ connector'.fds = connector.fds /\ connector'.timers = connector.timers
      /\ connector'.aborted = connector.aborted
  BY <1>2, SmallFacts, Zenon
<1>4. functors \in Seq(Functors) /\ Len(functors) \in Nat /\ batch \in Nat /\ batch <= Len(functors)
  BY <1>0 DEF Types
<1>9. f = <<"stopInLoop", NoConn>> /\ "stopInLoop" \in ConnectorFunctors
  BY Zenon DEF ConnectorFunctors
<1> HIDE DEF f
<1>5. /\ functors' \in Seq(Functors) /\ Len(functors') = Len(functors) + 1
      /\ \A names : Has(functors', names) <=> Has(functors, names) \/ "stopInLoop" \in names
      /\ \A c \in Conns : About(functors', c) <=> About(functors, c)
      /\ \A c \in Conns : Destroys(functors', c) <=> Destroys(functors, c)
      /\ \A n : n # "stopInLoop" /\ AtMostOne(functors, n) => AtMostOne(functors', n)
      /\ \A b : ResetWithin(functors, b) => ResetWithin(functors', b)
      /\ \A c : ResetBefore(functors, c) => ResetBefore(functors', c)
  BY <1>1, <1>4, <1>9, ConnectorAppend, ZenonT(60)
<1>6. /\ mishaps' \subseteq Mishaps
      /\ \A m \in Mishaps \ {"stopRaced"} : m \notin mishaps'
      /\ connect_' \in BOOLEAN
      /\ pc \in {"restart", "connected"} => "stopRaced" \in mishaps'
  BY <1>0, <1>1, Zenon DEF Types, Mishaps, If, NoMishap
<1>21. Types'
  BY <1>0, <1>1, <1>3, <1>4, <1>5, <1>6 DEF Types, TypeOK
<1>22. SocketInv'
  BY <1>0, <1>1, <1>3, <1>5, Zenon DEF SocketInv
<1>23. OpenInv'
  BY <1>0, <1>1, <1>5, Zenon DEF OpenInv, Unless, CanForceClose
<1>24. CallbackInv'
  BY <1>0, <1>1, <1>5, <1>6, Zenon DEF CallbackInv, Locked, NoMishap
<1>25. KeptInv'
  BY <1>0, <1>1, <1>5, <1>6, Zenon DEF KeptInv, CanForceClose, Unless, NoMishap
<1>26. DeadInv'
  BY <1>0, <1>1, Zenon DEF DeadInv
<1>27. OutlivesInv'
  BY <1>0, <1>1, Zenon DEF OutlivesInv
<1>28. AloneInv'
  BY <1>0, <1>1, <1>3, <1>5, <1>6, Zenon DEF AloneInv, Unless, NoMishap
<1>29. TryInv'
  BY <1>0, <1>1, <1>3, <1>5, <1>6, Zenon DEF TryInv, NoMishap, Unless
<1>30. QED
  BY <1>21, <1>22, <1>23, <1>24, <1>25, <1>26, <1>27, <1>28, <1>29, Zenon DEF IInv

\* handleError(), and handleWrite() of an attempt that failed or that stop() has
\* overtaken, preserve the invariant.
LEMMA AttemptEndsInv ==
  ASSUME IInv, ~connector.aborted, HandleError \/ \E o \in Outcomes : HandleWrite(o)
  PROVE  IInv'
<1>0. Types /\ SocketInv /\ OpenInv /\ CallbackInv /\ KeptInv /\ DeadInv /\ OutlivesInv
      /\ AloneInv /\ TryInv
  BY Zenon DEF IInv
<1> DEFINE f == <<"resetChannel", NoConn>>
<1>1. /\ phase = "events" /\ pc = "idle" /\ ready' = ready \ {"connector"}
      /\ connector.channel_ = "watched" /\ functors' = functors \o <<f>>
      /\ UNCHANGED <<connect_, retry_, connection_, alive, holder, phase, lost>>
      /\ UNCHANGED <<batch, connState, closeCallback_, held, pc, cur, leaving, caller>>
      /\ UNCHANGED <<deadCall, mishaps>>
  BY Zenon DEF HandleError, HandleWrite, Handles, Queue, client, where, conns, history
<1>2. connector \in Connectors
  BY <1>0, Zenon DEF Types, TypeOK
<1>3. /\ connector.state_ = "kConnecting" /\ connector.fds = 1 /\ connection_ = NoConn
      /\ ~Has(functors, {"resetChannel"})
  BY <1>0, <1>1, Zenon DEF SocketInv
<1>4. functors \in Seq(Functors) /\ Len(functors) \in Nat /\ batch \in Nat /\ batch <= Len(functors)
  BY <1>0 DEF Types
<1>9. f = <<"resetChannel", NoConn>> /\ "resetChannel" \in ConnectorFunctors
  BY Zenon DEF ConnectorFunctors
<1> HIDE DEF f
<1>5. /\ functors' \in Seq(Functors) /\ Len(functors') = Len(functors) + 1
      /\ \A names : Has(functors', names) <=> Has(functors, names) \/ "resetChannel" \in names
      /\ \A c \in Conns : About(functors', c) <=> About(functors, c)
      /\ \A c \in Conns : Destroys(functors', c) <=> Destroys(functors, c)
      /\ AtMostOne(functors', "resetChannel")
  BY <1>0, <1>1, <1>3, <1>4, <1>9, ConnectorAppend, Zenon DEF SocketInv
<1>6. /\ connector' \in Connectors /\ connector'.channel_ = "removed"
      /\ connector'.fds = connector.fds - 1 /\ connector'.connect_ = connector.connect_
      /\ connector'.aborted = connector.aborted
      /\ \/ /\ connector'.state_ = "kDisconnected"
            /\ connector.connect_ => connector'.timers = connector.timers + 1
            /\ ~connector.connect_ => connector'.timers = connector.timers
         \/ /\ connector'.state_ = "kConnected" /\ ~connector.connect_
            /\ connector'.timers = connector.timers
  <2>1. CASE HandleError
    BY <1>2, <2>1, GiveUpFacts, Zenon DEF HandleError
  <2>2. CASE \E o \in Outcomes : o # "connected" /\ HandleWrite(o)
    BY <1>2, <2>2, GiveUpFacts, Zenon DEF HandleWrite
  <2>3. CASE HandleWrite("connected")
    BY <1>2, <2>3, SucceedFacts, Zenon DEF HandleWrite
  <2>4. QED
    BY <2>1, <2>2, <2>3, Zenon
<1>7. batch' \in Nat /\ batch' <= Len(functors')
  BY <1>1, <1>4, <1>5
<1>21. Types'
  BY <1>0, <1>1, <1>5, <1>6, <1>7, SMTT(60) DEF Types, TypeOK
<1>22. SocketInv'
  BY <1>0, <1>1, <1>3, <1>5, <1>6 DEF SocketInv
<1>23. OpenInv'
  BY <1>0, <1>1, <1>5, Zenon DEF OpenInv, Unless, CanForceClose
<1>24. CallbackInv'
  BY <1>0, <1>1, <1>5, Zenon DEF CallbackInv, Locked
<1>25. KeptInv'
  BY <1>0, <1>1, <1>5, Zenon DEF KeptInv, CanForceClose, Unless
<1>26. DeadInv'
  BY <1>0, <1>1, <1>6, Zenon DEF DeadInv, CanForceClose, Unless
<1>27. OutlivesInv'
  BY <1>0, <1>1, <1>3, <1>6, Zenon DEF OutlivesInv, Unless
<1>28. AloneInv'
  BY <1>0, <1>1, <1>2, <1>3, <1>5, <1>6 DEF AloneInv, Unless, Connectors
<1>29. TryInv'
  BY <1>0, <1>1, <1>2, <1>5, <1>6, SMTT(30) DEF TryInv, NoMishap, Unless, Connectors
<1>30. QED
  BY <1>21, <1>22, <1>23, <1>24, <1>25, <1>26, <1>27, <1>28, <1>29, Zenon DEF IInv

\* handleWrite() of an attempt that succeeded preserves the invariant: the connector is
\* connected, and its socket is to be handed over.
LEMMA ConnectedInv ==
  ASSUME IInv, ~connector.aborted, Connected
  PROVE  IInv'
<1>0. Types /\ SocketInv /\ OpenInv /\ CallbackInv /\ KeptInv /\ DeadInv /\ OutlivesInv
      /\ AloneInv /\ TryInv
  BY Zenon DEF IInv
<1> DEFINE f == <<"resetChannel", NoConn>>
<1>1. /\ phase = "events" /\ pc = "idle" /\ ready' = ready \ {"connector"} /\ pc' = "connected"
      /\ connector.channel_ = "watched" /\ connector.connect_ /\ functors' = functors \o <<f>>
      /\ UNCHANGED <<connect_, retry_, connection_, alive, holder, phase, lost>>
      /\ UNCHANGED <<batch, connState, closeCallback_, held, cur, leaving, caller, deadCall>>
      /\ UNCHANGED mishaps
  BY Zenon DEF Connected, Handles, Queue, client, conns, history
<1>2. connector \in Connectors /\ connector' = handleWrite(connector, "connected")
  BY <1>0, Zenon DEF Types, TypeOK, Connected
<1>3. /\ connector.state_ = "kConnecting" /\ connector.fds = 1 /\ connection_ = NoConn
      /\ ~Has(functors, {"resetChannel"})
  BY <1>0, <1>1, Zenon DEF SocketInv
<1>4. functors \in Seq(Functors) /\ Len(functors) \in Nat /\ batch \in Nat /\ batch <= Len(functors)
  BY <1>0 DEF Types
<1>9. f = <<"resetChannel", NoConn>> /\ "resetChannel" \in ConnectorFunctors
  BY Zenon DEF ConnectorFunctors
<1> HIDE DEF f
<1>5. /\ functors' \in Seq(Functors) /\ Len(functors') = Len(functors) + 1
      /\ \A names : Has(functors', names) <=> Has(functors, names) \/ "resetChannel" \in names
      /\ \A d \in Conns : About(functors', d) <=> About(functors, d)
      /\ \A d \in Conns : Destroys(functors', d) <=> Destroys(functors, d)
      /\ AtMostOne(functors', "resetChannel")
  BY <1>0, <1>1, <1>3, <1>4, <1>9, ConnectorAppend, Zenon DEF SocketInv
<1>6. /\ connector' \in Connectors /\ connector'.channel_ = "removed"
      /\ connector'.fds = connector.fds /\ connector'.connect_ = connector.connect_
      /\ connector'.aborted = connector.aborted
      /\ connector'.state_ = "kConnected" /\ connector'.timers = connector.timers
  BY <1>1, <1>2, SucceedFacts, ZenonT(60)
<1>7. batch' \in Nat /\ batch' <= Len(functors')
  BY <1>1, <1>4, <1>5
<1>8. ~alive => "farThread" \in mishaps
  BY <1>0, <1>1, <1>3, Zenon DEF DeadInv, Unless
<1>21. Types'
  BY <1>0, <1>1, <1>5, <1>6, <1>7, SMTT(60) DEF Types, TypeOK
<1>22. SocketInv'
  BY <1>0, <1>1, <1>3, <1>5, <1>6, Zenon DEF SocketInv
<1>23. OpenInv'
  BY <1>0, <1>1, <1>5, Zenon DEF OpenInv, Unless, CanForceClose
<1>24. CallbackInv'
  BY <1>0, <1>1, <1>5, Zenon DEF CallbackInv, Locked
<1>25. KeptInv'
  BY <1>0, <1>1, <1>5, Zenon DEF KeptInv, CanForceClose, Unless
<1>26. DeadInv'
  BY <1>1, <1>8, Zenon DEF DeadInv, Unless
<1>27. OutlivesInv'
  BY <1>1, <1>8, Zenon DEF OutlivesInv, Unless
<1>28. AloneInv'
  BY <1>0, <1>1, <1>3, <1>5, <1>6, Zenon DEF AloneInv, Unless
<1>29. TryInv'
  BY <1>0, <1>1, <1>5, <1>6, Zenon DEF TryInv, NoMishap, Unless
<1>30. QED
  BY <1>21, <1>22, <1>23, <1>24, <1>25, <1>26, <1>27, <1>28, <1>29, Zenon DEF IInv

\* newConnection() preserves the invariant: it takes the place of no connection, and
\* is not called once the client is destroyed.
LEMMA NewConnectionInv ==
  ASSUME IInv, ~connector.aborted, NEW c \in Conns, NewConnection(c)
  PROVE  IInv'
<1>0. Types /\ SocketInv /\ OpenInv /\ CallbackInv /\ KeptInv /\ DeadInv /\ OutlivesInv
      /\ AloneInv /\ TryInv
  BY Zenon DEF IInv
<1>1. /\ pc = "connected" /\ ~Refs(c) /\ connector' = close(connector)
      /\ UNCHANGED <<connect_, retry_, alive, functors, holder, phase, ready, lost>>
      /\ UNCHANGED <<batch, held, leaving, caller, mishaps>>
  BY Zenon DEF NewConnection, loop
<1>2. connector \in Connectors /\ functors \in Seq(Functors)
  BY <1>0, Zenon DEF Types, TypeOK
<1>3. /\ connector.state_ = "kConnected" /\ connector.channel_ # "watched"
      /\ connector.fds = 1 /\ connection_ = NoConn
  BY <1>0, <1>1, Zenon DEF SocketInv
<1>4. /\ connector' \in Connectors /\ connector'.fds = connector.fds - 1
      /\ connector'.state_ = connector.state_ /\ connector'.channel_ = connector.channel_
      /\ connector'.timers = connector.timers /\ connector'.connect_ = connector.connect_
      /\ connector'.aborted = connector.aborted /\ connector'.gaveUp = connector.gaveUp
  BY <1>1, <1>2, CloseFacts, Zenon
<1>5. connector'.fds = 0
  BY <1>3, <1>4
<1>6. Unless({"revived"}) => \A d \in Conns : ~CanForceClose(d) /\ d \notin ready
  BY <1>0, <1>3, ClientAssumption, Zenon DEF OpenInv
<1>7. CASE alive
  <2>1. /\ connection_' = c /\ ~Locked
        /\ connState' = [connState EXCEPT ![c] = "kConnected"]
        /\ closeCallback_' = [closeCallback_ EXCEPT ![c] = "client"]
        /\ pc' = "established" /\ cur' = c /\ deadCall' = deadCall
    BY <1>7, Zenon DEF NewConnection
  <2>2. c # NoConn /\ ~About(functors, c) /\ ~Destroys(functors, c)
    BY <1>1, <1>2, ClientAssumption, QueueRange, DestroysAbout, Zenon DEF Refs
  <2>3. Unless({"revived"}) => \A d \in Conns : d # c => ~CanForceClose(d)'
    BY <1>0, <1>6, <2>1, Zenon DEF Types, TypeOK, CanForceClose
  <2>4. CanForceClose(c)' /\ \A d \in Conns : closeCallback_'[d] = "client"
    BY <1>0, <1>7, <2>1, Zenon DEF Types, TypeOK, CallbackInv, CanForceClose
  <2>5. /\ connState' \in [Conns -> {"kConnected", "kDisconnecting", "kDisconnected"}]
        /\ closeCallback_' \in [Conns -> {"client", "detail"}]
    BY <1>0, <2>1 DEF Types, TypeOK
  <2>6. ResetBefore(functors, c)
    BY <2>2, Zenon DEF ResetBefore, About
  <2>7. phase = "events"
    BY <1>0, <1>1, Zenon DEF Types
  <2>21. Types'
    BY <1>0, <1>1, <1>4, <2>1, <2>2, <2>5, ZenonT(60) DEF Types, TypeOK
  <2>22. SocketInv'
    BY <1>0, <1>1, <1>3, <1>4, <1>5, <2>1, Zenon DEF SocketInv
  <2>23. OpenInv'
    BY <1>0, <1>1, <1>6, <2>1, <2>2, <2>3, Zenon DEF OpenInv, Unless
  <2>24. CallbackInv'
    BY <1>0, <1>1, <1>7, <2>1, <2>4, Zenon DEF CallbackInv, Locked
  <2>25. KeptInv'
    BY <1>0, <1>1, <1>7, <2>1, <2>3, Zenon DEF KeptInv, Unless
  <2>26. DeadInv'
    BY <1>1, <1>7, Zenon DEF DeadInv
  <2>27. OutlivesInv'
    BY <1>1, <1>7, Zenon DEF OutlivesInv
  <2>28. AloneInv'
    BY <1>0, <1>1, <1>4, <1>6, <2>1, <2>6, <2>7, Zenon DEF AloneInv, Unless
  <2>29. TryInv'
    BY <1>0, <1>1, <1>4, <2>1, <2>2, Zenon DEF TryInv, NoMishap, Unless
  <2>30. QED
    BY <2>21, <2>22, <2>23, <2>24, <2>25, <2>26, <2>27, <2>28, <2>29, Zenon DEF IInv
<1>8. CASE ~alive
  <2>1. /\ deadCall' = TRUE /\ pc' = "idle"
        /\ UNCHANGED <<connection_, connState, closeCallback_, cur>>
    BY <1>8, Zenon DEF NewConnection
  <2>2. "farThread" \in mishaps
    BY <1>0, <1>1, <1>8, Zenon DEF DeadInv, Unless
  <2>3. deadCall' \in BOOLEAN
    BY <2>1, Zenon
  <2>21. Types'
    BY <1>0, <1>1, <1>4, <2>1, <2>3, ZenonT(60) DEF Types, TypeOK
  <2>22. SocketInv'
    BY <1>0, <1>1, <1>3, <1>4, <1>5, <2>1, Zenon DEF SocketInv
  <2>23. OpenInv'
    BY <1>0, <1>1, <2>1, Zenon DEF OpenInv, Unless, CanForceClose
  <2>24. CallbackInv'
    BY <1>0, <1>1, <2>1, Zenon DEF CallbackInv, Locked
  <2>25. KeptInv'
    BY <1>1, <2>2, Zenon DEF KeptInv, Unless
  <2>26. DeadInv'
    BY <1>1, <2>2, Zenon DEF DeadInv, Unless
  <2>27. OutlivesInv'
    BY <1>1, <2>2, Zenon DEF OutlivesInv, Unless
  <2>28. AloneInv'
    BY <1>0, <1>1, <1>4, <2>1, Zenon DEF AloneInv, Unless
  <2>29. TryInv'
    BY <1>1, <2>2, Zenon DEF TryInv, NoMishap, Unless
  <2>30. QED
    BY <2>21, <2>22, <2>23, <2>24, <2>25, <2>26, <2>27, <2>28, <2>29, Zenon DEF IInv
<1>9. QED
  BY <1>7, <1>8, Zenon

\* The destructor in the loop's thread preserves the invariant.
LEMMA DestroyInv ==
  ASSUME IInv, ~connector.aborted, Destroy
  PROVE  IInv'
<1>0. Types /\ SocketInv /\ OpenInv /\ CallbackInv /\ KeptInv /\ DeadInv /\ OutlivesInv
      /\ AloneInv /\ TryInv
  BY Zenon DEF IInv
<1>1. /\ alive /\ NoMishap /\ pc \notin {"restart", "connected"} /\ alive' = FALSE /\ ~Locked
      /\ mishaps' = If(cur # NoConn, "inCallback")
                    \cup If(connection_ # NoConn /\ Waiting(ConnectorFunctors), "early")
      /\ UNCHANGED <<connect_, retry_, connection_, phase, ready, lost>>
      /\ UNCHANGED <<batch, held, pc, cur, leaving, caller, deadCall>>
  BY Zenon DEF Destroy, Finish, MayCall, Mishap, NoMishap, where, loop
<1>2. functors \in Seq(Functors) /\ Len(functors) \in Nat /\ batch \in Nat /\ batch <= Len(functors)
  BY <1>0 DEF Types
<1>3. /\ mishaps' \subseteq Mishaps /\ alive' \in BOOLEAN
      /\ \A m \in Mishaps \ {"inCallback", "early"} : m \notin mishaps'
      /\ cur # NoConn => "inCallback" \in mishaps'
      /\ connection_ # NoConn /\ Has(functors, ConnectorFunctors) => "early" \in mishaps'
  BY <1>1, <1>2, QueueRange, Zenon DEF Mishaps, If
<1>4. mishaps = {} /\ ~leaving.in /\ ~Has(functors, {"setCloseCallback"})
  BY <1>0, <1>1, ZenonT(60) DEF NoMishap, CallbackInv
<1>7. Unless({"revived"})
  BY <1>4, Zenon DEF Unless
<1>5. CASE connection_ # NoConn
  <2>1. PICK c \in Conns : c = connection_
    BY <1>0, <1>5, Zenon DEF Types, TypeOK
  <2> DEFINE f == <<"forceCloseInLoop", c>>
             forced == NoOtherPointer(c) /\ CanForceClose(c)
  <2>2. /\ closeCallback_' = [closeCallback_ EXCEPT ![c] = "detail"]
        /\ functors' = functors \o (<< >> \o IF forced THEN <<f>> ELSE << >>)
        /\ connState' = [connState EXCEPT ![c] = IF forced THEN "kDisconnecting" ELSE @]
        /\ UNCHANGED <<connector, holder>>
    BY <1>5, <2>1, Zenon DEF Destroy, Finish, Queue, Rebind
  <2>3. /\ f \in Functors /\ f[1] = "forceCloseInLoop" /\ f[1] \notin ConnectorFunctors
        /\ f[2] = c /\ \A d : f # <<"connectDestroyed", d>>
    BY Zenon DEF Functors, ConnectorFunctors
  <2> HIDE DEF f
  <2>4. functors' = IF forced THEN functors \o <<f>> ELSE functors
    BY <1>2, <2>2, <2>3, AppendSome, Zenon
  <2>5. /\ \A d \in Conns : CanForceClose(d)' <=> CanForceClose(d)
        /\ connState' \in [Conns -> {"kConnected", "kDisconnecting", "kDisconnected"}]
    BY <1>0, <2>2, Zenon DEF Types, TypeOK, CanForceClose
  <2>6. /\ functors' \in Seq(Functors) /\ batch <= Len(functors')
        /\ Has(functors', {"startInLoop"}) <=> Has(functors, {"startInLoop"})
        /\ Has(functors', {"stopInLoop"}) <=> Has(functors, {"stopInLoop"})
        /\ Has(functors', {"resetChannel"}) <=> Has(functors, {"resetChannel"})
        /\ Has(functors', ConnectorFunctors) <=> Has(functors, ConnectorFunctors)
        /\ Has(functors', {"setCloseCallback"}) <=> Has(functors, {"setCloseCallback"})
        /\ AtMostOne(functors, "startInLoop") => AtMostOne(functors', "startInLoop")
        /\ AtMostOne(functors, "resetChannel") => AtMostOne(functors', "resetChannel")
        /\ \A d : About(functors, d) => About(functors', d)
        /\ \A d : Destroys(functors', d) => Destroys(functors, d)
        /\ \A b : ResetWithin(functors, b) => ResetWithin(functors', b)
        /\ \A d : ResetBefore(functors, d) => ResetBefore(functors', d)
        /\ forced => About(functors', c)
    <3>1. CASE ~forced
      BY <1>2, <2>4, <3>1, Zenon
    <3>2. CASE forced
      <4>1. functors' = functors \o <<f>>
        BY <2>4, <3>2, Zenon
      <4> HIDE DEF forced
      <4>2. /\ functors' \in Seq(Functors) /\ Len(functors') = Len(functors) + 1
            /\ Has(functors', {"setCloseCallback"}) <=>
                 Has(functors, {"setCloseCallback"}) \/ f[1] = "setCloseCallback"
            /\ \A d : About(functors', d) <=> About(functors, d) \/ f[2] = d
            /\ \A d : Destroys(functors', d) <=> Destroys(functors, d) \/ f = <<"connectDestroyed", d>>
        BY <1>2, <2>3, <4>1, OtherAppend, Zenon
      <4>3. /\ Has(functors', {"startInLoop"}) <=> Has(functors, {"startInLoop"})
            /\ Has(functors', {"stopInLoop"}) <=> Has(functors, {"stopInLoop"})
            /\ Has(functors', {"resetChannel"}) <=> Has(functors, {"resetChannel"})
            /\ Has(functors', ConnectorFunctors) <=> Has(functors, ConnectorFunctors)
        BY <1>2, <2>3, <4>1, OtherAppend, Zenon
      <4>4. /\ AtMostOne(functors, "startInLoop") => AtMostOne(functors', "startInLoop")
            /\ AtMostOne(functors, "resetChannel") => AtMostOne(functors', "resetChannel")
            /\ \A b : ResetWithin(functors, b) => ResetWithin(functors', b)
            /\ \A d : ResetBefore(functors, d) => ResetBefore(functors', d)
        BY <1>2, <2>3, <4>1, OtherAppend, Zenon
      <4>5. batch <= Len(functors')
        BY <1>2, <4>2
      <4>6. QED
        BY <2>3, <4>2, <4>3, <4>4, <4>5, Zenon
    <3>3. QED
      BY <3>1, <3>2, Zenon
  <2>7. CanForceClose(c) => held[c] \/ cur = c \/ About(functors', c) \/ caller.conn = c
    BY <1>2, <2>6, QueueRange, Zenon DEF NoOtherPointer
  <2> HIDE DEF forced
  <2>8. /\ connector.state_ = "kConnected" /\ connector.channel_ # "watched"
        /\ connector.channel_ \in ChannelStates
    BY <1>0, <1>5, Zenon DEF SocketInv, Types, TypeOK, Connectors
  <2>9. Has(functors, {"resetChannel"}) => Has(functors, ConnectorFunctors)
    BY Zenon DEF Has, ConnectorFunctors
  <2>10. closeCallback_' \in [Conns -> {"client", "detail"}] /\ closeCallback_'[c] = "detail"
    BY <1>0, <2>2, Zenon DEF Types
  <2>11. UNCHANGED <<connector, holder>> /\ (cur # NoConn => cur \in Conns) /\ c # NoConn
    BY <1>0, <2>2, ClientAssumption, ZenonT(60) DEF Types, TypeOK
  <2>21. Types'
    BY <1>0, <1>1, <1>2, <1>3, <2>5, <2>6, <2>10, <2>11, SMTT(30) DEF Types, TypeOK
  <2>22. SocketInv'
    BY <1>0, <1>1, <1>3, <1>4, <2>6, <2>11, Zenon DEF SocketInv
  <2>23. OpenInv'
    BY <1>0, <1>1, <1>7, <2>5, <2>6, <2>11, Zenon DEF OpenInv, Unless, Types
  <2>24. CallbackInv'
    BY <1>0, <1>1, <1>3, <1>4, <2>6, <2>11, Zenon DEF CallbackInv, Locked
  <2>25. KeptInv'
    BY <1>0, <1>1, <1>3, <1>4, <2>1, <2>5, <2>7, <2>11, Zenon DEF KeptInv, OpenInv, Unless
  <2>26. DeadInv'
    BY <1>0, <1>1, <1>3, <1>5, <1>7, <2>1, <2>5, <2>10, Zenon DEF DeadInv, OpenInv, Types,
      Unless
  <2>27. OutlivesInv'
    BY <1>0, <1>1, <1>3, <1>5, <2>6, <2>8, <2>9, <2>11, Zenon DEF OutlivesInv, SocketInv,
      Unless, ChannelStates
  <2>28. AloneInv'
    BY <1>0, <1>1, <1>3, <1>4, <2>6, <2>11, Zenon DEF AloneInv, Unless
  <2>29. TryInv'
    BY <1>0, <1>1, <1>4, <1>5, <2>6, <2>11, ZenonT(60) DEF TryInv, NoMishap, Unless
  <2>30. QED
    BY <2>21, <2>22, <2>23, <2>24, <2>25, <2>26, <2>27, <2>28, <2>29, Zenon DEF IInv
<1>6. CASE connection_ = NoConn
  <2> DEFINE f == <<"stopInLoop", NoConn>>
  <2>1. /\ connector' = stop(connector) /\ functors' = functors \o (<<f>> \o << >>)
        /\ holder' = TRUE
        /\ UNCHANGED <<connState, closeCallback_>>
    BY <1>6, Zenon DEF Destroy, Finish, Queue, KeepConnector
  <2>2. f \in Functors /\ f = <<"stopInLoop", NoConn>> /\ "stopInLoop" \in ConnectorFunctors
    BY Zenon DEF Functors, ConnectorFunctors
  <2> HIDE DEF f
  <2>3. functors' = functors \o <<f>>
    BY <1>2, <2>1, <2>2, AppendSome, Zenon
  <2>4. connector \in Connectors
    BY <1>0, Zenon DEF Types, TypeOK
  <2>5. /\ connector' \in Connectors /\ ~connector'.connect_
        /\ connector'.state_ = connector.state_ /\ connector'.channel_ = connector.channel_
        /\ connector'.fds = connector.fds /\ connector'.timers = connector.timers
        /\ connector'.aborted = connector.aborted
    BY <2>1, <2>4, SmallFacts, Zenon
  <2>6. /\ functors' \in Seq(Functors) /\ Len(functors') = Len(functors) + 1
        /\ \A names : Has(functors', names) <=> Has(functors, names) \/ "stopInLoop" \in names
        /\ \A c \in Conns : About(functors', c) <=> About(functors, c)
        /\ \A c \in Conns : Destroys(functors', c) <=> Destroys(functors, c)
        /\ \A n : n # "stopInLoop" /\ AtMostOne(functors, n) => AtMostOne(functors', n)
        /\ \A b : ResetWithin(functors, b) => ResetWithin(functors', b)
        /\ \A c : ResetBefore(functors, c) => ResetBefore(functors', c)
    BY <1>2, <2>2, <2>3, ConnectorAppend, Zenon
  <2>7. holder' \in BOOLEAN
    BY <2>1, Zenon
  <2>8. \A d \in Conns : ~CanForceClose(d)
    BY <1>0, <1>6, <1>7, ClientAssumption, ZenonT(60) DEF OpenInv
  <2>21. Types'
    BY <1>0, <1>1, <1>2, <1>3, <2>1, <2>5, <2>6, <2>7, SMTT(30) DEF Types, TypeOK
  <2>22. SocketInv'
    BY <1>0, <1>1, <2>5, <2>6, Zenon DEF SocketInv
  <2>23. OpenInv'
    BY <1>0, <1>1, <1>7, <2>1, <2>6, Zenon DEF OpenInv, Unless, CanForceClose
  <2>24. CallbackInv'
    BY <1>0, <1>1, <1>3, <1>4, <2>6, Zenon DEF CallbackInv, Locked
  <2>25. KeptInv'
    BY <1>0, <1>1, <1>4, <2>1, <2>8, Zenon DEF KeptInv, CanForceClose, Unless
  <2>26. DeadInv'
    BY <1>0, <1>1, <1>3, <2>1, <2>5, <2>8, Zenon DEF DeadInv, Types, CanForceClose, Unless
  <2>27. OutlivesInv'
    BY <1>0, <1>1, <1>6, <2>1, <2>6, Zenon DEF OutlivesInv
  <2>28. AloneInv'
    BY <1>0, <1>1, <1>3, <1>4, <1>6, <2>5, <2>6, Zenon DEF AloneInv, Unless
  <2>29. TryInv'
    BY <1>0, <1>1, <2>5, Zenon DEF TryInv, NoMishap, Unless
  <2>30. QED
    BY <2>21, <2>22, <2>23, <2>24, <2>25, <2>26, <2>27, <2>28, <2>29, Zenon DEF IInv
<1>8. QED
  BY <1>5, <1>6, Zenon

\* The rest of the destructor in another thread preserves the invariant.
LEMMA FinishElsewhereInv ==
  ASSUME IInv, ~connector.aborted, FinishElsewhere
  PROVE  IInv'
<1>0. Types /\ SocketInv /\ OpenInv /\ CallbackInv /\ KeptInv /\ DeadInv /\ OutlivesInv
      /\ AloneInv /\ TryInv
  BY Zenon DEF IInv
<1>1. /\ leaving.in /\ alive' = FALSE /\ leaving' = Gone
      /\ UNCHANGED <<connect_, retry_, connection_, phase, ready, lost, mishaps>>
      /\ UNCHANGED <<batch, held, pc, cur, caller, deadCall>>
  BY Zenon DEF FinishElsewhere, Finish, loop
<1>2. functors \in Seq(Functors) /\ Len(functors) \in Nat /\ batch \in Nat /\ batch <= Len(functors)
  BY <1>0 DEF Types
<1>3. "farThread" \in mishaps
  BY <1>0, <1>1, Zenon DEF CallbackInv
<1>4. /\ leaving' \in [conn : Conns \cup {NoConn}, unique : BOOLEAN, in : BOOLEAN]
      /\ ~leaving'.unique /\ ~leaving'.in /\ alive' \in BOOLEAN
  BY <1>1, ZenonT(60) DEF Gone
<1>7. ~Locked'
  <2>1. caller' = NoCall
    BY <1>0, <1>1, Zenon DEF CallbackInv
  <2>2. NoCall.call # "shutdown"
    BY SMTT(30) DEF NoCall
  <2>3. QED
    BY <2>1, <2>2, Zenon DEF Locked
<1>5. CASE leaving.conn # NoConn
  <2>1. PICK c \in Conns : c = leaving.conn
    BY <1>0, <1>5, Zenon DEF Types
  <2> DEFINE s == <<"setCloseCallback", c>>
             f == <<"forceCloseInLoop", c>>
             forced == leaving.unique /\ CanForceClose(c)
             q == functors \o <<s>>
  <2>2. /\ closeCallback_' = [closeCallback_ EXCEPT ![c] = @]
        /\ functors' = functors \o (<<s>> \o IF forced THEN <<f>> ELSE << >>)
        /\ connState' = [connState EXCEPT ![c] = IF forced THEN "kDisconnecting" ELSE @]
        /\ UNCHANGED <<connector, holder>>
    BY <1>5, <2>1, Zenon DEF FinishElsewhere, Finish, Queue, Rebind
  <2>3. /\ f \in Functors /\ f[1] = "forceCloseInLoop" /\ f[1] \notin ConnectorFunctors
        /\ \A d : f # <<"connectDestroyed", d>>
        /\ s \in Functors /\ s[1] = "setCloseCallback" /\ s[1] \notin ConnectorFunctors
        /\ \A d : s # <<"connectDestroyed", d>>
    BY Zenon DEF Functors, ConnectorFunctors
  <2> HIDE DEF f, s
  <2>4. functors' = IF forced THEN q \o <<f>> ELSE q
    BY <1>2, <2>2, <2>3, AppendSome, ZenonT(60)
  <2>5. /\ \A d \in Conns : CanForceClose(d)' <=> CanForceClose(d)
        /\ connState' \in [Conns -> {"kConnected", "kDisconnecting", "kDisconnected"}]
    BY <1>0, <2>2, Zenon DEF Types, TypeOK, CanForceClose
  <2> HIDE DEF q, forced
  <2>6. /\ q \in Seq(Functors) /\ Len(q) = Len(functors) + 1
        /\ Has(q, {"startInLoop"}) <=> Has(functors, {"startInLoop"})
        /\ Has(q, {"resetChannel"}) <=> Has(functors, {"resetChannel"})
        /\ AtMostOne(functors, "startInLoop") => AtMostOne(q, "startInLoop")
        /\ AtMostOne(functors, "resetChannel") => AtMostOne(q, "resetChannel")
        /\ \A d : Destroys(q, d) => Destroys(functors, d)
        /\ \A b : ResetWithin(functors, b) => ResetWithin(q, b)
        /\ \A d : ResetBefore(functors, d) => ResetBefore(q, d)
    BY <1>2, <2>3, OtherAppend, Zenon DEF q
  <2>7. /\ functors' \in Seq(Functors) /\ batch <= Len(functors')
        /\ Has(functors', {"startInLoop"}) <=> Has(functors, {"startInLoop"})
        /\ Has(functors', {"resetChannel"}) <=> Has(functors, {"resetChannel"})
        /\ AtMostOne(functors, "startInLoop") => AtMostOne(functors', "startInLoop")
        /\ AtMostOne(functors, "resetChannel") => AtMostOne(functors', "resetChannel")
        /\ \A d \in Conns : Destroys(functors', d) => Destroys(functors, d)
        /\ \A b : ResetWithin(functors, b) => ResetWithin(functors', b)
        /\ \A d : ResetBefore(functors, d) => ResetBefore(functors', d)
    <3>1. CASE functors' = q
      BY <1>2, <2>6, <3>1, SMTT(30)
    <3>2. CASE functors' = q \o <<f>>
      <4>1. /\ functors' \in Seq(Functors) /\ Len(functors') = Len(q) + 1
            /\ Has(functors', {"startInLoop"}) <=> Has(q, {"startInLoop"})
            /\ Has(functors', {"resetChannel"}) <=> Has(q, {"resetChannel"})
            /\ AtMostOne(q, "startInLoop") => AtMostOne(functors', "startInLoop")
            /\ AtMostOne(q, "resetChannel") => AtMostOne(functors', "resetChannel")
            /\ \A d \in Conns : Destroys(functors', d) => Destroys(q, d)
            /\ \A b : ResetWithin(q, b) => ResetWithin(functors', b)
            /\ \A d : ResetBefore(q, d) => ResetBefore(functors', d)
        BY <2>3, <2>6, <3>2, OtherAppend, Zenon
      <4>2. QED
        BY <1>2, <2>6, <4>1
    <3>3. QED
      BY <2>4, <3>1, <3>2, Zenon
  <2>8. closeCallback_' = closeCallback_ /\ (cur # NoConn => cur \in Conns)
    BY <1>0, <2>2, Zenon DEF Types, TypeOK
  <2>9. UNCHANGED <<connector, holder>>
    BY <2>2, ZenonT(60)
  <2>21. Types'
    BY <1>0, <1>1, <1>2, <1>4, <2>5, <2>7, <2>8, <2>9, SMTT(30) DEF Types, TypeOK
  <2>22. SocketInv'
    BY <1>0, <1>1, <2>7, <2>9, Zenon DEF SocketInv
  <2>23. OpenInv'
    BY <1>0, <1>1, <2>5, <2>7, <2>8, Zenon DEF OpenInv, Unless, Types
  <2>24. CallbackInv'
    BY <1>0, <1>1, <1>3, <1>4, <1>7, Zenon DEF CallbackInv
  <2>25. KeptInv'
    BY <1>0, <1>1, <1>3, Zenon DEF KeptInv, Unless
  <2>26. DeadInv'
    BY <1>0, <1>1, <1>3, Zenon DEF DeadInv, Unless
  <2>27. OutlivesInv'
    BY <1>0, <1>1, <1>3, Zenon DEF OutlivesInv, Unless
  <2>28. AloneInv'
    BY <1>0, <1>1, <2>7, <2>9, Zenon DEF AloneInv, Unless
  <2>29. TryInv'
    BY <1>0, <1>1, <1>3, ZenonT(60) DEF TryInv, NoMishap, Unless
  <2>30. QED
    BY <2>21, <2>22, <2>23, <2>24, <2>25, <2>26, <2>27, <2>28, <2>29, Zenon DEF IInv
<1>6. CASE leaving.conn = NoConn
  <2> DEFINE s == <<"stopInLoop", NoConn>>
             f == <<"addTimerInLoop", NoConn>>
             q == functors \o <<s>>
  <2>1. /\ connector' = stop(connector) /\ functors' = functors \o (<<s>> \o <<f>>)
        /\ holder' = FALSE
        /\ UNCHANGED <<connState, closeCallback_>>
    BY <1>6, Zenon DEF FinishElsewhere, Finish, Queue, KeepConnector
  <2>2. /\ s \in Functors /\ s = <<"stopInLoop", NoConn>> /\ "stopInLoop" \in ConnectorFunctors
        /\ f \in Functors /\ f[1] = "addTimerInLoop" /\ f[1] \notin ConnectorFunctors
        /\ \A d : f # <<"connectDestroyed", d>>
    BY Zenon DEF Functors, ConnectorFunctors
  <2> HIDE DEF s, f
  <2>3. functors' = q \o <<f>>
    BY <1>2, <2>1, <2>2, AppendSome, ZenonT(60)
  <2>4. connector \in Connectors
    BY <1>0, Zenon DEF Types, TypeOK
  <2>5. /\ connector' \in Connectors /\ ~connector'.connect_
        /\ connector'.state_ = connector.state_ /\ connector'.channel_ = connector.channel_
        /\ connector'.fds = connector.fds /\ connector'.timers = connector.timers
        /\ connector'.aborted = connector.aborted
    BY <2>1, <2>4, SmallFacts, Zenon
  <2> HIDE DEF q
  <2>6. /\ q \in Seq(Functors) /\ Len(q) = Len(functors) + 1
        /\ \A names : Has(q, names) <=> Has(functors, names) \/ "stopInLoop" \in names
        /\ \A n : n # "stopInLoop" /\ AtMostOne(functors, n) => AtMostOne(q, n)
        /\ \A d \in Conns : Destroys(q, d) <=> Destroys(functors, d)
        /\ \A b : ResetWithin(functors, b) => ResetWithin(q, b)
        /\ \A d : ResetBefore(functors, d) => ResetBefore(q, d)
    BY <1>2, <2>2, ConnectorAppend, ZenonT(60) DEF q
  <2>7. /\ functors' \in Seq(Functors) /\ batch <= Len(functors')
        /\ Has(functors', {"startInLoop"}) <=> Has(functors, {"startInLoop"})
        /\ Has(functors', {"resetChannel"}) <=> Has(functors, {"resetChannel"})
        /\ AtMostOne(functors, "startInLoop") => AtMostOne(functors', "startInLoop")
        /\ AtMostOne(functors, "resetChannel") => AtMostOne(functors', "resetChannel")
        /\ \A d \in Conns : Destroys(functors', d) => Destroys(functors, d)
        /\ \A b : ResetWithin(functors, b) => ResetWithin(functors', b)
        /\ \A d : ResetBefore(functors, d) => ResetBefore(functors', d)
    <3>1. /\ functors' \in Seq(Functors) /\ Len(functors') = Len(q) + 1
          /\ Has(functors', {"startInLoop"}) <=> Has(q, {"startInLoop"})
          /\ Has(functors', {"resetChannel"}) <=> Has(q, {"resetChannel"})
          /\ AtMostOne(q, "startInLoop") => AtMostOne(functors', "startInLoop")
          /\ AtMostOne(q, "resetChannel") => AtMostOne(functors', "resetChannel")
          /\ \A d \in Conns : Destroys(functors', d) => Destroys(q, d)
          /\ \A b : ResetWithin(q, b) => ResetWithin(functors', b)
          /\ \A d : ResetBefore(q, d) => ResetBefore(functors', d)
      BY <2>2, <2>3, <2>6, OtherAppend, Zenon
    <3>2. QED
      BY <1>2, <2>6, <3>1
  <2>8. holder' \in BOOLEAN
    BY <2>1, Zenon
  <2>21. Types'
    BY <1>0, <1>1, <1>2, <1>4, <2>1, <2>5, <2>7, <2>8, ZenonT(60) DEF Types, TypeOK
  <2>22. SocketInv'
    BY <1>0, <1>1, <2>5, <2>7, Zenon DEF SocketInv
  <2>23. OpenInv'
    BY <1>0, <1>1, <2>1, <2>7, Zenon DEF OpenInv, Unless, CanForceClose
  <2>24. CallbackInv'
    BY <1>0, <1>1, <1>3, <1>4, <1>7, Zenon DEF CallbackInv
  <2>25. KeptInv'
    BY <1>0, <1>1, <1>3, Zenon DEF KeptInv, Unless
  <2>26. DeadInv'
    BY <1>0, <1>1, <1>3, Zenon DEF DeadInv, Unless
  <2>27. OutlivesInv'
    BY <1>0, <1>1, <1>3, Zenon DEF OutlivesInv, Unless
  <2>28. AloneInv'
    BY <1>0, <1>1, <2>5, <2>7, Zenon DEF AloneInv, Unless
  <2>29. TryInv'
    BY <1>0, <1>1, <1>3, Zenon DEF TryInv, NoMishap, Unless
  <2>30. QED
    BY <2>21, <2>22, <2>23, <2>24, <2>25, <2>26, <2>27, <2>28, <2>29, Zenon DEF IInv
<1>8. QED
  BY <1>5, <1>6, Zenon

-----------------------------------------------------------------------------
(* The invariant, and the properties it implies.                           *)

\* The invariant holds of a client that was just made.
LEMMA InitInv == Init => IInv
<1> SUFFICES ASSUME Init
             PROVE  IInv
  BY Zenon
<1>1. NewConnector \in Connectors
  BY DelayAssumption, SMTT(30) DEF NewConnector, Connectors, States, ChannelStates
<1>2. /\ Len(functors) = 0 /\ functors \in Seq(Functors)
      /\ \A names : ~Has(functors, names)
      /\ \A n : AtMostOne(functors, n)
      /\ \A c : ~Destroys(functors, c)
  BY DEF Init, Has, AtMostOne, Destroys
<1>3. connector = NewConnector /\ \A c \in Conns : ~CanForceClose(c)
  BY Zenon DEF Init, CanForceClose
<1>4. Types
  <2>1. TypeOK
    BY <1>1, <1>3, Zenon DEF Init, TypeOK
  <2>2. /\ closeCallback_ \in [Conns -> {"client", "detail"}]
        /\ held \in [Conns -> BOOLEAN]
        /\ leaving \in [conn : Conns \cup {NoConn}, unique : BOOLEAN, in : BOOLEAN]
        /\ ~leaving.unique
    BY Zenon DEF Init, Gone
  <2>3. /\ phase = "events" /\ batch = 0 /\ pc = "idle" /\ mishaps = {} /\ caller = NoCall
        /\ holder \in BOOLEAN /\ lost \in BOOLEAN /\ deadCall \in BOOLEAN
    BY Zenon DEF Init
  <2>4. QED
    BY <1>2, <2>1, <2>2, <2>3 DEF Types
<1>5. SocketInv
  BY <1>2, <1>3 DEF Init, SocketInv, NewConnector
<1>6. OpenInv
  BY <1>2, <1>3, Zenon DEF Init, OpenInv
<1>7. CallbackInv
  BY <1>2, Zenon DEF Init, CallbackInv, Locked, Gone, NoCall
<1>8. KeptInv /\ DeadInv /\ OutlivesInv
  BY <1>3, ZenonT(60) DEF Init, KeptInv, DeadInv, OutlivesInv
<1>9. AloneInv
  BY <1>2, <1>3, SMTT(30) DEF Init, AloneInv, NewConnector
<1>10. TryInv
  BY <1>2, <1>3, SMTT(30) DEF Init, TryInv, NewConnector
<1>11. QED
  BY <1>4, <1>5, <1>6, <1>7, <1>8, <1>9, <1>10, Zenon DEF IInv

\* Every step preserves the invariant.
LEMMA NextInv == IInv /\ [Next]_vars => IInv'
<1> SUFFICES ASSUME IInv, [Next]_vars
             PROVE  IInv'
  BY ZenonT(60)
<1>1. CASE UNCHANGED vars
  <2>0. /\ connector' = connector /\ connect_' = connect_ /\ retry_' = retry_
        /\ connection_' = connection_ /\ alive' = alive /\ phase' = phase /\ ready' = ready
        /\ batch' = batch /\ functors' = functors /\ holder' = holder
        /\ connState' = connState /\ closeCallback_' = closeCallback_ /\ held' = held
        /\ pc' = pc /\ cur' = cur /\ leaving' = leaving /\ caller' = caller
        /\ lost' = lost /\ deadCall' = deadCall /\ mishaps' = mishaps
    BY <1>1, ZenonT(60) DEF vars, client, loop, conns, where, history
  <2>1. Types'
    BY <2>0, SMTT(30) DEF IInv, Types, TypeOK
  <2>2. SocketInv'
    BY <2>0, SMTT(30) DEF IInv, SocketInv
  <2>3. OpenInv'
    BY <2>0, SMTT(30) DEF IInv, OpenInv, Unless, CanForceClose
  <2>4. CallbackInv' /\ KeptInv'
    BY <2>0, SMTT(30) DEF IInv, CallbackInv, Locked, KeptInv, CanForceClose, Unless
  <2>5. DeadInv' /\ OutlivesInv'
    BY <2>0, SMTT(30) DEF IInv, DeadInv, OutlivesInv, CanForceClose, Unless
  <2>6. AloneInv' /\ TryInv'
    BY <2>0, SMTT(30) DEF IInv, AloneInv, TryInv, Unless, NoMishap
  <2>7. QED
    BY <2>1, <2>2, <2>3, <2>4, <2>5, <2>6, Zenon DEF IInv
<1>2. CASE Next
  <2>1. ~connector.aborted
    BY <1>2, Zenon DEF Next
  <2>2. CASE \E t \in {"loop", "other"} : UserCall(t)
    BY <2>1, <2>2, ConnectLoopInv, ConnectOtherInv, DisconnectInv, StopInv,
      ForceCloseLoopInv, ForceCloseOtherInv, Zenon DEF UserCall
  <2>3. CASE enableRetry \/ Destroy \/ DestroyElsewhere
    BY <2>1, <2>3, EnableRetryInv, DestroyInv, DestroyElsewhereInv, Zenon
  <2>4. CASE \E c \in Conns : UserWithPointer(c)
    BY <2>1, <2>4, HoldInv, LetGoInv, Zenon DEF UserWithPointer
  <2>5. CASE Poll \/ DoPendingFunctors \/ Timers
    BY <2>1, <2>5, PollInv, DoPendingFunctorsInv, RetryTimerInv, RemoveConnectorInv,
      Zenon DEF Timers
  <2>6. CASE RunFunctor
    BY <2>1, <2>6, StartInLoopInv, StopInLoopInv, ResetChannelInv, AddTimerInLoopInv,
      SetCloseCallbackInv, ForceCloseInLoopInv, ConnectDestroyedInv, Zenon DEF RunFunctor
  <2>7. CASE FinishHandler
    BY <2>1, <2>7, CallbackReturnsInv, RemoveDetachedInv, RemoveConnectionInv, RestartInv,
      NewConnectionInv, Zenon DEF FinishHandler
  <2>10. CASE FinishOther
    BY <2>1, <2>10, FinishElsewhereInv, FinishCallInv, Zenon DEF FinishOther
  <2>8. CASE Events
    BY <2>1, <2>8, AttemptEndsInv, ConnectedInv, MessageInv, PeerClosesInv, Zenon DEF Events
  <2>9. QED
    BY <1>2, <2>2, <2>3, <2>4, <2>5, <2>6, <2>7, <2>8, <2>10, Zenon DEF Next
<1>3. QED
  BY <1>1, <1>2, Zenon

\* The invariant holds in every state of a client.
LEMMA InvHolds == Spec => []IInv
BY InitInv, NextInv, PTL DEF Spec

\* ReleasedInTime: whatever the user's two threads call and however connect(2) and the
\* connections end, the Connector has a socket open exactly while it waits for one to
\* connect or has one to hand over; a TcpConnection is freed only once it is closed and a
\* destroyed TcpClient is not called, unless a shutdown() or forceClose() of the other
\* thread is overtaken by handleClose() between its test of state_ and its assignment,
\* the destructor runs in the other thread or in a callback, or the user abandons the
\* connection; and the Connector outlives its channel and its functors.
THEOREM ReleasedAlways == Spec => []ReleasedInTime
<1>1. IInv => ReleasedInTime
  <2> SUFFICES ASSUME IInv
               PROVE  ReleasedInTime
    BY Zenon
  <2>1. Types /\ SocketInv /\ KeptInv /\ OutlivesInv
    BY Zenon DEF IInv
  <2>2. TypeOK /\ functors \in Seq(Functors)
    BY <2>1, Zenon DEF Types
  <2>3. SocketsAccounted
    BY <2>1, Zenon DEF SocketInv, SocketsAccounted
  <2>4. ClosedBeforeFreed
    <3>1. ASSUME NEW c \in Conns, ~CanForceClose(c)
          PROVE  connState[c] = "kDisconnected"
      BY <2>2, <3>1, Zenon DEF TypeOK, CanForceClose
    <3>2. QED
      BY <2>1, <2>2, <3>1, QueueRange, Zenon DEF KeptInv, Unless, ClosedBeforeFreed, Refs
  <2>5. ConnectorOutlives
    BY <2>1, <2>2, QueueRange, Zenon DEF OutlivesInv, Unless, ConnectorOutlives, ConnectorReferenced
  <2>6. QED
    BY <2>2, <2>3, <2>4, <2>5, Zenon DEF ReleasedInTime
<1>2. QED
  BY <1>1, InvHolds, PTL

\* AttemptsGoOn: no assertion of Connector or TcpClient fails unless connect() is called
\* while an earlier one is at work, or again after a connection was made, or a
\* shutdown() or forceClose() of the other thread revives a connection that
\* handleClose() has closed; and, but for these and a destructor in the other thread, a
\* connector that was told to connect keeps at it until it gives up for good or its
\* connection is lost and not to be replaced.
THEOREM AttemptsAlwaysGoOn == Spec => []AttemptsGoOn
<1>1. IInv => AttemptsGoOn
  <2> SUFFICES ASSUME IInv
               PROVE  AttemptsGoOn
    BY Zenon
  <2>1. Types /\ AloneInv /\ TryInv
    BY Zenon DEF IInv
  <2>2. functors \in Seq(Functors)
    BY <2>1, Zenon DEF Types
  <2>3. AssertionsHold
    BY <2>1, Zenon DEF AloneInv, Unless, AssertionsHold
  <2>4. KeepsTrying
    BY <2>1, <2>2, QueueRange, Zenon DEF TryInv, KeepsTrying, Unless
  <2>5. QED
    BY <2>3, <2>4, Zenon DEF AttemptsGoOn
<1>2. QED
  BY <1>1, InvHolds, PTL
-----------------------------------------------------------------------------
(* What stop() and the destructor end.                                     *)

\* Since stop(), or the destructor of a client without a connection, nothing is to
\* connect, and an attempt under way has a stopInLoop coming.
Halted(k, q) == ~k.connect_ /\ (k.state_ = "kConnecting" => Has(q, {"stopInLoop"}))

\* The loop's thread has tested connect_ and will connect.
Decided == pc \in {"restart", "connected"}

StoppedInv ==
  Unless({"stopRaced", "farThread"}) /\ stopped =>
    Halted(connector, functors) /\ ~Decided /\ (alive => ~connect_)

\* A step that starts nothing for a connector that is not to connect.
Mild ==
  /\ stopped' = stopped /\ mishaps \subseteq mishaps'
  /\ ~connector.connect_ /\ ~Decided =>
       /\ Halted(connector, functors) => Halted(connector', functors')
       /\ connection_' \in {connection_, NoConn}
       /\ Decided' => alive /\ connect_
       /\ (alive' => alive) /\ (connect_' => connect_)

\* A stopInLoop that waits goes on waiting behind what is queued, and one that is
\* queued waits.
LEMMA StopWaits ==
  ASSUME NEW q \in Seq(Functors), NEW f \in Functors, NEW r, r = q \o <<f>>,
         Has(q, {"stopInLoop"}) \/ f = <<"stopInLoop", NoConn>>
  PROVE  Has(r, {"stopInLoop"})
<1>1. Has(r, {"stopInLoop"}) <=> Has(q, {"stopInLoop"}) \/ f[1] \in {"stopInLoop"}
  BY QueueAppend, Zenon
<1>2. f = <<"stopInLoop", NoConn>> => f[1] \in {"stopInLoop"}
  OBVIOUS
<1>3. QED
  BY <1>1, <1>2, Zenon

\* The steps of the user that neither connect nor stop, and those of the loop around
\* its handlers, are mild.
LEMMA AsideMild ==
  ASSUME Types, NEW t, NEW c,
         \/ Disconnect(t) \/ (c \in Conns /\ ForceClose("other", c)) \/ enableRetry
         \/ Hold(c) \/ LetGo(c) \/ DestroyElsewhere
         \/ Poll \/ DoPendingFunctors \/ RemoveConnector \/ Message(c) \/ PeerCloses(c)
         \/ CallbackReturns
  PROVE  Mild
<1>1. /\ UNCHANGED <<connector, functors, connection_, alive, stopped>>
      /\ mishaps \subseteq mishaps' /\ connect_' \in {connect_, FALSE}
      /\ Decided' => Decided
  <2>1. CASE Disconnect(t)
    BY <2>1, Zenon DEF Disconnect, Decided, history
  <2>8. CASE c \in Conns /\ ForceClose("other", c)
    BY <2>8, Zenon DEF ForceClose, Decided, client, history
  <2>2. CASE enableRetry \/ Hold(c)
    BY <2>2, Zenon DEF enableRetry, Hold, client, Decided, where, history
  <2>3. CASE LetGo(c)
    BY <2>3, Zenon DEF LetGo, client, Decided, where, Mishap
  <2>4. CASE DestroyElsewhere
    BY <2>4, Zenon DEF DestroyElsewhere, client, Decided, Mishap
  <2>5. CASE Poll \/ DoPendingFunctors \/ RemoveConnector
    BY <2>5, Zenon DEF Poll, DoPendingFunctors, RemoveConnector, client, Decided, where, history
  <2>6. CASE Message(c) \/ PeerCloses(c) \/ CallbackReturns
    BY <2>6, Zenon DEF Message, PeerCloses, handleClose, CallbackReturns, client, Decided, history
  <2>7. QED
    BY <2>1, <2>2, <2>3, <2>4, <2>5, <2>6, <2>8, Zenon
<1>2. connect_' => connect_
  BY <1>1, Zenon
<1>3. QED
  BY <1>1, <1>2, Zenon DEF Mild, Halted

\* The functors of the queue are mild: a stopInLoop leaves the queue only when it has
\* ended the attempt, or there is none.
LEMMA FunctorsMild ==
  ASSUME Types, RunFunctor
  PROVE  Mild
<1>0. connector \in Connectors
  BY Zenon DEF Types, TypeOK
<1>1. /\ UNCHANGED <<connection_, alive, connect_, stopped, mishaps>>
      /\ Decided' => Decided
  <2>1. CASE StartInLoop \/ StopInLoop \/ ResetChannel \/ AddTimerInLoop
    BY <2>1, Zenon DEF StartInLoop, StopInLoop, ResetChannel, AddTimerInLoop, Decided, client,
      where, history
  <2>2. CASE SetCloseCallback \/ ForceCloseInLoop \/ ConnectDestroyed
    BY <2>2, Zenon DEF SetCloseCallback, ForceCloseInLoop, handleClose, ConnectDestroyed, Decided,
      client, where, history
  <2>3. QED
    BY <2>1, <2>2, Zenon DEF RunFunctor
<1>2. ASSUME NEW name, name # "stopInLoop", Runs(name), Has(functors, {"stopInLoop"})
      PROVE  Has(functors', {"stopInLoop"})
  <2>1. Takes(name) /\ functors' = Tail(functors)
    BY <1>2, Zenon DEF Runs
  <2>2. \A names : Has(functors, names) <=> Has(functors', names) \/ name \in names
    BY <2>1, TakeFacts, Zenon
  <2>3. QED
    BY <1>2, <2>2, Zenon
<1>3. ASSUME ~connector.connect_, Halted(connector, functors)
      PROVE  Halted(connector', functors')
  <2>1. CASE StartInLoop
    <3>1. PICK e \in Errnos : connector' = startInLoop(connector, e)
      BY <2>1, Zenon DEF StartInLoop
    <3>2. ~connector'.connect_ /\ connector'.state_ = connector.state_
      BY <1>0, <1>3, <3>1, StartFacts
    <3>3. QED
      BY <1>2, <1>3, <2>1, <3>2, Zenon DEF StartInLoop, Halted
  <2>2. CASE StopInLoop
    <3>1. ~connector'.connect_ /\ connector'.state_ # "kConnecting"
      BY <1>0, <1>3, <2>2, GiveUpFacts DEF StopInLoop
    <3>2. QED
      BY <3>1, Zenon DEF Halted
  <2>3. CASE ResetChannel
    <3>1. ~connector'.connect_ /\ connector'.state_ = connector.state_
      BY <1>0, <1>3, <2>3, SmallFacts, Zenon DEF ResetChannel
    <3>2. QED
      BY <1>2, <1>3, <2>3, <3>1, Zenon DEF ResetChannel, Halted
  <2>4. CASE AddTimerInLoop
    BY <1>2, <1>3, <2>4, Zenon DEF AddTimerInLoop, Halted
  <2>5. CASE SetCloseCallback
    BY <1>2, <1>3, <2>5, Zenon DEF SetCloseCallback, Halted
  <2>6. CASE ForceCloseInLoop
    BY <1>2, <1>3, <2>6, Zenon DEF ForceCloseInLoop, Halted
  <2>7. CASE ConnectDestroyed
    BY <1>2, <1>3, <2>7, Zenon DEF ConnectDestroyed, Halted
  <2>8. QED
    BY <2>1, <2>2, <2>3, <2>4, <2>5, <2>6, <2>7, Zenon DEF RunFunctor
<1>4. QED
  BY <1>1, <1>3, Zenon DEF Mild

\* The handlers of the connector and of the connection are mild: only what is to
\* connect makes a connection, retries or restarts.
LEMMA HandlersMild ==
  ASSUME Types, NEW c,
         \/ RetryTimer \/ HandleError \/ (\E o \in Outcomes : HandleWrite(o)) \/ Connected
         \/ NewConnection(c)
         \/ RemoveDetached \/ RemoveConnection \/ Restart \/ (c \in Conns /\ ForceClose("loop", c))
  PROVE  Mild
<1>0. connector \in Connectors /\ functors \in Seq(Functors)
  BY Zenon DEF Types, TypeOK
<1>1. stopped' = stopped /\ mishaps' = mishaps
  BY Zenon DEF RetryTimer, HandleError, HandleWrite, Connected, NewConnection, RemoveDetached,
    RemoveConnection, Restart, ForceClose, history
<1> SUFFICES ASSUME ~connector.connect_, ~Decided
             PROVE  /\ Halted(connector, functors) => Halted(connector', functors')
                    /\ connection_' \in {connection_, NoConn}
                    /\ Decided' => alive /\ connect_
                    /\ (alive' => alive) /\ (connect_' => connect_)
  BY <1>1, Zenon DEF Mild
<1>2. CASE RetryTimer
  <2> DEFINE k == [connector EXCEPT !.timers = @ - 1]
  <2>1. connector.timers > 0 /\ k \in Connectors /\ ~k.connect_ /\ k.state_ = connector.state_
    BY <1>0, <1>2, SMTT(30) DEF RetryTimer, Connectors
  <2>2. PICK e \in Errnos : connector' = startInLoop(k, e)
    BY <1>2, Zenon DEF RetryTimer
  <2> HIDE DEF k
  <2>3. ~connector'.connect_ /\ connector'.state_ = connector.state_
    BY <2>1, <2>2, StartFacts
  <2>4. UNCHANGED <<functors, connection_, alive, connect_, pc>>
    BY <1>2, Zenon DEF RetryTimer, client, where
  <2>5. QED
    BY <2>3, <2>4, Zenon DEF Halted, Decided
<1>3. CASE HandleError \/ \E o \in Outcomes : HandleWrite(o)
  <2>1. ~connector'.connect_ /\ connector'.state_ # "kConnecting"
    <3>1. CASE HandleError
      BY <1>0, <3>1, GiveUpFacts, ZenonT(60) DEF HandleError
    <3>2. CASE \E o \in Outcomes : o # "connected" /\ HandleWrite(o)
      BY <1>0, <3>2, GiveUpFacts, SMTT(30) DEF HandleWrite
    <3>3. CASE HandleWrite("connected")
      BY <1>0, <3>3, SucceedFacts DEF HandleWrite
    <3>4. QED
      BY <1>3, <3>1, <3>2, <3>3, Zenon
  <2>2. UNCHANGED <<connection_, alive, connect_, pc>>
    BY <1>3, Zenon DEF HandleError, HandleWrite, client, where
  <2>3. QED
    BY <2>1, <2>2, Zenon DEF Halted, Decided
<1>9. CASE Connected
  BY <1>9, Zenon DEF Connected
<1>4. CASE NewConnection(c)
  BY <1>4, Zenon DEF NewConnection, Decided
<1>5. CASE RemoveDetached \/ (c \in Conns /\ ForceClose("loop", c))
  <2>1. PICK f : f \in Functors /\ functors' = functors \o <<f>>
    <3>1. CASE RemoveDetached
      <4>1. cur \in Conns
        BY <3>1, Zenon DEF RemoveDetached, Types, TypeOK
      <4>2. QED
        BY <3>1, <4>1, Zenon DEF RemoveDetached, Queue, Functors
    <3>2. CASE c \in Conns /\ ForceClose("loop", c)
      BY <3>2, Zenon DEF ForceClose, Queue, Functors
    <3>3. QED
      BY <1>5, <3>1, <3>2, Zenon
  <2>2. Has(functors, {"stopInLoop"}) => Has(functors', {"stopInLoop"})
    BY <1>0, <2>1, StopWaits, Zenon
  <2>3. /\ UNCHANGED <<connector, connection_, alive, connect_>>
        /\ Decided' => Decided
    BY <1>5, Zenon DEF RemoveDetached, ForceClose, Decided, client
  <2>4. QED
    BY <2>2, <2>3, Zenon DEF Halted
<1>6. CASE RemoveConnection
  <2>1. ~connector'.connect_ /\ connector'.state_ = connector.state_
    BY <1>0, <1>6 DEF RemoveConnection, Connectors
  <2>2. Has(functors, {"stopInLoop"}) => Has(functors', {"stopInLoop"})
    <3>1. cur \in Conns
      BY <1>6, Zenon DEF RemoveConnection, Types, TypeOK
    <3>2. <<"connectDestroyed", cur>> \in Functors
      BY <3>1, Zenon DEF Functors
    <3>3. CASE alive
      <4>1. functors' = functors \o << <<"connectDestroyed", cur>> >>
        BY <1>6, <3>3, Zenon DEF RemoveConnection, Queue
      <4>2. QED
        BY <1>0, <3>2, <4>1, StopWaits, ZenonT(60)
    <3>4. CASE ~alive
      BY <1>6, <3>4, Zenon DEF RemoveConnection
    <3>5. QED
      BY <3>3, <3>4, Zenon
  <2>3. /\ connection_' \in {connection_, NoConn} /\ UNCHANGED <<alive, connect_>>
        /\ Decided' => alive /\ connect_
    BY <1>6, Zenon DEF RemoveConnection, Decided
  <2>4. QED
    BY <2>1, <2>2, <2>3, Zenon DEF Halted
<1>7. CASE Restart
  BY <1>7, Zenon DEF Restart, Decided
<1>8. QED
  BY <1>2, <1>3, <1>4, <1>5, <1>6, <1>7, <1>9, Zenon

\* The rest of shutdown() or forceClose() in the other thread is mild.
LEMMA FinishCallMild ==
  ASSUME Types, FinishCall
  PROVE  Mild
<1>1. caller.conn \in Conns /\ functors \in Seq(Functors)
  BY Zenon DEF FinishCall, Types
<1> DEFINE f == <<"forceCloseInLoop", caller.conn>>
<1>2. f \in Functors
  BY <1>1, Zenon DEF Functors
<1>3. functors' = functors \o IF Locked THEN << >> ELSE <<f>>
  BY Zenon DEF FinishCall, Queue
<1> HIDE DEF f
<1>4. functors' = functors \/ functors' = functors \o <<f>>
  BY <1>1, <1>2, <1>3, AppendSome, Zenon
<1>5. Has(functors, {"stopInLoop"}) => Has(functors', {"stopInLoop"})
  BY <1>1, <1>2, <1>4, StopWaits, Zenon
<1>6. /\ UNCHANGED <<connector, connection_, alive, connect_, stopped, pc>>
      /\ mishaps \subseteq mishaps'
  BY Zenon DEF FinishCall, Mishap, client
<1>7. QED
  BY <1>5, <1>6, Zenon DEF Mild, Halted, Decided

\* stop() stops.
LEMMA StopStops ==
  ASSUME Types, NEW t, Stop(t)
  PROVE  Halted(connector', functors') /\ connection_' = connection_ /\ StoppedInv'
<1>0. connector \in Connectors /\ functors \in Seq(Functors)
  BY Zenon DEF Types, TypeOK
<1>1. /\ connect_' = FALSE /\ functors' = functors \o << <<"stopInLoop", NoConn>> >>
      /\ connector' = stop(connector) /\ connection_' = connection_ /\ pc' = pc
      /\ Decided => "stopRaced" \in mishaps'
  BY Zenon DEF Stop, Queue, Mishap, If, Decided, where
<1>2. ~connector'.connect_
  BY <1>0, <1>1, SmallFacts, Zenon
<1>3. <<"stopInLoop", NoConn>> \in Functors
  BY Zenon DEF Functors, ConnectorFunctors
<1>4. Has(functors', {"stopInLoop"})
  BY <1>0, <1>1, <1>3, StopWaits, Zenon
<1>5. QED
  BY <1>1, <1>2, <1>4, Zenon DEF Halted, Decided, StoppedInv, Unless

\* The destructor in the loop's thread stops a connector that has made no connection,
\* and leaves one that has alone.
LEMMA DestroyStops ==
  ASSUME Types, Destroy
  PROVE  /\ connection_' = connection_ /\ alive' = FALSE /\ pc' = pc /\ ~Decided
         /\ mishaps \subseteq mishaps' /\ (stopped' => stopped \/ connection_ = NoConn)
         /\ connection_ = NoConn => Halted(connector', functors')
         /\ connection_ # NoConn /\ Halted(connector, functors) => Halted(connector', functors')
<1>0. connector \in Connectors /\ functors \in Seq(Functors)
  BY Zenon DEF Types, TypeOK
<1>1. /\ connection_' = connection_ /\ alive' = FALSE /\ pc' = pc /\ ~Decided
      /\ mishaps \subseteq mishaps' /\ (stopped' => stopped \/ connection_ = NoConn)
  BY Zenon DEF Destroy, Finish, MayCall, Mishap, Decided, where
<1>2. ASSUME connection_ = NoConn
      PROVE  Halted(connector', functors')
  <2>1. /\ connector' = stop(connector)
        /\ functors' = functors \o (<< <<"stopInLoop", NoConn>> >> \o << >>)
    BY <1>2, Zenon DEF Destroy, Finish, Queue
  <2>2. <<"stopInLoop", NoConn>> \in Functors
    BY Zenon DEF Functors, ConnectorFunctors
  <2>3. functors' = functors \o << <<"stopInLoop", NoConn>> >>
    BY <1>0, <2>1, <2>2, AppendSome, Zenon
  <2>4. Has(functors', {"stopInLoop"})
    BY <1>0, <2>2, <2>3, StopWaits, Zenon
  <2>5. ~connector'.connect_
    BY <1>0, <2>1, SmallFacts, Zenon
  <2>6. QED
    BY <2>4, <2>5, Zenon DEF Halted
<1>3. ASSUME connection_ # NoConn, Halted(connector, functors)
      PROVE  Halted(connector', functors')
  <2>1. PICK c \in Conns : c = connection_
    BY <1>3, Zenon DEF Types, TypeOK
  <2> DEFINE f == <<"forceCloseInLoop", c>>
             forced == (connection_ # NoConn /\ NoOtherPointer(connection_)) /\ CanForceClose(c)
  <2>2. connector' = connector /\ functors' = functors \o (<< >> \o IF forced THEN <<f>> ELSE << >>)
    BY <1>3, <2>1, Zenon DEF Destroy, Finish, Queue
  <2>3. f \in Functors
    BY Zenon DEF Functors
  <2> HIDE DEF f, forced
  <2>4. functors' = functors \/ functors' = functors \o <<f>>
    BY <1>0, <2>2, <2>3, AppendSome, Zenon
  <2>5. Has(functors, {"stopInLoop"}) => Has(functors', {"stopInLoop"})
    BY <1>0, <2>3, <2>4, StopWaits, Zenon
  <2>6. QED
    BY <1>3, <2>2, <2>5, Zenon DEF Halted
<1>4. QED
  BY <1>1, <1>2, <1>3, Zenon

\* Every step but connect(), stop() and the destructor is mild.
LEMMA OthersMild ==
  ASSUME IInv, [Next]_vars, ~\E t \in {"loop", "other"} : Connect(t) \/ Stop(t),
         ~Destroy, ~FinishElsewhere
  PROVE  Mild
<1>0. Types
  BY Zenon DEF IInv
<1>1. CASE UNCHANGED vars
  BY <1>1, Zenon DEF vars, client, where, history, Mild, Decided
<1>2. CASE Next
  <2>1. CASE \E t \in {"loop", "other"} : UserCall(t)
    BY <1>0, <2>1, AsideMild, HandlersMild, Zenon DEF UserCall
  <2>2. CASE enableRetry \/ DestroyElsewhere \/ Poll \/ DoPendingFunctors
    BY <1>0, <2>2, AsideMild, Zenon
  <2>3. CASE \E c \in Conns : UserWithPointer(c)
    BY <1>0, <2>3, AsideMild, Zenon DEF UserWithPointer
  <2>4. CASE RunFunctor
    BY <1>0, <2>4, FunctorsMild, Zenon
  <2>5. CASE Timers
    BY <1>0, <2>5, AsideMild, HandlersMild, Zenon DEF Timers
  <2>6. CASE FinishHandler
    BY <1>0, <2>6, AsideMild, HandlersMild, Zenon DEF FinishHandler
  <2>9. CASE FinishOther
    BY <1>0, <2>9, FinishCallMild, Zenon DEF FinishOther
  <2>7. CASE Events
    BY <1>0, <2>7, AsideMild, HandlersMild, Zenon DEF Events
  <2>8. QED
    BY <1>2, <2>1, <2>2, <2>3, <2>4, <2>5, <2>6, <2>7, <2>9, Zenon DEF Next
<1>3. QED
  BY <1>1, <1>2, Zenon

\* A step that leaves the client stopped leaves it halted, and makes no connection.
LEMMA StoppedStep ==
  ASSUME IInv, StoppedInv, [Next]_vars
  PROVE  /\ StoppedInv'
         /\ stopped /\ stopped' /\ Unless({"stopRaced", "farThread"}) =>
              Halted(connector', functors') /\ connection_' \in {connection_, NoConn}
<1>0. Types /\ CallbackInv
  BY Zenon DEF IInv
<1>1. CASE \E t \in {"loop", "other"} : Connect(t)
  BY <1>1, Zenon DEF Connect, StoppedInv
<1>2. CASE \E t \in {"loop", "other"} : Stop(t)
  BY <1>0, <1>2, StopStops, Zenon
<1>3. CASE Destroy
  <2>1. NoMishap
    BY <1>3, Zenon DEF Destroy, MayCall
  <2>2. stopped' => Halted(connector', functors')
    BY <1>0, <1>3, <2>1, DestroyStops, Zenon DEF StoppedInv, Unless, NoMishap
  <2>3. QED
    BY <1>0, <1>3, <2>2, DestroyStops, Zenon DEF StoppedInv, Decided
<1>4. CASE FinishElsewhere
  <2>1. "farThread" \in mishaps /\ mishaps' = mishaps
    BY <1>0, <1>4, Zenon DEF FinishElsewhere, CallbackInv
  <2>2. QED
    BY <2>1, Zenon DEF StoppedInv, Unless
<1>5. CASE /\ ~\E t \in {"loop", "other"} : Connect(t) \/ Stop(t)
           /\ ~Destroy /\ ~FinishElsewhere
  <2>1. Mild
    BY <1>5, OthersMild, Zenon
  <2>2. CASE stopped /\ Unless({"stopRaced", "farThread"})
    <3>1. ~connector.connect_ /\ ~Decided /\ Halted(connector, functors)
          /\ (alive => ~connect_)
      BY <2>2, Zenon DEF StoppedInv, Halted
    <3>2. /\ Halted(connector', functors') /\ connection_' \in {connection_, NoConn}
          /\ ~Decided' /\ (alive' => ~connect_')
      BY <2>1, <3>1, Zenon DEF Mild
    <3>3. QED
      BY <3>2, Zenon DEF StoppedInv
  <2>3. CASE ~(stopped /\ Unless({"stopRaced", "farThread"}))
    <3>1. ~(stopped' /\ Unless({"stopRaced", "farThread"})')
      BY <2>1, <2>3, Zenon DEF Mild, Unless
    <3>2. QED
      BY <2>3, <3>1, Zenon DEF StoppedInv
  <2>4. QED
    BY <2>2, <2>3, Zenon
<1>6. QED
  BY <1>1, <1>2, <1>3, <1>4, <1>5, Zenon

\* StopHolds, the safety half of EndsForGood: after stop(), from either thread, or the
\* destructor, no connection is made until the next connect(), and no attempt is under
\* way once stopInLoop() has run, unless stop() of the other thread came between a test
\* of connect_ and what it decides (in removeConnection() before restart(), or in
\* handleWrite() before newConnection() has set connection_) or the destructor ran in
\* the other thread.
THEOREM StopAlwaysHolds == Spec => StopHolds
<1>1. Init => StoppedInv
  BY Zenon DEF Init, StoppedInv
<1>2. IInv /\ StoppedInv /\ [Next]_vars => StoppedInv'
  BY StoppedStep, Zenon
<1>3. IInv /\ IInv' /\ StoppedInv /\ [Next]_vars =>
        [stopped /\ stopped' /\ mishaps \cap {"stopRaced", "farThread"} = {} =>
           /\ connection_' \in {connection_, NoConn}
           /\ ~Waiting({"stopInLoop"})' => connector'.state_ # "kConnecting"]_vars
  <2> SUFFICES ASSUME IInv, IInv', StoppedInv, [Next]_vars, stopped, stopped',
                      mishaps \cap {"stopRaced", "farThread"} = {}
               PROVE  /\ connection_' \in {connection_, NoConn}
                      /\ ~Waiting({"stopInLoop"})' => connector'.state_ # "kConnecting"
    BY Zenon
  <2>1. Halted(connector', functors') /\ connection_' \in {connection_, NoConn}
    BY StoppedStep, Zenon DEF Unless
  <2>2. functors' \in Seq(Functors)
    BY Zenon DEF IInv, Types
  <2>3. Has(functors', {"stopInLoop"}) => Waiting({"stopInLoop"})'
    BY <2>2 DEF Waiting, Has, Range
  <2>4. QED
    BY <2>1, <2>3, Zenon DEF Halted
<1>4. Spec => []IInv /\ []StoppedInv
  BY <1>1, <1>2, InvHolds, PTL DEF Spec
<1>5. QED
  BY <1>3, <1>4, PTL DEF Spec, StopHolds
=============================================================================
