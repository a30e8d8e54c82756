------------------------ MODULE TcpConnectionProofs -------------------------
(***************************************************************************)
(* Proofs about TcpConnection.tla for every set of other threads, every    *)
(* set of message lengths, every mark and every bound: the bytes stay in   *)
(* order, POLLOUT is asked for when bytes wait, the writing half is closed *)
(* after them, and the connection ends once and leaves nothing behind.     *)
(***************************************************************************)
EXTENDS TcpConnection, TLAPS

\* What may be in the queue: sendInLoop() comes with bytes.
Functors ==
  {f \in FunctorNames \X (Lens \cup {0}) : f[1] = "sendInLoop" => f[2] \in Lens}

\* The bytes that functor f will hand to sendInLoop().
Weight(f) == IF f[1] = "sendInLoop" THEN f[2] ELSE 0

\* t bytes, and those of the functors q one after the other, are at most a.
Within(q, t, a) ==
  /\ q \in Seq(Functors)
  /\ \E sum \in [0..Len(q) -> 0..a] :
       /\ sum[0] >= t
       /\ \A i \in 1..Len(q) : sum[i] = sum[i - 1] + Weight(q[i])

\* b goes on where w ends.
Consecutive(w, b) ==
  /\ \A i \in 1..Len(w) : w[i] = i
  /\ \A i \in 1..Len(b) : b[i] = Len(w) + i

\* The bytes written and the bytes that wait, one sequence without a gap; once
\* bytes were dropped no others can follow them.
Stream ==
  /\ Consecutive(written, outputBuffer_)
  /\ Len(written) + Len(outputBuffer_) <= taken
  /\ ~dropped => Len(written) + Len(outputBuffer_) = taken
  /\ dropped => (sock.shut \/ sock.rst) /\ WriteDirectly

\* connectEstablished() is the first functor, and nothing happens before it.
Starting ==
  /\ \A i \in 1..Len(pendingFunctors_) :
       pendingFunctors_[i][1] = "connectEstablished" => i = 1 /\ state_ = "kConnecting"
  /\ state_ = "kConnecting" =>
       /\ pendingFunctors_ # << >> /\ pendingFunctors_[1][1] = "connectEstablished"
       /\ pc = "idle" /\ pointers = {} /\ index_ = "kNew" /\ events_ = {}
       /\ outputBuffer_ = << >> /\ \A t \in Others : caller[t] = "none"

\* connectDestroyed() is on its way.
Leaving ==
  \E i \in 1..Len(pendingFunctors_) : pendingFunctors_[i][1] = "connectDestroyed"

\* A connection that is up: not closed yet, in the map unless the server is
\* gone, and interested in POLLOUT while bytes wait.
UpIsOpen ==
  state_ # "kDisconnected" =>
    /\ closes = 0
    /\ inMap \/ destroyed
    /\ "write" \in events_ <=> outputBuffer_ # << >>
    /\ sock.shut => outputBuffer_ = << >>
    /\ state_ # "kConnecting" => index_ # "kNew"

\* A connection that is down: out of epoll and without interest.
DownIsIdle == state_ = "kDisconnected" => index_ # "kAdded" /\ events_ = {}

\* handleEvent() is about to look at events of a connection that is up.
HandlesWhatIsUp ==
  pc = "close" \/ (pc = "read" /\ "IN" \in revents_) => state_ # "kDisconnected"

\* The server removes the connection once, and connectDestroyed() follows.
RemovedOnce ==
  /\ closes <= 1 /\ removals <= closes
  /\ removals > 0 => inMap
  /\ inMap \/ Leaving \/ (state_ = "kDisconnected" /\ index_ = "kNew")

Life == NoMishap => UpIsOpen /\ DownIsIdle /\ HandlesWhatIsUp /\ RemovedOnce

IInv ==
  /\ TypeOK /\ Within(pendingFunctors_, taken, asked)
  /\ Stream /\ Starting /\ Life
-----------------------------------------------------------------------------
\* A sequence over a set is one over a larger set.
LEMMA SeqWider ==
  ASSUME NEW S, NEW T, S \subseteq T, NEW s \in Seq(S)
  PROVE  s \in Seq(T)
OBVIOUS

\* A sequence is a function on the numbers up to its length.
LEMMA SeqLen ==
  ASSUME NEW S, NEW s \in Seq(S)
  PROVE  Len(s) \in Nat /\ s \in [1..Len(s) -> S] /\ DOMAIN s = 1..Len(s)
OBVIOUS

\* One sequence behind another.
LEMMA SeqConcat ==
  ASSUME NEW S, NEW s \in Seq(S), NEW t \in Seq(S)
  PROVE  /\ s \o t \in Seq(S) /\ Len(s \o t) = Len(s) + Len(t)
         /\ \A i \in 1..(Len(s) + Len(t)) : (s \o t)[i] = IF i <= Len(s) THEN s[i] ELSE t[i - Len(s)]
OBVIOUS

\* A functor is a name and a length.
LEMMA FunctorTypes ==
  ASSUME NEW f \in Functors
  PROVE  f[1] \in FunctorNames /\ f[2] \in Nat /\ Weight(f) \in Nat
<1>1. f[1] \in FunctorNames /\ f[2] \in Lens \cup {0}
  BY Zenon DEF Functors
<1>2. \A n \in Lens \cup {0} : n \in Nat
  BY ConnectionAssumption
<1>. QED  BY <1>1, <1>2, Zenon DEF Weight

\* The functors of the queue are of the type TypeOK gives them.
LEMMA QueueType == Seq(Functors) \subseteq Seq(FunctorNames \X (Lens \cup {0}))
<1>1. Functors \subseteq FunctorNames \X (Lens \cup {0})
  BY Zenon DEF Functors
<1>. QED  BY <1>1, SeqWider, ZenonT(60)

\* A functor queued behind the others adds its bytes to those asked for.
LEMMA WithinAppend ==
  ASSUME NEW q \in Seq(Functors), NEW f \in Functors, NEW t \in Nat, NEW a \in Nat, NEW b \in Nat,
         Within(q, t, a), b >= a + Weight(f)
  PROVE  Within(Append(q, f), t, b)
<1>1. PICK sum \in [0..Len(q) -> 0..a] :
        sum[0] >= t /\ \A i \in 1..Len(q) : sum[i] = sum[i - 1] + Weight(q[i])
  BY Zenon DEF Within
<1>2. Len(q) \in Nat /\ Len(Append(q, f)) = Len(q) + 1 /\ Weight(f) \in Nat
  BY FunctorTypes
<1>3. \A i \in 1..Len(q) : Append(q, f)[i] = q[i]
  OBVIOUS
<1>4. Append(q, f)[Len(q) + 1] = f
  OBVIOUS
<1>. DEFINE g == [i \in 0..Len(Append(q, f)) |-> IF i <= Len(q) THEN sum[i] ELSE sum[Len(q)] + Weight(f)]
<1>5. g \in [0..Len(Append(q, f)) -> 0..b]
  <2>. SUFFICES ASSUME NEW i \in 0..(Len(q) + 1)
                PROVE  (IF i <= Len(q) THEN sum[i] ELSE sum[Len(q)] + Weight(f)) \in 0..b
    BY <1>2, Zenon
  <2>1. sum[Len(q)] \in 0..a
    BY <1>1, <1>2, SMTT(60)
  <2>2. i <= Len(q) => sum[i] \in 0..a
    BY <1>1, <1>2, SMTT(60)
  <2>. QED  BY <1>2, <2>1, <2>2
<1>6. \A i \in 1..Len(Append(q, f)) : g[i] = g[i - 1] + Weight(Append(q, f)[i])
  <2>. SUFFICES ASSUME NEW i \in 1..(Len(q) + 1)
                PROVE  g[i] = g[i - 1] + Weight(Append(q, f)[i])
    BY <1>2, Zenon
  <2>1. CASE i \in 1..Len(q)
    <3>1. g[i] = sum[i] /\ g[i - 1] = sum[i - 1]
      BY <1>2, <2>1
    <3>. QED  BY <1>1, <1>3, <2>1, <3>1, Zenon
  <2>2. CASE i = Len(q) + 1
    BY <1>2, <1>4, <2>2
  <2>3. i \in 1..Len(q) \/ i = Len(q) + 1
    BY <1>2
  <2>. QED  BY <2>1, <2>2, <2>3, Zenon
<1>7. g[0] >= t
  BY <1>1, <1>2
<1>8. Append(q, f) \in Seq(Functors)
  OBVIOUS
<1>. HIDE DEF g
<1>. QED  BY <1>5, <1>6, <1>7, <1>8, Zenon DEF Within

\* What stays within a bound stays within a larger one; and bytes asked for and
\* taken at once leave the rest as it was.
LEMMA WithinShift ==
  ASSUME NEW q \in Seq(Functors), NEW t \in Nat, NEW a \in Nat, NEW n \in Nat, Within(q, t, a)
  PROVE  Within(q, t + n, a + n)
<1>1. PICK sum \in [0..Len(q) -> 0..a] :
        sum[0] >= t /\ \A i \in 1..Len(q) : sum[i] = sum[i - 1] + Weight(q[i])
  BY Zenon DEF Within
<1>2. Len(q) \in Nat /\ \A i \in 1..Len(q) : Weight(q[i]) \in Nat /\ i - 1 \in 0..Len(q)
  <2>. SUFFICES ASSUME NEW i \in 1..Len(q) PROVE Weight(q[i]) \in Nat
    OBVIOUS
  <2>. QED  BY FunctorTypes
<1>. DEFINE g == [i \in 0..Len(q) |-> sum[i] + n]
<1>3. g \in [0..Len(q) -> 0..(a + n)]
  <2>1. ASSUME NEW i \in 0..Len(q) PROVE sum[i] + n \in 0..(a + n)
    <3>1. sum[i] \in 0..a
      BY <1>1, Zenon
    <3>. QED  BY <3>1
  <2>. QED  BY <2>1, Zenon
<1>4. g[0] >= t + n
  <2>1. g[0] = sum[0] + n /\ sum[0] \in Nat
    BY <1>1, <1>2
  <2>. QED  BY <1>1, <2>1
<1>5. \A i \in 1..Len(q) : g[i] = g[i - 1] + Weight(q[i])
  BY <1>1, <1>2
<1>. HIDE DEF g
<1>. QED  BY <1>3, <1>4, <1>5, Zenon DEF Within

\* The first functor leaves: its bytes are taken, or dropped.
LEMMA WithinTail ==
  ASSUME NEW q \in Seq(Functors), q # << >>, NEW t \in Nat, NEW a \in Nat, Within(q, t, a)
  PROVE  /\ t + Weight(Head(q)) <= a
         /\ Within(Tail(q), t + Weight(Head(q)), a)
         /\ Within(Tail(q), t, a)
<1>1. PICK sum \in [0..Len(q) -> 0..a] :
        sum[0] >= t /\ \A i \in 1..Len(q) : sum[i] = sum[i - 1] + Weight(q[i])
  BY Zenon DEF Within
<1>2. /\ Len(q) \in Nat /\ Len(q) >= 1 /\ Len(Tail(q)) = Len(q) - 1
      /\ \A i \in 1..(Len(q) - 1) : Tail(q)[i] = q[i + 1]
      /\ Head(q) = q[1] /\ Tail(q) \in Seq(Functors) /\ Head(q) \in Functors
  OBVIOUS
<1>. DEFINE w == Weight(Head(q))
            g == [i \in 0..Len(Tail(q)) |-> sum[i + 1]]
<1>3. w \in Nat
  BY <1>2, FunctorTypes, Zenon
<1>4. g \in [0..Len(Tail(q)) -> 0..a]
  BY <1>1, <1>2
<1>5. sum[1] = sum[0] + w /\ sum[0] \in Nat /\ sum[1] \in 0..a
  BY <1>1, <1>2
<1>6. g[0] >= t + w /\ g[0] >= t /\ t + w <= a
  <2>1. g[0] = sum[1]
    BY <1>2
  <2>. HIDE DEF w
  <2>. QED  BY <1>1, <1>3, <1>5, <2>1
<1>7. \A i \in 1..Len(Tail(q)) : g[i] = g[i - 1] + Weight(Tail(q)[i])
  <2>. SUFFICES ASSUME NEW i \in 1..(Len(q) - 1)
                PROVE  g[i] = g[i - 1] + Weight(Tail(q)[i])
    BY <1>2, Zenon
  <2>1. i + 1 \in 1..Len(q) /\ (i + 1) - 1 = i /\ (i - 1) + 1 = i /\ i - 1 \in 0..(Len(q) - 1)
    BY <1>2
  <2>2. sum[i + 1] = sum[i] + Weight(q[i + 1])
    BY <1>1, <2>1, Zenon
  <2>. QED  BY <1>2, <2>1, <2>2
<1>. HIDE DEF g
<1>8. Within(Tail(q), t + w, a) /\ Within(Tail(q), t, a)
  BY <1>2, <1>4, <1>6, <1>7, Zenon DEF Within
<1>. QED  BY <1>6, <1>8, Zenon
-----------------------------------------------------------------------------
\* The types, as the steps use them.
LEMMA Types ==
  ASSUME IInv
  PROVE  /\ pendingFunctors_ \in Seq(Functors) /\ Len(pendingFunctors_) \in Nat
         /\ taken \in Nat /\ asked \in Nat /\ closes \in Nat /\ removals \in Nat
         /\ Len(written) \in Nat /\ Len(outputBuffer_) \in Nat
         /\ written \in Seq(1..MaxBytes) /\ outputBuffer_ \in Seq(1..MaxBytes)
         /\ sock \in [in : BOOLEAN, fin : BOOLEAN, rst : BOOLEAN, err : BOOLEAN, shut : BOOLEAN]
         /\ MaxBytes \in Nat /\ Lens \subseteq Nat \ {0}
BY ConnectionAssumption DEF IInv, Within, TypeOK

\* IInv holds when the connection has been made.
LEMMA InitInv == Init => IInv
<1>. SUFFICES ASSUME Init PROVE IInv
  BY Zenon
<1>. USE DEF Init, NewTcpConnection
<1>1. TypeOK
  <2>1. pendingFunctors_ \in Seq(FunctorNames \X (Lens \cup {0}))
    BY DEF FunctorNames
  <2>2. caller \in [Others -> OtherCalls \cup {"none"}]
    BY Zenon
  <2>3. sock \in [in : BOOLEAN, fin : BOOLEAN, rst : BOOLEAN, err : BOOLEAN, shut : BOOLEAN]
    BY Zenon
  <2>4. /\ outputBuffer_ \in Seq(1..MaxBytes) /\ written \in Seq(1..MaxBytes)
        /\ asked \in 0..MaxBytes /\ taken \in 0..asked
    BY ConnectionAssumption
  <2>. QED  BY <2>1, <2>2, <2>3, <2>4, Zenon DEF TypeOK
<1>2. Within(pendingFunctors_, taken, asked)
  <2>. DEFINE sum == [i \in 0..1 |-> 0]
  <2>1. Len(pendingFunctors_) = 1 /\ Weight(pendingFunctors_[1]) = 0
    BY Zenon DEF Weight
  <2>2. /\ sum \in [0..1 -> 0..0] /\ sum[0] >= 0
        /\ \A i \in 1..1 : sum[i] = sum[i - 1] + Weight(pendingFunctors_[i])
    BY <2>1
  <2>3. pendingFunctors_ \in Seq(Functors)
    BY DEF Functors, FunctorNames
  <2>. HIDE DEF sum
  <2>. QED  BY <2>1, <2>2, <2>3, Zenon DEF Within
<1>3. Stream /\ Starting
  BY DEF Stream, Starting, Consecutive
<1>4. Life
  BY DEF Life, UpIsOpen, DownIsIdle, HandlesWhatIsUp, RemovedOnce
<1>. QED  BY <1>1, <1>2, <1>3, <1>4, Zenon DEF IInv

\* A functor other than the first two of the life cycle joins the queue.
LEMMA QueueMore ==
  ASSUME IInv, NEW f \in Functors, f[1] # "connectEstablished",
         pendingFunctors_' = Append(pendingFunctors_, f),
         asked' \in Nat, asked' >= asked + Weight(f), taken' = taken
  PROVE  /\ pendingFunctors_' \in Seq(FunctorNames \X (Lens \cup {0}))
         /\ Within(pendingFunctors_, taken, asked)'
         /\ \A i \in 1..Len(pendingFunctors_') :
              pendingFunctors_'[i][1] = "connectEstablished" =>
                i = 1 /\ state_ = "kConnecting"
         /\ state_ = "kConnecting" => pendingFunctors_' # << >> /\ pendingFunctors_'[1] = pendingFunctors_[1]
         /\ Leaving => Leaving'
         /\ f[1] = "connectDestroyed" => Leaving'
<1>. USE DEF IInv
<1>1. /\ pendingFunctors_ \in Seq(Functors) /\ Len(pendingFunctors_) \in Nat
      /\ taken \in Nat /\ asked \in Nat /\ Weight(f) \in Nat
  BY Types, FunctorTypes, Zenon
<1>2. pendingFunctors_' \in Seq(Functors) /\ Len(pendingFunctors_') = Len(pendingFunctors_) + 1
  BY <1>1
<1>3. \A i \in 1..Len(pendingFunctors_) : pendingFunctors_'[i] = pendingFunctors_[i]
  BY <1>1
<1>4. pendingFunctors_'[Len(pendingFunctors_) + 1] = f
  BY <1>1
<1>5. Within(pendingFunctors_, taken, asked)'
  BY <1>1, WithinAppend, Zenon
<1>6. \A i \in 1..Len(pendingFunctors_') :
              pendingFunctors_'[i][1] = "connectEstablished" =>
                i = 1 /\ state_ = "kConnecting"
  <2>. SUFFICES ASSUME NEW i \in 1..Len(pendingFunctors_'), pendingFunctors_'[i][1] = "connectEstablished"
                PROVE  i = 1 /\ state_ = "kConnecting"
    BY Zenon
  <2>1. i \in 1..Len(pendingFunctors_)
    BY <1>1, <1>2, <1>4
  <2>. QED  BY <1>3, <2>1, Zenon DEF Starting
<1>7. state_ = "kConnecting" => pendingFunctors_' # << >> /\ pendingFunctors_'[1] = pendingFunctors_[1]
  BY <1>1, <1>3 DEF Starting
<1>8. Leaving => Leaving'
  BY <1>1, <1>2, <1>3 DEF Leaving
<1>9. f[1] = "connectDestroyed" => Leaving'
  BY <1>1, <1>2, <1>4 DEF Leaving
<1>. QED  BY <1>2, <1>5, <1>6, <1>7, <1>8, <1>9 DEF Functors

\* A functor leaves the queue.
LEMMA TakeFirst ==
  ASSUME IInv, pendingFunctors_ # << >>
  PROVE  /\ Head(pendingFunctors_) \in Functors
         /\ Head(pendingFunctors_) = pendingFunctors_[1]
         /\ Tail(pendingFunctors_) \in Seq(Functors)
         /\ Within(Tail(pendingFunctors_), taken, asked)
         /\ taken + Weight(Head(pendingFunctors_)) <= asked
         /\ Within(Tail(pendingFunctors_), taken + Weight(Head(pendingFunctors_)), asked)
         /\ \A i \in 1..Len(Tail(pendingFunctors_)) :
              Tail(pendingFunctors_)[i][1] # "connectEstablished"
         /\ \A i \in 1..Len(pendingFunctors_) :
              i = 1 \/ \E j \in 1..Len(Tail(pendingFunctors_)) :
                         Tail(pendingFunctors_)[j] = pendingFunctors_[i]
<1>. USE DEF IInv
<1>1. /\ pendingFunctors_ \in Seq(Functors) /\ Len(pendingFunctors_) \in Nat
      /\ taken \in Nat /\ asked \in Nat
  BY Types, Zenon
<1>2. /\ Head(pendingFunctors_) \in Functors /\ Head(pendingFunctors_) = pendingFunctors_[1]
      /\ Tail(pendingFunctors_) \in Seq(Functors)
      /\ Len(Tail(pendingFunctors_)) = Len(pendingFunctors_) - 1
      /\ \A i \in 1..(Len(pendingFunctors_) - 1) : Tail(pendingFunctors_)[i] = pendingFunctors_[i + 1]
  BY <1>1
<1>3. /\ Within(Tail(pendingFunctors_), taken, asked)
      /\ taken + Weight(Head(pendingFunctors_)) <= asked
      /\ Within(Tail(pendingFunctors_), taken + Weight(Head(pendingFunctors_)), asked)
  BY <1>1, WithinTail, Zenon
<1>4. ASSUME NEW i \in 1..Len(Tail(pendingFunctors_))
      PROVE  Tail(pendingFunctors_)[i][1] # "connectEstablished"
  <2>1. i + 1 \in 1..Len(pendingFunctors_) /\ i + 1 # 1
    BY <1>1, <1>2
  <2>. QED  BY <1>2, <2>1, Zenon DEF Starting
<1>5. ASSUME NEW i \in 1..Len(pendingFunctors_), i # 1
      PROVE  \E j \in 1..Len(Tail(pendingFunctors_)) : Tail(pendingFunctors_)[j] = pendingFunctors_[i]
  <2>1. i - 1 \in 1..Len(Tail(pendingFunctors_)) /\ (i - 1) + 1 = i
    BY <1>1, <1>2, <1>5
  <2>. QED  BY <1>2, <2>1, Zenon
<1>. QED  BY <1>2, <1>3, <1>4, <1>5, Zenon
-----------------------------------------------------------------------------
\* The peer and the kernel change the socket only, and not its writing half.
LEMMA KernelInv ==
  ASSUME IInv, Kernel
  PROVE  IInv'
<1>. USE DEF IInv
<1>1. /\ UNCHANGED <<state_, reading_, events_, index_, outputBuffer_, pc, revents_,
                     pendingFunctors_, caller, pointers, inMap, removals, destroyed, delays,
                     written, asked, taken, dropped, closes, mishaps>>
      /\ sock' \in [in : BOOLEAN, fin : BOOLEAN, rst : BOOLEAN, err : BOOLEAN, shut : BOOLEAN]
      /\ sock'.shut = sock.shut /\ (sock.rst => sock'.rst)
  BY Types, Zenon DEF Kernel, PeerSends, PeerCloses, PeerResets, conn, handling, others, server, history
<1>2. TypeOK'
  BY <1>1 DEF TypeOK
<1>3. Stream' /\ Starting' /\ Within(pendingFunctors_, taken, asked)'
  BY <1>1, Zenon DEF Stream, Starting, WriteDirectly
<1>4. Life'
  BY <1>1, Zenon DEF Life, NoMishap, UpIsOpen, DownIsIdle, HandlesWhatIsUp, RemovedOnce, Leaving
<1>. QED  BY <1>2, <1>3, <1>4, Zenon

\* epoll reports events of a channel that it has: the connection is up.
LEMMA PollInv ==
  ASSUME IInv, NEW out \in BOOLEAN, Poll(out)
  PROVE  IInv'
<1>. USE DEF IInv
<1>1. /\ UNCHANGED <<state_, reading_, events_, index_, outputBuffer_,
                     pendingFunctors_, caller, pointers, inMap, removals, destroyed, delays,
                     sock, written, asked, taken, dropped, closes, mishaps>>
      /\ index_ = "kAdded" /\ pc' = "close" /\ revents_' \subseteq {"HUP", "ERR", "IN", "OUT"}
  BY Zenon DEF Poll, Ready, conn, others, server, kernel, history
<1>2. TypeOK'
  BY <1>1 DEF TypeOK
<1>3. Stream' /\ Starting' /\ Within(pendingFunctors_, taken, asked)'
  BY <1>1, Zenon DEF Stream, Starting, WriteDirectly
<1>4. Life'
  BY <1>1, Zenon DEF Life, NoMishap, UpIsOpen, DownIsIdle, HandlesWhatIsUp, RemovedOnce, Leaving
<1>. QED  BY <1>2, <1>3, <1>4, Zenon

\* handleClose() of a connection that is up, or after a mishap.
LEMMA CloseInv ==
  ASSUME IInv, handleClose, state_ # "kConnecting", NoMishap => state_ # "kDisconnected",
         UNCHANGED <<reading_, outputBuffer_, inMap, destroyed, delays, pointers, caller,
                     written, asked, taken, dropped>>,
         pc' \in {"idle", "read", "write"}, revents_' \subseteq revents_,
         pc' = "read" => "IN" \notin revents_',
         sock' \in [in : BOOLEAN, fin : BOOLEAN, rst : BOOLEAN, err : BOOLEAN, shut : BOOLEAN],
         sock'.shut = sock.shut, sock'.rst = sock.rst,
         \/ pendingFunctors_' = pendingFunctors_
         \/ /\ pendingFunctors_ # << >> /\ pendingFunctors_' = Tail(pendingFunctors_)
            /\ Head(pendingFunctors_)[1] # "connectDestroyed"
  PROVE  IInv'
<1>. USE DEF IInv
<1>1. /\ state_' = "kDisconnected" /\ events_' = {} /\ closes' = closes + 1
      /\ removals' = removals + 1
      /\ index_' = IF index_ = "kAdded" THEN "kDeleted" ELSE "kAdded"
      /\ mishaps \subseteq mishaps'
      /\ index_ = "kDeleted" /\ state_ # "kDisconnected" => mishaps' # {}
      /\ destroyed => mishaps' # {}
      /\ mishaps' \subseteq Mishaps
  BY Zenon DEF handleClose, Update, TypeOK, Mishaps
<1>2. /\ pendingFunctors_' \in Seq(Functors)
      /\ Within(pendingFunctors_, taken, asked)'
      /\ \A i \in 1..Len(pendingFunctors_') : pendingFunctors_'[i][1] # "connectEstablished"
  BY Types, TakeFirst, Zenon DEF Starting
<1>3. TypeOK'
  BY <1>1, <1>2, Types DEF TypeOK, Functors
<1>4. Stream' /\ Starting'
  BY <1>1, <1>2, Zenon DEF Stream, Starting, WriteDirectly
<1>5. Life'
  <2>. SUFFICES ASSUME NoMishap'
                PROVE  (UpIsOpen /\ DownIsIdle /\ HandlesWhatIsUp /\ RemovedOnce)'
    BY Zenon DEF Life
  <2>1. NoMishap /\ ~destroyed /\ index_ # "kDeleted" /\ state_ # "kDisconnected"
    BY <1>1, Zenon DEF NoMishap
  <2>2. inMap /\ closes = 0 /\ removals = 0 /\ index_ = "kAdded"
    BY <2>1, Types DEF Life, UpIsOpen, RemovedOnce, TypeOK
  <2>3. DownIsIdle' /\ UpIsOpen' /\ HandlesWhatIsUp'
    BY <1>1, <2>2, Zenon DEF DownIsIdle, UpIsOpen, HandlesWhatIsUp
  <2>4. RemovedOnce'
    BY <1>1, <2>2 DEF RemovedOnce
  <2>. QED  BY <2>3, <2>4, Zenon
<1>. QED  BY <1>2, <1>3, <1>4, <1>5, Zenon

\* handleEvent() goes on without closing: only where it is, and flags of the
\* socket that say nothing about writing, change.
LEMMA GoesOnInv ==
  ASSUME IInv,
         UNCHANGED <<state_, reading_, events_, index_, outputBuffer_,
                     pendingFunctors_, caller, pointers, inMap, removals, destroyed, delays,
                     written, asked, taken, dropped, closes, mishaps>>,
         state_ # "kConnecting",
         pc' \in {"idle", "read", "message", "write"}, revents_' \subseteq revents_,
         pc' = "read" => pc = "close",
         sock' \in [in : BOOLEAN, fin : BOOLEAN, rst : BOOLEAN, err : BOOLEAN, shut : BOOLEAN],
         sock'.shut = sock.shut, sock'.rst = sock.rst
  PROVE  IInv'
<1>. USE DEF IInv
<1>1. TypeOK'
  BY ZenonT(60) DEF TypeOK
<1>2. Stream' /\ Starting' /\ Within(pendingFunctors_, taken, asked)'
  BY Zenon DEF Stream, Starting, WriteDirectly
<1>3. Life'
  BY Zenon DEF Life, NoMishap, UpIsOpen, DownIsIdle, HandlesWhatIsUp, RemovedOnce, Leaving
<1>. QED  BY <1>1, <1>2, <1>3, Zenon

\* handleEventWithGuard() on POLLHUP without POLLIN: handleClose(), or nothing.
LEMMA HandleHupInv ==
  ASSUME IInv, HandleHup
  PROVE  IInv'
<1>. USE DEF IInv
<1>1. /\ pc = "close" /\ pc' = "read" /\ state_ # "kConnecting"
      /\ NoMishap => state_ # "kDisconnected"
      /\ UNCHANGED <<reading_, outputBuffer_, revents_, pendingFunctors_, caller, pointers, inMap,
                     destroyed, delays, written, asked, taken, dropped>>
  BY Zenon DEF HandleHup, Starting, Life, HandlesWhatIsUp, others
<1>2. /\ sock' \in [in : BOOLEAN, fin : BOOLEAN, rst : BOOLEAN, err : BOOLEAN, shut : BOOLEAN]
      /\ sock'.shut = sock.shut /\ sock'.rst = sock.rst
  BY Types, Zenon DEF HandleHup
<1>3. CASE "HUP" \in revents_ /\ "IN" \notin revents_
  <2>1. handleClose
    BY <1>3, Zenon DEF HandleHup
  <2>. QED  BY <1>1, <1>2, <1>3, <2>1, CloseInv, Zenon
<1>4. CASE ~("HUP" \in revents_ /\ "IN" \notin revents_)
  <2>1. UNCHANGED <<state_, events_, index_, closes, removals, mishaps>>
    BY <1>4, Zenon DEF HandleHup, closing
  <2>. QED  BY <1>1, <1>2, <2>1, GoesOnInv, Zenon
<1>. QED  BY <1>3, <1>4, Zenon

\* handleRead(): a message, the end of the stream, or an error.
LEMMA HandleReadInv ==
  ASSUME IInv, HandleRead
  PROVE  IInv'
<1>. USE DEF IInv
<1>1. /\ pc = "read" /\ state_ # "kConnecting"
      /\ "IN" \in revents_ /\ NoMishap => state_ # "kDisconnected"
      /\ UNCHANGED <<reading_, outputBuffer_, revents_, pendingFunctors_, caller, pointers, inMap,
                     destroyed, delays, written, asked, taken, dropped>>
  BY Zenon DEF HandleRead, Starting, Life, HandlesWhatIsUp, others
<1>2. /\ sock' \in [in : BOOLEAN, fin : BOOLEAN, rst : BOOLEAN, err : BOOLEAN, shut : BOOLEAN]
      /\ sock'.shut = sock.shut /\ sock'.rst = sock.rst
  BY Types, Zenon DEF HandleRead, NoRead, ReadData, ReadEnd, ReadError
<1>3. CASE NoRead \/ ReadData \/ ReadError
  <2>1. /\ UNCHANGED <<state_, events_, index_, closes, removals, mishaps>>
        /\ pc' \in {"message", "write"}
    BY <1>3, Zenon DEF NoRead, ReadData, ReadError, closing
  <2>. QED  BY <1>1, <1>2, <2>1, GoesOnInv, Zenon
<1>4. CASE "IN" \in revents_ /\ ReadEnd
  <2>1. handleClose /\ pc' = "write"
    BY <1>4, Zenon DEF ReadEnd
  <2>. QED  BY <1>1, <1>2, <1>4, <2>1, CloseInv, Zenon
<1>. QED  BY <1>3, <1>4, Zenon DEF HandleRead

\* After the message callback, and where handleWrite() has nothing to do.
LEMMA NoWriteInv ==
  ASSUME IInv, MessageDone \/ NoWrite
  PROVE  IInv'
<1>. USE DEF IInv
<1>1. /\ pc # "idle" /\ state_ # "kConnecting"
      /\ UNCHANGED <<state_, reading_, events_, index_, outputBuffer_,
                     pendingFunctors_, caller, pointers, inMap, removals, destroyed, delays,
                     sock, written, asked, taken, dropped, closes, mishaps>>
      /\ pc' \in {"idle", "write"} /\ revents_' \subseteq revents_
  BY Zenon DEF MessageDone, NoWrite, Starting, conn, others, server, kernel, history
<1>. QED  BY <1>1, Types, GoesOnInv, Zenon
-----------------------------------------------------------------------------
\* A position behind the first a of a + n.
LEMMA BehindFirst ==
  ASSUME NEW a \in Nat, NEW n \in Nat, NEW b \in Nat, n <= b, NEW i \in 1..(a + n), i > a
  PROVE  i - a \in 1..n /\ a + (i - a) = i /\ i - a \in 1..b
OBVIOUS

\* Bytes that move from the front of b to the end of w stay consecutive.
LEMMA ConsecutiveShape ==
  ASSUME NEW w \in Seq(Nat), NEW b \in Seq(Nat), NEW n \in 0..Len(b), Consecutive(w, b),
         NEW v \in Seq(Nat), Len(v) = Len(w) + n, NEW r \in Seq(Nat), Len(r) = Len(b) - n,
         \A i \in 1..Len(w) : v[i] = w[i],
         \A i \in 1..n : v[Len(w) + i] = b[i],
         \A i \in 1..(Len(b) - n) : r[i] = b[n + i]
  PROVE  Consecutive(v, r)
<1>1. Len(w) \in Nat /\ Len(b) \in Nat /\ n \in Nat
  OBVIOUS
<1>2. ASSUME NEW i \in 1..Len(v) PROVE v[i] = i
  <2>1. CASE i <= Len(w)
    <3>1. i \in 1..Len(w)
      BY <1>1, <2>1
    <3>. QED  BY <3>1, Zenon DEF Consecutive
  <2>2. CASE i > Len(w)
    <3>1. i - Len(w) \in 1..n /\ Len(w) + (i - Len(w)) = i /\ i - Len(w) \in 1..Len(b)
      <4>1. n <= Len(b)
        OBVIOUS
      <4>2. i \in 1..(Len(w) + n)
        BY Zenon
      <4>. QED  BY <1>1, <2>2, <4>1, <4>2, BehindFirst, Zenon
    <3>. QED  BY <1>1, <3>1, Zenon DEF Consecutive
  <2>. QED  BY <1>1, <2>1, <2>2
<1>3. ASSUME NEW i \in 1..Len(r) PROVE r[i] = Len(v) + i
  <2>1. i \in 1..(Len(b) - n)
    BY Zenon
  <2>2. n + i \in 1..Len(b) /\ Len(w) + (n + i) = Len(v) + i
    BY <1>1, <2>1
  <2>. QED  BY <2>1, <2>2, Zenon DEF Consecutive
<1>. QED  BY <1>2, <1>3, Zenon DEF Consecutive

\* The first n elements of b are appended to w.
LEMMA ConsecutiveMoves ==
  ASSUME NEW w \in Seq(Nat), NEW b \in Seq(Nat), NEW n \in 0..Len(b), Consecutive(w, b)
  PROVE  /\ Consecutive(w \o SubSeq(b, 1, n), SubSeq(b, n + 1, Len(b)))
         /\ w \o SubSeq(b, 1, n) \in Seq(Nat) /\ SubSeq(b, n + 1, Len(b)) \in Seq(Nat)
         /\ Len(w \o SubSeq(b, 1, n)) = Len(w) + n
         /\ Len(SubSeq(b, n + 1, Len(b))) = Len(b) - n
<1>. DEFINE f == SubSeq(b, 1, n)
            v == w \o f
            r == SubSeq(b, n + 1, Len(b))
<1>1. Len(w) \in Nat /\ Len(b) \in Nat
  OBVIOUS
<1>2. f \in Seq(Nat) /\ Len(f) = n /\ \A i \in 1..n : f[i] = b[i]
  BY <1>1
<1>3. /\ r \in Seq(Nat) /\ Len(r) = Len(b) - n
      /\ \A i \in 1..(Len(b) - n) : r[i] = b[n + i]
  BY <1>1
<1>. HIDE DEF f, r
<1>4. /\ v \in Seq(Nat) /\ Len(v) = Len(w) + n
      /\ \A i \in 1..Len(w) : v[i] = w[i]
  <2>1. v \in Seq(Nat) /\ Len(v) = Len(w) + n
    BY <1>2, SeqConcat, Zenon
  <2>2. ASSUME NEW i \in 1..Len(w) PROVE v[i] = w[i]
    <3>1. i \in 1..(Len(w) + Len(f)) /\ i <= Len(w)
      BY <1>1, <1>2
    <3>. QED  BY <1>2, <3>1, SeqConcat, Zenon
  <2>. QED  BY <2>1, <2>2, Zenon
<1>5. ASSUME NEW i \in 1..n PROVE v[Len(w) + i] = b[i]
  <2>1. /\ Len(w) + i \in 1..(Len(w) + Len(f)) /\ ~(Len(w) + i <= Len(w))
        /\ (Len(w) + i) - Len(w) = i
    BY <1>1, <1>2
  <2>2. v[Len(w) + i] = f[i]
    BY <1>2, <2>1, SeqConcat
  <2>. QED  BY <1>2, <2>2, Zenon
<1>. HIDE DEF v
<1>6. Consecutive(v, r)
  BY <1>3, <1>4, <1>5, ConsecutiveShape, ZenonT(60)
<1>. QED  BY <1>3, <1>4, <1>6, Zenon DEF f, v, r

\* And so do the bytes that sendInLoop() keeps behind others.
LEMMA ConsecutiveKeeps ==
  ASSUME NEW w \in Seq(Nat), NEW b \in Seq(Nat), NEW c \in Seq(Nat), Consecutive(w, b),
         \A i \in 1..Len(c) : c[i] = Len(w) + Len(b) + i
  PROVE  Consecutive(w, b \o c) /\ Len(b \o c) = Len(b) + Len(c)
<1>1. /\ Len(w) \in Nat /\ Len(b) \in Nat /\ Len(c) \in Nat
      /\ Len(b \o c) = Len(b) + Len(c)
      /\ \A i \in 1..(Len(b) + Len(c)) : (b \o c)[i] = IF i <= Len(b) THEN b[i] ELSE c[i - Len(b)]
  OBVIOUS
<1>2. ASSUME NEW i \in 1..Len(b \o c) PROVE (b \o c)[i] = Len(w) + i
  <2>1. CASE i <= Len(b)
    BY <1>1, <2>1 DEF Consecutive
  <2>2. CASE i > Len(b)
    <3>1. i - Len(b) \in 1..Len(c) /\ Len(w) + Len(b) + (i - Len(b)) = Len(w) + i
      BY <1>1, <2>2
    <3>2. c[i - Len(b)] = Len(w) + Len(b) + (i - Len(b))
      BY <3>1, Zenon
    <3>. QED  BY <1>1, <2>2, <3>1, <3>2
  <2>. QED  BY <1>1, <2>1, <2>2
<1>. QED  BY <1>1, <1>2, Zenon DEF Consecutive

\* Their numbers are at most that of the bytes taken.
LEMMA ConsecutiveTypes ==
  ASSUME NEW w \in Seq(Nat), NEW b \in Seq(Nat), Consecutive(w, b),
         NEW m \in Nat, Len(w) + Len(b) <= m
  PROVE  w \in Seq(1..m) /\ b \in Seq(1..m)
<1>1. Len(w) \in Nat /\ Len(b) \in Nat
  OBVIOUS
<1>2. \A i \in 1..Len(w) : w[i] \in 1..m
  BY <1>1 DEF Consecutive
<1>3. \A i \in 1..Len(b) : b[i] \in 1..m
  BY <1>1 DEF Consecutive
<1>4. w = [i \in 1..Len(w) |-> w[i]] /\ b = [i \in 1..Len(b) |-> b[i]]
  BY SeqLen, Zenon
<1>5. [i \in 1..Len(w) |-> w[i]] \in Seq(1..m) /\ [i \in 1..Len(b) |-> b[i]] \in Seq(1..m)
  BY <1>1, <1>2, <1>3
<1>. QED  BY <1>4, <1>5, Zenon
-----------------------------------------------------------------------------
\* handleWrite(): bytes leave the output buffer, and the last ones let a
\* connection that is being shut down close its writing half.
LEMMA HandleWriteInv ==
  ASSUME IInv, HandleWrite
  PROVE  IInv'
<1>. USE DEF IInv
<1>1. PICK n \in 1..Len(outputBuffer_) : Written(n)
  BY Zenon DEF HandleWrite
<1>2. /\ pc = "write" /\ "write" \in events_ /\ pc' = "idle" /\ revents_' = {}
      /\ state_ # "kConnecting" /\ ~sock.shut /\ ~sock.rst /\ ~dropped
      /\ UNCHANGED <<state_, reading_, caller, pointers, inMap, removals, destroyed, delays,
                     asked, taken, dropped, closes, mishaps>>
  BY <1>1, Zenon DEF HandleWrite, Writes, Written, Starting, Stream, others, server, history
<1>3. /\ written \in Seq(Nat) /\ outputBuffer_ \in Seq(Nat)
      /\ Len(written) \in Nat /\ Len(outputBuffer_) \in Nat /\ n \in 0..Len(outputBuffer_)
      /\ taken \in Nat /\ taken <= MaxBytes /\ MaxBytes \in Nat
  BY Types, SMTT(60) DEF TypeOK
<1>4. /\ Consecutive(written', outputBuffer_')
      /\ written' \in Seq(Nat) /\ outputBuffer_' \in Seq(Nat)
      /\ Len(written') = Len(written) + n /\ Len(outputBuffer_') = Len(outputBuffer_) - n
  <2>1. written' = written \o SubSeq(outputBuffer_, 1, n)
        /\ outputBuffer_' = SubSeq(outputBuffer_, n + 1, Len(outputBuffer_))
    BY <1>1, Zenon DEF Written
  <2>2. Consecutive(written, outputBuffer_)
    BY Zenon DEF Stream
  <2>. QED  BY <1>3, <2>1, <2>2, ConsecutiveMoves, Zenon
<1>5. Len(written') + Len(outputBuffer_') = taken
  <2>1. Len(written) + Len(outputBuffer_) = taken
    BY <1>2, Zenon DEF Stream
  <2>2. Len(written') = Len(written) + n /\ Len(outputBuffer_') = Len(outputBuffer_) - n /\ n \in Nat
    BY <1>3, <1>4
  <2>3. (Len(written) + n) + (Len(outputBuffer_) - n) = Len(written) + Len(outputBuffer_)
    BY <1>3
  <2>. QED  BY <2>1, <2>2, <2>3, Zenon
<1>6. written' \in Seq(1..MaxBytes) /\ outputBuffer_' \in Seq(1..MaxBytes)
  <2>1. Len(written') + Len(outputBuffer_') <= MaxBytes
    BY <1>3, <1>5, Zenon
  <2>. QED  BY <1>3, <1>4, <2>1, ConsecutiveTypes, Zenon
<1>7. CASE outputBuffer_' = << >>
  <2>1. /\ events_' = events_ \ {"write"} /\ index_' \in {"kAdded", "kDeleted"}
        /\ pendingFunctors_' = Append(pendingFunctors_, <<"writeComplete", 0>>)
        /\ sock' \in {sock, [sock EXCEPT !.shut = TRUE]}
    BY <1>1, <1>7, Zenon DEF Written, Update, shutdownInLoop
  <2>. DEFINE f == <<"writeComplete", 0>>
  <2>2. /\ f \in Functors /\ f[1] = "writeComplete"
        /\ asked' \in Nat /\ asked' >= asked + Weight(f)
    BY <1>2, Types DEF Functors, FunctorNames, Weight
  <2>. HIDE DEF f
  <2>3. /\ pendingFunctors_' \in Seq(FunctorNames \X (Lens \cup {0}))
        /\ Within(pendingFunctors_, taken, asked)'
        /\ \A i \in 1..Len(pendingFunctors_') : pendingFunctors_'[i][1] # "connectEstablished"
        /\ Leaving => Leaving'
    BY <1>2, <2>1, <2>2, QueueMore, Zenon DEF f
  <2>4. sock' \in [in : BOOLEAN, fin : BOOLEAN, rst : BOOLEAN, err : BOOLEAN, shut : BOOLEAN]
    BY <2>1, Types, Zenon
  <2>5. TypeOK'
    BY <1>2, <1>6, <2>1, <2>3, <2>4, Zenon DEF TypeOK
  <2>6. Stream' /\ Starting'
    BY <1>2, <1>3, <1>4, <1>5, <2>3, Zenon DEF Stream, Starting
  <2>7. Life'
    BY <1>2, <1>7, <2>1, <2>3, Zenon DEF Life, NoMishap, UpIsOpen, DownIsIdle, HandlesWhatIsUp, RemovedOnce
  <2>. QED  BY <2>3, <2>5, <2>6, <2>7, Zenon
<1>8. CASE outputBuffer_' # << >>
  <2>1. UNCHANGED <<events_, index_, pendingFunctors_, sock>>
    BY <1>1, <1>8, Zenon DEF Written
  <2>2. TypeOK'
    BY <1>2, <1>6, <2>1, ZenonT(60) DEF TypeOK
  <2>3. Stream' /\ Starting' /\ Within(pendingFunctors_, taken, asked)'
    BY <1>2, <1>3, <1>4, <1>5, <2>1, Zenon DEF Stream, Starting
  <2>4. Life'
    BY <1>2, <1>8, <2>1, Zenon DEF Life, NoMishap, UpIsOpen, DownIsIdle, HandlesWhatIsUp, RemovedOnce, Leaving
  <2>. QED  BY <2>2, <2>3, <2>4, Zenon
<1>. QED  BY <1>7, <1>8, Zenon

\* What may follow the functors fs: nothing, or one callback of the user.
Called(fs, q) ==
  \/ q = fs
  \/ q = Append(fs, <<"writeComplete", 0>>)
  \/ q = Append(fs, <<"highWaterMark", 0>>)

\* Neither of them hands over bytes.
LEMMA QueueCallback ==
  ASSUME NEW fs \in Seq(Functors), NEW t \in Nat, NEW a \in Nat, Within(fs, t, a),
         \A i \in 1..Len(fs) : fs[i][1] # "connectEstablished",
         NEW q, Called(fs, q)
  PROVE  /\ q \in Seq(Functors) /\ Within(q, t, a)
         /\ \A i \in 1..Len(q) : q[i][1] # "connectEstablished"
         /\ \A i \in 1..Len(fs) : i \in 1..Len(q) /\ q[i] = fs[i]
<1>1. CASE q = fs
  BY <1>1, Zenon
<1>2. ASSUME NEW g \in {<<"writeComplete", 0>>, <<"highWaterMark", 0>>}, q = Append(fs, g)
      PROVE  /\ q \in Seq(Functors) /\ Within(q, t, a)
             /\ \A i \in 1..Len(q) : q[i][1] # "connectEstablished"
             /\ \A i \in 1..Len(fs) : i \in 1..Len(q) /\ q[i] = fs[i]
  <2>1. g \in Functors /\ Weight(g) = 0 /\ g[1] # "connectEstablished"
    BY DEF Functors, FunctorNames, Weight
  <2>2. Within(q, t, a)
    BY <1>2, <2>1, WithinAppend
  <2>3. /\ q \in Seq(Functors) /\ Len(q) = Len(fs) + 1 /\ Len(fs) \in Nat
        /\ \A i \in 1..Len(fs) : q[i] = fs[i]
        /\ q[Len(fs) + 1] = g
    BY <1>2, <2>1
  <2>4. ASSUME NEW i \in 1..Len(q) PROVE q[i][1] # "connectEstablished"
    <3>1. i \in 1..Len(fs) \/ i = Len(fs) + 1
      BY <2>3
    <3>. QED  BY <2>1, <2>3, <3>1, Zenon
  <2>. QED  BY <2>2, <2>3, <2>4
<1>. QED  BY <1>1, <1>2, Zenon DEF Called

\* The high-water mark adds at most its own callback to the functors fs.
LEMMA WithHighWater ==
  ASSUME NEW fs \in Seq(Functors), NEW n, NEW m
  PROVE  \/ fs \o HighWater(n, m) = fs
         \/ fs \o HighWater(n, m) = Append(fs, <<"highWaterMark", 0>>)
<1>1. HighWater(n, m) = << >> \/ HighWater(n, m) = << <<"highWaterMark", 0>> >>
  BY Zenon DEF HighWater
<1>2. fs \o << >> = fs
  OBVIOUS
<1>3. <<"highWaterMark", 0>> \in Functors
  BY Zenon DEF Functors, FunctorNames
<1>4. fs \o << <<"highWaterMark", 0>> >> = Append(fs, <<"highWaterMark", 0>>)
  BY <1>3
<1>. QED  BY <1>1, <1>2, <1>4, Zenon

\* The bytes of a message, numbered from t.
LEMMA Numbered ==
  ASSUME NEW t \in Nat, NEW n \in Nat
  PROVE  /\ [i \in 1..n |-> t + i] \in Seq(Nat) /\ Len([i \in 1..n |-> t + i]) = n
         /\ \A j \in 1..n : [i \in 1..n |-> t + i][j] = t + j
<1>1. \A i \in 1..n : t + i \in Nat
  OBVIOUS
<1>. QED  BY <1>1

\* sendInLoop() of len bytes, while the functors fs are waiting: the bytes are
\* ignored, written, written in part and kept, kept, or dropped after a fault.
LEMMA SendInv ==
  ASSUME IInv, NEW len \in Lens, NEW fs \in Seq(Functors), sendInLoop(len, fs),
         state_ # "kConnecting",
         asked' \in Nat, asked' <= MaxBytes, taken + len <= asked', taken <= asked',
         Within(fs, taken, asked'), Within(fs, taken + len, asked'),
         \A i \in 1..Len(fs) : fs[i][1] # "connectEstablished",
         Leaving => \E i \in 1..Len(fs) : fs[i][1] = "connectDestroyed",
         UNCHANGED <<state_, reading_, pc, revents_, caller, pointers, inMap, removals,
                     destroyed, delays, sock, closes, mishaps>>
  PROVE  IInv'
<1>. USE DEF IInv
<1>1. /\ taken \in Nat /\ len \in Nat /\ len > 0
      /\ written \in Seq(Nat) /\ outputBuffer_ \in Seq(Nat)
      /\ Len(written) \in Nat /\ Len(outputBuffer_) \in Nat /\ MaxBytes \in Nat
  <2>1. /\ taken \in Nat /\ MaxBytes \in Nat /\ Lens \subseteq Nat \ {0}
        /\ Len(written) \in Nat /\ Len(outputBuffer_) \in Nat
        /\ written \in Seq(1..MaxBytes) /\ outputBuffer_ \in Seq(1..MaxBytes)
    BY Types, Zenon
  <2>2. len \in Nat /\ len > 0
    BY <2>1
  <2>3. 1..MaxBytes \subseteq Nat
    BY <2>1
  <2>4. written \in Seq(Nat) /\ outputBuffer_ \in Seq(Nat)
    BY <2>1, <2>3, SeqWider, Zenon
  <2>. QED  BY <2>1, <2>2, <2>4, Zenon
\* The kinds of queue that result.
<1>2. ASSUME taken' \in {taken, taken + len},
             \/ pendingFunctors_' = fs
             \/ pendingFunctors_' = Append(fs, <<"writeComplete", 0>>)
             \/ pendingFunctors_' = Append(fs, <<"highWaterMark", 0>>)
      PROVE  /\ pendingFunctors_' \in Seq(FunctorNames \X (Lens \cup {0}))
             /\ Within(pendingFunctors_, taken, asked)'
             /\ Starting'
             /\ Leaving => Leaving'
             /\ taken' \in 0..asked' /\ asked' \in 0..MaxBytes
  <2>1. taken' \in Nat /\ asked' \in Nat /\ Within(fs, taken', asked') /\ taken' <= asked'
    <3>1. taken + len \in Nat
      BY <1>1
    <3>. QED  BY <1>1, <1>2, <3>1, Zenon
  <2>2. /\ pendingFunctors_' \in Seq(Functors) /\ Within(pendingFunctors_', taken', asked')
        /\ \A i \in 1..Len(pendingFunctors_') : pendingFunctors_'[i][1] # "connectEstablished"
        /\ \A i \in 1..Len(fs) : i \in 1..Len(pendingFunctors_') /\ pendingFunctors_'[i] = fs[i]
    <3>1. Called(fs, pendingFunctors_')
      BY <1>2, Zenon DEF Called
    <3>. QED  BY <2>1, <3>1, QueueCallback, SMTT(60)
  <2>3. Starting'
    BY <2>2, Zenon DEF Starting
  <2>4. Leaving => Leaving'
    BY <2>2, Zenon DEF Leaving
  <2>. QED  BY <2>1, <2>2, <2>3, <2>4 DEF Functors
\* Nothing but the queue, and what was taken after a fault, changes.
<1>3. ASSUME pendingFunctors_' = fs, UNCHANGED <<events_, index_, outputBuffer_, written>>,
             \/ taken' = taken /\ dropped' = dropped
             \/ /\ taken' = taken + len /\ dropped' = TRUE
                /\ WriteDirectly /\ (sock.shut \/ sock.rst)
      PROVE  IInv'
  <2>1. taken' \in {taken, taken + len} /\ taken' >= taken
    BY <1>1, <1>3, SMTT(60)
  <2>2. TypeOK'
    <3>1. /\ pendingFunctors_' \in Seq(FunctorNames \X (Lens \cup {0}))
          /\ taken' \in 0..asked' /\ asked' \in 0..MaxBytes
      BY <1>2, <1>3, <2>1, Zenon
    <3>2. dropped' \in BOOLEAN
      BY <1>3, Zenon DEF TypeOK
    <3>. QED  BY <1>3, <3>1, <3>2 DEF TypeOK
  <2>3. Stream'
    BY <1>1, <1>3, <2>1, SMTT(60) DEF Stream, WriteDirectly
  <2>4. Life'
    BY <1>2, <1>3, <2>1, Zenon DEF Life, NoMishap, UpIsOpen, DownIsIdle, HandlesWhatIsUp, RemovedOnce
  <2>. QED  BY <1>2, <1>3, <2>1, <2>2, <2>3, <2>4, ZenonT(60)
<1>4. CASE state_ = "kDisconnected"
  BY <1>3, <1>4, Zenon DEF sendInLoop
<1>5. CASE state_ # "kDisconnected"
  <2>. DEFINE bytes == [i \in 1..len |-> taken + i]
  <2>1. /\ bytes \in Seq(Nat) /\ Len(bytes) = len /\ \A i \in 1..len : bytes[i] = taken + i
    BY <1>1, Numbered, ZenonT(60)
  <2>2. taken' = taken + len
    BY <1>5, Zenon DEF sendInLoop
  <2>3. \/ /\ WriteDirectly /\ ~sock.shut /\ ~sock.rst
           /\ \E n \in 0..len :
                /\ written' = written \o SubSeq(bytes, 1, n)
                /\ IF n = len
                   THEN /\ pendingFunctors_' = Append(fs, <<"writeComplete", 0>>)
                        /\ UNCHANGED <<events_, index_, outputBuffer_>>
                   ELSE Keep(SubSeq(bytes, n + 1, len), fs)
           /\ UNCHANGED dropped
        \/ /\ WriteDirectly /\ (sock.shut \/ sock.rst)
           /\ dropped' = TRUE
           /\ pendingFunctors_' = fs
           /\ UNCHANGED <<events_, index_, outputBuffer_, written>>
        \/ /\ ~WriteDirectly
           /\ Keep(bytes, fs)
           /\ UNCHANGED <<written, dropped>>
    BY <1>5, Zenon DEF sendInLoop
  <2>. HIDE DEF bytes
  \* The two ways to go on when nothing was dropped.
  <2>4. ASSUME ~dropped, dropped' = dropped,
               Consecutive(written', outputBuffer_'),
               written' \in Seq(Nat), outputBuffer_' \in Seq(Nat),
               Len(written') + Len(outputBuffer_') = taken',
               \/ /\ pendingFunctors_' = Append(fs, <<"writeComplete", 0>>)
                  /\ UNCHANGED <<events_, index_, outputBuffer_>>
               \/ /\ outputBuffer_' # << >> /\ Update(events_ \cup {"write"})
                  /\ NoMishap => ~sock.shut
                  /\ \/ pendingFunctors_' = fs
                     \/ pendingFunctors_' = Append(fs, <<"highWaterMark", 0>>)
        PROVE  IInv'
    <3>1. written' \in Seq(1..MaxBytes) /\ outputBuffer_' \in Seq(1..MaxBytes)
      <4>0. taken' \in Nat /\ taken' <= asked'
        <5>1. taken + len \in Nat
          BY <1>1
        <5>. QED  BY <2>2, <5>1, Zenon
      <4>1. Len(written') + Len(outputBuffer_') <= MaxBytes
        <5>1. taken' <= MaxBytes
          BY <1>1, <4>0, SMTT(60)
        <5>. QED  BY <2>4, <5>1, ZenonT(60)
      <4>. QED  BY <1>1, <2>4, <4>1, ConsecutiveTypes, Zenon
    <3>2. taken' \in {taken, taken + len} /\ taken' \in Nat
      BY <1>1, <2>2
    <3>3. /\ events_' \subseteq {"read", "write"} /\ index_' \in {"kNew", "kAdded", "kDeleted"}
          /\ index_' = "kNew" => index_ = "kNew"
      BY <2>4, Zenon DEF TypeOK, Update
    <3>4. TypeOK'
      <4>1. /\ pendingFunctors_' \in Seq(FunctorNames \X (Lens \cup {0}))
            /\ taken' \in 0..asked' /\ asked' \in 0..MaxBytes
        BY <1>2, <2>4, <3>2, Zenon
      <4>2. dropped' \in BOOLEAN
        BY <2>4, ZenonT(60) DEF TypeOK
      <4>. QED  BY <3>1, <3>3, <4>1, <4>2, SMTT(60) DEF TypeOK
    <3>5. Stream'
      BY <2>4, SMTT(60) DEF Stream
    <3>6. Life'
      BY <1>2, <1>5, <2>4, <3>2, <3>3, Zenon
         DEF Life, NoMishap, UpIsOpen, DownIsIdle, HandlesWhatIsUp, RemovedOnce, Update
    <3>. QED  BY <1>2, <2>4, <3>2, <3>4, <3>5, <3>6, Zenon
  <2>5. ASSUME NEW c \in Seq(Nat), Keep(c, fs)
        PROVE  /\ outputBuffer_' = outputBuffer_ \o c /\ Update(events_ \cup {"write"})
               /\ \/ pendingFunctors_' = fs
                  \/ pendingFunctors_' = Append(fs, <<"highWaterMark", 0>>)
    BY <2>5, WithHighWater, Zenon DEF Keep
  <2>6. CASE WriteDirectly /\ (sock.shut \/ sock.rst)
    BY <1>3, <2>2, <2>3, <2>6, Zenon
  <2>7. CASE ~WriteDirectly
    <3>1. ~dropped /\ Len(written) + Len(outputBuffer_) = taken
      BY <2>7, Zenon DEF Stream
    <3>2. Keep(bytes, fs) /\ UNCHANGED <<written, dropped>>
      BY <2>3, <2>7, Zenon
    <3>3. Consecutive(written, outputBuffer_ \o bytes) /\ Len(outputBuffer_ \o bytes) = Len(outputBuffer_) + len
      <4>1. \A i \in 1..Len(bytes) : bytes[i] = Len(written) + Len(outputBuffer_) + i
        BY <2>1, <3>1, Zenon
      <4>. QED  BY <1>1, <2>1, <4>1, ConsecutiveKeeps, ZenonT(60) DEF Stream
    <3>4. /\ outputBuffer_' = outputBuffer_ \o bytes /\ Update(events_ \cup {"write"})
          /\ \/ pendingFunctors_' = fs
             \/ pendingFunctors_' = Append(fs, <<"highWaterMark", 0>>)
      BY <2>1, <2>5, <3>2, Zenon
    <3>5. outputBuffer_' \in Seq(Nat) /\ Len(outputBuffer_') > 0 /\ outputBuffer_' # << >>
      <4>1. outputBuffer_' \in Seq(Nat) /\ Len(outputBuffer_') = Len(outputBuffer_) + len
        BY <1>1, <2>1, <3>3, <3>4, SeqConcat, Zenon
      <4>2. Len(outputBuffer_) + len > 0 /\ Len(outputBuffer_) + len # 0
        BY <1>1
      <4>3. Len(outputBuffer_') > 0 /\ Len(outputBuffer_') # 0
        BY <4>1, <4>2, Zenon
      <4>. QED  BY <4>1, <4>3
    <3>6. Len(written') + Len(outputBuffer_') = taken'
      <4>1. Len(written') = Len(written) /\ Len(outputBuffer_') = Len(outputBuffer_) + len
        BY <3>2, <3>3, <3>4, Zenon
      <4>2. Len(written) + (Len(outputBuffer_) + len) = (Len(written) + Len(outputBuffer_)) + len
        BY <1>1, SMTT(60)
      <4>. QED  BY <2>2, <3>1, <4>1, <4>2, Zenon
    <3>7. NoMishap => ~sock.shut
      BY <1>5, <2>7, Zenon DEF Life, UpIsOpen, WriteDirectly
    <3>. QED  BY <1>1, <2>4, <3>1, <3>2, <3>3, <3>4, <3>5, <3>6, <3>7, Zenon
  <2>8. CASE WriteDirectly /\ ~sock.shut /\ ~sock.rst
    <3>1. ~dropped /\ Len(written) = taken /\ outputBuffer_ = << >>
      BY <1>1, <2>8, SMTT(60) DEF Stream, WriteDirectly
    <3>2. PICK n \in 0..len :
            /\ written' = written \o SubSeq(bytes, 1, n)
            /\ IF n = len
               THEN /\ pendingFunctors_' = Append(fs, <<"writeComplete", 0>>)
                    /\ UNCHANGED <<events_, index_, outputBuffer_>>
               ELSE Keep(SubSeq(bytes, n + 1, len), fs)
      BY <2>3, <2>8, Zenon
    <3>3. dropped' = dropped
      BY <2>3, <2>8, Zenon
    <3>. DEFINE rest == SubSeq(bytes, n + 1, len)
    <3>4. Consecutive(written, bytes)
      BY <2>1, <3>1, Zenon DEF Consecutive, Stream
    <3>5. /\ Consecutive(written', rest) /\ written' \in Seq(Nat) /\ rest \in Seq(Nat)
          /\ Len(written') = Len(written) + n /\ Len(rest) = len - n
      BY <1>1, <2>1, <3>2, <3>4, ConsecutiveMoves, Zenon
    <3>. HIDE DEF rest
    <3>6. n \in Nat /\ (Len(written) + n) + (len - n) = Len(written) + len
      BY <1>1, SMTT(60)
    <3>7. outputBuffer_' = rest
      <4>1. CASE n = len
        <5>1. rest = << >>
          BY <1>1, <3>5, <4>1, SMTT(60)
        <5>. QED  BY <3>1, <3>2, <4>1, <5>1, Zenon
      <4>2. CASE n # len
        <5>1. outputBuffer_' = outputBuffer_ \o rest
          BY <2>5, <3>2, <3>5, <4>2, Zenon DEF rest
        <5>. QED  BY <3>1, <3>5, <5>1
      <4>. QED  BY <4>1, <4>2, Zenon
    <3>8. Len(written') + Len(outputBuffer_') = taken'
      BY <2>2, <3>1, <3>5, <3>6, <3>7, Zenon
    <3>9. CASE n = len
      BY <2>4, <3>1, <3>2, <3>3, <3>5, <3>7, <3>8, <3>9, Zenon
    <3>10. CASE n # len
      <4>1. rest # << >>
        <5>1. len - n # 0
          BY <1>1, <3>6, <3>10, SMTT(60)
        <5>. QED  BY <3>5, <5>1, Zenon
      <4>2. /\ Update(events_ \cup {"write"})
            /\ \/ pendingFunctors_' = fs
               \/ pendingFunctors_' = Append(fs, <<"highWaterMark", 0>>)
        BY <2>5, <3>2, <3>5, <3>10, Zenon DEF rest
      <4>. QED  BY <2>4, <2>8, <3>1, <3>3, <3>5, <3>7, <3>8, <4>1, <4>2, Zenon
    <3>. QED  BY <3>9, <3>10, Zenon
  <2>. QED  BY <2>6, <2>7, <2>8, Zenon
<1>. QED  BY <1>4, <1>5, Zenon
-----------------------------------------------------------------------------
\* The functors of the loop.
LEMMA SendInLoopInv ==
  ASSUME IInv, SendInLoop, UNCHANGED handling
  PROVE  IInv'
<1>. USE DEF IInv
<1>. DEFINE f == Head(pendingFunctors_)
            fs == Tail(pendingFunctors_)
<1>1. /\ pendingFunctors_ # << >> /\ f[1] = "sendInLoop" /\ sendInLoop(f[2], fs)
      /\ UNCHANGED <<state_, reading_, pc, revents_, caller, pointers, inMap, removals,
                     destroyed, delays, sock, asked, closes, mishaps>>
  BY Zenon DEF SendInLoop, Takes, handling, others, server
<1>2. /\ f \in Functors /\ f = pendingFunctors_[1] /\ fs \in Seq(Functors)
      /\ Within(fs, taken, asked)
      /\ taken + Weight(f) <= asked /\ Within(fs, taken + Weight(f), asked)
      /\ \A i \in 1..Len(fs) : fs[i][1] # "connectEstablished"
      /\ \A i \in 1..Len(pendingFunctors_) :
           i = 1 \/ \E j \in 1..Len(fs) : fs[j] = pendingFunctors_[i]
  BY <1>1, TakeFirst, ZenonT(60)
<1>. HIDE DEF f, fs
<1>3. state_ # "kConnecting"
  BY <1>1, <1>2, Zenon DEF Starting
<1>4. Leaving => \E i \in 1..Len(fs) : fs[i][1] = "connectDestroyed"
  BY <1>1, <1>2, Zenon DEF Leaving
<1>5. /\ Weight(f) = f[2] /\ asked' \in Nat /\ asked' <= MaxBytes /\ taken <= asked'
      /\ f[2] \in Lens
  BY <1>1, <1>2, SMTT(60) DEF Weight, Functors, TypeOK
<1>. QED  BY <1>1, <1>2, <1>3, <1>4, <1>5, SendInv, Zenon

\* A functor that carries no bytes has run.
LEMMA RunFirst ==
  ASSUME IInv, NEW name, Takes(name), pendingFunctors_' = Tail(pendingFunctors_),
         UNCHANGED <<taken, asked>>
  PROVE  /\ pc = "idle" /\ pendingFunctors_[1][1] = name /\ pendingFunctors_ # << >>
         /\ Head(pendingFunctors_)[1] = name
         /\ state_ = "kConnecting" <=> name = "connectEstablished"
         /\ pendingFunctors_' \in Seq(FunctorNames \X (Lens \cup {0}))
         /\ Within(pendingFunctors_, taken, asked)'
         /\ \A i \in 1..Len(pendingFunctors_') : pendingFunctors_'[i][1] # "connectEstablished"
         /\ name # "connectDestroyed" /\ Leaving => Leaving'
<1>1. /\ pc = "idle" /\ pendingFunctors_ # << >> /\ Head(pendingFunctors_)[1] = name
  BY Zenon DEF Takes
<1>2. /\ Head(pendingFunctors_) = pendingFunctors_[1]
      /\ pendingFunctors_' \in Seq(Functors)
      /\ Within(pendingFunctors_', taken, asked)
      /\ \A i \in 1..Len(pendingFunctors_') : pendingFunctors_'[i][1] # "connectEstablished"
      /\ \A i \in 1..Len(pendingFunctors_) :
           i = 1 \/ \E j \in 1..Len(pendingFunctors_') : pendingFunctors_'[j] = pendingFunctors_[i]
  BY <1>1, TakeFirst, Zenon
<1>3. state_ = "kConnecting" <=> name = "connectEstablished"
  <2>1. 1 \in 1..Len(pendingFunctors_)
    BY <1>1, Types
  <2>. QED  BY <1>1, <1>2, <2>1, Zenon DEF IInv, Starting
<1>4. name # "connectDestroyed" /\ Leaving => Leaving'
  BY <1>1, <1>2, Zenon DEF Leaving
<1>. QED  BY <1>1, <1>2, <1>3, <1>4, QueueType, Zenon

\* connectEstablished() enables reading, once.
LEMMA ConnectEstablishedInv ==
  ASSUME IInv, ConnectEstablished, pendingFunctors_' = Tail(pendingFunctors_), UNCHANGED handling
  PROVE  IInv'
<1>. USE DEF IInv
<1>1. /\ Takes("connectEstablished") /\ state_' = "kConnected" /\ pointers' = Others
      /\ Update(events_ \cup {"read"})
      /\ UNCHANGED <<reading_, outputBuffer_, pc, revents_, caller, inMap, removals, destroyed, delays,
                     sock, written, asked, taken, dropped, closes, mishaps>>
  BY Zenon DEF ConnectEstablished, handling, server, kernel, history
<1>2. /\ pc = "idle" /\ state_ = "kConnecting"
      /\ pendingFunctors_' \in Seq(FunctorNames \X (Lens \cup {0}))
      /\ Within(pendingFunctors_, taken, asked)'
      /\ \A i \in 1..Len(pendingFunctors_') : pendingFunctors_'[i][1] # "connectEstablished"
      /\ Leaving => Leaving'
  BY <1>1, RunFirst, Zenon
<1>3. /\ index_ = "kNew" /\ events_ = {} /\ outputBuffer_ = << >>
      /\ events_' = {"read"} /\ index_' = "kAdded"
  BY <1>1, <1>2, Zenon DEF Starting, Update
<1>4. TypeOK'
  BY <1>1, <1>2, <1>3, ZenonT(60) DEF TypeOK
<1>5. Stream' /\ Starting'
  BY <1>1, <1>2, <1>3, Zenon DEF Stream, Starting, WriteDirectly
<1>6. Life'
  BY <1>1, <1>2, <1>3, Zenon DEF Life, NoMishap, UpIsOpen, DownIsIdle, HandlesWhatIsUp, RemovedOnce
<1>. QED  BY <1>2, <1>4, <1>5, <1>6, Zenon

\* connectDestroyed() removes the channel from the poller.
LEMMA ConnectDestroyedInv ==
  ASSUME IInv, ConnectDestroyed, pendingFunctors_' = Tail(pendingFunctors_), UNCHANGED handling
  PROVE  IInv'
<1>. USE DEF IInv
<1>1. /\ Takes("connectDestroyed") /\ index_' = "kNew"
      /\ state_' = IF state_ = "kConnected" THEN "kDisconnected" ELSE state_
      /\ events_' = IF state_ = "kConnected" THEN {} ELSE events_
      /\ mishaps' = IF state_ = "kDisconnecting" THEN mishaps \cup {"cutShort"} ELSE mishaps
      /\ UNCHANGED <<reading_, outputBuffer_, pc, revents_, caller, pointers, inMap, removals,
                     destroyed, delays, sock, written, asked, taken, dropped, closes>>
  BY Zenon DEF ConnectDestroyed, MishapIf, handling, others, server, kernel
<1>2. /\ pc = "idle" /\ state_ # "kConnecting"
      /\ pendingFunctors_' \in Seq(FunctorNames \X (Lens \cup {0}))
      /\ Within(pendingFunctors_, taken, asked)'
      /\ \A i \in 1..Len(pendingFunctors_') : pendingFunctors_'[i][1] # "connectEstablished"
  BY <1>1, RunFirst
<1>3. mishaps' \subseteq Mishaps /\ (mishaps' = {} => mishaps = {} /\ state_ # "kDisconnecting")
  BY <1>1, Zenon DEF TypeOK, Mishaps
<1>4. TypeOK'
  BY <1>1, <1>2, <1>3, ZenonT(60) DEF TypeOK
<1>5. Stream' /\ Starting'
  BY <1>1, <1>2, Zenon DEF Stream, Starting, WriteDirectly
<1>6. Life'
  BY <1>1, <1>2, <1>3, Zenon DEF Life, NoMishap, UpIsOpen, DownIsIdle, HandlesWhatIsUp, RemovedOnce, TypeOK
<1>. QED  BY <1>2, <1>4, <1>5, <1>6, Zenon

\* forceCloseInLoop() closes what is up and nothing else.
LEMMA ForceCloseInLoopInv ==
  ASSUME IInv, ForceCloseInLoop, pendingFunctors_' = Tail(pendingFunctors_), UNCHANGED handling
  PROVE  IInv'
<1>. USE DEF IInv
<1>1. /\ Takes("forceCloseInLoop")
      /\ UNCHANGED <<reading_, outputBuffer_, pc, revents_, caller, pointers, inMap, destroyed, delays,
                     sock, written, asked, taken, dropped>>
  BY Zenon DEF ForceCloseInLoop, handling, others, kernel
<1>2. /\ pc = "idle" /\ state_ # "kConnecting" /\ pendingFunctors_ # << >>
      /\ Head(pendingFunctors_)[1] = "forceCloseInLoop"
      /\ pendingFunctors_' \in Seq(FunctorNames \X (Lens \cup {0}))
      /\ Within(pendingFunctors_, taken, asked)'
      /\ \A i \in 1..Len(pendingFunctors_') : pendingFunctors_'[i][1] # "connectEstablished"
      /\ Leaving => Leaving'
  BY <1>1, RunFirst
<1>3. CASE state_ \in {"kConnected", "kDisconnecting"}
  <2>1. handleClose
    BY <1>3, Zenon DEF ForceCloseInLoop
  <2>. QED  BY <1>1, <1>2, <1>3, <2>1, Types, CloseInv, Zenon
<1>4. CASE state_ \notin {"kConnected", "kDisconnecting"}
  <2>1. UNCHANGED <<state_, events_, index_, closes, removals, mishaps>>
    BY <1>4, Zenon DEF ForceCloseInLoop, closing
  <2>2. TypeOK'
    BY <1>1, <1>2, <2>1, SMTT(60) DEF TypeOK
  <2>3. Stream' /\ Starting'
    BY <1>1, <1>2, <2>1, Zenon DEF Stream, Starting, WriteDirectly
  <2>4. Life'
    BY <1>1, <1>2, <2>1, Zenon DEF Life, NoMishap, UpIsOpen, DownIsIdle, HandlesWhatIsUp, RemovedOnce
  <2>. QED  BY <1>2, <2>2, <2>3, <2>4, Zenon
<1>. QED  BY <1>3, <1>4, Zenon

\* shutdownInLoop() as a functor, and the user's callbacks.
LEMMA ShutdownInLoopInv ==
  ASSUME IInv, ShutdownInLoop \/ UserCallback, pendingFunctors_' = Tail(pendingFunctors_),
         UNCHANGED handling
  PROVE  IInv'
<1>. USE DEF IInv
<1>1. /\ Takes("shutdownInLoop") \/ Takes("writeComplete") \/ Takes("highWaterMark")
      /\ UNCHANGED <<state_, reading_, events_, index_, outputBuffer_, pc, revents_, caller, pointers,
                     inMap, removals, destroyed, delays, written, asked, taken, dropped, closes, mishaps>>
      /\ \/ sock' = sock
         \/ "write" \notin events_ /\ sock' = [sock EXCEPT !.shut = TRUE]
  BY Zenon DEF ShutdownInLoop, UserCallback, shutdownInLoop, handling, conn, others, server, kernel, history
<1>2. /\ pc = "idle" /\ state_ # "kConnecting"
      /\ pendingFunctors_' \in Seq(FunctorNames \X (Lens \cup {0}))
      /\ Within(pendingFunctors_, taken, asked)'
      /\ \A i \in 1..Len(pendingFunctors_') : pendingFunctors_'[i][1] # "connectEstablished"
      /\ Leaving => Leaving'
  BY <1>1, RunFirst
<1>3. /\ sock' \in [in : BOOLEAN, fin : BOOLEAN, rst : BOOLEAN, err : BOOLEAN, shut : BOOLEAN]
      /\ sock'.rst = sock.rst /\ (sock.shut => sock'.shut)
      /\ sock'.shut => sock.shut \/ "write" \notin events_
  BY <1>1, Types, Zenon
<1>4. TypeOK'
  BY <1>1, <1>2, <1>3, ZenonT(60) DEF TypeOK
<1>5. Stream' /\ Starting'
  BY <1>1, <1>2, <1>3, Zenon DEF Stream, Starting, WriteDirectly
<1>6. Life'
  BY <1>1, <1>2, <1>3, Zenon DEF Life, NoMishap, UpIsOpen, DownIsIdle, HandlesWhatIsUp, RemovedOnce
<1>. QED  BY <1>2, <1>4, <1>5, <1>6, Zenon

\* startReadInLoop() and stopReadInLoop(), wherever they run: after the
\* connection is closed they are a mishap.
LEMMA ReadsInv ==
  ASSUME IInv, startReadInLoop \/ stopReadInLoop, state_ # "kConnecting",
         UNCHANGED <<state_, outputBuffer_, pc, revents_, caller, pointers, inMap, removals,
                     destroyed, delays, sock, written, asked, taken, dropped, closes>>,
         pendingFunctors_' \in Seq(FunctorNames \X (Lens \cup {0})),
         Within(pendingFunctors_, taken, asked)',
         \A i \in 1..Len(pendingFunctors_') : pendingFunctors_'[i][1] # "connectEstablished",
         Leaving => Leaving'
  PROVE  IInv'
<1>. USE DEF IInv
<1>1. /\ mishaps' \subseteq Mishaps
      /\ mishaps' = {} => mishaps = {} /\ state_ # "kDisconnected"
      /\ reading_' \in BOOLEAN /\ events_' \subseteq {"read", "write"}
      /\ "write" \in events_' <=> "write" \in events_
      /\ index_' \in {"kNew", "kAdded", "kDeleted"} /\ (index_' = "kNew" => index_ = "kNew")
  BY ZenonT(60) DEF startReadInLoop, stopReadInLoop, Update, MishapIf, Mishaps, TypeOK
<1>2. TypeOK'
  BY <1>1, SMTT(60) DEF TypeOK
<1>3. Stream' /\ Starting'
  BY <1>1, Zenon DEF Stream, Starting, WriteDirectly
<1>4. Life'
  BY <1>1, Zenon DEF Life, NoMishap, UpIsOpen, DownIsIdle, HandlesWhatIsUp, RemovedOnce
<1>. QED  BY <1>2, <1>3, <1>4, Zenon

\* A functor of the queue runs.
LEMMA RunFunctorInv ==
  ASSUME IInv, RunFunctor
  PROVE  IInv'
<1>1. CASE SendInLoop
  BY <1>1, SendInLoopInv, Zenon DEF RunFunctor
<1>2. CASE /\ pendingFunctors_' = Tail(pendingFunctors_)
           /\ \/ ConnectEstablished \/ ConnectDestroyed \/ ForceCloseInLoop
              \/ ShutdownInLoop \/ UserCallback
  BY <1>2, ConnectEstablishedInv, ConnectDestroyedInv, ForceCloseInLoopInv, ShutdownInLoopInv, Zenon
     DEF RunFunctor
<1>3. CASE ReadInLoop /\ pendingFunctors_' = Tail(pendingFunctors_)
  <2>1. /\ UNCHANGED <<state_, outputBuffer_, pc, revents_, caller, pointers, inMap, removals,
                       destroyed, delays, sock, written, asked, taken, dropped, closes>>
        /\ startReadInLoop \/ stopReadInLoop
        /\ Takes("startReadInLoop") \/ Takes("stopReadInLoop")
    BY <1>3, Zenon DEF RunFunctor, ReadInLoop, handling, others, server, kernel
  <2>2. /\ state_ # "kConnecting"
        /\ pendingFunctors_' \in Seq(FunctorNames \X (Lens \cup {0}))
        /\ Within(pendingFunctors_, taken, asked)'
        /\ \A i \in 1..Len(pendingFunctors_') : pendingFunctors_'[i][1] # "connectEstablished"
        /\ Leaving => Leaving'
    BY <1>3, <2>1, RunFirst, SMTT(60)
  <2>. QED  BY <2>1, <2>2, ReadsInv, Zenon
<1>. QED  BY <1>1, <1>2, <1>3, Zenon DEF RunFunctor
-----------------------------------------------------------------------------
\* The queue as it was.
LEMMA QueueStays ==
  ASSUME IInv, UNCHANGED <<pendingFunctors_, taken, asked>>, state_ # "kConnecting"
  PROVE  /\ pendingFunctors_' \in Seq(FunctorNames \X (Lens \cup {0}))
         /\ Within(pendingFunctors_, taken, asked)'
         /\ \A i \in 1..Len(pendingFunctors_') : pendingFunctors_'[i][1] # "connectEstablished"
         /\ Leaving => Leaving'
BY Zenon DEF IInv, TypeOK, Starting, Leaving

\* Calls from the loop's thread.
LEMMA SendCallInv ==
  ASSUME IInv, NEW len \in Lens, Send(len)
  PROVE  IInv'
<1>. USE DEF IInv
<1>1. /\ state_ # "kConnecting" /\ asked + len <= MaxBytes /\ asked' = asked + len
      /\ sendInLoop(len, pendingFunctors_)
      /\ UNCHANGED <<state_, reading_, pc, revents_, caller, pointers, inMap, removals,
                     destroyed, delays, sock, closes, mishaps>>
  BY Zenon DEF Send, handling, others, server
<1>2. /\ pendingFunctors_ \in Seq(Functors) /\ taken \in Nat /\ asked \in Nat /\ len \in Nat
      /\ taken <= asked
  BY Types DEF TypeOK
<1>3. Within(pendingFunctors_, taken + len, asked')
  BY <1>1, <1>2, WithinShift, Zenon
<1>4. Within(pendingFunctors_, taken, asked')
  <2>1. PICK sum \in [0..Len(pendingFunctors_) -> 0..(asked + len)] :
          /\ sum[0] >= taken + len
          /\ \A i \in 1..Len(pendingFunctors_) : sum[i] = sum[i - 1] + Weight(pendingFunctors_[i])
    BY <1>1, <1>3, Zenon DEF Within
  <2>2. sum[0] >= taken
    BY <1>2, <2>1, Types, SMTT(60)
  <2>. QED  BY <1>1, <1>2, <2>1, <2>2, Zenon DEF Within
<1>5. /\ asked' \in Nat /\ asked' <= MaxBytes /\ taken + len <= asked' /\ taken <= asked'
  BY <1>1, <1>2
<1>6. /\ \A i \in 1..Len(pendingFunctors_) : pendingFunctors_[i][1] # "connectEstablished"
      /\ Leaving => \E i \in 1..Len(pendingFunctors_) : pendingFunctors_[i][1] = "connectDestroyed"
  BY <1>1, Zenon DEF Starting, Leaving
<1>. QED  BY <1>1, <1>2, <1>3, <1>4, <1>5, <1>6, SendInv, Zenon

\* state_ becomes kDisconnecting, perhaps with a functor behind the others, and
\* the writing half may be closed when nothing waits.
LEMMA DisconnectingInv ==
  ASSUME IInv, state_ # "kConnecting", state_' = "kDisconnecting",
         state_ = "kDisconnected" => mishaps' # {},
         mishaps' \subseteq Mishaps, mishaps \subseteq mishaps',
         UNCHANGED <<reading_, events_, index_, outputBuffer_, pc, revents_, pointers,
                     inMap, removals, destroyed, written, taken, dropped, closes>>,
         delays' \in Nat, caller' \in [Others -> OtherCalls \cup {"none"}],
         asked' \in 0..MaxBytes, asked' >= asked,
         sock' = sock \/ ("write" \notin events_ /\ sock' = [sock EXCEPT !.shut = TRUE]),
         pendingFunctors_' \in Seq(FunctorNames \X (Lens \cup {0})),
         Within(pendingFunctors_, taken, asked)',
         \A i \in 1..Len(pendingFunctors_') : pendingFunctors_'[i][1] # "connectEstablished",
         Leaving => Leaving'
  PROVE  IInv'
<1>. USE DEF IInv
<1>1. /\ sock' \in [in : BOOLEAN, fin : BOOLEAN, rst : BOOLEAN, err : BOOLEAN, shut : BOOLEAN]
      /\ sock'.rst = sock.rst /\ (sock.shut => sock'.shut)
      /\ sock'.shut => sock.shut \/ "write" \notin events_
  BY Types, Zenon
<1>2. TypeOK'
  <2>1. taken' \in 0..asked'
    BY SMTT(60) DEF TypeOK
  <2>. QED  BY <1>1, <2>1, Zenon DEF TypeOK
<1>3. Stream' /\ Starting'
  BY <1>1, Zenon DEF Stream, Starting, WriteDirectly
<1>4. mishaps' = {} => mishaps = {} /\ state_ # "kDisconnected"
  BY Zenon
<1>5. Life'
  BY <1>1, <1>4, Zenon DEF Life, NoMishap, UpIsOpen, DownIsIdle, HandlesWhatIsUp, RemovedOnce
<1>. QED  BY <1>2, <1>3, <1>5, Zenon

\* shutdown() and forceCloseWithDelay() in the loop.
LEMMA ShutdownInv ==
  ASSUME IInv, Shutdown \/ ForceCloseWithDelay
  PROVE  IInv'
<1>. USE DEF IInv
<1>1. /\ state_ \in {"kConnected", "kDisconnecting"} /\ state_' = "kDisconnecting"
      /\ UNCHANGED <<reading_, events_, index_, outputBuffer_, pc, revents_, pointers, caller,
                     pendingFunctors_, inMap, removals, destroyed, written, asked, taken, dropped,
                     closes, mishaps>>
      /\ sock' = sock \/ ("write" \notin events_ /\ sock' = [sock EXCEPT !.shut = TRUE])
      /\ delays' = delays \/ delays' = delays + 1
  <2>1. CASE Shutdown
    BY <2>1, Zenon DEF Shutdown, shutdownInLoop, handling, others, server, history
  <2>2. CASE ForceCloseWithDelay
    BY <2>2, Zenon DEF ForceCloseWithDelay, handling, others, kernel, history
  <2>. QED  BY <2>1, <2>2, Zenon
<1>2. /\ mishaps' \subseteq Mishaps /\ delays' \in Nat /\ asked' \in 0..MaxBytes /\ asked' >= asked
      /\ caller' \in [Others -> OtherCalls \cup {"none"}]
  BY <1>1, SMTT(60) DEF TypeOK
<1>. QED  BY <1>1, <1>2, QueueStays, DisconnectingInv, Zenon

\* A functor without bytes goes behind the others of a connection that has begun.
LEMMA QueueOne ==
  ASSUME IInv, state_ # "kConnecting",
         NEW name \in FunctorNames \ {"sendInLoop", "connectEstablished"},
         pendingFunctors_' = Append(pendingFunctors_, <<name, 0>>), UNCHANGED <<taken, asked>>
  PROVE  /\ pendingFunctors_' \in Seq(FunctorNames \X (Lens \cup {0}))
         /\ Within(pendingFunctors_, taken, asked)'
         /\ \A i \in 1..Len(pendingFunctors_') : pendingFunctors_'[i][1] # "connectEstablished"
         /\ Leaving => Leaving'
         /\ name = "connectDestroyed" => Leaving'
<1>. DEFINE f == <<name, 0>>
<1>1. f \in Functors /\ f[1] = name /\ Weight(f) = 0
  BY Zenon DEF Functors, Weight
<1>2. asked' \in Nat /\ asked' >= asked + Weight(f)
  BY <1>1, Types
<1>. HIDE DEF f
<1>. QED  BY <1>1, <1>2, QueueMore, Zenon DEF f

\* forceClose() in the loop queues forceCloseInLoop().
LEMMA ForceCloseInv ==
  ASSUME IInv, ForceClose
  PROVE  IInv'
<1>. USE DEF IInv
<1>1. /\ state_ \in {"kConnected", "kDisconnecting"} /\ state_' = "kDisconnecting"
      /\ pendingFunctors_' = Append(pendingFunctors_, <<"forceCloseInLoop", 0>>)
      /\ UNCHANGED <<reading_, events_, index_, outputBuffer_, pc, revents_, pointers, caller,
                     inMap, removals, destroyed, delays, sock, written, asked, taken, dropped,
                     closes, mishaps>>
  BY Zenon DEF ForceClose, handling, others, server, kernel, history
<1>2. /\ mishaps' \subseteq Mishaps /\ delays' \in Nat /\ asked' \in 0..MaxBytes /\ asked' >= asked
      /\ caller' \in [Others -> OtherCalls \cup {"none"}]
  BY <1>1 DEF TypeOK
<1>3. "forceCloseInLoop" \in FunctorNames \ {"sendInLoop", "connectEstablished"}
  BY Zenon DEF FunctorNames
<1>4. /\ pendingFunctors_' \in Seq(FunctorNames \X (Lens \cup {0}))
      /\ Within(pendingFunctors_, taken, asked)'
      /\ \A i \in 1..Len(pendingFunctors_') : pendingFunctors_'[i][1] # "connectEstablished"
      /\ Leaving => Leaving'
  BY <1>1, <1>3, QueueOne, Zenon
<1>. QED  BY <1>1, <1>2, <1>4, DisconnectingInv, Zenon

\* The timer of forceCloseWithDelay() has expired.
LEMMA DelayOverInv ==
  ASSUME IInv, DelayOver
  PROVE  IInv'
<1>. USE DEF IInv
<1>1. /\ UNCHANGED <<reading_, events_, index_, outputBuffer_, pc, revents_, pointers, caller,
                     inMap, removals, destroyed, sock, written, asked, taken, dropped,
                     closes, mishaps>>
      /\ delays > 0 /\ delays' = delays - 1
  BY Zenon DEF DelayOver, handling, others, kernel, history
<1>2. /\ mishaps' \subseteq Mishaps /\ delays' \in Nat /\ asked' \in 0..MaxBytes /\ asked' >= asked
      /\ caller' \in [Others -> OtherCalls \cup {"none"}]
  BY <1>1 DEF TypeOK
<1>3. CASE Alive /\ state_ \in {"kConnected", "kDisconnecting"}
  <2>1. /\ state_' = "kDisconnecting"
        /\ pendingFunctors_' = Append(pendingFunctors_, <<"forceCloseInLoop", 0>>)
    BY <1>3, Zenon DEF DelayOver
  <2>2. "forceCloseInLoop" \in FunctorNames \ {"sendInLoop", "connectEstablished"}
    BY Zenon DEF FunctorNames
  <2>3. /\ pendingFunctors_' \in Seq(FunctorNames \X (Lens \cup {0}))
        /\ Within(pendingFunctors_, taken, asked)'
        /\ \A i \in 1..Len(pendingFunctors_') : pendingFunctors_'[i][1] # "connectEstablished"
        /\ Leaving => Leaving'
    BY <1>1, <1>3, <2>1, <2>2, QueueOne, Zenon
  <2>. QED  BY <1>1, <1>2, <1>3, <2>1, <2>3, DisconnectingInv, Zenon
<1>4. CASE ~(Alive /\ state_ \in {"kConnected", "kDisconnecting"})
  <2>1. UNCHANGED <<state_, pendingFunctors_>>
    BY <1>4, Zenon DEF DelayOver
  <2>2. TypeOK'
    BY <1>1, <1>2, <2>1, SMTT(60) DEF TypeOK
  <2>3. Stream' /\ Starting' /\ Within(pendingFunctors_, taken, asked)'
    BY <1>1, <2>1, Zenon DEF Stream, Starting, WriteDirectly
  <2>4. Life'
    BY <1>1, <2>1, Zenon DEF Life, NoMishap, UpIsOpen, DownIsIdle, HandlesWhatIsUp, RemovedOnce, Leaving
  <2>. QED  BY <2>2, <2>3, <2>4, Zenon
<1>. QED  BY <1>3, <1>4, Zenon

\* startRead() and stopRead() in the loop.
LEMMA StartStopReadInv ==
  ASSUME IInv, StartStopRead
  PROVE  IInv'
<1>1. /\ startReadInLoop \/ stopReadInLoop
      /\ state_ # "kConnecting"
      /\ UNCHANGED <<state_, outputBuffer_, pc, revents_, caller, pointers, inMap, removals,
                     destroyed, delays, sock, written, asked, taken, dropped, closes, pendingFunctors_>>
  BY Zenon DEF StartStopRead, InCallback, handling, others, server, kernel
<1>. QED  BY <1>1, QueueStays, ReadsInv, Zenon
-----------------------------------------------------------------------------
\* Calls from other threads: the test, and what follows it.
LEMMA TestStateInv ==
  ASSUME IInv, NEW t \in Others,
         (\E call \in OtherCalls : TestState(t, call)) \/ DropPointer(t)
  PROVE  IInv'
<1>. USE DEF IInv
<1>1. /\ UNCHANGED <<state_, reading_, events_, index_, outputBuffer_, pc, revents_, pendingFunctors_,
                     inMap, removals, destroyed, delays, sock, written, asked, taken, dropped,
                     closes, mishaps>>
      /\ t \in pointers /\ pointers' \subseteq pointers
      /\ caller' \in [Others -> OtherCalls \cup {"none"}]
  BY SMTT(60) DEF TestState, DropPointer, TypeOK, conn, handling, server, kernel, history
<1>2. TypeOK'
  BY <1>1, SMTT(60) DEF TypeOK
<1>3. Stream' /\ Starting' /\ Within(pendingFunctors_, taken, asked)'
  BY <1>1, Zenon DEF Stream, Starting, WriteDirectly
<1>4. Life'
  BY <1>1, Zenon DEF Life, NoMishap, UpIsOpen, DownIsIdle, HandlesWhatIsUp, RemovedOnce, Leaving
<1>. QED  BY <1>2, <1>3, <1>4, Zenon

\* Another thread, past its test of state_, stores the new state and queues the functor.
LEMMA QueueCallInv ==
  ASSUME IInv, NEW t \in Others, NEW len \in Lens, QueueCall(t, len)
  PROVE  IInv'
<1>. USE DEF IInv
<1>. DEFINE f == Functor(caller[t], len)
<1>1. /\ caller[t] # "none" /\ pendingFunctors_' = Append(pendingFunctors_, f)
      /\ asked' = IF caller[t] = "send" THEN asked + len ELSE asked
      /\ asked' <= MaxBytes
      /\ caller' = [caller EXCEPT ![t] = "none"]
      /\ UNCHANGED <<reading_, events_, index_, outputBuffer_, pc, revents_, pointers,
                     inMap, removals, destroyed, delays, sock, written, taken, dropped, closes>>
  BY Zenon DEF QueueCall, handling, server, kernel
<1>2. state_ # "kConnecting"
  BY <1>1, Zenon DEF Starting
<1>3. caller[t] \in {"send", "shutdown", "forceClose", "startRead", "stopRead"}
  BY <1>1, ConnectionAssumption, Zenon DEF TypeOK
<1>4. /\ f \in Functors /\ f[1] # "connectEstablished"
      /\ Weight(f) = IF caller[t] = "send" THEN len ELSE 0
  BY <1>3, Zenon DEF Functor, Functors, FunctorNames, Raw, Weight
<1>5. /\ asked \in Nat /\ len \in Nat /\ asked' \in 0..MaxBytes /\ asked' >= asked
      /\ asked' >= asked + Weight(f)
  <2>1. asked \in Nat /\ len \in Nat /\ MaxBytes \in Nat
    BY Types, Zenon
  <2>2. /\ asked' = IF caller[t] = "send" THEN asked + len ELSE asked
        /\ asked' <= MaxBytes
    BY <1>1, Zenon
  <2>3. /\ asked' \in Nat /\ asked' >= asked /\ asked' \in 0..MaxBytes
        /\ asked' >= asked + (IF caller[t] = "send" THEN len ELSE 0)
    BY <2>1, <2>2
  <2>. QED  BY <1>4, <2>1, <2>3, Zenon
<1>. HIDE DEF f
<1>6. /\ pendingFunctors_' \in Seq(FunctorNames \X (Lens \cup {0}))
      /\ Within(pendingFunctors_, taken, asked)'
      /\ \A i \in 1..Len(pendingFunctors_') : pendingFunctors_'[i][1] # "connectEstablished"
      /\ Leaving => Leaving'
  BY <1>1, <1>2, <1>4, <1>5, QueueMore
<1>7. caller' \in [Others -> OtherCalls \cup {"none"}] /\ delays' \in Nat
  BY <1>1, Zenon DEF TypeOK
<1>8. CASE caller[t] \in {"shutdown", "forceClose"}
  <2>1. /\ state_' = "kDisconnecting"
        /\ mishaps' = IF state_ = "kDisconnected" THEN mishaps \cup {"revived"} ELSE mishaps
    BY <1>8, Zenon DEF QueueCall, MishapIf
  <2>2. /\ mishaps' \subseteq Mishaps /\ mishaps \subseteq mishaps'
        /\ state_ = "kDisconnected" => mishaps' # {}
    BY <2>1, Zenon DEF TypeOK, Mishaps
  <2>. QED  BY <1>1, <1>2, <1>5, <1>6, <1>7, <2>1, <2>2, DisconnectingInv, Zenon
<1>9. CASE caller[t] \notin {"shutdown", "forceClose"}
  <2>1. UNCHANGED <<state_, mishaps>>
    BY <1>9, Zenon DEF QueueCall
  <2>2. TypeOK'
    <3>1. taken' \in 0..asked'
      BY <1>1, <1>5 DEF TypeOK
    <3>2. asked' \in 0..MaxBytes
      BY <1>5, Zenon
    <3>3. /\ UNCHANGED <<state_, reading_, events_, index_, outputBuffer_, pc, revents_, pointers,
                         inMap, removals, destroyed, sock, written, dropped, closes, mishaps>>
          /\ pendingFunctors_' \in Seq(FunctorNames \X (Lens \cup {0}))
      BY <1>1, <1>6, <2>1, Zenon
    <3>. QED  BY <1>7, <3>1, <3>2, <3>3 DEF TypeOK
  <2>3. Stream' /\ Starting'
    BY <1>1, <1>2, <1>6, <2>1, Zenon DEF Stream, Starting, WriteDirectly
  <2>4. Life'
    BY <1>1, <1>6, <2>1, ZenonT(60) DEF Life, NoMishap, UpIsOpen, DownIsIdle, HandlesWhatIsUp, RemovedOnce
  <2>. QED  BY <1>6, <2>2, <2>3, <2>4, Zenon
<1>. QED  BY <1>8, <1>9, Zenon
-----------------------------------------------------------------------------
\* The server takes the connection out of its map, and connectDestroyed() is
\* queued.
LEMMA RemoveInv ==
  ASSUME IInv, RemoveConnectionInLoop \/ ServerDestructor
  PROVE  IInv'
<1>. USE DEF IInv
<1>. DEFINE f == <<"connectDestroyed", 0>>
<1>1. /\ pendingFunctors_' = Append(pendingFunctors_, f) /\ inMap' = FALSE
      /\ \/ removals > 0 /\ removals' = removals - 1 /\ destroyed' = destroyed /\ mishaps' = mishaps
         \/ /\ inMap /\ removals' = removals /\ destroyed' = TRUE
            /\ mishaps' = IF removals > 0 THEN mishaps \cup {"deadServer"} ELSE mishaps
      /\ UNCHANGED <<state_, reading_, events_, index_, outputBuffer_, pc, revents_, pointers, caller,
                     delays, sock, written, asked, taken, dropped, closes>>
  BY Zenon DEF RemoveConnectionInLoop, ServerDestructor, MishapIf, conn, handling, others, kernel, history
<1>2. f \in Functors /\ f[1] = "connectDestroyed" /\ Weight(f) = 0
  BY Zenon DEF Functors, FunctorNames, Weight
<1>3. asked' \in Nat /\ asked' >= asked + Weight(f)
  BY <1>1, <1>2, Types, SMTT(60)
<1>. HIDE DEF f
<1>4. /\ pendingFunctors_' \in Seq(FunctorNames \X (Lens \cup {0}))
      /\ Within(pendingFunctors_, taken, asked)'
      /\ \A i \in 1..Len(pendingFunctors_') :
           pendingFunctors_'[i][1] = "connectEstablished" => i = 1 /\ state_ = "kConnecting"
      /\ state_ = "kConnecting" => pendingFunctors_' # << >> /\ pendingFunctors_'[1] = pendingFunctors_[1]
      /\ Leaving'
  BY <1>1, <1>2, <1>3, QueueMore, Zenon
<1>5. /\ removals' \in Nat /\ destroyed' \in BOOLEAN /\ mishaps' \subseteq Mishaps
      /\ mishaps' = {} => mishaps = {}
  <2>1. removals' \in Nat
    BY <1>1, Types
  <2>2. destroyed' \in BOOLEAN
    BY <1>1, Zenon DEF TypeOK
  <2>3. mishaps' \subseteq Mishaps /\ (mishaps' = {} => mishaps = {})
    BY <1>1, ZenonT(60) DEF TypeOK, Mishaps
  <2>. QED  BY <2>1, <2>2, <2>3, Zenon
<1>6. TypeOK'
  <2>1. inMap' \in BOOLEAN
    BY <1>1, ZenonT(60)
  <2>. QED  BY <1>1, <1>4, <1>5, <2>1 DEF TypeOK
<1>7. Stream' /\ Starting'
  BY <1>1, <1>4, ZenonT(60) DEF Stream, Starting, WriteDirectly
<1>8. Life'
  <2>. SUFFICES ASSUME NoMishap', NoMishap
                PROVE  (UpIsOpen /\ DownIsIdle /\ HandlesWhatIsUp /\ RemovedOnce)'
    BY <1>5, Zenon DEF Life, NoMishap
  <2>1. removals' = 0 /\ (destroyed' \/ state_ = "kDisconnected")
    <3>1. CASE removals > 0 /\ removals' = removals - 1
      BY <3>1, Types DEF Life, UpIsOpen, RemovedOnce
    <3>2. CASE removals' = removals /\ destroyed' = TRUE /\ ~(removals > 0)
      BY <3>2, Types
    <3>. QED  BY <1>1, <3>1, <3>2, Zenon DEF NoMishap
  <2>. QED  BY <1>1, <1>4, <2>1, Types
            DEF Life, UpIsOpen, DownIsIdle, HandlesWhatIsUp, RemovedOnce
<1>. QED  BY <1>4, <1>6, <1>7, <1>8, Zenon

\* IInv is inductive: one step per action.
LEMMA Inductive == Spec => []IInv
<1>1. Init => IInv
  BY InitInv, Zenon
<1>2. IInv /\ [Next]_vars => IInv'
  <2>. SUFFICES ASSUME IInv, [Next]_vars PROVE IInv'
    BY Zenon
  <2>1. CASE Kernel
    BY <2>1, KernelInv, Zenon
  <2>2. CASE \E out \in BOOLEAN : Poll(out)
    BY <2>2, PollInv, Zenon
  <2>3. CASE HandleEvent
    BY <2>3, HandleHupInv, HandleReadInv, HandleWriteInv, NoWriteInv, Zenon DEF HandleEvent
  <2>4. CASE RunFunctor \/ DelayOver
    BY <2>4, RunFunctorInv, DelayOverInv, Zenon
  <2>5. CASE LoopCalls
    BY <2>5, SendCallInv, ShutdownInv, ForceCloseInv, StartStopReadInv, Zenon DEF LoopCalls
  <2>6. CASE OtherThreads
    BY <2>6, TestStateInv, QueueCallInv, Zenon DEF OtherThreads
  <2>7. CASE RemoveConnectionInLoop \/ ServerDestructor
    BY <2>7, RemoveInv, Zenon
  <2>8. CASE UNCHANGED vars
    <3>1. UNCHANGED <<state_, reading_, events_, index_, outputBuffer_, pc, revents_, pendingFunctors_,
                      caller, pointers, inMap, removals, destroyed, delays, sock, written, asked, taken,
                      dropped, closes, mishaps>>
      BY <2>8, ZenonT(60) DEF vars, conn, handling, others, server, kernel, history
    <3>2. TypeOK'
      BY <3>1 DEF IInv, TypeOK
    <3>3. Stream' /\ Starting' /\ Within(pendingFunctors_, taken, asked)'
      BY <3>1, ZenonT(60) DEF IInv, Stream, Starting, WriteDirectly
    <3>4. Life'
      BY <3>1, Zenon DEF IInv, Life, NoMishap, UpIsOpen, DownIsIdle, HandlesWhatIsUp, RemovedOnce, Leaving
    <3>. QED  BY <3>2, <3>3, <3>4, Zenon DEF IInv
  <2>. QED  BY <2>1, <2>2, <2>3, <2>4, <2>5, <2>6, <2>7, <2>8, Zenon DEF Next
<1>. QED  BY <1>1, <1>2, PTL DEF Spec
-----------------------------------------------------------------------------
\* Whatever threads send, the kernel gets the bytes that sendInLoop() has taken
\* in order and each once, and none is lost while the connection has not failed.
THEOREM BytesInOrder == Spec => []StreamIntact
<1>1. IInv => StreamIntact
  <2>. SUFFICES ASSUME IInv PROVE StreamIntact
    BY Zenon
  <2>. DEFINE all == written \o outputBuffer_
  <2>1. /\ written \in Seq(Nat) /\ outputBuffer_ \in Seq(Nat)
        /\ Len(written) \in Nat /\ Len(outputBuffer_) \in Nat
    BY Types
  <2>2. Len(all) = Len(written) + Len(outputBuffer_) /\ DOMAIN all = 1..Len(all)
    BY <2>1
  <2>3. ASSUME NEW i \in 1..Len(all) PROVE all[i] = i
    <3>1. all[i] = IF i <= Len(written) THEN written[i] ELSE outputBuffer_[i - Len(written)]
      BY <2>1, <2>2, SeqConcat, Zenon
    <3>2. CASE i <= Len(written)
      BY <2>1, <2>2, <3>1, <3>2 DEF IInv, Stream, Consecutive
    <3>3. CASE ~(i <= Len(written))
      <4>1. i - Len(written) \in 1..Len(outputBuffer_) /\ Len(written) + (i - Len(written)) = i
        BY <2>1, <2>2, <3>3
      <4>2. outputBuffer_[i - Len(written)] = Len(written) + (i - Len(written))
        BY <4>1, Zenon DEF IInv, Stream, Consecutive
      <4>. QED  BY <3>1, <3>3, <4>1, <4>2, Zenon
    <3>. QED  BY <3>2, <3>3, Zenon
  <2>4. ~dropped => Len(all) = taken
    BY <2>2, Zenon DEF IInv, Stream
  <2>. QED  BY <2>2, <2>3, <2>4, Zenon DEF StreamIntact
<1>. QED  BY <1>1, Inductive, PTL

\* While a connection is up, POLLOUT is asked for exactly when bytes wait.
THEOREM InterestMatchesBytes == Spec => []WritesWhatWaits
<1>1. IInv => WritesWhatWaits
  BY Zenon DEF IInv, Life, UpIsOpen, WritesWhatWaits
<1>. QED  BY <1>1, Inductive, PTL

\* shutdown() never cuts off bytes that send() has put into the output buffer.
THEOREM ShutdownAfterData == Spec => []ShutAfterData
<1>1. IInv => ShutAfterData
  BY Zenon DEF IInv, Life, UpIsOpen, ShutAfterData
<1>. QED  BY <1>1, Inductive, PTL

\* handleClose() and the removal from the server's map happen once, and the
\* last pointer leaves a connection that is closed and out of the poller, as
\* long as none of the mishaps has happened.
THEOREM ConnectionEndsOnce == Spec => []EndsOnceAndClean
<1>1. IInv => EndsOnceAndClean
  <2>. SUFFICES ASSUME IInv PROVE EndsOnceAndClean
    BY Zenon
  <2>1. ClosedOnce
    BY Zenon DEF IInv, Life, RemovedOnce, ClosedOnce
  <2>2. DestroyedClean
    <3>. SUFFICES ASSUME ~Alive, NoMishap
                  PROVE  state_ = "kDisconnected" /\ index_ = "kNew" /\ events_ = {}
      BY Zenon DEF DestroyedClean
    <3>1. ~Leaving
      <4>. SUFFICES ASSUME NEW i \in 1..Len(pendingFunctors_),
                           pendingFunctors_[i][1] = "connectDestroyed"
                    PROVE  FALSE
        BY Zenon DEF Leaving
      <4>1. pendingFunctors_[i] \in Range(pendingFunctors_)
        BY Types DEF Range
      <4>. QED  BY <4>1, Zenon DEF Alive, Raw
    <3>2. ~inMap
      BY Zenon DEF Alive
    <3>. QED  BY <3>1, <3>2, Zenon DEF IInv, Life, RemovedOnce, DownIsIdle
  <2>. QED  BY <2>1, <2>2, Zenon DEF IInv, EndsOnceAndClean
<1>. QED  BY <1>1, Inductive, PTL
=============================================================================
