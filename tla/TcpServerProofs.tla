-------------------------- MODULE TcpServerProofs ---------------------------
(***************************************************************************)
(* Proofs about TcpServer.tla for any number of IO threads, descriptors    *)
(* and connections.                                                        *)
(***************************************************************************)
EXTENDS TcpServer, FiniteSetTheorems, TLAPS

Kinds == {"connectEstablished", "forceCloseInLoop", "connectDestroyed", "remove"}
Functors == Kinds \X Ids
States == {"kConnecting", "kConnected", "kDisconnecting", "kDisconnected"}

\* The functor <<k, c>> waits in loop l.
Has(l, k, c) == \E i \in 1..Len(functors[l]) : functors[l][i] = <<k, c>>

Types ==
  /\ numThreads_ \in Nat /\ next_ \in Nat /\ idleFd_ \in BOOLEAN /\ got \in BOOLEAN
  /\ nextConnId_ \in 1..(MaxConns + 1) /\ connections_ \subseteq Ids
  /\ functors \in [Loops -> Seq(Functors)]
  /\ io \in [IoLoops -> [phase : {"none", "events", "functors", "exited"}, batch : Nat, quit : BOOLEAN]]
  /\ conns \in [Ids -> [state_ : States, loop : Loops]]
  /\ caller = NoCall \/ caller \in [call : {"shutdown", "forceClose"}, conn : Ids]
  /\ external \in Nat /\ backlog \in Nat /\ arrived \in 0..MaxConns
  /\ mishaps \subseteq Mishaps

\* Every connection made came from a client of its own, a loop has at least its
\* batch, handleRead() works for a server that is up, threads are joined after the
\* destructor's body, and next_ is an index of loops_.
Counts ==
  /\ nextConnId_ + backlog <= arrived + 1
  /\ \A l \in IoLoops : io[l].batch <= Len(functors[l])
  /\ pc = "join" => server # "up"
  /\ pc \in {"accept", "drop", "reopen"} => server = "up"
  /\ numThreads_ > 0 => next_ \in 0..(numThreads_ - 1)

\* The functors that wait are about connections that were made, in the loops
\* where they belong, and connectEstablished() comes once, first, and not in the
\* base loop.
Names ==
  \A l \in Loops, c \in Ids :
    /\ \A k \in Kinds : Has(l, k, c) => Made(c) /\ l = IF k = "remove" THEN 0 ELSE conns[c].loop
    /\ Has(l, "connectEstablished", c) => l # 0 /\ conns[c].state_ = "kConnecting"
    /\ \A i, j \in 1..Len(functors[l]) :
         /\ functors[l][i] = <<"connectEstablished", c>>
         /\ functors[l][j] \in {<<"connectEstablished", c>>, <<"connectDestroyed", c>>}
         => i <= j

\* The map has connections that were made, and the other thread one that was
\* established.
Known ==
  /\ \A c \in Ids : c \in connections_ => Made(c)
  /\ \A c \in Ids : caller.conn = c => Made(c) /\ conns[c].state_ # "kConnecting"

\* The map, while the server is up and no closed connection was revived.
Mapped ==
  server = "up" /\ "revived" \notin mishaps =>
    \A c \in Ids :
      /\ Made(c) => (c \in connections_ <=> conns[c].state_ # "kDisconnected" \/ Has(0, "remove", c))
      /\ Has(0, "remove", c) => conns[c].state_ = "kDisconnected"
      /\ \A l \in Loops : Has(l, "connectDestroyed", c) =>
           conns[c].state_ = "kDisconnected" /\ c \notin connections_
      /\ \A i, j \in 1..Len(functors[0]) :
           functors[0][i] = <<"remove", c>> /\ functors[0][j] = <<"remove", c>> => i = j

\* What is still to happen to a connection waits in its loop.
Held ==
  Unharmed => \A c \in Ids : Made(c) =>
    /\ conns[c].state_ = "kConnecting" => Has(conns[c].loop, "connectEstablished", c)
    /\ server # "up" /\ conns[c].state_ # "kDisconnected" => Has(conns[c].loop, "connectDestroyed", c)

\* The order among the connections, their functors and the map.
Order == Types /\ Counts /\ Names /\ Known /\ Mapped /\ Held

\* A step that lets nobody hold a descriptor or a connection anew, and gives no
\* connection another loop.
Calm ==
  /\ UNCHANGED <<numThreads_, next_, nextConnId_, external, idleFd_, got>>
  /\ \A c \in Ids : conns'[c].loop = conns[c].loop
  /\ \A c \in Ids : Refs(c)' => Refs(c)
-----------------------------------------------------------------------------
\* The indices of a sequence.
LEMMA SeqLen ==
  ASSUME NEW S, NEW s \in Seq(S)
  PROVE  Len(s) \in Nat /\ DOMAIN s = 1..Len(s) /\ \A i \in 1..Len(s) : s[i] \in S
OBVIOUS

\* One more behind a sequence.
LEMMA SeqAppend ==
  ASSUME NEW S, NEW s \in Seq(S), NEW e \in S
  PROVE  /\ Append(s, e) \in Seq(S) /\ Len(Append(s, e)) = Len(s) + 1
         /\ Append(s, e)[Len(s) + 1] = e
         /\ \A i \in 1..Len(s) : Append(s, e)[i] = s[i]
OBVIOUS

\* A sequence without its first.
LEMMA SeqTail ==
  ASSUME NEW S, NEW s \in Seq(S), s # << >>
  PROVE  /\ Tail(s) \in Seq(S) /\ Len(Tail(s)) = Len(s) - 1 /\ Len(s) >= 1
         /\ \A i \in 1..(Len(s) - 1) : Tail(s)[i] = s[i + 1]
OBVIOUS

\* The constants.
LEMMA Given ==
  /\ MaxConns \in Nat /\ FdLimit \in Nat
  /\ \A c \in Ids : c \in Nat /\ c >= 1 /\ c <= MaxConns
BY ServerAssumption DEF Ids

\* The types of one loop's functors.
LEMMA LoopTypes ==
  ASSUME Types, NEW l \in Loops
  PROVE  /\ functors[l] \in Seq(Functors) /\ Len(functors[l]) \in Nat
         /\ \A i \in 1..Len(functors[l]) : functors[l][i] \in Functors
BY SeqLen, Zenon DEF Types

\* A functor is a kind and a connection.
LEMMA FunctorParts ==
  ASSUME NEW f \in Functors
  PROVE  f[1] \in Kinds /\ f[2] \in Ids /\ f = <<f[1], f[2]>>
BY DEF Functors

\* Loop 0 is there, and the others are the IO loops.
LEMMA LoopNumbers ==
  ASSUME numThreads_ \in Nat
  PROVE  /\ 0 \in Loops
         /\ \A l \in IoLoops : l \in Loops /\ l # 0 /\ l \in Nat
         /\ \A l \in Loops : l \in Nat /\ (l = 0 \/ l \in IoLoops)
         /\ numThreads_ = 0 => \A l \in Loops : l = 0
BY DEF Loops, IoLoops

\* Who holds a connection.
LEMMA WhoHolds ==
  ASSUME Types, NEW c \in Ids
  PROVE  Refs(c) <=> c \in connections_ \/ caller.conn = c \/ \E l \in Loops, k \in Kinds : Has(l, k, c)
<1>1. ASSUME NEW l \in Loops, NEW f \in Range(functors[l]), f[2] = c
      PROVE  \E k \in Kinds : Has(l, k, c)
  <2>1. PICK i \in DOMAIN functors[l] : f = functors[l][i]
    BY Zenon DEF Range
  <2>2. i \in 1..Len(functors[l]) /\ f \in Functors
    BY <2>1, LoopTypes
  <2>3. f[1] \in Kinds /\ f = <<f[1], c>>
    BY <1>1, <2>2, FunctorParts, Zenon
  <2>. QED  BY <2>1, <2>2, <2>3, Zenon DEF Has
<1>2. ASSUME NEW l \in Loops, NEW k \in Kinds, Has(l, k, c)
      PROVE  \E f \in Range(functors[l]) : f[2] = c
  <2>1. PICK i \in 1..Len(functors[l]) : functors[l][i] = <<k, c>>
    BY <1>2, Zenon DEF Has
  <2>2. i \in DOMAIN functors[l]
    BY LoopTypes
  <2>. QED  BY <2>1, <2>2 DEF Range
<1>. QED  BY <1>1, <1>2, Zenon DEF Refs

\* The same after a step.
LEMMA WhoHoldsThen ==
  ASSUME Types', UNCHANGED numThreads_, NEW c \in Ids, Refs(c)'
  PROVE  c \in connections_' \/ caller'.conn = c \/ \E l \in Loops, k \in Kinds : Has(l, k, c)'
<1>1. CASE c \in connections_' \/ caller'.conn = c
  BY <1>1, Zenon
<1>2. ASSUME NEW l \in Loops, NEW f \in Range(functors'[l]), f[2] = c
      PROVE  \E k \in Kinds : Has(l, k, c)'
  <2>1. PICK i \in DOMAIN functors'[l] : f = functors'[l][i]
    BY Zenon DEF Range
  <2>2. functors'[l] \in Seq(Functors)
    BY Zenon DEF Types, Loops
  <2>3. i \in 1..Len(functors'[l]) /\ f \in Functors
    BY <2>1, <2>2, SeqLen, Zenon
  <2>4. f[1] \in Kinds /\ f = <<f[1], c>>
    BY <1>2, <2>3, FunctorParts, Zenon
  <2>. QED  BY <2>1, <2>3, <2>4, Zenon DEF Has
<1>. QED  BY <1>1, <1>2, Zenon DEF Refs, Loops

\* The order stays as it is while the connections, the map and the functors do.
LEMMA Alike ==
  ASSUME Order, UNCHANGED <<numThreads_, nextConnId_, connections_, functors, conns>>,
         server' = server \/ (server # "up" /\ server' # "up"), mishaps \subseteq mishaps'
  PROVE  Names' /\ Mapped' /\ Held'
<1>1. Names'
  BY SMTT(60) DEF Order, Names, Has, Made, Loops
<1>2. Mapped'
  BY ZenonT(60) DEF Order, Mapped, Has, Made, Loops
<1>3. Held'
  BY Zenon DEF Order, Held, Has, Made, Unharmed
<1>. QED  BY <1>1, <1>2, <1>3, Zenon

\* A step that makes no connection kConnecting anew, while the other thread stays
\* where it is or is done with its call.
LEMMA KnownKept ==
  ASSUME Known, caller' = caller \/ caller' = NoCall, connections_' \subseteq connections_,
         \A c \in Ids : Made(c) => Made(c)',
         \A c \in Ids : conns'[c].state_ = "kConnecting" => conns[c].state_ = "kConnecting"
  PROVE  Known'
<1>1. \A c \in Ids : c # 0
  BY Given
<1>2. NoCall.conn = 0
  BY DEF NoCall
<1>3. \A c \in Ids : caller'.conn = c => caller.conn = c
  BY <1>1, <1>2, Zenon
<1>. QED  BY <1>3, Zenon DEF Known

\* A step that leaves the connections, the map and the functors alone.
LEMMA Still ==
  ASSUME Order, UNCHANGED <<numThreads_, nextConnId_, connections_, functors, conns, caller>>,
         server' = server \/ (server # "up" /\ server' # "up"), mishaps \subseteq mishaps',
         Types', Counts'
  PROVE  Order' /\ \A c \in Ids : Refs(c)' => Refs(c)
<1>1. \A c \in Ids : Refs(c)' => Refs(c)
  BY Zenon DEF Refs, Loops
<1>2. Names' /\ Mapped' /\ Held'
  BY Alike, Zenon
<1>3. Known'
  BY Zenon DEF Order, Known, Made
<1>. QED  BY <1>1, <1>2, <1>3, Zenon DEF Order
-----------------------------------------------------------------------------
(***************************************************************************)
(* How functors move.                                                      *)
(***************************************************************************)
\* How the functors move in a step: loop p loses its first, and each loop gets
\* those of new behind the ones it has.
Gone(l, p) == IF l = p THEN 1 ELSE 0

Carries(p, new) ==
  /\ functors' \in [Loops -> Seq(Functors)]
  /\ \A l \in Loops :
       /\ Gone(l, p) <= Len(functors[l])
       /\ Len(functors'[l]) >= Len(functors[l]) - Gone(l, p)
       /\ \A i \in 1..(Len(functors[l]) - Gone(l, p)) : functors'[l][i] = functors[l][i + Gone(l, p)]
       /\ \A i \in 1..Len(functors'[l]) :
            i > Len(functors[l]) - Gone(l, p) => functors'[l][i] \in new[l]
       /\ \A e \in new[l] : \E i \in 1..Len(functors'[l]) : functors'[l][i] = e
       /\ \A i, j \in 1..Len(functors'[l]) :
            /\ i > Len(functors[l]) - Gone(l, p) /\ j > Len(functors[l]) - Gone(l, p)
            /\ functors'[l][i] = functors'[l][j]
            => i = j

\* What waits after a step waited before or is new, and what waited still does
\* unless it was the first of loop p.
LEMMA CarriedHas ==
  ASSUME Types, NEW p, NEW new, Carries(p, new), NEW l \in Loops, NEW k, NEW c
  PROVE  /\ Has(l, k, c)' => Has(l, k, c) \/ <<k, c>> \in new[l]
         /\ <<k, c>> \in new[l] => Has(l, k, c)'
         /\ Has(l, k, c) => Has(l, k, c)' \/ (l = p /\ functors[l][1] = <<k, c>>)
<1>. DEFINE g == Gone(l, p)
            n == Len(functors[l])
            m == Len(functors'[l])
<1>1. /\ g \in 0..1 /\ g <= n /\ m >= n - g /\ n \in Nat
      /\ \A i \in 1..(n - g) : functors'[l][i] = functors[l][i + g]
      /\ \A i \in 1..m : i > n - g => functors'[l][i] \in new[l]
      /\ \A e \in new[l] : \E i \in 1..m : functors'[l][i] = e
      /\ g = 1 => l = p
  <2>1. n \in Nat /\ g \in 0..1 /\ (g = 1 => l = p)
    BY LoopTypes DEF Gone
  <2>. QED  BY <2>1, Zenon DEF Carries
<1>2. m \in Nat
  BY SeqLen, Zenon DEF Carries
<1>. HIDE DEF g, n, m
<1>3. ASSUME NEW i \in 1..m, functors'[l][i] = <<k, c>>
      PROVE  (\E j \in 1..n : functors[l][j] = <<k, c>>) \/ <<k, c>> \in new[l]
  <2>1. CASE i > n - g
    BY <1>1, <1>3, <2>1, Zenon
  <2>2. CASE i <= n - g
    <3>1. i + g \in 1..n /\ i \in 1..(n - g)
      BY <1>1, <2>2
    <3>. QED  BY <1>1, <1>3, <3>1, Zenon
  <2>. QED  BY <1>1, <1>2, <2>1, <2>2
<1>4. ASSUME NEW i \in 1..n, functors[l][i] = <<k, c>>
      PROVE  (\E j \in 1..m : functors'[l][j] = <<k, c>>) \/ (l = p /\ functors[l][1] = <<k, c>>)
  <2>1. CASE i = 1 /\ g = 1
    BY <1>1, <1>4, <2>1, Zenon
  <2>2. CASE i # 1 \/ g = 0
    <3>1. i - g \in 1..(n - g) /\ i - g \in 1..m /\ (i - g) + g = i
      BY <1>1, <1>2, <2>2
    <3>. QED  BY <1>1, <1>4, <3>1, ZenonT(60)
  <2>. QED  BY <1>1, <2>1, <2>2
<1>. QED  BY <1>1, <1>3, <1>4, Zenon DEF Has, n, m

\* Nothing moves.
LEMMA CarriesNothing ==
  ASSUME Types, functors' = functors
  PROVE  Carries(-1, [l \in Loops |-> {}])
<1>. SUFFICES ASSUME NEW l \in Loops
              PROVE  /\ Gone(l, -1) = 0 /\ Len(functors[l]) \in Nat
  BY DEF Carries, Types
<1>. QED  BY LoopTypes, LoopNumbers DEF Gone, Types

\* One functor behind the others of a loop.
LEMMA CarriesPushed ==
  ASSUME Types, NEW m \in Loops, NEW f \in Functors, functors' = Push(functors, m, f)
  PROVE  Carries(-1, [l \in Loops |-> IF l = m THEN {f} ELSE {}])
<1>1. functors' = [functors EXCEPT ![m] = Append(functors[m], f)]
  BY Zenon DEF Push
<1>2. functors' \in [Loops -> Seq(Functors)]
  BY <1>1 DEF Types
<1>3. ASSUME NEW l \in Loops PROVE Gone(l, -1) = 0 /\ functors[l] \in Seq(Functors) /\ Len(functors[l]) \in Nat
  BY LoopTypes, LoopNumbers DEF Gone, Types
<1>4. \A l \in Loops : l # m => functors'[l] = functors[l]
  BY <1>1, Zenon DEF Types
<1>5. /\ Len(functors'[m]) = Len(functors[m]) + 1
      /\ \A i \in 1..Len(functors[m]) : functors'[m][i] = functors[m][i]
      /\ functors'[m][Len(functors[m]) + 1] = f
  <2>1. functors'[m] = Append(functors[m], f)
    BY <1>1, Zenon DEF Types
  <2>. QED  BY <1>3, <2>1
<1>. DEFINE new == [l \in Loops |-> IF l = m THEN {f} ELSE {}]
<1>6. ASSUME NEW l \in Loops
      PROVE  /\ Len(functors'[l]) >= Len(functors[l])
             /\ \A i \in 1..Len(functors[l]) : functors'[l][i] = functors[l][i]
             /\ \A i \in 1..Len(functors'[l]) : i > Len(functors[l]) => functors'[l][i] \in new[l]
             /\ \A e \in new[l] : \E i \in 1..Len(functors'[l]) : functors'[l][i] = e
             /\ \A i, j \in 1..Len(functors'[l]) : i > Len(functors[l]) /\ j > Len(functors[l]) => i = j
  <2>1. CASE l = m
    <3>1. new[l] = {f}
      BY <2>1, Zenon
    <3>. QED  BY <1>3, <1>5, <2>1, <3>1, SMTT(60)
  <2>2. CASE l # m
    <3>1. new[l] = {} /\ functors'[l] = functors[l]
      BY <1>4, <2>2, Zenon
    <3>. QED  BY <1>3, <3>1
  <2>. QED  BY <2>1, <2>2, Zenon
<1>. HIDE DEF new
<1>7. Carries(-1, new)
  BY <1>2, <1>3, <1>6 DEF Carries
<1>. QED  BY <1>7, Zenon DEF new

\* The first functor of a loop goes.
LEMMA CarriesPopped ==
  ASSUME Types, NEW p \in Loops, functors[p] # << >>, functors' = [functors EXCEPT ![p] = Tail(@)]
  PROVE  Carries(p, [l \in Loops |-> {}])
<1>1. functors[p] \in Seq(Functors) /\ Len(functors[p]) \in Nat /\ Len(functors[p]) > 0
  BY LoopTypes
<1>2. functors' \in [Loops -> Seq(Functors)] /\ functors'[p] = Tail(functors[p])
  BY <1>1 DEF Types
<1>3. \A l \in Loops : l # p => functors'[l] = functors[l]
  BY Zenon DEF Types
<1>4. /\ Len(functors'[p]) = Len(functors[p]) - 1
      /\ \A i \in 1..(Len(functors[p]) - 1) : functors'[p][i] = functors[p][i + 1]
  BY <1>1, <1>2
<1>. SUFFICES ASSUME NEW l \in Loops
              PROVE  /\ Gone(l, p) <= Len(functors[l])
                     /\ Len(functors'[l]) = Len(functors[l]) - Gone(l, p) /\ Len(functors'[l]) \in Nat
                     /\ \A i \in 1..(Len(functors[l]) - Gone(l, p)) : functors'[l][i] = functors[l][i + Gone(l, p)]
  BY <1>2 DEF Carries
<1>5. CASE l = p
  BY <1>1, <1>4, <1>5 DEF Gone
<1>6. CASE l # p
  BY <1>3, <1>6, LoopTypes DEF Gone
<1>. QED  BY <1>5, <1>6, Zenon

\* Behind what is left of the functors, the functor f comes in loop m.
LEMMA CarriesBehind ==
  ASSUME Types, NEW p, NEW q \in [Loops -> Seq(Functors)], NEW m \in Loops, NEW f \in Functors,
         \A l \in Loops :
           /\ Gone(l, p) <= Len(functors[l]) /\ Len(q[l]) = Len(functors[l]) - Gone(l, p)
           /\ \A i \in 1..(Len(functors[l]) - Gone(l, p)) : q[l][i] = functors[l][i + Gone(l, p)],
         functors' = Push(q, m, f)
  PROVE  Carries(p, [l \in Loops |-> IF l = m THEN {f} ELSE {}])
<1>. DEFINE new == [l \in Loops |-> IF l = m THEN {f} ELSE {}]
<1>1. functors' = [l \in Loops |-> IF l = m THEN Append(q[l], f) ELSE q[l]]
  BY Zenon DEF Push
<1>2. functors' \in [Loops -> Seq(Functors)]
  BY <1>1
<1>3. ASSUME NEW l \in Loops
      PROVE  /\ Len(functors'[l]) >= Len(q[l])
             /\ \A i \in 1..Len(q[l]) : functors'[l][i] = q[l][i]
             /\ \A i \in 1..Len(functors'[l]) : i > Len(q[l]) => functors'[l][i] \in new[l]
             /\ \A e \in new[l] : \E i \in 1..Len(functors'[l]) : functors'[l][i] = e
             /\ \A i, j \in 1..Len(functors'[l]) : i > Len(q[l]) /\ j > Len(q[l]) => i = j
  <2>0. q[l] \in Seq(Functors) /\ Len(q[l]) \in Nat
    BY SeqLen, Zenon
  <2>1. CASE l = m
    <3>1. functors'[l] = Append(q[l], f) /\ new[l] = {f}
      BY <1>1, <2>1, Zenon
    <3>2. /\ Len(functors'[l]) = Len(q[l]) + 1 /\ functors'[l][Len(q[l]) + 1] = f
          /\ \A i \in 1..Len(q[l]) : functors'[l][i] = q[l][i]
      BY <2>0, <3>1, SeqAppend
    <3>. QED  BY <2>0, <3>1, <3>2
  <2>2. CASE l # m
    <3>1. functors'[l] = q[l] /\ new[l] = {}
      BY <1>1, <2>2, Zenon
    <3>. QED  BY <2>0, <3>1
  <2>. QED  BY <2>1, <2>2, Zenon
<1>. HIDE DEF new
<1>4. Carries(p, new)
  BY <1>2, <1>3 DEF Carries
<1>. QED  BY <1>4, Zenon DEF new

\* The first functor of loop p goes, and one comes behind the others of loop m.
LEMMA CarriesBoth ==
  ASSUME Types, NEW p \in Loops, functors[p] # << >>, NEW m \in Loops, NEW f \in Functors,
         functors' = Push([functors EXCEPT ![p] = Tail(@)], m, f)
  PROVE  Carries(p, [l \in Loops |-> IF l = m THEN {f} ELSE {}])
<1>1. ASSUME NEW q, q = [functors EXCEPT ![p] = Tail(@)]
      PROVE  /\ q \in [Loops -> Seq(Functors)]
             /\ \A l \in Loops :
                  /\ Gone(l, p) <= Len(functors[l]) /\ Len(q[l]) = Len(functors[l]) - Gone(l, p)
                  /\ \A i \in 1..(Len(functors[l]) - Gone(l, p)) : q[l][i] = functors[l][i + Gone(l, p)]
  <2>1. functors[p] \in Seq(Functors)
    BY LoopTypes, Zenon
  <2>2. /\ Tail(functors[p]) \in Seq(Functors) /\ Len(Tail(functors[p])) = Len(functors[p]) - 1
        /\ Len(functors[p]) >= 1
        /\ \A i \in 1..(Len(functors[p]) - 1) : Tail(functors[p])[i] = functors[p][i + 1]
    BY <2>1
  <2>3. q \in [Loops -> Seq(Functors)] /\ q[p] = Tail(functors[p])
    BY <1>1, <2>2, Zenon DEF Types
  <2>4. \A l \in Loops : l # p => q[l] = functors[l]
    BY <1>1, Zenon DEF Types
  <2>5. ASSUME NEW l \in Loops
        PROVE  /\ Gone(l, p) <= Len(functors[l]) /\ Len(q[l]) = Len(functors[l]) - Gone(l, p)
               /\ \A i \in 1..(Len(functors[l]) - Gone(l, p)) : q[l][i] = functors[l][i + Gone(l, p)]
    <3>1. CASE l = p
      BY <2>2, <2>3, <3>1, Zenon DEF Gone
    <3>2. CASE l # p
      BY <2>4, <3>2, LoopTypes DEF Gone
    <3>. QED  BY <3>1, <3>2, Zenon
  <2>. QED  BY <2>3, <2>5, Zenon
<1>. DEFINE r == [functors EXCEPT ![p] = Tail(@)]
<1>2. /\ r \in [Loops -> Seq(Functors)]
      /\ \A l \in Loops :
           /\ Gone(l, p) <= Len(functors[l]) /\ Len(r[l]) = Len(functors[l]) - Gone(l, p)
           /\ \A i \in 1..(Len(functors[l]) - Gone(l, p)) : r[l][i] = functors[l][i + Gone(l, p)]
  BY <1>1, Zenon
<1>3. functors' = Push(r, m, f)
  BY Zenon
<1>. HIDE DEF r
<1>. QED  BY <1>2, <1>3, CarriesBehind, ZenonT(60)

\* Names is kept when the new functors are about connections that were made, in
\* the loops where they belong, and connectEstablished() is new only when nothing
\* else waits.
LEMMA NamesKept ==
  ASSUME Types, Names, UNCHANGED numThreads_, NEW p, NEW new, Carries(p, new),
         \A c \in Ids : Made(c) => Made(c)' /\ conns'[c].loop = conns[c].loop,
         \A l \in Loops, k \in Kinds, c \in Ids : <<k, c>> \in new[l] =>
           Made(c)' /\ l = IF k = "remove" THEN 0 ELSE conns'[c].loop,
         \A l \in Loops, c \in Ids : <<"connectEstablished", c>> \in new[l] =>
           /\ ~Has(l, "connectEstablished", c) /\ ~Has(l, "connectDestroyed", c)
           /\ <<"connectDestroyed", c>> \notin new[l],
         \A l \in Loops, c \in Ids : Has(l, "connectEstablished", c)' => l # 0 /\ conns'[c].state_ = "kConnecting"
  PROVE  Names'
<1>. SUFFICES ASSUME NEW l \in Loops, NEW c \in Ids
              PROVE  /\ \A k \in Kinds : Has(l, k, c)' => Made(c)' /\ l = IF k = "remove" THEN 0 ELSE conns'[c].loop
                     /\ Has(l, "connectEstablished", c)' => l # 0 /\ conns'[c].state_ = "kConnecting"
                     /\ \A i, j \in 1..Len(functors'[l]) :
                          /\ functors'[l][i] = <<"connectEstablished", c>>
                          /\ functors'[l][j] \in {<<"connectEstablished", c>>, <<"connectDestroyed", c>>}
                          => i <= j
  BY Zenon DEF Names, Loops
<1>1. ASSUME NEW k \in Kinds, Has(l, k, c)'
      PROVE  Made(c)' /\ l = IF k = "remove" THEN 0 ELSE conns'[c].loop
  <2>1. Has(l, k, c) \/ <<k, c>> \in new[l]
    BY <1>1, CarriedHas, Zenon
  <2>2. CASE Has(l, k, c)
    BY <2>2 DEF Names
  <2>3. CASE <<k, c>> \in new[l]
    BY <2>3, Zenon
  <2>. QED  BY <2>1, <2>2, <2>3, Zenon
<1>2. ASSUME NEW i \in 1..Len(functors'[l]), NEW j \in 1..Len(functors'[l]),
             functors'[l][i] = <<"connectEstablished", c>>,
             functors'[l][j] \in {<<"connectEstablished", c>>, <<"connectDestroyed", c>>}
      PROVE  i <= j
  <2>. DEFINE g == Gone(l, p)
              n == Len(functors[l]) - Gone(l, p)
  <2>1. g \in 0..1 /\ n \in Nat /\ n + g = Len(functors[l]) /\ i \in Nat /\ j \in Nat /\ i >= 1 /\ j >= 1
    <3>1. Len(functors[l]) \in Nat /\ g \in 0..1
      BY LoopTypes DEF Gone
    <3>2. g <= Len(functors[l])
      BY Zenon DEF Carries
    <3>3. Len(functors'[l]) \in Nat
      BY SeqLen, Zenon DEF Carries
    <3>. HIDE DEF g
    <3>4. n = Len(functors[l]) - g
      BY Zenon DEF g
    <3>. HIDE DEF n
    <3>. QED  BY <3>1, <3>2, <3>3, <3>4
  <2>2. /\ \A a \in 1..n : functors'[l][a] = functors[l][a + g]
        /\ \A a \in 1..Len(functors'[l]) : a > n => functors'[l][a] \in new[l]
        /\ \A a, b \in 1..Len(functors'[l]) :
             a > n /\ b > n /\ functors'[l][a] = functors'[l][b] => a = b
    BY Zenon DEF Carries
  <2>. HIDE DEF g, n
  <2>3. CASE i <= n /\ j <= n
    <3>1. /\ i + g \in 1..Len(functors[l]) /\ j + g \in 1..Len(functors[l])
          /\ functors'[l][i] = functors[l][i + g] /\ functors'[l][j] = functors[l][j + g]
      BY <2>1, <2>2, <2>3, SMTT(60)
    <3>2. i + g <= j + g
      BY <1>2, <3>1, SMTT(60) DEF Names
    <3>. QED  BY <2>1, <3>2
  <2>4. CASE i <= n /\ j > n
    BY <2>1, <2>4
  <2>5. CASE i > n /\ j <= n
    <3>1. <<"connectEstablished", c>> \in new[l]
      BY <1>2, <2>2, <2>5, Zenon
    <3>2. j + g \in 1..Len(functors[l]) /\ functors'[l][j] = functors[l][j + g]
      BY <2>1, <2>2, <2>5
    <3>3. Has(l, "connectEstablished", c) \/ Has(l, "connectDestroyed", c)
      BY <1>2, <3>2, Zenon DEF Has
    <3>. QED  BY <3>1, <3>3, Zenon
  <2>6. CASE i > n /\ j > n
    <3>1. <<"connectEstablished", c>> \in new[l] /\ functors'[l][j] \in new[l]
      BY <1>2, <2>2, <2>6, ZenonT(60)
    <3>2. functors'[l][j] = functors'[l][i]
      BY <1>2, <3>1, Zenon
    <3>3. i = j
      BY <2>2, <2>6, <3>2, Zenon
    <3>. QED  BY <2>1, <3>3
  <2>. QED  BY <2>1, <2>3, <2>4, <2>5, <2>6
<1>. QED  BY <1>1, <1>2, Zenon

\* Nobody holds a connection anew when the new functors are about connections
\* that were held.
LEMMA HoldersKept ==
  ASSUME Types, Types', UNCHANGED numThreads_, NEW p, NEW new, Carries(p, new),
         connections_' \subseteq connections_, caller' = caller \/ caller' = NoCall,
         \A l \in Loops, k \in Kinds, c \in Ids : <<k, c>> \in new[l] => Refs(c)
  PROVE  \A c \in Ids : Refs(c)' => Refs(c)
<1>. SUFFICES ASSUME NEW c \in Ids, Refs(c)' PROVE Refs(c)
  BY Zenon
<1>1. c \in connections_' \/ caller'.conn = c \/ \E l \in Loops, k \in Kinds : Has(l, k, c)'
  BY WhoHoldsThen, Zenon
<1>2. CASE c \in connections_' \/ caller'.conn = c
  <2>1. c # 0 /\ NoCall.conn = 0
    BY Given, SMTT(30) DEF NoCall
  <2>. QED  BY <1>2, <2>1, Zenon DEF Refs
<1>3. ASSUME NEW l \in Loops, NEW k \in Kinds, Has(l, k, c)' PROVE Refs(c)
  <2>1. Has(l, k, c) \/ <<k, c>> \in new[l]
    BY <1>3, CarriedHas, Zenon
  <2>. QED  BY <2>1, WhoHolds, Zenon
<1>. QED  BY <1>1, <1>2, <1>3, Zenon

\* Moves of functors leave every IO loop its batch, unless it runs one of it.
LEMMA BatchesKept ==
  ASSUME Types, Counts, UNCHANGED <<numThreads_, io>>, NEW p, p \notin IoLoops, NEW new, Carries(p, new)
  PROVE  \A l \in IoLoops : io'[l].batch <= Len(functors'[l])
<1>. SUFFICES ASSUME NEW l \in IoLoops PROVE io[l].batch <= Len(functors'[l])
  BY Zenon
<1>1. l \in Loops /\ l # p /\ io[l].batch \in Nat
  BY LoopNumbers, Zenon DEF Types
<1>2. Len(functors'[l]) >= Len(functors[l]) - 0 /\ Len(functors[l]) \in Nat /\ Len(functors'[l]) \in Nat
  BY <1>1, LoopTypes, SeqLen, Zenon DEF Carries, Gone
<1>. QED  BY <1>1, <1>2 DEF Counts

\* A removal that is new is the only one of its connection if none waits.
LEMMA OnceKept ==
  ASSUME Types, NEW p, NEW new, Carries(p, new), NEW c \in Ids,
         \A i, j \in 1..Len(functors[0]) :
           functors[0][i] = <<"remove", c>> /\ functors[0][j] = <<"remove", c>> => i = j,
         <<"remove", c>> \in new[0] => ~Has(0, "remove", c)
  PROVE  \A i, j \in 1..Len(functors'[0]) :
           functors'[0][i] = <<"remove", c>> /\ functors'[0][j] = <<"remove", c>> => i = j
<1>. DEFINE g == Gone(0, p)
            n == Len(functors[0]) - Gone(0, p)
<1>0. 0 \in Loops
  BY LoopNumbers, Zenon DEF Types
<1>1. g \in 0..1 /\ n \in Nat /\ n + g = Len(functors[0])
  <2>1. Len(functors[0]) \in Nat /\ g \in 0..1
    BY <1>0, LoopTypes DEF Gone
  <2>2. g <= Len(functors[0])
    BY <1>0, Zenon DEF Carries
  <2>. HIDE DEF g
  <2>3. n = Len(functors[0]) - g
    BY Zenon DEF g
  <2>. HIDE DEF n
  <2>. QED  BY <2>1, <2>2, <2>3
<1>2. /\ \A a \in 1..n : functors'[0][a] = functors[0][a + g]
      /\ \A a \in 1..Len(functors'[0]) : a > n => functors'[0][a] \in new[0]
      /\ \A a, b \in 1..Len(functors'[0]) :
           a > n /\ b > n /\ functors'[0][a] = functors'[0][b] => a = b
  BY <1>0, Zenon DEF Carries
<1>3. Len(functors'[0]) \in Nat
  BY <1>0, SeqLen, Zenon DEF Carries
<1>. HIDE DEF g, n
<1>4. ASSUME NEW i \in 1..Len(functors'[0]), functors'[0][i] = <<"remove", c>>
      PROVE  \/ i <= n /\ i + g \in 1..Len(functors[0]) /\ functors[0][i + g] = <<"remove", c>>
             \/ i > n /\ <<"remove", c>> \in new[0]
  <2>1. CASE i <= n
    <3>1. i \in 1..n /\ i + g \in 1..Len(functors[0])
      BY <1>1, <1>3, <2>1
    <3>. QED  BY <1>2, <1>4, <2>1, <3>1, Zenon
  <2>2. CASE i > n
    BY <1>2, <1>4, <2>2, Zenon
  <2>. QED  BY <1>1, <1>3, <2>1, <2>2
<1>. SUFFICES ASSUME NEW i \in 1..Len(functors'[0]), NEW j \in 1..Len(functors'[0]),
                     functors'[0][i] = <<"remove", c>>, functors'[0][j] = <<"remove", c>>
              PROVE  i = j
  BY Zenon
<1>5. CASE i <= n /\ j <= n
  <2>0. i \in Nat /\ j \in Nat
    BY <1>3
  <2>1. i + g \in 1..Len(functors[0]) /\ functors[0][i + g] = <<"remove", c>>
    BY <1>1, <1>4, <1>5, <2>0
  <2>2. j + g \in 1..Len(functors[0]) /\ functors[0][j + g] = <<"remove", c>>
    BY <1>1, <1>4, <1>5, <2>0
  <2>3. i + g = j + g
    BY <2>1, <2>2, Zenon
  <2>. QED  BY <1>1, <2>0, <2>3
<1>6. CASE i > n /\ j > n
  BY <1>2, <1>6, Zenon
<1>7. CASE (i <= n /\ j > n) \/ (i > n /\ j <= n)
  <2>0. i \in Nat /\ j \in Nat
    BY <1>3
  <2>1. ASSUME NEW a \in 1..Len(functors[0]), functors[0][a] = <<"remove", c>>
        PROVE  <<"remove", c>> \notin new[0]
    BY <2>1, Zenon DEF Has
  <2>2. CASE i <= n /\ j > n
    <3>1. i + g \in 1..Len(functors[0]) /\ functors[0][i + g] = <<"remove", c>>
      BY <1>1, <1>4, <2>0, <2>2
    <3>2. ~(j <= n)
      BY <1>1, <2>0, <2>2
    <3>3. <<"remove", c>> \in new[0]
      BY <1>4, <3>2, Zenon
    <3>. QED  BY <2>1, <3>1, <3>3, Zenon
  <2>3. CASE i > n /\ j <= n
    <3>1. j + g \in 1..Len(functors[0]) /\ functors[0][j + g] = <<"remove", c>>
      BY <1>1, <1>4, <2>0, <2>3
    <3>2. ~(i <= n)
      BY <1>1, <2>0, <2>3
    <3>3. <<"remove", c>> \in new[0]
      BY <1>4, <3>2, Zenon
    <3>. QED  BY <2>1, <3>1, <3>3, Zenon
  <2>. QED  BY <1>7, <2>2, <2>3, Zenon
<1>. QED  BY <1>1, <1>3, <1>5, <1>6, <1>7

\* Only the state of connection c changes, to s.
Told(c, s) ==
  /\ conns' \in [Ids -> [state_ : States, loop : Loops]]
  /\ \A d \in Ids : conns'[d].loop = conns[d].loop
  /\ \A d \in Ids : d # c => conns'[d].state_ = conns[d].state_
  /\ conns'[c].state_ = s
-----------------------------------------------------------------------------
(***************************************************************************)
(* The steps that run, drop or add functors.                               *)
(***************************************************************************)
\* That is what an assignment to state_ does.
LEMMA Retold ==
  ASSUME Types, NEW c \in Ids, NEW s \in States, conns' = [conns EXCEPT ![c].state_ = s]
  PROVE  Told(c, s)
BY Zenon DEF Types, Told

\* The first functor of a loop that has one.
LEMMA First ==
  ASSUME Types, NEW l \in Loops, Len(functors[l]) > 0
  PROVE  /\ functors[l] # << >> /\ Head(functors[l]) = functors[l][1]
         /\ functors[l][1][1] \in Kinds /\ functors[l][1][2] \in Ids
         /\ functors[l][1] = <<functors[l][1][1], functors[l][1][2]>>
         /\ Has(l, functors[l][1][1], functors[l][1][2])
<1>1. functors[l] \in Seq(Functors) /\ Len(functors[l]) \in Nat
  BY LoopTypes, Zenon
<1>2. functors[l] # << >> /\ Head(functors[l]) = functors[l][1] /\ 1 \in 1..Len(functors[l])
  BY <1>1
<1>3. functors[l][1] \in Functors
  BY <1>2, LoopTypes, Zenon
<1>. QED  BY <1>2, <1>3, FunctorParts, Zenon DEF Has

\* When connectEstablished() leaves the front of its loop no other is left.
LEMMA EstablishedOnce ==
  ASSUME Types, Names, NEW l \in Loops, NEW c \in Ids, functors[l] # << >>,
         functors[l][1] = <<"connectEstablished", c>>, functors' = [functors EXCEPT ![l] = Tail(@)]
  PROVE  ~Has(l, "connectEstablished", c)'
<1>. SUFFICES ASSUME NEW i \in 1..Len(functors'[l]), functors'[l][i] = <<"connectEstablished", c>>
              PROVE  FALSE
  BY Zenon DEF Has
<1>1. functors[l] \in Seq(Functors) /\ Len(functors[l]) \in Nat /\ Len(functors[l]) > 0
  BY LoopTypes
<1>. DEFINE none == [m \in Loops |-> {}]
<1>0. Carries(l, none) /\ Gone(l, l) = 1 /\ none[l] = {}
  BY CarriesPopped, Zenon DEF Gone
<1>. HIDE DEF none
<1>2. Len(functors'[l]) = Len(functors[l]) - 1
      /\ \A a \in 1..(Len(functors[l]) - 1) : functors'[l][a] = functors[l][a + 1]
  <2>1. /\ functors' \in [Loops -> Seq(Functors)]
        /\ Len(functors'[l]) >= Len(functors[l]) - 1
        /\ \A a \in 1..(Len(functors[l]) - 1) : functors'[l][a] = functors[l][a + 1]
        /\ \A a \in 1..Len(functors'[l]) : ~(a > Len(functors[l]) - 1)
    <3>1. /\ functors' \in [Loops -> Seq(Functors)]
          /\ Len(functors'[l]) >= Len(functors[l]) - Gone(l, l)
          /\ \A a \in 1..(Len(functors[l]) - Gone(l, l)) : functors'[l][a] = functors[l][a + Gone(l, l)]
          /\ \A a \in 1..Len(functors'[l]) : a > Len(functors[l]) - Gone(l, l) => functors'[l][a] \in none[l]
      BY <1>0, Zenon DEF Carries
    <3>. QED  BY <1>0, <3>1, Zenon
  <2>2. Len(functors'[l]) \in Nat
    BY <2>1, SeqLen, Zenon
  <2>3. Len(functors'[l]) > 0 => Len(functors'[l]) \in 1..Len(functors'[l])
    BY <2>2
  <2>. QED  BY <1>1, <2>1, <2>2, <2>3
<1>3. i \in Nat /\ i >= 1 /\ i + 1 \in 1..Len(functors[l]) /\ 1 \in 1..Len(functors[l])
  BY <1>1, <1>2
<1>4. functors[l][i + 1] = <<"connectEstablished", c>>
  BY <1>2, Zenon
<1>5. \A a, b \in 1..Len(functors[l]) :
        functors[l][a] = <<"connectEstablished", c>> /\ functors[l][b] = <<"connectEstablished", c>> => a <= b
  BY ZenonT(60) DEF Names
<1>6. i + 1 <= 1
  BY <1>3, <1>4, <1>5, Zenon
<1>. QED  BY <1>3, <1>6

\* What a functor of a connection at the head of its loop makes of state_, except
\* when forceCloseInLoop() closes the connection.
RunState(k, s) ==
  CASE k = "connectEstablished" -> "kConnected"
    [] k = "connectDestroyed" -> DestroyedState(s)
    [] k = "forceCloseInLoop" -> s

\* A loop runs a functor of a connection: connectEstablished() finds its connection
\* kConnecting, connectDestroyed() finds it established.
LEMMA RunOne ==
  ASSUME Order, NEW l \in Loops, Len(functors[l]) > 0,
         NEW k \in {"connectEstablished", "connectDestroyed", "forceCloseInLoop"},
         NEW c \in Ids, functors[l][1] = <<k, c>>, functors' = [functors EXCEPT ![l] = Tail(@)],
         NEW s, s = RunState(k, conns[c].state_), Told(c, s), mishaps \subseteq mishaps',
         k = "connectDestroyed" /\ conns[c].state_ = "kDisconnecting" => "cutShort" \in mishaps',
         UNCHANGED <<numThreads_, nextConnId_, connections_, server, caller>>
  PROVE  /\ functors' \in [Loops -> Seq(Functors)]
         /\ Names' /\ Known' /\ Mapped' /\ Held'
<1>. DEFINE none == [m \in Loops |-> {}]
<1>0. Types /\ Names /\ Known /\ Mapped /\ Held /\ functors[l] # << >> /\ Len(functors[l]) \in Nat
  BY LoopTypes DEF Order
<1>1. Carries(l, none) /\ \A m \in Loops : none[m] = {}
  BY <1>0, CarriesPopped, Zenon
<1>2. functors' \in [Loops -> Seq(Functors)]
  BY <1>1, Zenon DEF Carries
<1>. HIDE DEF none
<1>3. conns[c].state_ \in States /\ s \in States
  <2>1. conns[c].state_ \in States
    BY <1>0, Zenon DEF Types
  <2>. QED  BY <2>1, Zenon DEF RunState, DestroyedState, States
<1>4. /\ conns' \in [Ids -> [state_ : States, loop : Loops]]
      /\ \A d \in Ids : conns'[d].loop = conns[d].loop
      /\ \A d \in Ids : d # c => conns'[d].state_ = conns[d].state_
      /\ conns'[c].state_ = s
  BY Zenon DEF Told
<1>5. ASSUME NEW m \in Loops, NEW j, NEW d
      PROVE  /\ Has(m, j, d)' => Has(m, j, d)
             /\ Has(m, j, d) => Has(m, j, d)' \/ (m = l /\ j = k /\ d = c)
  <2>1. /\ Has(m, j, d)' => Has(m, j, d) \/ <<j, d>> \in none[m]
        /\ Has(m, j, d) => Has(m, j, d)' \/ (m = l /\ functors[m][1] = <<j, d>>)
    BY <1>0, <1>1, CarriedHas, Zenon
  <2>2. m = l /\ functors[m][1] = <<j, d>> => j = k /\ d = c
    OBVIOUS
  <2>. QED  BY <1>1, <2>1, <2>2, Zenon
<1>6. Has(l, k, c) /\ k \in Kinds /\ k # "remove"
  <2>1. 1 \in 1..Len(functors[l])
    BY <1>0
  <2>. QED  BY <2>1, Zenon DEF Has, Kinds
<1>7. Made(c) /\ l = conns[c].loop
  BY <1>0, <1>6, Zenon DEF Names
<1>8. k = "connectEstablished" => s = "kConnected" /\ conns[c].state_ = "kConnecting" /\ ~Has(l, "connectEstablished", c)'
  <2>. SUFFICES ASSUME k = "connectEstablished"
                PROVE  s = "kConnected" /\ conns[c].state_ = "kConnecting" /\ ~Has(l, "connectEstablished", c)'
    BY Zenon
  <2>1. conns[c].state_ = "kConnecting"
    BY <1>0, <1>6, Zenon DEF Names
  <2>2. ~Has(l, "connectEstablished", c)'
    BY <1>0, EstablishedOnce, Zenon
  <2>. QED  BY <2>1, <2>2, Zenon DEF RunState
<1>9. k = "connectDestroyed" /\ Has(l, "connectEstablished", c) => FALSE
  <2>. SUFFICES ASSUME k = "connectDestroyed", NEW i \in 1..Len(functors[l]),
                       functors[l][i] = <<"connectEstablished", c>>
                PROVE  FALSE
    BY Zenon DEF Has
  <2>1. 1 \in 1..Len(functors[l]) /\ i \in Nat /\ i >= 1
    BY <1>0
  <2>2. \A a, b \in 1..Len(functors[l]) :
          functors[l][a] = <<"connectEstablished", c>> /\ functors[l][b] = <<"connectDestroyed", c>> => a <= b
    BY <1>0, ZenonT(60) DEF Names
  <2>3. i <= 1
    BY <2>1, <2>2, Zenon
  <2>4. i = 1
    BY <2>1, <2>3
  <2>. QED  BY <2>4
<1>10. /\ k = "connectDestroyed" =>
            s = (IF conns[c].state_ = "kConnected" THEN "kDisconnected" ELSE conns[c].state_)
       /\ k = "forceCloseInLoop" => s = conns[c].state_
  BY Zenon DEF RunState, DestroyedState
<1>11. Names'
  <2>1. ASSUME NEW m \in Loops, NEW d \in Ids, Has(m, "connectEstablished", d)'
        PROVE  m # 0 /\ conns'[d].state_ = "kConnecting"
    <3>1. Has(m, "connectEstablished", d)
      BY <1>5, <2>1, Zenon
    <3>2. m # 0 /\ conns[d].state_ = "kConnecting" /\ m = conns[d].loop
      BY <1>0, <3>1, Zenon DEF Names, Kinds
    <3>3. CASE d # c
      BY <1>4, <3>2, <3>3, Zenon
    <3>4. CASE d = c
      <4>1. m = l
        BY <1>7, <3>2, <3>4, Zenon
      <4>. QED  BY <1>4, <1>8, <1>9, <1>10, <2>1, <3>1, <3>2, <3>4, <4>1, Zenon
    <3>. QED  BY <3>3, <3>4, Zenon
  <2>2. \A d \in Ids : Made(d) => Made(d)' /\ conns'[d].loop = conns[d].loop
    BY <1>4, Zenon DEF Made
  <2>3. \A m \in Loops : none[m] = {}
    BY <1>1, Zenon
  <2>. QED  BY <1>0, <1>1, <2>1, <2>2, <2>3, NamesKept, Zenon
<1>12. ASSUME NEW d \in Ids PROVE Made(d)' <=> Made(d)
  BY Zenon DEF Made
<1>13. Loops' = Loops /\ 0 \in Loops
  BY <1>0, LoopNumbers, Zenon DEF Loops, Types
<1>14. Known'
  <2>1. \A d \in Ids : conns'[d].state_ = "kConnecting" => conns[d].state_ = "kConnecting"
    BY <1>4, <1>8, <1>10, Zenon
  <2>. QED  BY <1>0, <1>12, <2>1, KnownKept, Zenon
<1>15. Mapped'
  <2>. SUFFICES ASSUME server = "up", "revived" \notin mishaps, NEW d \in Ids
                PROVE  /\ Made(d) => (d \in connections_ <=> conns'[d].state_ # "kDisconnected" \/ Has(0, "remove", d)')
                       /\ Has(0, "remove", d)' => conns'[d].state_ = "kDisconnected"
                       /\ \A m \in Loops : Has(m, "connectDestroyed", d)' =>
                            conns'[d].state_ = "kDisconnected" /\ d \notin connections_
                       /\ \A i, j \in 1..Len(functors'[0]) :
                            functors'[0][i] = <<"remove", d>> /\ functors'[0][j] = <<"remove", d>> => i = j
    BY <1>12, <1>13, Zenon DEF Mapped
  <2>1. /\ Made(d) => (d \in connections_ <=> conns[d].state_ # "kDisconnected" \/ Has(0, "remove", d))
        /\ Has(0, "remove", d) => conns[d].state_ = "kDisconnected"
        /\ \A m \in Loops : Has(m, "connectDestroyed", d) =>
             conns[d].state_ = "kDisconnected" /\ d \notin connections_
        /\ \A i, j \in 1..Len(functors[0]) :
             functors[0][i] = <<"remove", d>> /\ functors[0][j] = <<"remove", d>> => i = j
    BY <1>0, Zenon DEF Mapped
  <2>2. Has(0, "remove", d)' <=> Has(0, "remove", d)
    BY <1>5, <1>6, <1>13, Zenon
  <2>3. \A m \in Loops : Has(m, "connectDestroyed", d)' => Has(m, "connectDestroyed", d)
    BY <1>5, Zenon
  <2>4. conns'[d].state_ = "kDisconnected" <=> conns[d].state_ = "kDisconnected"
    <3>1. CASE d # c
      BY <1>4, <3>1, Zenon
    <3>2. CASE d = c /\ k \in {"connectEstablished", "forceCloseInLoop"}
      BY <1>4, <1>8, <1>10, <3>2, Zenon
    <3>3. CASE d = c /\ k = "connectDestroyed"
      <4>1. conns[c].state_ = "kDisconnected"
        BY <1>6, <2>1, <3>3, Zenon
      <4>. QED  BY <1>4, <1>10, <3>3, <4>1, Zenon
    <3>. QED  BY <3>1, <3>2, <3>3, Zenon
  <2>5. \A i, j \in 1..Len(functors'[0]) :
          functors'[0][i] = <<"remove", d>> /\ functors'[0][j] = <<"remove", d>> => i = j
    <3>1. <<"remove", d>> \notin none[0]
      BY <1>1, <1>13, Zenon
    <3>. QED  BY <1>0, <1>1, <2>1, <3>1, OnceKept, ZenonT(60)
  <2>. QED  BY <2>1, <2>2, <2>3, <2>4, <2>5, Zenon
<1>16. Held'
  <2>. SUFFICES ASSUME Unharmed, Unharmed', NEW d \in Ids, Made(d)
                PROVE  /\ conns'[d].state_ = "kConnecting" => Has(conns[d].loop, "connectEstablished", d)'
                       /\ server # "up" /\ conns'[d].state_ # "kDisconnected" => Has(conns[d].loop, "connectDestroyed", d)'
    BY <1>4, <1>12, Zenon DEF Held, Unharmed, Has
  <2>1. /\ conns[d].state_ = "kConnecting" => Has(conns[d].loop, "connectEstablished", d)
        /\ server # "up" /\ conns[d].state_ # "kDisconnected" => Has(conns[d].loop, "connectDestroyed", d)
    BY <1>0, Zenon DEF Held
  <2>2. conns[d].loop \in Loops
    BY <1>0, Zenon DEF Types
  <2>3. CASE d # c
    BY <1>4, <1>5, <2>1, <2>2, <2>3
  <2>4. CASE d = c /\ k = "connectEstablished"
    <3>1. conns'[d].state_ = "kConnected" /\ conns[d].state_ = "kConnecting"
      BY <1>4, <1>8, <2>4, Zenon
    <3>2. Has(conns[d].loop, "connectDestroyed", d) => Has(conns[d].loop, "connectDestroyed", d)'
      <4>1. k # "connectDestroyed"
        BY <2>4, SMTT(30)
      <4>. QED  BY <1>4, <1>5, <2>2, <4>1, ZenonT(60)
    <3>. QED  BY <2>1, <3>1, <3>2, Zenon
  <2>5. CASE d = c /\ k = "connectDestroyed"
    <3>1. conns[c].state_ # "kConnecting"
      BY <1>7, <1>9, <2>1, <2>5, Zenon
    <3>2. conns[c].state_ # "kDisconnecting"
      BY <2>5, Zenon DEF Unharmed
    <3>3. conns'[d].state_ = "kDisconnected"
      BY <1>3, <1>4, <1>10, <2>5, <3>1, <3>2, Zenon DEF States
    <3>. QED  BY <3>3, Zenon
  <2>6. CASE d = c /\ k = "forceCloseInLoop"
    <3>1. conns'[d].state_ = conns[d].state_
      BY <1>4, <1>10, <2>6, Zenon
    <3>2. /\ Has(conns[d].loop, "connectEstablished", d) => Has(conns[d].loop, "connectEstablished", d)'
          /\ Has(conns[d].loop, "connectDestroyed", d) => Has(conns[d].loop, "connectDestroyed", d)'
      <4>1. k # "connectDestroyed" /\ k # "connectEstablished"
        BY <2>6, SMTT(30)
      <4>. QED  BY <1>4, <1>5, <2>2, <4>1, ZenonT(60)
    <3>. QED  BY <2>1, <3>1, <3>2, Zenon
  <2>. QED  BY <2>3, <2>4, <2>5, <2>6, Zenon
<1>. QED  BY <1>2, <1>11, <1>14, <1>15, <1>16, Zenon

\* A connection that is up closes, as an event (p is no loop) or because the head
\* of loop p is its forceCloseInLoop().
LEMMA CloseOne ==
  ASSUME Order, NEW c \in Ids, Made(c), IsUp(c), NEW p, NEW k \in {"connectDestroyed", "remove"},
         NEW new, Carries(p, new), \A m \in Loops : \A f : f \in new[m] <=> m = 0 /\ f = <<k, c>>,
         p \in Loops => functors[p][1] = <<"forceCloseInLoop", c>>, Told(c, "kDisconnected"),
         \/ /\ k = "connectDestroyed" /\ conns[c].loop = 0 /\ server = "up"
            /\ connections_' = connections_ \ {c}
         \/ k = "remove" /\ connections_' = connections_,
         mishaps \subseteq mishaps',
         UNCHANGED <<numThreads_, nextConnId_, server, caller>>
  PROVE  Names' /\ Known' /\ Mapped' /\ Held'
<1>0. Types /\ Names /\ Known /\ Mapped /\ Held /\ 0 \in Loops
  BY LoopNumbers, Zenon DEF Order, Types
<1>1. conns[c].state_ # "kDisconnected" /\ conns[c].state_ # "kConnecting" /\ conns[c].loop \in Loops
  BY <1>0, Zenon DEF IsUp, Types
<1>2. /\ \A d \in Ids : conns'[d].loop = conns[d].loop
      /\ \A d \in Ids : d # c => conns'[d].state_ = conns[d].state_
      /\ conns'[c].state_ = "kDisconnected"
  BY Zenon DEF Told
<1>3. Loops' = Loops /\ (\A d \in Ids : Made(d)' <=> Made(d)) /\ k \in Kinds
  BY Zenon DEF Loops, Made, Kinds
<1>4. ASSUME NEW m \in Loops, NEW j, NEW d
      PROVE  /\ Has(m, j, d)' => Has(m, j, d) \/ (m = 0 /\ j = k /\ d = c)
             /\ m = 0 /\ j = k /\ d = c => Has(m, j, d)'
             /\ Has(m, j, d) => Has(m, j, d)' \/ j = "forceCloseInLoop"
  <2>1. /\ Has(m, j, d)' => Has(m, j, d) \/ <<j, d>> \in new[m]
        /\ <<j, d>> \in new[m] => Has(m, j, d)'
        /\ Has(m, j, d) => Has(m, j, d)' \/ (m = p /\ functors[m][1] = <<j, d>>)
    BY <1>0, CarriedHas, Zenon
  <2>2. <<j, d>> \in new[m] <=> m = 0 /\ <<j, d>> = <<k, c>>
    BY Zenon
  <2>3. <<j, d>> = <<k, c>> <=> j = k /\ d = c
    OBVIOUS
  <2>4. m = p /\ functors[m][1] = <<j, d>> => j = "forceCloseInLoop"
    OBVIOUS
  <2>. QED  BY <2>1, <2>2, <2>3, <2>4, Zenon
<1>5. Names'
  <2>1. \A m \in Loops, j \in Kinds, d \in Ids : <<j, d>> \in new[m] =>
          Made(d)' /\ m = IF j = "remove" THEN 0 ELSE conns'[d].loop
    BY <1>2, <1>3
  <2>2. \A m \in Loops, d \in Ids : <<"connectEstablished", d>> \notin new[m]
    BY SMTT(60)
  <2>3. ASSUME NEW m \in Loops, NEW d \in Ids, Has(m, "connectEstablished", d)'
        PROVE  m # 0 /\ conns'[d].state_ = "kConnecting"
    <3>1. Has(m, "connectEstablished", d)
      <4>1. "connectEstablished" # k
        BY SMTT(30)
      <4>. QED  BY <1>4, <2>3, <4>1, Zenon
    <3>2. m # 0 /\ conns[d].state_ = "kConnecting"
      BY <1>0, <3>1, Zenon DEF Names
    <3>. QED  BY <1>1, <1>2, <3>2, Zenon
  <2>4. \A d \in Ids : Made(d) => Made(d)' /\ conns'[d].loop = conns[d].loop
    BY <1>2, <1>3, Zenon
  <2>. QED  BY <1>0, <2>1, <2>2, <2>3, <2>4, NamesKept, ZenonT(60)
<1>6. Known'
  <2>1. connections_' \subseteq connections_
    BY Zenon
  <2>2. \A d \in Ids : conns'[d].state_ = "kConnecting" => conns[d].state_ = "kConnecting"
    BY <1>2, Zenon
  <2>. QED  BY <1>0, <1>3, <2>1, <2>2, KnownKept, Zenon
<1>7. Mapped'
  <2>. SUFFICES ASSUME server = "up", "revived" \notin mishaps, NEW d \in Ids
                PROVE  /\ Made(d) => (d \in connections_' <=> conns'[d].state_ # "kDisconnected" \/ Has(0, "remove", d)')
                       /\ Has(0, "remove", d)' => conns'[d].state_ = "kDisconnected"
                       /\ \A m \in Loops : Has(m, "connectDestroyed", d)' =>
                            conns'[d].state_ = "kDisconnected" /\ d \notin connections_'
                       /\ \A i, j \in 1..Len(functors'[0]) :
                            functors'[0][i] = <<"remove", d>> /\ functors'[0][j] = <<"remove", d>> => i = j
    BY <1>3, Zenon DEF Mapped
  <2>1. /\ Made(d) => (d \in connections_ <=> conns[d].state_ # "kDisconnected" \/ Has(0, "remove", d))
        /\ Has(0, "remove", d) => conns[d].state_ = "kDisconnected"
        /\ \A m \in Loops : Has(m, "connectDestroyed", d) =>
             conns[d].state_ = "kDisconnected" /\ d \notin connections_
        /\ \A i, j \in 1..Len(functors[0]) :
             functors[0][i] = <<"remove", d>> /\ functors[0][j] = <<"remove", d>> => i = j
    BY <1>0, Zenon DEF Mapped
  <2>2. d = c => ~Has(0, "remove", d) /\ d \in connections_ /\ \A m \in Loops : ~Has(m, "connectDestroyed", d)
    BY <1>1, <2>1, Zenon
  <2>3. \A i, j \in 1..Len(functors'[0]) :
          functors'[0][i] = <<"remove", d>> /\ functors'[0][j] = <<"remove", d>> => i = j
    <3>1. <<"remove", d>> \in new[0] => ~Has(0, "remove", d)
      BY <1>0, <2>2
    <3>. QED  BY <1>0, <2>1, <3>1, OnceKept, ZenonT(60)
  <2>4. CASE d # c
    <3>1. Has(0, "remove", d)' <=> Has(0, "remove", d)
      BY <1>0, <1>4, <2>4, SMTT(20)
    <3>2. \A m \in Loops : Has(m, "connectDestroyed", d)' => Has(m, "connectDestroyed", d)
      BY <1>4, <2>4
    <3>3. (d \in connections_' <=> d \in connections_) /\ conns'[d].state_ = conns[d].state_
      BY <1>2, <2>4, Zenon
    <3>. QED  BY <2>1, <2>3, <3>1, <3>2, <3>3, Zenon
  <2>5. CASE d = c /\ k = "remove"
    <3>1. Has(0, "remove", d)' /\ (\A m \in Loops : ~Has(m, "connectDestroyed", d)')
      BY <1>0, <1>4, <2>2, <2>5, SMTT(60)
    <3>2. d \in connections_' /\ conns'[d].state_ = "kDisconnected"
      BY <1>2, <2>2, <2>5, Zenon
    <3>. QED  BY <2>3, <2>5, <3>1, <3>2, Zenon
  <2>6. CASE d = c /\ k = "connectDestroyed"
    <3>1. ~Has(0, "remove", d)'
      BY <1>0, <1>4, <2>2, <2>6
    <3>2. d \notin connections_' /\ conns'[d].state_ = "kDisconnected"
      BY <1>2, <2>6, Zenon
    <3>. QED  BY <2>3, <3>1, <3>2, Zenon
  <2>. QED  BY <2>4, <2>5, <2>6, ZenonT(60)
<1>8. Held'
  <2>. SUFFICES ASSUME Unharmed, NEW d \in Ids, Made(d)
                PROVE  /\ conns'[d].state_ = "kConnecting" => Has(conns[d].loop, "connectEstablished", d)'
                       /\ server # "up" /\ conns'[d].state_ # "kDisconnected" => Has(conns[d].loop, "connectDestroyed", d)'
    <3>1. Unharmed' => Unharmed
      BY Zenon DEF Unharmed
    <3>. QED  BY <1>2, <1>3, <3>1, Zenon DEF Held, Has
  <2>1. conns[d].loop \in Loops
    BY <1>0, Zenon DEF Types
  <2>2. d # c => conns'[d].state_ = conns[d].state_
    BY <1>2, Zenon
  <2>3. /\ conns[d].state_ = "kConnecting" => Has(conns[d].loop, "connectEstablished", d)
        /\ server # "up" /\ conns[d].state_ # "kDisconnected" => Has(conns[d].loop, "connectDestroyed", d)
    BY <1>0, Zenon DEF Held
  <2>4. /\ Has(conns[d].loop, "connectEstablished", d) => Has(conns[d].loop, "connectEstablished", d)'
        /\ Has(conns[d].loop, "connectDestroyed", d) => Has(conns[d].loop, "connectDestroyed", d)'
    <3>1. conns'[d].loop = conns[d].loop
      BY <1>2, Zenon
    <3>. QED  BY <1>4, <2>1, <3>1
  <2>. QED  BY <1>2, <2>2, <2>3, <2>4, Zenon
<1>. QED  BY <1>5, <1>6, <1>7, <1>8, Zenon

\* The order is kept by a step that takes the head of loop p, if p is a loop, and
\* adds functors for connections that are held.
Keeps(p) ==
  /\ conns' \in [Ids -> [state_ : States, loop : Loops]]
  /\ \A d \in Ids : conns'[d].loop = conns[d].loop
  /\ connections_' \subseteq connections_ /\ mishaps' \subseteq Mishaps
  /\ \E new : Carries(p, new) /\ \A l \in Loops, k \in Kinds, c \in Ids : <<k, c>> \in new[l] => Refs(c)
  /\ Names' /\ Known' /\ Mapped' /\ Held'

\* handleClose() of a connection that is up.
LEMMA HandleClose ==
  ASSUME Order, NEW c \in Ids, Made(c), Refs(c), IsUp(c), NEW fs, handleClose(c, fs), NEW p,
         \/ p = -1 /\ fs = functors
         \/ /\ p \in Loops /\ functors[p] # << >> /\ functors[p][1] = <<"forceCloseInLoop", c>>
            /\ fs = [functors EXCEPT ![p] = Tail(@)],
         UNCHANGED <<numThreads_, nextConnId_, server, caller>>
  PROVE  Keeps(p)
<1>0. Types /\ 0 \in Loops /\ -1 \notin Loops
  <2>1. Types /\ numThreads_ \in Nat
    BY Zenon DEF Order, Types
  <2>. QED  BY <2>1, LoopNumbers
<1>1. Told(c, "kDisconnected")
  <2>1. conns' = [conns EXCEPT ![c].state_ = "kDisconnected"] /\ "kDisconnected" \in States
    BY Zenon DEF handleClose, States
  <2>. QED  BY <1>0, <2>1, Retold, Zenon
<1>2. mishaps \subseteq mishaps' /\ mishaps' \subseteq Mishaps
  BY <1>0, Zenon DEF handleClose, If, Mishaps, Types
<1>3. PICK k \in {"connectDestroyed", "remove"} :
        /\ functors' = Push(fs, 0, <<k, c>>)
        /\ \/ /\ k = "connectDestroyed" /\ conns[c].loop = 0 /\ server = "up"
              /\ connections_' = connections_ \ {c}
           \/ k = "remove" /\ connections_' = connections_
  <2>1. CASE conns[c].loop = 0 /\ server = "up"
    <3>1. functors' = Push(fs, 0, <<"connectDestroyed", c>>) /\ connections_' = connections_ \ {c}
      BY <2>1, Zenon DEF handleClose, removeConnectionInLoop
    <3>. QED  BY <2>1, <3>1, Zenon
  <2>2. CASE ~(conns[c].loop = 0 /\ server = "up")
    <3>1. functors' = Push(fs, 0, <<"remove", c>>) /\ connections_' = connections_
      BY <2>2, Zenon DEF handleClose
    <3>. QED  BY <3>1, Zenon
  <2>. QED  BY <2>1, <2>2, Zenon
<1>. DEFINE new == [m \in Loops |-> IF m = 0 THEN {<<k, c>>} ELSE {}]
<1>4. Carries(p, new)
  <2>1. <<k, c>> \in Functors
    BY Zenon DEF Functors, Kinds
  <2>2. CASE p = -1 /\ fs = functors
    BY <1>0, <1>3, <2>1, <2>2, CarriesPushed, Zenon
  <2>3. CASE p \in Loops /\ functors[p] # << >> /\ fs = [functors EXCEPT ![p] = Tail(@)]
    <3>1. functors' = Push([functors EXCEPT ![p] = Tail(@)], 0, <<k, c>>)
      BY <1>3, <2>3, Zenon
    <3>. QED  BY <1>0, <2>1, <2>3, <3>1, CarriesBoth, Zenon
  <2>. QED  BY <2>2, <2>3, Zenon
<1>5. \A m \in Loops : \A f : f \in new[m] <=> m = 0 /\ f = <<k, c>>
  BY Zenon
<1>. HIDE DEF new
<1>6. Names' /\ Known' /\ Mapped' /\ Held'
  <2>1. p \in Loops => functors[p][1] = <<"forceCloseInLoop", c>>
    BY <1>0, Zenon
  <2>2. mishaps \subseteq mishaps'
    BY <1>2, Zenon
  <2>3. \/ /\ k = "connectDestroyed" /\ conns[c].loop = 0 /\ server = "up"
           /\ connections_' = connections_ \ {c}
        \/ k = "remove" /\ connections_' = connections_
    BY <1>3, Zenon
  <2>. QED  BY <1>1, <1>4, <1>5, <2>1, <2>2, <2>3, CloseOne, SMTT(60)
<1>7. \A m \in Loops, j \in Kinds, d \in Ids : <<j, d>> \in new[m] => Refs(d)
  BY <1>5
<1>8. connections_' \subseteq connections_
  BY <1>3, Zenon
<1>. QED  BY <1>1, <1>2, <1>4, <1>6, <1>7, <1>8, Zenon DEF Keeps, Told

\* A loop runs the functor of a connection that is at its head.
LEMMA RunHeadKeeps ==
  ASSUME Order, NEW l \in Loops, Len(functors[l]) > 0, RunHead(l),
         UNCHANGED <<numThreads_, nextConnId_, server, caller>>
  PROVE  Keeps(l)
<1>0. Types /\ Names
  BY Zenon DEF Order
<1>1. PICK k, c : /\ functors[l][1] = <<k, c>> /\ k \in Kinds /\ c \in Ids /\ Has(l, k, c)
                  /\ Head(functors[l])[1] = k /\ Head(functors[l])[2] = c /\ functors[l] # << >>
  BY <1>0, First, Zenon
<1>2. Made(c) /\ Refs(c) /\ conns[c].state_ \in States
  BY <1>0, <1>1, WhoHolds, Zenon DEF Names, Types
<1>3. CASE k = "forceCloseInLoop" /\ IsUp(c)
  <2>1. handleClose(c, [functors EXCEPT ![l] = Tail(@)])
    BY <1>1, <1>3, Zenon DEF RunHead, forceCloseInLoop
  <2>. QED  BY <1>1, <1>2, <1>3, <2>1, HandleClose, ZenonT(60)
<1>4. CASE ~(k = "forceCloseInLoop" /\ IsUp(c))
  <2>1. /\ k \in {"connectEstablished", "connectDestroyed", "forceCloseInLoop"}
        /\ functors' = [functors EXCEPT ![l] = Tail(@)] /\ connections_' = connections_
    BY <1>1, <1>4, Zenon DEF RunHead, connectEstablished, connectDestroyed, forceCloseInLoop
  <2>2. PICK s : s = RunState(k, conns[c].state_)
    BY Zenon
  <2>3. s \in States
    BY <1>2, <2>1, <2>2, Zenon DEF RunState, DestroyedState, States
  <2>4. Told(c, s)
    <3>1. CASE k = "connectEstablished"
      <4>1. conns' = [conns EXCEPT ![c].state_ = s]
        BY <1>1, <2>2, <3>1, Zenon DEF RunHead, connectEstablished, RunState
      <4>. QED  BY <1>0, <1>1, <2>3, <4>1, Retold, Zenon
    <3>2. CASE k = "connectDestroyed"
      <4>1. conns' = [conns EXCEPT ![c].state_ = DestroyedState(@)] /\ s = DestroyedState(conns[c].state_)
        BY <1>1, <2>2, <3>2, Zenon DEF RunHead, connectDestroyed, RunState
      <4>2. conns' = [conns EXCEPT ![c].state_ = s]
        BY <1>0, <1>1, <4>1, Zenon DEF Types
      <4>. QED  BY <1>0, <1>1, <2>3, <4>2, Retold, Zenon
    <3>3. CASE k = "forceCloseInLoop"
      <4>1. conns' = conns /\ s = conns[c].state_
        BY <1>1, <1>4, <2>2, <3>3, Zenon DEF RunHead, forceCloseInLoop, RunState, history
      <4>. QED  BY <1>0, <4>1, Zenon DEF Told, Types
    <3>. QED  BY <2>1, <3>1, <3>2, <3>3, Zenon
  <2>5. /\ mishaps \subseteq mishaps' /\ mishaps' \subseteq Mishaps
        /\ k = "connectDestroyed" /\ conns[c].state_ = "kDisconnecting" => "cutShort" \in mishaps'
    <3>1. CASE k = "connectDestroyed"
      <4>1. mishaps' = mishaps \cup If(IsCutShort(c), "cutShort")
        BY <1>1, <3>1, Zenon DEF RunHead, connectDestroyed
      <4>. QED  BY <1>0, <4>1, Zenon DEF If, IsCutShort, Mishaps, Types
    <3>2. CASE k # "connectDestroyed"
      <4>1. mishaps' = mishaps
        BY <1>1, <1>4, <3>2, Zenon DEF RunHead, connectEstablished, forceCloseInLoop, history
      <4>. QED  BY <1>0, <3>2, <4>1, Zenon DEF Types
    <3>. QED  BY <3>1, <3>2, Zenon
  <2>6. Names' /\ Known' /\ Mapped' /\ Held'
    BY <1>1, <2>1, <2>2, <2>4, <2>5, RunOne, ZenonT(60)
  <2>. DEFINE none == [m \in Loops |-> {}]
  <2>7. Carries(l, none) /\ \A m \in Loops : none[m] = {}
    BY <1>0, <1>1, <2>1, CarriesPopped, Zenon
  <2>. HIDE DEF none
  <2>8. connections_' \subseteq connections_
    BY <2>1, Zenon
  <2>9. \A m \in Loops, j \in Kinds, d \in Ids : <<j, d>> \in none[m] => Refs(d)
    BY <2>7, Zenon
  <2>. QED  BY <2>4, <2>5, <2>6, <2>7, <2>8, <2>9, Zenon DEF Keeps, Told
<1>. QED  BY <1>3, <1>4, Zenon

\* An IO loop runs a functor of its batch.
LEMMA RunFunctorInv ==
  ASSUME Order, NEW l \in IoLoops, RunFunctor(l)
  PROVE  Order' /\ Calm
<1>. USE DEF pool, acceptor, map, life, user, kernel, history
<1>0. Types /\ Counts /\ l \in Loops /\ l # 0 /\ Len(functors[l]) \in Nat
  BY LoopNumbers, LoopTypes, Zenon DEF Order, Types
<1>1. /\ UNCHANGED <<numThreads_, next_, nextConnId_, external, idleFd_, got>>
      /\ UNCHANGED <<server, caller, pc, backlog, arrived>>
  BY Zenon DEF RunFunctor
<1>2. io[l].batch \in Nat /\ io[l].batch > 0 /\ io[l].batch <= Len(functors[l])
  BY <1>0, Zenon DEF RunFunctor, Types, Counts
<1>3. Len(functors[l]) > 0
  BY <1>0, <1>2
<1>4. Keeps(l)
  BY <1>0, <1>1, <1>3, RunHeadKeeps, Zenon DEF RunFunctor
<1>5. PICK new : Carries(l, new) /\ \A m \in Loops, k \in Kinds, c \in Ids : <<k, c>> \in new[m] => Refs(c)
  BY <1>4, Zenon DEF Keeps
<1>6. /\ io' \in [IoLoops -> [phase : {"none", "events", "functors", "exited"}, batch : Nat, quit : BOOLEAN]]
      /\ io'[l].batch = io[l].batch - 1 /\ \A m \in IoLoops : m # l => io'[m] = io[m]
  <2>1. io' = [io EXCEPT ![l].batch = io[l].batch - 1] /\ io[l].batch - 1 \in Nat
    BY <1>0, <1>2, SMTT(60) DEF RunFunctor, Types
  <2>. QED  BY <1>0, <2>1, Zenon DEF Types
<1>7. Types'
  <2>1. functors' \in [Loops -> Seq(Functors)]
    BY <1>5, Zenon DEF Carries
  <2>2. connections_' \subseteq Ids
    BY <1>0, <1>4, Zenon DEF Keeps, Types
  <2>. QED  BY <1>0, <1>1, <1>4, <1>6, <2>1, <2>2, ZenonT(60) DEF Keeps, Types, Loops, IoLoops
<1>8. Counts'
  <2>1. ASSUME NEW m \in IoLoops
        PROVE  /\ Len(functors[m]) \in Nat /\ Len(functors'[m]) \in Nat
               /\ Len(functors'[m]) >= Len(functors[m]) - Gone(m, l)
    BY <1>0, <1>5, LoopNumbers, LoopTypes, SeqLen, Zenon DEF Carries, Types
  <2>2. ASSUME NEW m \in IoLoops PROVE io'[m].batch <= Len(functors'[m])
    <3>1. CASE m = l
      <4>1. Gone(m, l) = 1
        BY <3>1, Zenon DEF Gone
      <4>. QED  BY <1>2, <1>6, <2>1, <3>1, <4>1
    <3>2. CASE m # l
      <4>1. Gone(m, l) = 0 /\ io'[m] = io[m]
        BY <1>6, <3>2, Zenon DEF Gone
      <4>2. io[m].batch \in Nat /\ io[m].batch <= Len(functors[m])
        BY <1>0, Zenon DEF Counts, Types
      <4>. QED  BY <2>1, <4>1, <4>2
    <3>. QED  BY <3>1, <3>2, Zenon
  <2>. QED  BY <1>0, <1>1, <2>2, Zenon DEF Counts, IoLoops
<1>9. \A d \in Ids : Refs(d)' => Refs(d)
  <2>1. connections_' \subseteq connections_
    BY <1>4, Zenon DEF Keeps
  <2>. QED  BY <1>0, <1>1, <1>5, <1>7, <2>1, HoldersKept, Zenon
<1>. QED  BY <1>1, <1>4, <1>7, <1>8, <1>9, ZenonT(60) DEF Keeps, Order, Calm

\* Such a step outside the batch of an IO loop.
LEMMA KeepsInv ==
  ASSUME Order, NEW p, p \notin IoLoops, Keeps(p), caller' = caller \/ caller' = NoCall,
         UNCHANGED <<numThreads_, next_, nextConnId_, external, idleFd_, got>>,
         UNCHANGED <<server, pc, backlog, arrived, io>>
  PROVE  Order' /\ Calm
<1>0. Types /\ Counts
  BY Zenon DEF Order
<1>1. PICK new : Carries(p, new) /\ \A m \in Loops, k \in Kinds, c \in Ids : <<k, c>> \in new[m] => Refs(c)
  BY Zenon DEF Keeps
<1>2. Types'
  <2>1. functors' \in [Loops -> Seq(Functors)]
    BY <1>1, Zenon DEF Carries
  <2>2. connections_' \subseteq Ids
    BY <1>0, Zenon DEF Keeps, Types
  <2>. QED  BY <1>0, <2>1, <2>2, ZenonT(60) DEF Keeps, Types, Loops, IoLoops
<1>3. Counts'
  <2>1. \A l \in IoLoops : io'[l].batch <= Len(functors'[l])
    BY <1>0, <1>1, BatchesKept, Zenon
  <2>. QED  BY <1>0, <2>1, Zenon DEF Counts, IoLoops
<1>4. \A d \in Ids : Refs(d)' => Refs(d)
  <2>1. connections_' \subseteq connections_
    BY Zenon DEF Keeps
  <2>. QED  BY <1>0, <1>1, <1>2, <2>1, HoldersKept, Zenon
<1>. QED  BY <1>2, <1>3, <1>4, ZenonT(60) DEF Keeps, Order, Calm

\* The base loop runs the functor of a connection.
LEMMA RunInBaseInv ==
  ASSUME Order, RunInBase
  PROVE  Order' /\ Calm
<1>. USE DEF pool, acceptor, map, life, user, kernel, history
<1>0. Types /\ 0 \in Loops /\ 0 \notin IoLoops
  BY LoopNumbers, Zenon DEF Order, Types
<1>1. /\ UNCHANGED <<numThreads_, next_, nextConnId_, external, idleFd_, got>>
      /\ UNCHANGED <<server, caller, pc, backlog, arrived, io>>
      /\ functors[0] # << >> /\ RunHead(0)
  BY Zenon DEF RunInBase
<1>2. Len(functors[0]) > 0
  BY <1>0, <1>1, LoopTypes
<1>3. Keeps(0)
  BY <1>0, <1>1, <1>2, RunHeadKeeps, Zenon
<1>. QED  BY <1>0, <1>1, <1>3, KeepsInv, Zenon

\* A connection closes in its loop.
LEMMA CloseInv ==
  ASSUME Order, NEW c \in Ids, Close(c)
  PROVE  Order' /\ Calm
<1>. USE DEF pool, acceptor, map, life, user, kernel, history
<1>0. -1 \notin IoLoops
  <2>1. numThreads_ \in Nat
    BY Zenon DEF Order, Types
  <2>. QED  BY <2>1 DEF IoLoops
<1>1. /\ UNCHANGED <<numThreads_, next_, nextConnId_, external, idleFd_, got>>
      /\ UNCHANGED <<server, caller, pc, backlog, arrived, io>>
      /\ Made(c) /\ Refs(c) /\ IsUp(c) /\ handleClose(c, functors)
  BY Zenon DEF Close
<1>2. Keeps(-1)
  BY <1>1, HandleClose, Zenon
<1>. QED  BY <1>0, <1>1, <1>2, KeepsInv, Zenon

\* An IO loop tests quit_, and drops what waits in it if it ends.
LEMMA GoRoundInv ==
  ASSUME Order, NEW l \in IoLoops, GoRound(l)
  PROVE  Order' /\ Calm
<1>. USE DEF pool, acceptor, map, life, user, kernel, history
<1>0. Types /\ Counts /\ Names /\ Known /\ Mapped /\ l \in Loops /\ l # 0 /\ 0 \in Loops
  BY LoopNumbers, Zenon DEF Order, Types
<1>1. /\ UNCHANGED <<numThreads_, next_, nextConnId_, connections_, conns>>
      /\ UNCHANGED <<external, idleFd_, got, server, caller, pc, backlog, arrived>>
  BY Zenon DEF GoRound
<1>2. PICK ph \in {"events", "exited"} : io' = [io EXCEPT ![l].phase = ph]
  BY Zenon DEF GoRound
<1>3. /\ io' \in [IoLoops -> [phase : {"none", "events", "functors", "exited"}, batch : Nat, quit : BOOLEAN]]
      /\ \A m \in IoLoops : io'[m].batch = io[m].batch
  BY <1>0, <1>2, ZenonT(60) DEF Types
<1>4. io[l].batch = 0
  BY Zenon DEF GoRound
<1>5. mishaps \subseteq mishaps' /\ mishaps' \subseteq Mishaps
  BY <1>0, Zenon DEF GoRound, If, Mishaps, Types
<1>6. CASE functors' = functors
  <2>1. Types'
    BY <1>0, <1>1, <1>3, <1>5, <1>6, Zenon DEF Types, Loops, IoLoops
  <2>2. Counts'
    BY <1>0, <1>1, <1>3, <1>6, Zenon DEF Counts, IoLoops
  <2>3. Order' /\ \A c \in Ids : Refs(c)' => Refs(c)
    BY <1>1, <1>5, <1>6, <2>1, <2>2, Still, Zenon
  <2>. QED  BY <1>1, <2>3, Zenon DEF Calm
<1>7. CASE functors' # functors
  <2>1. functors' = [functors EXCEPT ![l] = << >>] /\ functors[l] # << >> /\ "leftBehind" \in mishaps'
    <3>1. functors' = [functors EXCEPT ![l] = << >>] /\ mishaps' = mishaps \cup If(functors[l] # << >>, "leftBehind")
      BY <1>7, Zenon DEF GoRound
    <3>2. functors[l] # << >>
      BY <1>0, <1>7, <3>1, Zenon DEF Types
    <3>. QED  BY <3>1, <3>2, Zenon DEF If
  <2>2. functors' \in [Loops -> Seq(Functors)] /\ functors'[l] = << >>
        /\ \A m \in Loops : m # l => functors'[m] = functors[m]
    <3>1. << >> \in Seq(Functors)
      OBVIOUS
    <3>. QED  BY <1>0, <2>1, <3>1, Zenon DEF Types
  <2>3. Len(functors'[l]) = 0
    BY <2>2
  <2>4. ASSUME NEW m \in Loops
        PROVE  \/ functors'[m] = functors[m] /\ m # l
               \/ 1..Len(functors'[m]) = {} /\ m = l
    BY <2>2, <2>3
  <2>5. ASSUME NEW m \in Loops, NEW k, NEW c PROVE Has(m, k, c)' => Has(m, k, c)
    BY <2>4, Zenon DEF Has
  <2>6. ASSUME NEW k, NEW c PROVE Has(0, k, c)' <=> Has(0, k, c)
    BY <1>0, <2>4, Zenon DEF Has
  <2>7. Types'
    BY <1>0, <1>1, <1>3, <1>5, <2>2, ZenonT(60) DEF Types, Loops, IoLoops
  <2>8. Counts'
    <3>1. \A m \in IoLoops : io'[m].batch <= Len(functors'[m])
      <4>1. ASSUME NEW m \in IoLoops, m # l PROVE io'[m].batch <= Len(functors'[m])
        <5>1. m \in Loops
          BY <1>0, LoopNumbers, Zenon DEF Types
        <5>. QED  BY <1>0, <1>3, <2>2, <4>1, <5>1, Zenon DEF Counts
      <4>2. io'[l].batch <= Len(functors'[l])
        BY <1>3, <1>4, <2>3
      <4>. QED  BY <4>1, <4>2, Zenon
    <3>. QED  BY <1>0, <1>1, <3>1, Zenon DEF Counts, IoLoops
  <2>9. Loops' = Loops /\ \A c \in Ids : Made(c)' <=> Made(c)
    BY <1>1, Zenon DEF Loops, Made
  <2>10. Names'
    <3>1. ASSUME NEW m \in Loops, NEW c \in Ids
          PROVE  /\ \A k \in Kinds : Has(m, k, c)' => Made(c) /\ m = IF k = "remove" THEN 0 ELSE conns[c].loop
                 /\ Has(m, "connectEstablished", c)' => m # 0 /\ conns[c].state_ = "kConnecting"
      BY <1>0, <2>5, Zenon DEF Names
    <3>2. ASSUME NEW m \in Loops, NEW c \in Ids,
                 NEW i \in 1..Len(functors'[m]), NEW j \in 1..Len(functors'[m]),
                 functors'[m][i] = <<"connectEstablished", c>>,
                 functors'[m][j] \in {<<"connectEstablished", c>>, <<"connectDestroyed", c>>}
          PROVE  i <= j
      BY <1>0, <2>4, <3>2, SMTT(60) DEF Names
    <3>. QED  BY <1>1, <2>9, <3>1, <3>2 DEF Names
  <2>11. Mapped'
    <3>1. functors'[0] = functors[0]
      BY <1>0, <2>2, Zenon
    <3>2. "revived" \notin mishaps' => "revived" \notin mishaps
      BY <1>5, Zenon
    <3>. QED  BY <1>0, <1>1, <2>5, <2>6, <2>9, <3>1, <3>2, ZenonT(60) DEF Mapped
  <2>12. Held'
    BY <2>1, Zenon DEF Held, Unharmed
  <2>13. ASSUME NEW c \in Ids, Refs(c)' PROVE Refs(c)
    <3>1. c \in connections_' \/ caller'.conn = c \/ \E m \in Loops, k \in Kinds : Has(m, k, c)'
      BY <1>1, <2>7, <2>13, WhoHoldsThen, Zenon
    <3>. QED  BY <1>0, <1>1, <2>5, <3>1, WhoHolds, Zenon
  <2>14. Known'
    BY <1>0, <1>1, Zenon DEF Known, Made
  <2>. QED  BY <1>1, <2>7, <2>8, <2>10, <2>11, <2>12, <2>13, <2>14, ZenonT(60) DEF Order, Calm
<1>. QED  BY <1>6, <1>7, Zenon

\* A functor of which there is one is gone once it leaves the front of its loop.
LEMMA GoneOnce ==
  ASSUME Types, NEW p \in Loops, NEW new, Carries(p, new), NEW f,
         \A i, j \in 1..Len(functors[p]) : functors[p][i] = f /\ functors[p][j] = f => i = j,
         functors[p][1] = f, f \notin new[p]
  PROVE  ~ \E i \in 1..Len(functors'[p]) : functors'[p][i] = f
<1>. SUFFICES ASSUME NEW i \in 1..Len(functors'[p]), functors'[p][i] = f PROVE FALSE
  BY Zenon
<1>1. Gone(p, p) = 1 /\ Len(functors[p]) \in Nat
  BY LoopTypes, Zenon DEF Gone
<1>2. /\ Gone(p, p) <= Len(functors[p])
      /\ \A a \in 1..(Len(functors[p]) - Gone(p, p)) : functors'[p][a] = functors[p][a + Gone(p, p)]
      /\ i > Len(functors[p]) - Gone(p, p) => functors'[p][i] \in new[p]
      /\ functors' \in [Loops -> Seq(Functors)]
  BY Zenon DEF Carries
<1>3. Len(functors'[p]) \in Nat
  BY <1>2, SeqLen, Zenon
<1>4. i \in Nat /\ i >= 1 /\ i <= Len(functors[p]) - 1
  BY <1>1, <1>2, <1>3
<1>5. i \in 1..(Len(functors[p]) - 1) /\ i + 1 \in 1..Len(functors[p]) /\ 1 \in 1..Len(functors[p])
  BY <1>1, <1>4, SMTT(60)
<1>6. functors[p][i + 1] = f
  BY <1>1, <1>2, <1>5, Zenon
<1>7. i + 1 = 1
  BY <1>5, <1>6, Zenon
<1>. QED  BY <1>4, <1>7

\* The removal runs in the base loop.
LEMMA RemoveFunctorInv ==
  ASSUME Order, RemoveFunctor
  PROVE  Order' /\ Calm
<1>. USE DEF pool, acceptor, map, life, user, kernel, history
<1>0. Types /\ Counts /\ Names /\ Known /\ Mapped /\ Held /\ 0 \in Loops /\ 0 \notin IoLoops /\ functors[0] # << >>
  BY LoopNumbers, Zenon DEF Order, Types, RemoveFunctor
<1>1. /\ UNCHANGED <<numThreads_, next_, nextConnId_, external, idleFd_, got>>
      /\ UNCHANGED <<conns, server, caller, mishaps, pc, backlog, arrived, io>>
  BY Zenon DEF RemoveFunctor
<1>2. Len(functors[0]) > 0
  BY <1>0, LoopTypes
<1>3. PICK k, c : /\ functors[0][1] = <<k, c>> /\ k \in Kinds /\ c \in Ids /\ Has(0, k, c)
                  /\ Head(functors[0])[1] = k /\ Head(functors[0])[2] = c
  BY <1>0, <1>2, First, Zenon
<1>4. k = "remove"
  BY <1>3, Zenon DEF RemoveFunctor
<1>5. Made(c) /\ conns[c].loop \in Loops
  BY <1>0, <1>3, Zenon DEF Names, Types
<1>6. Loops' = Loops /\ (\A d \in Ids : Made(d)' <=> Made(d)) /\ Kinds' = Kinds
  BY <1>1, Zenon DEF Loops, Made
<1>. DEFINE new == [m \in Loops |-> IF server = "up" /\ m = conns[c].loop THEN {<<"connectDestroyed", c>>} ELSE {}]
<1>7. Carries(0, new)
  <2>1. CASE server = "up"
    <3>1. functors' = Push([functors EXCEPT ![0] = Tail(@)], conns[c].loop, <<"connectDestroyed", c>>)
      BY <1>3, <2>1, Zenon DEF RemoveFunctor, removeConnectionInLoop
    <3>2. <<"connectDestroyed", c>> \in Functors
      BY <1>3, Zenon DEF Functors, Kinds
    <3>3. Carries(0, [m \in Loops |-> IF m = conns[c].loop THEN {<<"connectDestroyed", c>>} ELSE {}])
      BY <1>0, <1>5, <3>1, <3>2, CarriesBoth, Zenon
    <3>4. new = [m \in Loops |-> IF m = conns[c].loop THEN {<<"connectDestroyed", c>>} ELSE {}]
      BY <2>1, Zenon
    <3>. QED  BY <3>3, <3>4, Zenon
  <2>2. CASE server # "up"
    <3>1. functors' = [functors EXCEPT ![0] = Tail(@)]
      BY <2>2, Zenon DEF RemoveFunctor
    <3>2. Carries(0, [m \in Loops |-> {}])
      BY <1>0, <3>1, CarriesPopped, Zenon
    <3>3. new = [m \in Loops |-> {}]
      BY <2>2, Zenon
    <3>. QED  BY <3>2, <3>3, Zenon
  <2>. QED  BY <2>1, <2>2, Zenon
<1>8. \A m \in Loops : \A f : f \in new[m] => server = "up" /\ m = conns[c].loop /\ f = <<"connectDestroyed", c>>
  BY Zenon
<1>. HIDE DEF new
<1>9. connections_' = IF server = "up" THEN connections_ \ {c} ELSE connections_
  BY <1>3, Zenon DEF RemoveFunctor, removeConnectionInLoop
<1>10. Types'
  <2>1. functors' \in [Loops -> Seq(Functors)]
    BY <1>7, Zenon DEF Carries
  <2>2. connections_' \subseteq Ids
    BY <1>0, <1>9, Zenon DEF Types
  <2>. QED  BY <1>0, <1>1, <2>1, <2>2, ZenonT(60) DEF Types, Loops, IoLoops
<1>11. Counts'
  BY <1>0, <1>1, <1>7, BatchesKept, Zenon DEF Counts, IoLoops
<1>12. ASSUME NEW m \in Loops, NEW j, NEW d
       PROVE  /\ Has(m, j, d)' => Has(m, j, d) \/ (server = "up" /\ m = conns[c].loop /\ j = "connectDestroyed" /\ d = c)
              /\ Has(m, j, d) => Has(m, j, d)' \/ (m = 0 /\ j = "remove" /\ d = c)
  <2>1. /\ Has(m, j, d)' => Has(m, j, d) \/ <<j, d>> \in new[m]
        /\ Has(m, j, d) => Has(m, j, d)' \/ (m = 0 /\ functors[m][1] = <<j, d>>)
    BY <1>0, <1>7, CarriedHas, Zenon
  <2>. QED  BY <1>3, <1>4, <1>8, <2>1, SMTT(60)
<1>13. Names'
  <2>1. \A m \in Loops, j \in Kinds, d \in Ids : <<j, d>> \in new[m] =>
          Made(d)' /\ m = IF j = "remove" THEN 0 ELSE conns'[d].loop
    BY <1>1, <1>5, <1>6, <1>8, SMTT(60)
  <2>2. \A m \in Loops, d \in Ids : <<"connectEstablished", d>> \notin new[m]
    BY <1>8, SMTT(60)
  <2>3. \A m \in Loops, d \in Ids : Has(m, "connectEstablished", d)' => m # 0 /\ conns'[d].state_ = "kConnecting"
    <3>1. \A m \in Loops, d \in Ids : Has(m, "connectEstablished", d)' => Has(m, "connectEstablished", d)
      BY <1>12
    <3>. QED  BY <1>0, <1>1, <3>1, Zenon DEF Names
  <2>4. \A d \in Ids : Made(d) => Made(d)' /\ conns'[d].loop = conns[d].loop
    BY <1>1, <1>6, Zenon
  <2>. QED  BY <1>0, <1>1, <1>7, <2>1, <2>2, <2>3, <2>4, NamesKept, ZenonT(60)
<1>14. Mapped'
  <2>. SUFFICES ASSUME server = "up", "revived" \notin mishaps, NEW d \in Ids
                PROVE  /\ Made(d) => (d \in connections_' <=> conns[d].state_ # "kDisconnected" \/ Has(0, "remove", d)')
                       /\ Has(0, "remove", d)' => conns[d].state_ = "kDisconnected"
                       /\ \A m \in Loops : Has(m, "connectDestroyed", d)' =>
                            conns[d].state_ = "kDisconnected" /\ d \notin connections_'
                       /\ \A i, j \in 1..Len(functors'[0]) :
                            functors'[0][i] = <<"remove", d>> /\ functors'[0][j] = <<"remove", d>> => i = j
    BY <1>1, <1>6, Zenon DEF Mapped
  <2>1. /\ Made(d) => (d \in connections_ <=> conns[d].state_ # "kDisconnected" \/ Has(0, "remove", d))
        /\ Has(0, "remove", d) => conns[d].state_ = "kDisconnected"
        /\ \A m \in Loops : Has(m, "connectDestroyed", d) =>
             conns[d].state_ = "kDisconnected" /\ d \notin connections_
        /\ \A i, j \in 1..Len(functors[0]) :
             functors[0][i] = <<"remove", d>> /\ functors[0][j] = <<"remove", d>> => i = j
    BY <1>0, Zenon DEF Mapped
  <2>2. <<"remove", d>> \notin new[0]
    BY <1>0, <1>8
  <2>3. \A i, j \in 1..Len(functors'[0]) :
          functors'[0][i] = <<"remove", d>> /\ functors'[0][j] = <<"remove", d>> => i = j
    BY <1>0, <1>7, <2>1, <2>2, OnceKept, Zenon
  <2>4. CASE d # c
    <3>1. Has(0, "remove", d)' <=> Has(0, "remove", d)
      BY <1>0, <1>12, <2>4
    <3>2. \A m \in Loops : Has(m, "connectDestroyed", d)' => Has(m, "connectDestroyed", d)
      BY <1>12, <2>4
    <3>3. d \in connections_' <=> d \in connections_
      BY <1>9, <2>4, Zenon
    <3>. QED  BY <2>1, <2>3, <3>1, <3>2, <3>3, Zenon
  <2>5. CASE d = c
    <3>1. conns[d].state_ = "kDisconnected" /\ d \notin connections_'
      BY <1>3, <1>4, <1>9, <2>1, <2>5, Zenon
    <3>2. functors[0][1] = <<"remove", d>>
      BY <1>3, <1>4, <2>5, Zenon
    <3>3. ~ \E i \in 1..Len(functors'[0]) : functors'[0][i] = <<"remove", d>>
      BY <1>0, <1>7, <2>1, <2>2, <3>2, GoneOnce, Zenon
    <3>4. ~Has(0, "remove", d)'
      BY <3>3, Zenon DEF Has
    <3>. QED  BY <2>3, <3>1, <3>4, Zenon
  <2>. QED  BY <2>4, <2>5, Zenon
<1>15. Held'
  <2>. SUFFICES ASSUME Unharmed, NEW d \in Ids, Made(d)
                PROVE  /\ conns[d].state_ = "kConnecting" => Has(conns[d].loop, "connectEstablished", d)'
                       /\ server # "up" /\ conns[d].state_ # "kDisconnected" => Has(conns[d].loop, "connectDestroyed", d)'
    BY <1>1, <1>6, Zenon DEF Held, Unharmed
  <2>1. conns[d].loop \in Loops /\ conns'[d].loop = conns[d].loop
    BY <1>0, <1>1, Zenon DEF Types
  <2>. QED  BY <1>0, <1>12, <2>1, SMTT(60) DEF Held
<1>16. \A d \in Ids : Refs(d)' => Refs(d)
  <2>1. Refs(c)
    BY <1>0, <1>3, WhoHolds, Zenon
  <2>2. \A m \in Loops, j \in Kinds, d \in Ids : <<j, d>> \in new[m] => Refs(d)
    BY <1>8, <2>1
  <2>3. connections_' \subseteq connections_
    BY <1>9, Zenon
  <2>. QED  BY <1>0, <1>1, <1>7, <1>10, <2>2, <2>3, HoldersKept, Zenon
<1>17. \A d \in Ids : conns'[d].loop = conns[d].loop
  BY <1>1, Zenon
<1>18. Known'
  <2>1. connections_' \subseteq connections_
    BY <1>9, Zenon
  <2>2. \A d \in Ids : conns'[d].state_ = "kConnecting" => conns[d].state_ = "kConnecting"
    BY <1>1, Zenon
  <2>. QED  BY <1>0, <1>1, <1>6, <2>1, <2>2, KnownKept, Zenon
<1>. QED  BY <1>1, <1>10, <1>11, <1>13, <1>14, <1>15, <1>16, <1>17, <1>18, ZenonT(60) DEF Order, Calm

\* setState(kDisconnecting), and the functor of forceClose(), for a connection that
\* was established.
LEMMA SetKeeps ==
  ASSUME Order, NEW call, NEW c \in Ids, Made(c), Refs(c), conns[c].state_ # "kConnecting",
         SetDisconnecting(call, c), caller' = caller \/ caller' = NoCall
  PROVE  Keeps(-1)
<1>. USE DEF pool, acceptor, map, life, kernel
<1>0. Types /\ Names /\ Known /\ Mapped /\ Held /\ 0 \in Loops /\ -1 \notin Loops /\ conns[c].loop \in Loops
  <2>1. Types /\ Names /\ Known /\ Mapped /\ Held /\ numThreads_ \in Nat /\ conns[c].loop \in Loops
    BY Zenon DEF Order, Types
  <2>. QED  BY <2>1, LoopNumbers
<1>1. UNCHANGED <<numThreads_, nextConnId_, server, connections_>>
  BY Zenon DEF SetDisconnecting
<1>2. Told(c, "kDisconnecting")
  <2>1. conns' = [conns EXCEPT ![c].state_ = "kDisconnecting"] /\ "kDisconnecting" \in States
    BY Zenon DEF SetDisconnecting, States
  <2>. QED  BY <1>0, <2>1, Retold, Zenon
<1>3. /\ \A d \in Ids : conns'[d].loop = conns[d].loop
      /\ \A d \in Ids : d # c => conns'[d].state_ = conns[d].state_
      /\ conns'[c].state_ = "kDisconnecting"
  BY <1>2, Zenon DEF Told
<1>4. /\ mishaps \subseteq mishaps' /\ mishaps' \subseteq Mishaps
      /\ "revived" \notin mishaps' => conns[c].state_ # "kDisconnected" /\ "revived" \notin mishaps
  BY <1>0, ZenonT(60) DEF SetDisconnecting, If, Mishaps, Types
<1>. DEFINE new == [m \in Loops |-> IF call # "shutdown" /\ m = conns[c].loop
                                    THEN {<<"forceCloseInLoop", c>>} ELSE {}]
<1>5. Carries(-1, new)
  <2>1. CASE call = "shutdown"
    <3>1. functors' = functors
      BY <2>1, Zenon DEF SetDisconnecting
    <3>2. Carries(-1, [m \in Loops |-> {}])
      BY <1>0, <3>1, CarriesNothing, Zenon
    <3>3. new = [m \in Loops |-> {}]
      BY <2>1, Zenon
    <3>. QED  BY <3>2, <3>3, Zenon
  <2>2. CASE call # "shutdown"
    <3>1. functors' = Push(functors, conns[c].loop, <<"forceCloseInLoop", c>>)
      BY <2>2, Zenon DEF SetDisconnecting
    <3>2. <<"forceCloseInLoop", c>> \in Functors
      BY Zenon DEF Functors, Kinds
    <3>3. Carries(-1, [m \in Loops |-> IF m = conns[c].loop THEN {<<"forceCloseInLoop", c>>} ELSE {}])
      BY <1>0, <3>1, <3>2, CarriesPushed, Zenon
    <3>4. new = [m \in Loops |-> IF m = conns[c].loop THEN {<<"forceCloseInLoop", c>>} ELSE {}]
      BY <2>2, Zenon
    <3>. QED  BY <3>3, <3>4, Zenon
  <2>. QED  BY <2>1, <2>2, Zenon
<1>6. \A m \in Loops : \A f : f \in new[m] => m = conns[c].loop /\ f = <<"forceCloseInLoop", c>>
  BY Zenon
<1>. HIDE DEF new
<1>7. ASSUME NEW m \in Loops, NEW j, NEW d
      PROVE  /\ Has(m, j, d)' => Has(m, j, d) \/ j = "forceCloseInLoop"
             /\ Has(m, j, d) => Has(m, j, d)'
  <2>1. /\ Has(m, j, d)' => Has(m, j, d) \/ <<j, d>> \in new[m]
        /\ Has(m, j, d) => Has(m, j, d)' \/ (m = -1 /\ functors[m][1] = <<j, d>>)
    BY <1>0, <1>5, CarriedHas, Zenon
  <2>2. <<j, d>> \in new[m] => j = "forceCloseInLoop"
    BY <1>6
  <2>. QED  BY <1>0, <2>1, <2>2, Zenon
<1>8. Loops' = Loops /\ \A d \in Ids : Made(d)' <=> Made(d)
  BY <1>1, Zenon DEF Loops, Made
<1>9. Names'
  <2>1. \A m \in Loops, j \in Kinds, d \in Ids : <<j, d>> \in new[m] =>
          Made(d)' /\ m = IF j = "remove" THEN 0 ELSE conns'[d].loop
    BY <1>3, <1>6, <1>8, SMTT(20)
  <2>2. \A m \in Loops, d \in Ids : <<"connectEstablished", d>> \notin new[m]
    BY <1>6
  <2>3. ASSUME NEW m \in Loops, NEW d \in Ids, Has(m, "connectEstablished", d)'
        PROVE  m # 0 /\ conns'[d].state_ = "kConnecting"
    <3>1. Has(m, "connectEstablished", d)
      BY <1>7, <2>3
    <3>2. m # 0 /\ conns[d].state_ = "kConnecting"
      BY <1>0, <3>1, Zenon DEF Names
    <3>. QED  BY <1>3, <3>2, Zenon
  <2>4. \A d \in Ids : Made(d) => Made(d)' /\ conns'[d].loop = conns[d].loop
    BY <1>3, <1>8, Zenon
  <2>. QED  BY <1>0, <1>1, <1>5, <2>1, <2>2, <2>3, <2>4, NamesKept, ZenonT(60)
<1>10. Known'
  <2>1. \A d \in Ids : conns'[d].state_ = "kConnecting" => conns[d].state_ = "kConnecting"
    BY <1>3
  <2>2. connections_' \subseteq connections_
    BY <1>1, Zenon
  <2>. QED  BY <1>0, <1>8, <2>1, <2>2, KnownKept, Zenon
<1>11. Mapped'
  <2>. SUFFICES ASSUME server = "up", "revived" \notin mishaps', NEW d \in Ids
                PROVE  /\ Made(d) => (d \in connections_ <=> conns'[d].state_ # "kDisconnected" \/ Has(0, "remove", d)')
                       /\ Has(0, "remove", d)' => conns'[d].state_ = "kDisconnected"
                       /\ \A m \in Loops : Has(m, "connectDestroyed", d)' =>
                            conns'[d].state_ = "kDisconnected" /\ d \notin connections_
                       /\ \A i, j \in 1..Len(functors'[0]) :
                            functors'[0][i] = <<"remove", d>> /\ functors'[0][j] = <<"remove", d>> => i = j
    BY <1>1, <1>8, Zenon DEF Mapped
  <2>1. /\ Made(d) => (d \in connections_ <=> conns[d].state_ # "kDisconnected" \/ Has(0, "remove", d))
        /\ Has(0, "remove", d) => conns[d].state_ = "kDisconnected"
        /\ \A m \in Loops : Has(m, "connectDestroyed", d) =>
             conns[d].state_ = "kDisconnected" /\ d \notin connections_
        /\ \A i, j \in 1..Len(functors[0]) :
             functors[0][i] = <<"remove", d>> /\ functors[0][j] = <<"remove", d>> => i = j
    BY <1>0, <1>4, Zenon DEF Mapped
  <2>2. conns'[d].state_ = "kDisconnected" <=> conns[d].state_ = "kDisconnected"
    <3>1. "kDisconnecting" # "kDisconnected"
      OBVIOUS
    <3>. QED  BY <1>3, <1>4, <3>1, Zenon
  <2>3. Has(0, "remove", d)' <=> Has(0, "remove", d)
    BY <1>0, <1>7, SMTT(20)
  <2>4. \A m \in Loops : Has(m, "connectDestroyed", d)' => Has(m, "connectDestroyed", d)
    BY <1>7
  <2>5. \A i, j \in 1..Len(functors'[0]) :
          functors'[0][i] = <<"remove", d>> /\ functors'[0][j] = <<"remove", d>> => i = j
    <3>1. <<"remove", d>> \notin new[0]
      BY <1>0, <1>6
    <3>. QED  BY <1>0, <1>5, <2>1, <3>1, OnceKept, ZenonT(60)
  <2>. QED  BY <2>1, <2>2, <2>3, <2>4, <2>5, Zenon
<1>12. Held'
  <2>. SUFFICES ASSUME Unharmed', NEW d \in Ids, Made(d)
                PROVE  /\ conns'[d].state_ = "kConnecting" => Has(conns[d].loop, "connectEstablished", d)'
                       /\ server # "up" /\ conns'[d].state_ # "kDisconnected" => Has(conns[d].loop, "connectDestroyed", d)'
    BY <1>1, <1>3, <1>8, Zenon DEF Held
  <2>1. Unharmed /\ (d = c => conns[d].state_ # "kDisconnected") /\ conns[d].loop \in Loops
    BY <1>0, <1>4, Zenon DEF Unharmed, Types
  <2>2. /\ conns[d].state_ = "kConnecting" => Has(conns[d].loop, "connectEstablished", d)
        /\ server # "up" /\ conns[d].state_ # "kDisconnected" => Has(conns[d].loop, "connectDestroyed", d)
    BY <1>0, <2>1, Zenon DEF Held
  <2>3. /\ Has(conns[d].loop, "connectEstablished", d) => Has(conns[d].loop, "connectEstablished", d)'
        /\ Has(conns[d].loop, "connectDestroyed", d) => Has(conns[d].loop, "connectDestroyed", d)'
    BY <1>3, <1>7, <2>1, Zenon
  <2>4. conns'[d].state_ = "kConnecting" => conns[d].state_ = "kConnecting"
    BY <1>3
  <2>5. conns'[d].state_ # "kDisconnected" => conns[d].state_ # "kDisconnected"
    BY <1>3, <2>1, Zenon
  <2>. QED  BY <2>2, <2>3, <2>4, <2>5, Zenon
<1>13. \A m \in Loops, j \in Kinds, d \in Ids : <<j, d>> \in new[m] => Refs(d)
  BY <1>6
<1>14. connections_' \subseteq connections_
  BY <1>1, Zenon
<1>. QED  BY <1>2, <1>4, <1>5, <1>9, <1>10, <1>11, <1>12, <1>13, <1>14, ZenonT(60) DEF Keeps, Told

\* shutdown() and forceClose(), in the connection's loop or by the other thread.
LEMMA CallsInv ==
  ASSUME Order,
         \/ \E call \in {"shutdown", "forceClose"}, c \in Ids : CallInLoop(call, c) \/ TestState(call, c)
         \/ FinishCall
  PROVE  Order' /\ Calm
<1>. USE DEF pool, acceptor, map, life, user, kernel, history
<1>0. Types /\ Counts /\ Known /\ -1 \notin IoLoops
  <2>1. Types /\ Counts /\ Known /\ numThreads_ \in Nat
    BY Zenon DEF Order, Types
  <2>. QED  BY <2>1 DEF IoLoops
<1>1. ASSUME NEW call, NEW c \in Ids, Made(c), Refs(c), conns[c].state_ # "kConnecting",
             SetDisconnecting(call, c), caller' = caller \/ caller' = NoCall
      PROVE  Order' /\ Calm
  <2>1. /\ UNCHANGED <<numThreads_, next_, nextConnId_, external, idleFd_, got>>
        /\ UNCHANGED <<server, pc, backlog, arrived, io>>
    BY <1>1, Zenon DEF SetDisconnecting
  <2>2. Keeps(-1)
    BY <1>1, SetKeeps, Zenon
  <2>. QED  BY <1>0, <1>1, <2>1, <2>2, KeepsInv, Zenon
<1>2. ASSUME NEW call, NEW c \in Ids, Passes(call, c) PROVE conns[c].state_ # "kConnecting"
  BY <1>2, Zenon DEF Passes, IsUp
<1>3. ASSUME NEW call \in {"shutdown", "forceClose"}, NEW c \in Ids, CallInLoop(call, c)
      PROVE  Order' /\ Calm
  <2>1. Made(c) /\ Refs(c) /\ Passes(call, c) /\ SetDisconnecting(call, c) /\ caller' = caller
    BY <1>3, Zenon DEF CallInLoop, Begin
  <2>. QED  BY <1>1, <1>2, <2>1, Zenon
<1>4. ASSUME NEW call \in {"shutdown", "forceClose"}, NEW c \in Ids, TestState(call, c)
      PROVE  Order' /\ Calm
  <2>1. /\ UNCHANGED <<numThreads_, next_, nextConnId_, external, idleFd_, got>>
        /\ UNCHANGED <<connections_, functors, conns, server, mishaps, pc, backlog, arrived, io>>
        /\ caller' = [call |-> call, conn |-> c] /\ Made(c) /\ Refs(c) /\ Passes(call, c)
    BY <1>4, Zenon DEF TestState, Begin
  <2>2. Names' /\ Mapped' /\ Held'
    BY <2>1, Alike, Zenon
  <2>3. caller'.conn = c /\ caller' \in [call : {"shutdown", "forceClose"}, conn : Ids]
    BY <2>1, Zenon
  <2>4. Types'
    BY <1>0, <2>1, <2>3, ZenonT(60) DEF Types, Loops, IoLoops
  <2>5. Counts'
    BY <1>0, <2>1, Zenon DEF Counts, IoLoops
  <2>6. Known'
    BY <1>0, <1>2, <2>1, <2>3, Zenon DEF Known, Made
  <2>7. \A d \in Ids : Refs(d)' => Refs(d)
    BY <2>1, <2>3, Zenon DEF Refs, Loops
  <2>8. \A d \in Ids : conns'[d].loop = conns[d].loop
    BY <2>1, Zenon
  <2>. QED  BY <2>1, <2>2, <2>4, <2>5, <2>6, <2>7, <2>8, ZenonT(60) DEF Order, Calm
<1>5. CASE FinishCall
  <2>1. caller # NoCall /\ SetDisconnecting(caller.call, caller.conn) /\ caller' = NoCall
    BY <1>5, Zenon DEF FinishCall
  <2>2. PICK c \in Ids : caller.conn = c
    BY <1>0, <2>1, Zenon DEF Types
  <2>3. Made(c) /\ Refs(c) /\ conns[c].state_ # "kConnecting"
    BY <1>0, <2>2, Zenon DEF Known, Refs
  <2>. QED  BY <1>1, <2>1, <2>2, <2>3, Zenon
<1>. QED  BY <1>3, <1>4, <1>5, Zenon

\* accept() gives a connection its number, its loop and its place in the map.
LEMMA AcceptInv ==
  ASSUME Order, Accept
  PROVE  Order' /\ nextConnId_ \in Ids /\ \A d \in Ids : Refs(d)' => Refs(d) \/ d = nextConnId_
<1>. USE DEF acceptor, life, user, history
<1>. DEFINE c == nextConnId_
            new == [m \in Loops |-> IF numThreads_ # 0 /\ m = NextLoop THEN {<<"connectEstablished", c>>} ELSE {}]
<1>0. Types /\ Counts /\ Names /\ Known /\ Mapped /\ Held
  BY Zenon DEF Order
<1>1. /\ UNCHANGED <<numThreads_, external, idleFd_, got>>
      /\ UNCHANGED <<server, caller, arrived, io, mishaps>> /\ pc' = "idle" /\ server = "up"
      /\ backlog' = backlog - 1 /\ backlog > 0
  BY <1>0, Zenon DEF Accept, Counts
<1>2. newConnection(c)
  BY Zenon DEF Accept
<1>3. 0 \in Loops /\ -1 \notin IoLoops /\ numThreads_ \in Nat
  <2>1. numThreads_ \in Nat
    BY <1>0, Zenon DEF Types
  <2>. QED  BY <2>1, LoopNumbers DEF IoLoops
<1>4. c \in Ids /\ c \in Nat /\ c + 1 \in 1..(MaxConns + 1) /\ (c + 1) + backlog' <= arrived + 1 /\ backlog' \in Nat
  <2>1. c \in Nat /\ c >= 1 /\ backlog \in Nat /\ arrived \in 0..MaxConns /\ MaxConns \in Nat
        /\ c + backlog <= arrived + 1
    BY <1>0, Given DEF Types, Counts
  <2>. HIDE DEF c
  <2>. QED  BY <1>1, <2>1 DEF Ids
<1>5. NextLoop \in Loops /\ next_' \in Nat /\ (numThreads_ > 0 => next_' \in 0..(numThreads_ - 1))
  <2>1. CASE numThreads_ = 0
    BY <1>0, <1>2, <1>3, <2>1, SMTT(20) DEF NextLoop, newConnection, Types
  <2>2. CASE numThreads_ # 0
    <3>1. next_ \in 0..(numThreads_ - 1)
      BY <1>0, <1>3, <2>2 DEF Counts
    <3>. QED  BY <1>2, <1>3, <2>2, <3>1 DEF NextLoop, newConnection, Loops, advance
  <2>. QED  BY <2>1, <2>2, Zenon
<1>6. /\ nextConnId_' = c + 1 /\ connections_' = connections_ \cup {c}
      /\ conns' = [conns EXCEPT ![c] = [state_ |-> IF numThreads_ = 0 THEN "kConnected" ELSE "kConnecting",
                                        loop |-> NextLoop]]
      /\ functors' = IF numThreads_ = 0 THEN functors ELSE Push(functors, NextLoop, <<"connectEstablished", c>>)
  BY <1>2, Zenon DEF newConnection
<1>7. Carries(-1, new)
  <2>1. CASE numThreads_ = 0
    <3>1. Carries(-1, [m \in Loops |-> {}])
      BY <1>0, <1>6, <2>1, CarriesNothing, Zenon
    <3>2. new = [m \in Loops |-> {}]
      BY <2>1, Zenon
    <3>. QED  BY <3>1, <3>2, Zenon
  <2>2. CASE numThreads_ # 0
    <3>1. <<"connectEstablished", c>> \in Functors
      BY <1>4, Zenon DEF Functors, Kinds
    <3>2. Carries(-1, [m \in Loops |-> IF m = NextLoop THEN {<<"connectEstablished", c>>} ELSE {}])
      BY <1>0, <1>5, <1>6, <2>2, <3>1, CarriesPushed, Zenon
    <3>3. new = [m \in Loops |-> IF m = NextLoop THEN {<<"connectEstablished", c>>} ELSE {}]
      BY <2>2, Zenon
    <3>. QED  BY <3>2, <3>3, Zenon
  <2>. QED  BY <2>1, <2>2, Zenon
<1>8. \A m \in Loops : \A f : f \in new[m] <=> numThreads_ # 0 /\ m = NextLoop /\ f = <<"connectEstablished", c>>
  BY Zenon
<1>. HIDE DEF new, c
<1>9. /\ conns' \in [Ids -> [state_ : States, loop : Loops]]
      /\ conns'[c].state_ = IF numThreads_ = 0 THEN "kConnected" ELSE "kConnecting"
      /\ conns'[c].loop = NextLoop
      /\ \A d \in Ids : d # c => conns'[d] = conns[d]
  BY <1>0, <1>4, <1>5, <1>6, Zenon DEF Types, States
<1>10. Loops' = Loops /\ \A d \in Ids : (Made(d)' <=> Made(d) \/ d = c) /\ ~Made(c)
  <2>1. \A d \in Ids : d \in Nat
    BY Given, Zenon
  <2>. QED  BY <1>1, <1>4, <1>6, <2>1 DEF Loops, Made, c
<1>11. ASSUME NEW m \in Loops, NEW j, NEW d
       PROVE  Has(m, j, d)' <=> Has(m, j, d) \/ (numThreads_ # 0 /\ m = NextLoop /\ j = "connectEstablished" /\ d = c)
  <2>1. /\ Has(m, j, d)' => Has(m, j, d) \/ <<j, d>> \in new[m]
        /\ <<j, d>> \in new[m] => Has(m, j, d)'
        /\ Has(m, j, d) => Has(m, j, d)' \/ (m = -1 /\ functors[m][1] = <<j, d>>)
    BY <1>0, <1>7, CarriedHas, Zenon
  <2>2. m # -1
    BY <1>3, LoopNumbers
  <2>. QED  BY <1>8, <2>1, <2>2
<1>12. \A m \in Loops, j \in Kinds : ~Has(m, j, c)
  BY <1>0, <1>4, <1>10, Zenon DEF Names
<1>13. Types'
  <2>1. functors' \in [Loops -> Seq(Functors)]
    BY <1>7, Zenon DEF Carries
  <2>2. connections_' \subseteq Ids
    BY <1>0, <1>4, <1>6, Zenon DEF Types
  <2>. QED  BY <1>0, <1>1, <1>4, <1>5, <1>6, <1>9, <2>1, <2>2, Zenon DEF Types, Loops, IoLoops
<1>14. Counts'
  <2>1. \A l \in IoLoops : io'[l].batch <= Len(functors'[l])
    BY <1>0, <1>1, <1>3, <1>7, BatchesKept, Zenon
  <2>. QED  BY <1>1, <1>4, <1>5, <1>6, <2>1, Zenon DEF Counts, IoLoops
<1>15. Names'
  <2>1. \A m \in Loops, j \in Kinds, d \in Ids : <<j, d>> \in new[m] =>
          Made(d)' /\ m = IF j = "remove" THEN 0 ELSE conns'[d].loop
    BY <1>8, <1>9, <1>10
  <2>2. \A m \in Loops, d \in Ids : <<"connectEstablished", d>> \in new[m] =>
          /\ ~Has(m, "connectEstablished", d) /\ ~Has(m, "connectDestroyed", d)
          /\ <<"connectDestroyed", d>> \notin new[m]
    BY <1>8, <1>12, SMTT(60) DEF Kinds
  <2>3. \A m \in Loops, d \in Ids : Has(m, "connectEstablished", d)' => m # 0 /\ conns'[d].state_ = "kConnecting"
    <3>1. numThreads_ # 0 => NextLoop # 0
      BY <1>0, <1>3 DEF NextLoop, Counts
    <3>. QED  BY <1>0, <1>9, <1>11, <1>12, <3>1, SMTT(20) DEF Names, Kinds
  <2>4. \A d \in Ids : Made(d) => Made(d)' /\ conns'[d].loop = conns[d].loop
    BY <1>9, <1>10, Zenon
  <2>. QED  BY <1>0, <1>1, <1>7, <2>1, <2>2, <2>3, <2>4, NamesKept, Zenon
<1>16. Mapped'
  <2>. SUFFICES ASSUME "revived" \notin mishaps, NEW d \in Ids
                PROVE  /\ Made(d)' => (d \in connections_' <=> conns'[d].state_ # "kDisconnected" \/ Has(0, "remove", d)')
                       /\ Has(0, "remove", d)' => conns'[d].state_ = "kDisconnected"
                       /\ \A m \in Loops : Has(m, "connectDestroyed", d)' =>
                            conns'[d].state_ = "kDisconnected" /\ d \notin connections_'
                       /\ \A i, j \in 1..Len(functors'[0]) :
                            functors'[0][i] = <<"remove", d>> /\ functors'[0][j] = <<"remove", d>> => i = j
    BY <1>1, <1>10, Zenon DEF Mapped
  <2>1. /\ Made(d) => (d \in connections_ <=> conns[d].state_ # "kDisconnected" \/ Has(0, "remove", d))
        /\ Has(0, "remove", d) => conns[d].state_ = "kDisconnected"
        /\ \A m \in Loops : Has(m, "connectDestroyed", d) =>
             conns[d].state_ = "kDisconnected" /\ d \notin connections_
        /\ \A i, j \in 1..Len(functors[0]) :
             functors[0][i] = <<"remove", d>> /\ functors[0][j] = <<"remove", d>> => i = j
    BY <1>0, <1>1, Zenon DEF Mapped
  <2>2. Has(0, "remove", d)' <=> Has(0, "remove", d)
    BY <1>3, <1>11
  <2>3. \A m \in Loops : Has(m, "connectDestroyed", d)' <=> Has(m, "connectDestroyed", d)
    BY <1>11
  <2>4. \A i, j \in 1..Len(functors'[0]) :
          functors'[0][i] = <<"remove", d>> /\ functors'[0][j] = <<"remove", d>> => i = j
    <3>1. <<"remove", d>> \notin new[0]
      BY <1>3, <1>8
    <3>. QED  BY <1>0, <1>7, <2>1, <3>1, OnceKept, Zenon
  <2>5. CASE d # c
    BY <1>6, <1>9, <1>10, <2>1, <2>2, <2>3, <2>4, <2>5, Zenon
  <2>6. CASE d = c
    <3>1. ~Has(0, "remove", d) /\ \A m \in Loops : ~Has(m, "connectDestroyed", d)
      BY <1>3, <1>12, <2>6, Zenon DEF Kinds
    <3>2. conns'[d].state_ # "kDisconnected" /\ d \in connections_' /\ Made(d)'
      BY <1>6, <1>9, <1>10, <2>6, Zenon
    <3>. QED  BY <2>2, <2>3, <2>4, <3>1, <3>2, Zenon
  <2>. QED  BY <2>5, <2>6, Zenon
<1>17. Held'
  <2>. SUFFICES ASSUME Unharmed, NEW d \in Ids, Made(d)', conns'[d].state_ = "kConnecting"
                PROVE  Has(conns[d].loop, "connectEstablished", d)'
    BY <1>1, Zenon DEF Held, Unharmed
  <2>1. conns[d].loop \in Loops
    BY <1>0, Zenon DEF Types
  <2>2. CASE d # c
    BY <1>0, <1>9, <1>10, <1>11, <2>1, <2>2, Zenon DEF Held
  <2>3. CASE d = c
    BY <1>5, <1>9, <1>11, <2>3, Zenon
  <2>. QED  BY <2>2, <2>3, Zenon
<1>18. ASSUME NEW d \in Ids, Refs(d)' PROVE Refs(d) \/ d = c
  <2>1. d \in connections_' \/ caller'.conn = d \/ \E m \in Loops, j \in Kinds : Has(m, j, d)'
    BY <1>1, <1>13, <1>18, WhoHoldsThen, Zenon
  <2>. QED  BY <1>0, <1>1, <1>6, <1>11, <2>1, WhoHolds, SMTT(60)
<1>19. Known'
  <2>1. caller' = caller /\ \A d \in Ids : d \in connections_' => d \in connections_ \/ d = c
    BY <1>1, <1>6, Zenon
  <2>. QED  BY <1>0, <1>9, <1>10, <2>1, ZenonT(60) DEF Known
<1>. QED  BY <1>4, <1>13, <1>14, <1>15, <1>16, <1>17, <1>18, <1>19, ZenonT(60) DEF Order, c
-----------------------------------------------------------------------------
\* next_ tells which IO loops have one connection more than the others.
RoundRobin ==
  numThreads_ > 0 =>
    \E q \in 0..MaxConns : \A l \in IoLoops : Assigned(l) = q + (IF l <= next_ THEN 1 ELSE 0)

IInv == Order /\ Free \in 0..FdLimit /\ RoundRobin
-----------------------------------------------------------------------------
(***************************************************************************)
(* Descriptors.                                                            *)
(***************************************************************************)
Bit(b) == IF b THEN 1 ELSE 0
HeldConns == {c \in Ids : Refs(c)}

\* There are as many numbers for connections as connections may be made.
LEMMA IdsFinite == IsFiniteSet(Ids) /\ Cardinality(Ids) = MaxConns
<1>1. 1 \in Int /\ MaxConns \in Int /\ MaxConns \in Nat
  BY Given
<1>2. IsFiniteSet(1..MaxConns) /\ Cardinality(1..MaxConns) = IF 1 > MaxConns THEN 0 ELSE MaxConns - 1 + 1
  BY <1>1, FS_Interval, Zenon
<1>. QED  BY <1>1, <1>2 DEF Ids

\* Free in terms of the connections that are held.
LEMMA FreeIs ==
  ASSUME Types
  PROVE  /\ IsFiniteSet(HeldConns) /\ Cardinality(HeldConns) \in Nat
         /\ Free = FdLimit - Cardinality(HeldConns) - external - Bit(idleFd_) - Bit(got)
         /\ Bit(idleFd_) \in 0..1 /\ Bit(got) \in 0..1
<1>1. HeldConns \in SUBSET Ids
  BY Zenon DEF HeldConns
<1>2. IsFiniteSet(HeldConns)
  BY <1>1, IdsFinite, FS_Subset, Zenon
<1>. QED  BY <1>2, FS_CardinalityType DEF Free, HeldConns, Bit

\* A step that lets nobody hold a connection anew, and takes no more descriptors
\* than there are, keeps Free within its limits.
LEMMA FreeKept ==
  ASSUME Types, Types', Free \in 0..FdLimit, \A c \in Ids : Refs(c)' => Refs(c),
         external' + Bit(idleFd_)' + Bit(got)' <= external + Bit(idleFd_) + Bit(got) + Free
  PROVE  Free' \in 0..FdLimit
<1>. DEFINE a == Cardinality(HeldConns)
            b == Cardinality(HeldConns)'
<1>1. /\ IsFiniteSet(HeldConns) /\ a \in Nat
      /\ Free = FdLimit - a - external - Bit(idleFd_) - Bit(got)
      /\ Bit(idleFd_) \in 0..1 /\ Bit(got) \in 0..1
  BY FreeIs, Zenon
<1>2. HeldConns' \in SUBSET HeldConns
  BY Zenon DEF HeldConns
<1>3. IsFiniteSet(HeldConns') /\ Cardinality(HeldConns') <= Cardinality(HeldConns)
  BY <1>1, <1>2, FS_Subset, Zenon
<1>4. b \in Nat /\ b <= a
  BY <1>3, FS_CardinalityType, Zenon
<1>5. /\ Free' = FdLimit - b - external' - Bit(idleFd_)' - Bit(got)'
      /\ Bit(idleFd_)' \in 0..1 /\ Bit(got)' \in 0..1
  BY DEF Free, HeldConns, Bit, Types
<1>6. external \in Nat /\ external' \in Nat /\ FdLimit \in Nat
  BY Given, Zenon DEF Types
<1>. HIDE DEF a, b
<1>. QED  BY <1>1, <1>4, <1>5, <1>6

\* A step that lets one connection more be held, with a descriptor for it.
LEMMA FreeTaken ==
  ASSUME Types, Types', Free \in 0..FdLimit, Free > 0, NEW d \in Ids,
         \A c \in Ids : Refs(c)' => Refs(c) \/ c = d,
         UNCHANGED <<external, idleFd_, got>>
  PROVE  Free' \in 0..FdLimit
<1>. DEFINE a == Cardinality(HeldConns)
            b == Cardinality(HeldConns)'
<1>1. /\ IsFiniteSet(HeldConns) /\ a \in Nat
      /\ Free = FdLimit - a - external - Bit(idleFd_) - Bit(got)
      /\ Bit(idleFd_) \in 0..1 /\ Bit(got) \in 0..1
  BY FreeIs, Zenon
<1>2. HeldConns' \in SUBSET (HeldConns \cup {d})
  BY Zenon DEF HeldConns
<1>3. IsFiniteSet(HeldConns \cup {d}) /\ Cardinality(HeldConns \cup {d}) \in {a, a + 1}
  BY <1>1, FS_AddElement, Zenon
<1>4. IsFiniteSet(HeldConns') /\ Cardinality(HeldConns') <= Cardinality(HeldConns \cup {d})
  BY <1>2, <1>3, FS_Subset, Zenon
<1>5. b \in Nat /\ b <= a + 1
  BY <1>1, <1>3, <1>4, FS_CardinalityType
<1>6. Free' = FdLimit - b - external - Bit(idleFd_) - Bit(got)
  BY Zenon DEF Free, HeldConns, Bit
<1>7. external \in Nat /\ FdLimit \in Nat
  BY Given, Zenon DEF Types
<1>. HIDE DEF a, b
<1>. QED  BY <1>1, <1>5, <1>6, <1>7
-----------------------------------------------------------------------------
(***************************************************************************)
(* The round robin.                                                        *)
(***************************************************************************)
GivenTo(l) == {c \in Ids : Made(c) /\ conns[c].loop = l}

\* Connections do not change loops.
LEMMA SpreadKept ==
  ASSUME RoundRobin, UNCHANGED <<numThreads_, next_, nextConnId_>>,
         \A c \in Ids : conns'[c].loop = conns[c].loop
  PROVE  RoundRobin'
<1>1. ASSUME NEW l PROVE Assigned(l)' = Assigned(l)
  <2>1. {c \in Ids : Made(c) /\ conns[c].loop = l}' = {c \in Ids : Made(c) /\ conns[c].loop = l}
    BY Zenon DEF Made
  <2>. QED  BY <2>1, Zenon DEF Assigned
<1>. QED  BY <1>1, Zenon DEF RoundRobin, IoLoops

\* getNextLoop() goes round: the loop it returns has been given no more than any.
LEMMA SpreadNext ==
  ASSUME Types, Counts, RoundRobin, nextConnId_ \in Ids, numThreads_' = numThreads_,
         newConnection(nextConnId_)
  PROVE  RoundRobin'
<1>. SUFFICES ASSUME numThreads_ > 0 PROVE RoundRobin'
  BY Zenon DEF RoundRobin
<1>0. /\ numThreads_ \in Nat /\ numThreads_ # 0 /\ nextConnId_ \in Nat /\ MaxConns \in Nat
      /\ next_ \in 0..(numThreads_ - 1)
  BY Given DEF Types, Counts
<1>1. PICK q \in 0..MaxConns : \A l \in IoLoops : Assigned(l) = q + (IF l <= next_ THEN 1 ELSE 0)
  BY Zenon DEF RoundRobin
<1>2. /\ next_' = advance(next_, numThreads_) /\ nextConnId_' = nextConnId_ + 1
      /\ \A c \in Ids : conns'[c].loop = IF c = nextConnId_ THEN next_ + 1 ELSE conns[c].loop
  BY <1>0, Zenon DEF newConnection, NextLoop, Types
<1>3. ASSUME NEW l \in IoLoops
      PROVE  /\ Assigned(l)' = Assigned(l) + (IF l = next_ + 1 THEN 1 ELSE 0)
             /\ Assigned(l)' \in 0..MaxConns
  <2>. DEFINE A == GivenTo(l)
              B == {c \in Ids : Made(c) /\ conns[c].loop = l}'
  <2>0. Assigned(l) = Cardinality(A) /\ Assigned(l)' = Cardinality(B)
    BY Zenon DEF Assigned, GivenTo
  <2>1. A \in SUBSET Ids /\ B \in SUBSET Ids
    BY Zenon DEF GivenTo
  <2>2. IsFiniteSet(A)
    BY <2>1, IdsFinite, FS_Subset, Zenon
  <2>3. nextConnId_ \notin A
    BY <1>0 DEF GivenTo, Made
  <2>4. \A c \in Ids : (c < nextConnId_ + 1) <=> (c < nextConnId_ \/ c = nextConnId_)
    BY <1>0, Given
  <2>5. CASE l = next_ + 1
    <3>1. B = A \cup {nextConnId_}
      BY <1>2, <2>4, <2>5, Zenon DEF GivenTo, Made
    <3>2. Cardinality(A \cup {nextConnId_}) = Cardinality(A) + 1 /\ Cardinality(A) \in Nat
      BY <2>2, <2>3, FS_AddElement, FS_CardinalityType, ZenonT(60)
    <3>3. Cardinality(B) <= MaxConns
      BY <2>1, IdsFinite, FS_Subset, ZenonT(60)
    <3>. HIDE DEF A, B
    <3>. QED  BY <1>0, <2>0, <2>5, <3>1, <3>2, <3>3, SMTT(60)
  <2>6. CASE l # next_ + 1
    <3>1. B = A
      BY <1>2, <2>3, <2>4, <2>6, Zenon DEF GivenTo, Made
    <3>2. Cardinality(B) <= MaxConns /\ Cardinality(A) \in Nat
      BY <2>1, <2>2, IdsFinite, FS_Subset, FS_CardinalityType, ZenonT(60)
    <3>. HIDE DEF A, B
    <3>. QED  BY <1>0, <2>0, <2>6, <3>1, <3>2, SMTT(20)
  <2>. QED  BY <2>5, <2>6, ZenonT(60)
<1>4. \A l \in IoLoops : l \in Nat /\ l >= 1 /\ l <= numThreads_
  BY <1>0 DEF IoLoops
<1>5. 1 \in IoLoops /\ IoLoops' = IoLoops
  BY <1>0 DEF IoLoops
<1>6. CASE next_ + 1 >= numThreads_
  <2>1. next_' = 0 /\ next_ + 1 = numThreads_
    BY <1>0, <1>2, <1>6, SMTT(20) DEF advance
  <2>2. \A l \in IoLoops : Assigned(l)' = q + 1
    BY <1>0, <1>1, <1>3, <1>4, <2>1, SMTT(20)
  <2>3. q + 1 \in 0..MaxConns
    BY <1>3, <1>5, <2>2, ZenonT(60)
  <2>. QED  BY <1>0, <1>4, <1>5, <2>1, <2>2, <2>3, SMTT(20) DEF RoundRobin
<1>7. CASE next_ + 1 < numThreads_
  <2>1. next_' = next_ + 1
    BY <1>0, <1>2, <1>7 DEF advance
  <2>2. \A l \in IoLoops : Assigned(l)' = q + (IF l <= next_ + 1 THEN 1 ELSE 0)
    BY <1>0, <1>1, <1>3, <1>4, SMTT(20)
  <2>. QED  BY <1>0, <1>1, <1>5, <1>7, <2>1, <2>2, ZenonT(60) DEF RoundRobin
<1>. QED  BY <1>0, <1>6, <1>7
-----------------------------------------------------------------------------
(***************************************************************************)
(* Steps that leave the connections and the functors alone.                *)
(***************************************************************************)
\* The numbers behind IInv.
LEMMA Numbers ==
  ASSUME IInv
  PROVE  /\ Free \in 0..FdLimit /\ external \in Nat /\ Bit(idleFd_) \in 0..1 /\ Bit(got) \in 0..1
         /\ FdLimit \in Nat /\ MaxConns \in Nat /\ backlog \in Nat /\ arrived \in 0..MaxConns
         /\ nextConnId_ \in Nat /\ numThreads_ \in Nat
BY Given DEF IInv, Order, Types, Bit

\* A step that leaves the connections and the functors alone and takes no more
\* descriptors than there are.
LEMMA Aside ==
  ASSUME IInv, UNCHANGED <<numThreads_, next_, nextConnId_, connections_, functors, conns, caller>>,
         server' = server \/ (server # "up" /\ server' # "up"), mishaps \subseteq mishaps',
         Types', Counts',
         external' + Bit(idleFd_)' + Bit(got)' <= external + Bit(idleFd_) + Bit(got) + Free
  PROVE  IInv'
<1>0. Order /\ Types
  BY Zenon DEF IInv, Order
<1>1. Order' /\ \A c \in Ids : Refs(c)' => Refs(c)
  BY <1>0, Still, Zenon
<1>2. Free' \in 0..FdLimit
  BY <1>0, <1>1, FreeKept, Zenon DEF IInv
<1>3. RoundRobin'
  BY SpreadKept, Zenon DEF IInv
<1>. QED  BY <1>1, <1>2, <1>3, Zenon DEF IInv

\* So does a calm step.
LEMMA CalmInv ==
  ASSUME IInv, Order', Calm
  PROVE  IInv'
<1>0. Types /\ Types' /\ UNCHANGED <<numThreads_, next_, nextConnId_, external, idleFd_, got>>
  BY Zenon DEF IInv, Order, Calm
<1>1. Bit(idleFd_)' = Bit(idleFd_) /\ Bit(got)' = Bit(got)
  BY <1>0, Zenon DEF Bit
<1>2. external' + Bit(idleFd_)' + Bit(got)' <= external + Bit(idleFd_) + Bit(got) + Free
  BY <1>0, <1>1, Numbers
<1>3. Free' \in 0..FdLimit
  BY <1>0, <1>2, FreeKept, Zenon DEF IInv, Calm
<1>4. RoundRobin'
  BY <1>0, SpreadKept, Zenon DEF IInv, Calm
<1>. QED  BY <1>3, <1>4, Zenon DEF IInv

\* A sum stays within its bound when one part gets smaller.
LEMMA FewerWait ==
  \A a, b, c, d \in Nat : a + b <= c + 1 /\ d <= b => a + d <= c + 1
OBVIOUS

\* The Acceptor's steps that make no connection.
LEMMA AcceptorInv ==
  ASSUME IInv, AcceptReady \/ AcceptNothing \/ CloseIdle \/ AcceptIdle \/ CloseGot \/ Reopen
  PROVE  IInv'
<1>. USE DEF pool, acceptor, map, life, user, kernel, history
<1>0. Types /\ Counts
  BY Zenon DEF IInv, Order
<1>1. /\ UNCHANGED <<numThreads_, next_, nextConnId_, connections_, functors, conns, caller>>
      /\ UNCHANGED <<server, mishaps, external, io, arrived>>
  BY Zenon DEF AcceptReady, AcceptNothing, CloseIdle, AcceptIdle, CloseGot, Reopen
<1>2. backlog' \in Nat /\ backlog' <= backlog
  BY Numbers DEF AcceptReady, AcceptNothing, CloseIdle, AcceptIdle, CloseGot, Reopen
<1>3. idleFd_' \in BOOLEAN /\ got' \in BOOLEAN
  <2>1. idleFd_ \in BOOLEAN /\ got \in BOOLEAN
    BY <1>0, Zenon DEF Types
  <2>2. CASE AcceptReady \/ AcceptNothing
    BY <2>1, <2>2, Zenon DEF AcceptReady, AcceptNothing
  <2>3. CASE CloseIdle
    BY <2>1, <2>3, Zenon DEF CloseIdle
  <2>4. CASE AcceptIdle
    BY <2>1, <2>4, Zenon DEF AcceptIdle
  <2>5. CASE CloseGot
    BY <2>1, <2>5, Zenon DEF CloseGot
  <2>6. CASE Reopen
    <3>1. idleFd_' = (Free > 0) /\ got' = got
      BY <2>6, Zenon DEF Reopen
    <3>2. idleFd_' \in BOOLEAN
      BY <3>1
    <3>. QED  BY <2>1, <3>1, <3>2, Zenon
  <2>. QED  BY <2>2, <2>3, <2>4, <2>5, <2>6, ZenonT(60)
<1>4. Types'
  BY <1>0, <1>1, <1>2, <1>3, ZenonT(60) DEF Types, Loops, IoLoops
<1>5. Counts'
  <2>1. /\ pc' = "join" => pc = "join"
        /\ pc' \in {"accept", "drop", "reopen"} => pc \in {"accept", "drop", "reopen"} \/ server = "up"
    BY Zenon DEF AcceptReady, AcceptNothing, CloseIdle, AcceptIdle, CloseGot, Reopen
  <2>2. nextConnId_' + backlog' <= arrived' + 1
    <3>1. nextConnId_ + backlog <= arrived + 1
      BY <1>0, Zenon DEF Counts
    <3>2. nextConnId_ \in Nat /\ backlog \in Nat /\ arrived \in Nat
      BY Numbers
    <3>3. nextConnId_ + backlog' <= arrived + 1
      BY <1>2, <3>1, <3>2, FewerWait, ZenonT(60)
    <3>. QED  BY <1>1, <3>3, ZenonT(60)
  <2>. QED  BY <1>0, <1>1, <2>1, <2>2, ZenonT(60) DEF Counts, IoLoops
<1>6. Bit(idleFd_)' + Bit(got)' <= Bit(idleFd_) + Bit(got) + Free
  <2>1. CASE AcceptReady \/ AcceptNothing
    <3>1. UNCHANGED <<idleFd_, got>>
      BY <2>1, Zenon DEF AcceptReady, AcceptNothing
    <3>2. Bit(idleFd_)' = Bit(idleFd_) /\ Bit(got)' = Bit(got)
      BY <3>1, Zenon DEF Bit
    <3>. QED  BY <3>2, Numbers
  <2>2. CASE CloseIdle
    <3>1. Bit(idleFd_)' = 0 /\ Bit(got)' = Bit(got)
      BY <2>2, Zenon DEF CloseIdle, Bit
    <3>. QED  BY <3>1, Numbers
  <2>3. CASE AcceptIdle
    <3>1. Bit(idleFd_)' = Bit(idleFd_) /\ (Bit(got)' = Bit(got) \/ Free > 0) /\ Bit(got)' \in 0..1
      BY <2>3 DEF AcceptIdle, Bit
    <3>. QED  BY <3>1, Numbers
  <2>4. CASE CloseGot
    <3>1. Bit(idleFd_)' = Bit(idleFd_) /\ Bit(got)' = 0
      BY <2>4, Zenon DEF CloseGot, Bit
    <3>. QED  BY <3>1, Numbers
  <2>5. CASE Reopen
    <3>1. Bit(got)' = Bit(got) /\ Bit(idleFd_)' = IF Free > 0 THEN 1 ELSE 0
      BY <2>5, Zenon DEF Reopen, Bit
    <3>. QED  BY <3>1, Numbers
  <2>. QED  BY <2>1, <2>2, <2>3, <2>4, <2>5, ZenonT(60)
<1>7. external' + Bit(idleFd_)' + Bit(got)' <= external + Bit(idleFd_) + Bit(got) + Free
  <2>1. Bit(idleFd_)' \in 0..1 /\ Bit(got)' \in 0..1
    BY <1>3 DEF Bit
  <2>. QED  BY <1>1, <1>6, <2>1, Numbers
<1>. QED  BY <1>1, <1>4, <1>5, <1>7, Aside, ZenonT(60)

\* The steps of start(), of the destructor after its body, and of a loop that
\* begins with its functors.
LEMMA LoopsInv ==
  ASSUME IInv,
         \/ Start \/ StartElsewhere \/ Quit \/ Join \/ Destroyed
         \/ \E l \in IoLoops : DoPendingFunctors(l)
  PROVE  IInv'
<1>. USE DEF pool, acceptor, map, life, user, kernel, history
<1>0. Types /\ Counts
  BY Zenon DEF IInv, Order
<1>1. UNCHANGED <<numThreads_, next_, nextConnId_, connections_, functors, conns, caller>>
      /\ UNCHANGED <<mishaps, external, arrived, backlog, got>>
  BY Zenon DEF Start, StartElsewhere, Quit, Join, Destroyed, DoPendingFunctors
<1>2. /\ server' = server \/ (server # "up" /\ server' # "up")
      /\ pc' = "join" => pc = "join" /\ server' = server
      /\ pc' \in {"accept", "drop", "reopen"} => pc' = pc /\ server' = server
  <2>1. CASE Destroyed
    BY <1>0, <2>1, ZenonT(60) DEF Destroyed, Counts
  <2>2. CASE ~Destroyed
    BY <2>2, Zenon DEF Start, StartElsewhere, Quit, Join, DoPendingFunctors
  <2>. QED  BY <2>1, <2>2, ZenonT(60)
<1>3. idleFd_' \in BOOLEAN /\ Bit(idleFd_)' <= Bit(idleFd_) /\ Bit(idleFd_)' \in 0..1
  <2>1. CASE Destroyed
    <3>1. idleFd_' = FALSE
      BY <2>1, Zenon DEF Destroyed
    <3>2. Bit(idleFd_)' = 0
      BY <3>1, Zenon DEF Bit
    <3>3. idleFd_' \in BOOLEAN
      BY <3>1, Zenon
    <3>. QED  BY <3>2, <3>3, Numbers
  <2>2. CASE ~Destroyed
    <3>1. idleFd_' = idleFd_
      BY <2>2, Zenon DEF Start, StartElsewhere, Quit, Join, DoPendingFunctors
    <3>2. Bit(idleFd_)' = Bit(idleFd_)
      BY <3>1, Zenon DEF Bit
    <3>. QED  BY <1>0, <3>1, <3>2, Numbers, SMTT(20) DEF Types
  <2>. QED  BY <2>1, <2>2, Zenon
<1>4. /\ io' \in [IoLoops -> [phase : {"none", "events", "functors", "exited"}, batch : Nat, quit : BOOLEAN]]
      /\ \A l \in IoLoops : io'[l].batch <= Len(functors[l])
  <2>0. \A l \in IoLoops : l \in Loops /\ Len(functors[l]) \in Nat
    BY <1>0, LoopNumbers, LoopTypes, Zenon DEF Types
  <2>1. CASE Start
    BY <2>0, <2>1 DEF Start, PoolStart
  <2>2. CASE Quit
    <3>1. joining \in IoLoops /\ io' = [io EXCEPT ![joining].quit = TRUE]
      BY <2>2, Zenon DEF Quit
    <3>. QED  BY <1>0, <2>0, <3>1, ZenonT(60) DEF Types, Counts
  <2>3. CASE StartElsewhere \/ Join \/ Destroyed
    BY <1>0, <2>3, Zenon DEF StartElsewhere, Join, Destroyed, Types, Counts
  <2>4. ASSUME NEW l \in IoLoops, DoPendingFunctors(l)
        PROVE  /\ io' \in [IoLoops -> [phase : {"none", "events", "functors", "exited"}, batch : Nat, quit : BOOLEAN]]
               /\ \A m \in IoLoops : io'[m].batch <= Len(functors[m])
    <3>0. io' = [[io EXCEPT ![l].phase = "functors"] EXCEPT ![l].batch = Len(functors[l])]
      BY <2>4, Zenon DEF DoPendingFunctors
    <3>1. io' \in [IoLoops -> [phase : {"none", "events", "functors", "exited"}, batch : Nat, quit : BOOLEAN]]
      BY <1>0, <2>0, <3>0, ZenonT(60) DEF Types
    <3>2. io'[l].batch = Len(functors[l]) /\ \A m \in IoLoops : m # l => io'[m] = io[m]
      BY <1>0, <3>0, Zenon DEF Types
    <3>3. ASSUME NEW m \in IoLoops PROVE io'[m].batch <= Len(functors[m])
      <4>1. CASE m = l
        <5>1. Len(functors[m]) \in Nat
          BY <2>0, ZenonT(60)
        <5>2. Len(functors[m]) <= Len(functors[m])
          BY <5>1
        <5>. QED  BY <3>2, <4>1, <5>2, ZenonT(60)
      <4>2. CASE m # l
        BY <1>0, <3>2, <4>2, Zenon DEF Counts
      <4>. QED  BY <4>1, <4>2, Zenon
    <3>. QED  BY <3>1, <3>3, Zenon
  <2>. QED  BY <2>1, <2>2, <2>3, <2>4, ZenonT(60)
<1>5. Types'
  BY <1>0, <1>1, <1>3, <1>4, ZenonT(60) DEF Types, Loops, IoLoops
<1>6. Counts'
  BY <1>0, <1>1, <1>2, <1>4, ZenonT(60) DEF Counts, IoLoops
<1>7. external' + Bit(idleFd_)' + Bit(got)' <= external + Bit(idleFd_) + Bit(got) + Free
  <2>1. Bit(got)' = Bit(got) /\ external' = external
    BY <1>1, Zenon DEF Bit
  <2>. QED  BY <1>3, <2>1, Numbers
<1>. QED  BY <1>1, <1>2, <1>5, <1>6, <1>7, Aside, ZenonT(60)

\* Clients and other threads.
LEMMA OthersInv ==
  ASSUME IInv, ClientConnects \/ ClientGivesUp \/ OpensFile \/ ClosesFile
  PROVE  IInv'
<1>. USE DEF pool, acceptor, map, life, user, kernel, history
<1>0. Types /\ Counts
  BY Zenon DEF IInv, Order
<1>1. /\ UNCHANGED <<numThreads_, next_, nextConnId_, connections_, functors, conns, caller>>
      /\ UNCHANGED <<server, pc, io, idleFd_, got>>
  BY Zenon DEF ClientConnects, ClientGivesUp, OpensFile, ClosesFile
<1>2. /\ backlog' \in Nat /\ arrived' \in 0..MaxConns /\ external' \in Nat
      /\ nextConnId_ + backlog' <= arrived' + 1 /\ external' <= external + Free
  <2>0. nextConnId_ + backlog <= arrived + 1
    BY <1>0, Zenon DEF Counts
  <2>1. CASE ClientConnects
    BY <2>0, <2>1, Numbers, SMTT(20) DEF ClientConnects
  <2>2. CASE ClientGivesUp
    BY <2>0, <2>2, Numbers, SMTT(60) DEF ClientGivesUp
  <2>3. CASE OpensFile \/ ClosesFile
    BY <2>0, <2>3, Numbers DEF OpensFile, ClosesFile
  <2>. QED  BY <2>1, <2>2, <2>3, Zenon
<1>3. mishaps \subseteq mishaps' /\ mishaps' \subseteq Mishaps
  BY <1>0, Zenon DEF ClientConnects, ClientGivesUp, OpensFile, ClosesFile, If, Mishaps, Types
<1>4. Types'
  BY <1>0, <1>1, <1>2, <1>3, ZenonT(60) DEF Types, Loops, IoLoops
<1>5. Counts'
  BY <1>0, <1>1, <1>2, ZenonT(60) DEF Counts, IoLoops
<1>6. external' + Bit(idleFd_)' + Bit(got)' <= external + Bit(idleFd_) + Bit(got) + Free
  <2>1. Bit(got)' = Bit(got) /\ Bit(idleFd_)' = Bit(idleFd_)
    BY <1>1, Zenon DEF Bit
  <2>. QED  BY <1>2, <2>1, Numbers
<1>. QED  BY <1>1, <1>3, <1>4, <1>5, <1>6, Aside, ZenonT(60)
-----------------------------------------------------------------------------
(***************************************************************************)
(* The destructor's body.                                                  *)
(***************************************************************************)
\* InSomeOrder lists every member of a finite set once.
LEMMA Listed ==
  ASSUME NEW S, IsFiniteSet(S)
  PROVE  /\ InSomeOrder(S) \in Seq(S) /\ Len(InSomeOrder(S)) \in Nat
         /\ \A e \in S : \E i \in 1..Len(InSomeOrder(S)) : InSomeOrder(S)[i] = e
         /\ \A i, j \in 1..Len(InSomeOrder(S)) : InSomeOrder(S)[i] = InSomeOrder(S)[j] => i = j
<1>. DEFINE n == Cardinality(S)
            q == InSomeOrder(S)
<1>1. n \in Nat /\ ExistsBijection(1..n, S)
  BY FS_CardinalityType, Zenon
<1>2. q \in Bijection(1..n, S)
  BY <1>1, Zenon DEF ExistsBijection, InSomeOrder
<1>. HIDE DEF n, q
<1>3. q \in [1..n -> S] /\ q \in Surjection(1..n, S) /\ IsInjective(q)
  BY <1>2, Zenon DEF Bijection, Injection
<1>4. q \in Seq(S) /\ Len(q) = n /\ DOMAIN q = 1..n
  BY <1>1, <1>3
<1>5. \A e \in S : \E i \in 1..n : q[i] = e
  BY <1>3, Zenon DEF Surjection
<1>6. \A i, j \in 1..n : q[i] = q[j] => i = j
  BY <1>3, <1>4, Zenon DEF IsInjective
<1>. QED  BY <1>1, <1>4, <1>5, <1>6, Zenon DEF q

\* Behind the functors of each loop come those of a finite set.
LEMMA CarriesListed ==
  ASSUME Types, NEW new \in [Loops -> SUBSET Functors], \A l \in Loops : IsFiniteSet(new[l]),
         functors' = [l \in Loops |-> functors[l] \o InSomeOrder(new[l])]
  PROVE  Carries(-1, new)
<1>1. ASSUME NEW l \in Loops
      PROVE  /\ functors'[l] \in Seq(Functors)
             /\ Gone(l, -1) <= Len(functors[l])
             /\ Len(functors'[l]) >= Len(functors[l]) - Gone(l, -1)
             /\ \A i \in 1..(Len(functors[l]) - Gone(l, -1)) :
                  functors'[l][i] = functors[l][i + Gone(l, -1)]
             /\ \A i \in 1..Len(functors'[l]) :
                  i > Len(functors[l]) - Gone(l, -1) => functors'[l][i] \in new[l]
             /\ \A e \in new[l] : \E i \in 1..Len(functors'[l]) : functors'[l][i] = e
             /\ \A i, j \in 1..Len(functors'[l]) :
                  /\ i > Len(functors[l]) - Gone(l, -1) /\ j > Len(functors[l]) - Gone(l, -1)
                  /\ functors'[l][i] = functors'[l][j]
                  => i = j
  <2>. DEFINE a == functors[l]
              q == InSomeOrder(new[l])
              b == functors'[l]
  <2>1. Gone(l, -1) = 0
    BY LoopNumbers DEF Gone, Types
  <2>2. a \in Seq(Functors) /\ Len(a) \in Nat
    BY LoopTypes, Zenon
  <2>3. /\ q \in Seq(new[l]) /\ Len(q) \in Nat
        /\ \A e \in new[l] : \E i \in 1..Len(q) : q[i] = e
        /\ \A i, j \in 1..Len(q) : q[i] = q[j] => i = j
    BY Listed, Zenon
  <2>4. b = a \o q /\ new[l] \subseteq Functors
    BY Zenon
  <2>. HIDE DEF a, q, b
  <2>5. q \in Seq(Functors) /\ \A i \in 1..Len(q) : q[i] \in new[l]
    BY <2>3, <2>4
  <2>6. b \in Seq(Functors) /\ Len(b) = Len(a) + Len(q)
    BY <2>2, <2>4, <2>5, SMTT(60)
  <2>7. /\ \A i \in 1..Len(a) : b[i] = a[i]
        /\ \A i \in 1..Len(b) : i > Len(a) => i - Len(a) \in 1..Len(q) /\ b[i] = q[i - Len(a)]
    BY <2>2, <2>3, <2>4, <2>5, <2>6, SMTT(20)
  <2>8. ASSUME NEW e \in new[l] PROVE \E i \in 1..Len(b) : b[i] = e
    <3>1. PICK i \in 1..Len(q) : q[i] = e
      BY <2>3, Zenon
    <3>2. Len(a) \in Nat /\ Len(q) \in Nat /\ Len(b) = Len(a) + Len(q)
      BY <2>2, <2>3, <2>6, Zenon
    <3>3. i + Len(a) \in 1..Len(b) /\ i + Len(a) > Len(a) /\ (i + Len(a)) - Len(a) = i
      BY <3>2
    <3>. QED  BY <2>7, <3>1, <3>3, ZenonT(60)
  <2>9. ASSUME NEW i \in 1..Len(b), NEW j \in 1..Len(b), i > Len(a), j > Len(a), b[i] = b[j]
        PROVE  i = j
    <3>0. /\ i - Len(a) \in 1..Len(q) /\ b[i] = q[i - Len(a)]
          /\ j - Len(a) \in 1..Len(q) /\ b[j] = q[j - Len(a)]
      BY <2>7, <2>9, Zenon
    <3>1. i - Len(a) = j - Len(a)
      BY <2>3, <2>9, <3>0, ZenonT(60)
    <3>2. i \in Nat /\ j \in Nat
      OBVIOUS
    <3>. QED  BY <2>2, <3>1, <3>2
  <2>10. \A i \in 1..Len(b) : i > Len(a) => b[i] \in new[l]
    BY <2>5, <2>7, ZenonT(60)
  <2>11. Len(b) >= Len(a)
    <3>1. Len(a) \in Nat /\ Len(q) \in Nat /\ Len(b) = Len(a) + Len(q)
      BY <2>2, <2>3, <2>6, ZenonT(60)
    <3>. QED  BY <3>1
  <2>12. /\ Gone(l, -1) <= Len(a) /\ Len(a) - Gone(l, -1) = Len(a)
         /\ \A i \in 1..Len(a) : i + Gone(l, -1) = i
    BY <2>1, <2>2
  <2>13. \A i \in 1..Len(a) : b[i] = a[i + Gone(l, -1)]
    BY <2>7, <2>12, Zenon
  <2>14. Len(b) >= Len(a) - Gone(l, -1)
    BY <2>11, <2>12, Zenon
  <2>15. \A i \in 1..Len(b) : i > Len(a) - Gone(l, -1) => b[i] \in new[l]
    BY <2>10, <2>12, Zenon
  <2>16. \A i \in 1..(Len(a) - Gone(l, -1)) : b[i] = a[i + Gone(l, -1)]
    BY <2>12, <2>13, ZenonT(60)
  <2>17. \A i, j \in 1..Len(b) :
           i > Len(a) - Gone(l, -1) /\ j > Len(a) - Gone(l, -1) /\ b[i] = b[j] => i = j
    BY <2>9, <2>12, Zenon
  <2>. QED  BY <2>6, <2>8, <2>12, <2>14, <2>15, <2>16, <2>17, ZenonT(60) DEF a, b
<1>2. functors' \in [Loops -> Seq(Functors)]
  BY <1>1, Zenon
<1>. QED  BY <1>1, <1>2, Zenon DEF Carries

\* The destructor's body tells every connection of the map in its loop.
LEMMA DestroyInv ==
  ASSUME Order, Destroy
  PROVE  Order' /\ Calm
<1>. USE DEF pool, acceptor, user, kernel
<1>. DEFINE mine(l) == {d \in connections_ : conns[d].loop = l}
            new == [l \in Loops |-> IF numThreads_ = 0 THEN {} ELSE {<<"connectDestroyed", d>> : d \in mine(l)}]
<1>0. Types /\ Counts /\ Names /\ Known /\ Mapped /\ Held
  BY Zenon DEF Order
<1>1. /\ UNCHANGED <<numThreads_, next_, nextConnId_, external, idleFd_, got>>
      /\ UNCHANGED <<caller, io, backlog, arrived>> /\ pc' = "join" /\ server = "up" /\ server' = "joining"
      /\ connections_' = {}
  BY Zenon DEF Destroy
<1>2. 0 \in Loops /\ -1 \notin IoLoops /\ numThreads_ \in Nat
  <2>1. numThreads_ \in Nat
    BY <1>0, Zenon DEF Types
  <2>. QED  BY <2>1, LoopNumbers DEF IoLoops
<1>3. /\ mishaps' \subseteq Mishaps /\ mishaps \subseteq mishaps'
      /\ "cutShort" \notin mishaps' /\ numThreads_ = 0 => \A d \in connections_ : conns[d].state_ # "kDisconnecting"
  BY <1>0, ZenonT(60) DEF Destroy, If, IsCutShort, Mishaps, Types
<1>4. Loops' = Loops /\ \A d \in Ids : Made(d)' <=> Made(d)
  BY <1>1, Zenon DEF Loops, Made
<1>5. Carries(-1, new)
  <2>1. CASE numThreads_ = 0
    <3>1. functors' = functors
      BY <2>1, Zenon DEF Destroy
    <3>2. Carries(-1, [m \in Loops |-> {}])
      BY <1>0, <3>1, CarriesNothing, Zenon
    <3>3. new = [m \in Loops |-> {}]
      BY <2>1, Zenon
    <3>. QED  BY <3>2, <3>3, Zenon
  <2>2. CASE numThreads_ # 0
    <3>1. functors' = [l \in Loops |-> functors[l] \o InSomeOrder(new[l])]
      BY <2>2, Zenon DEF Destroy
    <3>2. ASSUME NEW l \in Loops PROVE new[l] \subseteq Functors /\ IsFiniteSet(new[l])
      <4>. DEFINE told == [d \in mine(l) |-> <<"connectDestroyed", d>>]
      <4>1. mine(l) \in SUBSET Ids
        BY <1>0, Zenon DEF Types
      <4>2. IsFiniteSet(mine(l))
        BY <4>1, IdsFinite, FS_Subset, Zenon
      <4>3. new[l] = {<<"connectDestroyed", d>> : d \in mine(l)}
        BY <2>2, Zenon
      <4>4. told \in Surjection(mine(l), new[l])
        BY <4>3, Zenon DEF Surjection
      <4>5. IsFiniteSet(new[l])
        <5>. HIDE DEF told, mine, new
        <5>. QED  BY <4>2, <4>4, FS_Surjection, Zenon
      <4>6. new[l] \subseteq Functors
        BY <4>1, <4>3 DEF Functors, Kinds
      <4>. QED  BY <4>5, <4>6, Zenon
    <3>3. new \in [Loops -> SUBSET Functors]
      <4>1. new = [l \in Loops |-> new[l]]
        BY Zenon
      <4>. HIDE DEF new
      <4>. QED  BY <3>2, <4>1, Zenon
    <3>. HIDE DEF new
    <3>. QED  BY <1>0, <3>1, <3>2, <3>3, CarriesListed, Zenon
  <2>. QED  BY <2>1, <2>2, Zenon
<1>6. ASSUME NEW m \in Loops, NEW k, NEW d
      PROVE  <<k, d>> \in new[m] <=>
               numThreads_ # 0 /\ k = "connectDestroyed" /\ d \in connections_ /\ conns[d].loop = m
  BY Zenon
<1>. HIDE DEF new
<1>7. /\ conns' \in [Ids -> [state_ : States, loop : Loops]]
      /\ \A d \in Ids : conns'[d].loop = conns[d].loop
      /\ numThreads_ # 0 => conns' = conns
      /\ numThreads_ = 0 => \A d \in Ids : conns'[d].state_ = IF d \in connections_
                                                              THEN DestroyedState(conns[d].state_)
                                                              ELSE conns[d].state_
  <2>1. CASE numThreads_ = 0
    <3>1. conns' = [d \in Ids |-> IF d \in connections_ THEN [conns[d] EXCEPT !.state_ = DestroyedState(@)]
                                  ELSE conns[d]]
      BY <2>1, Zenon DEF Destroy
    <3>2. \A d \in Ids : conns[d] \in [state_ : States, loop : Loops]
      BY <1>0, Zenon DEF Types
    <3>3. \A d \in Ids : DestroyedState(conns[d].state_) \in States
      BY <3>2, Zenon DEF States, DestroyedState
    <3>. QED  BY <2>1, <3>1, <3>2, <3>3, Zenon
  <2>2. CASE numThreads_ # 0
    <3>1. conns' = conns
      BY <2>2, Zenon DEF Destroy
    <3>. QED  BY <1>0, <2>2, <3>1, Zenon DEF Types
  <2>. QED  BY <2>1, <2>2, Zenon
<1>8. ASSUME NEW m \in Loops, NEW j, NEW d
      PROVE  Has(m, j, d)' <=> Has(m, j, d) \/ <<j, d>> \in new[m]
  <2>1. /\ Has(m, j, d)' => Has(m, j, d) \/ <<j, d>> \in new[m]
        /\ <<j, d>> \in new[m] => Has(m, j, d)'
        /\ Has(m, j, d) => Has(m, j, d)' \/ (m = -1 /\ functors[m][1] = <<j, d>>)
    BY <1>0, <1>5, CarriedHas, Zenon
  <2>2. m # -1
    BY <1>2, LoopNumbers
  <2>. QED  BY <2>1, <2>2, Zenon
<1>9. ASSUME Unharmed, NEW d \in Ids
      PROVE  Made(d) /\ conns[d].state_ # "kDisconnected" => d \in connections_
  <2>1. "revived" \notin mishaps
    BY <1>9, Zenon DEF Unharmed
  <2>. QED  BY <1>0, <1>1, <2>1, Zenon DEF Mapped
<1>10. Types'
  <2>1. functors' \in [Loops -> Seq(Functors)]
    BY <1>5, Zenon DEF Carries
  <2>. QED  BY <1>0, <1>1, <1>3, <1>7, <2>1, ZenonT(60) DEF Types, Loops, IoLoops
<1>11. Counts'
  <2>1. \A l \in IoLoops : io'[l].batch <= Len(functors'[l])
    BY <1>0, <1>1, <1>2, <1>5, BatchesKept, Zenon
  <2>. QED  BY <1>0, <1>1, <2>1, Zenon DEF Counts, IoLoops
<1>12. Names'
  <2>1. \A m \in Loops, j \in Kinds, d \in Ids : <<j, d>> \in new[m] =>
          Made(d)' /\ m = IF j = "remove" THEN 0 ELSE conns'[d].loop
    BY <1>0, <1>4, <1>6, <1>7, ZenonT(60) DEF Known
  <2>2. \A m \in Loops, d \in Ids : <<"connectEstablished", d>> \notin new[m]
    BY <1>6
  <2>3. ASSUME NEW m \in Loops, NEW d \in Ids, Has(m, "connectEstablished", d)'
        PROVE  m # 0 /\ conns'[d].state_ = "kConnecting"
    <3>1. m # 0 /\ conns[d].state_ = "kConnecting"
      BY <1>0, <1>8, <2>2, <2>3, ZenonT(60) DEF Names
    <3>2. numThreads_ # 0
      BY <1>2, <3>1, LoopNumbers, Zenon
    <3>. QED  BY <1>7, <3>1, <3>2, Zenon
  <2>4. \A d \in Ids : Made(d) => Made(d)' /\ conns'[d].loop = conns[d].loop
    BY <1>4, <1>7, Zenon
  <2>. QED  BY <1>0, <1>1, <1>5, <2>1, <2>2, <2>3, <2>4, NamesKept, ZenonT(60)
<1>13. Mapped'
  BY <1>1, Zenon DEF Mapped
<1>14. Held'
  <2>. SUFFICES ASSUME Unharmed, Unharmed', NEW d \in Ids, Made(d), conns'[d].state_ # "kDisconnected"
                PROVE  /\ conns'[d].state_ = "kConnecting" => Has(conns[d].loop, "connectEstablished", d)'
                       /\ Has(conns[d].loop, "connectDestroyed", d)'
    BY <1>3, <1>4, Zenon DEF Held, Unharmed
  <2>0. d \in connections_ /\ conns[d].state_ \in States
    <3>1. conns[d].state_ # "kDisconnected"
      BY <1>7, Zenon DEF DestroyedState
    <3>. QED  BY <1>0, <1>9, <3>1, Zenon DEF Types
  <2>1. numThreads_ # 0 /\ conns'[d].state_ = conns[d].state_
    <3>1. ASSUME numThreads_ = 0 PROVE FALSE
      <4>1. conns[d].state_ # "kConnecting"
        <5>1. ASSUME conns[d].state_ = "kConnecting" PROVE conns[d].loop # 0 /\ conns[d].loop \in Loops
          BY <1>0, <5>1, ZenonT(60) DEF Held, Names, Types
        <5>. QED  BY <3>1, <5>1, <1>2, LoopNumbers, Zenon
      <4>2. conns[d].state_ # "kDisconnecting"
        BY <1>3, <2>0, <3>1, Zenon DEF Unharmed
      <4>3. conns'[d].state_ = DestroyedState(conns[d].state_)
        BY <1>7, <2>0, <3>1, Zenon
      <4>. QED  BY <2>0, <4>1, <4>2, <4>3, Zenon DEF DestroyedState, States
    <3>. QED  BY <1>7, <3>1, Zenon
  <2>2. conns[d].loop \in Loops /\ conns'[d].loop = conns[d].loop
    BY <1>0, <1>7, Zenon DEF Types
  <2>3. <<"connectDestroyed", d>> \in new[conns[d].loop]
    BY <1>6, <2>0, <2>1, <2>2, Zenon
  <2>4. Has(conns[d].loop, "connectDestroyed", d)'
    BY <1>8, <2>2, <2>3, Zenon
  <2>5. conns[d].state_ = "kConnecting" => Has(conns[d].loop, "connectEstablished", d)
    BY <1>0, Zenon DEF Held
  <2>6. conns[d].state_ = "kConnecting" => Has(conns[d].loop, "connectEstablished", d)'
    BY <1>8, <2>2, <2>5, Zenon
  <2>. QED  BY <2>1, <2>4, <2>6, Zenon
<1>15. \A d \in Ids : Refs(d)' => Refs(d)
  <2>1. \A m \in Loops, j \in Kinds, d \in Ids : <<j, d>> \in new[m] => Refs(d)
    BY <1>6, Zenon DEF Refs
  <2>2. connections_' \subseteq connections_
    BY <1>1, Zenon
  <2>. QED  BY <1>0, <1>1, <1>5, <1>10, <2>1, <2>2, HoldersKept, ZenonT(60)
<1>16. \A d \in Ids : conns'[d].loop = conns[d].loop
  BY <1>7, Zenon
<1>17. Known'
  <2>1. \A d \in Ids : conns'[d].state_ = "kConnecting" => conns[d].state_ = "kConnecting"
    BY <1>7, Zenon DEF DestroyedState
  <2>2. connections_' \subseteq connections_
    BY <1>1, Zenon
  <2>. QED  BY <1>0, <1>1, <1>4, <2>1, <2>2, KnownKept, Zenon
<1>. QED  BY <1>1, <1>10, <1>11, <1>12, <1>13, <1>14, <1>15, <1>16, <1>17, ZenonT(60) DEF Order, Calm
-----------------------------------------------------------------------------
(***************************************************************************)
(* The invariant and what follows from it.                                 *)
(***************************************************************************)
\* The constructors.
LEMMA InitInv ==
  ASSUME Init
  PROVE  IInv
<1>. USE DEF Init, NewPool, NewAcceptor
<1>0. numThreads_ \in Nat /\ MaxConns \in Nat /\ FdLimit \in Nat /\ FdLimit >= 1
  BY ServerAssumption, SMTT(60)
<1>1. 0 \in Loops /\ \A l \in Loops : functors[l] = << >> /\ 1..Len(functors[l]) = {}
  BY <1>0, LoopNumbers, SMTT(20)
<1>2. Types
  <2>1. idleFd_ \in BOOLEAN /\ got \in BOOLEAN
    BY Zenon
  <2>2. functors \in [Loops -> Seq(Functors)]
    <3>1. << >> \in Seq(Functors)
      OBVIOUS
    <3>. QED  BY <3>1, Zenon
  <2>3. io \in [IoLoops -> [phase : {"none", "events", "functors", "exited"}, batch : Nat, quit : BOOLEAN]]
    BY Zenon
  <2>4. conns \in [Ids -> [state_ : States, loop : Loops]]
    BY <1>1, Zenon DEF States
  <2>. QED  BY <1>0, <2>1, <2>2, <2>3, <2>4, SMTT(60) DEF Types
<1>3. \A c \in Ids : ~Made(c)
  BY Given DEF Made
<1>4. \A l \in Loops : \A k, c : ~Has(l, k, c)
  BY <1>1, Zenon DEF Has
<1>5. Free \in 0..FdLimit
  <2>1. \A c \in Ids : ~Refs(c)
    <3>1. \A c \in Ids : caller.conn # c
      BY Given DEF NoCall
    <3>. QED  BY <1>2, <1>4, <3>1, WhoHolds, Zenon
  <2>2. HeldConns = {}
    BY <2>1, Zenon DEF HeldConns
  <2>3. Cardinality(HeldConns) = 0
    BY <2>2, FS_EmptySet, Zenon
  <2>4. Bit(idleFd_) = 1 /\ Bit(got) = 0
    BY Zenon DEF Bit
  <2>. QED  BY <1>0, <1>2, <2>3, <2>4, FreeIs
<1>6. Counts
  BY <1>0, <1>1, LoopNumbers DEF Counts
<1>7. Names
  BY <1>1, <1>4, Zenon DEF Names
<1>8. Mapped /\ Held
  BY <1>1, <1>3, <1>4, ZenonT(60) DEF Mapped, Held
<1>9. RoundRobin
  <2>1. ASSUME NEW l PROVE Assigned(l) = 0
    <3>1. {c \in Ids : Made(c) /\ conns[c].loop = l} = {}
      BY <1>3, Zenon
    <3>. QED  BY <3>1, FS_EmptySet, Zenon DEF Assigned
  <2>2. \A l \in IoLoops : ~(l <= 0)
    BY <1>0 DEF IoLoops
  <2>. QED  BY <1>0, <2>1, <2>2 DEF RoundRobin
<1>10. Known
  <2>1. \A c \in Ids : caller.conn # c
    BY Given DEF NoCall
  <2>. QED  BY <2>1, Zenon DEF Known
<1>. QED  BY <1>2, <1>5, <1>6, <1>7, <1>8, <1>9, <1>10, ZenonT(60) DEF IInv, Order

\* Every step keeps the invariant.
LEMMA Inductive ==
  ASSUME IInv, [Next]_vars
  PROVE  IInv'
<1>0. Order
  BY Zenon DEF IInv
<1>1. CASE AcceptReady \/ AcceptNothing \/ CloseIdle \/ AcceptIdle \/ CloseGot \/ Reopen
  BY <1>1, AcceptorInv, Zenon
<1>2. CASE \/ Start \/ StartElsewhere \/ Quit \/ Join \/ Destroyed
           \/ \E l \in IoLoops : DoPendingFunctors(l)
  BY <1>2, LoopsInv, Zenon
<1>3. CASE ClientConnects \/ ClientGivesUp \/ OpensFile \/ ClosesFile
  BY <1>3, OthersInv, Zenon
<1>4. CASE Accept
  <2>1. Order /\ Types /\ Counts /\ RoundRobin /\ Free \in 0..FdLimit
    BY Zenon DEF IInv, Order
  <2>2. /\ Order' /\ Types' /\ nextConnId_ \in Ids
        /\ \A d \in Ids : Refs(d)' => Refs(d) \/ d = nextConnId_
    BY <1>4, <2>1, AcceptInv, Zenon DEF Order
  <2>3. /\ newConnection(nextConnId_) /\ Free > 0
        /\ UNCHANGED <<numThreads_, external, idleFd_, got>>
    BY <1>4, Zenon DEF Accept, acceptor
  <2>4. Free' \in 0..FdLimit
    BY <2>1, <2>2, <2>3, FreeTaken, Zenon
  <2>5. RoundRobin'
    BY <2>1, <2>2, <2>3, SpreadNext, ZenonT(60)
  <2>. QED  BY <2>2, <2>4, <2>5, ZenonT(60) DEF IInv
<1>5. CASE RemoveFunctor
  BY <1>0, <1>5, RemoveFunctorInv, CalmInv, ZenonT(60)
<1>6. CASE RunInBase
  BY <1>0, <1>6, RunInBaseInv, CalmInv, Zenon
<1>7. CASE Destroy
  BY <1>0, <1>7, DestroyInv, CalmInv, Zenon
<1>8. CASE \E l \in IoLoops : RunFunctor(l)
  BY <1>0, <1>8, RunFunctorInv, CalmInv, ZenonT(60)
<1>9. CASE \E l \in IoLoops : GoRound(l)
  BY <1>0, <1>9, GoRoundInv, CalmInv, ZenonT(60)
<1>10. CASE \E c \in Ids : Close(c)
  BY <1>0, <1>10, CloseInv, CalmInv, ZenonT(60)
<1>11. CASE \/ \E call \in {"shutdown", "forceClose"}, c \in Ids : CallInLoop(call, c) \/ TestState(call, c)
            \/ FinishCall
  BY <1>0, <1>11, CallsInv, CalmInv, ZenonT(60)
<1>12. CASE UNCHANGED vars
  <2>. USE <1>12 DEF vars, pool, acceptor, map, life, user, kernel, history
  <2>0. Types /\ Counts
    BY Zenon DEF IInv, Order
  <2>1. Types'
    BY <2>0, Zenon DEF Types, Loops, IoLoops
  <2>2. Counts'
    BY <2>0, Zenon DEF Counts, IoLoops
  <2>3. Bit(idleFd_)' = Bit(idleFd_) /\ Bit(got)' = Bit(got)
    BY Zenon DEF Bit
  <2>4. external' + Bit(idleFd_)' + Bit(got)' <= external + Bit(idleFd_) + Bit(got) + Free
    BY <2>3, Numbers
  <2>. QED  BY <2>1, <2>2, <2>4, Aside, ZenonT(60)
<1>. QED
  BY <1>1, <1>2, <1>3, <1>4, <1>5, <1>6, <1>7, <1>8, <1>9, <1>10, <1>11, <1>12, ZenonT(60) DEF Next, BaseLoop, IoLoop

\* The map agrees with the removals that wait.
LEMMA MapBooks ==
  ASSUME IInv
  PROVE  MapInStep
<1>. SUFFICES ASSUME server = "up", "revived" \notin mishaps, NEW c \in Ids, Made(c)
              PROVE  /\ c \in connections_ <=> conns[c].state_ # "kDisconnected" \/ Removals(c) = 1
                     /\ Removals(c) <= 1
  BY Zenon DEF MapInStep
<1>. DEFINE R == {i \in DOMAIN functors[0] : functors[0][i] = <<"remove", c>>}
<1>0. Types /\ Mapped /\ 0 \in Loops
  BY LoopNumbers, Zenon DEF IInv, Order, Types
<1>1. Removals(c) = Cardinality(R)
  BY Zenon DEF Removals
<1>2. DOMAIN functors[0] = 1..Len(functors[0])
  BY <1>0, LoopTypes, SMTT(20)
<1>3. CASE Has(0, "remove", c)
  <2>1. PICK i \in 1..Len(functors[0]) : functors[0][i] = <<"remove", c>>
    BY <1>3, Zenon DEF Has
  <2>2. R = {i}
    BY <1>0, <1>2, <2>1, ZenonT(60) DEF Mapped
  <2>3. Removals(c) = 1
    BY <1>1, <2>2, FS_Singleton, ZenonT(60)
  <2>. QED  BY <1>0, <1>3, <2>3 DEF Mapped
<1>4. CASE ~Has(0, "remove", c)
  <2>1. R = {}
    BY <1>2, <1>4, Zenon DEF Has
  <2>2. Removals(c) = 0
    BY <1>1, <2>1, FS_EmptySet, ZenonT(60)
  <2>. QED  BY <1>0, <1>4, <2>2 DEF Mapped
<1>. QED  BY <1>3, <1>4, Zenon

\* The books of the base loop (TcpServer.cpp, EventLoopThreadPool.cpp): while the
\* server is up its map holds exactly the connections that are open or whose one
\* removal is on its way, so that the erase() of removeConnectionInLoop() finds
\* its connection (unless another thread's shutdown() or forceClose() has set a
\* closed connection back to kDisconnecting), no IO loop has been given two connections more than another,
\* and the descriptors in use stay within the limit.
THEOREM ServerBooks == Spec => []BooksInStep
<1>1. Init => IInv
  BY InitInv, Zenon
<1>2. IInv /\ [Next]_vars => IInv'
  BY Inductive, Zenon
<1>3. ASSUME IInv PROVE BooksInStep
  <2>1. TypeOK
    BY <1>3, Zenon DEF IInv, Order, Types, TypeOK
  <2>2. MapInStep
    BY <1>3, MapBooks, Zenon
  <2>3. LoadBalanced
    <3>1. RoundRobin /\ Counts /\ numThreads_ \in Nat
      BY <1>3, Zenon DEF IInv, Order, Types
    <3>2. CASE numThreads_ > 0
      <4>1. PICK q \in 0..MaxConns : \A l \in IoLoops : Assigned(l) = q + (IF l <= next_ THEN 1 ELSE 0)
        BY <3>1, <3>2, ZenonT(60) DEF RoundRobin
      <4>2. q \in Nat
        BY Given
      <4>3. \A l \in IoLoops : Assigned(l) \in {q, q + 1}
        BY <4>1, <4>2
      <4>4. \A l, m \in IoLoops : Assigned(l) - Assigned(m) <= 1
        BY <4>2, <4>3
      <4>. QED  BY <3>1, <3>2, <4>4, Zenon DEF LoadBalanced, Counts
    <3>3. CASE ~(numThreads_ > 0)
      <4>1. IoLoops = {}
        BY <3>1, <3>3, SMTT(20) DEF IoLoops
      <4>. QED  BY <3>3, <4>1, Zenon DEF LoadBalanced
    <3>. QED  BY <3>2, <3>3, Zenon
  <2>. QED  BY <2>1, <2>2, <2>3, ZenonT(60) DEF BooksInStep
<1>. QED  BY <1>1, <1>2, <1>3, PTL DEF Spec

\* Nothing is freed open (~TcpConnection() asserts kDisconnected): a connection
\* that neither the map, a functor nor a thread inside shutdown() or forceClose()
\* holds any more is kDisconnected, also after the server's destructor and when its
\* close comes into the destructor.  The exceptions: an IO loop that ended with
\* functors waiting, a connection that is shutting down when connectDestroyed()
\* runs, and a call of another thread that tested state_ before the close and set
\* it after.
THEOREM NothingFreedOpen == Spec => []FreedClosed
<1>1. Init => IInv
  BY InitInv, Zenon
<1>2. IInv /\ [Next]_vars => IInv'
  BY Inductive, Zenon
<1>3. ASSUME IInv PROVE FreedClosed
  <2>. SUFFICES ASSUME Unharmed, NEW c \in Ids, Made(c), conns[c].state_ # "kDisconnected"
                PROVE  Refs(c)
    BY Zenon DEF FreedClosed
  <2>0. Types /\ Mapped /\ Held
    BY <1>3, Zenon DEF IInv, Order
  <2>1. CASE server = "up"
    BY <2>0, <2>1, Zenon DEF Mapped, Refs, Unharmed
  <2>2. CASE server # "up"
    <3>1. Has(conns[c].loop, "connectDestroyed", c) /\ conns[c].loop \in Loops
      BY <2>0, <2>2, Zenon DEF Held, Types
    <3>. QED  BY <2>0, <3>1, WhoHolds, ZenonT(60) DEF Kinds
  <2>. QED  BY <2>1, <2>2, Zenon
<1>. QED  BY <1>1, <1>2, <1>3, PTL DEF Spec
=============================================================================
