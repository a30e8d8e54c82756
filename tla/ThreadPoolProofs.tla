------------------------- MODULE ThreadPoolProofs ---------------------------
(***************************************************************************)
(* Proofs about ThreadPool.tla for every number of workers, producers,     *)
(* tasks and spurious wakeups, and every size of the queue.                *)
(***************************************************************************)
EXTENDS ThreadPool, TLAPS

PcValues == {"idle", "put", "putting", "none", "born", "loop", "take", "taking", "run", "done",
             "new", "starting", "latch", "up", "stopping", "join", "stopped"}

Types ==
  /\ kind \in {"pool", "queue", "bounded"} /\ maxQueueSize_ \in Nat
  /\ threads_ \in 0..NumThreads /\ joined \in 0..threads_
  /\ queue_ \in Seq(Nat) /\ taken \in Seq(Nat) /\ pushed \in Nat
  /\ pc \in [Threads -> PcValues]
  /\ sleeping \in [Conditions -> SUBSET Threads]

\* The tasks taken and the tasks that wait are all that were pushed, and the
\* queue is within its bound.
Queue ==
  /\ taken \o queue_ = [i \in 1..pushed |-> i]
  /\ kind = "bounded" => maxQueueSize_ > 0
  /\ kind = "bounded" \/ (kind = "pool" /\ maxQueueSize_ > 0) => Len(queue_) <= maxQueueSize_

\* The threads that were not started, and those that were joined.
Roster ==
  /\ \A w \in Workers :
       /\ w <= joined => pc[w] = "done"
       /\ kind = "pool" /\ w > threads_ => pc[w] = "none"
  /\ pc[Owner] \in {"new", "starting", "latch", "stopping", "join", "stopped"} => kind = "pool"
  /\ pc[Owner] \in {"new", "starting", "latch", "up", "stopping", "join", "stopped"}
  /\ pc[Owner] = "stopped" => joined = threads_

IInv == Types /\ TypeOK /\ Queue /\ Roster
-----------------------------------------------------------------------------
\* A sequence is a function on the numbers up to its length.
LEMMA SeqLen ==
  ASSUME NEW S, NEW s \in Seq(S)
  PROVE  Len(s) \in Nat /\ s \in [1..Len(s) -> S] /\ DOMAIN s = 1..Len(s)
OBVIOUS

\* One sequence behind another.
LEMMA SeqConcat ==
  ASSUME NEW S, NEW s \in Seq(S), NEW t \in Seq(S)
  PROVE  /\ s \o t \in Seq(S) /\ Len(s \o t) = Len(s) + Len(t)
         /\ \A i \in 1..(Len(s) + Len(t)) : (s \o t)[i] = IF i <= Len(s) THEN s[i] ELSE t[i - Len(s)]
OBVIOUS

\* Sequences with the same elements are the same.
LEMMA SeqSame ==
  ASSUME NEW S, NEW s \in Seq(S), NEW t \in Seq(S), Len(s) = Len(t),
         \A i \in 1..Len(s) : s[i] = t[i]
  PROVE  s = t
OBVIOUS

\* Who is who.
LEMMA Distinct ==
  /\ Nobody \notin Threads /\ Owner \in Threads /\ Owner \notin Workers /\ Owner \notin Producers
  /\ \A t \in Threads : t \in Workers \/ t \in Producers \/ t = Owner
  /\ \A t \in Workers \cup Producers : t \in Threads
  /\ \A t \in Workers : t \notin Producers /\ t \in Nat
  /\ NumThreads \in Nat
BY PoolAssumption DEF Threads, Workers

\* IInv holds before start().
LEMMA InitInv == Init => IInv
<1>. SUFFICES ASSUME Init PROVE IInv
  BY Zenon
<1>. USE DEF Init
<1>1. \A t \in Threads : /\ t = Owner => pc[t] = IF kind = "pool" THEN "new" ELSE "up"
                         /\ t \in Producers => pc[t] = "idle"
                         /\ t \in Workers => pc[t] = IF kind = "pool" THEN "none" ELSE "loop"
  BY Distinct, Zenon
<1>2. Types
  <2>1. pc \in [Threads -> PcValues]
    BY <1>1, Distinct, Zenon DEF PcValues
  <2>2. kind \in {"pool", "queue", "bounded"} /\ maxQueueSize_ \in Nat
    BY PoolAssumption, Zenon
  <2>3. sleeping \in [Conditions -> SUBSET Threads]
    BY Zenon
  <2>4. threads_ \in 0..NumThreads /\ joined \in 0..threads_
    BY Distinct
  <2>5. queue_ \in Seq(Nat) /\ taken \in Seq(Nat) /\ pushed \in Nat
    OBVIOUS
  <2>. QED  BY <2>1, <2>2, <2>3, <2>4, <2>5, Zenon DEF Types
<1>3. TypeOK
  BY <1>1, Distinct, Zenon DEF TypeOK, InCritical, Asleep
<1>4. Queue
  <2>1. << >> \o << >> = [i \in 1..0 |-> i]
    OBVIOUS
  <2>2. taken \o queue_ = [i \in 1..pushed |-> i]
    BY <2>1, Zenon
  <2>3. Len(queue_) = 0 /\ maxQueueSize_ \in Nat /\ Len(queue_) <= maxQueueSize_
    BY <1>2 DEF Types
  <2>. QED  BY <2>2, <2>3, Zenon DEF Queue
<1>5. Roster
  BY <1>1, Distinct DEF Roster, Workers
<1>. QED  BY <1>2, <1>3, <1>4, <1>5, Zenon DEF IInv

\* Thread t gets the mutex.
LEMMA LockInv ==
  ASSUME IInv, NEW t \in Threads, NEW at, NEW in, Lock(t, at, in),
         <<at, in>> \in {<<"take", "taking">>, <<"put", "putting">>, <<"up", "stopping">>},
         t = Owner <=> at = "up", at = "up" => kind = "pool"
  PROVE  IInv'
<1>. USE DEF IInv
<1>1. /\ pc[t] = at /\ ~Asleep(t) /\ holder_ = Nobody /\ holder_' = t
      /\ pc' = [pc EXCEPT ![t] = in]
      /\ UNCHANGED <<kind, maxQueueSize_, threads_, running_, queue_, sleeping, count_, joined,
                     calls, spurious, pushed, taken>>
  BY Zenon DEF Lock, shape, data, start, history
<1>2. in \in PcValues /\ at \notin {"done", "none"}
  BY Zenon DEF PcValues
<1>3. Types'
  BY <1>1, <1>2, Zenon DEF Types
<1>4. TypeOK'
  BY <1>1, Distinct, Zenon DEF Types, TypeOK, InCritical, Asleep
<1>5. Queue'
  BY <1>1, Zenon DEF Queue
<1>6. Roster'
  BY <1>1, <1>2, Distinct, Zenon DEF Roster, Types
<1>. QED  BY <1>3, <1>4, <1>5, <1>6, Zenon

\* A step of thread t outside the monitor: only its place changes.
LEMMA MovesInv ==
  ASSUME IInv, NEW t \in Threads, NEW to \in PcValues,
         pc' = [pc EXCEPT ![t] = to],
         UNCHANGED <<kind, maxQueueSize_, threads_, queue_, holder_, joined, pushed, taken>>,
         sleeping' \in [Conditions -> SUBSET Threads],
         \A c \in Conditions : sleeping'[c] \subseteq sleeping[c],
         ~Asleep(t), ~InCritical(t), to \notin {"putting", "taking", "stopping"},
         t \in Workers => pc[t] \notin {"none", "done"},
         t = Owner => to \in {"new", "starting", "latch", "up", "join", "stopped"},
         t = Owner /\ to # "up" => kind = "pool",
         t = Owner /\ to = "stopped" => joined = threads_
  PROVE  IInv'
<1>. USE DEF IInv
<1>1. Types'
  BY Zenon DEF Types
<1>2. TypeOK'
  BY Distinct DEF Types, TypeOK, InCritical, Asleep
<1>3. Queue'
  BY Zenon DEF Queue
<1>4. Roster'
  BY Distinct, Zenon DEF Roster, Types
<1>. QED  BY <1>1, <1>2, <1>3, <1>4, Zenon
-----------------------------------------------------------------------------
\* wait(): thread t gives the mutex back and sleeps.
LEMMA WaitInv ==
  ASSUME IInv, NEW t \in Threads, NEW c \in Conditions, NEW back \in {"put", "take"}, Wait(t, c, back),
         t # Owner, InCritical(t),
         UNCHANGED <<kind, maxQueueSize_, threads_, queue_, joined, pushed, taken>>
  PROVE  IInv'
<1>. USE DEF IInv
<1>1. /\ holder_' = Nobody /\ pc' = [pc EXCEPT ![t] = back]
      /\ sleeping' = [sleeping EXCEPT ![c] = @ \cup {t}]
  BY Zenon DEF Wait
<1>2. Types'
  BY <1>1, Zenon DEF Types, PcValues
<1>3. TypeOK'
  BY <1>1, Distinct, Zenon DEF Types, TypeOK, InCritical, Asleep
<1>4. Queue' 
  BY Zenon DEF Queue
<1>5. Roster'
  BY <1>1, Distinct, Zenon DEF Roster, Types, InCritical
<1>. QED  BY <1>2, <1>3, <1>4, <1>5, Zenon

\* The end of a critical section of t, after which it goes to to; what it did to
\* the queue is given.
LEMMA UnlockInv ==
  ASSUME IInv, NEW t \in Threads, NEW to \in PcValues, t # Owner, InCritical(t),
         pc' = [pc EXCEPT ![t] = to], to \notin {"putting", "taking", "stopping"},
         holder_' = Nobody, sleeping' \in [Conditions -> SUBSET Threads],
         \A c \in Conditions : sleeping'[c] \subseteq sleeping[c],
         UNCHANGED <<kind, maxQueueSize_, threads_, joined>>,
         queue_' \in Seq(Nat), taken' \in Seq(Nat), pushed' \in Nat, Queue'
  PROVE  IInv'
<1>. USE DEF IInv
<1>1. Types'
  BY Zenon DEF Types
<1>2. TypeOK'
  BY Distinct, ZenonT(60) DEF Types, TypeOK, InCritical, Asleep
<1>3. Roster'
  BY Distinct, Zenon DEF Roster, Types, InCritical
<1>. QED  BY <1>1, <1>2, <1>3, Zenon

\* notify() wakes some sleeper of its condition, if there is one.
LEMMA NotifiesFewer ==
  ASSUME IInv, NEW t, NEW c \in Conditions, UnlockNotifying(t, c)
  PROVE  /\ holder_' = Nobody /\ sleeping' \in [Conditions -> SUBSET Threads]
         /\ \A d \in Conditions : sleeping'[d] \subseteq sleeping[d]
<1>1. PICK s \in Notified(c) : sleeping' = [sleeping EXCEPT ![c] = s]
  BY Zenon DEF UnlockNotifying
<1>2. s \subseteq sleeping[c]
  BY Zenon DEF Notified
<1>. QED  BY <1>1, <1>2, Zenon DEF UnlockNotifying, IInv, Types

\* A task that goes behind those in the queue goes behind all.
LEMMA BehindAll ==
  ASSUME NEW q \in Seq(Nat), NEW r \in Seq(Nat), NEW e \in Nat
  PROVE  r \o Append(q, e) = Append(r \o q, e)
OBVIOUS

\* The next number behind the others.
LEMMA NumbersGrow ==
  ASSUME NEW q \in Seq(Nat), NEW r \in Seq(Nat), NEW n \in Nat, r \o q = [i \in 1..n |-> i]
  PROVE  r \o Append(q, n + 1) = [i \in 1..(n + 1) |-> i]
<1>0. n + 1 \in Nat
  OBVIOUS
<1>1. r \o Append(q, n + 1) = Append(r \o q, n + 1)
  BY <1>0, BehindAll, Zenon
<1>2. ASSUME NEW s \in Seq(Nat), Len(s) = n, \A i \in 1..n : s[i] = i
      PROVE  Append(s, n + 1) = [i \in 1..(n + 1) |-> i]
  <2>1. /\ Append(s, n + 1) \in Seq(Nat) /\ Len(Append(s, n + 1)) = n + 1
        /\ \A i \in 1..(n + 1) : Append(s, n + 1)[i] = i
    BY <1>2
  <2>2. Append(s, n + 1) = [i \in 1..(n + 1) |-> Append(s, n + 1)[i]]
    BY <2>1, SeqLen, Zenon
  <2>. QED  BY <2>1, <2>2, Zenon
<1>3. r \o q \in Seq(Nat) /\ Len(r \o q) = n /\ \A i \in 1..n : (r \o q)[i] = i
  <2>1. r \o q \in Seq(Nat)
    BY SeqConcat, Zenon
  <2>2. DOMAIN [i \in 1..n |-> i] = 1..Len(r \o q)
    BY <2>1, SeqLen, Zenon
  <2>3. Len([i \in 1..n |-> i]) = n
    OBVIOUS
  <2>. QED  BY <2>1, <2>3, Zenon
<1>. QED  BY <1>1, <1>2, <1>3, Zenon

\* The first of one sequence becomes the last of another.
LEMMA FirstToLast ==
  ASSUME NEW q \in Seq(Nat), NEW r \in Seq(Nat), q # << >>
  PROVE  Append(r, Head(q)) \o Tail(q) = r \o q
<1>1. /\ Head(q) \in Nat /\ Tail(q) \in Seq(Nat)
      /\ Append(r, Head(q)) \in Seq(Nat)
  OBVIOUS
<1>. DEFINE a == Append(r, Head(q)) \o Tail(q)
            b == r \o q
<1>2. Len(q) \in Nat /\ Len(q) > 0 /\ Len(r) \in Nat /\ Len(Tail(q)) = Len(q) - 1
  OBVIOUS
<1>3. a \in Seq(Nat) /\ b \in Seq(Nat) /\ Len(a) = Len(r) + Len(q) /\ Len(b) = Len(r) + Len(q)
  <2>1. Len(Append(r, Head(q))) = Len(r) + 1
    BY <1>1
  <2>2. /\ a \in Seq(Nat) /\ Len(a) = Len(Append(r, Head(q))) + Len(Tail(q))
        /\ b \in Seq(Nat) /\ Len(b) = Len(r) + Len(q)
    BY <1>1, SeqConcat, Zenon
  <2>3. Len(Append(r, Head(q))) + Len(Tail(q)) = Len(r) + Len(q)
    BY <1>2, <2>1
  <2>. QED  BY <2>2, <2>3, Zenon
<1>4. ASSUME NEW i \in 1..(Len(r) + Len(q)) PROVE a[i] = b[i]
  <2>. DEFINE h == Append(r, Head(q))
              t == Tail(q)
  <2>1. /\ h \in Seq(Nat) /\ Len(h) = Len(r) + 1 /\ h[Len(r) + 1] = Head(q) /\ Head(q) = q[1]
        /\ \A j \in 1..Len(r) : h[j] = r[j]
    BY <1>1
  <2>2. /\ t \in Seq(Nat) /\ Len(t) = Len(q) - 1
        /\ \A j \in 1..(Len(q) - 1) : t[j] = q[j + 1]
    BY <1>1, <1>2
  <2>3. /\ \A j \in 1..(Len(h) + Len(t)) : a[j] = IF j <= Len(h) THEN h[j] ELSE t[j - Len(h)]
        /\ \A j \in 1..(Len(r) + Len(q)) : b[j] = IF j <= Len(r) THEN r[j] ELSE q[j - Len(r)]
    BY <2>1, <2>2, SeqConcat, ZenonT(60)
  <2>. HIDE DEF h, t, a, b
  <2>4. /\ a[i] = IF i <= Len(r) + 1 THEN h[i] ELSE t[i - (Len(r) + 1)]
        /\ b[i] = IF i <= Len(r) THEN r[i] ELSE q[i - Len(r)]
    <3>1. Len(h) + Len(t) = Len(r) + Len(q)
      BY <1>2, <2>1, <2>2
    <3>2. /\ a[i] = IF i <= Len(h) THEN h[i] ELSE t[i - Len(h)]
          /\ b[i] = IF i <= Len(r) THEN r[i] ELSE q[i - Len(r)]
      BY <2>3, <3>1, Zenon
    <3>. QED  BY <2>1, <3>2, Zenon
  <2>5. CASE i <= Len(r)
    BY <1>2, <2>1, <2>4, <2>5
  <2>6. CASE i = Len(r) + 1
    BY <1>2, <2>1, <2>4, <2>6
  <2>7. CASE i > Len(r) + 1
    <3>1. /\ i - (Len(r) + 1) \in 1..(Len(q) - 1) /\ (i - (Len(r) + 1)) + 1 = i - Len(r)
          /\ ~(i <= Len(r)) /\ ~(i <= Len(r) + 1)
      BY <1>2, <2>7
    <3>. QED  BY <2>2, <2>4, <3>1, Zenon
  <2>8. i <= Len(r) \/ i = Len(r) + 1 \/ i > Len(r) + 1
    BY <1>2, SMTT(60)
  <2>. QED  BY <2>5, <2>6, <2>7, <2>8, Zenon
<1>. HIDE DEF a, b
<1>5. a = b
  BY <1>3, <1>4, SeqSame, Zenon
<1>. QED  BY <1>5, Zenon DEF a, b

\* run() and put() inside the monitor.
LEMMA PutInv ==
  ASSUME IInv, NEW p \in Producers, Put(p)
  PROVE  IInv'
<1>. USE DEF IInv
<1>1. /\ p \in Threads /\ p # Owner /\ InCritical(p)
      /\ UNCHANGED <<kind, maxQueueSize_, threads_, running_, count_, joined, calls, spurious, taken>>
  BY Distinct, Zenon DEF Put, InCritical, shape, start
<1>2. CASE isFull
  <2>1. Wait(p, "notFull_", "put") /\ UNCHANGED <<queue_, pushed>>
    BY <1>2, Zenon DEF Put
  <2>. QED  BY <1>1, <2>1, WaitInv, Zenon DEF Conditions
<1>3. CASE ~isFull
  <2>1. /\ pushed' = pushed + 1 /\ queue_' = Append(queue_, pushed + 1)
        /\ UnlockNotifying(p, "notEmpty_") /\ pc' = [pc EXCEPT ![p] = "idle"]
    BY <1>3, Zenon DEF Put
  <2>2. /\ queue_ \in Seq(Nat) /\ taken \in Seq(Nat) /\ pushed \in Nat /\ Len(queue_) \in Nat
        /\ maxQueueSize_ \in Nat /\ kind \in {"pool", "queue", "bounded"}
    BY DEF Types
  <2>3. queue_' \in Seq(Nat) /\ taken' \in Seq(Nat) /\ pushed' \in Nat /\ Len(queue_') = Len(queue_) + 1
    BY <1>1, <2>1, <2>2
  <2>4. taken' \o queue_' = [i \in 1..pushed' |-> i]
    <3>1. taken \o queue_ = [i \in 1..pushed |-> i]
      BY Zenon DEF Queue
    <3>2. taken \o Append(queue_, pushed + 1) = [i \in 1..(pushed + 1) |-> i]
      BY <2>2, <3>1, NumbersGrow, ZenonT(60)
    <3>. QED  BY <1>1, <2>1, <3>2, Zenon
  <2>5. kind = "bounded" \/ (kind = "pool" /\ maxQueueSize_ > 0) => Len(queue_') <= maxQueueSize_
    BY <1>3, <2>2, <2>3 DEF isFull
  <2>6. Queue'
    BY <1>1, <2>4, <2>5, Zenon DEF Queue
  <2>7. /\ holder_' = Nobody /\ sleeping' \in [Conditions -> SUBSET Threads]
        /\ \A d \in Conditions : sleeping'[d] \subseteq sleeping[d]
    BY <2>1, NotifiesFewer, Zenon DEF Conditions
  <2>. QED  BY <1>1, <2>1, <2>3, <2>6, <2>7, UnlockInv, Zenon DEF PcValues
<1>. QED  BY <1>2, <1>3, Zenon

\* take() inside the monitor.
LEMMA TakeInv ==
  ASSUME IInv, NEW w \in Workers, Take(w)
  PROVE  IInv'
<1>. USE DEF IInv
<1>1. /\ w \in Threads /\ w # Owner /\ InCritical(w)
      /\ UNCHANGED <<kind, maxQueueSize_, threads_, running_, count_, joined, calls, spurious, pushed>>
  BY Distinct, Zenon DEF Take, InCritical, shape, start
<1>0. /\ queue_ \in Seq(Nat) /\ taken \in Seq(Nat) /\ pushed \in Nat /\ Len(queue_) \in Nat
      /\ maxQueueSize_ \in Nat /\ sleeping \in [Conditions -> SUBSET Threads]
  BY DEF Types
<1>2. CASE MustWait /\ Wait(w, "notEmpty_", "take") /\ UNCHANGED <<queue_, taken>>
  BY <1>1, <1>2, WaitInv, Zenon DEF Conditions
<1>3. CASE /\ queue_ # << >>
           /\ taken' = Append(taken, TakesFirst[1]) /\ queue_' = TakesFirst[2]
           /\ IF WakesProducers THEN UnlockNotifying(w, "notFull_") ELSE Unlock(w)
           /\ pc' = [pc EXCEPT ![w] = "run"]
  <2>1. taken' = Append(taken, Head(queue_)) /\ queue_' = Tail(queue_)
    BY <1>3, Zenon DEF TakesFirst
  <2>2. queue_' \in Seq(Nat) /\ taken' \in Seq(Nat) /\ pushed' \in Nat /\ Len(queue_') = Len(queue_) - 1
    BY <1>0, <1>1, <1>3, <2>1
  <2>3. taken' \o queue_' = taken \o queue_
    BY <1>0, <1>3, <2>1, FirstToLast, Zenon
  <2>4. Queue'
    BY <1>0, <1>1, <2>2, <2>3 DEF Queue
  <2>5. /\ holder_' = Nobody /\ sleeping' \in [Conditions -> SUBSET Threads]
        /\ \A d \in Conditions : sleeping'[d] \subseteq sleeping[d]
    <3>1. CASE UnlockNotifying(w, "notFull_")
      BY <3>1, NotifiesFewer, Zenon DEF Conditions
    <3>2. CASE Unlock(w)
      BY <1>0, <3>2, Zenon DEF Unlock
    <3>. QED  BY <1>3, <3>1, <3>2, Zenon
  <2>. QED  BY <1>1, <1>3, <2>2, <2>4, <2>5, UnlockInv, Zenon DEF PcValues
<1>4. CASE Unlock(w) /\ pc' = [pc EXCEPT ![w] = "loop"] /\ UNCHANGED <<queue_, taken>>
  <2>1. Queue'
    BY <1>1, <1>4, Zenon DEF Queue
  <2>. QED  BY <1>0, <1>1, <1>4, <2>1, UnlockInv, Zenon DEF Unlock, PcValues
<1>. QED  BY <1>2, <1>3, <1>4, Zenon DEF Take
-----------------------------------------------------------------------------
\* A worker's steps outside the monitor.
LEMMA WorkerInv ==
  ASSUME IInv, NEW w \in Workers, Worker(w)
  PROVE  IInv'
<1>. USE DEF IInv
<1>0. w \in Threads /\ w # Owner /\ sleeping \in [Conditions -> SUBSET Threads]
  BY Distinct, Zenon DEF Types
<1>1. CASE RunInThread(w)
  <2>1. /\ pc[w] = "born" /\ pc' = [pc EXCEPT ![w] = "loop"]
        /\ sleeping' \in {sleeping, [sleeping EXCEPT !["latch_"] = {}]}
        /\ UNCHANGED <<kind, maxQueueSize_, threads_, queue_, holder_, joined, pushed, taken>>
    BY <1>1, Zenon DEF RunInThread, countDown, shape, data, history
  <2>2. /\ sleeping' \in [Conditions -> SUBSET Threads]
        /\ \A c \in Conditions : sleeping'[c] \subseteq sleeping[c]
    BY <1>0, <2>1, Zenon DEF Conditions
  <2>3. ~Asleep(w) /\ ~InCritical(w)
    BY <1>0, <2>1, Zenon DEF TypeOK, InCritical
  <2>. QED  BY <1>0, <2>1, <2>2, <2>3, MovesInv, Zenon DEF PcValues
<1>2. CASE Loop(w) \/ Ran(w)
  <2>1. /\ pc[w] \in {"loop", "run"}
        /\ \E to \in {"done", "take", "loop"} : pc' = [pc EXCEPT ![w] = to]
        /\ UNCHANGED <<kind, maxQueueSize_, threads_, queue_, holder_, sleeping, joined, pushed, taken>>
    BY <1>2, Zenon DEF Loop, Ran, shape, data, monitor, start, history
  <2>2. ~Asleep(w) /\ ~InCritical(w)
    BY <1>0, <2>1, Zenon DEF TypeOK, InCritical
  <2>. QED  BY <1>0, <2>1, <2>2, MovesInv, Zenon DEF PcValues
<1>3. CASE Lock(w, "take", "taking")
  BY <1>0, <1>3, LockInv, Zenon
<1>4. CASE Take(w)
  BY <1>4, TakeInv, Zenon
<1>. QED  BY <1>1, <1>2, <1>3, <1>4, Zenon DEF Worker

\* A producer's steps.
LEMMA ProducerInv ==
  ASSUME IInv, NEW p \in Producers, Call(p) \/ Produce(p)
  PROVE  IInv'
<1>. USE DEF IInv
<1>0. p \in Threads /\ p # Owner /\ p \notin Workers
  BY Distinct, Zenon
<1>1. CASE Call(p)
  <2>1. /\ pc[p] = "idle"
        /\ pc' = pc \/ pc' = [pc EXCEPT ![p] = "put"]
        /\ UNCHANGED <<kind, maxQueueSize_, threads_, queue_, holder_, sleeping, joined, pushed, taken>>
    BY <1>1, Zenon DEF Call, shape, data, monitor, start
  <2>2. pc' = [pc EXCEPT ![p] = "idle"] \/ pc' = [pc EXCEPT ![p] = "put"]
    BY <1>0, <2>1, Zenon DEF Types
  <2>3. ~Asleep(p) /\ ~InCritical(p) /\ sleeping \in [Conditions -> SUBSET Threads]
    BY <1>0, <2>1, Zenon DEF TypeOK, InCritical, Types
  <2>. QED  BY <1>0, <2>1, <2>2, <2>3, MovesInv, Zenon DEF PcValues
<1>2. CASE Lock(p, "put", "putting")
  BY <1>0, <1>2, LockInv, Zenon
<1>3. CASE Put(p)
  BY <1>3, PutInv, Zenon
<1>. QED  BY <1>1, <1>2, <1>3, Zenon DEF Produce

\* The owner's steps.
LEMMA OwnerInv ==
  ASSUME IInv, Start \/ BeginStop \/ Own
  PROVE  IInv'
<1>. USE DEF IInv
<1>0. /\ Owner \in Threads /\ Owner \notin Workers
      /\ sleeping \in [Conditions -> SUBSET Threads] /\ pc \in [Threads -> PcValues]
      /\ threads_ \in 0..NumThreads /\ joined \in 0..threads_ /\ NumThreads \in Nat
  BY Distinct, Zenon DEF Types
<1>1. CASE Start \/ Started \/ Joined
  <2>1. /\ pc[Owner] \in {"new", "starting", "join"}
        /\ \E to \in {"starting", "up", "stopped"} :
             pc' = [pc EXCEPT ![Owner] = to] /\ (to = "stopped" => joined = threads_)
        /\ UNCHANGED <<kind, maxQueueSize_, threads_, queue_, holder_, sleeping, joined, pushed, taken>>
    BY <1>1, Zenon DEF Start, Started, Joined, shape, data, monitor, start, history
  <2>2. ~Asleep(Owner) /\ ~InCritical(Owner) /\ kind = "pool"
    BY <1>0, <2>1, Zenon DEF TypeOK, InCritical, Roster
  <2>. QED  BY <1>0, <2>1, <2>2, MovesInv, Zenon DEF PcValues
<1>2. CASE BeginStop
  BY <1>0, <1>2, LockInv, Zenon DEF BeginStop
<1>3. CASE LatchWait
  <2>1. /\ pc[Owner] = "latch" /\ ~Asleep(Owner)
        /\ UNCHANGED <<kind, maxQueueSize_, threads_, queue_, holder_, joined, pushed, taken>>
    BY <1>3, Zenon DEF LatchWait, shape, data, start, history
  <2>2. ~InCritical(Owner) /\ kind = "pool"
    BY <1>0, <2>1, Zenon DEF InCritical, Roster
  <2>3. CASE sleeping' = [sleeping EXCEPT !["latch_"] = {Owner}] /\ UNCHANGED pc
    <3>1. Types'
      BY <1>0, <2>1, <2>3, Zenon DEF Types, Conditions
    <3>2. TypeOK'
      BY <1>0, <2>1, <2>3, Zenon DEF TypeOK, InCritical, Asleep, Conditions
    <3>3. Queue' /\ Roster'
      BY <2>1, <2>3, Zenon DEF Queue, Roster
    <3>. QED  BY <3>1, <3>2, <3>3, Zenon
  <2>4. CASE pc' = [pc EXCEPT ![Owner] = "starting"] /\ UNCHANGED sleeping
    BY <1>0, <2>1, <2>2, <2>4, MovesInv, Zenon DEF PcValues
  <2>. QED  BY <1>3, <2>3, <2>4, Zenon DEF LatchWait
<1>4. CASE StartThread
  <2>1. /\ pc[Owner] = "starting" /\ threads_ < NumThreads /\ threads_' = threads_ + 1
        /\ pc' = [pc EXCEPT ![Owner] = "latch", ![threads_ + 1] = "born"]
        /\ UNCHANGED <<kind, maxQueueSize_, queue_, holder_, sleeping, joined, pushed, taken>>
    BY <1>4, Zenon DEF StartThread, shape, monitor, start, history
  <2>2. kind = "pool" /\ threads_ + 1 \in Workers /\ threads_ + 1 \in Threads /\ threads_ + 1 # Owner
    BY <1>0, <2>1, Distinct DEF Roster, Workers
  <2>3. pc[threads_ + 1] = "none" /\ ~(threads_ + 1 <= joined)
    BY <1>0, <2>2 DEF Roster
  <2>. DEFINE v == threads_ + 1
  <2>4. v \in Workers /\ v \in Threads /\ v # Owner /\ pc[v] = "none"
        /\ pc' = [[pc EXCEPT ![Owner] = "latch"] EXCEPT ![v] = "born"]
    BY <2>1, <2>2, <2>3, Zenon
  <2>5. Types'
    <3>1. pc' \in [Threads -> PcValues]
      BY <1>0, <2>4, Zenon DEF PcValues
    <3>2. threads_' \in 0..NumThreads /\ joined' \in 0..threads_'
      BY <1>0, <2>1
    <3>. QED  BY <2>1, <3>1, <3>2, Zenon DEF Types
  <2>6. TypeOK'
    <3>. HIDE DEF v
    <3>. QED  BY <1>0, <2>1, <2>4, Zenon DEF TypeOK, InCritical, Asleep
  <2>7. Queue'
    BY <2>1, Zenon DEF Queue
  <2>8. Roster'
    <3>1. \A w \in Workers : w \in Threads /\ w # Owner /\ w \in Nat
      BY Distinct, Zenon
    <3>2. ASSUME NEW w \in Workers
          PROVE  (w <= joined' => pc'[w] = "done") /\ (kind' = "pool" /\ w > threads_' => pc'[w] = "none")
      <4>1. CASE w = v
        BY <1>0, <2>1, <2>3, <4>1
      <4>2. CASE w # v
        <5>1. pc'[w] = pc[w]
          BY <1>0, <2>4, <3>1, <4>2, Zenon
        <5>. QED  BY <1>0, <2>1, <3>1, <5>1 DEF Roster
      <4>. QED  BY <4>1, <4>2, Zenon
    <3>3. pc'[Owner] = "latch"
      BY <1>0, <2>4, Zenon
    <3>. QED  BY <2>1, <2>2, <3>2, <3>3, Zenon DEF Roster
  <2>. QED  BY <2>5, <2>6, <2>7, <2>8, Zenon
<1>5. CASE Stop
  <2>1. /\ pc[Owner] = "stopping" /\ holder_' = Nobody
        /\ pc' = [pc EXCEPT ![Owner] = "join"]
        /\ sleeping' = [sleeping EXCEPT !["notEmpty_"] = {}]
        /\ UNCHANGED <<kind, maxQueueSize_, threads_, queue_, joined, pushed, taken>>
    BY <1>5, Zenon DEF Stop, LeftAsleep, shape, start, history
  <2>2. Types'
    BY <2>1, Zenon DEF Types, Conditions, PcValues
  <2>3. TypeOK'
    BY <1>0, <2>1, Distinct, Zenon DEF TypeOK, InCritical, Asleep, Conditions
  <2>4. Queue'
    BY <2>1, Zenon DEF Queue
  <2>5. Roster'
    BY <1>0, <2>1, Distinct, Zenon DEF Roster
  <2>. QED  BY <2>2, <2>3, <2>4, <2>5, Zenon
<1>6. CASE Join
  <2>1. /\ pc[Owner] = "join" /\ joined < threads_ /\ pc[joined + 1] = "done" /\ joined' = joined + 1
        /\ UNCHANGED <<kind, maxQueueSize_, threads_, queue_, holder_, sleeping, pc, pushed, taken>>
    BY <1>6, Zenon DEF Join, shape, data, monitor, history
  <2>2. Types'
    BY <1>0, <2>1 DEF Types
  <2>3. TypeOK' /\ Queue'
    BY <2>1, Zenon DEF TypeOK, InCritical, Asleep, Queue
  <2>4. ASSUME NEW w \in Workers PROVE w <= joined' => pc[w] = "done"
    BY <1>0, <2>1, Distinct DEF Roster
  <2>5. Roster'
    BY <2>1, <2>4, Zenon DEF Roster
  <2>. QED  BY <2>2, <2>3, <2>5, Zenon
<1>. QED  BY <1>1, <1>2, <1>3, <1>4, <1>5, <1>6, Zenon DEF Own

\* A wakeup nobody asked for.
LEMMA SpuriousInv ==
  ASSUME IInv, NEW t \in Threads, NEW c \in Conditions, SpuriousWakeup(t, c)
  PROVE  IInv'
<1>. USE DEF IInv
<1>1. /\ sleeping' = [sleeping EXCEPT ![c] = @ \ {t}]
      /\ UNCHANGED <<kind, maxQueueSize_, threads_, queue_, holder_, joined, pc, pushed, taken>>
  BY Zenon DEF SpuriousWakeup, shape, data, start
<1>2. Types'
  BY <1>1, Zenon DEF Types
<1>3. TypeOK'
  BY <1>1, Zenon DEF Types, TypeOK, InCritical, Asleep
<1>4. Queue' /\ Roster'
  BY <1>1, Zenon DEF Queue, Roster
<1>. QED  BY <1>2, <1>3, <1>4, Zenon

\* IInv is inductive.
LEMMA Inductive == Spec => []IInv
<1>1. Init => IInv
  BY InitInv, Zenon
<1>2. IInv /\ [Next]_vars => IInv'
  <2>. SUFFICES ASSUME IInv, [Next]_vars PROVE IInv'
    BY Zenon
  <2>1. CASE Next
    BY <2>1, WorkerInv, ProducerInv, OwnerInv, SpuriousInv, Zenon DEF Next
  <2>2. CASE UNCHANGED vars
    <3>1. UNCHANGED <<kind, maxQueueSize_, threads_, queue_, holder_, sleeping, joined, pc, pushed, taken>>
      BY <2>2, Zenon DEF vars, shape, data, monitor, start, history
    <3>. QED  BY <3>1, Zenon DEF IInv, Types, TypeOK, InCritical, Asleep, Queue, Roster
  <2>. QED  BY <2>1, <2>2, Zenon
<1>. QED  BY <1>1, <1>2, PTL DEF Spec
-----------------------------------------------------------------------------
\* Whatever threads call run(), put(), take(), start() and stop(), and whoever is
\* woken: tasks leave the queue in the order in which they entered it and none is
\* lost in between, the queue stays within its bound, and mutex_ is held exactly by
\* the thread inside a critical section.
THEOREM TasksInOrder == Spec => []InOrder
<1>1. IInv => InOrder
  BY Zenon DEF IInv, Queue, InOrder
<1>. QED  BY <1>1, Inductive, PTL

\* When stop() has returned, every thread that start() made has ended.
THEOREM StopJoinsAll == Spec => []QuietAfterStop
<1>1. IInv => QuietAfterStop
  <2>. SUFFICES ASSUME IInv, pc[Owner] = "stopped", NEW w \in Workers
                PROVE  pc[w] \in {"none", "done"}
    BY Zenon DEF QuietAfterStop
  <2>1. w \in Nat /\ threads_ \in Nat /\ kind = "pool" /\ joined = threads_
    BY Distinct DEF IInv, Types, Roster
  <2>. QED  BY <2>1 DEF IInv, Roster
<1>. QED  BY <1>1, Inductive, PTL
=============================================================================
