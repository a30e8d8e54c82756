-------------------------- MODULE TimerQueueProofs --------------------------
(***************************************************************************)
(* The invariants of the timer queue, for any addresses, delays and        *)
(* intervals and any number of timers, ticks and settings of the clock.    *)
(*                                                                         *)
(* Everything is about which timer is where, so the inductive invariant    *)
(* speaks of addresses: an address of the heap is in the queue, in the     *)
(* vector of handleRead() or on its way to the loop.                       *)
(***************************************************************************)
EXTENDS TimerQueue, FiniteSetTheorems, TLAPS

\* The positions of the functors that add.
Adds == {i \in DOMAIN pendingFunctors_ : pendingFunctors_[i][1] = "add"}

\* The two sets show the heap, which is finite.
SetsShowHeap ==
  /\ IsFiniteSet(DOMAIN timer)
  /\ \A e \in timers_ : e[2] \in DOMAIN timer /\ e = Entry(timer, e[2])
  /\ \A p \in activeTimers_ : p[1] \in Queued /\ p = ActiveTimer(timer, p[1])
  /\ \A e \in timers_ : ActiveTimer(timer, e[2]) \in activeTimers_

\* Each timer of the heap is at one place.
OnePlace ==
  /\ \A a \in DOMAIN timer : a \in Queued \/ a \in expired \/ a \in Coming
  /\ \A a \in Queued : a \notin expired /\ a \notin Coming
  /\ \A a \in expired : a \in DOMAIN timer /\ a \notin Coming
  /\ \A a \in Coming : a \in DOMAIN timer

\* Functors add different timers.
AddsApart ==
  \A i, j \in Adds : pendingFunctors_[i][2][1] = pendingFunctors_[j][2][1] => i = j

\* handleRead() has a vector only while it runs, and a destroyed queue is empty.
Phases ==
  /\ callingExpiredTimers_ => ~active
  /\ ~callingExpiredTimers_ => expired = {}
  /\ ~Up => timers_ = {} /\ ~active /\ ~callingExpiredTimers_
  /\ steps \in Nat

\* The sequences of the timers that were cancelled while the queue had them.
Gone == {s \in 1..MaxCreated : <<s, TRUE>> \in cancelled}

\* Sequences are given out once.
Fresh ==
  /\ \A a \in DOMAIN timer : timer[a].sequence <= s_numCreated_
  /\ \A a, b \in DOMAIN timer : timer[a].sequence = timer[b].sequence => a = b
  /\ \A s \in fired : s \in Int /\ s <= s_numCreated_
  /\ \A s \in Gone : s <= s_numCreated_

\* A timer of the heap that was cancelled, or that has run and does not repeat, is
\* in the vector, and in the first case among those reset() will not restart.
Leaving ==
  /\ \A a \in DOMAIN timer : timer[a].sequence \in Gone =>
       a \in expired /\ ActiveTimer(timer, a) \in cancelingTimers_
  /\ \A a \in DOMAIN timer : timer[a].sequence \in fired =>
       a \in expired \/ timer[a].interval > 0

\* The timerfd is due in time for every entry.
ArmedForAll ==
  ~callingExpiredTimers_ =>
    /\ timers_ # {} => timerfd_ # Disarmed \/ active
    /\ steps = 0 => \A e \in timers_ : timerfd_ <= howMuchTimeFromNow(e[1])

IInv ==
  /\ TypeOK /\ SetsShowHeap /\ OnePlace /\ AddsApart /\ Phases
  /\ Fresh /\ Leaving /\ ArmedForAll
-----------------------------------------------------------------------------
\* A sequence is a function on the numbers up to its length.
LEMMA SeqLen ==
  ASSUME NEW S, NEW s \in Seq(S)
  PROVE  Len(s) \in Nat /\ s \in [1..Len(s) -> S] /\ DOMAIN s = 1..Len(s)
OBVIOUS

\* The empty sequence, and those that are not.
LEMMA SeqEmpty ==
  ASSUME NEW S
  PROVE  /\ << >> \in Seq(S) /\ Len(<< >>) = 0
         /\ \A s \in Seq(S) : s # << >> => Len(s) \in Nat \ {0}
OBVIOUS

\* A sequence without its first element.
LEMMA SeqTail ==
  ASSUME NEW S, NEW s \in Seq(S), s # << >>
  PROVE  /\ Head(s) \in S /\ Tail(s) \in Seq(S) /\ Len(Tail(s)) = Len(s) - 1
         /\ \A i \in 1..Len(Tail(s)) : Tail(s)[i] = s[i + 1]
OBVIOUS

\* A sequence with one element more.
LEMMA SeqAppend ==
  ASSUME NEW S, NEW s \in Seq(S), NEW e \in S
  PROVE  /\ Append(s, e) \in Seq(S) /\ Append(s, e) # << >> /\ Len(Append(s, e)) = Len(s) + 1
         /\ \A i \in 1..Len(s) : Append(s, e)[i] = s[i]
         /\ Append(s, e)[Len(s) + 1] = e
OBVIOUS

\* A function on a finite set has a least value: the sets of smaller ones are
\* finite, and one of them is smallest.
LEMMA FiniteMin ==
  ASSUME NEW S, IsFiniteSet(S), S # {}, NEW f \in [S -> Int]
  PROVE  \E x \in S : \A y \in S : f[x] <= f[y]
<1>. DEFINE Below(x) == {y \in S : f[y] < f[x]}
            B == {Below(x) : x \in S}
            R == StrictSubsetOrdering(S)
<1>1. \A x \in S : IsFiniteSet(Below(x)) /\ Below(x) \in SUBSET S
  BY FS_Subset, Zenon
<1>2. B \subseteq FiniteSubsetsOf(S) /\ B # {}
  <2>1. \A x \in S : Below(x) \in FiniteSubsetsOf(S)
    BY <1>1, Zenon DEF FiniteSubsetsOf
  <2>. HIDE DEF Below
  <2>. QED  BY <2>1, Zenon
<1>3. PICK b \in B : \A c \in B : ~(<<c, b>> \in R)
  <2>. HIDE DEF B, R
  <2>1. IsWellFoundedOn(R, FiniteSubsetsOf(S))
    BY FS_StrictSubsetOrderingWellFounded, Zenon DEF R
  <2>. QED  BY <1>2, <2>1, WFMin, Zenon
<1>4. PICK x \in S : b = Below(x)
  BY Zenon
<1>5. ASSUME NEW y \in S, f[y] < f[x] PROVE FALSE
  <2>1. y \in Below(x) /\ y \notin Below(y)
    BY <1>5
  <2>2. Below(y) \subseteq Below(x) /\ Below(y) # Below(x)
    BY <1>5, <2>1
  <2>3. <<Below(y), Below(x)>> \in R
    BY <2>2, <1>1, Zenon DEF StrictSubsetOrdering
  <2>. QED  BY <2>3, <1>3, <1>4, Zenon
<1>. QED  BY <1>5

\* Begin() gives the entry that expires first.
LEMMA BeginIsFirst ==
  ASSUME NEW S, IsFiniteSet(S), NEW f \in [S -> Int],
         NEW entries, entries # {}, entries = {<<f[a], a>> : a \in S}
  PROVE  Begin(entries) \in entries /\ \A e \in entries : Begin(entries)[1] <= e[1]
<1>1. PICK x \in S : \A y \in S : f[x] <= f[y]
  BY FiniteMin, Zenon
<1>2. <<f[x], x>> \in entries /\ \A e \in entries : <<f[x], x>>[1] <= e[1]
  BY <1>1
<1>. QED  BY <1>2, Zenon DEF Begin
-----------------------------------------------------------------------------
\* A sequence number that is gone was given out.
LEMMA GoneType == Gone \subseteq 1..MaxCreated
BY Zenon DEF Gone

\* IInv holds for a new TimerQueue.
LEMMA InitInv == Init => IInv
<1>. SUFFICES ASSUME Init PROVE IInv
  BY Zenon
<1>. USE DEF Init, Up, Closed, Disarmed
<1>1. DOMAIN timer = {} /\ DOMAIN pendingFunctors_ = {}
  OBVIOUS
<1>2. Coming = {} /\ Adds = {} /\ Queued = {}
  BY <1>1, Zenon DEF Coming, Adds, Queued
<1>3. TypeOK
  <2>1. pendingFunctors_ \in Seq({"add", "cancel"} \X (Addrs \X (1..MaxCreated)))
    BY SeqEmpty, Zenon
  <2>2. s_numCreated_ \in 0..MaxCreated
    BY TimerAssumption
  <2>3. timerfd_ \in Int /\ timerfd_ >= Closed
    OBVIOUS
  <2>4. \A a \in DOMAIN timer :
          timer[a] \in [expiration : Int, interval : Intervals \cup {0}, sequence : 1..MaxCreated]
    BY <1>1, Zenon
  <2>5. DOMAIN timer \subseteq Addrs
    BY <1>1, Zenon
  <2>6. late \in Int
    OBVIOUS
  <2>. QED  BY <2>1, <2>2, <2>3, <2>4, <2>5, <2>6, Zenon DEF TypeOK
<1>4. SetsShowHeap
  BY <1>1, FS_EmptySet, Zenon DEF SetsShowHeap
<1>5. Gone = {}
  BY Zenon DEF Gone
<1>6. OnePlace /\ AddsApart /\ Phases /\ Fresh /\ Leaving /\ ArmedForAll
  BY <1>1, <1>2, <1>5, Zenon DEF OnePlace, AddsApart, Phases, Fresh, Leaving, ArmedForAll
<1>. QED  BY <1>3, <1>4, <1>6, Zenon DEF IInv

\* The members of the timers on the heap.
LEMMA HeapTypes ==
  ASSUME TypeOK
  PROVE  \A a \in DOMAIN timer :
           /\ a \in Addrs /\ a \in Nat
           /\ timer[a] \in [expiration : Int, interval : Intervals \cup {0}, sequence : 1..MaxCreated]
           /\ timer[a].expiration \in Int /\ timer[a].interval \in Nat
           /\ timer[a].sequence \in 1..MaxCreated /\ timer[a].sequence \in Nat
<1>. SUFFICES ASSUME NEW a \in DOMAIN timer
              PROVE  /\ a \in Addrs /\ a \in Nat
                     /\ timer[a] \in [expiration : Int, interval : Intervals \cup {0}, sequence : 1..MaxCreated]
                     /\ timer[a].expiration \in Int /\ timer[a].interval \in Nat
                     /\ timer[a].sequence \in 1..MaxCreated /\ timer[a].sequence \in Nat
  BY Zenon
<1>1. a \in Addrs /\ a \in Nat
  BY TimerAssumption, Zenon DEF TypeOK
<1>2. timer[a] \in [expiration : Int, interval : Intervals \cup {0}, sequence : 1..MaxCreated]
  BY Zenon DEF TypeOK
<1>3. timer[a].expiration \in Int /\ timer[a].interval \in Intervals \cup {0}
      /\ timer[a].sequence \in 1..MaxCreated
  BY <1>2, Zenon
<1>4. \A i \in Intervals \cup {0} : i \in Nat
  BY TimerAssumption
<1>5. timer[a].sequence \in Nat
  BY <1>3
<1>. QED  BY <1>1, <1>2, <1>3, <1>4, <1>5, Zenon

\* addTimer() in the loop's thread.
LEMMA AddTimerInv ==
  ASSUME IInv, NEW a \in Addrs, NEW when \in Int, NEW interval \in Intervals \cup {0},
         AddTimer(a, when, interval)
  PROVE  IInv'
<1>. USE DEF IInv
<1>1. /\ Up /\ s_numCreated_ < MaxCreated /\ a \notin DOMAIN timer
      /\ s_numCreated_' = s_numCreated_ + 1
      /\ DOMAIN timer' = DOMAIN timer \cup {a}
      /\ timer'[a] = [expiration |-> when, interval |-> interval,
                      sequence |-> s_numCreated_ + 1]
      /\ \A b \in DOMAIN timer : b # a /\ timer'[b] = timer[b]
  BY Zenon DEF AddTimer, Create, NewTimer
<1>2. /\ timers_' = timers_ \cup {<<when, a>>}
      /\ activeTimers_' = activeTimers_ \cup {<<a, s_numCreated_ + 1>>}
      /\ cancelingTimers_' = cancelingTimers_
      /\ UNCHANGED <<handling, pendingFunctors_, returning, steps, fired, cancelled>>
      /\ timerfd_' = IF EarliestChanged(when) THEN howMuchTimeFromNow(when) ELSE timerfd_
      /\ ids' = ids \cup {<<a, s_numCreated_ + 1>>}
  BY <1>1 DEF AddTimer, Create, addTimerInLoop, insert, Entry, ActiveTimer, resetTimerfd
<1>h. s_numCreated_ \in Nat /\ s_numCreated_ + 1 \in 1..MaxCreated
  BY <1>1, TimerAssumption DEF TypeOK
<1>3. Queued' = Queued \cup {a}
  BY <1>1, <1>2 DEF Queued, Entry
<1>4. Coming' = Coming /\ Adds' = Adds /\ expired' = expired /\ Gone' = Gone
  BY <1>2, Zenon DEF Coming, Adds, Gone, handling
<1>5. TypeOK'
  <2>1. DOMAIN timer' \subseteq Addrs
    BY <1>1, Zenon DEF TypeOK
  <2>2. \A b \in DOMAIN timer' : timer'[b] \in [expiration : Int, interval : Intervals \cup {0}, sequence : 1..MaxCreated]
    BY <1>1, <1>h, HeapTypes
  <2>3. timers_' \subseteq Int \X Addrs
    BY <1>2 DEF TypeOK
  <2>4. activeTimers_' \subseteq Addrs \X (1..MaxCreated) /\ ids' \subseteq Addrs \X (1..MaxCreated)
    BY <1>2, <1>h DEF TypeOK
  <2>5. timerfd_' \in Int /\ timerfd_' >= Closed
    BY <1>2 DEF TypeOK, howMuchTimeFromNow, Closed
  <2>6. s_numCreated_' \in 0..MaxCreated
    BY <1>1, <1>h
  <2>. QED  BY <1>2, <2>1, <2>2, <2>3, <2>4, <2>5, <2>6, Zenon DEF TypeOK, handling
<1>6. SetsShowHeap'
  <2>1. IsFiniteSet(DOMAIN timer')
    BY <1>1, FS_AddElement DEF SetsShowHeap
  <2>2. \A e \in timers_' : e[2] \in DOMAIN timer' /\ e = Entry(timer', e[2])
    BY <1>1, <1>2 DEF SetsShowHeap, Entry
  <2>3. \A p \in activeTimers_' : p[1] \in Queued' /\ p = ActiveTimer(timer', p[1])
    BY <1>1, <1>2, <1>3 DEF SetsShowHeap, ActiveTimer, Queued
  <2>4. \A e \in timers_' : ActiveTimer(timer', e[2]) \in activeTimers_'
    BY <1>1, <1>2 DEF SetsShowHeap, ActiveTimer
  <2>. QED  BY <2>1, <2>2, <2>3, <2>4, Zenon DEF SetsShowHeap
<1>7. OnePlace' /\ AddsApart'
  BY <1>1, <1>2, <1>3, <1>4, ZenonT(60) DEF OnePlace, AddsApart, Queued, SetsShowHeap
<1>8. Phases'
  BY <1>1, <1>2 DEF Phases, Up, handling, howMuchTimeFromNow, Closed
<1>9. Fresh'
  <2>1. \A b \in DOMAIN timer' : timer'[b].sequence <= s_numCreated_'
    BY <1>1, <1>h, HeapTypes DEF Fresh
  <2>2. \A b, c \in DOMAIN timer' : timer'[b].sequence = timer'[c].sequence => b = c
    BY <1>1, <1>h, HeapTypes DEF Fresh
  <2>3. \A s \in fired' : s \in Int /\ s <= s_numCreated_'
    BY <1>1, <1>2, <1>h DEF Fresh
  <2>4. \A s \in Gone' : s <= s_numCreated_'
    BY <1>1, <1>4, <1>h, GoneType DEF Fresh
  <2>. QED  BY <2>1, <2>2, <2>3, <2>4, Zenon DEF Fresh
<1>10. Leaving'
  <2>1. s_numCreated_ + 1 \notin fired /\ s_numCreated_ + 1 \notin Gone
    BY <1>h, GoneType DEF Fresh
  <2>. QED  BY <1>1, <1>2, <1>4, <2>1 DEF Leaving, ActiveTimer
<1>11. ArmedForAll'
  <2>. SUFFICES ASSUME ~callingExpiredTimers_
                PROVE  /\ timers_' # {} => timerfd_' # Disarmed \/ active'
                       /\ steps' = 0 => \A e \in timers_' : timerfd_' <= howMuchTimeFromNow(e[1])
    BY <1>2, Zenon DEF ArmedForAll, handling
  <2>0. \A e \in timers_ : e[1] \in Int
    BY Zenon DEF TypeOK
  <2>1. CASE EarliestChanged(when)
    BY <1>2, <2>0, <2>1 DEF EarliestChanged, howMuchTimeFromNow, Disarmed
  <2>2. CASE ~EarliestChanged(when)
    <3>1. PICK e \in timers_ : e[1] <= when
      BY <2>2, <2>0 DEF EarliestChanged
    <3>. QED  BY <1>2, <2>0, <2>2, <3>1 DEF ArmedForAll, howMuchTimeFromNow, Disarmed, handling, TypeOK
  <2>. QED  BY <2>1, <2>2, Zenon
<1>. QED  BY <1>5, <1>6, <1>7, <1>8, <1>9, <1>10, <1>11, Zenon

\* What has to be shown when the heap, the sets and the vector stay.
LEMMA HeapStays ==
  ASSUME IInv, UNCHANGED <<timer, queue, handling, fired, cancelled, steps, s_numCreated_>>,
         ids' \subseteq Addrs \X (1..MaxCreated), returning' \subseteq Addrs \X (1..MaxCreated),
         pendingFunctors_' \in Seq({"add", "cancel"} \X (Addrs \X (1..MaxCreated))),
         Coming' = Coming, AddsApart'
  PROVE  IInv'
<1>. USE DEF IInv, queue, handling
<1>1. Queued' = Queued /\ Gone' = Gone
  BY Zenon DEF Queued, Entry, Gone
<1>2. TypeOK'
  BY Zenon DEF TypeOK
<1>3. SetsShowHeap' /\ OnePlace'
  BY <1>1, Zenon DEF SetsShowHeap, OnePlace, Entry, ActiveTimer
<1>4. Phases' /\ Fresh' /\ Leaving' /\ ArmedForAll'
  BY <1>1, Zenon DEF Phases, Fresh, Leaving, ArmedForAll, Up, ActiveTimer
<1>. QED  BY <1>2, <1>3, <1>4, Zenon

\* queueInLoop() of a functor: Coming grows by the timer it adds.
LEMMA PushFunctor ==
  ASSUME TypeOK, NEW f \in {"add", "cancel"} \X (Addrs \X (1..MaxCreated)),
         pendingFunctors_' = Append(pendingFunctors_, f)
  PROVE  /\ pendingFunctors_' \in Seq({"add", "cancel"} \X (Addrs \X (1..MaxCreated)))
         /\ Coming' = IF f[1] = "add" THEN Coming \cup {f[2][1]} ELSE Coming
         /\ AddsApart /\ (f[1] = "add" => f[2][1] \notin Coming) => AddsApart'
<1>. DEFINE T == {"add", "cancel"} \X (Addrs \X (1..MaxCreated))
            n == Len(pendingFunctors_)
<1>1. pendingFunctors_ \in Seq(T)
  BY Zenon DEF TypeOK
<1>. HIDE DEF T
<1>2. /\ pendingFunctors_' \in Seq(T)
      /\ Len(pendingFunctors_') = n + 1
      /\ \A i \in 1..n : pendingFunctors_'[i] = pendingFunctors_[i]
      /\ pendingFunctors_'[n + 1] = f
  BY <1>1, SeqAppend DEF T
<1>3. n \in Nat /\ DOMAIN pendingFunctors_ = 1..n /\ DOMAIN pendingFunctors_' = 1..(n + 1)
  BY <1>1, <1>2, SeqLen, Zenon
<1>4. Adds' = IF f[1] = "add" THEN Adds \cup {n + 1} ELSE Adds
  BY <1>2, <1>3 DEF Adds
<1>5. Coming = {pendingFunctors_[i][2][1] : i \in Adds}
  BY Zenon DEF Coming, Adds
<1>6. Coming' = {pendingFunctors_'[i][2][1] : i \in Adds'}
  BY Zenon DEF Coming, Adds
<1>7. Adds \subseteq 1..n
  BY <1>3, Zenon DEF Adds
<1>8. Coming' = IF f[1] = "add" THEN Coming \cup {f[2][1]} ELSE Coming
  BY <1>2, <1>4, <1>5, <1>6, <1>7
<1>9. AddsApart /\ (f[1] = "add" => f[2][1] \notin Coming) => AddsApart'
  BY <1>2, <1>3, <1>4, <1>5, <1>7 DEF AddsApart
<1>. QED  BY <1>2, <1>8, <1>9, Zenon DEF T

\* doPendingFunctors() takes a functor out: its timer is no longer coming.
LEMMA PopFunctor ==
  ASSUME TypeOK, AddsApart, pendingFunctors_ # << >>,
         pendingFunctors_' = Tail(pendingFunctors_)
  PROVE  LET f == Head(pendingFunctors_)
         IN  /\ f \in {"add", "cancel"} \X (Addrs \X (1..MaxCreated))
             /\ pendingFunctors_' \in Seq({"add", "cancel"} \X (Addrs \X (1..MaxCreated)))
             /\ f[1] = "add" => f[2][1] \in Coming
             /\ Coming' = IF f[1] = "add" THEN Coming \ {f[2][1]} ELSE Coming
             /\ AddsApart'
<1>. DEFINE T == {"add", "cancel"} \X (Addrs \X (1..MaxCreated))
            n == Len(pendingFunctors_)
            f == Head(pendingFunctors_)
<1>1. pendingFunctors_ \in Seq(T)
  BY Zenon DEF TypeOK
<1>. HIDE DEF T
<1>2. /\ pendingFunctors_' \in Seq(T)
      /\ f \in T
      /\ Len(pendingFunctors_') = n - 1
      /\ \A i \in 1..(n - 1) : pendingFunctors_'[i] = pendingFunctors_[i + 1]
      /\ n \in Nat \ {0} /\ f = pendingFunctors_[1]
  BY <1>1, SeqTail, SeqEmpty
<1>3. DOMAIN pendingFunctors_ = 1..n /\ DOMAIN pendingFunctors_' = 1..(n - 1)
  BY <1>1, <1>2, SeqLen, Zenon
<1>4. /\ \A i \in Adds' : i \in Int /\ i + 1 \in Adds /\ i + 1 # 1
                          /\ pendingFunctors_'[i] = pendingFunctors_[i + 1]
      /\ \A i \in Adds : i \in Int /\ (i = 1 \/ (i - 1 \in Adds'
                          /\ pendingFunctors_'[i - 1] = pendingFunctors_[i]))
      /\ 1 \in Adds <=> f[1] = "add"
  BY <1>2, <1>3 DEF Adds
<1>5. Coming = {pendingFunctors_[i][2][1] : i \in Adds}
  BY Zenon DEF Coming, Adds
<1>6. Coming' = {pendingFunctors_'[i][2][1] : i \in Adds'}
  BY Zenon DEF Coming, Adds
<1>7. f[1] = "add" => f[2][1] \in Coming
  BY <1>2, <1>4, <1>5, Zenon
<1>8. ASSUME NEW a \in Coming' PROVE a \in Coming /\ (f[1] = "add" => a # f[2][1])
  <2>1. PICK i \in Adds' : a = pendingFunctors_'[i][2][1]
    BY <1>6, <1>8, Zenon
  <2>2. i \in Int /\ i + 1 \in Adds /\ i + 1 # 1 /\ a = pendingFunctors_[i + 1][2][1]
    BY <1>4, <2>1, Zenon
  <2>3. a \in Coming
    BY <1>5, <2>2, Zenon
  <2>4. ASSUME f[1] = "add", a = f[2][1] PROVE FALSE
    <3>1. 1 \in Adds /\ pendingFunctors_[1][2][1] = pendingFunctors_[i + 1][2][1]
      BY <1>2, <1>4, <2>2, <2>4, Zenon
    <3>. QED  BY <2>2, <3>1, Zenon DEF AddsApart
  <2>. QED  BY <2>3, <2>4, Zenon
<1>9. ASSUME NEW a \in Coming, f[1] = "add" => a # f[2][1] PROVE a \in Coming'
  <2>1. PICK i \in Adds : a = pendingFunctors_[i][2][1]
    BY <1>5, <1>9, Zenon
  <2>. QED  BY <1>2, <1>4, <1>6, <1>9, <2>1, ZenonT(60)
<1>10. Coming' = IF f[1] = "add" THEN Coming \ {f[2][1]} ELSE Coming
  BY <1>8, <1>9, Zenon
<1>11. AddsApart'
  <2>. SUFFICES ASSUME NEW i \in Adds', NEW j \in Adds',
                       pendingFunctors_'[i][2][1] = pendingFunctors_'[j][2][1]
                PROVE  i = j
    BY Zenon DEF AddsApart
  <2>1. /\ i \in Int /\ i + 1 \in Adds /\ j \in Int /\ j + 1 \in Adds
        /\ pendingFunctors_[i + 1][2][1] = pendingFunctors_[j + 1][2][1]
    BY <1>4, Zenon
  <2>2. i + 1 = j + 1
    BY <2>1, Zenon DEF AddsApart
  <2>. QED  BY <2>1, <2>2
<1>. QED  BY <1>2, <1>7, <1>10, <1>11, Zenon DEF T

\* addTimer() and cancel() in another thread.
LEMMA QueueAddTimerInv ==
  ASSUME IInv, NEW a \in Addrs, NEW when \in Int, NEW interval \in Intervals \cup {0},
         QueueAddTimer(a, when, interval)
  PROVE  IInv'
<1>. USE DEF IInv
<1>1. /\ Up /\ s_numCreated_ < MaxCreated /\ a \notin DOMAIN timer
      /\ s_numCreated_' = s_numCreated_ + 1
      /\ DOMAIN timer' = DOMAIN timer \cup {a}
      /\ timer'[a] = [expiration |-> when, interval |-> interval,
                      sequence |-> s_numCreated_ + 1]
      /\ \A b \in DOMAIN timer : b # a /\ timer'[b] = timer[b]
  BY Zenon DEF QueueAddTimer, Create, NewTimer
<1>2. /\ pendingFunctors_' = Append(pendingFunctors_, <<"add", <<a, s_numCreated_ + 1>> >>)
      /\ UNCHANGED <<queue, handling, ids, steps, fired, cancelled>>
      /\ returning' = returning \cup {<<a, s_numCreated_ + 1>>}
  BY Zenon DEF QueueAddTimer, Create
<1>3. s_numCreated_ \in Nat /\ s_numCreated_ + 1 \in 1..MaxCreated
  BY <1>1, TimerAssumption DEF TypeOK
<1>4. \A e \in timers_ : e[2] \in DOMAIN timer /\ e[2] # a
  BY <1>1, Zenon DEF SetsShowHeap
<1>5. Queued' = Queued
  BY <1>1, <1>2, <1>4, Zenon DEF Queued, Entry, queue
<1>6. /\ pendingFunctors_' \in Seq({"add", "cancel"} \X (Addrs \X (1..MaxCreated)))
      /\ Coming' = Coming \cup {a}
      /\ AddsApart'
  <2>1. a \notin Coming
    BY <1>1, Zenon DEF OnePlace
  <2>2. <<"add", <<a, s_numCreated_ + 1>> >> \in {"add", "cancel"} \X (Addrs \X (1..MaxCreated))
    BY <1>3, Zenon
  <2>. QED  BY <1>2, <2>1, <2>2, PushFunctor, Zenon
<1>7. expired' = expired /\ Gone' = Gone /\ timers_' = timers_ /\ activeTimers_' = activeTimers_
      /\ cancelingTimers_' = cancelingTimers_ /\ fired' = fired
  BY <1>2, Zenon DEF Gone, handling, queue
<1>8. TypeOK'
  <2>1. DOMAIN timer' \subseteq Addrs
    BY <1>1, Zenon DEF TypeOK
  <2>2. \A b \in DOMAIN timer' :
          timer'[b] \in [expiration : Int, interval : Intervals \cup {0}, sequence : 1..MaxCreated]
    BY <1>1, <1>3, HeapTypes
  <2>3. returning' \subseteq Addrs \X (1..MaxCreated)
    BY <1>2, <1>3 DEF TypeOK
  <2>4. s_numCreated_' \in 0..MaxCreated
    BY <1>1, <1>3
  <2>. QED  BY <1>2, <1>6, <2>1, <2>2, <2>3, <2>4, ZenonT(60) DEF TypeOK, handling, queue
<1>9. SetsShowHeap'
  <2>1. IsFiniteSet(DOMAIN timer')
    BY <1>1, FS_AddElement DEF SetsShowHeap
  <2>2. \A e \in timers_' : e[2] \in DOMAIN timer' /\ e = Entry(timer', e[2])
    BY <1>1, <1>7, Zenon DEF SetsShowHeap, Entry
  <2>3. \A p \in activeTimers_' : p[1] \in Queued' /\ p = ActiveTimer(timer', p[1])
    BY <1>1, <1>5, <1>7, Zenon DEF SetsShowHeap, ActiveTimer, Queued
  <2>4. \A e \in timers_' : ActiveTimer(timer', e[2]) \in activeTimers_'
    BY <1>1, <1>7, Zenon DEF SetsShowHeap, ActiveTimer
  <2>. QED  BY <2>1, <2>2, <2>3, <2>4, Zenon DEF SetsShowHeap
<1>10. OnePlace'
  BY <1>1, <1>5, <1>6, <1>7, Zenon DEF OnePlace, Queued
<1>11. Phases'
  BY <1>2, Zenon DEF Phases, Up, handling, queue
<1>12. Fresh'
  <2>1. \A b \in DOMAIN timer' : timer'[b].sequence <= s_numCreated_'
    BY <1>1, <1>3, HeapTypes DEF Fresh
  <2>2. \A b, c \in DOMAIN timer' : timer'[b].sequence = timer'[c].sequence => b = c
    BY <1>1, <1>3, HeapTypes DEF Fresh
  <2>3. \A s \in fired' : s \in Int /\ s <= s_numCreated_'
    BY <1>1, <1>3, <1>7 DEF Fresh
  <2>4. \A s \in Gone' : s <= s_numCreated_'
    BY <1>1, <1>3, <1>7, GoneType DEF Fresh
  <2>. QED  BY <2>1, <2>2, <2>3, <2>4, Zenon DEF Fresh
<1>13. Leaving'
  <2>1. s_numCreated_ + 1 \notin fired /\ s_numCreated_ + 1 \notin Gone
    BY <1>3, GoneType DEF Fresh
  <2>. QED  BY <1>1, <1>7, <2>1 DEF Leaving, ActiveTimer
<1>14. ArmedForAll'
  BY <1>2, Zenon DEF ArmedForAll, handling, queue
<1>. QED  BY <1>6, <1>8, <1>9, <1>10, <1>11, <1>12, <1>13, <1>14, ZenonT(60)

\* addTimer() returns: whatever TimerId it makes, the queue does not change.
LEMMA ReturnIdInv ==
  ASSUME IInv, NEW id \in returning, ReturnId(id)
  PROVE  IInv'
<1>1. /\ UNCHANGED <<timer, queue, handling, fired, cancelled, steps, s_numCreated_>>
      /\ pendingFunctors_' = pendingFunctors_ /\ returning' = returning \ {id}
  BY Zenon DEF ReturnId
<1>2. PICK s \in 1..s_numCreated_ : ids' = ids \cup {<<id[1], s>>}
  BY Zenon DEF ReturnId
<1>3. s_numCreated_ \in 0..MaxCreated /\ id \in Addrs \X (1..MaxCreated)
      /\ ids \subseteq Addrs \X (1..MaxCreated) /\ returning \subseteq Addrs \X (1..MaxCreated)
  BY Zenon DEF IInv, TypeOK
<1>4. s \in 1..MaxCreated
  BY <1>3, TimerAssumption
<1>5. /\ ids' \subseteq Addrs \X (1..MaxCreated)
      /\ returning' \subseteq Addrs \X (1..MaxCreated)
  BY <1>1, <1>2, <1>3, <1>4
<1>6. /\ pendingFunctors_' \in Seq({"add", "cancel"} \X (Addrs \X (1..MaxCreated)))
      /\ Coming' = Coming /\ AddsApart'
  BY <1>1 DEF IInv, TypeOK, Coming, AddsApart, Adds
<1>. QED  BY <1>1, <1>5, <1>6, HeapStays, Zenon

\* cancel() hands a timer over to the loop.
LEMMA QueueCancelInv ==
  ASSUME IInv, NEW id \in ids, QueueCancel(id)
  PROVE  IInv'
<1>. USE DEF IInv
<1>1. <<"cancel", id>> \in {"add", "cancel"} \X (Addrs \X (1..MaxCreated))
  BY Zenon DEF TypeOK
<1>2. /\ pendingFunctors_' \in Seq({"add", "cancel"} \X (Addrs \X (1..MaxCreated)))
      /\ Coming' = Coming /\ AddsApart'
  BY <1>1, PushFunctor, Zenon DEF QueueCancel
<1>3. /\ ids' \subseteq Addrs \X (1..MaxCreated)
      /\ returning' \subseteq Addrs \X (1..MaxCreated)
  BY Zenon DEF QueueCancel, IInv, TypeOK
<1>. QED  BY <1>2, <1>3, HeapStays, Zenon DEF QueueCancel

\* cancelInLoop(), called at once or as a functor.
LEMMA CancelInLoopInv ==
  ASSUME IInv, NEW id \in Addrs \X (1..MaxCreated), cancelInLoop(id),
         UNCHANGED <<s_numCreated_, handling, ids, returning, steps, fired>>,
         pendingFunctors_' \in Seq({"add", "cancel"} \X (Addrs \X (1..MaxCreated))),
         Coming' = Coming, AddsApart'
  PROVE  IInv'
<1>. USE DEF IInv
<1>0. /\ timerfd_' = timerfd_ /\ expired' = expired /\ active' = active
      /\ callingExpiredTimers_' = callingExpiredTimers_ /\ torun' = torun
  BY Zenon DEF cancelInLoop, handling
<1>1. CASE Held(id)
  <2>1. /\ id \in activeTimers_ /\ id[1] \in Queued /\ id = ActiveTimer(timer, id[1])
        /\ id[1] \in DOMAIN timer /\ id[2] = timer[id[1]].sequence
    BY <1>1 DEF Held, SetsShowHeap, Queued, ActiveTimer
  <2>2. /\ timers_' = timers_ \ {Entry(timer, id[1])}
        /\ activeTimers_' = activeTimers_ \ {id}
        /\ DOMAIN timer' = DOMAIN timer \ {id[1]}
        /\ \A a \in DOMAIN timer \ {id[1]} : timer'[a] = timer[a]
        /\ cancelingTimers_' = cancelingTimers_
        /\ cancelled' = cancelled \cup {<<id[2], TRUE>>}
    BY <1>1, <2>1, Zenon DEF cancelInLoop, Delete
  <2>3. \A s \in Gone' : s \in Gone \/ s = id[2]
    BY <2>2, Zenon DEF Gone
  <2>4. Queued' = Queued \ {id[1]}
    BY <2>1, <2>2, Zenon DEF Queued, Entry
  <2>5. TypeOK'
    <3>1. timers_' \subseteq Int \X Addrs /\ activeTimers_' \subseteq Addrs \X (1..MaxCreated)
          /\ cancelingTimers_' \subseteq Addrs \X (1..MaxCreated) /\ DOMAIN timer' \subseteq Addrs
      BY <2>2, Zenon DEF TypeOK
    <3>2. \A b \in DOMAIN timer' :
          timer'[b] \in [expiration : Int, interval : Intervals \cup {0}, sequence : 1..MaxCreated]
      BY <2>2, HeapTypes, Zenon
    <3>. QED  BY <1>0, <3>1, <3>2, Zenon DEF TypeOK, handling
  <2>6. SetsShowHeap'
    <3>1. IsFiniteSet(DOMAIN timer')
      BY <2>2, FS_RemoveElement DEF SetsShowHeap
    <3>2. \A e \in timers_' : e[2] \in DOMAIN timer' /\ e = Entry(timer', e[2])
      BY <2>1, <2>2, Zenon DEF SetsShowHeap, Entry
    <3>3. \A p \in activeTimers_' : p[1] \in Queued' /\ p = ActiveTimer(timer', p[1])
      BY <2>1, <2>2, <2>4, ZenonT(60) DEF SetsShowHeap, ActiveTimer, Queued
    <3>4. \A e \in timers_' : ActiveTimer(timer', e[2]) \in activeTimers_'
      BY <2>1, <2>2, <3>2 DEF SetsShowHeap, ActiveTimer
    <3>. QED  BY <3>1, <3>2, <3>3, <3>4, ZenonT(60) DEF SetsShowHeap
  <2>7. OnePlace'
    BY <1>0, <2>1, <2>2, <2>4, Zenon DEF OnePlace
  <2>8. Phases'
    BY <1>0, <2>2, Zenon DEF Phases, Up
  <2>9. Fresh'
    BY <2>1, <2>2, <2>3 DEF Fresh
  <2>10. Leaving'
    BY <1>0, <2>1, <2>2, <2>3, ZenonT(60) DEF Leaving, Fresh, ActiveTimer
  <2>11. ArmedForAll'
    BY <1>0, <2>2, Zenon DEF ArmedForAll
  <2>. QED  BY <2>5, <2>6, <2>7, <2>8, <2>9, <2>10, <2>11, ZenonT(60)
<1>2. CASE ~Held(id)
  <2>1. /\ UNCHANGED <<timers_, activeTimers_, timer>>
        /\ cancelingTimers_' = IF callingExpiredTimers_
                               THEN cancelingTimers_ \cup {id} ELSE cancelingTimers_
        /\ cancelled' = cancelled \cup
             {<<id[2], \E a \in expired : id = ActiveTimer(timer, a)>>}
    BY <1>2, Zenon DEF cancelInLoop, Held
  <2>2. Queued' = Queued
    BY <2>1, Zenon DEF Queued, Entry
  <2>3. \A s \in Gone' : s \in Gone \/ \E a \in expired : id = ActiveTimer(timer, a) /\ s = id[2]
    BY <2>1, Zenon DEF Gone
  <2>4. \A a \in expired : a \in DOMAIN timer /\ callingExpiredTimers_
    BY Zenon DEF OnePlace, Phases
  <2>5. TypeOK'
    BY <1>0, <2>1, Zenon DEF TypeOK, handling
  <2>6. SetsShowHeap' /\ OnePlace' /\ Phases' /\ ArmedForAll'
    BY <1>0, <2>1, <2>2, Zenon DEF SetsShowHeap, OnePlace, Phases, ArmedForAll, Up, Entry, ActiveTimer
  <2>7. Fresh'
    BY <2>1, <2>3, <2>4 DEF Fresh, ActiveTimer
  <2>8. Leaving'
    <3>. SUFFICES ASSUME NEW a \in DOMAIN timer, timer[a].sequence \in Gone', timer[a].sequence \notin Gone
                  PROVE  a \in expired /\ ActiveTimer(timer, a) \in cancelingTimers_'
      BY <1>0, <2>1, Zenon DEF Leaving
    <3>1. PICK b \in expired : id = ActiveTimer(timer, b) /\ timer[a].sequence = id[2]
      BY <2>3, Zenon
    <3>2. a = b
      BY <2>4, <3>1, Zenon DEF Fresh, ActiveTimer
    <3>. QED  BY <2>1, <2>4, <3>1, <3>2, Zenon
  <2>. QED  BY <2>5, <2>6, <2>7, <2>8, Zenon
<1>. QED  BY <1>1, <1>2, Zenon

\* cancelInLoop(): the timer is in the sets, in the batch that runs, or gone.
LEMMA CancelInv ==
  ASSUME IInv, NEW id \in ids, Cancel(id)
  PROVE  IInv'
<1>1. id \in Addrs \X (1..MaxCreated)
  BY Zenon DEF IInv, TypeOK
<1>2. /\ pendingFunctors_' \in Seq({"add", "cancel"} \X (Addrs \X (1..MaxCreated)))
      /\ Coming' = Coming /\ AddsApart'
  BY DEF Cancel, IInv, TypeOK, Coming, AddsApart, Adds
<1>. QED  BY <1>1, <1>2, CancelInLoopInv, Zenon DEF Cancel

\* A functor runs.
LEMMA RunFunctorInv ==
  ASSUME IInv, RunFunctor
  PROVE  IInv'
<1>. USE DEF IInv
<1>. DEFINE f == Head(pendingFunctors_)
<1>1. /\ Up /\ ~active /\ ~callingExpiredTimers_
      /\ pendingFunctors_ # << >> /\ pendingFunctors_' = Tail(pendingFunctors_)
      /\ UNCHANGED <<s_numCreated_, handling, ids, returning, steps, fired>>
  BY Zenon DEF RunFunctor
<1>2. /\ f \in {"add", "cancel"} \X (Addrs \X (1..MaxCreated))
      /\ pendingFunctors_' \in Seq({"add", "cancel"} \X (Addrs \X (1..MaxCreated)))
      /\ f[1] = "add" => f[2][1] \in Coming
      /\ Coming' = IF f[1] = "add" THEN Coming \ {f[2][1]} ELSE Coming
      /\ AddsApart'
  BY <1>1, PopFunctor, Zenon
<1>. HIDE DEF f
<1>3. CASE f[1] = "cancel" /\ cancelInLoop(f[2])
  <2>1. f[2] \in Addrs \X (1..MaxCreated)
    BY <1>2, Zenon
  <2>2. Coming' = Coming
    BY <1>2, <1>3, Zenon
  <2>. QED  BY <1>1, <1>2, <1>3, <2>1, <2>2, CancelInLoopInv, Zenon
<1>4. CASE f[1] = "add" /\ addTimerInLoop(timer, f[2][1]) /\ UNCHANGED <<timer, cancelled>>
  <2>. DEFINE a == f[2][1]
              when == timer[a].expiration
  <2>1. a \in Coming /\ a \in DOMAIN timer /\ a \notin Queued /\ a \notin expired
    BY <1>2, <1>4, Zenon DEF OnePlace
  <2>2. /\ timers_' = timers_ \cup {<<when, a>>}
        /\ activeTimers_' = activeTimers_ \cup {<<a, timer[a].sequence>>}
        /\ cancelingTimers_' = cancelingTimers_ /\ UNCHANGED <<timer, cancelled>>
        /\ timerfd_' = IF EarliestChanged(when) THEN howMuchTimeFromNow(when) ELSE timerfd_
    BY <1>4, Zenon DEF addTimerInLoop, insert, Entry, ActiveTimer, resetTimerfd
  <2>3. when \in Int /\ a \in Addrs /\ timer[a].sequence \in 1..MaxCreated
    BY <2>1, HeapTypes, Zenon
  <2>4. Coming' = Coming \ {a}
    BY <1>2, <1>4, Zenon
  <2>. HIDE DEF a, when
  <2>5. Queued' = Queued \cup {a}
    BY <2>1, <2>2, Zenon DEF Queued, Entry, when
  <2>6. Gone' = Gone /\ expired' = expired /\ active' = active /\ torun' = torun
        /\ callingExpiredTimers_' = callingExpiredTimers_ /\ late' = late
    BY <1>1, <2>2, Zenon DEF Gone, handling
  <2>7. TypeOK'
    <3>1. timers_' \subseteq Int \X Addrs
      BY <2>2, <2>3 DEF TypeOK
    <3>2. activeTimers_' \subseteq Addrs \X (1..MaxCreated)
      BY <2>2, <2>3 DEF TypeOK
    <3>3. timerfd_' \in Int /\ timerfd_' >= Closed
      BY <2>2, <2>3 DEF TypeOK, howMuchTimeFromNow, Closed
    <3>. QED  BY <1>1, <1>2, <2>2, <2>6, <3>1, <3>2, <3>3, Zenon DEF TypeOK
  <2>8. SetsShowHeap'
    <3>2. \A e \in timers_' : e[2] \in DOMAIN timer' /\ e = Entry(timer', e[2])
      BY <2>1, <2>2 DEF SetsShowHeap, Entry, when
    <3>3. \A p \in activeTimers_' : p[1] \in Queued' /\ p = ActiveTimer(timer', p[1])
      BY <2>1, <2>2, <2>5 DEF SetsShowHeap, ActiveTimer
    <3>4. \A e \in timers_' : ActiveTimer(timer', e[2]) \in activeTimers_'
      BY <2>1, <2>2 DEF SetsShowHeap, ActiveTimer
    <3>. QED  BY <2>2, <3>2, <3>3, <3>4, ZenonT(60) DEF SetsShowHeap
  <2>9. OnePlace'
    BY <2>1, <2>2, <2>4, <2>5, <2>6, ZenonT(60) DEF OnePlace
  <2>10. Phases'
    BY <1>1, <2>2, <2>3, <2>6 DEF Phases, Up, howMuchTimeFromNow, Closed
  <2>11. Fresh' /\ Leaving'
    BY <1>1, <2>2, <2>6, Zenon DEF Fresh, Leaving, ActiveTimer
  <2>12. ArmedForAll'
    <3>0. \A e \in timers_ : e[1] \in Int
      BY Zenon DEF TypeOK
    <3>1. CASE EarliestChanged(when)
      BY <1>1, <2>2, <2>3, <3>0, <3>1 DEF ArmedForAll, EarliestChanged, howMuchTimeFromNow, Disarmed
    <3>2. CASE ~EarliestChanged(when)
      <4>1. PICK e \in timers_ : e[1] <= when
        BY <2>3, <3>2, <3>0 DEF EarliestChanged
      <4>. QED  BY <1>1, <2>2, <2>3, <3>0, <3>2, <4>1, <2>6 
                DEF ArmedForAll, howMuchTimeFromNow, Disarmed, TypeOK
    <3>. QED  BY <3>1, <3>2, Zenon
  <2>. QED  BY <1>2, <2>7, <2>8, <2>9, <2>10, <2>11, <2>12, ZenonT(60)
<1>. QED  BY <1>3, <1>4, Zenon DEF RunFunctor, f

\* poll() reports the timerfd.
LEMMA PollInv ==
  ASSUME IInv, Poll
  PROVE  IInv'
<1>. USE DEF IInv, Poll, queue
<1>1. Queued' = Queued /\ Gone' = Gone /\ Coming' = Coming /\ Adds' = Adds
  BY Zenon DEF Queued, Entry, Gone, Coming, Adds
<1>2. TypeOK'
  BY Zenon DEF TypeOK
<1>3. SetsShowHeap' /\ OnePlace' /\ AddsApart'
  BY <1>1, ZenonT(60) DEF SetsShowHeap, OnePlace, AddsApart, Entry, ActiveTimer
<1>4. Phases' /\ Fresh' /\ Leaving' /\ ArmedForAll'
  BY <1>1 DEF Phases, Fresh, Leaving, ArmedForAll, Up, ActiveTimer, Closed
<1>. QED  BY <1>2, <1>3, <1>4, Zenon

\* handleRead() moves what has expired from the queue into its vector.
LEMMA HandleReadInv ==
  ASSUME IInv, HandleRead
  PROVE  IInv'
<1>. USE DEF IInv
<1>0. /\ active /\ ~callingExpiredTimers_ /\ expired = {} /\ Up
      /\ active' = FALSE /\ callingExpiredTimers_' = TRUE /\ cancelingTimers_' = {} /\ late' = 0
      /\ UNCHANGED <<timer, s_numCreated_, pendingFunctors_, ids, returning, steps, fired, cancelled>>
      /\ timerfd_' = IF timerfd_ = 0 THEN Disarmed ELSE timerfd_
      /\ torun' = getExpired
  BY Zenon DEF HandleRead, Phases, readTimerfd, TypeOK
<1>1. \A e \in timers_ : e[1] \in Int /\ e[2] \in DOMAIN timer /\ e = <<timer[e[2]].expiration, e[2]>>
  BY Zenon DEF SetsShowHeap, Entry, TypeOK
<1>2. /\ \A e \in timers_' : e \in timers_ /\ ~(e[1] <= 0)
      /\ \A e \in timers_ : e[1] <= 0 \/ e \in timers_'
  BY Zenon DEF HandleRead, getExpired
<1>3. \A a \in expired' : a \in Queued /\ timer[a].expiration <= 0
  <2>. SUFFICES ASSUME NEW e \in getExpired PROVE e[2] \in Queued /\ timer[e[2]].expiration <= 0
    BY Zenon DEF HandleRead
  <2>1. e \in timers_ /\ e[1] <= 0
    BY Zenon DEF getExpired
  <2>. QED  BY <1>1, <2>1 DEF Queued, Entry
<1>4. \A a \in Queued : timer[a].expiration <= 0 => a \in expired'
  <2>. SUFFICES ASSUME NEW a \in Queued, timer[a].expiration <= 0 PROVE a \in expired'
    BY Zenon
  <2>1. Entry(timer, a) \in getExpired /\ Entry(timer, a)[2] = a
    BY Zenon DEF getExpired, Queued, Entry
  <2>. QED  BY <2>1, Zenon DEF HandleRead
<1>5. \A a \in DOMAIN timer : a \in Queued' <=> a \in Queued /\ ~(timer[a].expiration <= 0)
  <2>. SUFFICES ASSUME NEW a \in DOMAIN timer
                PROVE  a \in Queued' <=> a \in Queued /\ ~(timer[a].expiration <= 0)
    BY Zenon
  <2>. QED  BY <1>0, <1>2, Zenon DEF Queued, Entry
<1>6. Queued \subseteq DOMAIN timer /\ Queued' \subseteq DOMAIN timer
  BY <1>0, Zenon DEF Queued
<1>7. \A p \in activeTimers_' : p \in activeTimers_ /\ ~(timer[p[1]].expiration <= 0)
  <2>. SUFFICES ASSUME NEW p \in activeTimers_', timer[p[1]].expiration <= 0 PROVE FALSE
    BY Zenon DEF HandleRead
  <2>1. p \in activeTimers_ /\ p[1] \in Queued /\ p = ActiveTimer(timer, p[1])
    BY Zenon DEF HandleRead, SetsShowHeap
  <2>2. Entry(timer, p[1]) \in getExpired /\ Entry(timer, p[1])[2] = p[1]
    BY <2>1, Zenon DEF getExpired, Queued, Entry
  <2>. QED  BY <2>1, <2>2, Zenon DEF HandleRead
<1>8. \A a \in Queued : ~(timer[a].expiration <= 0) => ActiveTimer(timer, a) \in activeTimers_'
  <2>. SUFFICES ASSUME NEW a \in Queued, ~(timer[a].expiration <= 0)
                PROVE  ActiveTimer(timer, a) \in activeTimers_'
    BY Zenon
  <2>1. ActiveTimer(timer, a) \in activeTimers_
    BY Zenon DEF SetsShowHeap, Queued, Entry
  <2>2. ASSUME NEW e \in getExpired, ActiveTimer(timer, a) = ActiveTimer(timer, e[2]) PROVE FALSE
    <3>1. e \in timers_ /\ e[1] <= 0 /\ e[2] = a
      BY <2>2, Zenon DEF getExpired, ActiveTimer
    <3>. QED  BY <1>1, <3>1
  <2>. QED  BY <2>1, <2>2, Zenon DEF HandleRead
<1>9. Coming' = Coming /\ Adds' = Adds /\ Gone' = Gone
  BY <1>0, Zenon DEF Coming, Adds, Gone
<1>10. TypeOK'
  <2>1. timers_' \subseteq Int \X Addrs /\ activeTimers_' \subseteq Addrs \X (1..MaxCreated)
    BY Zenon DEF HandleRead, TypeOK
  <2>2. expired' \subseteq Addrs
    BY <1>3, <1>6, HeapTypes, Zenon
  <2>3. torun' \subseteq Int \X expired'
    <3>. SUFFICES ASSUME NEW e \in getExpired PROVE e \in Int \X expired'
      BY <1>0, Zenon
    <3>1. e \in timers_ /\ e[2] \in expired'
      BY Zenon DEF getExpired, HandleRead
    <3>. QED  BY <1>1, <3>1
  <2>3a. cancelingTimers_' \subseteq Addrs \X (1..MaxCreated) /\ late' \in Int
    BY <1>0
  <2>4. timerfd_' \in Int /\ timerfd_' >= Closed
    BY <1>0 DEF TypeOK, Closed, Disarmed
  <2>. QED  BY <1>0, <2>1, <2>2, <2>3, <2>3a, <2>4, ZenonT(60) DEF TypeOK
<1>11. SetsShowHeap'
  <2>2. \A e \in timers_' : e[2] \in DOMAIN timer' /\ e = Entry(timer', e[2])
    BY <1>0, <1>1, <1>2, Zenon DEF Entry
  <2>3. \A p \in activeTimers_' : p[1] \in Queued' /\ p = ActiveTimer(timer', p[1])
    BY <1>0, <1>5, <1>6, <1>7, Zenon DEF SetsShowHeap
  <2>4. \A e \in timers_' : ActiveTimer(timer', e[2]) \in activeTimers_'
    <3>. SUFFICES ASSUME NEW e \in timers_' PROVE ActiveTimer(timer, e[2]) \in activeTimers_'
      BY <1>0, Zenon
    <3>1. e[2] \in Queued /\ ~(timer[e[2]].expiration <= 0)
      BY <1>1, <1>2 DEF Queued, Entry
    <3>. QED  BY <1>8, <3>1, Zenon
  <2>. QED  BY <1>0, <2>2, <2>3, <2>4, Zenon DEF SetsShowHeap
<1>12. OnePlace' /\ AddsApart'
  BY <1>0, <1>3, <1>4, <1>5, <1>6, <1>9, ZenonT(60) DEF OnePlace, AddsApart
<1>13. Phases'
  BY <1>0 DEF Phases, Up, Closed, Disarmed
<1>14. Fresh'
  BY <1>0, <1>9, Zenon DEF Fresh
<1>15. Leaving' /\ ArmedForAll'
  BY <1>0, <1>9, Zenon DEF Leaving, ArmedForAll
<1>. QED  BY <1>10, <1>11, <1>12, <1>13, <1>14, <1>15, ZenonT(60)

\* A callback runs.
LEMMA RunCallbackInv ==
  ASSUME IInv, RunCallback
  PROVE  IInv'
<1>. USE DEF IInv, queue
<1>1. /\ callingExpiredTimers_
      /\ UNCHANGED <<timer, s_numCreated_, queue, callingExpiredTimers_, active, expired,
                     late, pendingFunctors_, ids, returning, steps, cancelled>>
  BY Zenon DEF RunCallback
<1>2. PICK e \in torun : torun' = torun \ {e} /\ fired' = fired \cup {timer[e[2]].sequence}
  BY Zenon DEF RunCallback
<1>3. e[2] \in expired /\ e[2] \in DOMAIN timer
  BY Zenon DEF TypeOK, OnePlace
<1>4. Queued' = Queued /\ Gone' = Gone /\ Coming' = Coming /\ Adds' = Adds
  BY <1>1, Zenon DEF Queued, Entry, Gone, Coming, Adds
<1>5. TypeOK'
  BY <1>1, <1>2, Zenon DEF TypeOK
<1>6. SetsShowHeap' /\ OnePlace' /\ AddsApart'
  BY <1>1, <1>4, ZenonT(60) DEF SetsShowHeap, OnePlace, AddsApart, Entry, ActiveTimer
<1>7. Phases' /\ ArmedForAll'
  BY <1>1, Zenon DEF Phases, ArmedForAll, Up
<1>8. Fresh' /\ Leaving'
  BY <1>1, <1>2, <1>3, <1>4, HeapTypes DEF Fresh, Leaving, ActiveTimer
<1>. QED  BY <1>5, <1>6, <1>7, <1>8, Zenon

\* reset(): a timer of the vector is restarted or deleted.
LEMMA ResetInv ==
  ASSUME IInv, Reset
  PROVE  IInv'
<1>. USE DEF IInv
<1>. DEFINE again == {a \in expired : Restarts(a)}
<1>0. /\ callingExpiredTimers_ /\ torun = {} /\ ~active /\ Up
      /\ callingExpiredTimers_' = FALSE /\ expired' = {} /\ late' = 0
      /\ UNCHANGED <<s_numCreated_, cancelingTimers_, active, torun, pendingFunctors_, ids, returning,
                     steps, fired, cancelled>>
  BY Zenon DEF Reset, Phases
<1>1. /\ DOMAIN timer' = DOMAIN timer \ (expired \ again)
      /\ \A a \in DOMAIN timer' : timer'[a] = IF a \in again THEN Restarted(a) ELSE timer[a]
      /\ timers_' = timers_ \cup {Entry(timer', a) : a \in again}
      /\ activeTimers_' = activeTimers_ \cup {ActiveTimer(timer', a) : a \in again}
      /\ Rearm(timers_')
  BY Zenon DEF Reset, insert
<1>2. \A a \in again : /\ a \in expired /\ a \in DOMAIN timer /\ a \in DOMAIN timer' /\ a \notin Queued
                       /\ timer[a].interval > 0 /\ ActiveTimer(timer, a) \notin cancelingTimers_
  BY <1>1, Zenon DEF Restarts, OnePlace
<1>3. Queued \subseteq DOMAIN timer /\ \A a \in Queued : a \notin expired /\ a \in DOMAIN timer'
  BY <1>1, Zenon DEF Queued, OnePlace
<1>4. \A a \in again :
        /\ timer'[a] \in [expiration : Int, interval : Intervals \cup {0}, sequence : 1..MaxCreated]
        /\ timer'[a].sequence = timer[a].sequence /\ timer'[a].interval = timer[a].interval
  <2>. SUFFICES ASSUME NEW a \in again
                PROVE  /\ timer'[a] \in [expiration : Int, interval : Intervals \cup {0},
                                         sequence : 1..MaxCreated]
                       /\ timer'[a].sequence = timer[a].sequence
                       /\ timer'[a].interval = timer[a].interval
    BY Zenon
  <2>1. /\ timer[a] \in [expiration : Int, interval : Intervals \cup {0}, sequence : 1..MaxCreated]
        /\ timer[a].interval \in Nat
    BY <1>2, HeapTypes, Zenon
  <2>2. timer[a].interval - late \in Int
    BY <2>1 DEF TypeOK
  <2>3. timer'[a] = [timer[a] EXCEPT !.expiration = timer[a].interval - late]
    BY <1>1, <1>2, Zenon DEF Restarted
  <2>. QED  BY <2>1, <2>2, <2>3, Zenon
<1>. HIDE DEF again
<1>5. \A a \in DOMAIN timer' : a \in DOMAIN timer /\ (a \in again \/ a \notin expired)
      /\ timer'[a].sequence = timer[a].sequence /\ timer'[a].interval = timer[a].interval
      /\ ActiveTimer(timer', a) = ActiveTimer(timer, a)
  BY <1>1, <1>2, <1>4, Zenon DEF ActiveTimer
<1>6. \A a \in Queued : timer'[a] = timer[a]
  BY <1>1, <1>2, <1>3, Zenon
<1>7. \A e \in timers_' : e \in timers_ \/ \E a \in again : e = Entry(timer', a)
  BY <1>1, Zenon
<1>8. \A e \in timers_' : e[2] \in DOMAIN timer' /\ e = Entry(timer', e[2])
                          /\ (e[2] \in Queued \/ e[2] \in again)
  <2>. SUFFICES ASSUME NEW e \in timers_'
                PROVE  e[2] \in DOMAIN timer' /\ e = Entry(timer', e[2])
                       /\ (e[2] \in Queued \/ e[2] \in again)
    BY Zenon
  <2>1. CASE e \in timers_
    <3>1. e[2] \in Queued /\ e = Entry(timer, e[2])
      BY <2>1, Zenon DEF SetsShowHeap, Queued
    <3>. QED  BY <1>3, <1>6, <3>1, Zenon DEF Entry
  <2>2. CASE \E a \in again : e = Entry(timer', a)
    BY <1>2, <2>2 DEF Entry
  <2>. QED  BY <1>7, <2>1, <2>2, Zenon
<1>9. Queued' = Queued \cup again
  <2>1. \A a \in again : a \in Queued'
    BY <1>1, <1>2, Zenon DEF Queued
  <2>2. \A a \in Queued : a \in Queued'
    <3>. SUFFICES ASSUME NEW a \in Queued PROVE a \in Queued'
      BY Zenon
    <3>1. Entry(timer', a) = Entry(timer, a) /\ Entry(timer, a) \in timers_
      BY <1>6, Zenon DEF Queued, Entry
    <3>. QED  BY <1>1, <1>3, <3>1, Zenon DEF Queued
  <2>3. \A a \in Queued' : a \in Queued \/ a \in again
    <3>. SUFFICES ASSUME NEW a \in Queued' PROVE a \in Queued \/ a \in again
      BY Zenon
    <3>1. Entry(timer', a) \in timers_' /\ Entry(timer', a)[2] = a
      BY Zenon DEF Queued, Entry
    <3>. QED  BY <1>8, <3>1, Zenon
  <2>. QED  BY <2>1, <2>2, <2>3, Zenon
<1>10. Coming' = Coming /\ Adds' = Adds /\ Gone' = Gone
  BY <1>0, Zenon DEF Coming, Adds, Gone
<1>11. \A a \in DOMAIN timer' :
          timer'[a] \in [expiration : Int, interval : Intervals \cup {0}, sequence : 1..MaxCreated]
  BY <1>1, <1>4, <1>5, HeapTypes, Zenon
<1>12. \A e \in timers_' : e \in Int \X Addrs
  <2>. SUFFICES ASSUME NEW e \in timers_' PROVE e \in Int \X Addrs
    BY Zenon
  <2>1. e[2] \in Addrs /\ timer'[e[2]].expiration \in Int /\ e = <<timer'[e[2]].expiration, e[2]>>
    BY <1>5, <1>8, <1>11, HeapTypes, Zenon DEF Entry
  <2>. QED  BY <2>1
<1>13. SetsShowHeap'
  <2>1. IsFiniteSet(DOMAIN timer')
    BY <1>1, FS_Subset, Zenon DEF SetsShowHeap
  <2>2. \A p \in activeTimers_' : p[1] \in Queued' /\ p = ActiveTimer(timer', p[1])
    <3>. SUFFICES ASSUME NEW p \in activeTimers_' PROVE p[1] \in Queued' /\ p = ActiveTimer(timer', p[1])
      BY Zenon
    <3>1. CASE p \in activeTimers_
      BY <1>3, <1>5, <1>9, <3>1, Zenon DEF SetsShowHeap
    <3>2. CASE \E a \in again : p = ActiveTimer(timer', a)
      BY <1>9, <3>2 DEF ActiveTimer
    <3>. QED  BY <1>1, <3>1, <3>2, Zenon
  <2>3. \A e \in timers_' : ActiveTimer(timer', e[2]) \in activeTimers_'
    <3>. SUFFICES ASSUME NEW e \in timers_' PROVE ActiveTimer(timer', e[2]) \in activeTimers_'
      BY Zenon
    <3>1. CASE e[2] \in again
      BY <1>1, <3>1, Zenon
    <3>2. CASE e[2] \in Queued
      <4>1. ActiveTimer(timer, e[2]) \in activeTimers_
        BY <3>2, Zenon DEF SetsShowHeap, Queued, Entry
      <4>. QED  BY <1>1, <1>3, <1>5, <3>2, <4>1, Zenon
    <3>. QED  BY <1>8, <3>1, <3>2, Zenon
  <2>. QED  BY <1>8, <2>1, <2>2, <2>3, Zenon DEF SetsShowHeap
<1>14. activeTimers_' \subseteq Addrs \X (1..MaxCreated)
  <2>. SUFFICES ASSUME NEW p \in activeTimers_' PROVE p \in Addrs \X (1..MaxCreated)
    BY Zenon
  <2>1. p[1] \in DOMAIN timer' /\ p = <<p[1], timer'[p[1]].sequence>>
    BY <1>13, Zenon DEF SetsShowHeap, ActiveTimer, Queued
  <2>2. p[1] \in Addrs /\ timer'[p[1]].sequence \in 1..MaxCreated
    BY <1>5, <1>11, <2>1, HeapTypes, Zenon
  <2>. QED  BY <2>1, <2>2
<1>15. timers_' # {} =>
         /\ timerfd_' \in Nat \ {0}
         /\ \A e \in timers_' : timerfd_' <= howMuchTimeFromNow(e[1])
  <2>. SUFFICES ASSUME timers_' # {}
                PROVE  /\ timerfd_' \in Nat \ {0}
                       /\ \A e \in timers_' : timerfd_' <= howMuchTimeFromNow(e[1])
    BY Zenon
  <2>. DEFINE f == [a \in Queued' |-> timer'[a].expiration]
              b == Begin(timers_')
  <2>1. Queued' \subseteq DOMAIN timer' /\ f \in [Queued' -> Int]
    BY <1>11, Zenon DEF Queued
  <2>2. IsFiniteSet(Queued')
    BY <1>13, <2>1, FS_Subset, Zenon DEF SetsShowHeap
  <2>3. timers_' = {<<f[a], a>> : a \in Queued'}
    <3>1. \A e \in timers_' : e[2] \in Queued' /\ e = <<f[e[2]], e[2]>>
      BY <1>8, <1>9, Zenon DEF Entry
    <3>2. \A a \in Queued' : <<f[a], a>> \in timers_'
      BY Zenon DEF Queued, Entry
    <3>. QED  BY <3>1, <3>2, Zenon
  <2>. HIDE DEF f
  <2>4. b \in timers_' /\ \A e \in timers_' : b[1] <= e[1]
    BY <2>1, <2>2, <2>3, BeginIsFirst, Zenon
  <2>5. timerfd_' = howMuchTimeFromNow(b[1])
    BY <1>1, Zenon DEF Rearm, resetTimerfd
  <2>6. b[1] \in Int /\ \A e \in timers_' : e[1] \in Int
    BY <1>12, <2>4, Zenon
  <2>. HIDE DEF b
  <2>. QED  BY <2>4, <2>5, <2>6 DEF howMuchTimeFromNow
<1>16. timers_' = {} => timerfd_' = timerfd_
  BY <1>1, Zenon DEF Rearm
<1>17. TypeOK'
  <2>1. DOMAIN timer' \subseteq Addrs
    BY <1>5, HeapTypes, Zenon
  <2>2. timerfd_' \in Int /\ timerfd_' >= Closed
    BY <1>15, <1>16 DEF TypeOK, Closed
  <2>3. torun' \subseteq Int \X expired' /\ expired' \subseteq Addrs /\ late' \in Int
    BY <1>0
  <2>. QED  BY <1>0, <1>11, <1>12, <1>14, <2>1, <2>2, <2>3, Zenon DEF TypeOK
<1>18. OnePlace' /\ AddsApart'
  BY <1>0, <1>1, <1>2, <1>3, <1>5, <1>9, <1>10, ZenonT(60) DEF OnePlace, AddsApart
<1>19. Phases'
  BY <1>0, <1>15, <1>16 DEF Phases, Up, Closed
<1>20. Fresh'
  BY <1>0, <1>5, <1>10, Zenon DEF Fresh
<1>21. Leaving'
  BY <1>0, <1>2, <1>5, <1>10, Zenon DEF Leaving
<1>22. ArmedForAll'
  BY <1>15 DEF ArmedForAll, Disarmed
<1>. QED  BY <1>13, <1>17, <1>18, <1>19, <1>20, <1>21, <1>22, Zenon

\* The destructor.
LEMMA DestroyInv ==
  ASSUME IInv, Destroy
  PROVE  IInv'
<1>. USE DEF IInv
<1>0. /\ ~active /\ ~callingExpiredTimers_ /\ expired = {}
      /\ timers_' = {} /\ activeTimers_' = {} /\ cancelingTimers_' = {} /\ timerfd_' = Closed
      /\ UNCHANGED <<s_numCreated_, handling, pendingFunctors_, ids, returning, steps, fired, cancelled>>
  BY Zenon DEF Destroy, Phases
<1>1. /\ DOMAIN timer' = DOMAIN timer \ {e[2] : e \in timers_}
      /\ \A a \in DOMAIN timer' : timer'[a] = timer[a]
  BY Zenon DEF Destroy, Delete
<1>2. \A a \in DOMAIN timer' : a \in DOMAIN timer /\ a \in Coming
  <2>. SUFFICES ASSUME NEW a \in DOMAIN timer' PROVE a \in DOMAIN timer /\ a \in Coming
    BY Zenon
  <2>1. a \notin Queued
    BY <1>1 DEF Queued, Entry
  <2>. QED  BY <1>0, <1>1, <2>1, Zenon DEF OnePlace
<1>3. \A a \in Coming : a \in DOMAIN timer'
  BY <1>1 DEF OnePlace, SetsShowHeap, Queued
<1>4. Queued' = {} /\ Gone' = Gone /\ Coming' = Coming /\ Adds' = Adds
  BY <1>0, Zenon DEF Queued, Gone, Coming, Adds
<1>5. TypeOK'
  <2>1. \A a \in DOMAIN timer' :
          timer'[a] \in [expiration : Int, interval : Intervals \cup {0}, sequence : 1..MaxCreated]
    BY <1>1, <1>2, HeapTypes, Zenon
  <2>2. DOMAIN timer' \subseteq Addrs
    BY <1>2, HeapTypes, Zenon
  <2>3. timerfd_' \in Int /\ timerfd_' >= Closed
    BY <1>0 DEF Closed
  <2>. QED  BY <1>0, <2>1, <2>2, <2>3, Zenon DEF TypeOK, handling
<1>6. SetsShowHeap'
  BY <1>0, <1>1, FS_Subset, Zenon DEF SetsShowHeap
<1>7. OnePlace' /\ AddsApart'
  BY <1>0, <1>2, <1>3, <1>4, Zenon DEF OnePlace, AddsApart, handling
<1>8. Phases' /\ ArmedForAll'
  BY <1>0, Zenon DEF Phases, ArmedForAll, handling
<1>9. Fresh' /\ Leaving'
  BY <1>0, <1>1, <1>2, <1>4, Zenon DEF Fresh, Leaving, OnePlace, handling
<1>. QED  BY <1>5, <1>6, <1>7, <1>8, <1>9, Zenon

\* The wall clock moves by d, and the timerfd to fd.
LEMMA ShiftInv ==
  ASSUME IInv, NEW d \in Int, Shift(d),
         timerfd_' \in Int, timerfd_' >= Closed,
         timerfd_' = Closed <=> timerfd_ = Closed,
         timerfd_' = Disarmed <=> timerfd_ = Disarmed,
         steps' \in Nat,
         steps' = 0 => /\ steps = 0 /\ d = 1
                       /\ timerfd_' = IF timerfd_ > 0 THEN timerfd_ - 1 ELSE timerfd_
  PROVE  IInv'
<1>. USE DEF IInv
<1>1. /\ DOMAIN timer' = DOMAIN timer
      /\ \A a \in DOMAIN timer :
           timer'[a] = [timer[a] EXCEPT !.expiration = Earlier(timer[a].expiration, d)]
      /\ timers_' = {<<Earlier(e[1], d), e[2]>> : e \in timers_}
      /\ late' = IF callingExpiredTimers_ THEN -Earlier(-late, d) ELSE 0
      /\ UNCHANGED <<s_numCreated_, activeTimers_, cancelingTimers_, callingExpiredTimers_,
                     active, expired, torun, pendingFunctors_, ids, returning, fired, cancelled>>
  BY Zenon DEF Shift
<1>2. \A w \in Int : Earlier(w, d) \in Int /\ Earlier(w, d) >= w - d
  BY TimerAssumption DEF Earlier
<1>3. \A a \in DOMAIN timer :
        /\ timer'[a] \in [expiration : Int, interval : Intervals \cup {0}, sequence : 1..MaxCreated]
        /\ timer'[a].expiration = Earlier(timer[a].expiration, d)
        /\ timer'[a].sequence = timer[a].sequence /\ timer'[a].interval = timer[a].interval
        /\ ActiveTimer(timer', a) = ActiveTimer(timer, a)
  <2>. SUFFICES ASSUME NEW a \in DOMAIN timer
                PROVE  /\ timer'[a] \in [expiration : Int, interval : Intervals \cup {0},
                                         sequence : 1..MaxCreated]
                       /\ timer'[a].expiration = Earlier(timer[a].expiration, d)
                       /\ timer'[a].sequence = timer[a].sequence
                       /\ timer'[a].interval = timer[a].interval
    BY Zenon DEF ActiveTimer
  <2>1. /\ timer[a] \in [expiration : Int, interval : Intervals \cup {0}, sequence : 1..MaxCreated]
        /\ Earlier(timer[a].expiration, d) \in Int
    BY <1>2, HeapTypes, Zenon
  <2>. QED  BY <1>1, <2>1, Zenon
<1>4. \A e \in timers_ : /\ e[1] \in Int /\ e[2] \in DOMAIN timer
                         /\ e = <<timer[e[2]].expiration, e[2]>> /\ e[2] \in Queued
  BY Zenon DEF SetsShowHeap, Entry, TypeOK, Queued
<1>5. \A g \in timers_' : \E e \in timers_ : g = <<Earlier(e[1], d), e[2]>>
  BY <1>1, Zenon
<1>6. \A g \in timers_' : /\ g[1] \in Int /\ g[2] \in DOMAIN timer /\ g[2] \in Queued
                          /\ g = Entry(timer', g[2])
  <2>. SUFFICES ASSUME NEW g \in timers_'
                PROVE  /\ g[1] \in Int /\ g[2] \in DOMAIN timer /\ g[2] \in Queued
                       /\ g = Entry(timer', g[2])
    BY Zenon
  <2>1. PICK e \in timers_ : g = <<Earlier(e[1], d), e[2]>>
    BY <1>5, Zenon
  <2>2. e[1] = timer[e[2]].expiration
    BY <1>4
  <2>. QED  BY <1>2, <1>3, <1>4, <2>1, <2>2, ZenonT(60) DEF Entry
<1>7. Queued' = Queued
  <2>1. \A a \in Queued' : a \in Queued
    <3>. SUFFICES ASSUME NEW a \in Queued' PROVE a \in Queued
      BY Zenon
    <3>1. Entry(timer', a) \in timers_' /\ Entry(timer', a)[2] = a
      BY Zenon DEF Queued, Entry
    <3>. QED  BY <1>6, <3>1, Zenon
  <2>2. \A a \in Queued : a \in Queued'
    <3>. SUFFICES ASSUME NEW a \in Queued PROVE a \in Queued'
      BY Zenon
    <3>1. a \in DOMAIN timer /\ <<timer[a].expiration, a>> \in timers_
      BY Zenon DEF Queued, Entry
    <3>2. <<Earlier(timer[a].expiration, d), a>> \in timers_'
      BY <1>1, <3>1
    <3>. QED  BY <1>1, <1>3, <3>1, <3>2, Zenon DEF Queued, Entry
  <2>. QED  BY <2>1, <2>2, Zenon
<1>8. Gone' = Gone /\ Coming' = Coming /\ Adds' = Adds
  BY <1>1, Zenon DEF Gone, Coming, Adds
<1>9. TypeOK'
  <2>1. timers_' \subseteq Int \X Addrs
    <3>. SUFFICES ASSUME NEW g \in timers_' PROVE g \in Int \X Addrs
      BY Zenon
    <3>1. PICK e \in timers_ : g = <<Earlier(e[1], d), e[2]>>
      BY <1>5, Zenon
    <3>. QED  BY <1>2, <1>4, <3>1, HeapTypes, Zenon
  <2>2. late' \in Int
    <3>1. late \in Int
      BY Zenon DEF TypeOK
    <3>2. Earlier(-late, d) \in Int
      BY <1>2, <3>1
    <3>3. -Earlier(-late, d) \in Int
      BY <3>2
    <3>. QED  BY <1>1, <3>3
  <2>3. /\ DOMAIN timer' \subseteq Addrs
        /\ \A a \in DOMAIN timer' :
             timer'[a] \in [expiration : Int, interval : Intervals \cup {0}, sequence : 1..MaxCreated]
    BY <1>1, <1>3, Zenon DEF TypeOK
  <2>. QED  BY <1>1, <2>1, <2>2, <2>3, Zenon DEF TypeOK
<1>10. SetsShowHeap'
  <2>1. \A p \in activeTimers_' : p[1] \in Queued' /\ p = ActiveTimer(timer', p[1])
    BY <1>1, <1>3, <1>7, Zenon DEF SetsShowHeap, Queued
  <2>2. \A g \in timers_' : ActiveTimer(timer', g[2]) \in activeTimers_'
    <3>. SUFFICES ASSUME NEW g \in timers_' PROVE ActiveTimer(timer', g[2]) \in activeTimers_'
      BY Zenon
    <3>1. PICK e \in timers_ : g = <<Earlier(e[1], d), e[2]>>
      BY <1>5, Zenon
    <3>2. ActiveTimer(timer, e[2]) \in activeTimers_ /\ e[2] \in DOMAIN timer /\ g[2] = e[2]
      BY <1>4, <3>1, Zenon DEF SetsShowHeap
    <3>. QED  BY <1>1, <1>3, <3>2, Zenon
  <2>. QED  BY <1>1, <1>6, <2>1, <2>2, Zenon DEF SetsShowHeap
<1>11. OnePlace' /\ AddsApart'
  BY <1>1, <1>7, <1>8, ZenonT(60) DEF OnePlace, AddsApart
<1>12. timers_' # {} => timers_ # {}
  BY <1>5, Zenon
<1>13. Phases'
  BY <1>1, <1>12, Zenon DEF Phases, Up
<1>14. Fresh' /\ Leaving'
  BY <1>1, <1>3, <1>8, Zenon DEF Fresh, Leaving
<1>15. ArmedForAll'
  <2>1. ~callingExpiredTimers_' /\ timers_' # {} => timerfd_' # Disarmed \/ active'
    BY <1>1, <1>12, Zenon DEF ArmedForAll
  <2>2. ASSUME ~callingExpiredTimers_', steps' = 0, NEW g \in timers_'
        PROVE  timerfd_' <= howMuchTimeFromNow(g[1])
    <3>1. PICK e \in timers_ : g = <<Earlier(e[1], d), e[2]>>
      BY <1>5, Zenon
    <3>2. e[1] \in Int /\ timerfd_ <= howMuchTimeFromNow(e[1]) /\ timerfd_ \in Int
      BY <1>1, <1>4, <2>2, Zenon DEF ArmedForAll, TypeOK
    <3>3. g[1] \in Int /\ g[1] >= e[1] - 1
      BY <1>2, <2>2, <3>1, <3>2, Zenon
    <3>. QED  BY <2>2, <3>2, <3>3 DEF howMuchTimeFromNow
  <2>. QED  BY <2>1, <2>2, Zenon DEF ArmedForAll
<1>. QED  BY <1>9, <1>10, <1>11, <1>13, <1>14, <1>15, Zenon

\* Time passes.
LEMMA TickInv ==
  ASSUME IInv, Tick
  PROVE  IInv'
<1>1. timerfd_ \in Int /\ timerfd_ >= Closed /\ steps \in Nat
  BY Zenon DEF IInv, TypeOK, Phases
<1>2. /\ Shift(1) /\ steps' = steps
      /\ timerfd_' = IF timerfd_ > 0 THEN timerfd_ - 1 ELSE timerfd_
  BY Zenon DEF Tick
<1>. QED  BY <1>1, <1>2, ShiftInv DEF Closed, Disarmed

\* The wall clock is set, forwards or backwards.
LEMMA SetClockInv ==
  ASSUME IInv, SetClock
  PROVE  IInv'
<1>1. timerfd_ \in Int /\ timerfd_ >= Closed /\ steps \in Nat
  BY Zenon DEF IInv, TypeOK, Phases
<1>2. PICK d \in {-1, 1} : Shift(d)
  BY Zenon DEF SetClock
<1>3. timerfd_' = timerfd_ /\ steps' = steps + 1
  BY Zenon DEF SetClock
<1>. QED  BY <1>1, <1>2, <1>3, ShiftInv
-----------------------------------------------------------------------------
\* A request is for a time, and repeats at one of the intervals or never.
LEMMA RequestTypes ==
  \A r \in Requests : r.when \in Int /\ r.interval \in Intervals \cup {0}
<1>. SUFFICES ASSUME NEW r \in Requests
              PROVE  r.when \in Int /\ r.interval \in Intervals \cup {0}
  BY Zenon
<1>1. CASE r \in {runAfter(d) : d \in Delays}
  <2>1. PICK d \in Delays : r = [when |-> d, interval |-> 0]
    BY <1>1, Zenon DEF runAfter, runAt
  <2>. QED  BY <2>1, TimerAssumption
<1>2. CASE r \in {runEvery(i) : i \in Intervals}
  <2>1. PICK i \in Intervals : r = [when |-> i, interval |-> i]
    BY <1>2, Zenon DEF runEvery
  <2>. QED  BY <2>1, TimerAssumption
<1>. QED  BY <1>1, <1>2, Zenon DEF Requests

\* IInv is inductive: one step per action.
LEMMA Inductive == Spec => []IInv
<1>1. Init => IInv
  BY InitInv, Zenon
<1>2. IInv /\ [Next]_vars => IInv'
  <2>. SUFFICES ASSUME IInv, [Next]_vars PROVE IInv'
    BY Zenon
  <2>1. ASSUME NEW a \in Addrs, NEW r \in Requests,
               AddTimer(a, r.when, r.interval) \/ QueueAddTimer(a, r.when, r.interval)
        PROVE  IInv'
    BY <2>1, RequestTypes, AddTimerInv, QueueAddTimerInv, Zenon
  <2>6. ASSUME NEW id \in returning, ReturnId(id) PROVE IInv'
    BY <2>6, ReturnIdInv, Zenon
  <2>2. ASSUME NEW id \in ids, Cancel(id) \/ QueueCancel(id) PROVE IInv'
    BY <2>2, CancelInv, QueueCancelInv, Zenon
  <2>3. CASE RunFunctor \/ Poll \/ HandleRead \/ RunCallback \/ Reset
    BY <2>3, RunFunctorInv, PollInv, HandleReadInv, RunCallbackInv, ResetInv, Zenon
  <2>4. CASE Destroy \/ Tick \/ SetClock
    BY <2>4, DestroyInv, TickInv, SetClockInv, Zenon
  <2>5. CASE UNCHANGED vars
    <3>1. /\ UNCHANGED <<timer, queue, handling, fired, cancelled, steps, s_numCreated_>>
          /\ pendingFunctors_' = pendingFunctors_ /\ ids' = ids /\ returning' = returning
      BY <2>5, Zenon DEF vars, queue, handling
    <3>2. /\ pendingFunctors_' \in Seq({"add", "cancel"} \X (Addrs \X (1..MaxCreated)))
          /\ ids' \subseteq Addrs \X (1..MaxCreated)
          /\ returning' \subseteq Addrs \X (1..MaxCreated)
          /\ Coming' = Coming /\ AddsApart'
      BY <3>1 DEF IInv, TypeOK, Coming, AddsApart, Adds
    <3>. QED  BY <3>1, <3>2, HeapStays, Zenon
  <2>. QED  BY <2>1, <2>2, <2>3, <2>4, <2>5, <2>6, Zenon DEF Next
<1>. QED  BY <1>1, <1>2, PTL DEF Spec

\* timers_ and activeTimers_ hold the same timers, each under its present
\* expiration and sequence, whatever addTimer(), cancel(), handleRead(), reset()
\* and the clock do.
THEOREM SetsInStep == Spec => []InStep
<1>1. IInv => InStep
  <2>. SUFFICES ASSUME IInv PROVE InStep
    BY Zenon
  <2>. USE DEF IInv
  <2>1. Queued \in SUBSET DOMAIN timer
    BY Zenon DEF Queued
  <2>2. timers_ = {Entry(timer, a) : a \in Queued}
    <3>1. \A e \in timers_ : e[2] \in Queued /\ e = Entry(timer, e[2])
      BY Zenon DEF SetsShowHeap, Queued
    <3>2. \A a \in Queued : Entry(timer, a) \in timers_
      BY Zenon DEF Queued
    <3>. QED  BY <3>1, <3>2, Zenon
  <2>3. activeTimers_ = {ActiveTimer(timer, a) : a \in Queued}
    <3>1. \A p \in activeTimers_ : p[1] \in Queued /\ p = ActiveTimer(timer, p[1])
      BY Zenon DEF SetsShowHeap
    <3>2. \A a \in Queued : ActiveTimer(timer, a) \in activeTimers_
      BY Zenon DEF Queued, SetsShowHeap, Entry
    <3>. QED  BY <3>1, <3>2, Zenon
  <2>. QED  BY <2>1, <2>2, <2>3, Zenon DEF InStep
<1>. QED  BY <1>1, Inductive, PTL

\* Every Timer on the heap has one owner: the queue, handleRead()'s vector or a
\* functor on its way to the loop.  Nothing leaks and nothing is deleted twice.
THEOREM TimersOwnedOnce == Spec => []OwnedOnce
<1>1. IInv => OwnedOnce
  BY Zenon DEF IInv, OwnedOnce, OnePlace, SetsShowHeap, Queued
<1>. QED  BY <1>1, Inductive, PTL

\* Outside handleRead() the timerfd is armed while a timer waits, in time for the
\* first of them unless the wall clock was set: what insert() returns and
\* where reset() rearms are enough.
THEOREM TimerfdStaysArmed == Spec => []TimerfdArmed
<1>1. IInv => TimerfdArmed
  <2>. SUFFICES ASSUME IInv, ~callingExpiredTimers_, timers_ # {}
                PROVE  /\ timerfd_ # Disarmed \/ active
                       /\ steps = 0 => timerfd_ <= howMuchTimeFromNow(Begin(timers_)[1])
    BY Zenon DEF TimerfdArmed
  <2>. USE DEF IInv
  <2>. DEFINE f == [a \in Queued |-> timer[a].expiration]
  <2>1. Queued \subseteq DOMAIN timer /\ f \in [Queued -> Int]
    BY HeapTypes, Zenon DEF Queued
  <2>2. IsFiniteSet(Queued)
    BY <2>1, FS_Subset, Zenon DEF SetsShowHeap
  <2>3. timers_ = {<<f[a], a>> : a \in Queued}
    <3>1. \A e \in timers_ : e[2] \in Queued /\ e = <<f[e[2]], e[2]>>
      BY Zenon DEF SetsShowHeap, Queued, Entry
    <3>2. \A a \in Queued : <<f[a], a>> \in timers_
      BY Zenon DEF Queued, Entry
    <3>. QED  BY <3>1, <3>2, Zenon
  <2>. HIDE DEF f
  <2>4. Begin(timers_) \in timers_
    BY <2>1, <2>2, <2>3, BeginIsFirst, Zenon
  <2>. QED  BY <2>4, Zenon DEF ArmedForAll
<1>. QED  BY <1>1, Inductive, PTL

\* A timer that was cancelled while the queue or handleRead() had it, or that has
\* run and does not repeat, never waits in the queue again, however its
\* address is used after it.
THEOREM CancelledStayAway == Spec => []NeverAgain
<1>1. IInv => NeverAgain
  <2>. SUFFICES ASSUME IInv, NEW id \in activeTimers_
                PROVE  /\ <<id[2], TRUE>> \notin cancelled
                       /\ id[2] \in fired => timer[id[1]].interval > 0
    BY Zenon DEF NeverAgain
  <2>. USE DEF IInv
  <2>1. /\ id[1] \in Queued /\ id[1] \in DOMAIN timer /\ id[2] = timer[id[1]].sequence
        /\ id[1] \notin expired /\ id[2] \in 1..MaxCreated
    BY HeapTypes DEF SetsShowHeap, Queued, ActiveTimer, OnePlace
  <2>2. id[2] \notin Gone /\ (id[2] \in fired => timer[id[1]].interval > 0)
    BY <2>1, Zenon DEF Leaving
  <2>. QED  BY <2>1, <2>2, Zenon DEF Gone
<1>. QED  BY <1>1, Inductive, PTL
=============================================================================
