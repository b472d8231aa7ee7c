------------------------------ MODULE LockProofs ------------------------------
(***************************************************************************)
(* The lock classes, for every set of callers, keys and calls: a mutex     *)
(* keeps its callers apart and implements FifoLock, nobody is stranded on  *)
(* a key, and a read/write lock never has two writers inside nor lets a    *)
(* reader in next to one.  Then the reachability map, which uses two of    *)
(* them: no lock stays behind, and quiet records are right or the          *)
(* difference is remembered.                                               *)
(***************************************************************************)
EXTENDS AsyncMutex, AsyncLockMap, AsyncRWLock, ReachabilityMap, FiniteSetTheorems, TLAPS

(* AsyncMutex *)

\* The initial state satisfies the inductive invariant.
LEMMA InitInv == Init => Inv
BY DEF Init, Inv, TypeOK, MutualExclusion, QueueIsWaiters, AcquiredIffHeld,
       Holders, Queued, NewMutex

\* What one append does to a queue of callers.
LEMMA AppendFacts ==
  ASSUME NEW S, NEW q \in Seq(S), NEW c \in S
  PROVE  /\ Append(q, c) \in Seq(S)
         /\ DOMAIN q = 1..Len(q)
         /\ DOMAIN Append(q, c) = 1..(Len(q) + 1)
         /\ \A i \in 1..Len(q) : Append(q, c)[i] = q[i]
         /\ Append(q, c)[Len(q) + 1] = c
OBVIOUS

\* What one shift does to a queue of callers.
LEMMA TailFacts ==
  ASSUME NEW S, NEW q \in Seq(S), q # <<>>
  PROVE  /\ Tail(q) \in Seq(S)
         /\ Len(q) \in Nat /\ Len(q) > 0
         /\ DOMAIN q = 1..Len(q)
         /\ DOMAIN Tail(q) = 1..(Len(q) - 1)
         /\ \A i \in 1..(Len(q) - 1) : Tail(q)[i] = q[i + 1]
         /\ Head(q) = q[1]
         /\ Head(q) \in S
OBVIOUS

\* A queue without repetitions loses exactly its head to a shift, and stays
\* without repetitions.
LEMMA TailSet ==
  ASSUME NEW S, NEW q \in Seq(S), q # <<>>,
         \A i, j \in DOMAIN q : q[i] = q[j] => i = j
  PROVE  /\ {Tail(q)[i] : i \in DOMAIN Tail(q)} = {q[i] : i \in DOMAIN q} \ {Head(q)}
         /\ \A i, j \in DOMAIN Tail(q) : Tail(q)[i] = Tail(q)[j] => i = j
<1> DEFINE t == Tail(q)
           n == Len(q)
<1>1. /\ n \in Nat /\ n > 0 /\ DOMAIN q = 1..n /\ DOMAIN t = 1..(n - 1)
      /\ \A i \in 1..(n - 1) : t[i] = q[i + 1]
      /\ Head(q) = q[1]
  BY TailFacts
<1> HIDE DEF t, n
<1>2. \A i, j \in DOMAIN t : t[i] = t[j] => i = j
  <2> TAKE i, j \in DOMAIN t
  <2>1. i + 1 \in DOMAIN q /\ j + 1 \in DOMAIN q
    BY <1>1
  <2>2. t[i] = t[j] => i + 1 = j + 1
    BY <1>1, <2>1
  <2> QED BY <1>1, <2>2
<1>3. ASSUME NEW x \in {t[i] : i \in DOMAIN t}
      PROVE  x \in {q[i] : i \in DOMAIN q} \ {Head(q)}
  <2>1. PICK i \in DOMAIN t : x = t[i]
    BY <1>3
  <2>2. x = q[i + 1] /\ i + 1 \in DOMAIN q /\ i + 1 # 1 /\ 1 \in DOMAIN q
    BY <1>1, <2>1
  <2> QED BY <1>1, <2>2
<1>4. ASSUME NEW x \in {q[i] : i \in DOMAIN q} \ {Head(q)}
      PROVE  x \in {t[i] : i \in DOMAIN t}
  <2>1. PICK i \in DOMAIN q : x = q[i]
    BY <1>4
  <2>2. i # 1
    BY <1>1, <1>4, <2>1
  <2>3. i - 1 \in DOMAIN t /\ t[i - 1] = x
    BY <1>1, <2>1, <2>2
  <2> QED BY <2>3
<1>5. {t[i] : i \in DOMAIN t} = {q[i] : i \in DOMAIN q} \ {Head(q)}
  BY <1>3, <1>4
<1> QED BY <1>2, <1>5 DEF t

\* acquire() preserves the inductive invariant.
LEMMA AcquireInv ==
  ASSUME Inv, NEW c \in Callers, Acquire(c)
  PROVE  Inv'
<1>0. /\ mutex = [acquired |-> mutex.acquired, queue |-> mutex.queue]
      /\ mutex.acquired \in BOOLEAN /\ mutex.queue \in Seq(Callers)
      /\ pc \in [Callers -> {"idle", "waiting", "holding"}]
      /\ pc[c] = "idle"
  BY DEF Inv, TypeOK, Acquire
<1>1. CASE mutex.acquired
  <2> DEFINE q == mutex.queue
  <2>1. /\ mutex' = [acquired |-> TRUE, queue |-> Append(q, c)]
        /\ pc' = [pc EXCEPT ![c] = "waiting"]
    BY <1>0, <1>1 DEF Acquire, MutexAcquire, Result
  <2>2. /\ mutex'.acquired /\ mutex'.queue = Append(q, c)
        /\ TypeOK'
    BY <1>0, <2>1, AppendFacts DEF TypeOK
  <2>3. Holders' = Holders
    BY <1>0, <2>1 DEF Holders
  <2>4. c \notin Queued
    BY <1>0 DEF Inv, QueueIsWaiters
  <2>5. Queued' = Queued \cup {c}
    BY <1>0, <2>2, AppendFacts DEF Queued
  <2>6. Queued' = {d \in Callers : pc'[d] = "waiting"}
    BY <1>0, <2>1, <2>5 DEF Inv, QueueIsWaiters
  <2>7. \A i, j \in DOMAIN mutex'.queue : mutex'.queue[i] = mutex'.queue[j] => i = j
    <3>1. \A i \in 1..Len(q) : q[i] # c
      BY <1>0, <2>4, AppendFacts DEF Queued
    <3>2. \A i, j \in 1..Len(q) : q[i] = q[j] => i = j
      BY <1>0, AppendFacts DEF Inv, QueueIsWaiters
    <3> QED BY <1>0, <2>2, <3>1, <3>2, AppendFacts
  <2>8. MutualExclusion'
    BY <2>3 DEF Inv, MutualExclusion
  <2>9. AcquiredIffHeld'
    BY <1>1, <2>2, <2>3 DEF Inv, AcquiredIffHeld
  <2> QED BY <2>2, <2>6, <2>7, <2>8, <2>9 DEF Inv, QueueIsWaiters
<1>2. CASE ~mutex.acquired
  <2>1. /\ mutex' = [acquired |-> TRUE, queue |-> mutex.queue]
        /\ pc' = [pc EXCEPT ![c] = "holding"]
    BY <1>0, <1>2 DEF Acquire, MutexAcquire, Result
  <2>2. mutex'.acquired /\ mutex'.queue = mutex.queue /\ TypeOK'
    BY <1>0, <2>1 DEF TypeOK
  <2>3. Holders' = {c}
    BY <1>0, <1>2, <2>1 DEF Inv, AcquiredIffHeld, Holders
  <2>4. QueueIsWaiters'
    BY <1>0, <2>1, <2>2 DEF Inv, QueueIsWaiters, Queued
  <2> QED BY <2>2, <2>3, <2>4 DEF Inv, MutualExclusion, AcquiredIffHeld
<1> QED BY <1>0, <1>1, <1>2

\* release() preserves the inductive invariant.
LEMMA ReleaseInv ==
  ASSUME Inv, NEW c \in Callers, Release(c)
  PROVE  Inv'
<1>0. /\ mutex.acquired \in BOOLEAN /\ mutex.queue \in Seq(Callers)
      /\ pc \in [Callers -> {"idle", "waiting", "holding"}]
      /\ pc[c] = "holding"
  BY DEF Inv, TypeOK, Release
<1>1. mutex.acquired /\ Holders = {c}
  BY <1>0 DEF Inv, AcquiredIffHeld, MutualExclusion, Holders
<1>2. CASE mutex.queue = <<>>
  <2>1. /\ mutex' = [acquired |-> FALSE, queue |-> <<>>]
        /\ pc' = [d \in Callers |-> IF d = c THEN "idle" ELSE pc[d]]
    BY <1>2 DEF Release, MutexRelease, Result, Shifted, ShiftedOff
  <2>2. ~mutex'.acquired /\ mutex'.queue = mutex.queue /\ TypeOK'
    BY <1>0, <1>2, <2>1 DEF TypeOK
  <2>3. Holders' = {}
    BY <1>1, <2>1 DEF Holders
  <2>4. QueueIsWaiters'
    BY <1>0, <2>1, <2>2 DEF Inv, QueueIsWaiters, Queued
  <2> QED BY <1>2, <2>2, <2>3, <2>4 DEF Inv, MutualExclusion, AcquiredIffHeld
<1>3. CASE mutex.queue # <<>>
  <2> DEFINE q == mutex.queue
             next == Head(mutex.queue)
  <2>1. /\ mutex' = [acquired |-> TRUE, queue |-> Tail(q)]
        /\ pc' = [d \in Callers |-> IF d = next THEN "holding"
                                    ELSE IF d = c THEN "idle" ELSE pc[d]]
    BY <1>1, <1>3 DEF Release, MutexRelease, Result, Shifted, ShiftedOff
  <2>2. mutex'.acquired /\ mutex'.queue = Tail(q) /\ TypeOK'
    BY <1>0, <1>3, <2>1, TailFacts DEF TypeOK
  <2>3. next \in Queued /\ next \in Callers /\ pc[next] = "waiting"
    <3>1. next = q[1] /\ 1 \in DOMAIN q /\ next \in Callers
      BY <1>0, <1>3, TailFacts
    <3> QED BY <3>1 DEF Inv, QueueIsWaiters, Queued
  <2>4. Holders' = {next}
    BY <1>1, <2>1, <2>3 DEF Holders
  <2>5. /\ Queued' = Queued \ {next}
        /\ \A i, j \in DOMAIN mutex'.queue : mutex'.queue[i] = mutex'.queue[j] => i = j
    <3>1. \A i, j \in DOMAIN q : q[i] = q[j] => i = j
      BY DEF Inv, QueueIsWaiters
    <3>2. /\ {Tail(q)[i] : i \in DOMAIN Tail(q)} = {q[i] : i \in DOMAIN q} \ {next}
          /\ \A i, j \in DOMAIN Tail(q) : Tail(q)[i] = Tail(q)[j] => i = j
      BY <1>0, <1>3, <3>1, TailSet
    <3> QED BY <2>2, <3>2 DEF Queued
  <2>6. Queued' = {d \in Callers : pc'[d] = "waiting"}
    BY <1>0, <2>1, <2>3, <2>5 DEF Inv, QueueIsWaiters
  <2> QED BY <2>2, <2>4, <2>5, <2>6 DEF Inv, QueueIsWaiters, MutualExclusion, AcquiredIffHeld
<1> QED BY <1>2, <1>3

\* AsyncMutex.acquire()/release(): the inductive invariant holds in every
\* reachable state: the queue is the set of pending callers without
\* repetition, and `acquired` is set exactly while one caller is inside.
THEOREM InvHolds == Spec => []Inv
<1>1. Inv /\ [Next]_vars => Inv'
  <2> SUFFICES ASSUME Inv, [Next]_vars PROVE Inv'
    OBVIOUS
  <2>1. ASSUME NEW c \in Callers, Acquire(c) PROVE Inv'
    BY <2>1, AcquireInv
  <2>2. ASSUME NEW c \in Callers, Release(c) PROVE Inv'
    BY <2>2, ReleaseInv
  <2>3. CASE UNCHANGED vars
    BY <2>3 DEF vars, Inv, TypeOK, MutualExclusion, QueueIsWaiters,
                AcquiredIffHeld, Holders, Queued
  <2> QED BY <2>1, <2>2, <2>3 DEF Next
<1> QED BY InitInv, <1>1, PTL DEF Spec

\* AsyncMutex: however many chains of promises share one mutex, two of them
\* are never between acquire()'s resolution and release() together.
THEOREM MutexSafe == Spec => []MutualExclusion
<1>1. Inv => MutualExclusion
  BY DEF Inv
<1> QED BY InvHolds, <1>1, PTL

\* AsyncMutex implements FifoLock: acquire() joins the end of the line,
\* release() lets its head go, so callers are served in order of arrival.
THEOREM MutexIsFifo == Spec => FifoOrder
<1>1. Init => Fifo!Init
  BY DEF Init, NewMutex, Fifo!Init, Line
<1>2. ASSUME Inv, Inv', [Next]_vars PROVE [Fifo!Next]_Line
  <2>0. /\ mutex.acquired \in BOOLEAN /\ mutex.queue \in Seq(Callers)
        /\ pc \in [Callers -> {"idle", "waiting", "holding"}]
    BY <1>2 DEF Inv, TypeOK
  <2>1. ASSUME NEW c \in Callers, Acquire(c) PROVE Fifo!Join(c)
    <3>1. CASE mutex.acquired
      <4>1. /\ mutex' = [mutex EXCEPT !.queue = Append(mutex.queue, c)]
            /\ pc' = [pc EXCEPT ![c] = "waiting"] /\ pc[c] = "idle"
        BY <2>0, <2>1, <3>1 DEF Acquire, MutexAcquire, Result
      <4>2. mutex'.acquired /\ mutex'.queue = Append(mutex.queue, c)
        BY <1>2, <3>1, <4>1 DEF Inv, TypeOK
      <4>3. PICK h \in Callers : pc[h] = "holding"
        BY <1>2, <3>1 DEF Inv, AcquiredIffHeld, Holders
      <4>4. \A d \in Callers : pc[d] = "holding" <=> d = h
        BY <1>2, <4>3 DEF Inv, MutualExclusion, Holders
      <4>5. \A d \in Callers : pc'[d] = "holding" <=> d = h
        BY <2>0, <4>1, <4>4
      <4>6. Line = <<h>> \o mutex.queue /\ Line' = <<h>> \o Append(mutex.queue, c)
        BY <3>1, <4>2, <4>4, <4>5 DEF Line
      <4>7. Line' = Append(Line, c)
        BY <2>0, <4>6
      <4>8. c \notin {Line[i] : i \in DOMAIN Line}
        <5>1. c # h /\ \A i \in DOMAIN mutex.queue : c # mutex.queue[i]
          BY <1>2, <4>1, <4>3 DEF Inv, QueueIsWaiters, Queued
        <5>2. \A i \in DOMAIN Line : Line[i] = h \/ \E j \in DOMAIN mutex.queue : Line[i] = mutex.queue[j]
          BY <2>0, <4>6
        <5> QED BY <5>1, <5>2
      <4> QED BY <4>7, <4>8 DEF Fifo!Join, Fifo!InLine
    <3>2. CASE ~mutex.acquired
      <4>1. /\ mutex' = [mutex EXCEPT !.acquired = TRUE]
            /\ pc' = [pc EXCEPT ![c] = "holding"]
        BY <2>0, <2>1, <3>2 DEF Acquire, MutexAcquire, Result
      <4>2. mutex'.acquired /\ mutex'.queue = <<>> /\ pc'[c] = "holding"
        BY <1>2, <2>0, <3>2, <4>1 DEF Inv, TypeOK, AcquiredIffHeld
      <4>3. \A d \in Callers : pc'[d] = "holding" <=> d = c
        BY <1>2, <4>2 DEF Inv, MutualExclusion, Holders
      <4>4. Line = <<>> /\ Line' = <<c>>
        BY <3>2, <4>2, <4>3 DEF Line
      <4> QED BY <4>4 DEF Fifo!Join, Fifo!InLine
    <3> QED BY <2>0, <3>1, <3>2
  <2>2. ASSUME NEW c \in Callers, Release(c) PROVE Fifo!Leave
    <3>1. mutex.acquired /\ \A d \in Callers : pc[d] = "holding" <=> d = c
      BY <1>2, <2>2 DEF Inv, AcquiredIffHeld, MutualExclusion, Holders, Release
    <3>2. Line = <<c>> \o mutex.queue
      BY <3>1 DEF Line
    <3>3. Line # <<>> /\ Tail(Line) = mutex.queue
      BY <2>0, <3>2
    <3>4. CASE mutex.queue = <<>>
      <4>1. mutex' = [acquired |-> FALSE, queue |-> <<>>]
        BY <2>2, <3>4 DEF Release, MutexRelease, Result, Shifted, ShiftedOff
      <4>2. Line' = <<>>
        BY <4>1 DEF Line
      <4> QED BY <3>3, <3>4, <4>2 DEF Fifo!Leave
    <3>5. CASE mutex.queue # <<>>
      <4> DEFINE next == Head(mutex.queue)
      <4>1. /\ mutex' = [acquired |-> TRUE, queue |-> Tail(mutex.queue)]
            /\ pc' = [d \in Callers |-> IF d = next THEN "holding"
                                        ELSE IF d = c THEN "idle" ELSE pc[d]]
        BY <2>2, <3>1, <3>5 DEF Release, MutexRelease, Result, Shifted, ShiftedOff
      <4>2. next \in Callers /\ mutex.queue = <<next>> \o Tail(mutex.queue)
        BY <2>0, <3>5
      <4>3. \A d \in Callers : pc'[d] = "holding" <=> d = next
        BY <3>1, <4>1, <4>2
      <4>4. Line' = <<next>> \o Tail(mutex.queue)
        BY <4>1, <4>2, <4>3 DEF Line
      <4> QED BY <3>3, <4>2, <4>4 DEF Fifo!Leave
    <3> QED BY <3>4, <3>5
  <2>3. CASE UNCHANGED vars
    BY <2>3 DEF vars, Line
  <2> QED BY <1>2, <2>1, <2>2, <2>3 DEF Next, Fifo!Next
<1> QED BY InvHolds, <1>1, <1>2, PTL DEF Spec, Fifo!Spec, FifoOrder

-----------------------------------------------------------------------------
(* AsyncLockMap *)

\* One more caller at the end of a queue without repetitions.
LEMMA AppendSet ==
  ASSUME NEW S, NEW q \in Seq(S), NEW c \in S, c \notin {q[i] : i \in DOMAIN q},
         \A i, j \in DOMAIN q : q[i] = q[j] => i = j
  PROVE  /\ {Append(q, c)[i] : i \in DOMAIN Append(q, c)} = {q[i] : i \in DOMAIN q} \cup {c}
         /\ \A i, j \in DOMAIN Append(q, c) : Append(q, c)[i] = Append(q, c)[j] => i = j
<1> DEFINE t == Append(q, c)
           n == Len(q)
<1>1. /\ n \in Nat /\ DOMAIN q = 1..n /\ DOMAIN t = 1..(n + 1)
      /\ \A i \in 1..n : t[i] = q[i]
      /\ t[n + 1] = c
  BY AppendFacts
<1> HIDE DEF t, n
<1>2. {t[i] : i \in DOMAIN t} = {q[i] : i \in DOMAIN q} \cup {c}
  <2>1. \A i \in DOMAIN t : i \in DOMAIN q \/ i = n + 1
    BY <1>1
  <2>2. \A i \in DOMAIN q : i \in DOMAIN t
    BY <1>1
  <2>3. n + 1 \in DOMAIN t
    BY <1>1
  <2> QED BY <1>1, <2>1, <2>2, <2>3
<1>3. \A i \in 1..n : t[i] # c
  BY <1>1
<1>4. \A i, j \in DOMAIN t : t[i] = t[j] => i = j
  BY <1>1, <1>3
<1> QED BY <1>2, <1>4 DEF t

\* A record of a mutex that gets another queue, or is taken.
LEMMA OtherQueue ==
  ASSUME NEW a, NEW q, NEW t
  PROVE  [[acquired |-> a, queue |-> q] EXCEPT !.queue = t] = [acquired |-> a, queue |-> t]
OBVIOUS

LEMMA OtherState ==
  ASSUME NEW a, NEW q, NEW t
  PROVE  [[acquired |-> a, queue |-> q] EXCEPT !.acquired = t] = [acquired |-> t, queue |-> q]
OBVIOUS

\* A held mutex is one.
LEMMA HeldMutex ==
  ASSUME NEW S, NEW q \in Seq(S)
  PROVE  LET m == [acquired |-> TRUE, queue |-> q]
         IN  m \in [acquired : BOOLEAN, queue : Seq(S)] /\ m.acquired /\ m.queue = q
OBVIOUS

\* acquire() of a mutex that is held.
LEMMA MutexQueues ==
  ASSUME NEW S, NEW m \in [acquired : BOOLEAN, queue : Seq(S)], m.acquired, NEW c
  PROVE  MutexAcquire(m, c) = Result([acquired |-> TRUE, queue |-> Append(m.queue, c)], {})
<1>1. PICK q : q = m.queue /\ m = [acquired |-> TRUE, queue |-> q]
  OBVIOUS
<1>2. \A t : [[acquired |-> TRUE, queue |-> q] EXCEPT !.queue = t] = [acquired |-> TRUE, queue |-> t]
  BY OtherQueue
<1>3. \A t : [m EXCEPT !.queue = t] = [acquired |-> TRUE, queue |-> t]
  BY <1>1, <1>2, Zenon
<1>4. [m EXCEPT !.queue = Append(m.queue, c)] = [acquired |-> TRUE, queue |-> Append(m.queue, c)]
  BY <1>3, Zenon
<1> QED BY <1>4, Zenon DEF MutexAcquire

\* release() of a mutex that is held and has a queue.
LEMMA MutexPasses ==
  ASSUME NEW S, NEW m \in [acquired : BOOLEAN, queue : Seq(S)], m.acquired, m.queue # <<>>
  PROVE  MutexRelease(m) = Result([acquired |-> TRUE, queue |-> Tail(m.queue)], {Head(m.queue)})
<1>1. (m.queue # <<>> /\ m.acquired) = TRUE
  OBVIOUS
<1> QED BY <1>1, Zenon DEF MutexRelease, Shifted, ShiftedOff

\* acquire() of a key that has a mutex.
LEMMA MappedAcquire ==
  ASSUME NEW locks, NEW k \in DOMAIN locks, NEW c, NEW m, NEW granted,
         MutexAcquire(locks[k], c) = Result(m, granted)
  PROVE  LockMapAcquire(locks, k, c)
           = Result([l \in DOMAIN locks |-> IF l = k THEN m ELSE locks[l]], granted)
<1>1. PICK res : res = MutexAcquire(locks[k], c)
  OBVIOUS
<1>2. res.lock = m /\ res.granted = granted
  BY <1>1 DEF Result
<1>3. DOMAIN locks \cup {k} = DOMAIN locks
  OBVIOUS
<1> QED BY <1>1, <1>2, <1>3 DEF LockMapAcquire

\* acquire() of a mutex that nobody has used yet.
LEMMA FreshMutex ==
  ASSUME NEW c
  PROVE  MutexAcquire(NewMutex, c) = Result([acquired |-> TRUE, queue |-> <<>>], {c})
<1>1. \A a, q, t : [[acquired |-> a, queue |-> q] EXCEPT !.acquired = t] = [acquired |-> t, queue |-> q]
  BY OtherState
<1>2. /\ [NewMutex EXCEPT !.acquired = TRUE] = [acquired |-> TRUE, queue |-> <<>>]
      /\ NewMutex.acquired = FALSE
  BY <1>1, Zenon DEF NewMutex
<1> QED BY <1>2 DEF MutexAcquire

\* The queue of a key in a map of locks.
LineOf(locks, k) == IF k \in DOMAIN locks THEN locks[k].queue ELSE <<>>

\* A queue of callers who wait, each once.
WaitsInLine(q, waiting) ==
  /\ {q[i] : i \in DOMAIN q} = waiting
  /\ \A i, j \in DOMAIN q : q[i] = q[j] => i = j

\* A map of locks serves its callers: those who wait for a key queue on its
\* mutex, once, and the keys that have a mutex are held by somebody.
Serves(locks, K, T, W, held) ==
  /\ W \in [K -> SUBSET T]
  /\ DOMAIN locks \subseteq K \cap held
  /\ locks \in [DOMAIN locks -> [acquired : BOOLEAN, queue : Seq(T)]]
  /\ \A k \in DOMAIN locks : locks[k].acquired
  /\ \A k \in K : WaitsInLine(LineOf(locks, k), W[k])

\* acquire(k): the caller holds the key at once, or stands at the end of the queue.
LEMMA ServesAcquire ==
  ASSUME NEW K, NEW T, NEW W, NEW held, NEW locks, Serves(locks, K, T, W, held),
         NEW k \in K, NEW c \in T, c \notin W[k],
         NEW res, res = LockMapAcquire(locks, k, c)
  PROVE  \/ res.granted = {c} /\ Serves(res.lock, K, T, W, held \cup {k})
         \/ res.granted = {} /\ Serves(res.lock, K, T, [W EXCEPT ![k] = W[k] \cup {c}], held)
<1>0. /\ W \in [K -> SUBSET T] /\ DOMAIN locks \subseteq K \cap held
      /\ \A l \in DOMAIN locks :
           locks[l] \in [acquired : BOOLEAN, queue : Seq(T)] /\ locks[l].acquired
      /\ \A l \in K : WaitsInLine(LineOf(locks, l), W[l])
  BY DEF Serves
<1>1. CASE k \in DOMAIN locks
  <2>0. PICK q \in Seq(T) : q = locks[k].queue /\ locks[k].acquired
    BY <1>0, <1>1
  <2>t. PICK t \in Seq(T) : t = Append(q, c)
    BY AppendFacts
  <2>m. PICK m : m = [acquired |-> TRUE, queue |-> t]
    OBVIOUS
  <2>n. m \in [acquired : BOOLEAN, queue : Seq(T)] /\ m.acquired /\ m.queue = t
    BY <2>m, HeldMutex
  <2> DEFINE after == [l \in DOMAIN locks |-> IF l = k THEN m ELSE locks[l]]
             V == [W EXCEPT ![k] = W[k] \cup {c}]
  <2>1. res.lock = after /\ res.granted = {}
    <3>1. MutexAcquire(locks[k], c) = Result(m, {})
      BY <1>0, <1>1, <2>0, <2>t, <2>m, MutexQueues, Zenon
    <3>2. LockMapAcquire(locks, k, c) = Result(after, {})
      BY <1>1, <3>1, MappedAcquire
    <3> QED BY <3>2 DEF Result
  <2>2. /\ DOMAIN after = DOMAIN locks /\ after[k] = m
        /\ \A l \in DOMAIN locks \ {k} : after[l] = locks[l]
    BY <1>1
  <2>3. after \in [DOMAIN after -> [acquired : BOOLEAN, queue : Seq(T)]]
    BY <1>0, <2>n
  <2>4. \A l \in DOMAIN after : after[l].acquired
    BY <1>0, <2>2, <2>n
  <2>5. /\ LineOf(locks, k) = q /\ LineOf(after, k) = t
        /\ \A l \in K \ {k} : LineOf(after, l) = LineOf(locks, l)
    BY <1>1, <2>0, <2>2, <2>n DEF LineOf
  <2>6. V \in [K -> SUBSET T] /\ V[k] = W[k] \cup {c} /\ \A l \in K \ {k} : V[l] = W[l]
    BY <1>0
  <2> HIDE DEF after, V
  <2>7. WaitsInLine(LineOf(after, k), V[k])
    <3>1. WaitsInLine(q, W[k])
      BY <1>0, <2>5
    <3>2. c \notin {q[i] : i \in DOMAIN q} /\ \A i, j \in DOMAIN q : q[i] = q[j] => i = j
      BY <3>1 DEF WaitsInLine
    <3>3. /\ {t[i] : i \in DOMAIN t} = {q[i] : i \in DOMAIN q} \cup {c}
          /\ \A i, j \in DOMAIN t : t[i] = t[j] => i = j
      BY <2>t, <3>2, AppendSet
    <3>4. WaitsInLine(t, W[k] \cup {c})
      BY <3>1, <3>3, Zenon DEF WaitsInLine
    <3> QED BY <2>5, <2>6, <3>4, Zenon
  <2>8. \A l \in K : WaitsInLine(LineOf(after, l), V[l])
    BY <1>0, <2>5, <2>6, <2>7
  <2>9. Serves(after, K, T, V, held)
    BY <1>0, <2>2, <2>3, <2>4, <2>6, <2>8 DEF Serves
  <2> QED BY <2>1, <2>9 DEF V
<1>2. CASE k \notin DOMAIN locks
  <2>m. PICK m : m = [acquired |-> TRUE, queue |-> <<>>]
    OBVIOUS
  <2>n. m \in [acquired : BOOLEAN, queue : Seq(T)] /\ m.acquired /\ m.queue = <<>>
    BY <2>m, HeldMutex
  <2> DEFINE after == [l \in DOMAIN locks \cup {k} |-> IF l = k THEN m ELSE locks[l]]
  <2>1. res.lock = after /\ res.granted = {c}
    <3>1. MutexAcquire(NewMutex, c) = Result(m, {c})
      BY <2>m, FreshMutex, Zenon
    <3>2. PICK r : r = MutexAcquire(NewMutex, c)
      OBVIOUS
    <3>3. r.lock = m /\ r.granted = {c}
      BY <3>1, <3>2 DEF Result
    <3>4. LockMapAcquire(locks, k, c) = Result(after, {c})
      BY <1>2, <3>2, <3>3 DEF LockMapAcquire
    <3> QED BY <3>4 DEF Result
  <2>2. /\ DOMAIN after = DOMAIN locks \cup {k} /\ after[k] = m
        /\ \A l \in DOMAIN locks : after[l] = locks[l]
    BY <1>2
  <2>3. after \in [DOMAIN after -> [acquired : BOOLEAN, queue : Seq(T)]]
    BY <1>0, <2>n
  <2>4. \A l \in DOMAIN after : after[l].acquired
    BY <1>0, <2>2, <2>n
  <2>5. \A l \in K : LineOf(after, l) = LineOf(locks, l)
    BY <1>2, <2>2, <2>n DEF LineOf
  <2> HIDE DEF after
  <2>6. Serves(after, K, T, W, held \cup {k})
    BY <1>0, <2>2, <2>3, <2>4, <2>5 DEF Serves
  <2> QED BY <2>1, <2>6
<1> QED BY <1>1, <1>2

\* release(k): nobody gets the key and its mutex is gone, or the head of the
\* queue gets it, and the mutex goes when that was the last one.
LEMMA ServesRelease ==
  ASSUME NEW K, NEW T, NEW W, NEW held, NEW locks, Serves(locks, K, T, W, held),
         NEW k \in K, NEW res, res = LockMapRelease(locks, k)
  PROVE  \/ res.granted = {} /\ Serves(res.lock, K, T, W, held \ {k})
         \/ \E d \in W[k] : /\ res.granted = {d}
                            /\ Serves(res.lock, K, T, [W EXCEPT ![k] = W[k] \ {d}], held)
<1>0. /\ W \in [K -> SUBSET T] /\ DOMAIN locks \subseteq K \cap held
      /\ locks = [l \in DOMAIN locks |-> locks[l]]
      /\ \A l \in DOMAIN locks :
           locks[l] \in [acquired : BOOLEAN, queue : Seq(T)] /\ locks[l].acquired
      /\ \A l \in K : WaitsInLine(LineOf(locks, l), W[l])
  BY DEF Serves
<1>1. CASE k \notin DOMAIN locks \/ locks[k].queue = <<>>
  <2> DEFINE after == [l \in DOMAIN locks \ {k} |-> locks[l]]
  <2>1. res.lock = after /\ res.granted = {}
    <3>1. CASE k \notin DOMAIN locks
      <4>1. res.lock = locks /\ res.granted = {}
        BY <3>1 DEF LockMapRelease, Result
      <4>2. DOMAIN locks \ {k} = DOMAIN locks
        BY <3>1
      <4>3. locks = after
        BY <1>0, <4>2, Zenon
      <4> QED BY <4>1, <4>3
    <3>2. CASE k \in DOMAIN locks /\ locks[k].queue = <<>>
      BY <3>2 DEF LockMapRelease, MutexRelease, Result, Shifted, ShiftedOff
    <3> QED BY <1>1, <3>1, <3>2
  <2>2. /\ DOMAIN after = DOMAIN locks \ {k}
        /\ \A l \in DOMAIN after : after[l] = locks[l]
    OBVIOUS
  <2>3. after \in [DOMAIN after -> [acquired : BOOLEAN, queue : Seq(T)]]
    BY <1>0
  <2>4. \A l \in DOMAIN after : after[l].acquired
    BY <1>0
  <2>5. \A l \in K : LineOf(after, l) = LineOf(locks, l)
    BY <1>1, <2>2 DEF LineOf
  <2> HIDE DEF after
  <2>6. Serves(after, K, T, W, held \ {k})
    BY <1>0, <2>2, <2>3, <2>4, <2>5 DEF Serves
  <2> QED BY <2>1, <2>6
<1>2. CASE k \in DOMAIN locks /\ locks[k].queue # <<>>
  <2>0. PICK q \in Seq(T) : q = locks[k].queue /\ q # <<>> /\ locks[k].acquired
    BY <1>0, <1>2
  <2>q. q # <<>>
    BY <2>0
  <2> DEFINE next == Head(q)
             V == [W EXCEPT ![k] = W[k] \ {next}]
  <2>m. PICK m : m = [acquired |-> TRUE, queue |-> Tail(q)]
    OBVIOUS
  <2>h. next = q[1] /\ 1 \in DOMAIN q /\ next \in T /\ Tail(q) \in Seq(T)
    BY <2>q, TailFacts
  <2>n. m \in [acquired : BOOLEAN, queue : Seq(T)] /\ m.acquired /\ m.queue = Tail(q)
    BY <2>h, <2>m, HeldMutex
  <2> PICK after :
        after = IF Tail(q) = <<>> THEN [l \in DOMAIN locks \ {k} |-> locks[l]]
                ELSE [locks EXCEPT ![k] = m]
    OBVIOUS
  <2>1. res.lock = after /\ res.granted = {next}
    <3>1. MutexRelease(locks[k]) = Result(m, {next})
      BY <1>0, <1>2, <2>0, <2>m, MutexPasses, Zenon
    <3>2. LockMapRelease(locks, k) = Result(after, {next})
      <4>1. PICK r : r = MutexRelease(locks[k])
        OBVIOUS
      <4>2. r.lock = m /\ r.granted = {next} /\ m.queue = Tail(q)
        BY <2>n, <3>1, <4>1 DEF Result
      <4> QED BY <1>2, <4>1, <4>2 DEF LockMapRelease
    <3> QED BY <3>2 DEF Result
  <2>2. /\ DOMAIN after \subseteq DOMAIN locks
        /\ k \in DOMAIN after => after[k] = m
        /\ \A l \in DOMAIN after \ {k} : after[l] = locks[l]
        /\ \A l \in DOMAIN locks \ {k} : l \in DOMAIN after
        /\ k \notin DOMAIN after => Tail(q) = <<>>
        /\ after = [l \in DOMAIN after |-> after[l]]
    BY <1>0, <1>2
  <2>3. after \in [DOMAIN after -> [acquired : BOOLEAN, queue : Seq(T)]]
    <3>1. \A l \in DOMAIN after : after[l] \in [acquired : BOOLEAN, queue : Seq(T)]
      BY <1>0, <2>2, <2>n
    <3> QED BY <2>2, <3>1
  <2>4. \A l \in DOMAIN after : after[l].acquired
    BY <1>0, <2>2, <2>n
  <2>5. /\ LineOf(locks, k) = q /\ LineOf(after, k) = Tail(q)
        /\ \A l \in K \ {k} : LineOf(after, l) = LineOf(locks, l)
    BY <1>2, <2>0, <2>2, <2>n DEF LineOf
  <2>6. V \in [K -> SUBSET T] /\ V[k] = W[k] \ {next} /\ \A l \in K \ {k} : V[l] = W[l]
    BY <1>0
  <2>7. WaitsInLine(q, W[k]) /\ next \in W[k]
    <3>1. WaitsInLine(q, W[k])
      BY <1>0, <2>5
    <3> QED BY <2>h, <3>1 DEF WaitsInLine
  <2> HIDE DEF V
  <2>8. WaitsInLine(LineOf(after, k), V[k])
    <3>1. \A i, j \in DOMAIN q : q[i] = q[j] => i = j
      BY <2>7 DEF WaitsInLine
    <3>2. /\ {Tail(q)[i] : i \in DOMAIN Tail(q)} = {q[i] : i \in DOMAIN q} \ {next}
          /\ \A i, j \in DOMAIN Tail(q) : Tail(q)[i] = Tail(q)[j] => i = j
      BY <2>q, <3>1, TailSet
    <3>3. WaitsInLine(Tail(q), W[k] \ {next})
      BY <2>7, <3>2, Zenon DEF WaitsInLine
    <3> QED BY <2>5, <2>6, <3>3, Zenon
  <2>9. \A l \in K : WaitsInLine(LineOf(after, l), V[l])
    BY <1>0, <2>5, <2>6, <2>8
  <2>10. Serves(after, K, T, V, held)
    BY <1>0, <2>2, <2>3, <2>4, <2>6, <2>9 DEF Serves
  <2> QED BY <2>1, <2>7, <2>10 DEF V
<1> QED BY <1>1, <1>2

\* What waits for each key of the AsyncLockMap, and the keys that are held.
Waiters == [k \in Keys |-> Waiting(k)]
HeldKeys == {k \in Keys : Holding(k) # {}}
ChainTypes == chain \in [Chains -> {"idle", "waiting", "holding"}] /\ key \in [Chains -> Keys]

\* The invariant says that the map serves the chains.
LEMMA MapServes ==
  KeysArePassedOn <=> ChainTypes /\ Serves(map, Keys, Chains, Waiters, HeldKeys)
<1>1. \A k \in Keys : Waiters[k] = Waiting(k) /\ LineOf(map, k) = Queue(k)
  BY DEF Waiters, LineOf, Queue
<1>2. Waiters \in [Keys -> SUBSET Chains]
  BY DEF Waiters, Waiting
<1>3. (\A k \in Keys : WaitsInLine(LineOf(map, k), Waiters[k])) <=> NoStrandedWaiter
  <2>1. \A k \in Keys : WaitsInLine(LineOf(map, k), Waiters[k]) <=> WaitsInLine(Queue(k), Waiting(k))
    BY <1>1
  <2> QED BY <2>1 DEF NoStrandedWaiter, WaitsInLine
<1>4. DOMAIN map \subseteq Keys =>
        (DOMAIN map \subseteq Keys \cap HeldKeys <=> \A k \in DOMAIN map : Holding(k) # {})
  BY DEF HeldKeys
<1> QED BY <1>2, <1>3, <1>4 DEF KeysArePassedOn, MapTypeOK, MappedMutexIsHeld, ChainTypes, Serves

LEMMA MapServesNext ==
  ChainTypes' /\ Serves(map', Keys, Chains, Waiters', HeldKeys') => KeysArePassedOn'
<1>1. (ChainTypes /\ Serves(map, Keys, Chains, Waiters, HeldKeys) => KeysArePassedOn)'
  BY MapServes, PTL
<1> QED BY <1>1

\* acquire(k) preserves the invariant.
LEMMA MapAcquireInv ==
  ASSUME KeysArePassedOn, NEW c \in Chains, NEW k \in Keys, MapAcquire(c, k)
  PROVE  KeysArePassedOn'
<1>0. ChainTypes /\ Serves(map, Keys, Chains, Waiters, HeldKeys)
  BY MapServes
<1>1. PICK res : res = LockMapAcquire(map, k, c)
  OBVIOUS
<1>2. /\ chain[c] = "idle" /\ map' = res.lock /\ key' = [key EXCEPT ![c] = k]
      /\ chain' = [chain EXCEPT ![c] = IF c \in res.granted THEN "holding" ELSE "waiting"]
  BY <1>1 DEF MapAcquire
<1>3. ChainTypes'
  BY <1>0, <1>2 DEF ChainTypes
<1>4. \/ res.granted = {c} /\ Serves(map', Keys, Chains, Waiters, HeldKeys \cup {k})
      \/ /\ res.granted = {}
         /\ Serves(map', Keys, Chains, [Waiters EXCEPT ![k] = Waiters[k] \cup {c}], HeldKeys)
  <2>1. c \notin Waiters[k]
    BY <1>2 DEF Waiters, Waiting
  <2> QED BY <1>0, <1>1, <1>2, <2>1, ServesAcquire
<1>5. CASE res.granted = {c} /\ Serves(map', Keys, Chains, Waiters, HeldKeys \cup {k})
  <2>1. chain' = [chain EXCEPT ![c] = "holding"]
    BY <1>2, <1>5
  <2>2. \A l \in Keys : Waiting(l)' = Waiting(l)
    BY <1>0, <1>2, <2>1 DEF ChainTypes, Waiting
  <2>3. c \in Holding(k)' /\ \A l \in Keys : Holding(l) \subseteq Holding(l)'
    BY <1>0, <1>2, <2>1 DEF ChainTypes, Holding
  <2>4. Waiters' = Waiters /\ HeldKeys \cup {k} \subseteq HeldKeys'
    BY <2>2, <2>3 DEF Waiters, HeldKeys
  <2>5. Serves(map', Keys, Chains, Waiters', HeldKeys')
    BY <1>5, <2>4 DEF Serves
  <2> QED BY <1>3, <2>5, MapServesNext
<1>6. CASE /\ res.granted = {}
           /\ Serves(map', Keys, Chains, [Waiters EXCEPT ![k] = Waiters[k] \cup {c}], HeldKeys)
  <2>1. chain' = [chain EXCEPT ![c] = "waiting"]
    BY <1>2, <1>6
  <2>2. Waiting(k)' = Waiting(k) \cup {c} /\ \A l \in Keys \ {k} : Waiting(l)' = Waiting(l)
    BY <1>0, <1>2, <2>1 DEF ChainTypes, Waiting
  <2>3. \A l \in Keys : Holding(l)' = Holding(l)
    BY <1>0, <1>2, <2>1 DEF ChainTypes, Holding
  <2>4. Waiters' = [Waiters EXCEPT ![k] = Waiters[k] \cup {c}] /\ HeldKeys' = HeldKeys
    BY <2>2, <2>3 DEF Waiters, HeldKeys
  <2>5. Serves(map', Keys, Chains, Waiters', HeldKeys')
    BY <1>6, <2>4
  <2> QED BY <1>3, <2>5, MapServesNext
<1> QED BY <1>4, <1>5, <1>6

\* release(key), also by one of two holders, preserves the invariant.
LEMMA MapReleaseInv ==
  ASSUME KeysArePassedOn, NEW c \in Chains, MapRelease(c)
  PROVE  KeysArePassedOn'
<1>0. ChainTypes /\ Serves(map, Keys, Chains, Waiters, HeldKeys)
  BY MapServes
<1> PICK k \in Keys : k = key[c]
  BY <1>0 DEF ChainTypes
<1>1. PICK res : res = LockMapRelease(map, k)
  OBVIOUS
<1>2. /\ chain[c] = "holding" /\ map' = res.lock /\ key' = key
      /\ chain' = [d \in Chains |-> IF d \in res.granted THEN "holding"
                                    ELSE IF d = c THEN "idle" ELSE chain[d]]
  BY <1>1 DEF MapRelease
<1>3. ChainTypes'
  BY <1>0, <1>2 DEF ChainTypes
<1>4. \/ res.granted = {} /\ Serves(map', Keys, Chains, Waiters, HeldKeys \ {k})
      \/ \E d \in Waiters[k] :
           /\ res.granted = {d}
           /\ Serves(map', Keys, Chains, [Waiters EXCEPT ![k] = Waiters[k] \ {d}], HeldKeys)
  BY <1>0, <1>1, <1>2, ServesRelease
<1>5. CASE res.granted = {} /\ Serves(map', Keys, Chains, Waiters, HeldKeys \ {k})
  <2>1. chain' = [d \in Chains |-> IF d = c THEN "idle" ELSE chain[d]]
    BY <1>2, <1>5
  <2>2. \A l \in Keys : Waiting(l)' = Waiting(l)
    BY <1>0, <1>2, <2>1 DEF ChainTypes, Waiting
  <2>3. \A l \in Keys \ {k} : Holding(l)' = Holding(l)
    BY <1>0, <1>2, <2>1 DEF ChainTypes, Holding
  <2>4. Waiters' = Waiters /\ HeldKeys \ {k} \subseteq HeldKeys'
    BY <2>2, <2>3 DEF Waiters, HeldKeys
  <2>5. Serves(map', Keys, Chains, Waiters', HeldKeys')
    BY <1>5, <2>4 DEF Serves
  <2> QED BY <1>3, <2>5, MapServesNext
<1>6. ASSUME NEW d \in Waiters[k], res.granted = {d},
             Serves(map', Keys, Chains, [Waiters EXCEPT ![k] = Waiters[k] \ {d}], HeldKeys)
      PROVE  KeysArePassedOn'
  <2>0. d \in Chains /\ chain[d] = "waiting" /\ key[d] = k /\ d # c
    BY <1>2 DEF Waiters, Waiting
  <2>1. chain' = [e \in Chains |-> IF e = d THEN "holding" ELSE IF e = c THEN "idle" ELSE chain[e]]
    BY <1>2, <1>6
  <2>2. Waiting(k)' = Waiting(k) \ {d} /\ \A l \in Keys \ {k} : Waiting(l)' = Waiting(l)
    BY <1>0, <1>2, <2>0, <2>1 DEF ChainTypes, Waiting
  <2>3. d \in Holding(k)' /\ \A l \in Keys \ {k} : Holding(l)' = Holding(l)
    BY <1>0, <1>2, <2>0, <2>1 DEF ChainTypes, Holding
  <2>4. Waiters' = [Waiters EXCEPT ![k] = Waiters[k] \ {d}] /\ HeldKeys \subseteq HeldKeys'
    BY <2>2, <2>3 DEF Waiters, HeldKeys
  <2>5. Serves(map', Keys, Chains, Waiters', HeldKeys')
    BY <1>6, <2>4 DEF Serves
  <2> QED BY <1>3, <2>5, MapServesNext
<1> QED BY <1>4, <1>5, <1>6

\* AsyncLockMap.acquire()/release(): although release() deletes mutexes that are
\* held, whoever waits for a key queues on the mutex the map has for it, and
\* somebody holds that key whose release() moves the queue on.
THEOREM KeysPassedOn == MapSpec => []KeysArePassedOn
<1>1. MapInit => KeysArePassedOn
  BY DEF MapInit, EmptyLockMap, KeysArePassedOn, MapTypeOK, NoStrandedWaiter,
         MappedMutexIsHeld, Queue, Waiting
<1>2. KeysArePassedOn /\ [MapNext]_mapVars => KeysArePassedOn'
  <2> SUFFICES ASSUME KeysArePassedOn, [MapNext]_mapVars PROVE KeysArePassedOn'
    OBVIOUS
  <2>1. CASE UNCHANGED mapVars
    BY <2>1 DEF mapVars, KeysArePassedOn, MapTypeOK, NoStrandedWaiter,
                MappedMutexIsHeld, Queue, Waiting, Holding
  <2> QED BY <2>1, MapAcquireInv, MapReleaseInv DEF MapNext
<1> QED BY <1>1, <1>2, PTL DEF MapSpec

-----------------------------------------------------------------------------
(* AsyncRWLock *)

\* What RWTypeOK says of the lock's fields.
LEMMA RWFields ==
  ASSUME RWTypeOK
  PROVE  /\ rw.readerQueue \in Seq(Calls) /\ rw.writerQueue \in Seq(Calls)
         /\ rw.readers \in Int /\ rw.writers \in {0, 1}
         /\ rw = [readerQueue |-> rw.readerQueue, writerQueue |-> rw.writerQueue,
                  readers |-> rw.readers, writers |-> rw.writers]
         /\ at \in [Calls -> States]
BY DEF RWTypeOK

\* What one push does to a queue of calls.
LEMMA PushFacts ==
  ASSUME NEW S, NEW q \in Seq(S), NEW c \in S
  PROVE  /\ Append(q, c) \in Seq(S)
         /\ Len(q) \in Nat
         /\ DOMAIN q = 1..Len(q)
         /\ DOMAIN Append(q, c) = 1..(Len(q) + 1)
         /\ \A i \in 1..Len(q) : Append(q, c)[i] = q[i]
         /\ Append(q, c)[Len(q) + 1] = c
OBVIOUS

\* What one shift does to a queue of calls.
LEMMA ShiftFacts ==
  ASSUME NEW S, NEW q \in Seq(S), q # <<>>
  PROVE  /\ Tail(q) \in Seq(S)
         /\ Len(q) \in Nat /\ Len(q) > 0
         /\ DOMAIN q = 1..Len(q)
         /\ DOMAIN Tail(q) = 1..(Len(q) - 1)
         /\ \A i \in 1..(Len(q) - 1) : Tail(q)[i] = q[i + 1]
         /\ Head(q) = q[1]
         /\ Head(q) \in S
OBVIOUS

\* Shifting a queue of pending writers leaves a queue of pending writers
\* without the one taken off.
LEMMA ShiftQueue ==
  ASSUME NEW S, NEW q \in Seq(S), q # <<>>,
         \A i, j \in DOMAIN q : q[i] = q[j] => i = j
  PROVE  /\ \A i \in DOMAIN Tail(q) :
              Tail(q)[i] # Head(q) /\ \E j \in DOMAIN q : Tail(q)[i] = q[j]
         /\ \A i, j \in DOMAIN Tail(q) : Tail(q)[i] = Tail(q)[j] => i = j
<1> DEFINE t == Tail(q)
           n == Len(q)
<1>1. /\ n \in Nat /\ n > 0 /\ DOMAIN q = 1..n /\ DOMAIN t = 1..(n - 1)
      /\ \A i \in 1..(n - 1) : t[i] = q[i + 1]
      /\ Head(q) = q[1]
  BY ShiftFacts
<1> HIDE DEF t, n
<1>2. ASSUME NEW i \in DOMAIN t
      PROVE  i + 1 \in DOMAIN q /\ t[i] = q[i + 1] /\ t[i] # Head(q)
  <2>1. i + 1 \in DOMAIN q /\ 1 \in DOMAIN q /\ i + 1 # 1
    BY <1>1
  <2> QED BY <1>1, <2>1
<1>3. \A i, j \in DOMAIN t : t[i] = t[j] => i = j
  <2> TAKE i, j \in DOMAIN t
  <2>1. t[i] = t[j] => i + 1 = j + 1
    BY <1>2
  <2> QED BY <1>1, <2>1
<1> QED BY <1>2, <1>3 DEF t

\* The initial state satisfies the inductive invariant.
LEMMA RWInitInv == RWInit => QueueInv
BY DEF RWInit, QueueInv, RWTypeOK, OneWriter, QueuedWritersWait, QueuedReadersRead,
       Writing, NewRWLock, States

\* rlock() preserves the inductive invariant.
LEMMA RLockInv ==
  ASSUME QueueInv, NEW c \in Calls, rlock(c)
  PROVE  QueueInv'
<1>0. RWTypeOK /\ at[c] = "idle" /\ at \in [Calls -> States]
  BY DEF QueueInv, RWTypeOK, rlock
<1>1. CASE rw.writers # 0 \/ rw.writerQueue # <<>>
  <2>1. /\ rw' = [readerQueue |-> Append(rw.readerQueue, c),
                  writerQueue |-> rw.writerQueue,
                  readers |-> rw.readers, writers |-> rw.writers]
        /\ at' = [d \in Calls |-> IF d = c THEN "rwait" ELSE at[d]]
    BY <1>0, <1>1, RWFields DEF rlock, RLock, Result, Take, Resolve
  <2>2. /\ rw'.readerQueue = Append(rw.readerQueue, c)
        /\ rw'.writerQueue = rw.writerQueue /\ rw'.writers = rw.writers
        /\ RWTypeOK'
    BY <1>0, <2>1, RWFields, PushFacts DEF RWTypeOK, States
  <2>3. OneWriter'
    BY <1>0, <2>1, <2>2 DEF QueueInv, OneWriter, Writing
  <2>4. QueuedWritersWait'
    <3>1. \A i \in DOMAIN rw.writerQueue : rw.writerQueue[i] \in Calls
      BY <1>0, RWFields
    <3> QED BY <1>0, <2>1, <2>2, <3>1 DEF QueueInv, QueuedWritersWait
  <2>5. QueuedReadersRead'
    <3>1. \A i \in DOMAIN rw.readerQueue : rw.readerQueue[i] \in Calls
      BY <1>0, RWFields
    <3>2. \A i \in DOMAIN rw.readerQueue : at'[rw.readerQueue[i]] \in {"rwait", "reading", "done"}
      BY <1>0, <2>1, <3>1 DEF QueueInv, QueuedReadersRead
    <3>3. at'[c] = "rwait"
      BY <2>1
    <3>4. \A i \in DOMAIN Append(rw.readerQueue, c) :
             \/ Append(rw.readerQueue, c)[i] = c
             \/ \E j \in DOMAIN rw.readerQueue : Append(rw.readerQueue, c)[i] = rw.readerQueue[j]
      BY <1>0, RWFields, PushFacts
    <3> QED BY <2>2, <3>2, <3>3, <3>4 DEF QueuedReadersRead
  <2> QED BY <2>2, <2>3, <2>4, <2>5 DEF QueueInv
<1>2. CASE ~(rw.writers # 0 \/ rw.writerQueue # <<>>)
  <2>1. /\ rw' = [readerQueue |-> rw.readerQueue, writerQueue |-> rw.writerQueue,
                  readers |-> rw.readers + 1, writers |-> rw.writers]
        /\ at' = [d \in Calls |-> IF d = c THEN "reading" ELSE at[d]]
    BY <1>0, <1>2, RWFields DEF rlock, RLock, Result, Take, Resolve
  <2>2. /\ rw'.readerQueue = rw.readerQueue
        /\ rw'.writerQueue = rw.writerQueue /\ rw'.writers = rw.writers
        /\ RWTypeOK'
    BY <1>0, <2>1, RWFields DEF RWTypeOK, States
  <2>3. OneWriter'
    BY <1>0, <2>1, <2>2 DEF QueueInv, OneWriter, Writing
  <2>4. QueuedWritersWait' /\ QueuedReadersRead'
    <3>1. /\ \A i \in DOMAIN rw.writerQueue : rw.writerQueue[i] \in Calls
          /\ \A i \in DOMAIN rw.readerQueue : rw.readerQueue[i] \in Calls
      BY <1>0, RWFields
    <3> QED BY <1>0, <2>1, <2>2, <3>1 DEF QueueInv, QueuedWritersWait, QueuedReadersRead
  <2> QED BY <2>2, <2>3, <2>4 DEF QueueInv
<1> QED BY <1>1, <1>2

\* A set of queued calls lies within Calls, whatever the queue.
LEMMA QueuedCalls ==
  ASSUME RWTypeOK
  PROVE  /\ \A i \in DOMAIN rw.writerQueue : rw.writerQueue[i] \in Calls
         /\ \A i \in DOMAIN rw.readerQueue : rw.readerQueue[i] \in Calls
BY RWFields

\* wlock() preserves the inductive invariant.
LEMMA WLockInv ==
  ASSUME QueueInv, NEW c \in Calls, wlock(c)
  PROVE  QueueInv'
<1>0. RWTypeOK /\ at[c] = "idle" /\ at \in [Calls -> States]
  BY DEF QueueInv, RWTypeOK, wlock
<1>1. CASE rw.readers # 0 \/ rw.writers # 0
  <2>1. /\ rw' = [readerQueue |-> rw.readerQueue,
                  writerQueue |-> Append(rw.writerQueue, c),
                  readers |-> rw.readers, writers |-> rw.writers]
        /\ at' = [d \in Calls |-> IF d = c THEN "wwait" ELSE at[d]]
    BY <1>0, <1>1, RWFields DEF wlock, WLock, Result, Take, Resolve
  <2>2. /\ rw'.readerQueue = rw.readerQueue
        /\ rw'.writerQueue = Append(rw.writerQueue, c) /\ rw'.writers = rw.writers
        /\ RWTypeOK'
    BY <1>0, <2>1, RWFields, PushFacts DEF RWTypeOK, States
  <2>3. OneWriter'
    BY <1>0, <2>1, <2>2 DEF QueueInv, OneWriter, Writing
  <2>4. QueuedReadersRead'
    BY <1>0, <2>1, <2>2, QueuedCalls DEF QueueInv, QueuedReadersRead
  <2>5. QueuedWritersWait'
    <3> DEFINE q == rw.writerQueue
    <3>1. \A i \in DOMAIN q : q[i] # c /\ at'[q[i]] = "wwait"
      BY <1>0, <2>1, QueuedCalls DEF QueueInv, QueuedWritersWait
    <3>2. at'[c] = "wwait"
      BY <2>1
    <3>3. \A i, j \in DOMAIN q : q[i] = q[j] => i = j
      BY DEF QueueInv, QueuedWritersWait
    <3>4. /\ q \in Seq(Calls) /\ Len(q) \in Nat
          /\ DOMAIN q = 1..Len(q)
          /\ DOMAIN Append(q, c) = 1..(Len(q) + 1)
          /\ \A i \in 1..Len(q) : Append(q, c)[i] = q[i]
          /\ Append(q, c)[Len(q) + 1] = c
      BY <1>0, RWFields, PushFacts
    <3> HIDE DEF q
    <3>5. \A i \in DOMAIN Append(q, c) : at'[Append(q, c)[i]] = "wwait"
      BY <3>1, <3>2, <3>4
    <3>6. \A i, j \in DOMAIN Append(q, c) : Append(q, c)[i] = Append(q, c)[j] => i = j
      BY <3>1, <3>3, <3>4
    <3> QED BY <2>2, <3>5, <3>6 DEF QueuedWritersWait, q
  <2> QED BY <2>2, <2>3, <2>4, <2>5 DEF QueueInv
<1>2. CASE ~(rw.readers # 0 \/ rw.writers # 0)
  <2>1. /\ rw' = [readerQueue |-> rw.readerQueue, writerQueue |-> rw.writerQueue,
                  readers |-> rw.readers, writers |-> 1]
        /\ at' = [d \in Calls |-> IF d = c THEN "writing" ELSE at[d]]
    BY <1>0, <1>2, RWFields DEF wlock, WLock, Result, Take, Resolve
  <2>2. /\ rw'.readerQueue = rw.readerQueue
        /\ rw'.writerQueue = rw.writerQueue /\ rw'.writers = 1
        /\ RWTypeOK'
    BY <1>0, <2>1, RWFields DEF RWTypeOK, States
  <2>3. Writing = {}
    BY <1>2 DEF QueueInv, OneWriter
  <2>4. OneWriter'
    BY <1>0, <2>1, <2>2, <2>3 DEF OneWriter, Writing
  <2>5. QueuedWritersWait' /\ QueuedReadersRead'
    BY <1>0, <2>1, <2>2, QueuedCalls DEF QueueInv, QueuedWritersWait, QueuedReadersRead
  <2> QED BY <2>2, <2>4, <2>5 DEF QueueInv
<1> QED BY <1>1, <1>2

\* runlock() preserves the inductive invariant, whether it admits the writer
\* it takes off the queue or forgets it.
LEMMA RUnlockInv ==
  ASSUME QueueInv, NEW c \in Calls, runlock(c)
  PROVE  QueueInv'
<1>0. RWTypeOK /\ at[c] = "reading" /\ at \in [Calls -> States]
  BY DEF QueueInv, RWTypeOK, runlock
<1> DEFINE q == rw.writerQueue
<1>1. q \in Seq(Calls) /\ \A i, j \in DOMAIN q : q[i] = q[j] => i = j
  BY <1>0, RWFields DEF QueueInv, QueuedWritersWait
<1>2. ASSUME q # <<>>
      PROVE  Head(q) \in Calls /\ at[Head(q)] = "wwait"
  BY <1>1, <1>2, ShiftFacts DEF QueueInv, QueuedWritersWait
<1>3. /\ Shifted(q) \in Seq(Calls)
      /\ \A i \in DOMAIN Shifted(q) :
           /\ \E j \in DOMAIN q : Shifted(q)[i] = q[j]
           /\ Shifted(q)[i] # Head(q)
      /\ \A i, j \in DOMAIN Shifted(q) : Shifted(q)[i] = Shifted(q)[j] => i = j
  <2>1. CASE q = <<>>
    BY <2>1 DEF Shifted
  <2>2. CASE q # <<>>
    BY <1>1, <2>2, ShiftFacts, ShiftQueue DEF Shifted
  <2> QED BY <2>1, <2>2
<1>4. CASE rw.writers = 0 /\ q # <<>>
  <2>1. /\ rw' = [readerQueue |-> rw.readerQueue, writerQueue |-> Shifted(q),
                  readers |-> rw.readers - 1, writers |-> 1]
        /\ at' = [d \in Calls |-> IF d = c THEN "done"
                                  ELSE IF d = Head(q) THEN "writing" ELSE at[d]]
    BY <1>0, <1>2, <1>4, RWFields DEF runlock, RUnlock, Result, Take, Resolve
  <2>2. /\ rw'.readerQueue = rw.readerQueue
        /\ rw'.writerQueue = Shifted(q) /\ rw'.writers = 1
        /\ RWTypeOK'
    BY <1>0, <1>3, <2>1, RWFields DEF RWTypeOK, States
  <2>3. Writing = {}
    BY <1>4 DEF QueueInv, OneWriter
  <2>4. OneWriter'
    BY <1>0, <1>2, <1>4, <2>1, <2>2, <2>3 DEF OneWriter, Writing
  <2>5. QueuedReadersRead'
    BY <1>0, <1>2, <1>4, <2>1, <2>2, QueuedCalls DEF QueueInv, QueuedReadersRead
  <2>6. QueuedWritersWait'
    <3>1. \A j \in DOMAIN q : q[j] # Head(q) => at'[q[j]] = "wwait"
      BY <1>0, <2>1, QueuedCalls DEF QueueInv, QueuedWritersWait
    <3> QED BY <1>3, <2>2, <3>1 DEF QueuedWritersWait
  <2> QED BY <2>2, <2>4, <2>5, <2>6 DEF QueueInv
<1>5. CASE ~(rw.writers = 0 /\ q # <<>>)
  <2>1. /\ rw' = [readerQueue |-> rw.readerQueue, writerQueue |-> Shifted(q),
                  readers |-> rw.readers - 1, writers |-> rw.writers]
        /\ at' = [d \in Calls |-> IF d = c THEN "done" ELSE at[d]]
    BY <1>0, <1>5, RWFields DEF runlock, RUnlock, Result, Take, Resolve
  <2>2. /\ rw'.readerQueue = rw.readerQueue
        /\ rw'.writerQueue = Shifted(q) /\ rw'.writers = rw.writers
        /\ RWTypeOK'
    BY <1>0, <1>3, <2>1, RWFields DEF RWTypeOK, States
  <2>3. OneWriter'
    BY <1>0, <2>1, <2>2 DEF QueueInv, OneWriter, Writing
  <2>4. QueuedReadersRead'
    BY <1>0, <2>1, <2>2, QueuedCalls DEF QueueInv, QueuedReadersRead
  <2>5. QueuedWritersWait'
    <3>1. \A j \in DOMAIN q : at'[q[j]] = "wwait"
      BY <1>0, <2>1, QueuedCalls DEF QueueInv, QueuedWritersWait
    <3> QED BY <1>3, <2>2, <3>1 DEF QueuedWritersWait
  <2> QED BY <2>2, <2>3, <2>4, <2>5 DEF QueueInv
<1> QED BY <1>4, <1>5

\* wunlock() preserves the inductive invariant, handing the lock to the next
\* writer or letting all queued readers in.
LEMMA WUnlockInv ==
  ASSUME QueueInv, NEW c \in Calls, wunlock(c)
  PROVE  QueueInv'
<1>0. RWTypeOK /\ at[c] = "writing" /\ at \in [Calls -> States]
  BY DEF QueueInv, RWTypeOK, wunlock
<1>1. Writing = {c} /\ rw.writers = 1
  BY <1>0 DEF QueueInv, OneWriter, Writing
<1> DEFINE q == rw.writerQueue
<1>2. CASE q # <<>>
  <2>1. /\ q \in Seq(Calls)
        /\ \A i, j \in DOMAIN q : q[i] = q[j] => i = j
        /\ Head(q) \in Calls /\ at[Head(q)] = "wwait" /\ Tail(q) \in Seq(Calls)
    BY <1>0, <1>2, RWFields, ShiftFacts DEF QueueInv, QueuedWritersWait
  <2>2. /\ rw' = [readerQueue |-> rw.readerQueue, writerQueue |-> Tail(q),
                  readers |-> rw.readers, writers |-> rw.writers]
        /\ at' = [d \in Calls |-> IF d = c THEN "done"
                                  ELSE IF d = Head(q) THEN "writing" ELSE at[d]]
    BY <1>0, <1>2, <2>1, RWFields DEF wunlock, WUnlock, Result, Take, Resolve
  <2>3. /\ rw'.readerQueue = rw.readerQueue
        /\ rw'.writerQueue = Tail(q) /\ rw'.writers = 1
        /\ RWTypeOK'
    BY <1>0, <1>1, <2>1, <2>2, RWFields DEF RWTypeOK, States
  <2>4. OneWriter'
    BY <1>0, <1>1, <2>1, <2>2, <2>3 DEF OneWriter, Writing
  <2>5. QueuedReadersRead'
    BY <1>0, <2>1, <2>2, <2>3, QueuedCalls DEF QueueInv, QueuedReadersRead
  <2>6. QueuedWritersWait'
    <3>1. \A j \in DOMAIN q : q[j] # Head(q) => at'[q[j]] = "wwait"
      BY <1>0, <2>2, QueuedCalls DEF QueueInv, QueuedWritersWait
    <3>2. /\ \A i \in DOMAIN Tail(q) :
               Tail(q)[i] # Head(q) /\ \E j \in DOMAIN q : Tail(q)[i] = q[j]
          /\ \A i, j \in DOMAIN Tail(q) : Tail(q)[i] = Tail(q)[j] => i = j
      BY <1>2, <2>1, ShiftQueue
    <3> QED BY <2>3, <3>1, <3>2 DEF QueuedWritersWait
  <2> QED BY <2>3, <2>4, <2>5, <2>6 DEF QueueInv
<1>3. CASE q = <<>>
  <2> DEFINE admitted == {rw.readerQueue[i] : i \in DOMAIN rw.readerQueue}
  <2>1. rw' = [readerQueue |-> rw.readerQueue, writerQueue |-> <<>>,
               readers |-> rw.readers + Len(rw.readerQueue), writers |-> 0]
    BY <1>0, <1>3, RWFields DEF wunlock, WUnlock, Result, Take
  <2>2. \A d \in admitted : d \in Calls /\ at[d] \in {"rwait", "reading", "done"}
    BY <1>0, QueuedCalls DEF QueueInv, QueuedReadersRead
  <2>3. at' = [d \in Calls |-> IF d = c THEN "done"
                               ELSE IF d \in admitted /\ at[d] = "rwait"
                                      THEN "reading" ELSE at[d]]
    <3>1. at' = Resolve([at EXCEPT ![c] = "done"], admitted)
      BY <1>3 DEF wunlock, WUnlock, Result, Take
    <3> HIDE DEF admitted
    <3> QED BY <1>0, <2>2, <3>1 DEF Resolve
  <2>4. /\ rw'.readerQueue = rw.readerQueue
        /\ rw'.writerQueue = <<>> /\ rw'.writers = 0
        /\ RWTypeOK'
    <3>1. Len(rw.readerQueue) \in Int
      BY <1>0, RWFields
    <3>2. at' \in [Calls -> States]
      BY <1>0, <2>3 DEF States
    <3> QED BY <1>0, <2>1, <3>1, <3>2, RWFields DEF RWTypeOK
  <2> HIDE DEF admitted
  <2>5. OneWriter'
    BY <1>0, <1>1, <2>3, <2>4 DEF OneWriter, Writing
  <2>6. QueuedReadersRead'
    BY <1>0, <2>3, <2>4, QueuedCalls DEF QueueInv, QueuedReadersRead
  <2>7. QueuedWritersWait'
    BY <2>4 DEF QueuedWritersWait
  <2> QED BY <2>4, <2>5, <2>6, <2>7 DEF QueueInv
<1> QED BY <1>2, <1>3

-----------------------------------------------------------------------------
(* The count of readers *)

\* The readers inside are finitely many.
LEMMA ReadingFinite == IsFiniteSet(Reading) /\ Cardinality(Reading) \in Nat
<1>1. Reading \in SUBSET Calls
  BY DEF Reading
<1> QED BY <1>1, CallsAssumption, FS_Subset, FS_CardinalityType

\* A queue holds at most as many calls as it is long.
LEMMA QueueBound ==
  ASSUME NEW S, NEW q \in Seq(S)
  PROVE  /\ IsFiniteSet({q[i] : i \in DOMAIN q})
         /\ Cardinality({q[i] : i \in DOMAIN q}) <= Len(q)
         /\ Cardinality({q[i] : i \in DOMAIN q}) \in Nat /\ Len(q) \in Nat
<1> DEFINE n == Len(q)
           T == {q[i] : i \in DOMAIN q}
<1>1. n \in Nat /\ DOMAIN q = 1..n /\ q \in [1..n -> S]
  OBVIOUS
<1>2. q \in [1..n -> T]
  BY <1>1
<1>3. q \in Surjection(1..n, T)
  BY <1>1, <1>2 DEF Surjection
<1>4. IsFiniteSet(1..n) /\ Cardinality(1..n) = n
  <2> HIDE DEF n
  <2>1. 1 \in Int /\ n \in Int
    BY <1>1
  <2>2. IsFiniteSet(1..n) /\ Cardinality(1..n) = IF 1 > n THEN 0 ELSE n - 1 + 1
    BY <2>1, FS_Interval
  <2> QED BY <1>1, <2>2
<1> HIDE DEF n, T
<1>5. IsFiniteSet(T) /\ Cardinality(T) <= Cardinality(1..n)
  BY <1>3, <1>4, FS_Surjection
<1>6. Cardinality(T) \in Nat
  BY <1>5, FS_CardinalityType
<1> QED BY <1>1, <1>4, <1>5, <1>6 DEF n, T

\* A count of those inside that grows by those who come in still suffices.
LEMMA CountMore ==
  ASSUME NEW R, NEW X, NEW N, IsFiniteSet(R), IsFiniteSet(X), N \subseteq R \cup X,
         NEW n \in Int, NEW m \in Int, n >= Cardinality(R), m >= n + Cardinality(X)
  PROVE  m >= Cardinality(N) /\ m \in Nat
<1> DEFINE more == R \cup X
<1>1. Cardinality(R) \in Nat /\ Cardinality(X) \in Nat
  BY FS_CardinalityType
<1>2. IsFiniteSet(more) /\ Cardinality(more) <= Cardinality(R) + Cardinality(X)
  <2>1. /\ IsFiniteSet(R \cup X) /\ IsFiniteSet(R \cap X)
        /\ Cardinality(R \cup X) = Cardinality(R) + Cardinality(X) - Cardinality(R \cap X)
    BY FS_Union, FS_Intersection
  <2>2. Cardinality(R \cap X) \in Nat
    BY <2>1, FS_CardinalityType
  <2> QED BY <1>1, <2>1, <2>2
<1>3. N \in SUBSET more
  OBVIOUS
<1> HIDE DEF more
<1>4. IsFiniteSet(N) /\ Cardinality(N) <= Cardinality(more)
  BY <1>2, <1>3, FS_Subset
<1>5. Cardinality(N) \in Nat /\ Cardinality(more) \in Nat
  BY <1>2, <1>4, FS_CardinalityType
<1> QED BY <1>1, <1>2, <1>4, <1>5

\* A count of those inside from which one who leaves is taken still suffices.
LEMMA CountLess ==
  ASSUME NEW R, NEW c \in R, NEW N, IsFiniteSet(R), N \subseteq R \ {c},
         NEW n \in Int, n >= Cardinality(R)
  PROVE  n - 1 >= Cardinality(N) /\ n - 1 \in Nat
<1> DEFINE less == R \ {c}
<1>1. /\ IsFiniteSet(less) /\ Cardinality(less) = Cardinality(R) - 1
      /\ Cardinality(R) \in Nat
  BY FS_RemoveElement, FS_CardinalityType
<1>2. N \in SUBSET less
  OBVIOUS
<1> HIDE DEF less
<1>3. IsFiniteSet(N) /\ Cardinality(N) <= Cardinality(less)
  BY <1>1, <1>2, FS_Subset
<1>4. Cardinality(N) \in Nat
  BY <1>3, FS_CardinalityType
<1> QED BY <1>1, <1>3, <1>4

\* When the readers that come in are counted, the count is not exceeded.
LEMMA CountGrows ==
  ASSUME RWTypeOK, RWTypeOK', ReadersCounted,
         NEW X, IsFiniteSet(X), Reading' \subseteq Reading \cup X,
         rw'.readers >= rw.readers + Cardinality(X)
  PROVE  ReadersCounted'
<1>1. rw.readers \in Int /\ rw'.readers \in Int
  BY DEF RWTypeOK
<1> QED BY <1>1, ReadingFinite, CountMore DEF ReadersCounted

\* A call that leaves takes one from the count.
LEMMA CountShrinks ==
  ASSUME RWTypeOK, RWTypeOK', ReadersCounted,
         NEW c \in Reading, Reading' \subseteq Reading \ {c},
         rw'.readers = rw.readers - 1
  PROVE  ReadersCounted'
<1>1. rw.readers \in Int /\ rw'.readers \in Int
  BY DEF RWTypeOK
<1> QED BY <1>1, ReadingFinite, CountLess DEF ReadersCounted

\* A step of the lock that lets at most the calls in X in, all of them waiting
\* readers, adds no other reader.
LEMMA Admitted ==
  ASSUME RWTypeOK, NEW c \in Calls, NEW s \in States, s # "reading", NEW X,
         at' = Resolve([at EXCEPT ![c] = s], X)
  PROVE  Reading' \subseteq Reading \cup {d \in X : [at EXCEPT ![c] = s][d] = "rwait"}
<1> DEFINE p == [at EXCEPT ![c] = s]
<1>1. at \in [Calls -> States]
  BY DEF RWTypeOK
<1>2. p \in [Calls -> States]
  BY <1>1
<1>3. \A d \in Calls : p[d] = "reading" => at[d] = "reading"
  BY <1>1
<1> HIDE DEF p
<1>4. at' = Resolve(p, X)
  BY DEF p
<1>5. \A d \in Calls : at'[d] = "reading" =>
         at[d] = "reading" \/ (d \in X /\ p[d] = "rwait")
  BY <1>2, <1>3, <1>4 DEF Resolve
<1> QED BY <1>5 DEF Reading, p

\* The same, when none of the calls in X is a waiting reader: nobody comes in.
LEMMA NobodyAdmitted ==
  ASSUME RWTypeOK, RWTypeOK', ReadersCounted,
         NEW c \in Calls, NEW s \in States, s # "reading", NEW X,
         at' = Resolve([at EXCEPT ![c] = s], X),
         \A d \in X : [at EXCEPT ![c] = s][d] # "rwait",
         rw'.readers >= rw.readers
  PROVE  ReadersCounted'
<1>1. Reading' \subseteq Reading \cup {}
  BY Admitted
<1>2. IsFiniteSet({}) /\ Cardinality({}) = 0
  BY FS_EmptySet
<1>3. rw'.readers >= rw.readers + Cardinality({})
  BY <1>2 DEF RWTypeOK
<1> QED BY <1>1, <1>2, <1>3, CountGrows

\* A queued writer is not a waiting reader.
LEMMA HeadWaits ==
  ASSUME QueueInv, rw.writerQueue # <<>>
  PROVE  Head(rw.writerQueue) \in Calls /\ at[Head(rw.writerQueue)] = "wwait"
BY RWFields, ShiftFacts DEF QueueInv, QueuedWritersWait

\* Every operation keeps the readers inside counted.
LEMMA CountInv ==
  ASSUME QueueInv, QueueInv', ReadersCounted,
         NEW c \in Calls, rlock(c) \/ wlock(c) \/ runlock(c) \/ wunlock(c)
  PROVE  ReadersCounted'
<1>0. RWTypeOK /\ RWTypeOK' /\ at \in [Calls -> States] /\ rw.readers \in Int
  BY DEF QueueInv, RWTypeOK
<1>1. CASE rlock(c)
  <2>1. CASE rw.writers # 0 \/ rw.writerQueue # <<>>
    <3>1. at' = Resolve([at EXCEPT ![c] = "rwait"], {}) /\ rw'.readers = rw.readers
      BY <1>0, <1>1, <2>1, RWFields DEF rlock, RLock, Result, Take
    <3>2. \A d \in Calls : at'[d] = "reading" => at[d] = "reading"
      BY <1>0, <3>1 DEF Resolve
    <3>3. Reading' \subseteq Reading \cup {}
      BY <3>2 DEF Reading
    <3>4. IsFiniteSet({}) /\ Cardinality({}) = 0
      BY FS_EmptySet
    <3>5. rw'.readers >= rw.readers + Cardinality({})
      BY <1>0, <3>1, <3>4
    <3> QED BY <1>0, <3>3, <3>4, <3>5, CountGrows
  <2>2. CASE ~(rw.writers # 0 \/ rw.writerQueue # <<>>)
    <3>1. at' = Resolve([at EXCEPT ![c] = "rwait"], {c}) /\ rw'.readers = rw.readers + 1
      BY <1>0, <1>1, <2>2, RWFields DEF rlock, RLock, Result, Take
    <3>2. "rwait" \in States
      BY DEF States
    <3>3. Reading' \subseteq Reading \cup {c}
      BY <1>0, <3>1, <3>2, Admitted
    <3>4. IsFiniteSet({c}) /\ Cardinality({c}) = 1
      BY FS_Singleton
    <3>5. rw'.readers >= rw.readers + Cardinality({c})
      BY <1>0, <3>1, <3>4
    <3> QED BY <1>0, <3>3, <3>4, <3>5, CountGrows
  <2> QED BY <2>1, <2>2
<1>2. CASE wlock(c)
  <2>1. at' = Resolve([at EXCEPT ![c] = "wwait"], WLock(rw, c).granted)
    BY <1>2 DEF wlock, Take
  <2>2. WLock(rw, c).granted \subseteq {c} /\ rw'.readers = rw.readers
    BY <1>0, <1>2, RWFields DEF wlock, WLock, Result, Take
  <2>3. \A d \in WLock(rw, c).granted : [at EXCEPT ![c] = "wwait"][d] # "rwait"
    BY <1>0, <2>2
  <2>4. "wwait" \in States /\ rw'.readers >= rw.readers
    BY <1>0, <2>2 DEF States
  <2> QED BY <1>0, <2>1, <2>3, <2>4, NobodyAdmitted, ZenonT(60)
<1>3. CASE runlock(c)
  <2> DEFINE X == RUnlock(rw).granted
  <2>1. at' = Resolve([at EXCEPT ![c] = "done"], X) /\ at[c] = "reading"
    BY <1>3 DEF runlock, Take
  <2>2. rw'.readers = rw.readers - 1
    BY <1>0, <1>3, RWFields DEF runlock, RUnlock, Result, Take
  <2>3. \A d \in X : d \in Calls /\ at[d] = "wwait"
    <3>1. CASE rw.writers = 0 /\ rw.writerQueue # <<>>
      BY <3>1, HeadWaits DEF RUnlock, Result
    <3>2. CASE ~(rw.writers = 0 /\ rw.writerQueue # <<>>)
      BY <3>2 DEF RUnlock, Result
    <3> QED BY <3>1, <3>2
  <2> HIDE DEF X
  <2>4. "done" \in States
    BY DEF States
  <2>5. Reading' \subseteq Reading
    <3>1. Reading' \subseteq Reading \cup {d \in X : [at EXCEPT ![c] = "done"][d] = "rwait"}
      BY <1>0, <2>1, <2>4, Admitted
    <3>2. \A d \in X : [at EXCEPT ![c] = "done"][d] # "rwait"
      BY <1>0, <2>3
    <3> QED BY <3>1, <3>2
  <2>6. at'[c] = "done"
    BY <1>0, <2>1, <2>3 DEF Resolve
  <2>7. c \in Reading /\ Reading' \subseteq Reading \ {c}
    BY <2>1, <2>5, <2>6 DEF Reading
  <2> QED BY <1>0, <2>2, <2>7, CountShrinks
<1>4. CASE wunlock(c)
  <2>0. "done" \in States
    BY DEF States
  <2>1. CASE rw.writerQueue # <<>>
    <3> DEFINE X == {Head(rw.writerQueue)}
    <3>1. at' = Resolve([at EXCEPT ![c] = "done"], X) /\ rw'.readers = rw.readers
      BY <1>0, <1>4, <2>1, RWFields DEF wunlock, WUnlock, Result, Take
    <3>2. \A d \in X : [at EXCEPT ![c] = "done"][d] # "rwait"
      BY <1>0, <2>1, HeadWaits
    <3>3. rw'.readers >= rw.readers
      BY <1>0, <3>1
    <3> HIDE DEF X
    <3> QED BY <1>0, <2>0, <3>1, <3>2, <3>3, NobodyAdmitted, ZenonT(60)
  <2>2. CASE rw.writerQueue = <<>>
    <3> DEFINE X == {rw.readerQueue[i] : i \in DOMAIN rw.readerQueue}
    <3>1. /\ at' = Resolve([at EXCEPT ![c] = "done"], X)
          /\ rw'.readers = rw.readers + Len(rw.readerQueue)
      BY <1>0, <1>4, <2>2, RWFields DEF wunlock, WUnlock, Result, Take
    <3>2. /\ IsFiniteSet(X) /\ Cardinality(X) <= Len(rw.readerQueue)
          /\ Cardinality(X) \in Nat /\ Len(rw.readerQueue) \in Nat
      BY <1>0, RWFields, QueueBound
    <3> HIDE DEF X
    <3>3. Reading' \subseteq Reading \cup X
      <4>1. Reading' \subseteq Reading \cup {d \in X : [at EXCEPT ![c] = "done"][d] = "rwait"}
        BY <1>0, <2>0, <3>1, Admitted
      <4> QED BY <4>1
    <3>4. rw'.readers >= rw.readers + Cardinality(X)
      BY <1>0, <3>1, <3>2
    <3> QED BY <1>0, <3>2, <3>3, <3>4, CountGrows
  <2> QED BY <2>1, <2>2
<1> QED BY <1>1, <1>2, <1>3, <1>4

\* AsyncRWLock: the inductive invariant holds in every reachable state, for
\* every finite set of rlock() and wlock() calls.
THEOREM RWInvHolds == RWSpec => []RWInv
<1>1. RWInit => RWInv
  <2> SUFFICES ASSUME RWInit PROVE RWInv
    OBVIOUS
  <2>1. Reading = {} /\ rw.readers = 0
    BY DEF RWInit, Reading, NewRWLock
  <2>2. Cardinality(Reading) = 0
    BY <2>1, FS_EmptySet
  <2> QED BY <2>1, <2>2, RWInitInv DEF RWInv, ReadersCounted
<1>2. RWInv /\ [RWNext]_rwVars => RWInv'
  <2> SUFFICES ASSUME RWInv, [RWNext]_rwVars PROVE RWInv'
    OBVIOUS
  <2>1. ASSUME NEW c \in Calls, rlock(c) \/ wlock(c) \/ runlock(c) \/ wunlock(c)
        PROVE  RWInv'
    <3>1. QueueInv'
      BY <2>1, RLockInv, WLockInv, RUnlockInv, WUnlockInv DEF RWInv
    <3> QED BY <2>1, <3>1, CountInv DEF RWInv
  <2>2. CASE UNCHANGED rwVars
    BY <2>2 DEF rwVars, RWInv, QueueInv, ReadersCounted, RWTypeOK, OneWriter, QueuedWritersWait,
                QueuedReadersRead, Reading, Writing
  <2> QED BY <2>1, <2>2 DEF RWNext
<1> QED BY <1>1, <1>2, PTL DEF RWSpec

\* AsyncRWLock: two wlock() calls never hold the lock together, whatever the
\* order in which readers and writers lock and unlock, and `writers` tells
\* truly whether one does.
THEOREM WritersExclude == RWSpec => []OneWriter
<1>1. RWInv => OneWriter
  BY DEF RWInv, QueueInv
<1> QED BY RWInvHolds, <1>1, PTL

\* AsyncRWLock: rlock() and wunlock() admit readers only when no writer is
\* inside and none queues.
THEOREM ReadersAlone == RWSpec => ReadersAdmittedAlone
<1> DEFINE Admits == \E c \in Calls : at[c] # "reading" /\ at'[c] = "reading"
           Alone  == /\ \A c \in Calls : at'[c] # "writing"
                     /\ rw'.writerQueue = <<>>
<1>1. RWInv /\ RWInv' /\ [RWNext]_rwVars => [Admits => Alone]_rwVars
  <2> SUFFICES ASSUME RWInv, RWInv', RWNext, Admits PROVE Alone
    BY DEF rwVars
  <2>0. RWTypeOK /\ at \in [Calls -> States]
    BY DEF RWInv, QueueInv, RWTypeOK
  <2>1. SUFFICES rw'.writers = 0 /\ rw'.writerQueue = <<>>
    BY <2>1 DEF RWInv, QueueInv, OneWriter, Writing
  <2>2. PICK c \in Calls : rlock(c) \/ wlock(c) \/ runlock(c) \/ wunlock(c)
    BY DEF RWNext
  <2>3. CASE rlock(c)
    <3>1. CASE rw.writers # 0 \/ rw.writerQueue # <<>>
      <4>1. at' = [d \in Calls |-> IF d = c THEN "rwait" ELSE at[d]]
        BY <2>0, <2>3, <3>1 DEF rlock, RLock, Result, Take, Resolve
      <4> QED BY <4>1
    <3>2. CASE ~(rw.writers # 0 \/ rw.writerQueue # <<>>)
      BY <2>0, <2>3, <3>2, RWFields DEF rlock, RLock, Result, Take
    <3> QED BY <3>1, <3>2
  <2>4. CASE wlock(c)
    <3>1. \A d \in Calls : at'[d] = "reading" => at[d] = "reading"
      <4>1. at' = Resolve([at EXCEPT ![c] = "wwait"], WLock(rw, c).granted) /\ at[c] = "idle"
        BY <2>4 DEF wlock, Take
      <4>2. WLock(rw, c).granted \subseteq {c}
        BY DEF WLock, Result
      <4> QED BY <2>0, <4>1, <4>2 DEF Resolve
    <3> QED BY <3>1
  <2>5. CASE runlock(c)
    <3>1. \A d \in Calls : at'[d] = "reading" => at[d] = "reading"
      <4>1. at' = Resolve([at EXCEPT ![c] = "done"], RUnlock(rw).granted)
        BY <2>5 DEF runlock, Take
      <4>2. \A d \in RUnlock(rw).granted : d \in Calls /\ at[d] = "wwait"
        <5>1. CASE rw.writers = 0 /\ rw.writerQueue # <<>>
          <6>1. RUnlock(rw).granted = {Head(rw.writerQueue)}
            BY <5>1 DEF RUnlock, Result
          <6> QED BY <2>0, <5>1, <6>1, RWFields, ShiftFacts DEF RWInv, QueueInv, QueuedWritersWait
        <5>2. CASE ~(rw.writers = 0 /\ rw.writerQueue # <<>>)
          BY <5>2 DEF RUnlock, Result
        <5> QED BY <5>1, <5>2
      <4> QED BY <2>0, <4>1, <4>2 DEF Resolve
    <3> QED BY <3>1
  <2>6. CASE wunlock(c)
    <3>1. CASE rw.writerQueue # <<>>
      <4>1. at' = Resolve([at EXCEPT ![c] = "done"], {Head(rw.writerQueue)})
        BY <2>6, <3>1 DEF wunlock, WUnlock, Result, Take
      <4>2. Head(rw.writerQueue) \in Calls /\ at[Head(rw.writerQueue)] = "wwait"
        BY <2>0, <3>1, RWFields, ShiftFacts DEF RWInv, QueueInv, QueuedWritersWait
      <4>3. \A d \in Calls : at'[d] = "reading" => at[d] = "reading"
        BY <2>0, <4>1, <4>2 DEF Resolve
      <4> QED BY <4>3
    <3>2. CASE rw.writerQueue = <<>>
      BY <2>0, <2>6, <3>2, RWFields DEF wunlock, WUnlock, Result, Take
    <3> QED BY <3>1, <3>2
  <2> QED BY <2>2, <2>3, <2>4, <2>5, <2>6
<1> QED BY RWInvHolds, <1>1, PTL DEF RWSpec, ReadersAdmittedAlone

\* AsyncRWLock: a wlock() call that does not have to wait finds neither a reader
\* nor a writer inside.
THEOREM ImmediateWriters == RWSpec => ImmediateWriterIsAlone
<1> DEFINE Enters == \A c \in Calls : at[c] = "idle" /\ at'[c] = "writing"
                        => Reading = {} /\ Writing = {}
<1>1. RWInv /\ [RWNext]_rwVars => [Enters]_rwVars
  <2> SUFFICES ASSUME RWInv, RWNext, NEW d \in Calls, at[d] = "idle", at'[d] = "writing"
               PROVE  Reading = {} /\ Writing = {}
    OBVIOUS
  <2>0. QueueInv /\ RWTypeOK /\ at \in [Calls -> States] /\ ReadersCounted
    BY DEF RWInv, QueueInv, RWTypeOK
  <2>1. PICK c \in Calls : rlock(c) \/ wlock(c) \/ runlock(c) \/ wunlock(c)
    BY DEF RWNext
  <2>2. d = c
    <3>1. PICK s \in States : \E X : at' = Resolve([at EXCEPT ![c] = s], X)
      BY <2>1 DEF rlock, wlock, runlock, wunlock, Take, States
    <3> QED BY <2>0, <3>1 DEF Resolve
  <2>3. wlock(c)
    <3>1. ~runlock(c) /\ ~wunlock(c)
      BY <2>2 DEF runlock, wunlock
    <3>2. ASSUME rlock(c) PROVE FALSE
      BY <2>0, <2>2, <3>2 DEF rlock, Take, Resolve
    <3> QED BY <2>1, <3>1, <3>2
  <2>4. rw.readers = 0 /\ rw.writers = 0
    <3>1. ASSUME rw.readers # 0 \/ rw.writers # 0 PROVE FALSE
      BY <2>0, <2>2, <2>3, <3>1 DEF wlock, WLock, Result, Take, Resolve
    <3> QED BY <3>1
  <2>5. Writing = {}
    BY <2>0, <2>4 DEF QueueInv, OneWriter
  <2>6. Reading = {}
    <3>1. Cardinality(Reading) = 0
      BY <2>0, <2>4, ReadingFinite DEF ReadersCounted
    <3> QED BY <3>1, ReadingFinite, FS_EmptySet
  <2> QED BY <2>5, <2>6
<1> QED BY RWInvHolds, <1>1, PTL DEF RWSpec, ImmediateWriterIsAlone

-----------------------------------------------------------------------------
(* The locks: the invariant *)

\* The marks that have the resync lock for reading.
Inside == {c \in Marks : calls[c].at \in {"ready", "kwait", "sent"}}

\* The marks that wait for each key, and the keys of the marks that hold one.
Awaited == [r \in Resources |-> {c \in Marks : calls[c].at = "kwait" /\ calls[c].resource = r}]
SentKeys == {r \in Resources : Sent(r) # {}}

\* What queues for reading are marks that were asked for, also the stale ones.
QueuedMarksAsked ==
  \A i \in DOMAIN resyncLock.readerQueue : calls[resyncLock.readerQueue[i]].at # "new"

\* The resync is the one writer: the lock's fields tell how far it is.
WriterIsResync ==
  /\ resync.at = "off" => resyncLock.writerQueue = <<>> /\ resyncLock.writers = 0
  /\ resync.at = "waiting" => resyncLock.writerQueue = <<Resyncer>> /\ resyncLock.writers = 0
  /\ resync.at = "writing" => resyncLock.writerQueue = <<>> /\ resyncLock.writers = 1

\* `readers` never undercounts.
InsideCounted == resyncLock.readers >= Cardinality(Inside)

KeysServe == Serves(lockMap, Resources, Marks, Awaited, SentKeys)

ReachInv == ReachTypeOK /\ QueuedMarksAsked /\ WriterIsResync /\ InsideCounted /\ KeysServe

LockType == [readerQueue : Seq(Marks), writerQueue : Seq({Resyncer}), readers : Nat, writers : {0, 1}]
CallStates == {"new", "rwait", "ready", "kwait", "sent", "done"}
CallType == [at : CallStates, resource : Resources, mark : BOOLEAN]
ResyncType == [at : {"off", "waiting", "writing"}, batch : Updates]

-----------------------------------------------------------------------------
(* The locks: what the operators do *)

\* Marks are natural numbers from 1, so that the resync is none of them.
LEMMA MarkFacts ==
  Resyncer \notin Marks /\ IsFiniteSet(Marks) /\ \A S \in SUBSET Marks : IsFiniteSet(S)
<1>1. MaxCalls \in Nat
  BY ReachabilityAssumption
<1>2. IsFiniteSet(Marks)
  BY <1>1, FS_Interval DEF Marks
<1>3. \A S \in SUBSET Marks : IsFiniteSet(S)
  BY <1>2, FS_Subset
<1>4. Resyncer \notin Marks
  BY <1>1 DEF Marks, Resyncer
<1> QED BY <1>2, <1>3, <1>4

\* The records of a call that has not begun, or is over.
LEMMA CallFacts ==
  /\ NewCall \in CallType /\ NewCall.at = "new"
  /\ DoneCall \in CallType /\ DoneCall.at = "done"
<1>1. (CHOOSE r \in Resources : TRUE) \in Resources
  BY ReachabilityAssumption
<1>2. PICK r \in Resources : r = CHOOSE x \in Resources : TRUE
  BY <1>1
<1>3. NewCall = [at |-> "new", resource |-> r, mark |-> FALSE]
  BY <1>2 DEF NewCall
<1>4. NewCall \in CallType /\ NewCall.at = "new"
  BY <1>3 DEF CallType, CallStates
<1>5. \A k \in CallType : [k EXCEPT !.at = "done"] \in CallType /\ [k EXCEPT !.at = "done"].at = "done"
  BY DEF CallType, CallStates
<1> QED BY <1>4, <1>5 DEF DoneCall

\* A call that moves on.
LEMMA MoveFacts ==
  ASSUME NEW k \in CallType, NEW s \in CallStates
  PROVE  /\ [k EXCEPT !.at = s] \in CallType
         /\ [k EXCEPT !.at = s].at = s
         /\ [k EXCEPT !.at = s].resource = k.resource
         /\ [k EXCEPT !.at = s].mark = k.mark
BY DEF CallType, CallStates

\* rlock(): queued, or inside when there is no writer.
LEMMA ReaderLocks ==
  ASSUME NEW lock \in LockType, NEW c \in Marks, NEW res, res = RLock(lock, c)
  PROVE  /\ res.lock \in LockType
         /\ res.lock.writerQueue = lock.writerQueue /\ res.lock.writers = lock.writers
         /\ \/ /\ res.granted = {} /\ res.lock.readers = lock.readers
               /\ res.lock.readerQueue = Append(lock.readerQueue, c)
            \/ /\ res.granted = {c} /\ res.lock.readers = lock.readers + 1
               /\ res.lock.readerQueue = lock.readerQueue
               /\ lock.writers = 0 /\ lock.writerQueue = <<>>
<1>1. CASE lock.writers # 0 \/ lock.writerQueue # <<>>
  <2>1. PICK t \in Seq(Marks) : t = Append(lock.readerQueue, c)
    BY PushFacts DEF LockType
  <2>2. res.lock = [lock EXCEPT !.readerQueue = t] /\ res.granted = {}
    BY <1>1, <2>1 DEF RLock, Result
  <2>3. /\ res.lock \in LockType /\ res.lock.readerQueue = t /\ res.lock.readers = lock.readers
        /\ res.lock.writerQueue = lock.writerQueue /\ res.lock.writers = lock.writers
    BY <2>2 DEF LockType
  <2> QED BY <2>1, <2>2, <2>3
<1>2. CASE ~(lock.writers # 0 \/ lock.writerQueue # <<>>)
  <2>1. res.lock = [lock EXCEPT !.readers = lock.readers + 1] /\ res.granted = {c}
    BY <1>2 DEF RLock, Result
  <2>2. /\ res.lock \in LockType /\ res.lock.readerQueue = lock.readerQueue
        /\ res.lock.readers = lock.readers + 1
        /\ res.lock.writerQueue = lock.writerQueue /\ res.lock.writers = lock.writers
    BY <2>1 DEF LockType
  <2> QED BY <1>2, <2>1, <2>2
<1> QED BY <1>1, <1>2

\* runlock(): the resync gets in when it waits.
LEMMA ReaderUnlocks ==
  ASSUME NEW lock \in LockType, lock.readers > 0, NEW res, res = RUnlock(lock),
         \/ lock.writerQueue = <<>>
         \/ lock.writerQueue = <<Resyncer>> /\ lock.writers = 0
  PROVE  /\ res.lock \in LockType /\ res.lock.writerQueue = <<>>
         /\ res.lock.readerQueue = lock.readerQueue
         /\ res.lock.readers = lock.readers - 1
         /\ \/ /\ lock.writerQueue = <<>> /\ res.granted = {}
               /\ res.lock.writers = lock.writers
            \/ /\ lock.writerQueue = <<Resyncer>> /\ res.granted = {Resyncer}
               /\ res.lock.writers = 1
<1>0. PICK n \in Nat : n = lock.readers - 1
  BY DEF LockType
<1>e. PICK e \in Seq({Resyncer}) : e = <<>>
  <2>1. <<>> \in Seq({Resyncer})
    OBVIOUS
  <2> QED BY <2>1, Zenon
<1>1. CASE lock.writerQueue = <<>>
  <2>1. /\ res.granted = {}
        /\ res.lock = [lock EXCEPT !.writerQueue = e, !.readers = n,
                                   !.writers = lock.writers]
    BY <1>0, <1>1, <1>e DEF RUnlock, Result, Shifted
  <2>2. /\ res.lock \in LockType /\ res.lock.writerQueue = e
        /\ res.lock.readerQueue = lock.readerQueue
        /\ res.lock.readers = n /\ res.lock.writers = lock.writers
    BY <2>1 DEF LockType
  <2> QED BY <1>0, <1>1, <1>e, <2>1, <2>2
<1>2. CASE lock.writerQueue = <<Resyncer>> /\ lock.writers = 0
  <2>1. lock.writerQueue # <<>> /\ Head(lock.writerQueue) = Resyncer /\ Tail(lock.writerQueue) = <<>>
    BY <1>2
  <2>2. /\ res.granted = {Resyncer}
        /\ res.lock = [lock EXCEPT !.writerQueue = e, !.readers = n,
                                   !.writers = 1]
    BY <1>0, <1>2, <1>e, <2>1 DEF RUnlock, Result, Shifted
  <2>3. /\ res.lock \in LockType /\ res.lock.writerQueue = e
        /\ res.lock.readerQueue = lock.readerQueue
        /\ res.lock.readers = n /\ res.lock.writers = 1
    BY <2>2 DEF LockType
  <2> QED BY <1>0, <1>2, <1>e, <2>2, <2>3
<1> QED BY <1>1, <1>2

\* wlock() when no resync is there: the resync waits for readers, or is in.
LEMMA WriterLocks ==
  ASSUME NEW lock \in LockType, lock.writerQueue = <<>>, lock.writers = 0,
         NEW res, res = WLock(lock, Resyncer)
  PROVE  /\ res.lock \in LockType
         /\ res.lock.readerQueue = lock.readerQueue /\ res.lock.readers = lock.readers
         /\ \/ /\ res.granted = {} /\ res.lock.writers = 0
               /\ res.lock.writerQueue = <<Resyncer>>
            \/ /\ res.granted = {Resyncer} /\ res.lock.writers = 1
               /\ res.lock.writerQueue = <<>> /\ lock.readers = 0
<1>1. CASE lock.readers # 0
  <2>1. Append(lock.writerQueue, Resyncer) = <<Resyncer>> /\ <<Resyncer>> \in Seq({Resyncer})
    OBVIOUS
  <2>2. res.lock = [lock EXCEPT !.writerQueue = <<Resyncer>>] /\ res.granted = {}
    BY <1>1, <2>1 DEF WLock, Result
  <2>3. /\ res.lock \in LockType /\ res.lock.writerQueue = <<Resyncer>>
        /\ res.lock.readerQueue = lock.readerQueue
        /\ res.lock.readers = lock.readers /\ res.lock.writers = lock.writers
    BY <2>1, <2>2 DEF LockType
  <2> QED BY <2>2, <2>3
<1>2. CASE lock.readers = 0
  <2>1. res.lock = [lock EXCEPT !.writers = 1] /\ res.granted = {Resyncer}
    BY <1>2 DEF WLock, Result
  <2>2. /\ res.lock \in LockType /\ res.lock.writerQueue = <<>>
        /\ res.lock.readerQueue = lock.readerQueue
        /\ res.lock.readers = lock.readers /\ res.lock.writers = 1
    BY <2>1 DEF LockType
  <2> QED BY <1>2, <2>1, <2>2
<1> QED BY <1>1, <1>2

\* wunlock(): all that queue for reading are counted and resolved.
LEMMA WriterUnlocks ==
  ASSUME NEW lock \in LockType, lock.writerQueue = <<>>, NEW res, res = WUnlock(lock)
  PROVE  /\ res.lock \in LockType
         /\ res.lock.writerQueue = <<>> /\ res.lock.writers = 0
         /\ res.lock.readerQueue = lock.readerQueue
         /\ res.lock.readers = lock.readers + Len(lock.readerQueue)
         /\ res.granted = {lock.readerQueue[i] : i \in DOMAIN lock.readerQueue}
<1>0. lock.readers \in Nat /\ Len(lock.readerQueue) \in Nat
  BY DEF LockType
<1>1. PICK n \in Nat : n = lock.readers + Len(lock.readerQueue)
  BY <1>0
<1>2. /\ res.lock = [lock EXCEPT !.writers = 0, !.readers = n]
      /\ res.granted = {lock.readerQueue[i] : i \in DOMAIN lock.readerQueue}
  BY <1>1 DEF WUnlock, Result
<1>3. /\ res.lock \in LockType /\ res.lock.writerQueue = <<>>
      /\ res.lock.readerQueue = lock.readerQueue
      /\ res.lock.readers = n /\ res.lock.writers = 0
  BY <1>2 DEF LockType
<1> QED BY <1>1, <1>2, <1>3

-----------------------------------------------------------------------------
(* The locks: what the steps do *)

\* The types that the invariant gives.
LEMMA Types ==
  ASSUME ReachTypeOK
  PROVE  /\ resyncLock \in LockType /\ calls \in [Marks -> CallType] /\ resync \in ResyncType
         /\ resyncLock.readers \in Nat /\ resyncLock.readerQueue \in Seq(Marks)
         /\ pending \in Updates /\ db \in [Resources -> BOOLEAN] /\ last \in [Resources -> BOOLEAN]
         /\ \A c \in Marks : calls[c].resource \in Resources /\ calls[c].mark \in BOOLEAN
<1>1. /\ resyncLock \in LockType /\ calls \in [Marks -> CallType] /\ resync \in ResyncType
      /\ pending \in Updates /\ db \in [Resources -> BOOLEAN] /\ last \in [Resources -> BOOLEAN]
  BY DEF ReachTypeOK, LockType, CallType, CallStates, ResyncType
<1> QED BY <1>1 DEF LockType, CallType

\* The parts of the invariant that a step has to restore.
LEMMA TypesAgain ==
  ASSUME ReachTypeOK, db' \in [Resources -> BOOLEAN], started' \in BOOLEAN,
         resyncLock' \in LockType, lockMap' = lockMap \/ KeysServe',
         calls' \in [Marks -> CallType], pending' \in Updates, resync' \in ResyncType,
         interval' \in {"unset", "on", "cleared"}, ticks' \in 0..MaxTicks,
         last' \in [Resources -> BOOLEAN], overlapped' \in BOOLEAN
  PROVE  ReachTypeOK'
<1>1. /\ DOMAIN lockMap' \subseteq Resources
      /\ lockMap' \in [DOMAIN lockMap' -> [acquired : BOOLEAN, queue : Seq(Marks)]]
  <2>1. CASE lockMap' = lockMap
    BY <2>1 DEF ReachTypeOK
  <2>2. CASE KeysServe'
    BY <2>2 DEF KeysServe, Serves
  <2> QED BY <2>1, <2>2
<1> QED BY <1>1 DEF ReachTypeOK, LockType, CallType, CallStates, ResyncType

\* A step of the resync lock that resolves nobody, or only the resync.
LEMMA TakeNobody ==
  ASSUME NEW res, NEW cs \in [Marks -> CallType], NEW rs, NEW pend,
         res.granted \subseteq {Resyncer}, TakeResyncLock(res, cs, rs, pend)
  PROVE  /\ resyncLock' = res.lock /\ calls' = cs
         /\ Resyncer \in res.granted => resync' = [at |-> "writing", batch |-> pend]
         /\ Resyncer \notin res.granted => resync' = rs
<1>1. \A c \in Marks : c \notin res.granted
  BY MarkFacts
<1>2. calls' = [c \in Marks |-> cs[c]]
  BY <1>1 DEF TakeResyncLock
<1> QED BY <1>2 DEF TakeResyncLock

\* Marks that neither get a key nor lose one leave the lock map in order.
LEMMA KeysKept ==
  ASSUME KeysServe, lockMap' = lockMap,
         \A d \in Marks :
           \/ calls'[d].at = calls[d].at /\ calls'[d].resource = calls[d].resource
           \/ calls'[d].at \notin {"kwait", "sent"} /\ calls[d].at \notin {"kwait", "sent"}
  PROVE  KeysServe'
<1>1. Awaited' = Awaited
  BY DEF Awaited
<1>2. \A r \in Resources : Sent(r)' = Sent(r)
  BY DEF Sent
<1>3. SentKeys' = SentKeys
  BY <1>2 DEF SentKeys
<1> QED BY <1>1, <1>3 DEF KeysServe

\* A mark is asked for: it queues for the resync lock, or is in.
MarkEffect(c, r, mark) ==
  /\ calls[c].at = "new"
  /\ calls' \in [Marks -> CallType]
  /\ calls'[c].resource = r /\ calls'[c].mark = mark
  /\ \A d \in Marks \ {c} : calls'[d] = calls[d]
  /\ resyncLock' \in LockType /\ resync' = resync
  /\ resyncLock'.writerQueue = resyncLock.writerQueue /\ resyncLock'.writers = resyncLock.writers
  /\ \/ /\ calls'[c].at = "rwait" /\ resyncLock'.readers = resyncLock.readers
        /\ resyncLock'.readerQueue = Append(resyncLock.readerQueue, c)
     \/ /\ calls'[c].at = "ready" /\ resyncLock'.readers = resyncLock.readers + 1
        /\ resyncLock'.readerQueue = resyncLock.readerQueue
        /\ resyncLock.writers = 0 /\ resyncLock.writerQueue = <<>>

LEMMA MarkStep ==
  ASSUME ReachTypeOK, NEW c \in Marks, NEW r \in Resources, NEW mark \in BOOLEAN, Mark(c, r, mark)
  PROVE  MarkEffect(c, r, mark)
<1>0. resyncLock \in LockType /\ calls \in [Marks -> CallType]
  BY Types
<1>1. PICK res : res = RLock(resyncLock, c)
  OBVIOUS
<1>2. PICK asked : asked = [at |-> "rwait", resource |-> r, mark |-> mark]
  OBVIOUS
<1>3. asked \in CallType /\ asked.at = "rwait" /\ asked.resource = r /\ asked.mark = mark
  BY <1>2 DEF CallType, CallStates
<1>4. PICK cs : cs = [calls EXCEPT ![c] = asked]
  OBVIOUS
<1>5. cs \in [Marks -> CallType] /\ cs[c] = asked /\ \A d \in Marks \ {c} : cs[d] = calls[d]
  BY <1>0, <1>3, <1>4
<1>6. calls[c].at = "new" /\ TakeResyncLock(res, cs, resync, pending)
  <2>1. calls[c].at = "new" <=> c >= c
    BY DEF Mark
  <2>2. c \in Nat
    BY ReachabilityAssumption DEF Marks
  <2> QED BY <1>1, <1>2, <1>4, <2>1, <2>2 DEF Mark
<1>7. /\ res.lock \in LockType
      /\ res.lock.writerQueue = resyncLock.writerQueue /\ res.lock.writers = resyncLock.writers
      /\ \/ /\ res.granted = {} /\ res.lock.readers = resyncLock.readers
            /\ res.lock.readerQueue = Append(resyncLock.readerQueue, c)
         \/ /\ res.granted = {c} /\ res.lock.readers = resyncLock.readers + 1
            /\ res.lock.readerQueue = resyncLock.readerQueue
            /\ resyncLock.writers = 0 /\ resyncLock.writerQueue = <<>>
  BY <1>0, <1>1, ReaderLocks
<1>8. Resyncer \notin res.granted /\ resyncLock' = res.lock /\ resync' = resync
  BY <1>6, <1>7, MarkFacts DEF TakeResyncLock
<1>9. CASE res.granted = {}
  <2>1. calls' = cs
    BY <1>5, <1>6, <1>9, TakeNobody
  <2>2. calls'[c].at = "rwait"
    BY <1>3, <1>5, <2>1
  <2> QED BY <1>3, <1>5, <1>6, <1>7, <1>8, <1>9, <2>1, <2>2 DEF MarkEffect
<1>10. CASE res.granted = {c}
  <2>1. PICK on : on = [asked EXCEPT !.at = "ready"]
    OBVIOUS
  <2>2. on \in CallType /\ on.at = "ready" /\ on.resource = r /\ on.mark = mark
    BY <1>3, <2>1, MoveFacts DEF CallStates
  <2>3. calls' = [d \in Marks |-> IF d = c THEN on ELSE cs[d]]
    <3>1. calls' = [d \in Marks |-> IF d \in res.granted /\ cs[d].at = "rwait"
                                      THEN [cs[d] EXCEPT !.at = "ready"] ELSE cs[d]]
      BY <1>6 DEF TakeResyncLock
    <3>2. \A d \in Marks : (d \in res.granted /\ cs[d].at = "rwait") <=> d = c
      BY <1>3, <1>5, <1>10
    <3> QED BY <1>5, <2>1, <3>1, <3>2
  <2>4. /\ calls' \in [Marks -> CallType] /\ calls'[c] = on
        /\ \A d \in Marks \ {c} : calls'[d] = calls[d]
    BY <1>5, <2>2, <2>3
  <2> QED BY <1>6, <1>7, <1>8, <1>10, <2>2, <2>4 DEF MarkEffect
<1> QED BY <1>7, <1>9, <1>10

\* markAsReachable and markAsUnreachable, up to the resync lock.
LEMMA MarkInv ==
  ASSUME ReachInv, NEW c \in Marks, NEW r \in Resources, NEW mark \in BOOLEAN, Mark(c, r, mark)
  PROVE  ReachInv'
<1>0. /\ ReachTypeOK /\ MarkEffect(c, r, mark)
      /\ lockMap' = lockMap /\ db' = db /\ started' = started /\ pending' = pending
      /\ interval' = interval /\ ticks' = ticks
      /\ last' = [last EXCEPT ![r] = mark] /\ overlapped' = (overlapped \/ Active # {})
  BY MarkStep DEF ReachInv, Mark
<1>1. /\ calls \in [Marks -> CallType] /\ resync \in ResyncType
      /\ resyncLock.readers \in Nat /\ resyncLock.readerQueue \in Seq(Marks)
      /\ last \in [Resources -> BOOLEAN]
  BY <1>0, Types
<1>2. /\ calls[c].at = "new" /\ calls'[c].at \in {"rwait", "ready"}
      /\ \A d \in Marks \ {c} : calls'[d] = calls[d]
  BY <1>0 DEF MarkEffect
<1>3. KeysServe'
  <2>1. calls'[c].at \notin {"kwait", "sent"} /\ calls[c].at \notin {"kwait", "sent"}
    BY <1>2
  <2> QED BY <1>0, <1>2, <2>1, KeysKept DEF ReachInv
<1>4. QueuedMarksAsked'
  <2> DEFINE q == resyncLock.readerQueue
  <2>1. \A i \in DOMAIN q : q[i] \in Marks /\ calls[q[i]].at # "new"
    BY <1>1 DEF ReachInv, QueuedMarksAsked
  <2>2. \A i \in DOMAIN q : q[i] \in Marks /\ calls'[q[i]].at # "new"
    BY <1>2, <2>1
  <2>3. CASE resyncLock'.readerQueue = q
    BY <2>2, <2>3 DEF QueuedMarksAsked
  <2>4. CASE resyncLock'.readerQueue = Append(q, c)
    <3>1. \A i \in DOMAIN Append(q, c) : Append(q, c)[i] = c \/ \E j \in DOMAIN q : Append(q, c)[i] = q[j]
      BY <1>1
    <3>2. \A i \in DOMAIN Append(q, c) : calls'[Append(q, c)[i]].at # "new"
      BY <1>2, <2>2, <3>1
    <3> QED BY <2>4, <3>2 DEF QueuedMarksAsked
  <2> QED BY <1>0, <2>3, <2>4 DEF MarkEffect
<1>5. WriterIsResync'
  BY <1>0 DEF ReachInv, WriterIsResync, MarkEffect
<1>6. InsideCounted'
  <2>1. IsFiniteSet(Inside) /\ resyncLock.readers >= Cardinality(Inside)
    BY MarkFacts DEF Inside, ReachInv, InsideCounted
  <2>2. CASE calls'[c].at = "rwait" /\ resyncLock'.readers = resyncLock.readers
    <3>1. Inside' = Inside
      BY <1>2, <2>2 DEF Inside
    <3>2. Cardinality(Inside') = Cardinality(Inside)
      BY <3>1, Zenon
    <3> QED BY <2>1, <2>2, <3>2 DEF InsideCounted
  <2>3. CASE calls'[c].at = "ready" /\ resyncLock'.readers = resyncLock.readers + 1
    <3>1. Inside' \subseteq Inside \cup {c}
      BY <1>2 DEF Inside
    <3>2. IsFiniteSet({c}) /\ Cardinality({c}) = 1
      BY FS_Singleton
    <3>3. /\ resyncLock.readers \in Int /\ resyncLock.readers + 1 \in Int
          /\ resyncLock.readers + 1 >= resyncLock.readers + Cardinality({c})
      BY <1>1, <3>2
    <3>4. resyncLock.readers + 1 >= Cardinality(Inside')
      BY <2>1, <3>1, <3>2, <3>3, CountMore
    <3> QED BY <2>3, <3>4 DEF InsideCounted
  <2> QED BY <1>0, <2>2, <2>3 DEF MarkEffect
<1>7. ReachTypeOK'
  <2>1. last' \in [Resources -> BOOLEAN]
    BY <1>0, <1>1
  <2>2. overlapped' \in BOOLEAN
    BY <1>0 DEF ReachTypeOK
  <2> QED BY <1>0, <1>1, <2>1, <2>2, TypesAgain DEF ReachTypeOK, MarkEffect
<1> QED BY <1>3, <1>4, <1>5, <1>6, <1>7 DEF ReachInv

\* The initial state satisfies the invariant.
LEMMA ReachInitInv == ReachInit => ReachInv
<1> SUFFICES ASSUME ReachInit PROVE ReachInv
  OBVIOUS
<1>1. PICK lock : lock = [readerQueue |-> <<>>, writerQueue |-> <<>>, readers |-> 0, writers |-> 0]
  OBVIOUS
<1>2. /\ lock.readerQueue = <<>> /\ lock.writerQueue = <<>> /\ lock.readers = 0 /\ lock.writers = 0
      /\ lock \in LockType /\ resyncLock = lock
  BY <1>1 DEF ReachInit, NewRWLock, LockType
<1>3. PICK k : k = NewCall
  OBVIOUS
<1>4. calls = [c \in Marks |-> k] /\ k \in CallType /\ k.at = "new"
  BY <1>3, CallFacts DEF ReachInit
<1>5. calls \in [Marks -> CallType] /\ \A c \in Marks : calls[c].at = "new"
  BY <1>4
<1>6. DOMAIN lockMap = {}
  BY DEF ReachInit, EmptyLockMap
<1>7. None \in Updates
  BY DEF None, Updates
<1>8. ReachTypeOK
  <2>1. lockMap \in [DOMAIN lockMap -> [acquired : BOOLEAN, queue : Seq(Marks)]]
    BY DEF ReachInit, EmptyLockMap
  <2>2. resync = [at |-> "off", batch |-> None] /\ pending = None
    BY DEF ReachInit, Off
  <2>3. resync \in ResyncType /\ pending \in Updates
    BY <1>7, <2>2 DEF ResyncType
  <2>4. /\ db \in [Resources -> BOOLEAN] /\ started \in BOOLEAN /\ interval = "unset"
        /\ last \in [Resources -> BOOLEAN] /\ overlapped \in BOOLEAN /\ ticks = 0
    BY DEF ReachInit
  <2>5. ticks \in 0..MaxTicks
    BY <2>4, ReachabilityAssumption
  <2> QED BY <1>2, <1>5, <1>6, <2>1, <2>3, <2>4, <2>5 DEF ReachTypeOK, LockType, CallType, CallStates, ResyncType
<1>9. QueuedMarksAsked
  BY <1>2 DEF QueuedMarksAsked
<1>10. WriterIsResync
  BY <1>2 DEF WriterIsResync, ReachInit, Off
<1>11. InsideCounted
  <2>1. Inside = {}
    BY <1>5 DEF Inside
  <2>2. Cardinality(Inside) = 0
    BY <2>1, FS_EmptySet
  <2> QED BY <1>2, <2>2 DEF InsideCounted
<1>12. KeysServe
  <2>1. Awaited = [r \in Resources |-> {}] /\ \A r \in Resources : LineOf(lockMap, r) = <<>>
    BY <1>5, <1>6 DEF Awaited, LineOf
  <2>2. WaitsInLine(<<>>, {})
    BY DEF WaitsInLine
  <2>3. \A r \in Resources : WaitsInLine(LineOf(lockMap, r), Awaited[r])
    BY <2>1, <2>2
  <2> QED BY <1>6, <1>8, <2>1, <2>3 DEF KeysServe, Serves, ReachTypeOK
<1> QED BY <1>8, <1>9, <1>10, <1>11, <1>12 DEF ReachInv

\* clear(), and steps that leave the locks and the calls alone.
LEMMA LocksUntouched ==
  ASSUME ReachInv, ReachTypeOK',
         UNCHANGED <<resyncLock, lockMap, calls, resync>>
  PROVE  ReachInv'
<1>1. Inside' = Inside /\ KeysServe'
  BY DEF ReachInv, Inside, KeysServe, Awaited, SentKeys, Sent
<1>2. Cardinality(Inside') = Cardinality(Inside)
  BY <1>1, Zenon
<1> QED BY <1>1, <1>2 DEF ReachInv, QueuedMarksAsked, WriterIsResync, InsideCounted

\* The mark that is next takes its resource's key, or queues for it.
LEMMA AcquireKeyInv ==
  ASSUME ReachInv, NEW c \in Marks, AcquireKey(c)
  PROVE  ReachInv'
<1>0. PICK r \in Resources : r = calls[c].resource
  BY Types DEF ReachInv
<1>1. PICK res : res = LockMapAcquire(lockMap, r, c)
  OBVIOUS
<1>2. PICK s : s = IF c \in res.granted THEN "sent" ELSE "kwait"
  OBVIOUS
<1>3. /\ calls[c].at = "ready" /\ lockMap' = res.lock
      /\ calls' = [calls EXCEPT ![c].at = s]
      /\ UNCHANGED <<db, started, resyncLock, pending, resync, interval, ticks, last, overlapped>>
  BY <1>0, <1>1, <1>2 DEF AcquireKey
<1>4. PICK k : k = [calls[c] EXCEPT !.at = s]
  OBVIOUS
<1>5. ReachTypeOK /\ calls \in [Marks -> CallType] /\ s \in CallStates
  BY <1>2, Types DEF ReachInv, CallStates
<1>6. k \in CallType /\ k.at = s /\ k.resource = r
  BY <1>0, <1>4, <1>5, MoveFacts
<1>7. /\ calls' \in [Marks -> CallType] /\ calls'[c] = k
      /\ \A d \in Marks \ {c} : calls'[d] = calls[d]
  BY <1>3, <1>4, <1>5, <1>6
<1>8. \/ res.granted = {c} /\ Serves(lockMap', Resources, Marks, Awaited, SentKeys \cup {r})
      \/ /\ res.granted = {}
         /\ Serves(lockMap', Resources, Marks, [Awaited EXCEPT ![r] = Awaited[r] \cup {c}], SentKeys)
  <2>1. c \notin Awaited[r]
    BY <1>3 DEF Awaited
  <2> QED BY <1>1, <1>3, <2>1, ServesAcquire DEF ReachInv, KeysServe
<1>9. KeysServe'
  <2>1. CASE res.granted = {c} /\ Serves(lockMap', Resources, Marks, Awaited, SentKeys \cup {r})
    <3>1. s = "sent"
      BY <1>2, <2>1
    <3>2. \A d \in Marks : calls'[d].at = "kwait" <=> calls[d].at = "kwait"
      BY <1>3, <1>6, <1>7, <3>1
    <3>3. \A d \in Marks : calls'[d].resource = calls[d].resource
      BY <1>0, <1>6, <1>7
    <3>4. Awaited' = Awaited
      BY <3>2, <3>3 DEF Awaited
    <3>5. c \in Sent(r)' /\ \A x \in Resources : Sent(x) \subseteq Sent(x)'
      BY <1>3, <1>6, <1>7, <3>1 DEF Sent
    <3>6. SentKeys \cup {r} \subseteq SentKeys'
      BY <3>5 DEF SentKeys
    <3> QED BY <2>1, <3>4, <3>6 DEF KeysServe, Serves
  <2>2. CASE /\ res.granted = {}
             /\ Serves(lockMap', Resources, Marks, [Awaited EXCEPT ![r] = Awaited[r] \cup {c}], SentKeys)
    <3>1. s = "kwait"
      BY <1>2, <2>2
    <3>2. \A d \in Marks : calls'[d].at = "sent" <=> calls[d].at = "sent"
      BY <1>3, <1>6, <1>7, <3>1
    <3>3. \A d \in Marks : calls'[d].resource = calls[d].resource
      BY <1>0, <1>6, <1>7
    <3>4. \A x \in Resources : Sent(x)' = Sent(x)
      BY <3>2, <3>3 DEF Sent
    <3>5. SentKeys' = SentKeys
      BY <3>4 DEF SentKeys
    <3>6. \A d \in Marks : calls'[d].at = "kwait" <=> calls[d].at = "kwait" \/ d = c
      BY <1>6, <1>7, <3>1
    <3>7. Awaited' = [Awaited EXCEPT ![r] = Awaited[r] \cup {c}]
      BY <1>0, <3>3, <3>6 DEF Awaited
    <3> QED BY <2>2, <3>5, <3>7 DEF KeysServe
  <2> QED BY <1>8, <2>1, <2>2
<1>10. QueuedMarksAsked'
  <2>1. \A i \in DOMAIN resyncLock.readerQueue :
          resyncLock.readerQueue[i] \in Marks /\ calls[resyncLock.readerQueue[i]].at # "new"
    BY <1>5, Types DEF ReachInv, QueuedMarksAsked
  <2>2. s # "new"
    BY <1>2
  <2> QED BY <1>3, <1>6, <1>7, <2>1, <2>2 DEF QueuedMarksAsked
<1>11. InsideCounted'
  <2>1. s \in {"sent", "kwait"}
    BY <1>2
  <2>2. Inside' = Inside
    BY <1>3, <1>6, <1>7, <2>1 DEF Inside
  <2>3. Cardinality(Inside') = Cardinality(Inside)
    BY <2>2, Zenon
  <2> QED BY <1>3, <2>3 DEF ReachInv, InsideCounted
<1>12. WriterIsResync'
  BY <1>3 DEF ReachInv, WriterIsResync
<1>13. ReachTypeOK'
  <2>1. resyncLock' \in LockType /\ resync' \in ResyncType /\ pending' \in Updates
    BY <1>3, <1>5, Types
  <2> QED BY <1>3, <1>5, <1>7, <1>9, <2>1, TypesAgain DEF ReachTypeOK
<1> QED BY <1>9, <1>10, <1>11, <1>12, <1>13 DEF ReachInv

\* A batch is over: its mark is done, the key goes to a mark that waits for
\* it, and the resync gets in when it waits.
UnlockEffect(c, pend) ==
  /\ calls' \in [Marks -> CallType]
  /\ calls'[c].at = "done"
  /\ \A d \in Marks \ {c} :
       /\ calls'[d].resource = calls[d].resource /\ calls'[d].mark = calls[d].mark
       /\ calls'[d].at = calls[d].at \/ (calls[d].at = "kwait" /\ calls'[d].at = "sent")
  /\ resyncLock' \in LockType /\ resyncLock'.writerQueue = <<>>
  /\ resyncLock'.readerQueue = resyncLock.readerQueue
  /\ resyncLock'.readers = resyncLock.readers - 1
  /\ \/ /\ resync.at # "waiting"
        /\ resync' = resync /\ resyncLock'.writers = resyncLock.writers
     \/ /\ resync.at = "waiting"
        /\ resync' = [at |-> "writing", batch |-> pend] /\ resyncLock'.writers = 1
  /\ KeysServe'

LEMMA UnlockStep ==
  ASSUME ReachInv, NEW c \in Marks, NEW pend, calls[c].at = "sent", UnlockBoth(c, pend)
  PROVE  UnlockEffect(c, pend)
<1>0. PICK r \in Resources : r = calls[c].resource
  BY Types DEF ReachInv
<1>1. PICK res : res = LockMapRelease(lockMap, r)
  OBVIOUS
<1>2. PICK cs : cs = [d \in Marks |-> IF d = c THEN DoneCall
                                      ELSE IF d \in res.granted THEN [calls[d] EXCEPT !.at = "sent"]
                                      ELSE calls[d]]
  OBVIOUS
<1>3. PICK un : un = RUnlock(resyncLock)
  OBVIOUS
<1>4. lockMap' = res.lock /\ TakeResyncLock(un, cs, resync, pend)
  BY <1>0, <1>1, <1>2, <1>3 DEF UnlockBoth
<1>5. /\ ReachTypeOK /\ WriterIsResync /\ KeysServe /\ calls \in [Marks -> CallType]
      /\ resyncLock \in LockType /\ resyncLock.readers \in Nat
  BY Types DEF ReachInv
<1>6. resyncLock.readers > 0
  <2>1. c \in Inside /\ IsFiniteSet(Inside) /\ resyncLock.readers >= Cardinality(Inside)
    BY MarkFacts DEF Inside, ReachInv, InsideCounted
  <2>2. resyncLock.readers - 1 >= Cardinality({}) /\ resyncLock.readers - 1 \in Nat
    <3>1. {} \subseteq Inside \ {c} /\ resyncLock.readers \in Int
      BY <1>5
    <3> QED BY <2>1, <3>1, CountLess
  <2> QED BY <1>5, <2>2
<1>7. resync.at \in {"off", "waiting", "writing"}
  BY <1>5 DEF ReachTypeOK
<1>8. \/ resyncLock.writerQueue = <<>>
      \/ resyncLock.writerQueue = <<Resyncer>> /\ resyncLock.writers = 0
  BY <1>5, <1>7 DEF WriterIsResync
<1>9. /\ un.lock \in LockType /\ un.lock.writerQueue = <<>>
      /\ un.lock.readerQueue = resyncLock.readerQueue
      /\ un.lock.readers = resyncLock.readers - 1
      /\ \/ /\ resyncLock.writerQueue = <<>> /\ un.granted = {}
            /\ un.lock.writers = resyncLock.writers
         \/ /\ resyncLock.writerQueue = <<Resyncer>> /\ un.granted = {Resyncer}
            /\ un.lock.writers = 1
  BY <1>3, <1>5, <1>6, <1>8, ReaderUnlocks
<1>10. resyncLock.writerQueue = <<Resyncer>> <=> resync.at = "waiting"
  <2>1. <<Resyncer>> # <<>>
    OBVIOUS
  <2> QED BY <1>5, <1>7, <2>1 DEF WriterIsResync
<1>11. \/ res.granted = {} /\ Serves(lockMap', Resources, Marks, Awaited, SentKeys \ {r})
       \/ \E d \in Awaited[r] :
            /\ res.granted = {d}
            /\ Serves(lockMap', Resources, Marks, [Awaited EXCEPT ![r] = Awaited[r] \ {d}], SentKeys)
  BY <1>1, <1>4, <1>5, ServesRelease DEF KeysServe
<1>12. cs \in [Marks -> CallType] /\ cs[c] = DoneCall
  <2>1. \A d \in Marks : [calls[d] EXCEPT !.at = "sent"] \in CallType
    BY <1>5, MoveFacts DEF CallStates
  <2> QED BY <1>2, <1>5, <2>1, CallFacts
<1>13. /\ resyncLock' = un.lock /\ calls' = cs
       /\ Resyncer \in un.granted => resync' = [at |-> "writing", batch |-> pend]
       /\ Resyncer \notin un.granted => resync' = resync
  <2>1. un.granted \subseteq {Resyncer}
    BY <1>9
  <2> QED BY <1>4, <1>12, <2>1, TakeNobody
<1>14. \/ resync.at # "waiting" /\ resync' = resync /\ resyncLock'.writers = resyncLock.writers
       \/ /\ resync.at = "waiting"
          /\ resync' = [at |-> "writing", batch |-> pend] /\ resyncLock'.writers = 1
  <2>1. <<Resyncer>> # <<>>
    OBVIOUS
  <2>2. CASE resyncLock.writerQueue = <<Resyncer>>
    BY <1>9, <1>10, <1>13, <2>1, <2>2
  <2>3. CASE resyncLock.writerQueue = <<>>
    <3>1. un.granted = {} /\ un.lock.writers = resyncLock.writers
      BY <1>9, <2>1, <2>3
    <3>2. Resyncer \notin un.granted
      BY <3>1
    <3> QED BY <1>10, <1>13, <2>1, <2>3, <3>1, <3>2
  <2> QED BY <1>8, <2>2, <2>3
<1>15. calls'[c].at = "done" /\ calls' \in [Marks -> CallType]
  BY <1>12, <1>13, CallFacts
<1>16. CASE res.granted = {} /\ Serves(lockMap', Resources, Marks, Awaited, SentKeys \ {r})
  <2>1. \A d \in Marks \ {c} : calls'[d] = calls[d]
    BY <1>2, <1>13, <1>16
  <2>2. Awaited' = Awaited
    <3>1. \A d \in Marks, x \in Resources : calls'[d].at = "kwait" /\ calls'[d].resource = x
                            <=> calls[d].at = "kwait" /\ calls[d].resource = x
      BY <1>15, <2>1
    <3> QED BY <3>1 DEF Awaited
  <2>3. \A x \in Resources \ {r} : Sent(x)' = Sent(x)
    BY <1>0, <1>15, <2>1 DEF Sent
  <2>4. SentKeys \ {r} \subseteq SentKeys'
    BY <2>3 DEF SentKeys
  <2>5. KeysServe'
    BY <1>16, <2>2, <2>4 DEF KeysServe, Serves
  <2> QED BY <1>9, <1>13, <1>14, <1>15, <2>1, <2>5 DEF UnlockEffect
<1>17. ASSUME NEW d \in Awaited[r], res.granted = {d},
              Serves(lockMap', Resources, Marks, [Awaited EXCEPT ![r] = Awaited[r] \ {d}], SentKeys)
       PROVE  UnlockEffect(c, pend)
  <2>1. d \in Marks /\ calls[d].at = "kwait" /\ calls[d].resource = r /\ d # c
    BY DEF Awaited
  <2>2. PICK k : k = [calls[d] EXCEPT !.at = "sent"]
    OBVIOUS
  <2>3. k.at = "sent" /\ k.resource = r /\ k.mark = calls[d].mark
    BY <1>5, <2>1, <2>2, MoveFacts DEF CallStates
  <2>4. calls'[d] = k /\ \A e \in Marks \ {c, d} : calls'[e] = calls[e]
    BY <1>2, <1>13, <1>17, <2>1, <2>2
  <2>5. \A e \in Marks, x \in Resources : calls'[e].at = "kwait" /\ calls'[e].resource = x
                         <=> calls[e].at = "kwait" /\ calls[e].resource = x /\ e # d
    BY <1>15, <2>1, <2>3, <2>4
  <2>6. Awaited' = [Awaited EXCEPT ![r] = Awaited[r] \ {d}]
    <3>1. \A x \in Resources : Awaited'[x] = IF x = r THEN Awaited[r] \ {d} ELSE Awaited[x]
      BY <2>1, <2>5 DEF Awaited
    <3>2. Awaited \in [Resources -> SUBSET Marks] /\ Awaited' \in [Resources -> SUBSET Marks]
      BY DEF Awaited
    <3> QED BY <3>1, <3>2
  <2>7. d \in Sent(r)' /\ \A x \in Resources \ {r} : Sent(x)' = Sent(x)
    BY <1>0, <1>15, <2>1, <2>3, <2>4 DEF Sent
  <2>8. SentKeys \subseteq SentKeys'
    BY <2>7 DEF SentKeys
  <2>9. KeysServe'
    BY <1>17, <2>6, <2>8 DEF KeysServe, Serves
  <2>10. \A e \in Marks \ {c} :
           /\ calls'[e].resource = calls[e].resource /\ calls'[e].mark = calls[e].mark
           /\ calls'[e].at = calls[e].at \/ (calls[e].at = "kwait" /\ calls'[e].at = "sent")
    BY <2>1, <2>3, <2>4
  <2> QED BY <1>9, <1>13, <1>14, <1>15, <2>9, <2>10 DEF UnlockEffect
<1> QED BY <1>11, <1>16, <1>17

\* In both outcomes of a batch.
LEMMA UnlockInv ==
  ASSUME ReachInv, NEW c \in Marks, calls[c].at = "sent", UnlockBoth(c, pending'),
         pending' \in Updates, db' \in [Resources -> BOOLEAN],
         interval' \in {"unset", "on", "cleared"}, UNCHANGED <<started, ticks, last, overlapped>>
  PROVE  ReachInv'
<1>0. UnlockEffect(c, pending')
  BY UnlockStep
<1>1. ReachTypeOK /\ calls \in [Marks -> CallType] /\ resync \in ResyncType /\ resyncLock.readers \in Nat
  BY Types DEF ReachInv
<1>2. QueuedMarksAsked'
  <2>1. \A i \in DOMAIN resyncLock.readerQueue :
          resyncLock.readerQueue[i] \in Marks /\ calls[resyncLock.readerQueue[i]].at # "new"
    BY <1>1, Types DEF ReachInv, QueuedMarksAsked
  <2>2. \A d \in Marks : calls[d].at # "new" => calls'[d].at # "new"
    BY <1>0 DEF UnlockEffect
  <2> QED BY <1>0, <2>1, <2>2 DEF UnlockEffect, QueuedMarksAsked
<1>3. InsideCounted'
  <2>1. c \in Inside /\ IsFiniteSet(Inside) /\ resyncLock.readers >= Cardinality(Inside)
    BY MarkFacts DEF Inside, ReachInv, InsideCounted
  <2>2. Inside' \subseteq Inside \ {c}
    BY <1>0 DEF UnlockEffect, Inside
  <2>3. resyncLock.readers - 1 >= Cardinality(Inside')
    BY <1>1, <2>1, <2>2, CountLess
  <2> QED BY <1>0, <2>3 DEF UnlockEffect, InsideCounted
<1>4. WriterIsResync'
  <2>1. CASE resync.at = "waiting"
    <3>1. resync'.at = "writing" /\ resyncLock'.writers = 1 /\ resyncLock'.writerQueue = <<>>
      BY <1>0, <2>1 DEF UnlockEffect
    <3> QED BY <3>1 DEF WriterIsResync
  <2>2. CASE resync.at # "waiting"
    BY <1>0, <2>2 DEF ReachInv, WriterIsResync, UnlockEffect
  <2> QED BY <2>1, <2>2
<1>5. resync' \in ResyncType
  BY <1>0, <1>1 DEF UnlockEffect, ResyncType
<1>6. ReachTypeOK'
  BY <1>0, <1>1, <1>5, TypesAgain DEF UnlockEffect, ReachTypeOK
<1> QED BY <1>0, <1>2, <1>3, <1>4, <1>6 DEF ReachInv, UnlockEffect

\* Forgetting and remembering an update leaves updates.
LEMMA UpdatesClosed ==
  ASSUME NEW p \in Updates, NEW r \in Resources, NEW b \in BOOLEAN
  PROVE  /\ Restrict(p, DOMAIN p \ {r}) \in Updates
         /\ [x \in DOMAIN p \cup {r} |-> IF x = r THEN b ELSE p[x]] \in Updates
<1>1. PICK S \in SUBSET Resources : p \in [S -> BOOLEAN]
  BY DEF Updates
<1>2. DOMAIN p \ {r} \in SUBSET Resources /\ DOMAIN p \cup {r} \in SUBSET Resources
  BY <1>1
<1>3. Restrict(p, DOMAIN p \ {r}) \in [DOMAIN p \ {r} -> BOOLEAN]
  BY <1>1 DEF Restrict
<1>4. [x \in DOMAIN p \cup {r} |-> IF x = r THEN b ELSE p[x]] \in [DOMAIN p \cup {r} -> BOOLEAN]
  BY <1>1
<1> QED BY <1>2, <1>3, <1>4 DEF Updates

\* Writing one record, or a batch, leaves records.
LEMMA RecordsKept ==
  ASSUME NEW d \in [Resources -> BOOLEAN], NEW r \in Resources, NEW b \in BOOLEAN, NEW p \in Updates
  PROVE  [d EXCEPT ![r] = b] \in [Resources -> BOOLEAN] /\ Overlay(d, p) \in [Resources -> BOOLEAN]
<1>1. PICK S \in SUBSET Resources : p \in [S -> BOOLEAN]
  BY DEF Updates
<1> QED BY <1>1 DEF Overlay

\* A batch succeeds.
LEMMA MarkSucceedsInv ==
  ASSUME ReachInv, NEW c \in Marks, MarkSucceeds(c)
  PROVE  ReachInv'
<1>0. PICK r, b : r = calls[c].resource /\ b = calls[c].mark
  OBVIOUS
<1>1. /\ r \in Resources /\ b \in BOOLEAN /\ pending \in Updates
      /\ db \in [Resources -> BOOLEAN] /\ interval \in {"unset", "on", "cleared"}
  BY <1>0, Types DEF ReachInv, ReachTypeOK
<1>2. /\ calls[c].at = "sent" /\ pending' = Restrict(pending, DOMAIN pending \ {r})
      /\ UnlockBoth(c, pending') /\ db' = [db EXCEPT ![r] = b]
      /\ UNCHANGED <<started, interval, ticks, last, overlapped>>
  BY <1>0 DEF MarkSucceeds
<1>3. pending' \in Updates
  BY <1>1, <1>2, UpdatesClosed
<1>4. db' \in [Resources -> BOOLEAN]
  BY <1>1, <1>2, RecordsKept
<1> QED BY <1>1, <1>2, <1>3, <1>4, UnlockInv

\* A batch fails.
LEMMA MarkFailsInv ==
  ASSUME ReachInv, NEW c \in Marks, NEW applied \in BOOLEAN, MarkFails(c, applied)
  PROVE  ReachInv'
<1>0. PICK r, b : r = calls[c].resource /\ b = calls[c].mark
  OBVIOUS
<1>1. /\ r \in Resources /\ b \in BOOLEAN /\ pending \in Updates
      /\ db \in [Resources -> BOOLEAN] /\ interval \in {"unset", "on", "cleared"}
  BY <1>0, Types DEF ReachInv, ReachTypeOK
<1>2. /\ calls[c].at = "sent"
      /\ pending' = [x \in DOMAIN pending \cup {r} |-> IF x = r THEN b ELSE pending[x]]
      /\ UnlockBoth(c, pending') /\ (db' = [db EXCEPT ![r] = b] \/ db' = db)
      /\ interval' \in {interval, "on"} /\ UNCHANGED <<started, ticks, last, overlapped>>
  BY <1>0 DEF MarkFails
<1>3. pending' \in Updates
  BY <1>1, <1>2, UpdatesClosed
<1>4. db' \in [Resources -> BOOLEAN]
  BY <1>1, <1>2, RecordsKept
<1>5. interval' \in {"unset", "on", "cleared"}
  BY <1>1, <1>2
<1> QED BY <1>2, <1>3, <1>4, <1>5, UnlockInv

\* The timer's callback: the resync waits for the marks that are in, or is in
\* at once when there are none.
ResyncEffect ==
  /\ calls' = calls /\ lockMap' = lockMap /\ resync.at = "off"
  /\ resyncLock' \in LockType
  /\ resyncLock'.readerQueue = resyncLock.readerQueue /\ resyncLock'.readers = resyncLock.readers
  /\ \/ /\ resync' = [Off EXCEPT !.at = "waiting"] /\ resyncLock'.writers = 0
        /\ resyncLock'.writerQueue = <<Resyncer>>
     \/ /\ resync' = [at |-> "writing", batch |-> pending] /\ resyncLock'.writers = 1
        /\ resyncLock'.writerQueue = <<>> /\ Inside = {}

LEMMA ResyncStep ==
  ASSUME ReachInv, Resync
  PROVE  ResyncEffect
<1>0. PICK res : res = WLock(resyncLock, Resyncer)
  OBVIOUS
<1>1. PICK rs : rs = [Off EXCEPT !.at = "waiting"]
  OBVIOUS
<1>2. /\ TakeResyncLock(res, calls, rs, pending) /\ resync.at = "off" /\ lockMap' = lockMap
  BY <1>0, <1>1 DEF Resync
<1>3. /\ calls \in [Marks -> CallType] /\ resyncLock \in LockType /\ resyncLock.readers \in Nat
      /\ resyncLock.writerQueue = <<>> /\ resyncLock.writers = 0
  BY <1>2, Types DEF ReachInv, WriterIsResync
<1>4. /\ res.lock \in LockType
      /\ res.lock.readerQueue = resyncLock.readerQueue /\ res.lock.readers = resyncLock.readers
      /\ \/ /\ res.granted = {} /\ res.lock.writers = 0
            /\ res.lock.writerQueue = <<Resyncer>>
         \/ /\ res.granted = {Resyncer} /\ res.lock.writers = 1
            /\ res.lock.writerQueue = <<>> /\ resyncLock.readers = 0
  BY <1>0, <1>3, WriterLocks
<1>5. /\ resyncLock' = res.lock /\ calls' = calls
      /\ Resyncer \in res.granted => resync' = [at |-> "writing", batch |-> pending]
      /\ Resyncer \notin res.granted => resync' = rs
  <2>1. res.granted \subseteq {Resyncer}
    BY <1>4
  <2> QED BY <1>2, <1>3, <2>1, TakeNobody
<1>6. CASE res.granted = {} /\ res.lock.writers = 0 /\ res.lock.writerQueue = <<Resyncer>>
  <2>1. resync' = rs
    BY <1>5, <1>6
  <2> QED BY <1>1, <1>2, <1>4, <1>5, <1>6, <2>1 DEF ResyncEffect
<1>7. CASE /\ res.granted = {Resyncer} /\ res.lock.writers = 1
           /\ res.lock.writerQueue = <<>> /\ resyncLock.readers = 0
  <2>1. Inside = {}
    <3>1. IsFiniteSet(Inside) /\ resyncLock.readers >= Cardinality(Inside)
      BY MarkFacts DEF Inside, ReachInv, InsideCounted
    <3>2. Cardinality(Inside) \in Nat
      BY <3>1, FS_CardinalityType
    <3>3. Cardinality(Inside) = 0
      BY <1>7, <3>1, <3>2
    <3> QED BY <3>1, <3>3, FS_EmptySet
  <2>2. resync' = [at |-> "writing", batch |-> pending]
    BY <1>5, <1>7
  <2> QED BY <1>2, <1>4, <1>5, <1>7, <2>1, <2>2 DEF ResyncEffect
<1> QED BY <1>4, <1>6, <1>7

LEMMA ResyncInv ==
  ASSUME ReachInv, Resync
  PROVE  ReachInv'
<1>0. /\ ResyncEffect /\ ticks < MaxTicks /\ ticks' = ticks + 1
      /\ UNCHANGED <<db, started, lockMap, pending, interval, last, overlapped>>
  BY ResyncStep DEF Resync
<1>1. ReachTypeOK /\ pending \in Updates
  BY Types DEF ReachInv
<1>2. KeysServe'
  <2>1. calls' = calls
    BY <1>0 DEF ResyncEffect
  <2> QED BY <1>0, <2>1, KeysKept DEF ReachInv
<1>3. InsideCounted'
  <2>1. Inside' = Inside
    BY <1>0 DEF ResyncEffect, Inside
  <2>2. Cardinality(Inside') = Cardinality(Inside)
    BY <2>1, Zenon
  <2> QED BY <1>0, <2>2 DEF ReachInv, InsideCounted, ResyncEffect
<1>4. QueuedMarksAsked'
  BY <1>0 DEF ResyncEffect, ReachInv, QueuedMarksAsked
<1>5. resync' \in ResyncType /\ resync'.at \in {"waiting", "writing"} /\ WriterIsResync'
  <2>1. None \in Updates
    BY DEF None, Updates
  <2>2. PICK n \in Updates : n = None
    BY <2>1
  <2>3. [Off EXCEPT !.at = "waiting"] = [at |-> "waiting", batch |-> n]
    BY <2>2 DEF Off
  <2> QED BY <1>0, <1>1, <2>3 DEF ResyncEffect, ResyncType, WriterIsResync
<1>6. ticks' \in 0..MaxTicks
  BY <1>0, <1>1, ReachabilityAssumption DEF ReachTypeOK
<1>7. ReachTypeOK'
  <2>1. calls' \in [Marks -> CallType] /\ resyncLock' \in LockType
    BY <1>0, Types DEF ResyncEffect, ReachInv
  <2> QED BY <1>0, <1>1, <1>2, <1>5, <1>6, <2>1, TypesAgain DEF ReachTypeOK
<1> QED BY <1>2, <1>3, <1>4, <1>5, <1>7 DEF ReachInv

\* The resync is over: every mark that queues for reading is resolved, and
\* counted, again if it was before.
ResyncOver ==
  /\ calls' \in [Marks -> CallType] /\ lockMap' = lockMap /\ resync' = Off
  /\ \A d \in Marks :
       /\ calls'[d].resource = calls[d].resource /\ calls'[d].mark = calls[d].mark
       /\ calls'[d].at = calls[d].at \/ (calls[d].at = "rwait" /\ calls'[d].at = "ready")
       /\ calls'[d].at # calls[d].at =>
            d \in {resyncLock.readerQueue[i] : i \in DOMAIN resyncLock.readerQueue}
  /\ resyncLock' \in LockType
  /\ resyncLock'.readerQueue = resyncLock.readerQueue
  /\ resyncLock'.readers = resyncLock.readers + Len(resyncLock.readerQueue)
  /\ resyncLock'.writers = 0 /\ resyncLock'.writerQueue = <<>>

LEMMA ResyncOverStep ==
  ASSUME ReachInv, resync.at = "writing", lockMap' = lockMap,
         TakeResyncLock(WUnlock(resyncLock), calls, Off, pending)
  PROVE  ResyncOver
<1>0. PICK res : res = WUnlock(resyncLock)
  OBVIOUS
<1>1. /\ calls \in [Marks -> CallType] /\ resyncLock \in LockType
      /\ resyncLock.writerQueue = <<>> /\ resyncLock.readerQueue \in Seq(Marks)
  BY Types DEF ReachInv, WriterIsResync
<1>2. /\ res.lock \in LockType
      /\ res.lock.writerQueue = <<>> /\ res.lock.writers = 0
      /\ res.lock.readerQueue = resyncLock.readerQueue
      /\ res.lock.readers = resyncLock.readers + Len(resyncLock.readerQueue)
      /\ res.granted = {resyncLock.readerQueue[i] : i \in DOMAIN resyncLock.readerQueue}
  BY <1>0, <1>1, WriterUnlocks
<1>3. Resyncer \notin res.granted
  <2>1. res.granted \subseteq Marks
    BY <1>1, <1>2
  <2> QED BY <2>1, MarkFacts
<1>4. /\ resyncLock' = res.lock /\ resync' = Off
      /\ calls' = [d \in Marks |-> IF d \in res.granted /\ calls[d].at = "rwait"
                                     THEN [calls[d] EXCEPT !.at = "ready"] ELSE calls[d]]
  BY <1>0, <1>3 DEF TakeResyncLock
<1>5. \A d \in Marks : LET k == [calls[d] EXCEPT !.at = "ready"]
                       IN  /\ k \in CallType /\ k.at = "ready"
                           /\ k.resource = calls[d].resource /\ k.mark = calls[d].mark
  BY <1>1, MoveFacts DEF CallStates
<1>6. calls' \in [Marks -> CallType]
  BY <1>1, <1>4, <1>5
<1>7. \A d \in Marks :
        /\ calls'[d].resource = calls[d].resource /\ calls'[d].mark = calls[d].mark
        /\ calls'[d].at = calls[d].at \/ (calls[d].at = "rwait" /\ calls'[d].at = "ready")
        /\ calls'[d].at # calls[d].at => d \in res.granted
  BY <1>4, <1>5
<1> QED BY <1>2, <1>4, <1>6, <1>7 DEF ResyncOver

\* In both outcomes of the resync's batch.
LEMMA ResyncOverInv ==
  ASSUME ReachInv, ResyncOver, db' \in [Resources -> BOOLEAN],
         interval' \in {"unset", "on", "cleared"},
         UNCHANGED <<started, pending, ticks, last, overlapped>>
  PROVE  ReachInv'
<1>1. /\ ReachTypeOK /\ pending \in Updates /\ calls \in [Marks -> CallType]
      /\ resyncLock.readers \in Nat /\ resyncLock.readerQueue \in Seq(Marks)
  BY Types DEF ReachInv
<1>2. KeysServe'
  <2>1. \A d \in Marks :
          \/ calls'[d].at = calls[d].at /\ calls'[d].resource = calls[d].resource
          \/ calls'[d].at \notin {"kwait", "sent"} /\ calls[d].at \notin {"kwait", "sent"}
    BY DEF ResyncOver
  <2>2. lockMap' = lockMap
    BY DEF ResyncOver
  <2> QED BY <2>1, <2>2, KeysKept DEF ReachInv
<1>3. InsideCounted'
  <2> DEFINE q == resyncLock.readerQueue
             X == {q[i] : i \in DOMAIN q}
  <2>1. IsFiniteSet(X) /\ Cardinality(X) <= Len(q) /\ Cardinality(X) \in Nat /\ Len(q) \in Nat
    BY <1>1, QueueBound
  <2>2. IsFiniteSet(Inside) /\ resyncLock.readers >= Cardinality(Inside)
    BY MarkFacts DEF Inside, ReachInv, InsideCounted
  <2>3. Inside' \subseteq Inside \cup X
    BY DEF ResyncOver, Inside
  <2>4. resyncLock'.readers = resyncLock.readers + Len(q)
    BY DEF ResyncOver
  <2> HIDE DEF X, q
  <2>5. PICK n \in Int, m \in Int : n = resyncLock.readers /\ m = n + Len(q)
    BY <1>1, <2>1
  <2>6. n >= Cardinality(Inside) /\ m >= n + Cardinality(X)
    BY <2>1, <2>2, <2>5
  <2>7. m >= Cardinality(Inside')
    BY <2>1, <2>2, <2>3, <2>6, CountMore
  <2> QED BY <2>4, <2>5, <2>7 DEF InsideCounted
<1>4. QueuedMarksAsked'
  <2>1. \A i \in DOMAIN resyncLock.readerQueue :
          resyncLock.readerQueue[i] \in Marks /\ calls[resyncLock.readerQueue[i]].at # "new"
    BY <1>1 DEF ReachInv, QueuedMarksAsked
  <2>2. \A d \in Marks : calls[d].at # "new" => calls'[d].at # "new"
    BY DEF ResyncOver
  <2> QED BY <2>1, <2>2 DEF ResyncOver, QueuedMarksAsked
<1>5. resync' \in ResyncType /\ WriterIsResync'
  <2>1. None \in Updates
    BY DEF None, Updates
  <2> QED BY <2>1 DEF ResyncOver, Off, ResyncType, WriterIsResync
<1>6. ReachTypeOK'
  BY <1>1, <1>2, <1>5, TypesAgain DEF ReachTypeOK, ResyncOver
<1> QED BY <1>2, <1>3, <1>4, <1>5, <1>6 DEF ReachInv

\* The steps of the module.
LEMMA ReachStepInv ==
  ASSUME ReachInv, ReachNext
  PROVE  ReachInv'
<1>0. /\ db \in [Resources -> BOOLEAN] /\ resync \in ResyncType
      /\ interval \in {"unset", "on", "cleared"} /\ ReachTypeOK
  BY Types DEF ReachInv, ReachTypeOK
<1>1. CASE clear
  <2>1. ReachTypeOK'
    BY <1>0, <1>1 DEF clear, ReachTypeOK
  <2> QED BY <1>1, <2>1, LocksUntouched DEF clear
<1>2. CASE Resync
  BY <1>2, ResyncInv
<1>3. CASE ResyncSucceeds
  <2>1. /\ resync.at = "writing" /\ db' = Overlay(db, resync.batch) /\ interval' = "cleared"
        /\ TakeResyncLock(WUnlock(resyncLock), calls, Off, pending)
        /\ UNCHANGED <<started, lockMap, pending, ticks, last, overlapped>>
    BY <1>3 DEF ResyncSucceeds
  <2>2. db' \in [Resources -> BOOLEAN]
    BY <1>0, <2>1, RecordsKept, ReachabilityAssumption DEF ResyncType
  <2>3. ResyncOver
    BY <2>1, ResyncOverStep
  <2> QED BY <2>1, <2>2, <2>3, ResyncOverInv
<1>4. ASSUME NEW applied \in BOOLEAN, ResyncFails(applied) PROVE ReachInv'
  <2>1. /\ resync.at = "writing" /\ (db' = Overlay(db, resync.batch) \/ db' = db)
        /\ TakeResyncLock(WUnlock(resyncLock), calls, Off, pending)
        /\ UNCHANGED <<started, lockMap, pending, interval, ticks, last, overlapped>>
    BY <1>4 DEF ResyncFails
  <2>2. db' \in [Resources -> BOOLEAN]
    BY <1>0, <2>1, RecordsKept, ReachabilityAssumption DEF ResyncType
  <2>3. ResyncOver
    BY <2>1, ResyncOverStep
  <2> QED BY <1>0, <2>1, <2>2, <2>3, ResyncOverInv
<1> QED BY <1>1, <1>2, <1>3, <1>4, MarkInv, AcquireKeyInv, MarkSucceedsInv, MarkFailsInv DEF ReachNext

\* ddbReachabilityMap.js: the locks' invariant holds in every reachable state.
THEOREM ReachInvHolds == ReachSpec => []ReachInv
<1>1. ReachInv /\ [ReachNext]_reachVars => ReachInv'
  <2> SUFFICES ASSUME ReachInv, [ReachNext]_reachVars PROVE ReachInv'
    OBVIOUS
  <2>1. CASE UNCHANGED reachVars
    <3>1. ReachTypeOK'
      BY <2>1 DEF ReachInv, reachVars, ReachTypeOK
    <3> QED BY <2>1, <3>1, LocksUntouched DEF reachVars
  <2> QED BY <2>1, ReachStepInv
<1> QED BY ReachInitInv, <1>1, PTL DEF ReachSpec

\* markAsReachable, markAsUnreachable and _resyncOnConnect: whatever fails, a
\* key of the lock map is there only for a mark that holds it, and at most one
\* resync waits for the lock or has it.
THEOREM ReachabilityLocksFreed == ReachSpec => []ReachabilityLocksAreFreed
<1>1. ReachInv => ReachabilityLocksAreFreed
  <2> SUFFICES ASSUME ReachInv PROVE ReachabilityLocksAreFreed
    OBVIOUS
  <2>1. ReachTypeOK
    BY DEF ReachInv
  <2>2. KeysBelongToMarks
    BY DEF ReachInv, KeysServe, Serves, SentKeys, KeysBelongToMarks
  <2>3. OneResync
    <3>1. resync.at \in {"off", "waiting", "writing"} /\ WriterIsResync
      BY <2>1 DEF ReachInv, ReachTypeOK
    <3>2. CASE resyncLock.writerQueue = <<>> /\ resyncLock.writers \in {0, 1}
      <4>1. Len(resyncLock.writerQueue) = 0
        BY <3>2
      <4> QED BY <3>2, <4>1 DEF OneResync
    <3>3. CASE resyncLock.writerQueue = <<Resyncer>> /\ resyncLock.writers = 0
      <4>1. Len(resyncLock.writerQueue) = 1
        BY <3>3
      <4> QED BY <3>3, <4>1 DEF OneResync
    <3> QED BY <3>1, <3>2, <3>3 DEF WriterIsResync
  <2> QED BY <2>1, <2>2, <2>3 DEF ReachabilityLocksAreFreed
<1> QED BY ReachInvHolds, <1>1, PTL

-----------------------------------------------------------------------------
(* The records: the invariant *)

\* Nothing is asked for before clear() has resolved.
StartsClean ==
  ~started => /\ \A c \in Marks : calls[c].at = "new"
              /\ resync.at = "off" /\ interval = "unset" /\ pending = None
              /\ \A r \in Resources : ~last[r]

\* The mark in progress, if there is one, is the last that was asked for.
OneActive == \A c, d \in Active : c = d
ActiveIsLast == \A c \in Active : calls[c].mark = last[calls[c].resource]

\* What the resync writes is what is pending: no mark is in meanwhile.
BatchIsPending == resync.at = "writing" => Inside = {} /\ resync.batch = pending

\* What is remembered of a resource is right, or else its record is.
Synced(r) == IF r \in DOMAIN pending THEN pending[r] = last[r] ELSE db[r] = last[r]
RestSynced ==
  started => \A r \in Resources : Synced(r) \/ \E c \in Active : calls[c].resource = r

InOrder == OneActive /\ ActiveIsLast /\ BatchIsPending /\ RestSynced

DataInv == ReachInv /\ StartsClean /\ (~overlapped => InOrder)

-----------------------------------------------------------------------------
(* The records: the steps *)

\* clear(): the records are as nobody had asked for anything.
LEMMA ClearData ==
  ASSUME ReachTypeOK, StartsClean, clear
  PROVE  StartsClean' /\ InOrder'
<1>1. /\ ~started /\ started' /\ db' = [r \in Resources |-> FALSE]
      /\ UNCHANGED <<calls, pending, resync, last>>
  BY DEF clear
<1>2. /\ \A c \in Marks : calls[c].at = "new"
      /\ resync.at = "off" /\ pending = None /\ \A r \in Resources : last[r] = FALSE
  BY <1>1 DEF StartsClean, ReachTypeOK
<1>3. Active' = {} /\ resync'.at = "off"
  BY <1>1, <1>2 DEF Active
<1>4. \A r \in Resources : r \notin DOMAIN pending' /\ db'[r] = FALSE /\ last'[r] = FALSE
  BY <1>1, <1>2 DEF None
<1>5. \A r \in Resources : Synced(r)'
  BY <1>4 DEF Synced
<1>6. StartsClean'
  BY <1>1 DEF StartsClean
<1> QED BY <1>3, <1>5, <1>6 DEF InOrder, OneActive, ActiveIsLast, BatchIsPending, RestSynced

\* A mark that is asked for while none is in progress.
LEMMA MarkData ==
  ASSUME DataInv, NEW c \in Marks, NEW r \in Resources, NEW mark \in BOOLEAN, Mark(c, r, mark)
  PROVE  StartsClean' /\ (~overlapped' => InOrder')
<1>1. /\ ReachTypeOK /\ started /\ UNCHANGED <<db, started, pending>>
      /\ last' = [last EXCEPT ![r] = mark] /\ overlapped' = (overlapped \/ Active # {})
      /\ MarkEffect(c, r, mark)
  BY MarkStep DEF DataInv, ReachInv, Mark
<1>2. SUFFICES ASSUME ~overlapped' PROVE InOrder'
  BY <1>1 DEF StartsClean
<1>3. Active = {} /\ InOrder
  BY <1>1, <1>2 DEF DataInv
<1>4. /\ calls'[c].at \in {"rwait", "ready"} /\ calls'[c].resource = r /\ calls'[c].mark = mark
      /\ \A d \in Marks \ {c} : calls'[d] = calls[d]
      /\ resync' = resync
  BY <1>1 DEF MarkEffect
<1>5. Active' = {c}
  BY <1>3, <1>4 DEF Active
<1>6. last'[r] = mark /\ \A x \in Resources \ {r} : last'[x] = last[x]
  BY <1>1, Types
<1>7. OneActive' /\ ActiveIsLast'
  BY <1>4, <1>5, <1>6 DEF OneActive, ActiveIsLast
<1>8. BatchIsPending'
  <2>1. SUFFICES ASSUME resync.at = "writing" PROVE Inside' = {} /\ resync'.batch = pending'
    BY <1>4 DEF BatchIsPending
  <2>2. Inside = {} /\ resync.batch = pending
    BY <1>3, <2>1 DEF InOrder, BatchIsPending
  <2>3. resyncLock.writers = 1
    BY <2>1 DEF DataInv, ReachInv, WriterIsResync
  <2>4. calls'[c].at = "rwait"
    BY <1>1, <2>3 DEF MarkEffect
  <2>5. Inside' = {}
    BY <1>4, <2>2, <2>4 DEF Inside
  <2> QED BY <1>1, <1>4, <2>2, <2>5
<1>9. RestSynced'
  <2>1. \A x \in Resources \ {r} : Synced(x)
    BY <1>1, <1>3 DEF InOrder, RestSynced
  <2>2. \A x \in Resources \ {r} : Synced(x)'
    BY <1>1, <1>6, <2>1 DEF Synced
  <2> QED BY <1>4, <1>5, <2>2 DEF RestSynced
<1> QED BY <1>7, <1>8, <1>9 DEF InOrder

\* The mark in progress moves on.
LEMMA AcquireKeyData ==
  ASSUME DataInv, NEW c \in Marks, AcquireKey(c)
  PROVE  StartsClean' /\ (~overlapped' => InOrder')
<1>1. PICK s : /\ calls[c].at = "ready" /\ calls' = [calls EXCEPT ![c].at = s]
               /\ s \in {"sent", "kwait"}
               /\ UNCHANGED <<db, started, pending, resync, last, overlapped>>
  BY DEF AcquireKey
<1>2. calls \in [Marks -> CallType] /\ s \in CallStates
  BY <1>1, Types DEF DataInv, ReachInv, CallStates
<1>3. PICK k : k = [calls[c] EXCEPT !.at = s]
  OBVIOUS
<1>4. k.at = s /\ k.resource = calls[c].resource /\ k.mark = calls[c].mark
  BY <1>2, <1>3, MoveFacts
<1>5. calls'[c] = k /\ \A d \in Marks \ {c} : calls'[d] = calls[d]
  BY <1>1, <1>2, <1>3
<1>6. started /\ StartsClean'
  BY <1>1 DEF DataInv, StartsClean
<1>7. SUFFICES ASSUME ~overlapped' PROVE InOrder'
  BY <1>6
<1>8. InOrder
  BY <1>1, <1>7 DEF DataInv
<1>9. Active' = Active /\ Inside' = Inside
  BY <1>1, <1>4, <1>5 DEF Active, Inside
<1>10. \A d \in Marks : calls'[d].resource = calls[d].resource /\ calls'[d].mark = calls[d].mark
  BY <1>4, <1>5
<1>11. Active \subseteq Marks
  BY DEF Active
<1>12. OneActive' /\ ActiveIsLast'
  BY <1>1, <1>8, <1>9, <1>10, <1>11 DEF InOrder, OneActive, ActiveIsLast
<1>13. BatchIsPending'
  BY <1>1, <1>8, <1>9 DEF InOrder, BatchIsPending
<1>14. RestSynced'
  <2>1. \A r \in Resources : Synced(r)' <=> Synced(r)
    BY <1>1 DEF Synced
  <2> QED BY <1>1, <1>8, <1>9, <1>10, <1>11, <2>1 DEF InOrder, RestSynced
<1> QED BY <1>12, <1>13, <1>14 DEF InOrder

\* A batch is over, one way or the other: its record or what is remembered of
\* it is right, and the other resources are as they were.
LEMMA UnlockData ==
  ASSUME DataInv, NEW c \in Marks, NEW r \in Resources, r = calls[c].resource,
         calls[c].at = "sent", UnlockBoth(c, pending'),
         UNCHANGED <<started, last, overlapped>>,
         calls[c].mark = last[r] => Synced(r)',
         \A x \in Resources \ {r} :
           /\ db'[x] = db[x]
           /\ x \in DOMAIN pending' <=> x \in DOMAIN pending
           /\ x \in DOMAIN pending => pending'[x] = pending[x]
  PROVE  StartsClean' /\ (~overlapped' => InOrder')
<1>1. UnlockEffect(c, pending')
  BY UnlockStep DEF DataInv
<1>2. started /\ StartsClean'
  BY DEF DataInv, StartsClean
<1>3. SUFFICES ASSUME ~overlapped' PROVE InOrder'
  BY <1>2
<1>4. InOrder
  BY <1>3 DEF DataInv
<1>5. Active = {c}
  BY <1>4 DEF InOrder, OneActive, Active
<1>6. Active' = {}
  <2>1. \A d \in Marks \ {c} : calls[d].at \in {"new", "done"}
    BY <1>5 DEF Active
  <2>2. calls'[c].at = "done" /\ \A d \in Marks \ {c} : calls'[d].at = calls[d].at
    BY <1>1, <2>1 DEF UnlockEffect
  <2> QED BY <2>1, <2>2 DEF Active
<1>7. Inside' = {}
  BY <1>6 DEF Inside, Active
<1>8. OneActive' /\ ActiveIsLast'
  BY <1>6 DEF OneActive, ActiveIsLast
<1>9. BatchIsPending'
  <2>1. resync.at # "writing"
    BY <1>4 DEF InOrder, BatchIsPending, Inside
  <2>2. CASE resync.at # "waiting"
    BY <1>1, <2>1, <2>2 DEF UnlockEffect, BatchIsPending
  <2>3. CASE resync.at = "waiting"
    <3>1. resync'.batch = pending'
      BY <1>1, <2>3 DEF UnlockEffect
    <3> QED BY <1>7, <3>1 DEF BatchIsPending
  <2> QED BY <2>2, <2>3
<1>10. RestSynced'
  <2>1. c \in Active
    BY <1>5
  <2>2. Synced(r)'
    BY <1>4, <2>1 DEF InOrder, ActiveIsLast
  <2>3. \A x \in Resources \ {r} : Synced(x)
    BY <1>2, <1>4, <1>5 DEF InOrder, RestSynced
  <2>4. \A x \in Resources \ {r} : Synced(x)'
    BY <2>3 DEF Synced
  <2>5. \A x \in Resources : Synced(x)'
    BY <2>2, <2>4 DEF Synced
  <2> QED BY <2>5 DEF RestSynced
<1> QED BY <1>8, <1>9, <1>10 DEF InOrder

LEMMA MarkSucceedsData ==
  ASSUME DataInv, NEW c \in Marks, MarkSucceeds(c)
  PROVE  StartsClean' /\ (~overlapped' => InOrder')
<1>0. PICK r, b : r = calls[c].resource /\ b = calls[c].mark
  OBVIOUS
<1>1. /\ r \in Resources /\ b \in BOOLEAN /\ db \in [Resources -> BOOLEAN]
  BY <1>0, Types DEF DataInv, ReachInv
<1>2. /\ calls[c].at = "sent" /\ pending' = Restrict(pending, DOMAIN pending \ {r})
      /\ UnlockBoth(c, pending') /\ db' = [db EXCEPT ![r] = b]
      /\ UNCHANGED <<started, last, overlapped>>
  BY <1>0 DEF MarkSucceeds
<1>3. db'[r] = b /\ \A x \in Resources \ {r} : db'[x] = db[x]
  BY <1>1, <1>2
<1>4. /\ DOMAIN pending' = DOMAIN pending \ {r}
      /\ \A x \in DOMAIN pending \ {r} : pending'[x] = pending[x]
  BY <1>2 DEF Restrict
<1>5. b = last[r] => Synced(r)'
  BY <1>2, <1>3, <1>4 DEF Synced
<1> QED BY <1>0, <1>1, <1>2, <1>3, <1>4, <1>5, UnlockData

LEMMA MarkFailsData ==
  ASSUME DataInv, NEW c \in Marks, NEW applied \in BOOLEAN, MarkFails(c, applied)
  PROVE  StartsClean' /\ (~overlapped' => InOrder')
<1>0. PICK r, b : r = calls[c].resource /\ b = calls[c].mark
  OBVIOUS
<1>1. /\ r \in Resources /\ b \in BOOLEAN /\ db \in [Resources -> BOOLEAN]
  BY <1>0, Types DEF DataInv, ReachInv
<1>2. /\ calls[c].at = "sent"
      /\ pending' = [x \in DOMAIN pending \cup {r} |-> IF x = r THEN b ELSE pending[x]]
      /\ UnlockBoth(c, pending') /\ (db' = [db EXCEPT ![r] = b] \/ db' = db)
      /\ UNCHANGED <<started, last, overlapped>>
  BY <1>0 DEF MarkFails
<1>3. \A x \in Resources \ {r} : db'[x] = db[x]
  BY <1>1, <1>2
<1>4. /\ DOMAIN pending' = DOMAIN pending \cup {r} /\ pending'[r] = b
      /\ \A x \in DOMAIN pending \ {r} : pending'[x] = pending[x]
  BY <1>2
<1>5. b = last[r] => Synced(r)'
  BY <1>2, <1>4 DEF Synced
<1> QED BY <1>0, <1>1, <1>2, <1>3, <1>4, <1>5, UnlockData

\* The resync waits, or its batch is what is pending.
LEMMA ResyncData ==
  ASSUME DataInv, Resync
  PROVE  StartsClean' /\ (~overlapped' => InOrder')
<1>1. /\ ResyncEffect /\ interval = "on"
      /\ UNCHANGED <<db, started, pending, interval, last, overlapped>>
  BY ResyncStep DEF Resync, DataInv
<1>2. started /\ StartsClean'
  BY <1>1 DEF DataInv, StartsClean
<1>3. SUFFICES ASSUME ~overlapped' PROVE InOrder'
  BY <1>2
<1>4. InOrder /\ calls' = calls
  BY <1>1, <1>3 DEF DataInv, ResyncEffect
<1>5. Active' = Active /\ Inside' = Inside
  BY <1>4 DEF Active, Inside
<1>6. OneActive' /\ ActiveIsLast'
  BY <1>1, <1>4, <1>5 DEF InOrder, OneActive, ActiveIsLast
<1>7. BatchIsPending'
  <2>1. CASE resync' = [Off EXCEPT !.at = "waiting"]
    <3>1. resync'.at = "waiting"
      BY <2>1 DEF Off
    <3> QED BY <3>1 DEF BatchIsPending
  <2>2. CASE resync' = [at |-> "writing", batch |-> pending] /\ Inside = {}
    <3>1. resync'.batch = pending
      BY <2>2
    <3> QED BY <1>1, <1>5, <2>2, <3>1 DEF BatchIsPending
  <2> QED BY <1>1, <2>1, <2>2 DEF ResyncEffect
<1>8. RestSynced'
  <2>1. \A r \in Resources : Synced(r)' <=> Synced(r)
    BY <1>1 DEF Synced
  <2> QED BY <1>1, <1>4, <1>5, <2>1 DEF InOrder, RestSynced
<1> QED BY <1>6, <1>7, <1>8 DEF InOrder

\* The resync is over: what it wrote is pending still.
LEMMA ResyncOverData ==
  ASSUME DataInv, resync.at = "writing", ResyncOver,
         db' = Overlay(db, resync.batch) \/ db' = db,
         UNCHANGED <<started, pending, last, overlapped>>
  PROVE  StartsClean' /\ (~overlapped' => InOrder')
<1>2. started /\ StartsClean'
  BY DEF DataInv, StartsClean
<1>3. SUFFICES ASSUME ~overlapped' PROVE InOrder'
  BY <1>2
<1>4. InOrder /\ resync.batch = pending /\ db \in [Resources -> BOOLEAN]
  <2>1. InOrder
    BY <1>3 DEF DataInv
  <2> QED BY <2>1, Types DEF InOrder, BatchIsPending, DataInv, ReachInv
<1>5. /\ resync'.at = "off"
      /\ \A d \in Marks :
           /\ calls'[d].resource = calls[d].resource /\ calls'[d].mark = calls[d].mark
           /\ calls'[d].at = calls[d].at \/ (calls[d].at = "rwait" /\ calls'[d].at = "ready")
  BY DEF ResyncOver, Off
<1>6. Active' = Active /\ Active \subseteq Marks
  BY <1>5 DEF Active
<1>7. OneActive' /\ ActiveIsLast' /\ BatchIsPending'
  BY <1>4, <1>5, <1>6 DEF InOrder, OneActive, ActiveIsLast, BatchIsPending
<1>8. RestSynced'
  <2>1. \A r \in Resources : r \notin DOMAIN pending => db'[r] = db[r]
    BY <1>4 DEF Overlay
  <2>2. \A r \in Resources : Synced(r) => Synced(r)'
    BY <2>1 DEF Synced
  <2> QED BY <1>2, <1>4, <1>5, <1>6, <2>2 DEF InOrder, RestSynced
<1> QED BY <1>7, <1>8 DEF InOrder

\* ddbReachabilityMap.js: nothing happens before clear() is done, and as long
\* as marks have not overlapped, the records or what is remembered are right
\* for every resource whose mark is not in progress.
THEOREM DataInvHolds == ReachSpec => []DataInv
<1>1. ReachInit => DataInv
  <2> SUFFICES ASSUME ReachInit PROVE DataInv
    OBVIOUS
  <2>1. ReachInv
    BY ReachInitInv
  <2>2. \A c \in Marks : calls[c].at = "new"
    BY CallFacts DEF ReachInit
  <2>3. resync.at = "off" /\ ~started /\ interval = "unset" /\ pending = None /\ \A r \in Resources : ~last[r]
    BY DEF ReachInit, Off
  <2>4. Active = {}
    BY <2>2 DEF Active
  <2>5. InOrder
    BY <2>3, <2>4 DEF InOrder, OneActive, ActiveIsLast, BatchIsPending, RestSynced
  <2> QED BY <2>1, <2>2, <2>3, <2>5 DEF DataInv, StartsClean
<1>2. DataInv /\ [ReachNext]_reachVars => DataInv'
  <2> SUFFICES ASSUME DataInv, [ReachNext]_reachVars PROVE DataInv'
    OBVIOUS
  <2>1. CASE UNCHANGED reachVars
    <3>1. ReachInv'
      <4>1. ReachTypeOK'
        BY <2>1 DEF DataInv, ReachInv, reachVars, ReachTypeOK
      <4> QED BY <2>1, <4>1, LocksUntouched DEF DataInv, reachVars
    <3>2. StartsClean' /\ (~overlapped' => InOrder')
      BY <2>1 DEF DataInv, reachVars, StartsClean, InOrder, OneActive, ActiveIsLast,
                  BatchIsPending, RestSynced, Synced, Active, Inside
    <3> QED BY <3>1, <3>2 DEF DataInv
  <2>2. CASE ReachNext
    <3>1. ReachInv'
      BY <2>2, ReachStepInv DEF DataInv
    <3>2. StartsClean' /\ (~overlapped' => InOrder')
      <4>1. CASE clear
        BY <4>1, ClearData DEF DataInv, ReachInv
      <4>2. CASE ResyncSucceeds
        <5>1. /\ resync.at = "writing" /\ db' = Overlay(db, resync.batch)
              /\ TakeResyncLock(WUnlock(resyncLock), calls, Off, pending)
              /\ UNCHANGED <<started, lockMap, pending, last, overlapped>>
          BY <4>2 DEF ResyncSucceeds
        <5>2. ResyncOver
          BY <5>1, ResyncOverStep DEF DataInv
        <5> QED BY <5>1, <5>2, ResyncOverData
      <4>3. ASSUME NEW applied \in BOOLEAN, ResyncFails(applied)
            PROVE  StartsClean' /\ (~overlapped' => InOrder')
        <5>1. /\ resync.at = "writing" /\ (db' = Overlay(db, resync.batch) \/ db' = db)
              /\ TakeResyncLock(WUnlock(resyncLock), calls, Off, pending)
              /\ UNCHANGED <<started, lockMap, pending, last, overlapped>>
          BY <4>3 DEF ResyncFails
        <5>2. ResyncOver
          BY <5>1, ResyncOverStep DEF DataInv
        <5> QED BY <5>1, <5>2, ResyncOverData
      <4> QED BY <2>2, <4>1, <4>2, <4>3, ResyncData, MarkData, AcquireKeyData,
                 MarkSucceedsData, MarkFailsData DEF ReachNext
    <3> QED BY <3>1, <3>2 DEF DataInv
  <2> QED BY <2>1, <2>2
<1> QED BY <1>1, <1>2, PTL DEF ReachSpec

\* ddbReachabilityMap.js: with marks that do not overlap, whenever nothing is
\* in progress the records hold every resource's last mark or the mark is
\* remembered, whatever batches, acknowledgements and resyncs failed before.
THEOREM QuietSynced == ReachSpec => []QuietIsSynced
<1>1. DataInv => QuietIsSynced
  <2> SUFFICES ASSUME DataInv, Quiet, ~overlapped
               PROVE  \A r \in Resources : db[r] = last[r] \/ (r \in DOMAIN pending /\ pending[r] = last[r])
    BY DEF QuietIsSynced
  <2>1. RestSynced /\ started /\ Active = {}
    BY DEF DataInv, InOrder, Quiet
  <2> QED BY <2>1 DEF RestSynced, Synced
<1> QED BY DataInvHolds, <1>1, PTL
=============================================================================
