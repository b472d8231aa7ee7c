--------------------------- MODULE SubscriptionsProofs ---------------------------
(***************************************************************************)
(* The subscriptions of a server in memory and database, for every set of  *)
(* calls, subscribers and ids.                                             *)
(***************************************************************************)
EXTENDS SubscriberRegistry, PeerSubscriptions, FiniteSetTheorems, SequenceTheorems, TLAPS

(* The registry: the invariant *)

\* The calls that subscribe or unsubscribe an id.
Subscribing(id) == {c \in Users(id) : op[c].kind = "subscribe"}
Removing(id) == {c \in Users(id) : op[c].kind = "unsubscribe"}

Queue(id) == IF id \in DOMAIN keyLockMap THEN keyLockMap[id].queue ELSE <<>>

RegistryTypes ==
  /\ TypeOK
  /\ DOMAIN keyLockMap \subseteq SubscriptionIDs
  /\ \A id \in DOMAIN keyLockMap : keyLockMap[id] \in [acquired : {TRUE}, queue : Seq(Calls)]

\* A call has all its locks once it is past locking; subscribe never waits.
CallOK(c) ==
  /\ op[c].got \subseteq op[c].ids
  /\ op[c].at = "idle" <=> op[c].kind = "idle"
  /\ op[c].at = "idle" => op[c].ids = {}
  /\ op[c].at \in {"first", "second"} => op[c].got = op[c].ids
  /\ op[c].kind = "subscribe" => op[c].at # "locking"

\* A fresh id is nowhere; at most one call subscribes an id, at most one
\* unsubscribes it, and then it is no more in memory.
IdUsers(id) ==
  /\ id \notin used => /\ Users(id) = {} /\ id \notin DOMAIN keyLockMap
                       /\ id \notin DOMAIN subscriptions \cup known \cup log \cup inputs
  /\ \A c, d \in Users(id) : op[c].kind = op[d].kind => c = d
  /\ Removing(id) # {} => id \notin DOMAIN subscriptions
  /\ id \in known => Subscribing(id) = {}

\* The one that unsubscribes waits while the other has the lock.
IdLocks(id) ==
  /\ \A c \in Users(id) : id \notin op[c].got => Queue(id) = <<c>>
  /\ Queue(id) # <<>> => \E c \in Users(id) : id \notin op[c].got
  /\ Subscribing(id) # {} => id \in DOMAIN keyLockMap
  /\ \A c \in Removing(id) : id \in op[c].got => Subscribing(id) = {}

\* The records that the calls in progress have written and deleted.
IdRecords(id) ==
  /\ id \in inputs => id \in log
  /\ \A c \in Subscribing(id) : id \notin inputs /\ (id \in log <=> op[c].at = "second")
  /\ \A c \in Removing(id) : op[c].at = "second" => id \notin inputs
  /\ id \in known \cap DOMAIN subscriptions => id \in log /\ id \in inputs

\* And those of an id of which no batch failed.
IdQuiet(id) ==
  id \notin failed =>
    /\ Users(id) = {} => /\ id \in log <=> id \in DOMAIN subscriptions
                         /\ id \in inputs <=> id \in DOMAIN subscriptions
    /\ Subscribing(id) # {} /\ Removing(id) = {} => id \in DOMAIN subscriptions
    /\ Subscribing(id) = {} => \A c \in Removing(id) : id \in log /\ (id \in inputs <=> op[c].at # "second")

\* What another server is owed it has seen, or still finds.
LookupOK ==
  /\ lookup \in [at : {"idle", "log", "done"}, seen : SUBSET SubscriptionIDs, owed : SUBSET SubscriptionIDs]
  /\ cache \in [filled : BOOLEAN, ids : SUBSET SubscriptionIDs]
  /\ lookup.at = "log" => lookup.owed \subseteq lookup.seen \cap known \cap DOMAIN subscriptions
  /\ lookup.at = "done" => lookup.owed \subseteq cache.ids

IdOK(id) == IdUsers(id) /\ IdLocks(id) /\ IdRecords(id) /\ IdQuiet(id)

RegistryInv ==
  /\ RegistryTypes
  /\ \A c \in Calls : CallOK(c)
  /\ \A id \in SubscriptionIDs : IdOK(id)
  /\ LookupOK

-----------------------------------------------------------------------------
(* The locks of a call *)

\* A queue of one is empty without its head.
LEMMA TailOfOne == \A d : Tail(<<d>>) = <<>> /\ Head(<<d>>) = d
<1> TAKE d
<1>1. <<d>> \in Seq({d}) /\ <<d>> # <<>> /\ Len(<<d>>) = 1
  OBVIOUS
<1>2. Tail(<<d>>) \in Seq({d}) /\ Len(Tail(<<d>>)) = 0
  BY <1>1, HeadTailProperties
<1> QED BY <1>2, EmptySeq

\* A mutex with another queue.
LEMMA Requeued ==
  ASSUME NEW m \in [acquired : {TRUE}, queue : Seq(Calls)], NEW q \in Seq(Calls)
  PROVE  /\ [m EXCEPT !.queue = q] \in [acquired : {TRUE}, queue : Seq(Calls)]
         /\ [m EXCEPT !.queue = q].queue = q
OBVIOUS

\* What acquire does to the mutex of an id.
LEMMA AcquireFacts ==
  ASSUME RegistryTypes, NEW id, NEW c \in Calls
  PROVE  LET res == LockMapAcquire(keyLockMap, id, c)
         IN  /\ res.lock[id] \in [acquired : {TRUE}, queue : Seq(Calls)]
             /\ id \notin DOMAIN keyLockMap => res.granted = {c} /\ res.lock[id].queue = <<>>
             /\ id \in DOMAIN keyLockMap => res.granted = {} /\ res.lock[id].queue = Append(Queue(id), c)
<1> DEFINE res == LockMapAcquire(keyLockMap, id, c)
<1>1. CASE id \notin DOMAIN keyLockMap
  <2>1. MutexAcquire(NewMutex, c) = [lock |-> [acquired |-> TRUE, queue |-> <<>>], granted |-> {c}]
    BY DEF MutexAcquire, NewMutex, Result
  <2>2. res.granted = {c} /\ res.lock[id] = [acquired |-> TRUE, queue |-> <<>>]
    BY <1>1, <2>1 DEF LockMapAcquire, Result
  <2> QED BY <1>1, <2>2
<1>2. CASE id \in DOMAIN keyLockMap
  <2>1. keyLockMap[id] \in [acquired : {TRUE}, queue : Seq(Calls)]
    BY <1>2 DEF RegistryTypes
  <2> DEFINE q == Append(Queue(id), c)
  <2>2. MutexAcquire(keyLockMap[id], c) = [lock |-> [keyLockMap[id] EXCEPT !.queue = q], granted |-> {}]
    BY <1>2, <2>1 DEF MutexAcquire, Result, Queue
  <2>3. q \in Seq(Calls)
    BY <1>2, <2>1 DEF Queue
  <2>4. res.granted = {} /\ res.lock[id] = [keyLockMap[id] EXCEPT !.queue = q]
    BY <1>2, <2>2 DEF LockMapAcquire, Result
  <2> HIDE DEF q, res
  <2>5. res.lock[id] \in [acquired : {TRUE}, queue : Seq(Calls)] /\ res.lock[id].queue = q
    BY <2>1, <2>3, <2>4, Requeued
  <2> QED BY <1>2, <2>4, <2>5 DEF q, res
<1> QED BY <1>1, <1>2

\* What release does to it: its only waiter is let in, and it is thrown away.
LEMMA ReleaseFacts ==
  ASSUME RegistryTypes, NEW id \in SubscriptionIDs, IdLocks(id)
  PROVE  LET res == LockMapRelease(keyLockMap, id)
         IN  /\ id \notin DOMAIN res.lock
             /\ \A d \in Calls : d \in res.granted <=> d \in Users(id) /\ id \notin op[d].got
<1> DEFINE res == LockMapRelease(keyLockMap, id)
<1>1. CASE id \notin DOMAIN keyLockMap
  <2>1. res = [lock |-> keyLockMap, granted |-> {}] /\ Queue(id) = <<>>
    BY <1>1 DEF LockMapRelease, Result, Queue
  <2>2. \A d \in Calls : <<>> # <<d>>
    OBVIOUS
  <2> QED BY <1>1, <2>1, <2>2 DEF IdLocks
<1>2. CASE id \in DOMAIN keyLockMap
  <2> DEFINE q == keyLockMap[id].queue
             free == [acquired |-> q # <<>> /\ keyLockMap[id].acquired, queue |-> Shifted(q)]
  <2>1. Queue(id) = q
    BY <1>2 DEF Queue
  <2>2. MutexRelease(keyLockMap[id]) = [lock |-> free, granted |-> ShiftedOff(q)]
    BY DEF MutexRelease, Result
  <2>3. q = <<>> \/ \E d \in Calls : d \in Users(id) /\ q = <<d>> /\ id \notin op[d].got
    BY <2>1 DEF IdLocks, Users
  <2>4. Shifted(q) = <<>>
    BY <2>3, TailOfOne DEF Shifted
  <2>5. \A d \in Calls : d \in ShiftedOff(q) <=> d \in Users(id) /\ id \notin op[d].got
    <3> TAKE d \in Calls
    <3>1. CASE q = <<>>
      BY <2>1, <3>1 DEF ShiftedOff, IdLocks
    <3>2. ASSUME NEW e \in Calls, e \in Users(id), q = <<e>>, id \notin op[e].got
          PROVE  d \in ShiftedOff(q) <=> d \in Users(id) /\ id \notin op[d].got
      <4>1. ShiftedOff(q) = {e}
        BY <3>2, TailOfOne DEF ShiftedOff
      <4>2. d \in Users(id) /\ id \notin op[d].got => q = <<d>>
        BY <2>1 DEF IdLocks
      <4> HIDE DEF q
      <4>3. d \in Users(id) /\ id \notin op[d].got => d = e
        BY <3>2, <4>2
      <4> QED BY <3>2, <4>1, <4>3
    <3> QED BY <2>3, <3>1, <3>2
  <2> HIDE DEF q
  <2>6. res = [lock |-> [k \in DOMAIN keyLockMap \ {id} |-> keyLockMap[k]], granted |-> ShiftedOff(q)]
    BY <1>2, <2>2, <2>4 DEF LockMapRelease, Result
  <2> QED BY <2>5, <2>6
<1> QED BY <1>1, <1>2

\* A call that waits for a lock unsubscribes.
LEMMA WaitingRemoves ==
  ASSUME RegistryInv, NEW id \in SubscriptionIDs, NEW c \in Users(id)
  PROVE  /\ c \in Subscribing(id) \/ c \in Removing(id)
         /\ c \in Subscribing(id) => id \in op[c].got
         /\ id \notin op[c].got => op[c].at = "locking"
<1>1. c \in Calls /\ id \in op[c].ids /\ CallOK(c)
  BY DEF Users, RegistryInv
<1>2. op[c] \in [kind : {"idle", "subscribe", "unsubscribe"},
                 ids : SUBSET SubscriptionIDs, got : SUBSET SubscriptionIDs,
                 at : {"idle", "locking", "first", "second"}]
  BY <1>1 DEF RegistryInv, RegistryTypes, TypeOK
<1> QED BY <1>1, <1>2 DEF CallOK, Subscribing, Removing

\* The record of a call that has asked for the locks of its ids.
Entered(kind, ids) == [kind |-> kind, ids |-> ids, got |-> ids \ DOMAIN keyLockMap,
                       at |-> IF ids \cap DOMAIN keyLockMap = {} THEN "first" ELSE "locking"]

\* What it leaves of the locks and calls: it is the only one in a queue.
Queued(c, kind, ids) ==
  /\ DOMAIN keyLockMap' = DOMAIN keyLockMap \cup ids
  /\ \A id \in DOMAIN keyLockMap' : keyLockMap'[id] \in [acquired : {TRUE}, queue : Seq(Calls)]
  /\ \A id \in SubscriptionIDs \ ids : Queue(id)' = Queue(id)
  /\ \A id \in ids : Queue(id)' = IF id \in DOMAIN keyLockMap THEN <<c>> ELSE <<>>
  /\ op[c] = Idle
  /\ op' = [op EXCEPT ![c] = Entered(kind, ids)]

\* Calls enter the queue of an id that nobody unsubscribes yet.
LEMMA StartFacts ==
  ASSUME RegistryInv, NEW c \in Calls, NEW kind \in {"subscribe", "unsubscribe"}, NEW ids \in SUBSET SubscriptionIDs,
         \A id \in ids : Removing(id) = {}, Start(c, kind, ids)
  PROVE  Queued(c, kind, ids)
<1> DEFINE res(id) == LockMapAcquire(keyLockMap, id, c)
           got == {id \in ids : c \in res(id).granted}
<1>1. RegistryTypes
  BY DEF RegistryInv
<1>2. \A id \in ids : /\ res(id).lock[id] \in [acquired : {TRUE}, queue : Seq(Calls)]
                      /\ id \notin DOMAIN keyLockMap => res(id).granted = {c} /\ res(id).lock[id].queue = <<>>
                      /\ id \in DOMAIN keyLockMap => res(id).granted = {} /\ res(id).lock[id].queue = Append(Queue(id), c)
  BY <1>1, AcquireFacts
<1>3. \A id \in ids : Queue(id) = <<>>
  <2> SUFFICES ASSUME NEW id \in ids, Queue(id) # <<>> PROVE FALSE
    OBVIOUS
  <2>1. PICK d \in Users(id) : id \notin op[d].got
    BY DEF RegistryInv, IdOK, IdLocks
  <2> QED BY <2>1, WaitingRemoves
<1>4. /\ op[c] = Idle
      /\ keyLockMap' = [id \in DOMAIN keyLockMap \cup ids |->
                          IF id \in ids THEN res(id).lock[id] ELSE keyLockMap[id]]
      /\ op' = [op EXCEPT ![c] = [kind |-> kind, ids |-> ids, got |-> got,
                                  at |-> IF got = ids THEN "first" ELSE "locking"]]
  BY DEF Start
<1> HIDE DEF res
<1>5. got = ids \ DOMAIN keyLockMap
  BY <1>2
<1>6. got = ids <=> ids \cap DOMAIN keyLockMap = {}
  BY <1>5
<1> HIDE DEF got
<1>7. op' = [op EXCEPT ![c] = Entered(kind, ids)]
  BY <1>4, <1>5, <1>6 DEF Entered
<1>8. DOMAIN keyLockMap' = DOMAIN keyLockMap \cup ids
  BY <1>4
<1>9. \A id \in ids : keyLockMap'[id] = res(id).lock[id]
  BY <1>4
<1>10. \A id \in DOMAIN keyLockMap \ ids : keyLockMap'[id] = keyLockMap[id]
  BY <1>4
<1>11. \A id \in DOMAIN keyLockMap' : keyLockMap'[id] \in [acquired : {TRUE}, queue : Seq(Calls)]
  BY <1>1, <1>2, <1>8, <1>9, <1>10 DEF RegistryTypes
<1>12. \A id \in SubscriptionIDs \ ids : Queue(id)' = Queue(id)
  BY <1>8, <1>10 DEF Queue
<1>13. \A id \in ids : Queue(id)' = IF id \in DOMAIN keyLockMap THEN <<c>> ELSE <<>>
  <2>1. \A id \in ids : Queue(id)' = keyLockMap'[id].queue
    BY <1>8 DEF Queue
  <2>2. Append(<<>>, c) = <<c>>
    OBVIOUS
  <2> QED BY <1>2, <1>3, <1>9, <2>1, <2>2
<1> QED BY <1>4, <1>7, <1>8, <1>11, <1>12, <1>13 DEF Queued

\* The calls that wait for the locks that call c gives back.
LEMMA FinishFacts ==
  ASSUME RegistryInv, NEW c \in Calls, Finish(c)
  PROVE  /\ DOMAIN keyLockMap' = DOMAIN keyLockMap \ op[c].ids
         /\ \A id \in DOMAIN keyLockMap' : keyLockMap'[id] = keyLockMap[id]
         /\ op' \in [Calls -> [kind : {"idle", "subscribe", "unsubscribe"},
                               ids : SUBSET SubscriptionIDs, got : SUBSET SubscriptionIDs,
                               at : {"idle", "locking", "first", "second"}]]
         /\ op'[c] = Idle
         /\ \A d \in Calls \ {c} :
              /\ op'[d].kind = op[d].kind /\ op'[d].ids = op[d].ids
              /\ op'[d].got = op[d].got \cup (op[d].ids \cap op[c].ids)
              /\ op'[d].at = IF op[d].at = "locking" /\ op'[d].got = op'[d].ids THEN "first" ELSE op[d].at
<1> DEFINE ids == op[c].ids
           res(id) == LockMapRelease(keyLockMap, id)
           got(d) == op[d].got \cup {id \in ids : d \in res(id).granted}
           Record == [kind : {"idle", "subscribe", "unsubscribe"},
                      ids : SUBSET SubscriptionIDs, got : SUBSET SubscriptionIDs,
                      at : {"idle", "locking", "first", "second"}]
<1>1. RegistryTypes /\ op \in [Calls -> Record] /\ ids \subseteq SubscriptionIDs
  BY DEF RegistryInv, RegistryTypes, TypeOK
<1>2. \A id \in ids : IdLocks(id)
  BY <1>1 DEF RegistryInv, IdOK
<1>3. \A id \in ids : /\ id \notin DOMAIN res(id).lock
                      /\ \A d \in Calls : d \in res(id).granted <=> d \in Users(id) /\ id \notin op[d].got
  BY <1>1, <1>2, ReleaseFacts
<1>4. /\ keyLockMap' = [id \in {k \in DOMAIN keyLockMap : k \in ids => k \in DOMAIN res(k).lock} |->
                          IF id \in ids THEN res(id).lock[id] ELSE keyLockMap[id]]
      /\ op' = [d \in Calls |->
                  IF d = c THEN Idle
                  ELSE [op[d] EXCEPT !.got = got(d),
                                     !.at = IF @ = "locking" /\ got(d) = op[d].ids THEN "first" ELSE @]]
  BY DEF Finish
<1> HIDE DEF res
<1>5. {k \in DOMAIN keyLockMap : k \in ids => k \in DOMAIN res(k).lock} = DOMAIN keyLockMap \ ids
  BY <1>3
<1>6. \A d \in Calls : got(d) = op[d].got \cup (op[d].ids \cap ids)
  BY <1>3 DEF Users
<1> HIDE DEF got
<1>7. DOMAIN keyLockMap' = DOMAIN keyLockMap \ ids /\ \A id \in DOMAIN keyLockMap' : keyLockMap'[id] = keyLockMap[id]
  BY <1>4, <1>5
<1>8. op'[c] = Idle
  BY <1>4
<1>9. ASSUME NEW d \in Calls \ {c}
      PROVE  /\ op'[d] \in Record
             /\ op'[d].kind = op[d].kind /\ op'[d].ids = op[d].ids
             /\ op'[d].got = got(d)
             /\ op'[d].at = IF op[d].at = "locking" /\ got(d) = op[d].ids THEN "first" ELSE op[d].at
  <2>1. op'[d] = [op[d] EXCEPT !.got = got(d),
                               !.at = IF @ = "locking" /\ got(d) = op[d].ids THEN "first" ELSE @]
    BY <1>4
  <2>2. op[d] \in Record
    BY <1>1
  <2>3. got(d) \subseteq SubscriptionIDs
    BY <1>6, <2>2
  <2> QED BY <2>1, <2>2, <2>3
<1>10. Idle \in Record
  BY DEF Idle
<1>11. \A d \in Calls : op'[d] \in Record
  BY <1>8, <1>9, <1>10
<1>12. op' \in [Calls -> Record]
  BY <1>4, <1>11
<1> QED BY <1>6, <1>7, <1>8, <1>9, <1>12

-----------------------------------------------------------------------------
(* The registry: one lemma per part of the invariant and kind of step *)

\* The part of the state that IdOK(id) reads stays as it is.
SameFor(id) ==
  /\ \A d \in Calls : /\ id \in op'[d].ids <=> id \in op[d].ids
                      /\ id \in op[d].ids => /\ op'[d].kind = op[d].kind
                                             /\ id \in op'[d].got <=> id \in op[d].got
                                             /\ op'[d].at = "second" <=> op[d].at = "second"
  /\ id \in DOMAIN keyLockMap' <=> id \in DOMAIN keyLockMap
  /\ Queue(id)' = Queue(id)
  /\ id \in DOMAIN subscriptions' <=> id \in DOMAIN subscriptions
  /\ id \in log' <=> id \in log
  /\ id \in inputs' <=> id \in inputs
  /\ id \in known' <=> id \in known
  /\ id \in used' <=> id \in used
  /\ id \in failed' <=> id \in failed

LEMMA IdSame ==
  ASSUME NEW id \in SubscriptionIDs, IdOK(id), SameFor(id)
  PROVE  IdOK(id)'
<1>1. Users(id)' = Users(id)
  BY DEF SameFor, Users
<1>2. Subscribing(id)' = Subscribing(id) /\ Removing(id)' = Removing(id)
  BY <1>1 DEF SameFor, Users, Subscribing, Removing
<1>3. \A c \in Users(id) : c \in Calls /\ id \in op[c].ids
  BY DEF Users
<1>4. \A c \in Subscribing(id) \cup Removing(id) : c \in Users(id)
  BY DEF Subscribing, Removing
<1>5. IdUsers(id)'
  BY <1>1, <1>2, <1>3 DEF SameFor, IdOK, IdUsers
<1>6. IdLocks(id)'
  BY <1>1, <1>2, <1>3, <1>4 DEF SameFor, IdOK, IdLocks
<1>7. IdRecords(id)'
  BY <1>2, <1>3, <1>4 DEF SameFor, IdOK, IdRecords
<1>8. IdQuiet(id)'
  BY <1>1, <1>2, <1>3, <1>4 DEF SameFor, IdOK, IdQuiet
<1> QED BY <1>5, <1>6, <1>7, <1>8 DEF IdOK

\* The first batch of a call is done.
LEMMA FirstBatch ==
  ASSUME RegistryInv, NEW c \in Calls, BatchSucceeds(c), op[c].at = "first"
  PROVE  RegistryInv'
<1> DEFINE ids == op[c].ids
<1>1. TypeOK /\ CallOK(c) /\ LookupOK
  BY DEF RegistryInv, RegistryTypes
<1>2. /\ ApplyBatch(op[c])
      /\ op' = [op EXCEPT ![c].at = "second"]
      /\ UNCHANGED <<keyLockMap, known, subscriptions, used, failed, lookup, cache>>
  BY DEF BatchSucceeds
<1>3. /\ \A d \in Calls \ {c} : op'[d] = op[d]
      /\ op'[c].kind = op[c].kind /\ op'[c].ids = ids /\ op'[c].got = op[c].got /\ op'[c].at = "second"
  BY <1>1, <1>2 DEF TypeOK
<1>4. op[c].kind \in {"subscribe", "unsubscribe"} /\ op[c].got = ids /\ ids \subseteq SubscriptionIDs
  BY <1>1 DEF CallOK, TypeOK
<1>5. /\ op[c].kind = "subscribe" => log' = log \cup ids /\ inputs' = inputs
      /\ op[c].kind = "unsubscribe" => log' = log /\ inputs' = inputs \ ids
  BY <1>2, <1>4 DEF ApplyBatch, WritesLog, Applied
<1>6. TypeOK'
  <2>1. op' \in [Calls -> [kind : {"idle", "subscribe", "unsubscribe"},
                           ids : SUBSET SubscriptionIDs, got : SUBSET SubscriptionIDs,
                           at : {"idle", "locking", "first", "second"}]]
    BY <1>1, <1>2 DEF TypeOK
  <2>2. log' \subseteq SubscriptionIDs /\ inputs' \subseteq SubscriptionIDs
    BY <1>1, <1>4, <1>5 DEF TypeOK
  <2> QED BY <1>1, <1>2, <2>1, <2>2 DEF TypeOK
<1>7. \A d \in Calls : CallOK(d)'
  <2> TAKE d \in Calls
  <2>1. CallOK(d)
    BY DEF RegistryInv
  <2> QED BY <1>3, <1>4, <2>1 DEF CallOK
<1>8. ASSUME NEW id \in SubscriptionIDs PROVE IdOK(id)'
  <2>1. IdOK(id)
    BY DEF RegistryInv
  <2>2. CASE id \notin ids
    <3>1. SameFor(id)
      BY <1>2, <1>3, <1>4, <1>5, <2>2 DEF SameFor, Queue
    <3> QED BY <2>1, <3>1, IdSame
  <2>3. CASE id \in ids
    <3>1. Users(id)' = Users(id) /\ c \in Users(id)
      BY <1>3, <2>3 DEF Users
    <3>2. Subscribing(id)' = Subscribing(id) /\ Removing(id)' = Removing(id)
      BY <1>3, <3>1 DEF Users, Subscribing, Removing
    <3>3. Queue(id)' = Queue(id)
      BY <1>2 DEF Queue
    <3>4. IdUsers(id)'
      <4>1. \A d \in Users(id) : op'[d].kind = op[d].kind
        BY <1>3 DEF Users
      <4>2. id \in used
        BY <2>1, <3>1 DEF IdOK, IdUsers
      <4> QED BY <1>2, <2>1, <3>1, <3>2, <4>1, <4>2 DEF IdOK, IdUsers
    <3>5. IdLocks(id)'
      <4>1. \A d \in Users(id) \cup Removing(id) : op'[d].got = op[d].got
        BY <1>3 DEF Users, Removing
      <4>2. Removing(id) \subseteq Users(id)
        BY DEF Removing
      <4> QED BY <1>2, <2>1, <3>1, <3>2, <3>3, <4>1, <4>2 DEF IdOK, IdLocks
    <3>6. CASE op[c].kind = "subscribe"
      <4>1. c \in Subscribing(id) /\ id \notin inputs
        BY <2>1, <3>1, <3>6 DEF Subscribing, IdOK, IdRecords
      <4>2. \A d \in Subscribing(id) : d = c
        BY <2>1, <3>1, <3>6 DEF Subscribing, IdOK, IdUsers
      <4>3. \A d \in Removing(id) : op'[d] = op[d]
        BY <1>3, <3>6 DEF Removing, Users
      <4>4. id \in log' /\ id \notin inputs'
        BY <1>5, <2>3, <3>6, <4>1
      <4>5. id \notin known
        BY <2>1, <4>1 DEF IdOK, IdUsers
      <4>6. IdRecords(id)'
        BY <1>2, <1>3, <2>1, <3>2, <4>2, <4>3, <4>4, <4>5 DEF IdOK, IdRecords
      <4>7. IdQuiet(id)'
        BY <1>2, <2>1, <3>1, <3>2, <4>1 DEF IdOK, IdQuiet
      <4> QED BY <3>4, <3>5, <4>6, <4>7 DEF IdOK
    <3>7. CASE op[c].kind = "unsubscribe"
      <4>1. c \in Removing(id) /\ Subscribing(id) = {} /\ id \notin DOMAIN subscriptions
        BY <1>4, <2>1, <2>3, <3>1, <3>7 DEF Removing, IdOK, IdUsers, IdLocks
      <4>2. \A d \in Removing(id) : d = c
        BY <2>1, <3>1, <3>7 DEF Removing, IdOK, IdUsers
      <4>3. log' = log /\ id \notin inputs'
        BY <1>5, <2>3, <3>7
      <4>4. IdRecords(id)'
        BY <1>2, <2>1, <3>2, <4>1, <4>3 DEF IdOK, IdRecords
      <4>5. IdQuiet(id)'
        BY <1>2, <1>3, <2>1, <3>1, <3>2, <4>1, <4>2, <4>3 DEF IdOK, IdQuiet
      <4> QED BY <3>4, <3>5, <4>4, <4>5 DEF IdOK
    <3> QED BY <1>4, <3>6, <3>7
  <2> QED BY <2>2, <2>3
<1>9. LookupOK'
  BY <1>1, <1>2 DEF LookupOK
<1>10. RegistryTypes'
  BY <1>2, <1>6 DEF RegistryInv, RegistryTypes
<1> QED BY <1>7, <1>8, <1>9, <1>10 DEF RegistryInv

\* A call ends: what it leaves of the users of its ids.
LEMMA FinishUsers ==
  ASSUME RegistryInv, NEW c \in Calls, op[c].at \in {"first", "second"}, Finish(c),
         NEW id \in op[c].ids
  PROVE  /\ Users(id)' = Removing(id) \ {c} /\ Removing(id)' = Removing(id) \ {c}
         /\ Subscribing(id)' = {}
         /\ id \notin DOMAIN keyLockMap' /\ Queue(id)' = <<>>
         /\ id \in used
         /\ \A d \in Users(id)' : d \in Removing(id) /\ id \in op'[d].got /\ op'[d].at # "second"
<1>1. CallOK(c) /\ TypeOK
  BY DEF RegistryInv, RegistryTypes
<1>2. id \in SubscriptionIDs /\ op[c].got = op[c].ids
  BY <1>1 DEF TypeOK, CallOK
<1>3. IdOK(id)
  BY <1>2 DEF RegistryInv
<1>4. /\ DOMAIN keyLockMap' = DOMAIN keyLockMap \ op[c].ids
      /\ op'[c] = Idle
      /\ \A d \in Calls \ {c} :
           /\ op'[d].kind = op[d].kind /\ op'[d].ids = op[d].ids
           /\ op'[d].got = op[d].got \cup (op[d].ids \cap op[c].ids)
           /\ op'[d].at = IF op[d].at = "locking" /\ op'[d].got = op'[d].ids THEN "first" ELSE op[d].at
  BY FinishFacts
<1>5. c \in Users(id) /\ (c \in Subscribing(id) \/ c \in Removing(id))
  BY <1>2, WaitingRemoves DEF Users
<1>6. \A d \in Users(id) \ {c} : d \in Removing(id) /\ op[d].at = "locking"
  <2> TAKE d \in Users(id) \ {c}
  <2>1. CASE c \in Removing(id)
    <3>1. Subscribing(id) = {}
      BY <1>2, <1>3, <2>1 DEF IdOK, IdLocks
    <3>2. d \in Removing(id)
      BY <1>2, <3>1, WaitingRemoves
    <3>3. op[d].kind = op[c].kind
      BY <2>1, <3>2 DEF Removing
    <3> QED BY <1>3, <1>5, <3>3 DEF IdOK, IdUsers
  <2>2. CASE c \in Subscribing(id)
    <3>1. d \notin Subscribing(id)
      BY <1>3, <1>5, <2>2 DEF IdOK, IdUsers, Subscribing
    <3>2. d \in Removing(id)
      BY <1>2, <3>1, WaitingRemoves
    <3>3. id \notin op[d].got
      BY <1>3, <2>2, <3>2 DEF IdOK, IdLocks
    <3> QED BY <1>2, <3>2, <3>3, WaitingRemoves
  <2> QED BY <1>5, <2>1, <2>2
<1>7. Users(id)' = Users(id) \ {c}
  BY <1>4 DEF Users, Idle
<1>8. \A d \in Users(id) \ {c} : d \in Calls \ {c} /\ id \in op[d].ids
  BY DEF Users
<1>9. Users(id)' = Removing(id) \ {c}
  BY <1>6, <1>7 DEF Removing
<1>10. Removing(id)' = Removing(id) \ {c} /\ Subscribing(id)' = {}
  <2>1. \A d \in Users(id)' : op'[d].kind = "unsubscribe"
    BY <1>4, <1>6, <1>7, <1>8 DEF Removing
  <2> QED BY <1>9, <2>1 DEF Removing, Subscribing
<1>11. id \notin DOMAIN keyLockMap' /\ Queue(id)' = <<>>
  BY <1>4 DEF Queue
<1>12. id \in used
  BY <1>3, <1>5 DEF IdOK, IdUsers
<1>13. \A d \in Users(id)' : d \in Removing(id) /\ id \in op'[d].got /\ op'[d].at # "second"
  BY <1>4, <1>6, <1>7, <1>8
<1> QED BY <1>9, <1>10, <1>11, <1>12, <1>13

\* And what it leaves of the rest, but for the records of its ids.
LEMMA FinishKeeps ==
  ASSUME RegistryInv, NEW c \in Calls, op[c].at \in {"first", "second"}, Finish(c),
         UNCHANGED <<subscriptions, used, lookup, cache>>,
         TypeOK',
         known \subseteq known',
         \A id \in SubscriptionIDs \ op[c].ids :
           /\ id \in log' <=> id \in log
           /\ id \in inputs' <=> id \in inputs
           /\ id \in known' <=> id \in known
           /\ id \in failed' <=> id \in failed,
         \A id \in op[c].ids : IdRecords(id)' /\ IdQuiet(id)'
  PROVE  RegistryInv'
<1>1. TypeOK /\ LookupOK /\ RegistryTypes
  BY DEF RegistryInv, RegistryTypes
<1>2. /\ DOMAIN keyLockMap' = DOMAIN keyLockMap \ op[c].ids
      /\ \A id \in DOMAIN keyLockMap' : keyLockMap'[id] = keyLockMap[id]
      /\ op'[c] = Idle
      /\ \A d \in Calls \ {c} :
           /\ op'[d].kind = op[d].kind /\ op'[d].ids = op[d].ids
           /\ op'[d].got = op[d].got \cup (op[d].ids \cap op[c].ids)
           /\ op'[d].at = IF op[d].at = "locking" /\ op'[d].got = op'[d].ids THEN "first" ELSE op[d].at
  BY FinishFacts
<1>3. RegistryTypes'
  BY <1>1, <1>2 DEF RegistryTypes
<1>4. \A d \in Calls : CallOK(d)'
  <2> TAKE d \in Calls
  <2>1. CallOK(d)
    BY DEF RegistryInv
  <2>2. CASE d = c
    BY <1>2, <2>2 DEF CallOK, Idle
  <2>3. CASE d # c
    <3>1. op'[d].got \subseteq op'[d].ids /\ (op[d].got = op[d].ids => op'[d].got = op'[d].ids)
      <4>1. op'[d].ids = op[d].ids /\ op'[d].got = op[d].got \cup (op[d].ids \cap op[c].ids)
        BY <1>2, <2>3
      <4>2. op[d].got \subseteq op[d].ids
        BY <2>1 DEF CallOK
      <4> QED BY <4>1, <4>2
    <3> QED BY <1>2, <2>1, <2>3, <3>1 DEF CallOK
  <2> QED BY <2>2, <2>3
<1>5. ASSUME NEW id \in SubscriptionIDs PROVE IdOK(id)'
  <2>1. IdOK(id)
    BY DEF RegistryInv
  <2>2. CASE id \notin op[c].ids
    <3>1. Queue(id)' = Queue(id) /\ (id \in DOMAIN keyLockMap' <=> id \in DOMAIN keyLockMap)
      BY <1>2, <2>2 DEF Queue
    <3>2. \A d \in Calls : /\ id \in op'[d].ids <=> id \in op[d].ids
                           /\ id \in op[d].ids => /\ op'[d].kind = op[d].kind
                                                  /\ id \in op'[d].got <=> id \in op[d].got
                                                  /\ op'[d].at = "second" <=> op[d].at = "second"
      BY <1>2, <2>2 DEF Idle
    <3>3. SameFor(id)
      BY <2>2, <3>1, <3>2 DEF SameFor
    <3> QED BY <2>1, <3>3, IdSame
  <2>3. CASE id \in op[c].ids
    <3>1. /\ Users(id)' = Removing(id) \ {c} /\ Removing(id)' = Removing(id) \ {c}
          /\ Subscribing(id)' = {}
          /\ id \notin DOMAIN keyLockMap' /\ Queue(id)' = <<>>
          /\ id \in used
          /\ \A d \in Users(id)' : d \in Removing(id) /\ id \in op'[d].got /\ op'[d].at # "second"
      BY <2>3, FinishUsers
    <3>2. IdUsers(id)'
      <4>1. \A d, e \in Users(id)' : d = e
        <5>1. \A d, e \in Removing(id) : d \in Users(id) /\ e \in Users(id) /\ op[d].kind = op[e].kind
          BY DEF Removing
        <5> QED BY <2>1, <3>1, <5>1 DEF IdOK, IdUsers
      <4>2. Removing(id) # {} => id \notin DOMAIN subscriptions
        BY <2>1 DEF IdOK, IdUsers
      <4> QED BY <3>1, <4>1, <4>2 DEF IdUsers
    <3>3. IdLocks(id)'
      BY <3>1 DEF IdLocks
    <3> QED BY <2>3, <3>2, <3>3 DEF IdOK
  <2> QED BY <2>2, <2>3
<1>6. LookupOK'
  BY <1>1 DEF LookupOK
<1> QED BY <1>3, <1>4, <1>5, <1>6 DEF RegistryInv

\* The second batch of a call is done.
LEMMA SecondBatch ==
  ASSUME RegistryInv, NEW c \in Calls, BatchSucceeds(c), op[c].at = "second"
  PROVE  RegistryInv'
<1> DEFINE ids == op[c].ids
<1>1. TypeOK /\ CallOK(c)
  BY DEF RegistryInv, RegistryTypes
<1>2. /\ ApplyBatch(op[c]) /\ Finish(c)
      /\ known' = IF op[c].kind = "subscribe" THEN known \cup ids ELSE known
      /\ UNCHANGED <<subscriptions, used, failed, lookup, cache>>
  BY DEF BatchSucceeds
<1>3. op[c].kind \in {"subscribe", "unsubscribe"} /\ op[c].got = ids /\ ids \subseteq SubscriptionIDs
  BY <1>1 DEF CallOK, TypeOK
<1>4. /\ op[c].kind = "subscribe" => log' = log /\ inputs' = inputs \cup ids
      /\ op[c].kind = "unsubscribe" => log' = log \ ids /\ inputs' = inputs
  BY <1>2, <1>3 DEF ApplyBatch, WritesLog, Applied
<1>5. TypeOK'
  <2>1. op' \in [Calls -> [kind : {"idle", "subscribe", "unsubscribe"},
                           ids : SUBSET SubscriptionIDs, got : SUBSET SubscriptionIDs,
                           at : {"idle", "locking", "first", "second"}]]
    BY <1>2, FinishFacts
  <2>2. log' \subseteq SubscriptionIDs /\ inputs' \subseteq SubscriptionIDs /\ known' \subseteq SubscriptionIDs
    BY <1>1, <1>2, <1>3, <1>4 DEF TypeOK
  <2> QED BY <1>1, <1>2, <2>1, <2>2 DEF TypeOK
<1>6. ASSUME NEW id \in ids PROVE IdRecords(id)' /\ IdQuiet(id)'
  <2>1. IdOK(id)
    BY <1>3 DEF RegistryInv
  <2>2. /\ Users(id)' = Removing(id) \ {c} /\ Removing(id)' = Removing(id) \ {c}
        /\ Subscribing(id)' = {}
        /\ \A d \in Users(id)' : op'[d].at # "second"
    BY <1>2, FinishUsers
  <2>3. c \in Users(id)
    BY DEF Users
  <2>4. CASE op[c].kind = "subscribe"
    <3>1. c \in Subscribing(id) /\ c \notin Removing(id)
      BY <2>3, <2>4 DEF Subscribing, Removing
    <3>2. id \in log' /\ id \in inputs'
      BY <1>4, <2>1, <2>4, <3>1 DEF IdOK, IdRecords
    <3>3. IdRecords(id)'
      BY <2>2, <3>2 DEF IdRecords
    <3>4. Removing(id) = {} /\ id \notin failed => id \in DOMAIN subscriptions
      BY <2>1, <3>1 DEF IdOK, IdQuiet
    <3>5. IdQuiet(id)'
      BY <1>2, <2>2, <3>1, <3>2, <3>4 DEF IdQuiet
    <3> QED BY <3>3, <3>5
  <2>5. CASE op[c].kind = "unsubscribe"
    <3>1. c \in Removing(id) /\ id \notin DOMAIN subscriptions
      BY <2>1, <2>3, <2>5 DEF Removing, IdOK, IdUsers
    <3>2. Removing(id) \ {c} = {}
      <4>1. \A d \in Removing(id) : d \in Users(id) /\ op[d].kind = op[c].kind
        BY <2>5 DEF Removing
      <4> QED BY <2>1, <2>3, <4>1 DEF IdOK, IdUsers
    <3>3. id \notin log' /\ id \notin inputs'
      BY <1>4, <2>1, <2>5, <3>1 DEF IdOK, IdRecords
    <3> QED BY <1>2, <2>2, <3>1, <3>2, <3>3 DEF IdRecords, IdQuiet
  <2> QED BY <1>3, <2>4, <2>5
<1>7. \A id \in SubscriptionIDs \ ids :
        /\ id \in log' <=> id \in log
        /\ id \in inputs' <=> id \in inputs
        /\ id \in known' <=> id \in known
        /\ id \in failed' <=> id \in failed
  BY <1>2, <1>3, <1>4
<1>8. known \subseteq known'
  BY <1>2
<1> QED BY <1>2, <1>5, <1>6, <1>7, <1>8, FinishKeeps

\* A batch fails, applied or not.
LEMMA FailedBatch ==
  ASSUME RegistryInv, NEW c \in Calls, BatchFails(c)
  PROVE  RegistryInv'
<1> DEFINE ids == op[c].ids
<1>1. TypeOK /\ CallOK(c)
  BY DEF RegistryInv, RegistryTypes
<1>2. /\ ApplyBatch(op[c]) \/ UNCHANGED <<log, inputs>>
      /\ Finish(c) /\ op[c].at \in {"first", "second"} /\ failed' = failed \cup ids
      /\ UNCHANGED <<subscriptions, known, used, lookup, cache>>
  BY DEF BatchFails
<1>3. op[c].kind \in {"subscribe", "unsubscribe"} /\ op[c].got = ids /\ ids \subseteq SubscriptionIDs
  BY <1>1, <1>2 DEF CallOK, TypeOK
<1>4. \/ log' = log /\ inputs' = inputs
      \/ /\ op[c].kind = "subscribe" /\ op[c].at = "first"
         /\ log' = log \cup ids /\ inputs' = inputs
      \/ /\ op[c].kind = "subscribe" /\ op[c].at = "second"
         /\ log' = log /\ inputs' = inputs \cup ids
      \/ /\ op[c].kind = "unsubscribe" /\ op[c].at = "first"
         /\ log' = log /\ inputs' = inputs \ ids
      \/ /\ op[c].kind = "unsubscribe" /\ op[c].at = "second"
         /\ log' = log \ ids /\ inputs' = inputs
  BY <1>2, <1>3 DEF ApplyBatch, WritesLog, Applied
<1>5. TypeOK'
  <2>1. op' \in [Calls -> [kind : {"idle", "subscribe", "unsubscribe"},
                           ids : SUBSET SubscriptionIDs, got : SUBSET SubscriptionIDs,
                           at : {"idle", "locking", "first", "second"}]]
    BY <1>2, FinishFacts
  <2>2. log' \subseteq SubscriptionIDs /\ inputs' \subseteq SubscriptionIDs /\ failed' \subseteq SubscriptionIDs
    BY <1>1, <1>2, <1>3, <1>4 DEF TypeOK
  <2> QED BY <1>1, <1>2, <2>1, <2>2 DEF TypeOK
<1>6. ASSUME NEW id \in ids PROVE IdRecords(id)' /\ IdQuiet(id)'
  <2>1. IdOK(id)
    BY <1>3 DEF RegistryInv
  <2>2. /\ Removing(id)' = Removing(id) \ {c}
        /\ Subscribing(id)' = {}
        /\ \A d \in Users(id)' : op'[d].at # "second"
    BY <1>2, FinishUsers
  <2>3. c \in Users(id)
    BY DEF Users
  <2>4. id \in inputs' => id \in log'
    <3>1. op[c].kind = "subscribe" => id \notin inputs /\ (id \in log <=> op[c].at = "second")
      BY <2>1, <2>3 DEF IdOK, IdRecords, Subscribing
    <3>2. op[c].kind = "unsubscribe" /\ op[c].at = "second" => id \notin inputs
      BY <2>1, <2>3 DEF IdOK, IdRecords, Removing
    <3>3. id \in inputs => id \in log
      BY <2>1 DEF IdOK, IdRecords
    <3> QED BY <1>4, <3>1, <3>2, <3>3
  <2>5. id \notin known \cap DOMAIN subscriptions
    <3>1. op[c].kind = "subscribe" => c \in Subscribing(id)
      BY <2>3 DEF Subscribing
    <3>2. op[c].kind = "unsubscribe" => c \in Removing(id)
      BY <2>3 DEF Removing
    <3> QED BY <1>3, <2>1, <3>1, <3>2 DEF IdOK, IdUsers
  <2>6. \A d \in Removing(id)' : op'[d].at # "second"
    BY <2>2 DEF Removing
  <2>7. IdRecords(id)'
    BY <1>2, <2>2, <2>4, <2>5, <2>6 DEF IdRecords
  <2> QED BY <1>2, <2>7 DEF IdQuiet
<1>7. \A id \in SubscriptionIDs \ ids :
        /\ id \in log' <=> id \in log
        /\ id \in inputs' <=> id \in inputs
        /\ id \in known' <=> id \in known
        /\ id \in failed' <=> id \in failed
  BY <1>2, <1>4
<1> QED BY <1>2, <1>5, <1>6, <1>7, FinishKeeps

\* A call begins: the records stay, its ids get a user.
LEMMA StartKeeps ==
  ASSUME RegistryInv, NEW c \in Calls, NEW kind \in {"subscribe", "unsubscribe"},
         NEW ids \in SUBSET SubscriptionIDs, Start(c, kind, ids),
         \A id \in ids : Removing(id) = {},
         kind = "subscribe" => ids \cap DOMAIN keyLockMap = {},
         UNCHANGED <<log, inputs, known, failed, cache>>,
         TypeOK', LookupOK',
         \A id \in SubscriptionIDs \ ids : /\ id \in DOMAIN subscriptions' <=> id \in DOMAIN subscriptions
                                           /\ id \in used' <=> id \in used,
         \A id \in ids : Users(id)' = Users(id) \cup {c} => IdUsers(id)' /\ IdRecords(id)' /\ IdQuiet(id)'
  PROVE  RegistryInv'
<1> DEFINE new == Entered(kind, ids)
<1>1. /\ DOMAIN keyLockMap' = DOMAIN keyLockMap \cup ids
      /\ \A id \in DOMAIN keyLockMap' : keyLockMap'[id] \in [acquired : {TRUE}, queue : Seq(Calls)]
      /\ \A id \in SubscriptionIDs \ ids : Queue(id)' = Queue(id)
      /\ \A id \in ids : Queue(id)' = IF id \in DOMAIN keyLockMap THEN <<c>> ELSE <<>>
      /\ op[c] = Idle
      /\ op' = [op EXCEPT ![c] = new]
  <2>1. Queued(c, kind, ids)
    BY StartFacts
  <2> QED BY <2>1 DEF Queued
<1>2. TypeOK /\ RegistryTypes
  BY DEF RegistryInv, RegistryTypes
<1>3. /\ op'[c] = new /\ \A d \in Calls \ {c} : op'[d] = op[d]
      /\ new.kind = kind /\ new.ids = ids /\ new.got = ids \ DOMAIN keyLockMap
      /\ new.at = IF ids \cap DOMAIN keyLockMap = {} THEN "first" ELSE "locking"
  BY <1>1, <1>2 DEF TypeOK, Entered
<1>4. RegistryTypes'
  BY <1>1, <1>2 DEF RegistryTypes
<1>5. \A d \in Calls : CallOK(d)'
  <2>1. \A d \in Calls : CallOK(d)
    BY DEF RegistryInv
  <2>2. ids \cap DOMAIN keyLockMap = {} => ids \ DOMAIN keyLockMap = ids
    OBVIOUS
  <2>3. CallOK(c)'
    <3>1. op'[c].got \subseteq op'[c].ids
      BY <1>3
    <3> QED BY <1>3, <2>2, <3>1 DEF CallOK
  <2> QED BY <1>3, <2>1, <2>3 DEF CallOK
<1>6. ASSUME NEW id \in SubscriptionIDs PROVE IdOK(id)'
  <2>1. IdOK(id)
    BY DEF RegistryInv
  <2>2. CASE id \notin ids
    <3>1. id \in DOMAIN keyLockMap' <=> id \in DOMAIN keyLockMap
      BY <1>1, <2>2
    <3>2. \A d \in Calls : /\ id \in op'[d].ids <=> id \in op[d].ids
                           /\ id \in op[d].ids => op'[d] = op[d]
      BY <1>1, <1>3, <2>2 DEF Idle
    <3>3. SameFor(id)
      BY <1>1, <2>2, <3>1, <3>2 DEF SameFor
    <3> QED BY <2>1, <3>3, IdSame
  <2>3. CASE id \in ids
    <3>1. Users(id)' = Users(id) \cup {c}
      BY <1>3, <2>3 DEF Users
    <3>2. \A d \in Users(id) : d # c /\ d \in Calls /\ op'[d] = op[d] /\ id \in op[d].got
      <4> TAKE d \in Users(id)
      <4>1. d # c /\ d \in Calls
        BY <1>1 DEF Users, Idle
      <4>2. d \notin Removing(id)
        BY <2>3
      <4>3. id \in op[d].got
        BY <4>2, WaitingRemoves
      <4> QED BY <1>3, <4>1, <4>3
    <3>3. IdLocks(id)'
      <4>1. id \in DOMAIN keyLockMap' /\ op'[c].kind = kind
            /\ (id \in op'[c].got <=> id \notin DOMAIN keyLockMap)
        BY <1>1, <1>3, <2>3
      <4>2. id \notin DOMAIN keyLockMap => Subscribing(id) = {}
        BY <2>1 DEF IdOK, IdLocks
      <4>3. id \notin DOMAIN keyLockMap /\ kind = "unsubscribe" => Subscribing(id)' = {}
        BY <3>1, <3>2, <4>1, <4>2 DEF Subscribing
      <4>4. \A d \in Removing(id)' : d = c
        <5>1. \A d \in Users(id) : op[d].kind # "unsubscribe"
          BY <2>3 DEF Removing
        <5> QED BY <3>1, <3>2, <5>1 DEF Removing
      <4>5. Removing(id)' # {} => kind = "unsubscribe"
        BY <4>1, <4>4 DEF Removing
      <4>6. \A d \in Users(id)' : id \notin op'[d].got => d = c
        BY <3>1, <3>2
      <4>7. Queue(id)' = IF id \in DOMAIN keyLockMap THEN <<c>> ELSE <<>>
        BY <1>1, <2>3
      <4>8. c \in Users(id)'
        BY <3>1
      <4> QED BY <4>1, <4>3, <4>4, <4>5, <4>6, <4>7, <4>8 DEF IdLocks
    <3> QED BY <2>3, <3>1, <3>3 DEF IdOK
  <2> QED BY <2>2, <2>3
<1> QED BY <1>4, <1>5, <1>6 DEF RegistryInv

\* subscribe draws an id that nobody uses.
LEMMA SubscribeKeeps ==
  ASSUME RegistryInv, NEW c \in Calls, NEW s \in SubscriberIDs, NEW id \in SubscriptionIDs,
         subscribe(c, s, id)
  PROVE  RegistryInv'
<1>1. /\ id \notin used /\ Start(c, "subscribe", {id})
      /\ subscriptions' = [i \in DOMAIN subscriptions \cup {id} |-> IF i = id THEN s ELSE subscriptions[i]]
      /\ used' = used \cup {id}
      /\ UNCHANGED <<log, inputs, known, failed, lookup, cache>>
  BY DEF subscribe
<1>2. TypeOK /\ LookupOK
  BY DEF RegistryInv, RegistryTypes
<1>3. /\ Users(id) = {} /\ id \notin DOMAIN keyLockMap
      /\ id \notin DOMAIN subscriptions \cup known \cup log \cup inputs
  BY <1>1 DEF RegistryInv, IdOK, IdUsers
<1>4. Removing(id) = {}
  BY <1>3 DEF Removing
<1>5. {id} \cap DOMAIN keyLockMap = {} /\ {id} \ DOMAIN keyLockMap = {id}
  BY <1>3
<1>6. op' = [op EXCEPT ![c] = [kind |-> "subscribe", ids |-> {id}, got |-> {id}, at |-> "first"]]
  <2>1. op' = [op EXCEPT ![c] = Entered("subscribe", {id})]
    <3>1. {id} \in SUBSET SubscriptionIDs
      OBVIOUS
    <3>2. \A i \in {id} : Removing(i) = {}
      BY <1>4
    <3>3. Queued(c, "subscribe", {id})
      BY <1>1, <3>1, <3>2, StartFacts
    <3> QED BY <3>3 DEF Queued
  <2> QED BY <1>5, <2>1 DEF Entered
<1>7. TypeOK'
  <2>1. op' \in [Calls -> [kind : {"idle", "subscribe", "unsubscribe"},
                           ids : SUBSET SubscriptionIDs, got : SUBSET SubscriptionIDs,
                           at : {"idle", "locking", "first", "second"}]]
    BY <1>2, <1>6 DEF TypeOK
  <2>2. DOMAIN subscriptions' \subseteq SubscriptionIDs /\ \A i \in DOMAIN subscriptions' : subscriptions'[i] \in SubscriberIDs
    BY <1>1, <1>2 DEF TypeOK
  <2>3. used' \subseteq SubscriptionIDs
    BY <1>1, <1>2 DEF TypeOK
  <2> QED BY <1>1, <1>2, <2>1, <2>2, <2>3 DEF TypeOK
<1>8. LookupOK'
  <2>1. DOMAIN subscriptions \subseteq DOMAIN subscriptions'
    BY <1>1
  <2> QED BY <1>1, <1>2, <2>1 DEF LookupOK
<1>9. ASSUME Users(id)' = Users(id) \cup {c} PROVE IdUsers(id)' /\ IdRecords(id)' /\ IdQuiet(id)'
  <2>1. Users(id)' = {c}
    BY <1>3, <1>9
  <2>2. op'[c].kind = "subscribe" /\ op'[c].at = "first"
    BY <1>2, <1>6 DEF TypeOK
  <2>3. Subscribing(id)' = {c} /\ Removing(id)' = {}
    BY <2>1, <2>2 DEF Subscribing, Removing
  <2>4. id \in DOMAIN subscriptions' /\ id \in used'
    BY <1>1
  <2> QED BY <1>1, <1>3, <2>1, <2>2, <2>3, <2>4 DEF IdUsers, IdRecords, IdQuiet
<1>10. \A i \in SubscriptionIDs \ {id} : /\ i \in DOMAIN subscriptions' <=> i \in DOMAIN subscriptions
                                         /\ i \in used' <=> i \in used
  BY <1>1
<1> QED BY <1>1, <1>4, <1>5, <1>7, <1>8, <1>9, <1>10, StartKeeps

\* unsubscribe and unsubscribeAll take subscriptions that are in memory.
LEMMA UnsubscribeKeeps ==
  ASSUME RegistryInv, NEW c \in Calls, NEW ids \in SUBSET DOMAIN subscriptions,
         Start(c, "unsubscribe", ids),
         subscriptions' = Forget(ids),
         lookup' = [lookup EXCEPT !.owed = @ \ ids],
         UNCHANGED <<log, inputs, known, used, failed, cache>>
  PROVE  RegistryInv'
<1>1. TypeOK /\ LookupOK
  BY DEF RegistryInv, RegistryTypes
<1>2. ids \in SUBSET SubscriptionIDs
  BY <1>1 DEF TypeOK
<1>3. \A id \in ids : IdOK(id) /\ Removing(id) = {}
  BY <1>2 DEF RegistryInv, IdOK, IdUsers
<1>4. op' = [op EXCEPT ![c] = [kind |-> "unsubscribe", ids |-> ids, got |-> ids \ DOMAIN keyLockMap,
                               at |-> IF ids \cap DOMAIN keyLockMap = {} THEN "first" ELSE "locking"]]
      /\ op[c] = Idle
  <2>1. Queued(c, "unsubscribe", ids)
    BY <1>2, <1>3, StartFacts
  <2> QED BY <2>1 DEF Queued, Entered
<1>5. DOMAIN subscriptions' = DOMAIN subscriptions \ ids /\ \A i \in DOMAIN subscriptions' : subscriptions'[i] = subscriptions[i]
  BY DEF Forget
<1>6. TypeOK'
  <2>1. ids \ DOMAIN keyLockMap \in SUBSET SubscriptionIDs
    BY <1>2
  <2>2. op' \in [Calls -> [kind : {"idle", "subscribe", "unsubscribe"},
                           ids : SUBSET SubscriptionIDs, got : SUBSET SubscriptionIDs,
                           at : {"idle", "locking", "first", "second"}]]
    BY <1>1, <1>2, <1>4, <2>1 DEF TypeOK
  <2> QED BY <1>1, <1>5, <2>2 DEF TypeOK
<1>7. LookupOK'
  <2>1. lookup' \in [at : {"idle", "log", "done"}, seen : SUBSET SubscriptionIDs, owed : SUBSET SubscriptionIDs]
        /\ lookup'.at = lookup.at /\ lookup'.seen = lookup.seen /\ lookup'.owed = lookup.owed \ ids
    BY <1>1 DEF LookupOK
  <2> QED BY <1>1, <1>5, <2>1 DEF LookupOK
<1>8. ASSUME NEW id \in ids, Users(id)' = Users(id) \cup {c}
      PROVE  IdUsers(id)' /\ IdRecords(id)' /\ IdQuiet(id)'
  <2>1. op'[c].kind = "unsubscribe" /\ op'[c].at # "second"
    BY <1>1, <1>4 DEF TypeOK
  <2>2. \A d \in Users(id) : d # c /\ op'[d] = op[d]
    BY <1>1, <1>4 DEF Users, Idle, TypeOK
  <2>3. IdOK(id) /\ Removing(id) = {}
    BY <1>3
  <2>4. \A d \in Users(id) : op[d].kind # "unsubscribe"
    BY <2>3 DEF Removing
  <2>5. Subscribing(id)' = Subscribing(id) /\ Removing(id)' = {c}
    BY <1>8, <2>1, <2>2, <2>4 DEF Subscribing, Removing
  <2>6. id \in DOMAIN subscriptions /\ id \notin DOMAIN subscriptions'
    BY <1>5
  <2>7. id \in used
    BY <2>3, <2>6 DEF IdOK, IdUsers
  <2>8. Subscribing(id) = {} => Users(id) = {}
    BY <1>2, <2>3, WaitingRemoves
  <2>9. \A d \in Subscribing(id) : d \in Users(id) /\ op'[d] = op[d]
    BY <2>2 DEF Subscribing
  <2>10. IdUsers(id)'
    <3>1. \A d, e \in Users(id)' : op'[d].kind = op'[e].kind => d = e
      BY <1>8, <2>1, <2>2, <2>3, <2>4 DEF IdOK, IdUsers
    <3> QED BY <2>3, <2>5, <2>6, <2>7, <3>1 DEF IdOK, IdUsers
  <2>11. IdRecords(id)'
    BY <2>1, <2>3, <2>5, <2>6, <2>9 DEF IdOK, IdRecords
  <2>12. IdQuiet(id)'
    BY <1>8, <2>1, <2>3, <2>5, <2>6, <2>8 DEF IdOK, IdQuiet
  <2> QED BY <2>10, <2>11, <2>12
<1>9. \A i \in SubscriptionIDs \ ids : i \in DOMAIN subscriptions' <=> i \in DOMAIN subscriptions
  BY <1>5
<1> QED BY <1>2, <1>3, <1>6, <1>7, <1>8, <1>9, StartKeeps

\* The server starts again with empty memory.
LEMMA RestartKeeps ==
  ASSUME RegistryInv, Restart
  PROVE  RegistryInv'
<1>1. TypeOK /\ LookupOK
  BY DEF RegistryInv, RegistryTypes
<1>2. /\ DOMAIN subscriptions' = {} /\ DOMAIN keyLockMap' = {}
      /\ op' = [c \in Calls |-> Idle]
      /\ known' = {} /\ failed' = failed \cup used
      /\ lookup' = [lookup EXCEPT !.owed = {}]
      /\ UNCHANGED <<log, inputs, used, cache>>
  BY DEF Restart, EmptyLockMap
<1>3. \A c \in Calls : op'[c].kind = "idle" /\ op'[c].ids = {} /\ op'[c].got = {} /\ op'[c].at = "idle"
  BY <1>2 DEF Idle
<1>4. TypeOK' /\ RegistryTypes'
  <2>1. op' \in [Calls -> [kind : {"idle", "subscribe", "unsubscribe"},
                           ids : SUBSET SubscriptionIDs, got : SUBSET SubscriptionIDs,
                           at : {"idle", "locking", "first", "second"}]]
    BY <1>2 DEF Idle
  <2>2. TypeOK'
    BY <1>1, <1>2, <2>1 DEF TypeOK
  <2> QED BY <1>2, <2>2 DEF RegistryTypes
<1>5. \A c \in Calls : CallOK(c)'
  BY <1>3 DEF CallOK
<1>6. ASSUME NEW id \in SubscriptionIDs PROVE IdOK(id)'
  <2>1. Users(id)' = {} /\ Subscribing(id)' = {} /\ Removing(id)' = {} /\ Queue(id)' = <<>>
    BY <1>2, <1>3 DEF Users, Subscribing, Removing, Queue
  <2>2. IdOK(id)
    BY DEF RegistryInv
  <2>3. IdUsers(id)'
    BY <1>2, <2>1, <2>2 DEF IdOK, IdUsers
  <2>4. IdLocks(id)' /\ IdRecords(id)'
    BY <1>2, <2>1, <2>2 DEF IdOK, IdLocks, IdRecords
  <2>5. IdQuiet(id)'
    BY <1>2, <2>1, <2>2 DEF IdOK, IdUsers, IdQuiet
  <2> QED BY <2>3, <2>4, <2>5 DEF IdOK
<1>7. LookupOK'
  BY <1>1, <1>2 DEF LookupOK
<1> QED BY <1>4, <1>5, <1>6, <1>7 DEF RegistryInv

\* The lookups of the other server.
LEMMA LookupKeeps ==
  ASSUME RegistryInv, LookupInputs \/ LookupLog \/ CacheExpires
  PROVE  RegistryInv'
<1>1. TypeOK /\ LookupOK /\ RegistryTypes
  BY DEF RegistryInv, RegistryTypes
<1>2. UNCHANGED <<subscriptions, keyLockMap, op, log, inputs, known, used, failed>>
  BY DEF LookupInputs, LookupLog, CacheExpires
<1>3. cache'.ids \subseteq SubscriptionIDs /\ LookupOK'
  <2>1. \A id \in known \cap DOMAIN subscriptions : id \in log /\ id \in inputs
    BY <1>1 DEF RegistryInv, IdOK, IdRecords, TypeOK
  <2>2. CASE LookupInputs
    <3>1. lookup' = [at |-> "log", seen |-> inputs, owed |-> Established] /\ cache' = cache
      BY <2>2 DEF LookupInputs
    <3> QED BY <1>1, <1>2, <2>1, <3>1 DEF LookupOK, TypeOK, Established
  <2>3. CASE LookupLog
    <3>1. /\ lookup.at = "log"
          /\ cache' = [filled |-> TRUE, ids |-> lookup.seen \cap log]
          /\ lookup' = [lookup EXCEPT !.at = "done"]
      BY <2>3 DEF LookupLog
    <3>2. lookup.owed \subseteq lookup.seen \cap log
      BY <1>1, <2>1, <3>1 DEF LookupOK
    <3> QED BY <1>1, <1>2, <3>1, <3>2 DEF LookupOK, TypeOK
  <2>4. CASE CacheExpires
    BY <2>4 DEF CacheExpires, LookupOK, NoLookup, NoCache
  <2> QED BY <2>2, <2>3, <2>4
<1>4. TypeOK'
  BY <1>1, <1>2, <1>3 DEF TypeOK
<1>5. RegistryTypes'
  BY <1>1, <1>2, <1>4 DEF RegistryTypes
<1>6. \A c \in Calls : CallOK(c)'
  BY <1>2 DEF RegistryInv, CallOK
<1>7. ASSUME NEW id \in SubscriptionIDs PROVE IdOK(id)'
  <2>1. SameFor(id)
    BY <1>2 DEF SameFor, Queue
  <2> QED BY <2>1, IdSame DEF RegistryInv
<1> QED BY <1>3, <1>5, <1>6, <1>7 DEF RegistryInv

-----------------------------------------------------------------------------
(* The registry: the invariant and its consequences *)

LEMMA RegistryInit == Init => RegistryInv
<1> SUFFICES ASSUME Init PROVE RegistryInv
  OBVIOUS
<1>1. /\ DOMAIN subscriptions = {} /\ DOMAIN keyLockMap = {}
      /\ op = [c \in Calls |-> Idle]
      /\ log = {} /\ inputs = {} /\ known = {} /\ used = {} /\ failed = {}
      /\ lookup = NoLookup /\ cache = NoCache
  BY DEF Init, EmptyLockMap
<1>2. \A c \in Calls : op[c].kind = "idle" /\ op[c].ids = {} /\ op[c].got = {} /\ op[c].at = "idle"
  BY <1>1 DEF Idle
<1>3. RegistryTypes
  BY <1>1 DEF RegistryTypes, TypeOK, Idle, NoCache
<1>4. \A c \in Calls : CallOK(c)
  BY <1>2 DEF CallOK
<1>5. ASSUME NEW id \in SubscriptionIDs PROVE IdOK(id)
  <2>1. Users(id) = {} /\ Subscribing(id) = {} /\ Removing(id) = {} /\ Queue(id) = <<>>
    BY <1>1, <1>2 DEF Users, Subscribing, Removing, Queue
  <2> QED BY <1>1, <2>1 DEF IdOK, IdUsers, IdLocks, IdRecords, IdQuiet
<1>6. LookupOK
  BY <1>1 DEF LookupOK, NoLookup, NoCache
<1> QED BY <1>3, <1>4, <1>5, <1>6 DEF RegistryInv

LEMMA RegistryStep == RegistryInv /\ [Next]_vars => RegistryInv'
<1> SUFFICES ASSUME RegistryInv, [Next]_vars PROVE RegistryInv'
  OBVIOUS
<1>1. ASSUME NEW c \in Calls, NEW id \in SubscriptionIDs, unsubscribe(c, id)
      PROVE  RegistryInv'
  <2>1. {id} \in SUBSET DOMAIN subscriptions
    BY <1>1 DEF unsubscribe
  <2> QED BY <1>1, <2>1, UnsubscribeKeeps DEF unsubscribe
<1>2. ASSUME NEW c \in Calls, NEW id \in SubscriptionIDs, NEW s \in SubscriberIDs, subscribe(c, s, id)
      PROVE  RegistryInv'
  BY <1>2, SubscribeKeeps
<1>3. ASSUME NEW c \in Calls, NEW s \in SubscriberIDs, unsubscribeAll(c, s)
      PROVE  RegistryInv'
  <2>1. Mine(s) \in SUBSET DOMAIN subscriptions
    BY DEF Mine
  <2> QED BY <1>3, <2>1, UnsubscribeKeeps DEF unsubscribeAll
<1>4. ASSUME NEW c \in Calls, BatchSucceeds(c)
      PROVE  RegistryInv'
  <2>1. op[c].at \in {"first", "second"}
    BY <1>4 DEF BatchSucceeds
  <2> QED BY <1>4, <2>1, FirstBatch, SecondBatch
<1>5. ASSUME NEW c \in Calls, BatchFails(c)
      PROVE  RegistryInv'
  BY <1>5, FailedBatch
<1>6. CASE Restart
  BY <1>6, RestartKeeps
<1>7. CASE LookupInputs \/ LookupLog \/ CacheExpires
  BY <1>7, LookupKeeps
<1>8. CASE UNCHANGED vars
  <2>1. UNCHANGED <<subscriptions, keyLockMap, op, log, inputs, known, used, failed, lookup, cache>>
    BY <1>8 DEF vars
  <2>2. RegistryTypes' /\ LookupOK' /\ \A c \in Calls : CallOK(c)'
    BY <2>1 DEF RegistryInv, RegistryTypes, TypeOK, LookupOK, CallOK
  <2>3. ASSUME NEW id \in SubscriptionIDs PROVE IdOK(id)'
    <3>1. SameFor(id)
      BY <2>1 DEF SameFor, Queue
    <3> QED BY <3>1, IdSame DEF RegistryInv
  <2> QED BY <2>2, <2>3 DEF RegistryInv
<1> QED BY <1>1, <1>2, <1>3, <1>4, <1>5, <1>6, <1>7, <1>8 DEF Next

LEMMA RegistryInvariant == Spec => []RegistryInv
<1> QED BY RegistryInit, RegistryStep, PTL DEF Spec

\* Of two calls that use an id, the one that unsubscribes waits.
LEMMA OneWriter == RegistryInv => OneWriterPerSubscription
<1> SUFFICES ASSUME RegistryInv, NEW id \in SubscriptionIDs
             PROVE  Cardinality(Writers(id)) <= 1
  BY DEF OneWriterPerSubscription
<1>1. IdOK(id)
  BY DEF RegistryInv
<1>2. \A c \in Writers(id) : c \in Users(id) /\ id \in op[c].got
  BY DEF Writers, Users, RegistryInv, CallOK
<1>3. ASSUME NEW c \in Writers(id), NEW d \in Writers(id), c # d
      PROVE  FALSE
  <2>1. c \in Removing(id) => Subscribing(id) = {}
    BY <1>1, <1>2 DEF IdOK, IdLocks
  <2>2. d \in Removing(id) => Subscribing(id) = {}
    BY <1>1, <1>2 DEF IdOK, IdLocks
  <2>3. (c \in Subscribing(id) \/ c \in Removing(id)) /\ (d \in Subscribing(id) \/ d \in Removing(id))
    BY <1>2, WaitingRemoves
  <2>4. op[c].kind = op[d].kind
    BY <2>1, <2>2, <2>3 DEF Subscribing, Removing
  <2> QED BY <1>1, <1>2, <1>3, <2>4 DEF IdOK, IdUsers
<1>4. CASE Writers(id) = {}
  <2>1. Cardinality(Writers(id)) = 0
    BY <1>4, FS_EmptySet
  <2> QED BY <2>1
<1>5. ASSUME NEW c \in Writers(id)
      PROVE  Cardinality(Writers(id)) <= 1
  <2>1. Writers(id) = {c}
    BY <1>3, <1>5
  <2>2. Cardinality({c}) = 1
    BY FS_Singleton
  <2>3. Cardinality(Writers(id)) = 1
    BY <2>1, <2>2, Zenon
  <2> QED BY <2>3
<1> QED BY <1>4, <1>5

\* A queue is empty or has the one call that waits.
LEMMA QueuesMatch == RegistryInv => LockQueuesMatchCalls
<1> SUFFICES ASSUME RegistryInv, NEW id \in SubscriptionIDs, NEW c \in Calls
             PROVE  (id \in op[c].ids \ op[c].got) <=> (\E i \in DOMAIN Queue(id) : Queue(id)[i] = c)
  BY DEF LockQueuesMatchCalls, RegistryInv, RegistryTypes, Queue
<1>1. IdLocks(id)
  BY DEF RegistryInv, IdOK
<1>2. ASSUME id \in op[c].ids \ op[c].got
      PROVE  \E i \in DOMAIN Queue(id) : Queue(id)[i] = c
  <2>1. Queue(id) = <<c>>
    BY <1>1, <1>2 DEF IdLocks, Users
  <2>2. 1 \in DOMAIN <<c>> /\ <<c>>[1] = c
    OBVIOUS
  <2> QED BY <2>1, <2>2
<1>3. ASSUME NEW i \in DOMAIN Queue(id), Queue(id)[i] = c
      PROVE  id \in op[c].ids \ op[c].got
  <2>1. Queue(id) # <<>>
    BY <1>3
  <2>2. PICK d \in Users(id) : id \notin op[d].got /\ Queue(id) = <<d>>
    BY <1>1, <2>1 DEF IdLocks
  <2>3. \A j \in DOMAIN <<d>> : <<d>>[j] = d
    OBVIOUS
  <2>4. c = d
    BY <1>3, <2>2, <2>3
  <2> QED BY <2>2, <2>4 DEF Users
<1> QED BY <1>2, <1>3

\* However the calls of a server race, fail and are cut off, each waits on
\* exactly the locks it has not been given, one at a time writes the records
\* of a subscription, and its input entries never exist without its log entry.
THEOREM RecordsWrittenInOrder == Spec => []RecordsAreWrittenInOrder
<1>1. RegistryInv => RecordsAreWrittenInOrder
  <2> SUFFICES ASSUME RegistryInv PROVE RecordsAreWrittenInOrder
    OBVIOUS
  <2>1. InputsImplyLog
    <3>1. \A id \in inputs : id \in SubscriptionIDs
      BY DEF RegistryInv, RegistryTypes, TypeOK
    <3> QED BY <3>1 DEF InputsImplyLog, RegistryInv, IdOK, IdRecords
  <2> QED BY <2>1, OneWriter, QueuesMatch DEF RecordsAreWrittenInOrder
<1> QED BY <1>1, RegistryInvariant, PTL

\* Memory and database agree on every subscription that is not being worked on
\* and of which no batch failed.
THEOREM MemoryMatchesRecords == Spec => []QuietRecordsMatchMemory
<1>1. RegistryInv => QuietRecordsMatchMemory
  BY DEF QuietRecordsMatchMemory, RegistryInv, IdOK, IdQuiet
<1> QED BY <1>1, RegistryInvariant, PTL

\* Another server finds every subscription that was established before it
\* looked and not cancelled since.
THEOREM EstablishedAreFound == Spec => []LookupFindsEstablished
<1>1. RegistryInv => LookupFindsEstablished
  BY DEF LookupFindsEstablished, RegistryInv, LookupOK
<1> QED BY <1>1, RegistryInvariant, PTL

-----------------------------------------------------------------------------
(* The clients: the invariant *)

\* The /subscribe calls take their numbers in order.
Taken == {n \in CallNumbers : calls[n].at # "new"}
NumbersAreTaken == \E k \in 0..MaxCalls : Taken = 1..k

\* What the application cancelled and the server has not been told of yet.
Covered(c, n) == /\ unsub[c] # NoUnsub
                 /\ n \in unsub[c].ids \/ (unsub[c].ids = {} /\ calls[n].selection = unsub[c].selection)

\* The registry, the application and the strays have calls that got that far.
NumberOK(n) ==
  /\ n \in registry => calls[n].at \in {"batches", "answer", "done"}
  /\ n \in wanted => calls[n].at = "done"
  /\ n \in stray => n \in registry /\ calls[n].client \in disturbed
  /\ n \in registry \ stray => LET c == calls[n].client
                               IN  c \in Connected /\ (calls[n].at = "batches" \/ calls[n].selection \in DOMAIN selectors[c])

ClientOK(c) ==
  /\ socket[c] = "closed" <=> c \notin Connected
  /\ held[c] \subseteq {n \in Of(c) : calls[n].at = "done"}
  /\ unsub[c] # NoUnsub => unsub[c].ids \subseteq {n \in Of(c) : calls[n].at = "done"}

\* A call that the server has taken is in the registry until a cancellation
\* that covers it arrives; the client holds it from the answer to that
\* cancellation or the next connection.
Registered(c) ==
  /\ \A n \in Of(c) : calls[n].at \in {"batches", "answer"} => n \in registry
  /\ \A n \in Of(c) \cap registry : calls[n].at = "done" => n \in held[c] \/ Covered(c, n)
  /\ \A n \in Of(c) : Covered(c, n) => calls[n].at = "done" /\ n \notin held[c]
  /\ socket[c] = "live" => held[c] \subseteq registry

\* What the application wants the client holds, or it holds or is making again
\* a subscription of the same selection that the application does not know of.
Replaced(c, n) == \E m \in Of(c) \ wanted : /\ calls[m].selection = calls[n].selection
                                            /\ m \in held[c] \/ (InProgress(m) /\ ~calls[m].app)
Remembered(c) == \A n \in wanted \cap Of(c) : n \in held[c] \/ Replaced(c, n)

PeerInv ==
  /\ PeerTypeOK
  /\ NumbersAreTaken
  /\ missed = {}
  /\ \A n \in CallNumbers : NumberOK(n)
  /\ \A c \in Clients : ClientOK(c)
  /\ \A c \in Clients \ disturbed : Registered(c) /\ Remembered(c)

-----------------------------------------------------------------------------
(* The clients: what the helpers of the actions do *)

\* A call that has been made.
CallRecord == [at : Stages \ {"new"}, client : Clients, selection : Selections, app : BOOLEAN]

LEMMA CallFacts ==
  ASSUME PeerTypeOK, NEW n \in CallNumbers
  PROVE  /\ calls[n] \in {NewCall} \cup CallRecord
         /\ calls[n].at \in Stages
         /\ calls[n].at = "new" => calls[n] = NewCall
         /\ calls[n].at # "new" => calls[n] \in CallRecord
<1>1. calls[n] \in {NewCall} \cup CallRecord
  BY DEF PeerTypeOK, CallRecord
<1>2. NewCall.at = "new" /\ \A r \in CallRecord : r.at \in Stages /\ r.at # "new"
  BY DEF NewCall, CallRecord, Stages
<1>3. "new" \in Stages
  BY DEF Stages
<1> QED BY <1>1, <1>2, <1>3

\* A call goes on to its next step.
Advanced(n, step) ==
  /\ calls' \in [CallNumbers -> {NewCall} \cup CallRecord]
  /\ \A m \in CallNumbers \ {n} : calls'[m] = calls[m]
  /\ calls'[n].at = step
  /\ calls'[n].client = calls[n].client /\ calls'[n].selection = calls[n].selection
  /\ calls'[n].app = (calls[n].app /\ step # "done")
  /\ \A c \in Clients : Of(c)' = Of(c)
  /\ Taken' = Taken

LEMMA AdvanceFacts ==
  ASSUME PeerTypeOK, NEW n \in CallNumbers, calls[n].at # "new",
         NEW step \in Stages \ {"new"}, Advance(n, step)
  PROVE  Advanced(n, step)
<1>1. calls' = [calls EXCEPT ![n].at = step, ![n].app = @ /\ step # "done"]
  BY DEF Advance
<1>2. calls \in [CallNumbers -> {NewCall} \cup CallRecord] /\ calls[n] \in CallRecord
  BY CallFacts DEF PeerTypeOK, CallRecord
<1>3. \A m \in CallNumbers \ {n} : calls'[m] = calls[m]
  BY <1>1, <1>2
<1>4. /\ calls'[n] = [calls[n] EXCEPT !.at = step, !.app = @ /\ step # "done"]
      /\ DOMAIN calls' = CallNumbers /\ calls' = [m \in CallNumbers |-> calls'[m]]
  BY <1>1, <1>2
<1>5. /\ calls'[n] \in CallRecord /\ calls'[n].at = step
      /\ calls'[n].client = calls[n].client /\ calls'[n].selection = calls[n].selection
      /\ calls'[n].app = (calls[n].app /\ step # "done")
  BY <1>2, <1>4 DEF CallRecord
<1>6. calls' \in [CallNumbers -> {NewCall} \cup CallRecord]
  BY <1>2, <1>3, <1>4, <1>5
<1>7. \A m \in CallNumbers : (calls'[m].at # "new" <=> calls[m].at # "new") /\ calls'[m].client = calls[m].client
  BY <1>3, <1>5
<1> QED BY <1>3, <1>5, <1>6, <1>7 DEF Advanced, Of, Taken

\* Calls are made.
Made(c, sels, app) ==
  /\ calls' \in [CallNumbers -> {NewCall} \cup CallRecord]
  /\ \A n \in Taken : calls'[n] = calls[n]
  /\ \A n \in CallNumbers \ Taken :
       \/ calls'[n] = calls[n]
       \/ \E i \in DOMAIN sels : calls'[n] = [at |-> "sent", client |-> c, selection |-> sels[i], app |-> app]
  /\ \A i \in DOMAIN sels : \E n \in CallNumbers \ Taken :
       calls'[n] = [at |-> "sent", client |-> c, selection |-> sels[i], app |-> app]
  /\ NumbersAreTaken'

LEMMA PostedFacts ==
  ASSUME PeerTypeOK, NumbersAreTaken, NEW c \in Clients, NEW sels \in Seq(Selections), NEW app \in BOOLEAN,
         Posted(c, sels, app)
  PROVE  Made(c, sels, app)
<1> DEFINE first == Cardinality(Taken)
           new(i) == [at |-> "sent", client |-> c, selection |-> sels[i], app |-> app]
<1>1. PICK k \in 0..MaxCalls : Taken = 1..k
  BY DEF NumbersAreTaken
<1>2. k \in Nat /\ MaxCalls \in Nat /\ Len(sels) \in Nat /\ DOMAIN sels = 1..Len(sels)
  BY PeerAssumption
<1>3. first = k
  <2>1. Cardinality(1..k) = k
    BY <1>2, FS_Interval
  <2> QED BY <1>1, <2>1, Zenon
<1>4. /\ k + Len(sels) <= MaxCalls
      /\ calls' = [n \in CallNumbers |-> IF n - k \in 1..Len(sels) THEN new(n - k) ELSE calls[n]]
  <2>1. /\ first + Len(sels) <= MaxCalls
        /\ calls' = [n \in CallNumbers |-> IF n - first \in 1..Len(sels) THEN new(n - first) ELSE calls[n]]
    BY DEF Posted, Taken
  <2> HIDE DEF first, new
  <2> QED BY <1>3, <2>1
<1>5. \A i \in DOMAIN sels : new(i) \in CallRecord /\ new(i).at = "sent"
  BY DEF CallRecord, Stages
<1> HIDE DEF new
<1>6. \A n \in CallNumbers : calls[n] \in {NewCall} \cup CallRecord
  BY CallFacts
<1>7. \A n \in CallNumbers : n \in Taken => calls'[n] = calls[n]
  BY <1>1, <1>2, <1>4 DEF CallNumbers
<1>8. \A n \in CallNumbers : calls'[n] = calls[n] \/ \E i \in DOMAIN sels : calls'[n] = new(i)
  BY <1>2, <1>4
<1>9. \A i \in DOMAIN sels : k + i \in CallNumbers /\ k + i \notin Taken /\ calls'[k + i] = new(i)
  <2> TAKE i \in DOMAIN sels
  <2>1. i \in 1..Len(sels) /\ k + i \in CallNumbers /\ k + i \notin Taken
    BY <1>1, <1>2, <1>4 DEF CallNumbers
  <2>2. (k + i) - k = i
    BY <1>2, <2>1
  <2> QED BY <1>4, <2>1, <2>2
<1>10. calls' \in [CallNumbers -> {NewCall} \cup CallRecord]
  <2>1. \A n \in CallNumbers : calls'[n] \in {NewCall} \cup CallRecord
    BY <1>5, <1>6, <1>8
  <2> QED BY <1>4, <2>1
<1>11. Taken' = 1..(k + Len(sels))
  <2>1. \A n \in CallNumbers : calls'[n].at # "new" <=> n \in Taken \/ n - k \in 1..Len(sels)
    BY <1>2, <1>4, <1>5, <1>7 DEF Taken
  <2>2. \A n \in CallNumbers : n \in Taken \/ n - k \in 1..Len(sels) <=> n \in 1..(k + Len(sels))
    BY <1>1, <1>2, <1>4 DEF CallNumbers
  <2>3. 1..(k + Len(sels)) \subseteq CallNumbers
    BY <1>2, <1>4 DEF CallNumbers
  <2> QED BY <2>1, <2>2, <2>3 DEF Taken
<1>12. NumbersAreTaken'
  BY <1>2, <1>4, <1>11 DEF NumbersAreTaken
<1> QED BY <1>7, <1>8, <1>9, <1>10, <1>12 DEF Made, new, Taken

-----------------------------------------------------------------------------
(* The clients: one lemma per action *)

\* What a step leaves of one client.
SameClient(c) ==
  /\ Of(c)' = Of(c)
  /\ \A n \in Of(c) : /\ calls'[n] = calls[n]
                      /\ n \in registry' <=> n \in registry
                      /\ n \in wanted' <=> n \in wanted
  /\ held'[c] = held[c] /\ unsub'[c] = unsub[c]
  /\ socket'[c] = "live" => socket[c] = "live"

LEMMA ClientKept ==
  ASSUME NEW c \in Clients, ClientOK(c), SameClient(c), socket'[c] = "closed" <=> c \notin Connected'
  PROVE  /\ ClientOK(c)'
         /\ Registered(c) => Registered(c)'
         /\ Remembered(c) => Remembered(c)'
<1>1. \A n \in Of(c) : Covered(c, n)' <=> Covered(c, n)
  BY DEF SameClient, Covered
<1>2. {n \in Of(c) : calls[n].at = "done"}' = {n \in Of(c) : calls[n].at = "done"}
  BY DEF SameClient
<1>3. ClientOK(c)'
  BY <1>2 DEF SameClient, ClientOK
<1>4. held[c] \subseteq Of(c)
  BY DEF ClientOK
<1>5. Registered(c) => Registered(c)'
  BY <1>1, <1>4 DEF SameClient, Registered
<1>6. Remembered(c) => Remembered(c)'
  <2> SUFFICES ASSUME Remembered(c), NEW n \in (wanted \cap Of(c))'
               PROVE  (n \in held[c] \/ Replaced(c, n))'
    BY DEF Remembered
  <2>1. n \in wanted \cap Of(c)
    BY DEF SameClient
  <2>2. CASE n \in held[c]
    BY <2>2 DEF SameClient
  <2>3. CASE Replaced(c, n)
    <3>1. PICK m \in Of(c) \ wanted : /\ calls[m].selection = calls[n].selection
                                      /\ m \in held[c] \/ (InProgress(m) /\ ~calls[m].app)
      BY <2>3 DEF Replaced
    <3>2. m \in (Of(c) \ wanted)' /\ calls'[m] = calls[m] /\ calls'[n] = calls[n]
      BY <2>1, <3>1 DEF SameClient
    <3>3. m \in held'[c] \/ (InProgress(m)' /\ ~calls'[m].app)
      BY <3>1, <3>2 DEF SameClient, InProgress
    <3> QED BY <3>1, <3>2, <3>3 DEF Replaced
  <2> QED BY <2>1, <2>2, <2>3 DEF Remembered
<1> QED BY <1>3, <1>5, <1>6

\* What a step leaves of one call.
SameNumber(n) ==
  /\ calls'[n] = calls[n]
  /\ n \in registry' <=> n \in registry
  /\ n \in wanted' <=> n \in wanted
  /\ n \in stray' <=> n \in stray
  /\ LET c == calls[n].client
     IN  c \in Connected => c \in Connected' /\ DOMAIN selectors[c] \subseteq DOMAIN selectors'[c]

LEMMA NumberKept ==
  ASSUME NEW n \in CallNumbers, NumberOK(n), SameNumber(n), disturbed \subseteq disturbed'
  PROVE  NumberOK(n)'
BY DEF SameNumber, NumberOK

\* An old entry of selectors, in every step that has it.
LEMMA SelectorTypes ==
  ASSUME PeerTypeOK, NEW c \in Connected
  PROVE  /\ c \in Clients /\ DOMAIN selectors[c] \subseteq Selections
         /\ \A s \in DOMAIN selectors[c] : selectors[c][s] \subseteq CallNumbers
BY DEF PeerTypeOK, Connected

LEMMA ConnectKeeps ==
  ASSUME PeerInv, NEW c \in Clients, Connect(c)
  PROVE  PeerInv'
<1>1. /\ socket[c] = "closed"
      /\ socket' = [socket EXCEPT ![c] = "open"]
      /\ selectors' = [d \in Connected \cup {c} |-> IF d = c THEN [s \in {} |-> {}] ELSE selectors[d]]
      /\ UNCHANGED <<held, registry, calls, unsub, missed, wanted, stray, disturbed>>
  BY DEF Connect
<1>2. PeerTypeOK /\ socket \in [Clients -> {"closed", "open", "live"}] /\ ClientOK(c)
  BY DEF PeerInv, PeerTypeOK
<1>3. Connected' = Connected \cup {c} /\ c \notin Connected
  BY <1>1, <1>2 DEF Connected, ClientOK
<1>4. \A d \in Connected : selectors'[d] = selectors[d]
  BY <1>1, <1>3
<1>5. DOMAIN selectors'[c] = {}
  BY <1>1
<1>6. PeerTypeOK'
  <2>1. \A d \in Connected' : d \in Clients /\ DOMAIN selectors'[d] \subseteq Selections
                              /\ \A s \in DOMAIN selectors'[d] : selectors'[d][s] \subseteq CallNumbers
    BY <1>2, <1>3, <1>4, <1>5, SelectorTypes
  <2>2. socket' \in [Clients -> {"closed", "open", "live"}]
    BY <1>1, <1>2
  <2> QED BY <1>1, <1>2, <2>1, <2>2 DEF PeerTypeOK, Connected
<1>7. NumbersAreTaken' /\ missed' = {}
  BY <1>1 DEF PeerInv, NumbersAreTaken, Taken
<1>8. ASSUME NEW n \in CallNumbers PROVE NumberOK(n)'
  <2>1. SameNumber(n)
    BY <1>1, <1>3, <1>4 DEF SameNumber
  <2> QED BY <1>1, <2>1, NumberKept DEF PeerInv
<1>9. ASSUME NEW d \in Clients
      PROVE  /\ ClientOK(d)'
             /\ d \notin disturbed' => Registered(d)' /\ Remembered(d)'
  <2>1. SameClient(d)
    BY <1>1, <1>2 DEF SameClient, Of
  <2>2. ClientOK(d)
    BY DEF PeerInv
  <2>3. socket'[d] = "closed" <=> d \notin Connected'
    BY <1>1, <1>2, <1>3, <2>2 DEF ClientOK
  <2> QED BY <1>1, <2>1, <2>2, <2>3, ClientKept DEF PeerInv
<1> QED BY <1>6, <1>7, <1>8, <1>9 DEF PeerInv

\* Publishing reaches every connected subscriber of an event that matches no
\* stray: all of its subscribers are connected.
LEMMA PublishKeeps ==
  ASSUME PeerInv, NEW matched \in SUBSET registry, Publish(matched)
  PROVE  PeerInv'
<1> DEFINE subscribers == {calls[n].client : n \in matched}
<1>1. matched \cap stray = {} => subscribers \subseteq Connected
  BY DEF PeerInv, PeerTypeOK, NumberOK
<1>2. UNCHANGED <<held, socket, selectors, registry, calls, unsub, missed, wanted, stray, disturbed>>
  <2>1. subscribers \subseteq Connected \/ matched \cap stray # {} => missed' = missed
    BY DEF Publish
  <2>2. UNCHANGED <<held, socket, selectors, registry, calls, unsub, wanted, stray, disturbed>>
    BY DEF Publish
  <2> QED BY <1>1, <2>1, <2>2
<1> QED BY <1>2 DEF PeerInv, PeerTypeOK, NumbersAreTaken, Taken, NumberOK, ClientOK, Registered, Remembered,
                   Replaced, Covered, Of, Connected, InProgress

\* A new call is of no concern to the registry or to other clients.
MadeOnly(c, sels, app) ==
  /\ \A n \in CallNumbers : NumberOK(n)'
  /\ \A d \in Clients \ {c} : Of(d)' = Of(d)
  /\ Of(c) \subseteq Of(c)'
  /\ \A d \in Clients : \A n \in Of(d) : calls'[n] = calls[n]
  /\ \A n \in Of(c)' \ Of(c) :
       /\ n \notin registry \cup wanted
       /\ calls'[n].at = "sent" /\ \E i \in DOMAIN sels : calls'[n].selection = sels[i]
  /\ \A i \in DOMAIN sels : \E n \in Of(c)' \ Of(c) :
       n \notin wanted /\ calls'[n].at = "sent" /\ calls'[n].selection = sels[i] /\ calls'[n].app = app

LEMMA MadeFacts ==
  ASSUME PeerInv, NEW c \in Clients, NEW sels \in Seq(Selections), NEW app \in BOOLEAN, Made(c, sels, app),
         UNCHANGED <<selectors, registry, wanted, stray>>, disturbed \subseteq disturbed'
  PROVE  MadeOnly(c, sels, app)
<1>1. \A n \in CallNumbers \ Taken : calls[n].at = "new" /\ n \notin registry \cup wanted \cup stray
  BY DEF Taken, PeerInv, NumberOK
<1>2. \A n \in Taken : n \in CallNumbers /\ calls'[n] = calls[n]
  BY DEF Made, Taken
<1>3. \A n \in CallNumbers \ Taken :
        \/ calls'[n] = calls[n]
        \/ /\ calls'[n].at = "sent" /\ calls'[n].client = c
           /\ \E i \in DOMAIN sels : calls'[n].selection = sels[i]
  BY DEF Made
<1>4. \A i \in DOMAIN sels : \E n \in CallNumbers \ Taken :
        calls'[n].at = "sent" /\ calls'[n].client = c /\ calls'[n].selection = sels[i] /\ calls'[n].app = app
  <2> TAKE i \in DOMAIN sels
  <2>1. PICK n \in CallNumbers \ Taken :
          calls'[n] = [at |-> "sent", client |-> c, selection |-> sels[i], app |-> app]
    BY DEF Made
  <2>2. calls'[n].at = "sent" /\ calls'[n].client = c /\ calls'[n].selection = sels[i] /\ calls'[n].app = app
    BY <2>1
  <2> QED BY <2>2
<1>5. ASSUME NEW n \in CallNumbers PROVE NumberOK(n)'
  <2>1. CASE n \in Taken
    <3>1. SameNumber(n)
      BY <1>2, <2>1 DEF SameNumber, Connected
    <3> QED BY <3>1, NumberKept DEF PeerInv
  <2>2. CASE n \notin Taken
    BY <1>1, <2>2 DEF NumberOK
  <2> QED BY <2>1, <2>2
<1>6. \A d \in Clients : Of(d) \subseteq Taken
  BY DEF Of, Taken
<1>7. \A d \in Clients : \A n \in Of(d) : calls'[n] = calls[n] /\ n \in Of(d)'
  BY <1>2, <1>6 DEF Of
<1>8. \A d \in Clients : \A n \in Of(d)' \ Of(d) : n \in CallNumbers \ Taken /\ calls'[n] # calls[n]
  BY <1>2 DEF Of
<1>9. \A d \in Clients \ {c} : Of(d)' = Of(d)
  <2> SUFFICES ASSUME NEW d \in Clients \ {c} PROVE Of(d)' \subseteq Of(d)
    BY <1>7
  <2>1. \A n \in Of(d)' : calls'[n].client = d
    BY DEF Of
  <2> QED BY <1>3, <1>8, <2>1
<1>10. \A n \in Of(c)' \ Of(c) :
         /\ n \notin registry \cup wanted
         /\ calls'[n].at = "sent" /\ \E i \in DOMAIN sels : calls'[n].selection = sels[i]
  BY <1>1, <1>3, <1>8
<1>11. \A i \in DOMAIN sels : \E n \in Of(c)' \ Of(c) :
         n \notin wanted /\ calls'[n].at = "sent" /\ calls'[n].selection = sels[i] /\ calls'[n].app = app
  <2> TAKE i \in DOMAIN sels
  <2>1. PICK n \in CallNumbers \ Taken :
          calls'[n].at = "sent" /\ calls'[n].client = c /\ calls'[n].selection = sels[i] /\ calls'[n].app = app
    BY <1>4
  <2>2. n \in Of(c)' \ Of(c)
    BY <1>1, <2>1 DEF Of
  <2> QED BY <1>1, <2>1, <2>2
<1> QED BY <1>5, <1>7, <1>9, <1>10, <1>11 DEF MadeOnly

LEMMA SubscribeCallKeeps ==
  ASSUME PeerInv, NEW c \in Clients, NEW s \in Selections, Subscribe(c, s)
  PROVE  PeerInv'
<1>1. /\ Posted(c, <<s>>, TRUE)
      /\ disturbed' = disturbed \cup (IF Crossed(c, s) THEN {c} ELSE {})
      /\ UNCHANGED <<held, socket, selectors, registry, unsub, missed, wanted, stray>>
  BY DEF Subscribe, Mark
<1>2. PeerTypeOK /\ NumbersAreTaken /\ <<s>> \in Seq(Selections)
  BY DEF PeerInv
<1>3. Made(c, <<s>>, TRUE)
  BY <1>1, <1>2, PostedFacts
<1>4. MadeOnly(c, <<s>>, TRUE)
  BY <1>1, <1>2, <1>3, MadeFacts
<1>5. PeerTypeOK'
  <2>1. calls' \in [CallNumbers -> {NewCall} \cup CallRecord]
    BY <1>3 DEF Made
  <2> QED BY <1>1, <1>2, <2>1 DEF PeerTypeOK, CallRecord
<1>6. NumbersAreTaken' /\ missed' = {}
  BY <1>1, <1>3 DEF PeerInv, Made
<1>7. ASSUME NEW d \in Clients \ {c}
      PROVE  ClientOK(d)' /\ (d \notin disturbed' => Registered(d)' /\ Remembered(d)')
  <2>1. SameClient(d)
    BY <1>1, <1>4, <1>7 DEF SameClient, MadeOnly
  <2>2. ClientOK(d) /\ (socket'[d] = "closed" <=> d \notin Connected')
    BY <1>1 DEF PeerInv, ClientOK, Connected
  <2> QED BY <1>1, <2>1, <2>2, ClientKept DEF PeerInv
<1>8. ClientOK(c) /\ \A n \in Of(c) : calls'[n] = calls[n] /\ n \in Of(c)'
  BY <1>4 DEF PeerInv, MadeOnly
<1>9. ClientOK(c)'
  BY <1>1, <1>8 DEF ClientOK, Connected
<1>10. ASSUME c \notin disturbed' PROVE Registered(c)' /\ Remembered(c)'
  <2>1. c \notin disturbed /\ ~Crossed(c, s)
    BY <1>1, <1>10
  <2>2. Registered(c) /\ Remembered(c)
    BY <2>1 DEF PeerInv
  <2>3. \A n \in Of(c)' \ Of(c) : n \notin registry \cup wanted /\ calls'[n].at = "sent" /\ calls'[n].selection = s
    <3>1. \A i \in DOMAIN <<s>> : <<s>>[i] = s
      OBVIOUS
    <3> QED BY <1>4, <3>1 DEF MadeOnly
  <2>4. \A n \in Of(c)' \ Of(c) : ~Covered(c, n)'
    BY <1>1, <1>8, <2>1, <2>3 DEF Covered, Crossed, ClientOK
  <2>5. \A n \in Of(c) : Covered(c, n)' <=> Covered(c, n)
    BY <1>1, <1>8 DEF Covered
  <2>6. Registered(c)'
    <3>1. \A n \in Of(c)' : calls'[n].at \in {"batches", "answer"} => n \in registry'
      BY <1>1, <1>8, <2>2, <2>3 DEF Registered
    <3>2. \A n \in Of(c)' \cap registry' : calls'[n].at = "done" => n \in held'[c] \/ Covered(c, n)'
      BY <1>1, <1>8, <2>2, <2>3, <2>5 DEF Registered
    <3>3. \A n \in Of(c)' : Covered(c, n)' => calls'[n].at = "done" /\ n \notin held'[c]
      BY <1>1, <1>8, <2>2, <2>4, <2>5 DEF Registered
    <3> QED BY <1>1, <2>2, <3>1, <3>2, <3>3 DEF Registered
  <2>7. Remembered(c)'
    <3> SUFFICES ASSUME NEW n \in (wanted \cap Of(c))'
                 PROVE  (n \in held[c] \/ Replaced(c, n))'
      BY DEF Remembered
    <3>1. n \in wanted \cap Of(c)
      BY <1>1, <2>3
    <3>2. CASE n \in held[c]
      BY <1>1, <3>2
    <3>3. CASE Replaced(c, n)
      <4>1. PICK m \in Of(c) \ wanted : /\ calls[m].selection = calls[n].selection
                                        /\ m \in held[c] \/ (InProgress(m) /\ ~calls[m].app)
        BY <3>3 DEF Replaced
      <4> QED BY <1>1, <1>8, <3>1, <4>1 DEF Replaced, InProgress
    <3> QED BY <2>2, <3>1, <3>2, <3>3 DEF Remembered
  <2> QED BY <2>6, <2>7
<1> QED BY <1>4, <1>5, <1>6, <1>7, <1>9, <1>10 DEF PeerInv, MadeOnly

\* SetToSeq lists a finite set.
LEMMA ListOfSet ==
  ASSUME NEW S, IsFiniteSet(S)
  PROVE  /\ SetToSeq(S) \in Seq(S)
         /\ \A x \in S : \E i \in DOMAIN SetToSeq(S) : SetToSeq(S)[i] = x
<1> DEFINE n == Cardinality(S)
           D == 1..n
           q == SetToSeq(S)
<1>1. n \in Nat /\ ExistsBijection(D, S)
  BY FS_CardinalityType
<1>2. PICK g \in Bijection(D, S) : TRUE
  BY <1>1 DEF ExistsBijection
<1>3. g \in [D -> S] /\ IsInjective(g)
  BY <1>2 DEF Bijection, Injection
<1>4. q \in [D -> S] /\ IsInjective(q)
  BY <1>3 DEF SetToSeq
<1>5. q \in Seq(S) /\ DOMAIN q = D
  BY <1>1, <1>4
<1> HIDE DEF q
<1> DEFINE R == {q[i] : i \in D}
<1>6. q \in Bijection(D, R)
  BY <1>4 DEF Bijection, Injection, Surjection
<1>7. IsFiniteSet(D) /\ Cardinality(D) = n
  BY <1>1, FS_Interval
<1>8. Cardinality(R) = n
  <2>1. ExistsBijection(D, R)
    BY <1>6 DEF ExistsBijection
  <2> HIDE DEF R, D, n
  <2> QED BY <1>7, <2>1, FS_Bijection
<1>9. R \subseteq S
  BY <1>4
<1>10. S \ R = {}
  <2> HIDE DEF R
  <2>1. S \cap R = R
    BY <1>9
  <2>2. IsFiniteSet(S \ R) /\ Cardinality(S \ R) = Cardinality(S) - Cardinality(S \cap R)
    BY FS_Difference
  <2>3. Cardinality(S \cap R) = n
    BY <1>8, <2>1, Zenon
  <2>4. Cardinality(S \ R) = 0
    BY <1>1, <2>2, <2>3
  <2> QED BY <2>2, <2>4, FS_EmptySet
<1> QED BY <1>5, <1>10 DEF q

LEMMA ReplayKeeps ==
  ASSUME PeerInv, NEW c \in Clients, Replay(c)
  PROVE  PeerInv'
<1> DEFINE old == SetToSeq(held[c])
           sels == [i \in DOMAIN old |-> calls[old[i]].selection]
<1>1. /\ socket[c] = "open" /\ socket' = [socket EXCEPT ![c] = "live"]
      /\ held' = [held EXCEPT ![c] = {}]
      /\ Posted(c, sels, FALSE)
      /\ disturbed' = disturbed \cup (IF \E n \in held[c] : n \in registry \/ Crossed(c, calls[n].selection)
                                      THEN {c} ELSE {})
      /\ UNCHANGED <<selectors, registry, unsub, missed, wanted, stray>>
  BY DEF Replay, Mark
<1>2. PeerTypeOK /\ NumbersAreTaken /\ ClientOK(c)
  BY DEF PeerInv
<1>3. held[c] \subseteq Of(c) /\ held[c] \subseteq CallNumbers
  BY <1>2 DEF ClientOK, PeerTypeOK
<1>4. old \in Seq(held[c]) /\ \A n \in held[c] : \E i \in DOMAIN old : old[i] = n
  <2>1. IsFiniteSet(CallNumbers)
    BY PeerAssumption, FS_Interval DEF CallNumbers
  <2>2. IsFiniteSet(held[c])
    BY <1>3, <2>1, FS_Subset
  <2> QED BY <2>2, ListOfSet
<1> HIDE DEF old
<1>5. \A n \in held[c] : calls[n].selection \in Selections
  <2>1. \A n \in held[c] : calls[n].at # "new"
    BY <1>3 DEF Of
  <2>2. \A n \in held[c] : calls[n] \in CallRecord
    BY <1>2, <1>3, <2>1, CallFacts
  <2> QED BY <2>2 DEF CallRecord
<1>6. /\ sels \in Seq(Selections)
      /\ \A i \in DOMAIN sels : \E n \in held[c] : sels[i] = calls[n].selection
      /\ \A n \in held[c] : \E i \in DOMAIN sels : sels[i] = calls[n].selection
  <2>1. Len(old) \in Nat /\ DOMAIN old = 1..Len(old) /\ \A i \in DOMAIN old : old[i] \in held[c]
    BY <1>4
  <2>2. \A i \in 1..Len(old) : sels[i] \in Selections
    BY <1>5, <2>1
  <2>3. sels \in [1..Len(old) -> Selections]
    BY <2>1, <2>2
  <2> QED BY <1>4, <2>1, <2>3
<1> HIDE DEF sels
<1>7. Made(c, sels, FALSE)
  BY <1>1, <1>2, <1>6, PostedFacts
<1>8. MadeOnly(c, sels, FALSE)
  BY <1>1, <1>6, <1>7, MadeFacts
<1>9. PeerTypeOK'
  <2>1. calls' \in [CallNumbers -> {NewCall} \cup CallRecord]
    BY <1>7 DEF Made
  <2>2. held' \in [Clients -> SUBSET CallNumbers] /\ socket' \in [Clients -> {"closed", "open", "live"}]
    BY <1>1, <1>2 DEF PeerTypeOK
  <2>3. disturbed' \subseteq Clients
    BY <1>1, <1>2 DEF PeerTypeOK
  <2> QED BY <1>1, <1>2, <2>1, <2>2, <2>3 DEF PeerTypeOK, CallRecord
<1>10. NumbersAreTaken' /\ missed' = {}
  BY <1>1, <1>7 DEF PeerInv, Made
<1>11. /\ socket'[c] = "live" /\ held'[c] = {}
       /\ \A d \in Clients \ {c} : socket'[d] = socket[d] /\ held'[d] = held[d]
  BY <1>1, <1>2 DEF PeerTypeOK
<1>12. ASSUME NEW d \in Clients \ {c}
       PROVE  ClientOK(d)' /\ (d \notin disturbed' => Registered(d)' /\ Remembered(d)')
  <2>1. SameClient(d)
    BY <1>1, <1>8, <1>11, <1>12 DEF SameClient, MadeOnly
  <2>2. ClientOK(d) /\ (socket'[d] = "closed" <=> d \notin Connected')
    BY <1>1, <1>11 DEF PeerInv, ClientOK, Connected
  <2> QED BY <1>1, <2>1, <2>2, ClientKept DEF PeerInv
<1>13. \A n \in Of(c) : calls'[n] = calls[n] /\ n \in Of(c)'
  BY <1>8 DEF MadeOnly
<1>14. ClientOK(c)'
  BY <1>1, <1>2, <1>11, <1>13 DEF ClientOK, Connected
<1>15. ASSUME c \notin disturbed' PROVE Registered(c)' /\ Remembered(c)'
  <2>1. c \notin disturbed /\ \A n \in held[c] : n \notin registry /\ ~Crossed(c, calls[n].selection)
    BY <1>1, <1>15
  <2>2. Registered(c) /\ Remembered(c)
    BY <2>1 DEF PeerInv
  <2>3. \A n \in Of(c)' \ Of(c) : n \notin registry \cup wanted /\ calls'[n].at = "sent" /\ ~Crossed(c, calls'[n].selection)
    <3> TAKE n \in Of(c)' \ Of(c)
    <3>1. PICK i \in DOMAIN sels : calls'[n].selection = sels[i]
      BY <1>8 DEF MadeOnly
    <3>2. PICK m \in held[c] : sels[i] = calls[m].selection
      BY <1>6
    <3>3. ~Crossed(c, calls'[n].selection)
      BY <2>1, <3>1, <3>2
    <3> QED BY <1>8, <3>3 DEF MadeOnly
  <2>4. \A n \in Of(c)' \ Of(c) : ~Covered(c, n)'
    BY <1>1, <1>2, <2>3 DEF Covered, Crossed, ClientOK
  <2>5. \A n \in Of(c) : Covered(c, n)' <=> Covered(c, n)
    BY <1>1, <1>13 DEF Covered
  <2>6. Registered(c)'
    <3>1. \A n \in Of(c)' : calls'[n].at \in {"batches", "answer"} => n \in registry'
      BY <1>1, <1>13, <2>2, <2>3 DEF Registered
    <3>2. \A n \in Of(c)' \cap registry' : calls'[n].at = "done" => n \in held'[c] \/ Covered(c, n)'
      BY <1>1, <1>13, <2>1, <2>2, <2>3, <2>5 DEF Registered
    <3>3. \A n \in Of(c)' : Covered(c, n)' => calls'[n].at = "done" /\ n \notin held'[c]
      BY <1>11, <1>13, <2>2, <2>4, <2>5 DEF Registered
    <3> QED BY <1>11, <3>1, <3>2, <3>3 DEF Registered
  <2>7. Remembered(c)'
    <3> SUFFICES ASSUME NEW n \in (wanted \cap Of(c))'
                 PROVE  Replaced(c, n)'
      BY DEF Remembered
    <3>1. n \in wanted \cap Of(c)
      BY <1>1, <2>3
    <3>2. ASSUME NEW m \in held[c], calls[m].selection = calls[n].selection
          PROVE  Replaced(c, n)'
      <4>1. PICK i \in DOMAIN sels : sels[i] = calls[m].selection
        BY <1>6
      <4>2. PICK k \in Of(c)' \ Of(c) : /\ k \notin wanted /\ calls'[k].at = "sent"
                                        /\ calls'[k].selection = sels[i] /\ calls'[k].app = FALSE
        BY <1>8 DEF MadeOnly
      <4>3. calls'[k].selection = calls'[n].selection
        BY <1>13, <3>1, <3>2, <4>1, <4>2
      <4>4. k \in (Of(c) \ wanted)' /\ (InProgress(k) /\ ~calls[k].app)'
        BY <1>1, <4>2 DEF InProgress
      <4> QED BY <4>3, <4>4 DEF Replaced
    <3>3. CASE n \in held[c]
      BY <3>2, <3>3
    <3>4. CASE Replaced(c, n)
      <4>1. PICK m \in Of(c) \ wanted : /\ calls[m].selection = calls[n].selection
                                        /\ m \in held[c] \/ (InProgress(m) /\ ~calls[m].app)
        BY <3>4 DEF Replaced
      <4>2. CASE m \in held[c]
        BY <3>2, <4>1, <4>2
      <4>3. CASE InProgress(m) /\ ~calls[m].app
        BY <1>1, <1>13, <3>1, <4>1, <4>3 DEF Replaced, InProgress
      <4> QED BY <4>1, <4>2, <4>3
    <3> QED BY <2>2, <3>1, <3>3, <3>4 DEF Remembered
  <2> QED BY <2>6, <2>7
<1> QED BY <1>8, <1>9, <1>10, <1>12, <1>14, <1>15 DEF PeerInv, MadeOnly

\* A step of one call is of no concern to other clients.
LEMMA AdvanceOthers ==
  ASSUME PeerInv, NEW n \in CallNumbers, calls[n].at \in {"sent", "batches", "answer"},
         NEW step, Advanced(n, step), Connected' = Connected,
         UNCHANGED <<socket, unsub>>, disturbed \subseteq disturbed',
         \A d \in Clients : held'[d] = held[d] \/ (d = calls[n].client /\ step = "done" /\ held'[d] = held[d] \cup {n}),
         \A m \in CallNumbers \ {n} : /\ m \in registry' <=> m \in registry
                                      /\ m \in wanted' <=> m \in wanted
  PROVE  /\ NumbersAreTaken'
         /\ \A d \in Clients : ClientOK(d)'
         /\ \A d \in Clients \ (disturbed' \cup {calls[n].client}) : Registered(d)' /\ Remembered(d)'
<1> DEFINE c == calls[n].client
<1>1. NumbersAreTaken'
  BY DEF PeerInv, NumbersAreTaken, Advanced
<1>2. \A d \in Clients : ClientOK(d) /\ Of(d)' = Of(d) /\ (socket'[d] = "closed" <=> d \notin Connected')
  BY DEF PeerInv, Advanced, ClientOK
<1>3. \A m \in CallNumbers : calls[m].at = "done" => calls'[m] = calls[m]
  BY DEF Advanced
<1>4. n \in Of(c) /\ calls'[n].at = step
  BY DEF Of, Advanced
<1>5. ASSUME NEW d \in Clients PROVE ClientOK(d)'
  <2>1. {m \in Of(d) : calls[m].at = "done"} \subseteq {m \in Of(d)' : calls'[m].at = "done"}
    BY <1>2, <1>3 DEF Of
  <2>2. held'[d] \subseteq {m \in Of(d)' : calls'[m].at = "done"}
    BY <1>2, <1>4, <2>1 DEF ClientOK
  <2> QED BY <1>2, <2>1, <2>2 DEF ClientOK
<1>6. ASSUME NEW d \in Clients \ (disturbed' \cup {c}) PROVE Registered(d)' /\ Remembered(d)'
  <2>1. n \notin Of(d) /\ \A m \in Of(d) : m \in CallNumbers \ {n} /\ calls'[m] = calls[m]
    BY DEF Of, Advanced
  <2>2. SameClient(d)
    BY <1>2, <2>1 DEF SameClient
  <2> QED BY <1>2, <2>2, ClientKept DEF PeerInv
<1> QED BY <1>1, <1>5, <1>6

\* A call that is not over yet.
LEMMA AdvanceClient ==
  ASSUME PeerInv, NEW n \in CallNumbers, calls[n].at \in {"sent", "batches", "answer"},
         NEW step, step \in {"batches", "answer"}, Advanced(n, step),
         n \in registry', NEW c \in Clients \ disturbed, c = calls[n].client,
         \A m \in CallNumbers \ {n} : m \in registry' <=> m \in registry,
         UNCHANGED <<held, socket, unsub, wanted>>
  PROVE  Registered(c)' /\ Remembered(c)'
<1>1. Registered(c) /\ Remembered(c)
  BY DEF PeerInv
<1>2. /\ Of(c)' = Of(c) /\ \A m \in Of(c) : m \in CallNumbers /\ calls'[m].selection = calls[m].selection
      /\ \A m \in Of(c) \ {n} : calls'[m] = calls[m]
      /\ calls'[n].at = step /\ calls'[n].app = calls[n].app
      /\ n \in Of(c)
  <2>1. PeerTypeOK /\ calls[n].at # "new"
    BY DEF PeerInv
  <2>2. calls[n].app \in BOOLEAN
    BY <2>1, CallFacts DEF CallRecord
  <2>3. calls'[n].app = (calls[n].app /\ step # "done") /\ step # "done"
    BY DEF Advanced
  <2>4. calls'[n].app = calls[n].app
    BY <2>2, <2>3
  <2> QED BY <2>4 DEF Advanced, Of
<1>3. \A m \in Of(c) : Covered(c, m)' <=> Covered(c, m)
  BY <1>2 DEF Covered
<1>4. held[c] \subseteq {m \in Of(c) : calls[m].at = "done"}
  BY DEF PeerInv, ClientOK
<1>5. Registered(c)'
  <2>1. \A m \in Of(c)' : calls'[m].at \in {"batches", "answer"} => m \in registry'
    BY <1>1, <1>2 DEF Registered
  <2>2. \A m \in (Of(c) \cap registry)' : calls'[m].at = "done" => m \in held'[c] \/ Covered(c, m)'
    BY <1>1, <1>2, <1>3 DEF Registered
  <2>3. \A m \in Of(c)' : Covered(c, m)' => calls'[m].at = "done" /\ m \notin held'[c]
    BY <1>1, <1>2, <1>3 DEF Registered
  <2>4. socket'[c] = "live" => held'[c] \subseteq registry'
    BY <1>1, <1>2, <1>4 DEF Registered
  <2> QED BY <2>1, <2>2, <2>3, <2>4 DEF Registered
<1>6. Remembered(c)'
  <2> SUFFICES ASSUME NEW m \in (wanted \cap Of(c))'
               PROVE  (m \in held[c] \/ Replaced(c, m))'
    BY DEF Remembered
  <2>1. m \in wanted \cap Of(c)
    BY <1>2
  <2>2. CASE m \in held[c]
    BY <2>2
  <2>3. CASE Replaced(c, m)
    <3>1. PICK k \in Of(c) \ wanted : /\ calls[k].selection = calls[m].selection
                                      /\ k \in held[c] \/ (InProgress(k) /\ ~calls[k].app)
      BY <2>3 DEF Replaced
    <3>2. InProgress(k) /\ ~calls[k].app => (InProgress(k) /\ ~calls[k].app)'
      BY <1>2, <3>1 DEF InProgress
    <3> QED BY <1>2, <2>1, <3>1, <3>2 DEF Replaced
  <2> QED BY <1>1, <2>1, <2>2, <2>3 DEF Remembered
<1> QED BY <1>5, <1>6

LEMMA ArriveKeeps ==
  ASSUME PeerInv, NEW n \in CallNumbers, SubscribeArrives(n)
  PROVE  PeerInv'
<1>0. PICK c \in Clients : calls[n].client = c /\ calls[n].at = "sent" /\ calls[n] \in CallRecord
  <2>1. calls[n].at = "sent" /\ PeerTypeOK
    BY DEF SubscribeArrives, PeerInv
  <2>2. calls[n] \in CallRecord
    BY <2>1, CallFacts
  <2> QED BY <2>1, <2>2 DEF CallRecord
<1>1. /\ calls[n].at = "sent"
      /\ IF c \in Connected
           THEN Advance(n, "batches") /\ registry' = registry \cup {n} /\ UNCHANGED disturbed
           ELSE /\ Advance(n, "done") /\ UNCHANGED registry
                /\ disturbed' = disturbed \cup (IF calls[n].app THEN {} ELSE {c})
      /\ UNCHANGED <<held, socket, selectors, unsub, missed, wanted, stray>>
  BY <1>0 DEF SubscribeArrives, Mark
<1>2. PeerTypeOK
  BY DEF PeerInv
<1>3. n \notin registry \cup wanted \cup stray
  BY <1>1 DEF PeerInv, NumberOK
<1> DEFINE step == IF c \in Connected THEN "batches" ELSE "done"
<1>4. Advanced(n, step)
  <2>1. step \in Stages \ {"new"} /\ Advance(n, step)
    BY <1>1 DEF Stages
  <2> HIDE DEF step
  <2> QED BY <1>1, <1>2, <2>1, AdvanceFacts
<1>5. /\ Connected' = Connected /\ disturbed \subseteq disturbed' /\ disturbed' \subseteq Clients
      /\ registry' \subseteq CallNumbers
      /\ \A m \in CallNumbers \ {n} : m \in registry' <=> m \in registry
  BY <1>1, <1>2 DEF Connected, PeerTypeOK
<1>6. PeerTypeOK'
  <2>1. calls' \in [CallNumbers -> {NewCall} \cup CallRecord]
    BY <1>4 DEF Advanced
  <2> QED BY <1>1, <1>2, <1>5, <2>1 DEF PeerTypeOK, CallRecord
<1>7. ASSUME NEW m \in CallNumbers PROVE NumberOK(m)'
  <2>1. CASE m # n
    <3>1. SameNumber(m)
      BY <1>1, <1>4, <1>5, <2>1 DEF SameNumber, Advanced
    <3> QED BY <1>5, <3>1, NumberKept DEF PeerInv
  <2>2. CASE m = n
    BY <1>0, <1>1, <1>3, <1>4, <1>5, <2>2 DEF NumberOK, Advanced
  <2> QED BY <2>1, <2>2
<1> HIDE DEF step
<1>8. /\ NumbersAreTaken'
      /\ \A d \in Clients : ClientOK(d)'
      /\ \A d \in Clients \ (disturbed' \cup {c}) : Registered(d)' /\ Remembered(d)'
  BY <1>0, <1>1, <1>4, <1>5, AdvanceOthers
<1>9. ASSUME c \notin disturbed' PROVE Registered(c)' /\ Remembered(c)'
  <2>1. CASE c \in Connected
    <3>1. Advanced(n, "batches") /\ n \in registry'
      BY <1>1, <1>4, <2>1 DEF step
    <3> QED BY <1>0, <1>1, <1>5, <1>9, <3>1, AdvanceClient
  <2>2. CASE c \notin Connected
    <3>1. calls[n].app /\ Advanced(n, "done") /\ registry' = registry /\ c \notin disturbed
      BY <1>1, <1>4, <1>5, <1>9, <2>2 DEF step
    <3>2. Registered(c) /\ Remembered(c)
      BY <1>2, <3>1 DEF PeerInv
    <3>3. /\ Of(c)' = Of(c) /\ \A m \in Of(c) : m \in CallNumbers /\ calls'[m].selection = calls[m].selection
          /\ \A m \in Of(c) \ {n} : calls'[m] = calls[m]
          /\ calls'[n].at = "done" /\ n \in Of(c)
      BY <1>0, <3>1 DEF Advanced, Of
    <3>4. \A m \in Of(c) : Covered(c, m)' <=> Covered(c, m)
      BY <1>1, <3>3 DEF Covered
    <3>5. ~Covered(c, n)
      BY <1>1, <3>2, <3>3 DEF Registered
    <3>6. Registered(c)'
      <4>1. \A m \in Of(c)' : calls'[m].at \in {"batches", "answer"} => m \in registry'
        BY <3>1, <3>2, <3>3 DEF Registered
      <4>2. \A m \in (Of(c) \cap registry)' : calls'[m].at = "done" => m \in held'[c] \/ Covered(c, m)'
        BY <1>1, <1>3, <3>1, <3>2, <3>3, <3>4 DEF Registered
      <4>3. \A m \in Of(c)' : Covered(c, m)' => calls'[m].at = "done" /\ m \notin held'[c]
        BY <1>1, <3>2, <3>3, <3>4, <3>5 DEF Registered
      <4> QED BY <1>1, <3>1, <3>2, <4>1, <4>2, <4>3 DEF Registered
    <3>7. Remembered(c)'
      <4> SUFFICES ASSUME NEW m \in (wanted \cap Of(c))'
                   PROVE  (m \in held[c] \/ Replaced(c, m))'
        BY DEF Remembered
      <4>1. m \in wanted \cap Of(c)
        BY <1>1, <3>3
      <4>2. CASE m \in held[c]
        BY <1>1, <4>2
      <4>3. CASE Replaced(c, m)
        <5>1. PICK k \in Of(c) \ wanted : /\ calls[k].selection = calls[m].selection
                                          /\ k \in held[c] \/ (InProgress(k) /\ ~calls[k].app)
          BY <4>3 DEF Replaced
        <5>2. InProgress(k) /\ ~calls[k].app => (InProgress(k) /\ ~calls[k].app)'
          BY <3>1, <3>3, <5>1 DEF InProgress
        <5> QED BY <1>1, <3>3, <4>1, <5>1, <5>2 DEF Replaced
      <4> QED BY <3>2, <4>1, <4>2, <4>3 DEF Remembered
    <3> QED BY <3>6, <3>7
  <2> QED BY <2>1, <2>2
<1>10. missed' = {}
  BY <1>1 DEF PeerInv
<1> QED BY <1>6, <1>7, <1>8, <1>9, <1>10 DEF PeerInv

LEMMA StoredKeeps ==
  ASSUME PeerInv, NEW n \in CallNumbers, SubscribeStored(n)
  PROVE  PeerInv'
<1>0. PICK c \in Clients : calls[n].client = c /\ calls[n].at = "batches" /\ calls[n] \in CallRecord
  <2>1. calls[n].at = "batches" /\ PeerTypeOK
    BY DEF SubscribeStored, PeerInv
  <2>2. calls[n] \in CallRecord
    BY <2>1, CallFacts
  <2> QED BY <2>1, <2>2 DEF CallRecord
<1> DEFINE s == calls[n].selection
           now == IF c \in Connected THEN selectors[c] ELSE [x \in {} |-> {}]
           ids == {n} \cup IF s \in DOMAIN now THEN now[s] ELSE {}
           step == IF c \in Connected THEN "answer" ELSE "done"
<1>1. /\ IF c \in Connected
           THEN /\ Advance(n, "answer") /\ stray' = stray \ {n}
                /\ selectors' = [selectors EXCEPT ![c] =
                                   [x \in DOMAIN now \cup {s} |-> IF x = s THEN ids ELSE now[x]]]
           ELSE Advance(n, "done") /\ UNCHANGED <<selectors, stray>>
      /\ UNCHANGED <<held, socket, registry, unsub, missed, wanted, disturbed>>
  BY <1>0 DEF SubscribeStored
<1>2. PeerTypeOK /\ s \in Selections
  BY <1>0 DEF PeerInv, CallRecord
<1>3. n \notin wanted
  BY <1>0 DEF PeerInv, NumberOK
<1>4. Advanced(n, step)
  <2>1. step \in Stages \ {"new"} /\ Advance(n, step)
    BY <1>1 DEF Stages
  <2> HIDE DEF step
  <2> QED BY <1>0, <1>2, <2>1, AdvanceFacts
<1>5. /\ Connected' = Connected
      /\ \A d \in Connected \ {c} : selectors'[d] = selectors[d]
      /\ c \in Connected => /\ DOMAIN selectors'[c] = DOMAIN selectors[c] \cup {s}
                            /\ \A x \in DOMAIN selectors[c] \ {s} : selectors'[c][x] = selectors[c][x]
                            /\ selectors'[c][s] = {n} \cup IF s \in DOMAIN selectors[c] THEN selectors[c][s] ELSE {}
  <2>1. CASE c \in Connected
    BY <1>1, <2>1 DEF Connected
  <2>2. CASE c \notin Connected
    BY <1>1, <2>2 DEF Connected
  <2> QED BY <2>1, <2>2
<1> HIDE DEF s, step
<1>6. PeerTypeOK'
  <2>1. calls' \in [CallNumbers -> {NewCall} \cup CallRecord]
    BY <1>4 DEF Advanced
  <2>2. \A d \in Connected' : d \in Clients /\ DOMAIN selectors'[d] \subseteq Selections
                              /\ \A x \in DOMAIN selectors'[d] : selectors'[d][x] \subseteq CallNumbers
    BY <1>2, <1>5, SelectorTypes
  <2>3. stray' \subseteq CallNumbers
    BY <1>1, <1>2 DEF PeerTypeOK
  <2> QED BY <1>1, <1>2, <2>1, <2>2, <2>3 DEF PeerTypeOK, CallRecord, Connected
<1>7. ASSUME NEW m \in CallNumbers PROVE NumberOK(m)'
  <2>1. CASE m # n
    <3>1. SameNumber(m)
      BY <1>1, <1>4, <1>5, <2>1 DEF SameNumber, Advanced
    <3> QED BY <1>1, <3>1, NumberKept DEF PeerInv
  <2>2. CASE m = n /\ c \in Connected
    BY <1>0, <1>1, <1>3, <1>4, <1>5, <2>2 DEF NumberOK, Advanced, s, step
  <2>3. CASE m = n /\ c \notin Connected
    BY <1>0, <1>1, <1>3, <1>4, <1>5, <2>3 DEF PeerInv, NumberOK, Advanced, step
  <2> QED BY <2>1, <2>2, <2>3
<1>8. /\ NumbersAreTaken'
      /\ \A d \in Clients : ClientOK(d)'
      /\ \A d \in Clients \ (disturbed' \cup {c}) : Registered(d)' /\ Remembered(d)'
  BY <1>0, <1>1, <1>4, <1>5, AdvanceOthers
<1>9. ASSUME c \notin disturbed' PROVE Registered(c)' /\ Remembered(c)'
  <2>1. n \in registry
    BY <1>0, <1>1, <1>9 DEF PeerInv, Registered, Of
  <2>2. c \in Connected
    BY <1>0, <1>1, <1>9, <2>1 DEF PeerInv, NumberOK
  <2>3. Advanced(n, "answer")
    BY <1>4, <2>2 DEF step
  <2> QED BY <1>0, <1>1, <1>9, <2>1, <2>3, AdvanceClient
<1>10. missed' = {}
  BY <1>1 DEF PeerInv
<1> QED BY <1>6, <1>7, <1>8, <1>9, <1>10 DEF PeerInv

\* A /subscribe that the client is told has failed, or of which it hears nothing.
LEMMA CallFailsKeeps ==
  ASSUME PeerInv, NEW n \in CallNumbers, SubscribeFails(n) \/ SubscribeAnswerLost(n)
  PROVE  PeerInv'
<1>0. PICK c \in Clients : calls[n].client = c /\ calls[n].at \in {"batches", "answer"} /\ calls[n] \in CallRecord
  <2>1. calls[n].at \in {"batches", "answer"} /\ PeerTypeOK
    BY DEF SubscribeFails, SubscribeAnswerLost, PeerInv
  <2>2. calls[n] \in CallRecord
    BY <2>1, CallFacts
  <2> QED BY <2>1, <2>2 DEF CallRecord
<1>1. /\ Advance(n, "done") /\ disturbed' = disturbed \cup {c}
      /\ calls[n].at = "batches" => stray' = stray \cup ({n} \cap registry)
      /\ calls[n].at = "answer" => stray' = stray
      /\ UNCHANGED <<held, socket, selectors, registry, unsub, missed, wanted>>
  BY <1>0 DEF SubscribeFails, SubscribeAnswerLost, Mark
<1>2. PeerTypeOK /\ n \notin wanted
  BY <1>0 DEF PeerInv, NumberOK
<1>3. Advanced(n, "done")
  <2>1. "done" \in Stages \ {"new"}
    BY DEF Stages
  <2> QED BY <1>0, <1>1, <1>2, <2>1, AdvanceFacts
<1>4. Connected' = Connected /\ disturbed \subseteq disturbed'
  BY <1>1 DEF Connected
<1>5. PeerTypeOK'
  <2>1. calls' \in [CallNumbers -> {NewCall} \cup CallRecord]
    BY <1>3 DEF Advanced
  <2>2. stray' \subseteq CallNumbers /\ disturbed' \subseteq Clients
    BY <1>0, <1>1, <1>2 DEF PeerTypeOK
  <2> QED BY <1>1, <1>2, <2>1, <2>2 DEF PeerTypeOK, CallRecord
<1>6. ASSUME NEW m \in CallNumbers PROVE NumberOK(m)'
  <2>1. CASE m # n
    <3>1. SameNumber(m)
      BY <1>0, <1>1, <1>3, <1>4, <2>1 DEF SameNumber, Advanced
    <3> QED BY <1>4, <3>1, NumberKept DEF PeerInv
  <2>2. CASE m = n
    BY <1>0, <1>1, <1>2, <1>3, <1>4, <2>2 DEF PeerInv, NumberOK, Advanced
  <2> QED BY <2>1, <2>2
<1>7. /\ NumbersAreTaken'
      /\ \A d \in Clients : ClientOK(d)'
      /\ \A d \in Clients \ (disturbed' \cup {c}) : Registered(d)' /\ Remembered(d)'
  BY <1>0, <1>1, <1>3, <1>4, AdvanceOthers
<1>8. missed' = {}
  BY <1>1 DEF PeerInv
<1> QED BY <1>1, <1>5, <1>6, <1>7, <1>8 DEF PeerInv

LEMMA AnsweredKeeps ==
  ASSUME PeerInv, NEW n \in CallNumbers, SubscribeAnswered(n)
  PROVE  PeerInv'
<1>0. PICK c \in Clients : calls[n].client = c /\ calls[n].at = "answer" /\ calls[n] \in CallRecord
  <2>1. calls[n].at = "answer" /\ PeerTypeOK
    BY DEF SubscribeAnswered, PeerInv
  <2>2. calls[n] \in CallRecord
    BY <2>1, CallFacts
  <2> QED BY <2>1, <2>2 DEF CallRecord
<1>1. /\ Advance(n, "done")
      /\ held' = [held EXCEPT ![c] = @ \cup {n}]
      /\ wanted' = wanted \cup (IF calls[n].app THEN {n} ELSE {})
      /\ UNCHANGED <<socket, selectors, registry, unsub, missed, stray, disturbed>>
  BY <1>0 DEF SubscribeAnswered, Mark
<1>2. PeerTypeOK
  BY DEF PeerInv
<1>3. Advanced(n, "done")
  <2>1. "done" \in Stages \ {"new"}
    BY DEF Stages
  <2> QED BY <1>0, <1>1, <1>2, <2>1, AdvanceFacts
<1>4. /\ Connected' = Connected
      /\ held'[c] = held[c] \cup {n} /\ \A d \in Clients \ {c} : held'[d] = held[d]
      /\ \A m \in CallNumbers \ {n} : m \in wanted' <=> m \in wanted
  BY <1>1, <1>2 DEF Connected, PeerTypeOK
<1>5. PeerTypeOK'
  <2>1. calls' \in [CallNumbers -> {NewCall} \cup CallRecord]
    BY <1>3 DEF Advanced
  <2>2. held' \in [Clients -> SUBSET CallNumbers] /\ wanted' \subseteq CallNumbers
    BY <1>1, <1>2 DEF PeerTypeOK
  <2> QED BY <1>1, <1>2, <2>1, <2>2 DEF PeerTypeOK, CallRecord
<1>6. ASSUME NEW m \in CallNumbers PROVE NumberOK(m)'
  <2>1. CASE m # n
    <3>1. SameNumber(m)
      BY <1>1, <1>3, <1>4, <2>1 DEF SameNumber, Advanced
    <3> QED BY <1>1, <3>1, NumberKept DEF PeerInv
  <2>2. CASE m = n
    BY <1>0, <1>1, <1>3, <1>4, <2>2 DEF PeerInv, NumberOK, Advanced
  <2> QED BY <2>1, <2>2
<1>7. /\ NumbersAreTaken'
      /\ \A d \in Clients : ClientOK(d)'
      /\ \A d \in Clients \ (disturbed' \cup {c}) : Registered(d)' /\ Remembered(d)'
  BY <1>0, <1>1, <1>3, <1>4, AdvanceOthers
<1>8. ASSUME c \notin disturbed' PROVE Registered(c)' /\ Remembered(c)'
  <2>1. Registered(c) /\ Remembered(c)
    BY <1>1, <1>8 DEF PeerInv
  <2>2. /\ Of(c)' = Of(c) /\ \A m \in Of(c) : m \in CallNumbers /\ calls'[m].selection = calls[m].selection
        /\ \A m \in Of(c) \ {n} : calls'[m] = calls[m]
        /\ calls'[n].at = "done" /\ n \in Of(c)
    BY <1>0, <1>3 DEF Advanced, Of
  <2>3. \A m \in Of(c) : Covered(c, m)' <=> Covered(c, m)
    BY <1>1, <2>2 DEF Covered
  <2>4. ~Covered(c, n) /\ n \in registry
    BY <1>0, <2>1, <2>2 DEF Registered
  <2>5. Registered(c)'
    <3>1. \A m \in Of(c)' : calls'[m].at \in {"batches", "answer"} => m \in registry'
      BY <1>1, <2>1, <2>2 DEF Registered
    <3>2. \A m \in (Of(c) \cap registry)' : calls'[m].at = "done" => m \in held'[c] \/ Covered(c, m)'
      BY <1>1, <1>4, <2>1, <2>2, <2>3 DEF Registered
    <3>3. \A m \in Of(c)' : Covered(c, m)' => calls'[m].at = "done" /\ m \notin held'[c]
      BY <1>4, <2>1, <2>2, <2>3, <2>4 DEF Registered
    <3> QED BY <1>1, <1>4, <2>1, <2>4, <3>1, <3>2, <3>3 DEF Registered
  <2>6. Remembered(c)'
    <3> SUFFICES ASSUME NEW m \in (wanted \cap Of(c))'
                 PROVE  (m \in held[c] \/ Replaced(c, m))'
      BY DEF Remembered
    <3>1. m \in Of(c) /\ (m = n \/ m \in wanted)
      BY <1>1, <2>2
    <3>2. CASE m \in held[c] \cup {n}
      BY <1>4, <3>2
    <3>3. ASSUME m # n, Replaced(c, m) PROVE (m \in held[c] \/ Replaced(c, m))'
      <4>1. PICK k \in Of(c) \ wanted : /\ calls[k].selection = calls[m].selection
                                        /\ k \in held[c] \/ (InProgress(k) /\ ~calls[k].app)
        BY <3>3 DEF Replaced
      <4>2. k \in (Of(c) \ wanted)'
        <5>1. k = n => ~calls[k].app
          BY <1>0, <4>1 DEF PeerInv, ClientOK
        <5> QED BY <1>1, <2>2, <4>1, <5>1
      <4>3. k \in held'[c] \/ (InProgress(k) /\ ~calls[k].app)'
        BY <1>4, <2>2, <4>1 DEF InProgress
      <4>4. calls'[k].selection = calls'[m].selection
        BY <2>2, <3>1, <4>1
      <4> QED BY <4>2, <4>3, <4>4 DEF Replaced
    <3> QED BY <2>1, <3>1, <3>2, <3>3 DEF Remembered
  <2> QED BY <2>5, <2>6
<1>9. missed' = {}
  BY <1>1 DEF PeerInv
<1> QED BY <1>5, <1>6, <1>7, <1>8, <1>9 DEF PeerInv

\* Every subscription of an undisturbed client goes when its connection closes.
LEMMA CleanupKeeps ==
  ASSUME PeerInv, NEW c \in Clients, cleanupConnections(c)
  PROVE  PeerInv'
<1> DEFINE pending == {n \in Of(c) : calls[n].at \in {"batches", "answer"}}
           gone == UNION {On(c, s) : s \in DOMAIN selectors[c]}
<1>1. /\ socket[c] # "closed" /\ socket' = [socket EXCEPT ![c] = "closed"]
      /\ registry' = registry \ gone
      /\ selectors' = [d \in Connected \ {c} |-> selectors[d]]
      /\ stray' = (stray \cup {n \in pending : calls[n].at = "batches"}) \cap registry'
      /\ disturbed' = disturbed \cup (IF pending # {} THEN {c} ELSE {})
      /\ UNCHANGED <<held, calls, unsub, missed, wanted>>
  BY DEF cleanupConnections, Mark, Restrict
<1>2. PeerTypeOK /\ ClientOK(c) /\ c \in Connected
  BY <1>1 DEF PeerInv, ClientOK
<1>3. /\ Connected' = Connected \ {c} /\ \A d \in Connected' : selectors'[d] = selectors[d]
      /\ disturbed \subseteq disturbed'
      /\ socket'[c] = "closed" /\ \A d \in Clients \ {c} : socket'[d] = socket[d]
  BY <1>1, <1>2 DEF Connected, PeerTypeOK
<1>4. gone = {n \in Of(c) : calls[n].selection \in DOMAIN selectors[c]}
  BY DEF On
<1>5. pending \subseteq Of(c) /\ Of(c) \subseteq CallNumbers /\ \A n \in Of(c) : calls[n].client = c
  BY DEF Of
<1>6. PeerTypeOK'
  <2>1. stray' \subseteq CallNumbers /\ registry' \subseteq CallNumbers /\ disturbed' \subseteq Clients
    BY <1>1, <1>2 DEF PeerTypeOK
  <2>2. socket' \in [Clients -> {"closed", "open", "live"}]
    BY <1>1, <1>2 DEF PeerTypeOK
  <2>3. \A d \in Connected' : d \in Clients /\ DOMAIN selectors'[d] \subseteq Selections
                              /\ \A x \in DOMAIN selectors'[d] : selectors'[d][x] \subseteq CallNumbers
    BY <1>2, <1>3, SelectorTypes
  <2> QED BY <1>1, <1>2, <2>1, <2>2, <2>3 DEF PeerTypeOK, Connected
<1>7. NumbersAreTaken' /\ missed' = {}
  BY <1>1 DEF PeerInv, NumbersAreTaken, Taken
<1>8. ASSUME NEW n \in registry' \ stray'
      PROVE  n \in registry \ stray /\ calls[n].client # c
  <2>1. n \in registry \ stray /\ n \in CallNumbers /\ calls[n].at \in {"batches", "answer", "done"}
    BY <1>1, <1>2 DEF PeerTypeOK, PeerInv, NumberOK
  <2>2. ASSUME calls[n].client = c PROVE FALSE
    <3>1. n \in Of(c)
      BY <2>1, <2>2 DEF Of
    <3>2. calls[n].at = "batches" \/ calls[n].selection \in DOMAIN selectors[c]
      BY <2>1, <2>2 DEF PeerInv, NumberOK
    <3>3. calls[n].at # "batches"
      BY <1>1, <3>1
    <3>4. n \in gone
      BY <1>4, <3>1, <3>2, <3>3
    <3> QED BY <1>1, <3>4
  <2> QED BY <2>1, <2>2
<1> HIDE DEF gone
<1>9. ASSUME NEW n \in CallNumbers PROVE NumberOK(n)'
  <2>1. NumberOK(n)
    BY DEF PeerInv
  <2>2. n \in registry' => calls'[n].at \in {"batches", "answer", "done"}
    BY <1>1, <2>1 DEF NumberOK
  <2>3. n \in stray' => n \in registry' /\ calls'[n].client \in disturbed'
    BY <1>1, <1>5, <2>1 DEF NumberOK
  <2>4. n \in registry' \ stray' =>
          /\ calls'[n].client \in Connected'
          /\ calls'[n].at = "batches" \/ calls'[n].selection \in DOMAIN selectors'[calls'[n].client]
    BY <1>1, <1>3, <1>8, <2>1 DEF NumberOK
  <2>5. n \in wanted' => calls'[n].at = "done"
    BY <1>1, <2>1 DEF NumberOK
  <2> QED BY <2>2, <2>3, <2>4, <2>5 DEF NumberOK
<1>10. ASSUME NEW d \in Clients \ {c}
       PROVE  ClientOK(d)' /\ (d \notin disturbed' => Registered(d)' /\ Remembered(d)')
  <2>1. \A n \in Of(d) : n \notin gone
    BY <1>4, <1>5 DEF Of
  <2>2. SameClient(d)
    BY <1>1, <1>3, <2>1 DEF SameClient, Of
  <2>3. ClientOK(d) /\ (socket'[d] = "closed" <=> d \notin Connected')
    BY <1>3 DEF PeerInv, ClientOK
  <2> QED BY <1>3, <2>2, <2>3, ClientKept DEF PeerInv
<1>11. Of(c)' = Of(c)
  BY <1>1 DEF Of
<1>12. ClientOK(c)'
  BY <1>1, <1>2, <1>3, <1>11 DEF ClientOK
<1>13. ASSUME c \notin disturbed' PROVE Registered(c)' /\ Remembered(c)'
  <2>1. c \notin disturbed /\ pending = {}
    BY <1>1, <1>13
  <2>2. Registered(c) /\ Remembered(c)
    BY <2>1 DEF PeerInv
  <2>3. \A n \in Of(c) : n \notin registry'
    <3>1. \A n \in Of(c) : n \notin stray'
      BY <1>5, <1>9, <1>13, <1>1 DEF NumberOK
    <3> QED BY <1>5, <1>8, <3>1
  <2>4. Registered(c)'
    BY <1>1, <1>3, <1>11, <2>1, <2>2, <2>3 DEF Registered, Covered
  <2>5. Remembered(c)'
    BY <1>1, <1>11, <2>2 DEF Remembered, Replaced, InProgress
  <2> QED BY <2>4, <2>5
<1> QED BY <1>6, <1>7, <1>9, <1>10, <1>12, <1>13 DEF PeerInv

LEMMA PeerRestartKeeps ==
  ASSUME PeerInv, PeerRestart
  PROVE  PeerInv'
<1>1. /\ socket' = [c \in Clients |-> "closed"]
      /\ Connected' = {} /\ registry' = {} /\ missed' = {} /\ stray' = {}
      /\ calls' = [n \in CallNumbers |-> IF InProgress(n) THEN [calls[n] EXCEPT !.at = "done", !.app = FALSE] ELSE calls[n]]
      /\ unsub' = [c \in Clients |-> NoUnsub]
      /\ disturbed' = disturbed \cup {c \in Clients : \E n \in Of(c) : InProgress(n)}
      /\ UNCHANGED <<held, wanted>>
  BY DEF PeerRestart, Mark, Connected
<1>2. PeerTypeOK
  BY DEF PeerInv
<1>3. ASSUME NEW n \in CallNumbers
      PROVE  /\ calls'[n] \in {NewCall} \cup CallRecord
             /\ calls'[n].at # "new" <=> calls[n].at # "new"
             /\ calls[n].at # "new" => calls'[n].client = calls[n].client /\ calls'[n].selection = calls[n].selection
             /\ calls'[n].at \in {"new", "done"}
             /\ ~InProgress(n) => calls'[n] = calls[n]
  <2>1. CASE InProgress(n)
    <3>1. calls[n] \in CallRecord /\ calls'[n] = [calls[n] EXCEPT !.at = "done", !.app = FALSE]
      BY <1>1, <1>2, <2>1, CallFacts DEF InProgress
    <3>2. /\ calls'[n] \in CallRecord /\ calls'[n].at = "done"
          /\ calls'[n].client = calls[n].client /\ calls'[n].selection = calls[n].selection
      BY <3>1 DEF CallRecord, Stages
    <3> QED BY <2>1, <3>2 DEF InProgress
  <2>2. CASE ~InProgress(n)
    BY <1>1, <1>2, <2>2, CallFacts DEF InProgress
  <2> QED BY <2>1, <2>2
<1>4. PeerTypeOK'
  <2>1. calls' \in [CallNumbers -> {NewCall} \cup CallRecord]
    BY <1>1, <1>3
  <2>2. unsub' \in [Clients -> {NoUnsub} \cup [at : {"sent"}, selection : Selections, ids : SUBSET CallNumbers]]
    BY <1>1
  <2>3. disturbed' \subseteq Clients
    BY <1>1, <1>2 DEF PeerTypeOK
  <2>4. socket' \in [Clients -> {"closed", "open", "live"}]
    BY <1>1
  <2> QED BY <1>1, <1>2, <2>1, <2>2, <2>3, <2>4 DEF PeerTypeOK, CallRecord, Connected
<1>5. NumbersAreTaken'
  <2>1. Taken' = Taken
    BY <1>3 DEF Taken
  <2> QED BY <2>1 DEF PeerInv, NumbersAreTaken
<1>6. ASSUME NEW n \in CallNumbers PROVE NumberOK(n)'
  <2>1. n \in wanted => calls'[n].at = "done"
    <3>1. n \in wanted => calls[n].at = "done"
      BY DEF PeerInv, NumberOK
    <3> QED BY <1>3, <3>1
  <2> QED BY <1>1, <2>1 DEF NumberOK
<1>7. ASSUME NEW c \in Clients
      PROVE  ClientOK(c)' /\ (c \notin disturbed' => Registered(c)' /\ Remembered(c)')
  <2>1. Of(c)' = Of(c) /\ Of(c) \subseteq CallNumbers
    BY <1>3 DEF Of
  <2>2. ClientOK(c) /\ \A n \in Of(c) : calls'[n].at = "done"
    BY <1>3 DEF PeerInv, Of
  <2>3. ClientOK(c)'
    BY <1>1, <2>1, <2>2 DEF ClientOK
  <2>4. ASSUME c \notin disturbed' PROVE Registered(c)' /\ Remembered(c)'
    <3>1. c \notin disturbed /\ \A n \in Of(c) : ~InProgress(n) /\ calls'[n] = calls[n]
      BY <1>1, <1>3, <2>1, <2>4
    <3>2. Remembered(c)
      BY <3>1 DEF PeerInv
    <3>3. Registered(c)'
      BY <1>1, <2>1, <2>2 DEF Registered, Covered
    <3>4. Remembered(c)'
      <4> SUFFICES ASSUME NEW n \in (wanted \cap Of(c))'
                   PROVE  (n \in held[c] \/ Replaced(c, n))'
        BY DEF Remembered
      <4>1. n \in wanted \cap Of(c)
        BY <1>1, <2>1
      <4>2. ASSUME Replaced(c, n) PROVE Replaced(c, n)'
        <5>1. PICK k \in Of(c) \ wanted : calls[k].selection = calls[n].selection /\ k \in held[c]
          BY <3>1, <4>2 DEF Replaced
        <5>2. k \in (Of(c) \ wanted)' /\ calls'[k].selection = calls'[n].selection /\ k \in held'[c]
          BY <1>1, <2>1, <3>1, <4>1, <5>1
        <5> QED BY <5>2 DEF Replaced
      <4> QED BY <1>1, <3>2, <4>1, <4>2 DEF Remembered
    <3> QED BY <3>3, <3>4
  <2> QED BY <2>3, <2>4
<1> QED BY <1>1, <1>4, <1>5, <1>6, <1>7 DEF PeerInv

\* The application cancels one subscription or a selection.
LEMMA CancelKeeps ==
  ASSUME PeerInv, NEW c \in Clients, NEW s \in Selections, NEW ids \in SUBSET CallNumbers,
         Unsubscribe(c, s, ids)
  PROVE  PeerInv'
<1> DEFINE lost == IF ids = {} THEN On(c, s) ELSE ids
           new == [at |-> "sent", selection |-> s, ids |-> ids]
<1>1. /\ unsub[c] = NoUnsub /\ ids \subseteq wanted \cap On(c, s)
      /\ held' = [held EXCEPT ![c] = @ \ lost]
      /\ wanted' = wanted \ lost
      /\ unsub' = [unsub EXCEPT ![c] = new]
      /\ disturbed' = disturbed \cup (IF ids = {} /\ \E n \in On(c, s) : InProgress(n) THEN {c} ELSE {})
      /\ UNCHANGED <<socket, selectors, registry, calls, missed, stray>>
  BY DEF Unsubscribe, Mark
<1>2. PeerTypeOK /\ ClientOK(c) /\ new # NoUnsub /\ new.ids = ids /\ new.selection = s
  BY DEF PeerInv, NoUnsub
<1>3. /\ held'[c] = held[c] \ lost /\ unsub'[c] = new
      /\ \A d \in Clients \ {c} : held'[d] = held[d] /\ unsub'[d] = unsub[d]
      /\ disturbed \subseteq disturbed'
  BY <1>1, <1>2 DEF PeerTypeOK
<1>4. lost \subseteq On(c, s) /\ On(c, s) = {n \in Of(c) : calls[n].selection = s} /\ Of(c) \subseteq CallNumbers
  BY <1>1 DEF On, Of
<1>5. \A n \in ids : n \in Of(c) /\ calls[n].at = "done"
  BY <1>1, <1>4 DEF PeerInv, NumberOK
<1>6. PeerTypeOK'
  <2>1. held' \in [Clients -> SUBSET CallNumbers] /\ wanted' \subseteq CallNumbers /\ disturbed' \subseteq Clients
    BY <1>1, <1>2 DEF PeerTypeOK
  <2>2. unsub' \in [Clients -> {NoUnsub} \cup [at : {"sent"}, selection : Selections, ids : SUBSET CallNumbers]]
    BY <1>1, <1>2 DEF PeerTypeOK
  <2> QED BY <1>1, <1>2, <2>1, <2>2 DEF PeerTypeOK
<1>7. NumbersAreTaken' /\ missed' = {}
  BY <1>1 DEF PeerInv, NumbersAreTaken, Taken
<1> HIDE DEF lost, new
<1>8. ASSUME NEW n \in CallNumbers PROVE NumberOK(n)'
  BY <1>1, <1>3 DEF PeerInv, NumberOK, Connected
<1>9. ASSUME NEW d \in Clients \ {c}
      PROVE  ClientOK(d)' /\ (d \notin disturbed' => Registered(d)' /\ Remembered(d)')
  <2>1. \A n \in Of(d) : n \notin lost
    BY <1>4 DEF Of
  <2>2. SameClient(d)
    BY <1>1, <1>3, <2>1 DEF SameClient, Of
  <2>3. ClientOK(d) /\ (socket'[d] = "closed" <=> d \notin Connected')
    BY <1>1 DEF PeerInv, ClientOK, Connected
  <2> QED BY <1>3, <2>2, <2>3, ClientKept DEF PeerInv
<1>10. Of(c)' = Of(c)
  BY <1>1 DEF Of
<1>11. ClientOK(c)'
  BY <1>1, <1>2, <1>3, <1>5, <1>10 DEF ClientOK, Connected
<1>12. ASSUME c \notin disturbed' PROVE Registered(c)' /\ Remembered(c)'
  <2>1. c \notin disturbed /\ (ids = {} => \A n \in On(c, s) : ~InProgress(n))
    BY <1>1, <1>12
  <2>2. Registered(c) /\ Remembered(c)
    BY <2>1 DEF PeerInv
  <2>3. \A n \in Of(c) : ~Covered(c, n) /\ (Covered(c, n)' <=> n \in lost)
    <3>1. \A n \in Of(c) : n \in lost <=> n \in ids \/ (ids = {} /\ calls[n].selection = s)
      BY <1>4 DEF lost
    <3> QED BY <1>1, <1>2, <1>3, <3>1 DEF Covered
  <2>4. \A n \in lost : calls[n].at = "done"
    <3>1. CASE ids = {}
      BY <1>4, <2>1, <3>1 DEF InProgress, Of
    <3>2. CASE ids # {}
      BY <1>5, <3>2 DEF lost
    <3> QED BY <3>1, <3>2
  <2>5. Registered(c)'
    <3>1. \A n \in Of(c)' : calls'[n].at \in {"batches", "answer"} => n \in registry'
      BY <1>1, <1>10, <2>2 DEF Registered
    <3>2. \A n \in (Of(c) \cap registry)' : calls'[n].at = "done" => n \in held'[c] \/ Covered(c, n)'
      BY <1>1, <1>3, <1>10, <2>2, <2>3 DEF Registered
    <3>3. \A n \in Of(c)' : Covered(c, n)' => calls'[n].at = "done" /\ n \notin held'[c]
      BY <1>1, <1>3, <1>10, <2>3, <2>4
    <3> QED BY <1>1, <1>3, <2>2, <3>1, <3>2, <3>3 DEF Registered
  <2>6. Remembered(c)'
    <3> SUFFICES ASSUME NEW n \in (wanted \cap Of(c))'
                 PROVE  (n \in held[c] \/ Replaced(c, n))'
      BY DEF Remembered
    <3>1. n \in wanted \cap Of(c) /\ n \notin lost
      BY <1>1, <1>10
    <3>2. CASE n \in held[c]
      BY <1>3, <3>1, <3>2
    <3>3. CASE Replaced(c, n)
      <4>1. PICK k \in Of(c) \ wanted : /\ calls[k].selection = calls[n].selection
                                        /\ k \in held[c] \/ (InProgress(k) /\ ~calls[k].app)
        BY <3>3 DEF Replaced
      <4>2. k \notin lost
        <5>1. CASE ids = {}
          BY <1>4, <3>1, <4>1, <5>1 DEF lost
        <5>2. CASE ids # {}
          BY <1>1, <4>1, <5>2 DEF lost
        <5> QED BY <5>1, <5>2
      <4>3. k \in (Of(c) \ wanted)' /\ (k \in held[c] \/ (InProgress(k) /\ ~calls[k].app))'
        BY <1>1, <1>3, <1>10, <4>1, <4>2 DEF InProgress
      <4> QED BY <1>1, <4>1, <4>3 DEF Replaced
    <3> QED BY <2>2, <3>1, <3>2, <3>3 DEF Remembered
  <2> QED BY <2>5, <2>6
<1> QED BY <1>6, <1>7, <1>8, <1>9, <1>11, <1>12 DEF PeerInv

\* The server takes a cancellation, or refuses it to a client without a connection.
LEMMA CancelArrivesKeeps ==
  ASSUME PeerInv, NEW c \in Clients, UnsubscribeArrives(c)
  PROVE  PeerInv'
<1> DEFINE s == unsub[c].selection
           ids == unsub[c].ids
           gone == IF c \in Connected THEN (IF ids = {} THEN On(c, s) ELSE ids) ELSE {}
<1>1. /\ unsub[c] # NoUnsub /\ unsub' = [unsub EXCEPT ![c] = NoUnsub]
      /\ registry' = registry \ gone
      /\ selectors' = IF c \in Connected /\ s \in DOMAIN selectors[c]
                        THEN [selectors EXCEPT ![c][s] = @ \ ids] ELSE selectors
      /\ stray' = stray \cap registry'
      /\ UNCHANGED <<held, socket, calls, missed, wanted, disturbed>>
  <2>1. /\ unsub[c] # NoUnsub /\ unsub' = [unsub EXCEPT ![c] = NoUnsub]
        /\ IF c \in Connected
             THEN /\ registry' = registry \ (IF ids = {} THEN On(c, s) ELSE ids)
                  /\ selectors' = IF s \in DOMAIN selectors[c]
                                    THEN [selectors EXCEPT ![c][s] = @ \ ids] ELSE selectors
             ELSE UNCHANGED <<registry, selectors>>
        /\ stray' = stray \cap registry'
        /\ UNCHANGED <<held, socket, calls, missed, wanted, disturbed>>
    BY DEF UnsubscribeArrives
  <2>2. CASE c \in Connected
    BY <2>1, <2>2
  <2>3. CASE c \notin Connected
    BY <2>1, <2>3
  <2> QED BY <2>2, <2>3
<1>2. PeerTypeOK /\ ClientOK(c)
  BY DEF PeerInv
<1>3. ids \subseteq Of(c) /\ On(c, s) = {n \in Of(c) : calls[n].selection = s}
  BY <1>1, <1>2 DEF ClientOK, On
<1>4. gone \subseteq Of(c) /\ (c \in Connected => \A n \in Of(c) : n \in gone <=> Covered(c, n))
  BY <1>1, <1>3 DEF Covered
<1> HIDE DEF gone
<1>5. /\ Connected' = Connected
      /\ \A d \in Connected : DOMAIN selectors'[d] = DOMAIN selectors[d]
      /\ \A d \in Connected : \A x \in DOMAIN selectors[d] : selectors'[d][x] \subseteq selectors[d][x]
  <2>1. CASE c \in Connected /\ s \in DOMAIN selectors[c]
    <3>1. selectors' = [selectors EXCEPT ![c] = [selectors[c] EXCEPT ![s] = @ \ ids]]
      BY <1>1, <2>1
    <3> QED BY <2>1, <3>1 DEF Connected
  <2>2. CASE ~(c \in Connected /\ s \in DOMAIN selectors[c])
    BY <1>1, <2>2 DEF Connected
  <2> QED BY <2>1, <2>2
<1>6. unsub'[c] = NoUnsub /\ \A d \in Clients \ {c} : unsub'[d] = unsub[d]
  BY <1>1, <1>2 DEF PeerTypeOK
<1>7. PeerTypeOK'
  <2>1. unsub' \in [Clients -> {NoUnsub} \cup [at : {"sent"}, selection : Selections, ids : SUBSET CallNumbers]]
    BY <1>1, <1>2 DEF PeerTypeOK
  <2>2. \A d \in Connected' : d \in Clients /\ DOMAIN selectors'[d] \subseteq Selections
                              /\ \A x \in DOMAIN selectors'[d] : selectors'[d][x] \subseteq CallNumbers
    <3>1. ASSUME NEW d \in Connected', NEW x \in DOMAIN selectors'[d]
          PROVE  selectors'[d][x] \subseteq CallNumbers
      <4>1. d \in Connected /\ x \in DOMAIN selectors[d]
        BY <1>5
      <4>2. selectors[d][x] \subseteq CallNumbers /\ selectors'[d][x] \subseteq selectors[d][x]
        BY <1>2, <1>5, <4>1, SelectorTypes
      <4> QED BY <4>2
    <3> QED BY <1>2, <1>5, <3>1, SelectorTypes
  <2>3. registry' \subseteq CallNumbers /\ stray' \subseteq CallNumbers
    BY <1>1, <1>2 DEF PeerTypeOK
  <2> QED BY <1>1, <1>2, <2>1, <2>2, <2>3 DEF PeerTypeOK, Connected
<1>8. NumbersAreTaken' /\ missed' = {}
  BY <1>1 DEF PeerInv, NumbersAreTaken, Taken
<1>9. ASSUME NEW n \in CallNumbers PROVE NumberOK(n)'
  <2>1. NumberOK(n)
    BY DEF PeerInv
  <2>2. n \in registry' \ stray' => n \in registry \ stray
    BY <1>1
  <2> QED BY <1>1, <1>5, <2>1, <2>2 DEF NumberOK
<1>10. ASSUME NEW d \in Clients \ {c}
       PROVE  ClientOK(d)' /\ (d \notin disturbed' => Registered(d)' /\ Remembered(d)')
  <2>1. \A n \in Of(d) : n \notin gone
    BY <1>4 DEF Of
  <2>2. SameClient(d)
    BY <1>1, <1>6, <2>1 DEF SameClient, Of
  <2>3. ClientOK(d) /\ (socket'[d] = "closed" <=> d \notin Connected')
    BY <1>1, <1>5 DEF PeerInv, ClientOK
  <2> QED BY <1>1, <2>2, <2>3, ClientKept DEF PeerInv
<1>11. Of(c)' = Of(c)
  BY <1>1 DEF Of
<1>12. ClientOK(c)'
  BY <1>1, <1>2, <1>5, <1>6, <1>11 DEF ClientOK
<1>13. ASSUME c \notin disturbed' PROVE Registered(c)' /\ Remembered(c)'
  <2>1. Registered(c) /\ Remembered(c) /\ c \notin disturbed
    BY <1>1, <1>13 DEF PeerInv
  <2>2. \A n \in Of(c) : ~Covered(c, n)'
    BY <1>6 DEF Covered
  <2>3. c \notin Connected => \A n \in Of(c) : n \notin registry
    BY <1>2, <2>1 DEF PeerTypeOK, PeerInv, NumberOK, Of
  <2>4. \A n \in Of(c) : n \in gone => Covered(c, n)
    BY <1>4 DEF gone
  <2>5. Registered(c)'
    <3>1. \A n \in Of(c)' : calls'[n].at \in {"batches", "answer"} => n \in registry'
      BY <1>1, <1>11, <2>1, <2>4 DEF Registered
    <3>2. \A n \in (Of(c) \cap registry)' : calls'[n].at = "done" => n \in held'[c] \/ Covered(c, n)'
      BY <1>1, <1>4, <1>11, <2>1, <2>3 DEF Registered
    <3>3. \A n \in Of(c)' : Covered(c, n)' => calls'[n].at = "done" /\ n \notin held'[c]
      BY <1>11, <2>2
    <3>4. socket'[c] = "live" => held'[c] \subseteq registry'
      BY <1>1, <1>2, <2>1, <2>4 DEF Registered, ClientOK
    <3> QED BY <3>1, <3>2, <3>3, <3>4 DEF Registered
  <2>6. Remembered(c)'
    BY <1>1, <1>11, <2>1 DEF Remembered, Replaced, InProgress
  <2> QED BY <2>5, <2>6
<1> QED BY <1>7, <1>8, <1>9, <1>10, <1>12, <1>13 DEF PeerInv

-----------------------------------------------------------------------------
(* The clients: the invariant and its consequences *)

LEMMA PeerInitInv == PeerInit => PeerInv
<1> SUFFICES ASSUME PeerInit PROVE PeerInv
  OBVIOUS
<1>1. /\ held = [c \in Clients |-> {}] /\ socket = [c \in Clients |-> "closed"]
      /\ Connected = {} /\ registry = {} /\ calls = [n \in CallNumbers |-> NewCall]
      /\ unsub = [c \in Clients |-> NoUnsub]
      /\ missed = {} /\ wanted = {} /\ stray = {} /\ disturbed = {}
  BY DEF PeerInit, Connected
<1>2. \A n \in CallNumbers : calls[n] = NewCall /\ calls[n].at = "new"
  BY <1>1 DEF NewCall
<1>3. PeerTypeOK
  BY <1>1 DEF PeerTypeOK, Connected
<1>4. NumbersAreTaken
  <2>1. Taken = {} /\ {} = 1..0 /\ 0 \in 0..MaxCalls
    BY <1>2, PeerAssumption DEF Taken
  <2> QED BY <2>1 DEF NumbersAreTaken
<1>5. \A c \in Clients : Of(c) = {}
  BY <1>2 DEF Of
<1> QED BY <1>1, <1>3, <1>4, <1>5 DEF PeerInv, NumberOK, ClientOK, Registered, Remembered

LEMMA PeerStep == PeerInv /\ [PeerNext]_peerVars => PeerInv'
<1> SUFFICES ASSUME PeerInv, [PeerNext]_peerVars PROVE PeerInv'
  OBVIOUS
<1>1. ASSUME NEW c \in Clients, NEW s \in Selections, Unsubscribe(c, s, {}) \/ \E n \in wanted : Unsubscribe(c, s, {n})
      PROVE  PeerInv'
  <2>1. {} \in SUBSET CallNumbers /\ \A n \in wanted : {n} \in SUBSET CallNumbers
    BY DEF PeerInv, PeerTypeOK
  <2> QED BY <1>1, <2>1, CancelKeeps
<1>2. CASE UNCHANGED peerVars
  <2>1. UNCHANGED <<held, socket, selectors, registry, calls, unsub, missed, wanted, stray, disturbed>>
    BY <1>2 DEF peerVars
  <2> QED BY <2>1 DEF PeerInv, PeerTypeOK, NumbersAreTaken, Taken, NumberOK, ClientOK, Registered, Remembered,
                      Replaced, Covered, Of, Connected, InProgress
<1> QED BY <1>1, <1>2, ConnectKeeps, ReplayKeeps, CleanupKeeps, CancelArrivesKeeps, SubscribeCallKeeps, ArriveKeeps,
           StoredKeeps, CallFailsKeeps, AnsweredKeeps, PublishKeeps, PeerRestartKeeps DEF PeerNext

LEMMA PeerInvariant == PeerSpec => []PeerInv
<1> QED BY PeerInitInv, PeerStep, PTL DEF PeerSpec

\* No subscription outlives the connection it was made on, except one whose
\* /subscribe failed or was cut off in its batches.
THEOREM SubscriptionsAreListed == PeerSpec => []SelectorsCover
<1>1. PeerInv => SelectorsCover
  BY DEF SelectorsCover, RegistryIsListed, PeerInv, PeerTypeOK, NumberOK
<1> QED BY <1>1, PeerInvariant, PTL

\* So an event reaches its connected subscribers unless it matches such a one.
THEOREM EventsReach == PeerSpec => []EventsReachSubscribers
<1>1. PeerInv => EventsReachSubscribers
  BY DEF EventsReachSubscribers, PeerInv
<1> QED BY <1>1, PeerInvariant, PTL

\* A client whose requests are through, and none of them cut off, agrees with
\* the server on its subscriptions and has those its application wants,
\* however often it connected and the server restarted.
THEOREM SubscriptionsSurvive == PeerSpec => []ReconnectKeepsSubscriptions
<1>1. PeerInv => ReconnectKeepsSubscriptions
  <2> SUFFICES ASSUME PeerInv, NEW c \in Clients \ disturbed, Quiet(c)
               PROVE  /\ held[c] = registry \cap Of(c)
                      /\ \A n \in wanted \cap Of(c) :
                           \E m \in registry \cap Of(c) : calls[m].selection = calls[n].selection
    BY DEF ReconnectKeepsSubscriptions, HeldIsRegistered, WantedIsSubscribed
  <2>1. Registered(c) /\ Remembered(c) /\ ClientOK(c)
    BY DEF PeerInv
  <2>2. socket[c] = "live" /\ unsub[c] = NoUnsub /\ \A n \in Of(c) : ~InProgress(n)
    BY DEF Quiet
  <2>3. \A n \in registry \cap Of(c) : calls[n].at = "done" /\ ~Covered(c, n)
    BY <2>2 DEF InProgress, Covered, Of, PeerInv, NumberOK
  <2>4. held[c] = registry \cap Of(c)
    BY <2>1, <2>2, <2>3 DEF Registered, ClientOK
  <2>5. ASSUME NEW n \in wanted \cap Of(c)
        PROVE  \E m \in registry \cap Of(c) : calls[m].selection = calls[n].selection
    <3>1. n \in held[c] \/ \E m \in Of(c) \cap held[c] : calls[m].selection = calls[n].selection
      BY <2>1, <2>2, <2>5 DEF Remembered, Replaced
    <3> QED BY <2>4, <3>1
  <2> QED BY <2>4, <2>5
<1> QED BY <1>1, PeerInvariant, PTL
=============================================================================
