------------------------- MODULE SubscriberRegistry -------------------------
(***************************************************************************)
(* DDBSubscriberRegistry (src/core/ddbSubscriberRegistry.js) on top of the *)
(* in-memory SubscriberRegistry (src/core/registry.js): a server keeps its *)
(* subscriptions in memory and mirrors each one in the shared database as  *)
(* a log entry and a set of input entries, so that other servers find it.  *)
(*                                                                         *)
(* A call is one execution of subscribe, unsubscribe or unsubscribeAll.    *)
(* Its synchronous prefix (memory, queueing for the key locks) is one      *)
(* step; then come its two batches, each with the answer the database      *)
(* gives: done, refused, or lost after it was applied.  lww.batch is       *)
(* atomic in the database, so the inputs of a subscription come and go     *)
(* together.  The peers' subscription ids are uuids: an id is used once.   *)
(***************************************************************************)
EXTENDS AsyncLock, FiniteSets

CONSTANTS Calls,          \* executions that may be in progress together
          SubscriberIDs,  \* a peer's selections on this server
          SubscriptionIDs \* the uuids subscribe() draws

VARIABLES subscriptions,  \* in memory: subscription id -> subscriber
          keyLockMap,     \* the AsyncLockMap over subscription ids
          op,             \* the calls in progress
          log, inputs,    \* the ids with a log entry / input entries in the database
          known,          \* ids that subscribe() has returned to its caller
          used,           \* ids ever drawn
          failed,         \* ids with a batch that failed or was cut off by a crash
          lookup,         \* another server's getRemoteSubscribers
          cache           \* that server's cached result

vars == <<subscriptions, keyLockMap, op, log, inputs, known, used, failed, lookup, cache>>

Idle == [kind |-> "idle", ids |-> {}, got |-> {}, at |-> "idle"]
NoLookup == [at |-> "idle", seen |-> {}, owed |-> {}]
NoCache == [filled |-> FALSE, ids |-> {}]

Mine(s) == {id \in DOMAIN subscriptions : subscriptions[id] = s}
Forget(ids) == [id \in DOMAIN subscriptions \ ids |-> subscriptions[id]]

TypeOK ==
  /\ DOMAIN subscriptions \subseteq SubscriptionIDs
  /\ \A id \in DOMAIN subscriptions : subscriptions[id] \in SubscriberIDs
  /\ op \in [Calls -> [kind : {"idle", "subscribe", "unsubscribe"},
                       ids : SUBSET SubscriptionIDs, got : SUBSET SubscriptionIDs,
                       at : {"idle", "locking", "first", "second"}]]
  /\ {log, inputs, known, used, failed, cache.ids} \subseteq SUBSET SubscriptionIDs

Init == /\ subscriptions = [id \in {} |-> {}]
        /\ keyLockMap = EmptyLockMap
        /\ op = [c \in Calls |-> Idle]
        /\ log = {} /\ inputs = {} /\ known = {} /\ used = {} /\ failed = {}
        /\ lookup = NoLookup /\ cache = NoCache

-----------------------------------------------------------------------------
(* The key locks of a call: Promise.all over acquire, map over release *)

\* Mutant: the first batch is sent without waiting for the locks.
StartUnlocked(c, kind, ids) ==
  LET res(id) == LockMapAcquire(keyLockMap, id, c)
      got == {id \in ids : c \in res(id).granted}
  IN  /\ op[c] = Idle
      /\ keyLockMap' = [id \in DOMAIN keyLockMap \cup ids |->
                          IF id \in ids THEN res(id).lock[id] ELSE keyLockMap[id]]
      /\ op' = [op EXCEPT ![c] = [kind |-> kind, ids |-> ids, got |-> got, at |-> "first"]]

\* Start call c: queue for the locks of `ids`; the first batch is sent once
\* all are granted.
Start(c, kind, ids) ==
  LET res(id) == LockMapAcquire(keyLockMap, id, c)
      got == {id \in ids : c \in res(id).granted}
  IN  /\ op[c] = Idle
      /\ keyLockMap' = [id \in DOMAIN keyLockMap \cup ids |->
                          IF id \in ids THEN res(id).lock[id] ELSE keyLockMap[id]]
      /\ op' = [op EXCEPT ![c] = [kind |-> kind, ids |-> ids, got |-> got,
                                  at |-> IF got = ids THEN "first" ELSE "locking"]]

\* End call c: release its locks, which lets waiting calls go on.
Finish(c) ==
  LET ids == op[c].ids
      res(id) == LockMapRelease(keyLockMap, id)
      got(d) == op[d].got \cup {id \in ids : d \in res(id).granted}
  IN  /\ keyLockMap' = [id \in {k \in DOMAIN keyLockMap :
                                  k \in ids => k \in DOMAIN res(k).lock} |->
                          IF id \in ids THEN res(id).lock[id] ELSE keyLockMap[id]]
      /\ op' = [d \in Calls |->
                  IF d = c THEN Idle
                  ELSE [op[d] EXCEPT !.got = got(d),
                                     !.at = IF @ = "locking" /\ got(d) = op[d].ids
                                              THEN "first" ELSE @]]

-----------------------------------------------------------------------------
(* subscribe, unsubscribe, unsubscribeAll: the synchronous part *)

subscribe(c, s, id) ==
  /\ id \notin used
  /\ Start(c, "subscribe", {id})
  /\ subscriptions' = [i \in DOMAIN subscriptions \cup {id} |->
                         IF i = id THEN s ELSE subscriptions[i]]
  /\ used' = used \cup {id}
  /\ UNCHANGED <<log, inputs, known, failed, lookup, cache>>

\* A peer names an id it got from subscribe().  An id that is no longer in
\* memory makes the call return at once, which changes nothing.
unsubscribe(c, id) ==
  /\ id \in known \cap DOMAIN subscriptions
  /\ Start(c, "unsubscribe", {id})
  /\ subscriptions' = Forget({id})
  /\ lookup' = [lookup EXCEPT !.owed = @ \ {id}]
  /\ UNCHANGED <<log, inputs, known, used, failed, cache>>

\* The peer disconnected or dropped the selection; a subscribe() of the same
\* subscriber may still be in progress.
unsubscribeAll(c, s) ==
  /\ Mine(s) # {}
  /\ Start(c, "unsubscribe", Mine(s))
  /\ subscriptions' = Forget(Mine(s))
  /\ lookup' = [lookup EXCEPT !.owed = @ \ Mine(s)]
  /\ UNCHANGED <<log, inputs, known, used, failed, cache>>

-----------------------------------------------------------------------------
(* The batches.  subscribe: log, then inputs; unsubscribe: inputs, then log *)

\* Whether the batch call o is about to send is the one with the log entries.
WritesLog(o) == (o.kind = "subscribe") <=> (o.at = "first")

Applied(set, o) == IF o.kind = "subscribe" THEN set \cup o.ids ELSE set \ o.ids

ApplyBatch(o) == IF WritesLog(o)
                   THEN log' = Applied(log, o) /\ UNCHANGED inputs
                   ELSE inputs' = Applied(inputs, o) /\ UNCHANGED log

\* Mutant: the second batch is sent whatever became of the first.
BatchFailsUnnoticed(c) ==
  /\ op[c].at \in {"first", "second"}
  /\ UNCHANGED <<log, inputs>>
  /\ IF op[c].at = "first"
       THEN op' = [op EXCEPT ![c].at = "second"] /\ UNCHANGED keyLockMap
       ELSE Finish(c)
  /\ failed' = failed \cup op[c].ids
  /\ UNCHANGED <<subscriptions, known, used, lookup, cache>>

\* Mutant: subscribe() answers before the input entries are written.
BatchAnswersEarly(c) ==
  /\ op[c].at \in {"first", "second"}
  /\ ApplyBatch(op[c])
  /\ IF op[c].at = "first"
       THEN op' = [op EXCEPT ![c].at = "second"] /\ UNCHANGED keyLockMap
       ELSE Finish(c)
  /\ known' = IF op[c].kind = "subscribe" THEN known \cup op[c].ids ELSE known
  /\ UNCHANGED <<subscriptions, used, failed, lookup, cache>>

BatchSucceeds(c) ==
  /\ op[c].at \in {"first", "second"}
  /\ ApplyBatch(op[c])
  /\ IF op[c].at = "first"
       THEN /\ op' = [op EXCEPT ![c].at = "second"]
            /\ UNCHANGED <<keyLockMap, known>>
       ELSE /\ Finish(c)
            /\ known' = IF op[c].kind = "subscribe" THEN known \cup op[c].ids ELSE known
  /\ UNCHANGED <<subscriptions, used, failed, lookup, cache>>

\* An error ends the call: the locks are released and the caller is told.
\* Memory keeps (subscribe) or lacks (unsubscribe) the subscription.
BatchFails(c) ==
  /\ op[c].at \in {"first", "second"}
  /\ ApplyBatch(op[c]) \/ UNCHANGED <<log, inputs>>
  /\ Finish(c)
  /\ failed' = failed \cup op[c].ids
  /\ UNCHANGED <<subscriptions, known, used, lookup, cache>>

\* The server process ends and starts again: memory is lost, the database is
\* not, and gc() deletes nothing.
Restart ==
  /\ subscriptions' = [id \in {} |-> {}]
  /\ keyLockMap' = EmptyLockMap
  /\ op' = [c \in Calls |-> Idle]
  /\ known' = {}
  /\ failed' = failed \cup used
  /\ lookup' = [lookup EXCEPT !.owed = {}]
  /\ UNCHANGED <<log, inputs, used, cache>>

-----------------------------------------------------------------------------
(* getRemoteSubscribers of another server: the inputs that match, then the *)
(* log entries of the subscriptions they name; the result is cached        *)

Established == known \cap DOMAIN subscriptions

LookupInputs ==
  /\ lookup.at = "idle" /\ ~cache.filled
  /\ lookup' = [at |-> "log", seen |-> inputs, owed |-> Established]
  /\ UNCHANGED <<subscriptions, keyLockMap, op, log, inputs, known, used, failed, cache>>

LookupLog ==
  /\ lookup.at = "log"
  /\ cache' = [filled |-> TRUE, ids |-> lookup.seen \cap log]
  /\ lookup' = [lookup EXCEPT !.at = "done"]
  /\ UNCHANGED <<subscriptions, keyLockMap, op, log, inputs, known, used, failed>>

\* The answer is used; a later lookup is answered from the cache until the
\* entry is ten minutes old.
CacheExpires ==
  /\ lookup.at = "done"
  /\ lookup' = NoLookup /\ cache' = NoCache
  /\ UNCHANGED <<subscriptions, keyLockMap, op, log, inputs, known, used, failed>>

Next ==
  \/ \E c \in Calls :
       \/ \E id \in SubscriptionIDs :
            unsubscribe(c, id) \/ \E s \in SubscriberIDs : subscribe(c, s, id)
       \/ \E s \in SubscriberIDs : unsubscribeAll(c, s)
       \/ BatchSucceeds(c) \/ BatchFails(c)
  \/ Restart
  \/ LookupInputs \/ LookupLog \/ CacheExpires

Spec == Init /\ [][Next]_vars

-----------------------------------------------------------------------------
(* Properties *)

Writers(id) == {c \in Calls : id \in op[c].ids /\ op[c].at \in {"first", "second"}}
Users(id)   == {c \in Calls : id \in op[c].ids}

\* A call that waits is queued on exactly the locks it has not been given, and
\* no queue names a call that does not wait for it: acquiring several keys at
\* once and releasing them at once leaves nobody behind.
LockQueuesMatchCalls ==
  /\ TypeOK
  /\ \A id \in SubscriptionIDs, c \in Calls :
       LET queue == IF id \in DOMAIN keyLockMap THEN keyLockMap[id].queue ELSE <<>>
       IN  (id \in op[c].ids \ op[c].got) <=> (\E i \in DOMAIN queue : queue[i] = c)

\* The order of the batches: "It should never be the case where the logic and
\* inputs are written before the log entry", and unsubscribe deletes the log
\* last, so input entries without a log entry never exist: not while a
\* subscribe races an unsubscribeAll, not after a failed batch or a crash.
InputsImplyLog == inputs \subseteq log

\* One call at a time writes the records of a subscription.  AsyncLockMap lets
\* a third caller in next to the second; the registry is safe because memory
\* lets at most one unsubscribe follow a subscribe.
OneWriterPerSubscription == \A id \in SubscriptionIDs : Cardinality(Writers(id)) <= 1

\* Calls queue on the locks they wait for and no others, one at a time writes
\* the records of a subscription, and its log entry is written first and
\* deleted last.
RecordsAreWrittenInOrder == LockQueuesMatchCalls /\ OneWriterPerSubscription /\ InputsImplyLog

\* Memory and database agree on every subscription that no call is working on,
\* no batch of which failed and that no restart has orphaned: a racing
\* unsubscribeAll leaves no garbage.
QuietRecordsMatchMemory ==
  \A id \in SubscriptionIDs \ failed :
     Users(id) = {} => /\ id \in log <=> id \in DOMAIN subscriptions
                       /\ id \in inputs <=> id \in DOMAIN subscriptions

\* Another server's lookup finds every subscription that subscribe() had
\* returned before the lookup began and that nobody unsubscribed meanwhile.
LookupFindsEstablished == lookup.at = "done" => lookup.owed \subseteq cache.ids

\* "The property must hold that the logic and inputs exist if and only if the
\* log entry exists", when no call is between its two batches.
InputsIffLog ==
  \A id \in SubscriptionIDs : Writers(id) = {} => (id \in inputs <=> id \in log)
=============================================================================
