----------------------------- MODULE ResourceIndex -----------------------------
(***************************************************************************)
(* Resources and their groups on one node (src/core/ddbResourceIndex.js,   *)
(* resourceGroupTree.js, the group handlers of core.js).  DeviceDB holds   *)
(* two kinds of records: that of a resource names its groups, and that of  *)
(* a group names its resources.  Operations read a record, merge its       *)
(* siblings and write it back with the context they read; answers to       *)
(* queries are cached until an operation drops them or they expire.        *)
(*                                                                         *)
(* Each step is what happens between two answers of DeviceDB (external: a  *)
(* write supersedes the siblings its context has seen, a delete with an    *)
(* empty context all of them).  An operation writes a record at most once, *)
(* so its number names the siblings it wrote.                              *)
(***************************************************************************)
EXTENDS Naturals, FiniteSets

CONSTANTS Resources, Groups,
          Path,             \* <<g, h>>: h is g, or a group below it
          Text,             \* <<g, h>>: the name of h starts with the name of g
          InitialGroups,    \* the groups that each resource is in at first
          Asked,            \* bound: the operations and queries that clients ask for
          MaxOps            \* bound: how many they ask for and how many requests
                            \* to DeviceDB fail, together

VARIABLES store,      \* the siblings of each record
          cache,      \* the answers that are cached
          task, at,   \* what each operation does, and where it is
          got,        \* what it read
          failures,
          met,        \* history: operations that were under way together with it
          expected,   \* history: who must be in a group, and who must not
          raced,      \* history: cached answers that may be stale, because an
                      \* operation dropped them while they were read or failed
          spoiled     \* history: queries whose answer was dropped while they read

indexVars == <<store, cache, task, at, got, failures, met, expected, raced, spoiled>>

Ops == 1..MaxOps
Records == Resources \cup Groups
Siblings == [by : 0..MaxOps, set : SUBSET Records]

\* The answers to questions without a value: getResources(), getResources of
\* "id" (and likewise of "type" and of "interface"), and getResources of "group".
Everything == <<"all", "undefined">>
AnyId      == <<"all", "id">>
AnyGroup   == <<"all", "group">>
Keys == ({"id", "properties"} \X Resources) \cup ({"group"} \X Groups) \cup {Everything, AnyId, AnyGroup}

Absent == {}
NotCached == {"notCached"}
NoTask == [op |-> "none"]
Unread == {[by |-> MaxOps + 1, set |-> {}]}
Nothing == [read |-> Absent, answer |-> {}, ids |-> <<>>, groups |-> <<>>, failed |-> FALSE]
Tasks == [op : {"join", "leave"}, r : Resources, g : Groups]
           \cup [op : {"create", "delete"}, g : Groups]
           \cup [op : {"add", "remove"}, r : Resources]
           \cup [op : {"query"}, key : Keys]

\* What the constants are.  Groups are named by their path, so that the groups
\* above a group are above one another.
ASSUME IndexAssumption ==
  /\ Resources \cap Groups = {} /\ "notCached" \notin Records
  /\ Path \subseteq Text /\ Text \subseteq Groups \X Groups
  /\ \A g \in Groups : <<g, g>> \in Path
  /\ \A f, g, h \in Groups :
       /\ <<f, g>> \in Path /\ <<g, f>> \in Path => f = g
       /\ <<f, g>> \in Path /\ <<g, h>> \in Path => <<f, h>> \in Path
       /\ <<f, h>> \in Path /\ <<g, h>> \in Path => <<f, g>> \in Path \/ <<g, f>> \in Path
  /\ InitialGroups \in [Resources -> SUBSET Groups]
  /\ Asked \subseteq Tasks
  /\ MaxOps \in Nat

Active == {i \in Ops : at[i] \notin {"idle", "done", "hung"}}

IndexTypeOK ==
  /\ store \in [Records -> SUBSET Siblings]
  /\ cache \in [Keys -> {NotCached} \cup SUBSET Records]
  /\ task \in [Ops -> {NoTask} \cup Tasks]
  /\ at \in [Ops -> {"idle", "done", "ask", "fill", "id", "idPut", "tree", "treePut", "list",
                     "ids", "idsPut", "children", "parent", "parentPut", "erase",
                     "purge", "clear", "hung"}]
  /\ \A i \in Ops : /\ got[i].read \subseteq Siblings
                  /\ got[i].answer \in {NotCached} \cup SUBSET Records
                  /\ DOMAIN got[i].ids \subseteq Resources /\ DOMAIN got[i].groups \subseteq Groups
                  /\ got[i].failed \in BOOLEAN
  /\ failures \in 0..MaxOps
  /\ met \in [Ops -> SUBSET Ops] /\ spoiled \subseteq Ops
  /\ expected \in [Resources \X Groups -> {"in", "out", "any"}]
  /\ raced \subseteq Keys

IndexInit ==
  /\ store = [k \in Records |->
       IF k \in Resources
         THEN {[by |-> 0, set |-> InitialGroups[k]]}
         ELSE {[by |-> 0, set |-> {r \in Resources : k \in InitialGroups[r]}]}]
  /\ cache = [k \in Keys |-> NotCached]
  /\ task = [i \in Ops |-> NoTask] /\ at = [i \in Ops |-> "idle"]
  /\ got = [i \in Ops |-> Nothing]
  /\ failures = 0
  /\ met = [i \in Ops |-> {}] /\ spoiled = {} /\ raced = {}
  /\ expected = [p \in Resources \X Groups |-> IF p[2] \in InitialGroups[p[1]] THEN "in" ELSE "out"]

-----------------------------------------------------------------------------
(* Records *)

\* Mutant: only one sibling is read.
FirstOfSiblings(siblings) ==
  IF siblings = {} THEN {} ELSE (CHOOSE s \in siblings : TRUE).set

\* mergeValueSiblings, mergeSiblings and mergeSiblingGroups alike.
mergeSiblings(siblings) == UNION {s.set : s \in siblings}

Write(siblings, read, i, set) ==
  {s \in siblings : \A t \in read : s.by # t.by} \cup {[by |-> i, set |-> set]}

Put(i, k, set) == store' = [store EXCEPT ![k] = Write(@, got[i].read, i, set)]

\* listGroup lists every record whose key starts with that of the group, and
\* without a group all.
listGroup(g) == UNION {mergeSiblings(store[h]) : h \in {x \in Groups : <<g, x>> \in Text}}
listGroups == UNION {mergeSiblings(store[h]) : h \in Groups}

Parents(g) == {p \in Groups : /\ p # g /\ <<p, g>> \in Path
                              /\ \A q \in Groups : <<p, q>> \in Path /\ <<q, g>> \in Path => q \in {p, g}}
Below(g) == {h \in Groups : h # g /\ <<g, h>> \in Path}

\* What getResources and getResourceProperties find.
Value(key) ==
  CASE key[1] = "id" -> IF store[key[2]] = Absent THEN {} ELSE {key[2]}
    [] key[1] = "group" -> listGroup(key[2])
    [] key[1] = "properties" -> IF store[key[2]] = Absent THEN NotCached ELSE mergeSiblings(store[key[2]])
    [] key = AnyGroup -> listGroups
    [] OTHER -> {r \in Resources : store[r] # Absent}

\* The groups and those above them on their path.
Expanded(groups) == {g \in Groups : \E h \in groups : <<g, h>> \in Path}

-----------------------------------------------------------------------------
(* Cached answers *)

\* Mutant: the answers about the groups above are kept.
GroupKeysBelow(g) == {"group"} \X {h \in Groups : <<g, h>> \in Text}

\* _clearGroupCache: the groups above by their path, those below by their name.
GroupKeys(g) == {"group"} \X {h \in Groups : <<h, g>> \in Path \/ <<g, h>> \in Text}

\* What an operation drops when it is done; deleteGroup the properties of the
\* resources it found.  addResource drops nothing of getResources(), and joinGroup,
\* leaveGroup and deleteGroup nothing of getResources("group").
Dropped(i) ==
  LET t == task[i] IN
  CASE t.op \in {"join", "leave"} -> {<<"properties", t.r>>} \cup GroupKeys(t.g)
    [] t.op = "delete" -> ({"properties"} \X (DOMAIN got[i].ids)) \cup GroupKeys(t.g)
    [] t.op = "add" -> {<<"id", t.r>>, <<"properties", t.r>>, AnyId, AnyGroup}
    [] t.op = "remove" -> Keys
    [] OTHER -> {}

KeyOf(i) == IF task[i].op = "join" THEN <<"id", task[i].r>> ELSE task[i].key
Reading(keys) == {i \in Ops : at[i] = "fill" /\ KeyOf(i) \in keys}

Drop(keys) ==
  /\ cache' = [k \in Keys |-> IF k \in keys THEN NotCached ELSE cache[k]]
  /\ raced' = raced \ keys
  /\ spoiled' = spoiled \cup Reading(keys)

-----------------------------------------------------------------------------
(* What must be in a group *)

Touched(t) ==
  CASE t.op \in {"join", "leave"} -> {<<t.r, t.g>>}
    [] t.op = "delete" -> Resources \X {h \in Groups : <<t.g, h>> \in Path}
    [] t.op = "remove" -> {t.r} \X Groups
    [] OTHER -> {}

\* A join is only disturbed by what takes the resource out of the group, all
\* else by any other update: what is read and written back meanwhile returns.
Undisturbed(i) ==
  IF task[i].op = "join"
    THEN \A j \in met[i] : task[j].op = "join" \/ Touched(task[i]) \cap Touched(task[j]) = {}
    ELSE \A j \in met[i] : task[j].op = "query"

\* The groups that an operation has taken resources out of, and all it found.
TakenOut(i) ==
  LET t == task[i] IN
  CASE t.op = "leave" -> {<<t.r, t.g>>}
    [] t.op = "delete" -> (DOMAIN got[i].ids) \X {t.g}
    [] t.op = "remove" -> IF \A s, u \in got[i].read : s = u
                            THEN {t.r} \X mergeSiblings(got[i].read) ELSE {}
    [] OTHER -> {}

Begin(i, t) ==
  /\ at[i] = "idle" /\ \A j \in Ops : j < i => at[j] # "idle"
  /\ i + failures <= MaxOps
  /\ task' = [task EXCEPT ![i] = t]
  /\ at' = [at EXCEPT ![i] = CASE t.op \in {"join", "query"} -> "ask"
                               [] t.op \in {"leave", "add", "remove"} -> "id"
                               [] t.op = "create" -> "tree"
                               [] t.op = "delete" -> "list"]
  /\ met' = [j \in Ops |-> IF j = i THEN Active ELSE IF j \in Active THEN met[j] \cup {i} ELSE met[j]]
  /\ expected' = [p \in Resources \X Groups |-> IF p \in Touched(t) THEN "any" ELSE expected[p]]
  /\ UNCHANGED <<store, cache, got, failures, raced, spoiled>>

Forget(i) == got' = [got EXCEPT ![i] = Nothing] /\ met' = [met EXCEPT ![i] = {}]

\* The operation is through: it drops the cached answers it made stale.
Clear(i) ==
  /\ at[i] = "clear"
  /\ at' = [at EXCEPT ![i] = "done"]
  /\ Drop(Dropped(i))
  /\ expected' = [p \in Resources \X Groups |->
       IF ~Undisturbed(i) \/ got[i].failed THEN expected[p]
       ELSE IF task[i].op = "join" /\ p \in Touched(task[i]) THEN "in"
       ELSE IF p \in TakenOut(i) THEN "out" ELSE expected[p]]
  /\ Forget(i)
  /\ UNCHANGED <<store, task, failures>>

-----------------------------------------------------------------------------
(* Queries, and the check that joinGroup begins with *)

Goto(i, pc) == at' = [at EXCEPT ![i] = pc]
Got(i, field, x) == got' = [got EXCEPT ![i][field] = x]
Same == UNCHANGED <<cache, task, failures, met, expected, raced, spoiled>>

Answer(i, answer) ==
  Goto(i, IF task[i].op = "join" /\ task[i].r \in answer THEN "id" ELSE "done")

\* getResources, getResourceProperties: the cache has the answer, or DeviceDB.
Lookup(i) ==
  /\ at[i] = "ask"
  /\ IF cache[KeyOf(i)] # NotCached
       THEN Answer(i, cache[KeyOf(i)]) /\ UNCHANGED got
       ELSE Goto(i, "fill") /\ Got(i, "answer", Value(KeyOf(i)))
  /\ Same /\ UNCHANGED store

\* DeviceDB has answered.  The answer is cached whatever happened meanwhile; a
\* resource without a record has no properties to cache.
Fill(i) ==
  LET key == KeyOf(i) IN
  /\ at[i] = "fill"
  /\ cache' = [cache EXCEPT ![key] = got[i].answer]
  /\ raced' = IF i \in spoiled THEN raced \cup {key} ELSE raced \ {key}
  /\ IF got[i].answer = NotCached THEN Goto(i, "done") ELSE Answer(i, got[i].answer)
  /\ got' = [got EXCEPT ![i] = Nothing]
  /\ spoiled' = spoiled \ {i}
  /\ UNCHANGED <<store, task, failures, met, expected>>

\* The time of a cached answer is up, or others need its place.
Expire(key) ==
  /\ cache[key] # NotCached
  /\ cache' = [cache EXCEPT ![key] = NotCached]
  /\ raced' = raced \ {key}
  /\ UNCHANGED <<store, task, at, got, failures, met, expected, spoiled>>

\* SubscriberRegistry.getInputs adds the groups above to the object that it is
\* given of the resource's properties, which is the one in the cache.
Expand(r) ==
  LET key == <<"properties", r>> IN
  /\ cache[key] # NotCached
  /\ cache' = [cache EXCEPT ![key] = Expanded(@)]
  /\ UNCHANGED <<store, task, at, got, failures, met, expected, raced, spoiled>>

-----------------------------------------------------------------------------
(* joinGroup, leaveGroup, addResource, createGroup *)

\* The record of the resource.  Without one a join fails, and a leave goes on
\* with the group.
IdGet(i) ==
  LET siblings == store[task[i].r] IN
  /\ at[i] = "id" /\ task[i].op # "remove"
  /\ IF siblings = Absent /\ task[i].op # "add"
       THEN Goto(i, IF task[i].op = "join" THEN "done" ELSE "tree") /\ UNCHANGED got
       ELSE Goto(i, "idPut") /\ Got(i, "read", siblings)
  /\ Same /\ UNCHANGED store

\* A write brings back a record that was removed meanwhile; the cached answers
\* that there is none are not dropped.
Revived(resources) ==
  LET back == {r \in resources : store[r] = Absent}
      keys == ({"id"} \X back) \cup (IF back = {} THEN {} ELSE {AnyId})
  IN  /\ raced' = raced \cup keys /\ spoiled' = spoiled \cup Reading(keys)
      /\ UNCHANGED <<cache, task, got, failures, met, expected>>

IdWritten(i) ==
  LET t == task[i]
      groups == mergeSiblings(got[i].read)
  IN  Put(i, t.r, CASE t.op = "join" -> groups \cup {t.g}
                    [] t.op = "leave" -> groups \ {t.g}
                    [] t.op = "add" -> groups)

IdPut(i) ==
  /\ at[i] = "idPut"
  /\ IdWritten(i)
  /\ Goto(i, IF task[i].op = "add" THEN "clear" ELSE "tree")
  /\ Revived({task[i].r})

\* The record of the group; a leave does not make one.
TreeGet(i) ==
  LET siblings == store[task[i].g] IN
  /\ at[i] = "tree"
  /\ IF siblings = Absent /\ task[i].op = "leave"
       THEN Goto(i, "clear") /\ UNCHANGED got
       ELSE Goto(i, "treePut") /\ Got(i, "read", siblings)
  /\ Same /\ UNCHANGED store

TreeWritten(i) ==
  LET t == task[i]
      resources == mergeSiblings(got[i].read)
  IN  Put(i, t.g, CASE t.op = "join" -> resources \cup {t.r}
                    [] t.op = "leave" -> resources \ {t.r}
                    [] t.op = "create" -> resources)

\* createGroup writes back what it read and drops no cached answer, though it
\* brings back who left meanwhile.
BroughtBack(i) ==
  LET keys == GroupKeys(task[i].g) IN
  IF task[i].op = "create" /\ \E j \in met[i] : task[j].op # "query"
    THEN raced' = raced \cup keys /\ spoiled' = spoiled \cup Reading(keys)
    ELSE UNCHANGED <<raced, spoiled>>

TreePut(i) ==
  /\ at[i] = "treePut"
  /\ TreeWritten(i)
  /\ Goto(i, IF task[i].op = "create" THEN "done" ELSE "clear")
  /\ BroughtBack(i)
  /\ UNCHANGED <<cache, task, got, failures, met, expected>>

-----------------------------------------------------------------------------
(* deleteGroup *)

DeleteList(i) ==
  /\ at[i] = "list"
  /\ Goto(i, "ids") /\ Got(i, "ids", [r \in listGroup(task[i].g) |-> Absent])
  /\ Same /\ UNCHANGED store

DeleteReadsIds(i) ==
  /\ at[i] = "ids"
  /\ Goto(i, "idsPut") /\ Got(i, "ids", [r \in DOMAIN got[i].ids |-> store[r]])
  /\ Same /\ UNCHANGED store

\* Only the group itself leaves the records of the resources, not those below it.
IdsWritten(i) ==
  LET ids == got[i].ids IN
  store' = [k \in Records |->
    IF k \in DOMAIN ids /\ ids[k] # Absent
      THEN Write(store[k], ids[k], i, mergeSiblings(ids[k]) \ {task[i].g}) ELSE store[k]]

Existing(ids) == {r \in DOMAIN ids : ids[r] # Absent}

DeleteWritesIds(i) ==
  /\ at[i] = "idsPut"
  /\ IdsWritten(i)
  /\ Goto(i, "children")
  /\ Revived(Existing(got[i].ids))

\* ResourceGroupTree.deleteGroup: the groups below, the group above, which is
\* made if there is none, and then everything is deleted together.
DeleteReadsBelow(i) ==
  /\ at[i] = "children"
  /\ Goto(i, IF Parents(task[i].g) = {} THEN "erase" ELSE "parent")
  /\ Got(i, "groups", [h \in Below(task[i].g) |-> store[h]])
  /\ Same /\ UNCHANGED store

DeleteReadsParent(i) ==
  /\ at[i] = "parent"
  /\ \E p \in Parents(task[i].g) : Got(i, "read", store[p])
  /\ Goto(i, "parentPut")
  /\ Same /\ UNCHANGED store

ParentWritten(i) == \E p \in Parents(task[i].g) : Put(i, p, mergeSiblings(got[i].read))

DeleteWritesParent(i) ==
  /\ at[i] = "parentPut"
  /\ ParentWritten(i)
  /\ Goto(i, "erase")
  /\ Same /\ UNCHANGED got

GroupsErased(i) ==
  store' = [k \in Records |->
    IF k = task[i].g THEN Absent
    ELSE IF k \in DOMAIN got[i].groups
           THEN {s \in store[k] : \A t \in got[i].groups[k] : s.by # t.by} ELSE store[k]]

DeleteErases(i) ==
  /\ at[i] = "erase"
  /\ GroupsErased(i)
  /\ Goto(i, "clear")
  /\ Same /\ UNCHANGED got

-----------------------------------------------------------------------------
(* removeResource *)

\* The loop over the siblings shares its index with the one over interfaces, so
\* that it passes over some of several siblings.
RemoveReads(i) ==
  /\ at[i] = "id" /\ task[i].op = "remove"
  /\ \E some \in SUBSET store[task[i].r] :
       /\ store[task[i].r] # Absent => some # {}
       /\ got' = [got EXCEPT ![i] = [@ EXCEPT
            !.read = store[task[i].r],
            !.ids = [r \in {task[i].r} |-> Absent],
            !.groups = [g \in mergeSiblings(some) |-> Unread]]]
  /\ Goto(i, "purge")
  /\ Same /\ UNCHANGED store

\* The record is deleted and all groups are left side by side.  The last of these
\* to end is the end of the operation; the others go on when one fails, but then
\* the caller has long heard of it and the cache is not cleared.
Left(i, ids, groups, failed) ==
  LET over == ids = <<>> /\ groups = <<>> IN
  /\ got' = [got EXCEPT ![i] = [@ EXCEPT !.ids = ids, !.groups = groups, !.failed = failed]]
  /\ Goto(i, IF ~over THEN "purge" ELSE IF failed THEN "done" ELSE "clear")
  /\ IF over /\ failed
       THEN raced' = raced \cup Dropped(i) /\ spoiled' = spoiled \cup Reading(Dropped(i))
       ELSE UNCHANGED <<raced, spoiled>>
  /\ UNCHANGED <<cache, task, met, expected>>

Without(f, x) == [y \in DOMAIN f \ {x} |-> f[y]]

Erased(i) == store' = [store EXCEPT ![task[i].r] = Absent]

RemoveErases(i) ==
  /\ at[i] = "purge" /\ got[i].ids # <<>>
  /\ Erased(i)
  /\ Left(i, <<>>, got[i].groups, got[i].failed)
  /\ UNCHANGED failures

RemoveReadsGroup(i, g) ==
  LET groups == got[i].groups IN
  /\ at[i] = "purge" /\ g \in DOMAIN groups /\ groups[g] = Unread
  /\ Left(i, got[i].ids, IF store[g] = Absent THEN Without(groups, g) ELSE [groups EXCEPT ![g] = store[g]],
          got[i].failed)
  /\ UNCHANGED <<store, failures>>

GroupLeft(i, g) ==
  LET read == got[i].groups[g]
  IN  store' = [store EXCEPT ![g] = Write(@, read, i, mergeSiblings(read) \ {task[i].r})]

RemoveLeavesGroup(i, g) ==
  /\ at[i] = "purge" /\ g \in DOMAIN got[i].groups /\ got[i].groups[g] # Unread
  /\ GroupLeft(i, g)
  /\ Left(i, got[i].ids, Without(got[i].groups, g), got[i].failed)
  /\ UNCHANGED failures

-----------------------------------------------------------------------------
(* Failures *)

MayFail(i) ==
  /\ i \in Active
  /\ failures < Cardinality({j \in Ops : at[j] = "idle"})
  /\ failures' = failures + 1

\* The write under way was applied, though its answer did not arrive.
Applied(i) ==
  \/ at[i] = "idPut" /\ IdWritten(i)
  \/ at[i] = "treePut" /\ TreeWritten(i)
  \/ at[i] = "idsPut" /\ IdsWritten(i)
  \/ at[i] = "parentPut" /\ ParentWritten(i)
  \/ at[i] = "erase" /\ GroupsErased(i)

\* The keys that it will not drop, and those of what the write brought back.
Undropped(i) ==
  LET back == {r \in (IF at[i] = "idPut" THEN {task[i].r} ELSE IF at[i] = "idsPut" THEN Existing(got[i].ids) ELSE {}) :
                 store[r] = Absent}
  IN  Dropped(i) \cup (IF task[i].op = "create" THEN GroupKeys(task[i].g) ELSE {})
        \cup ({"id"} \X back) \cup (IF back = {} THEN {} ELSE {AnyId})

\* A request to DeviceDB fails, or its answer does not arrive.  The operation ends
\* with an error and drops nothing from the cache, except that a leave goes on
\* with the group when it failed at the resource, and that nobody hears of a
\* failed lookup by id.
Fail(i) ==
  /\ MayFail(i) /\ at[i] \notin {"ask", "clear", "purge"}
  /\ UNCHANGED store \/ Applied(i)
  /\ Goto(i, CASE at[i] \in {"id", "idPut"} /\ task[i].op = "leave" -> "tree"
               [] at[i] = "fill" /\ KeyOf(i)[1] = "id" -> "hung"
               [] OTHER -> "done")
  /\ Got(i, "failed", TRUE)
  /\ IF at[i] = "fill" THEN UNCHANGED <<raced, spoiled>>
       ELSE raced' = raced \cup Undropped(i) /\ spoiled' = spoiled \cup Reading(Undropped(i))
  /\ UNCHANGED <<cache, task, met, expected>>

\* One of the requests that a removal makes side by side fails: that for the
\* resource, or that for a group.
FailErase(i) ==
  /\ MayFail(i) /\ at[i] = "purge" /\ got[i].ids # <<>>
  /\ UNCHANGED store \/ Erased(i)
  /\ Left(i, <<>>, got[i].groups, TRUE)

FailLeave(i, g) ==
  /\ MayFail(i) /\ at[i] = "purge" /\ g \in DOMAIN got[i].groups
  /\ UNCHANGED store \/ (got[i].groups[g] # Unread /\ GroupLeft(i, g))
  /\ Left(i, got[i].ids, Without(got[i].groups, g), TRUE)

IndexNext ==
  \/ \E i \in Ops :
       \/ \E t \in Asked : Begin(i, t)
       \/ Clear(i) \/ Lookup(i) \/ Fill(i) \/ IdGet(i) \/ IdPut(i) \/ TreeGet(i) \/ TreePut(i)
       \/ DeleteList(i) \/ DeleteReadsIds(i) \/ DeleteWritesIds(i)
       \/ DeleteReadsBelow(i) \/ DeleteReadsParent(i) \/ DeleteWritesParent(i) \/ DeleteErases(i)
       \/ RemoveReads(i) \/ RemoveErases(i)
       \/ \E g \in Groups : RemoveReadsGroup(i, g) \/ RemoveLeavesGroup(i, g)
       \/ Fail(i) \/ FailErase(i) \/ \E g \in Groups : FailLeave(i, g)
  \/ \E key \in Keys : Expire(key)
  \/ \E r \in Resources : Expand(r)

IndexSpec == IndexInit /\ [][IndexNext]_indexVars

-----------------------------------------------------------------------------
(* Properties *)

\* No join is lost and no leave comes back, whatever else is done with the same
\* resource and the same group at the same time: once a join is through that
\* nothing contradicted, the records of the resource and of the group name each
\* other, and once a leave, a delete or a removal is through that no update
\* overlapped, neither does.
MembershipIsKept ==
  /\ IndexTypeOK
  /\ \A r \in Resources, g \in Groups :
       /\ expected[<<r, g>>] = "in" => g \in mergeSiblings(store[r]) /\ r \in mergeSiblings(store[g])
       /\ expected[<<r, g>>] = "out" => g \notin mergeSiblings(store[r]) /\ r \notin mergeSiblings(store[g])

\* The keys that are kept up to date.  Nothing is said of getResources("group"),
\* which no change of a group drops, nor of a group's name that another's begins
\* with: listGroup also finds "ab" by the name "a", but a change of "ab" does not
\* drop what is cached of "a".
OwnKeys ==
  {key \in Keys \ {Everything, AnyGroup} :
     key[1] = "group" => \A h \in Groups : <<key[2], h>> \in Text => <<key[2], h>> \in Path}

\* The answer as DeviceDB would give it, or with the groups above added to it.
UpToDate(key, answer) ==
  \/ answer = Value(key)
  \/ key[1] = "properties" /\ Value(key) # NotCached /\ answer = Expanded(Value(key))

\* Between operations a cached answer is the one DeviceDB would give, unless it
\* was dropped while it was read, an operation failed before it dropped it, what
\* was taken away meanwhile was brought back, or it is about other groups, too.
\* getResources() is only dropped by removals: what it has exists, but it may lack
\* what was added since.
CacheIsCurrent ==
  Active = {} =>
    /\ \A key \in OwnKeys \ raced : cache[key] # NotCached => UpToDate(key, cache[key])
    /\ Everything \notin raced /\ cache[Everything] # NotCached => cache[Everything] \subseteq Value(Everything)

\* What a delete that no update overlapped leaves of the records.
DeleteClears ==
  \A i \in Ops : at[i] = "clear" /\ at'[i] = "done" /\ task[i].op = "delete"
                 /\ Undisturbed(i) /\ ~got[i].failed
    => \A r \in Resources, h \in Groups :
         <<task[i].g, h>> \in Path => h \notin mergeSiblings(store'[r])

\* Stated by peer.js: deleting a group "removes all resources from that group and
\* recursively deletes all its children".  So once a delete is through that no
\* update overlapped, no resource's record names the group or one below it.
DeletedGroupsAreLeft == [][DeleteClears]_indexVars
=============================================================================
