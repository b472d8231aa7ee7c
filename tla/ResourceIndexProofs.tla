-------------------------- MODULE ResourceIndexProofs --------------------------
(***************************************************************************)
(* ResourceIndex, for any resources, groups and operations: no join is     *)
(* lost and no leave comes back, and what is cached is what DeviceDB has.  *)
(***************************************************************************)
EXTENDS ResourceIndex, FiniteSetTheorems, TLAPS

(* The types *)

Reads == SUBSET Siblings
IdReads == UNION {[S -> Reads] : S \in SUBSET Resources}
GroupReads == UNION {[S -> Reads \cup {Unread}] : S \in SUBSET Groups}
Found == [read : Reads, answer : {NotCached} \cup SUBSET Records, ids : IdReads,
          groups : GroupReads, failed : BOOLEAN]
Failed(i) == got[i].failed

\* The steps of an operation that runs.
Phases(op) ==
  CASE op = "join" -> {"ask", "fill", "id", "idPut", "tree", "treePut", "clear"}
    [] op = "leave" -> {"id", "idPut", "tree", "treePut", "clear"}
    [] op = "create" -> {"tree", "treePut"}
    [] op = "delete" -> {"list", "ids", "idsPut", "children", "parent", "parentPut", "erase", "clear"}
    [] op = "add" -> {"id", "idPut", "clear"}
    [] op = "remove" -> {"id", "purge", "clear"}
    [] op = "query" -> {"ask", "fill"}
    [] OTHER -> {}

Ended == {"done", "hung"}
Places == {"idle", "done", "ask", "fill", "id", "idPut", "tree", "treePut", "list", "ids", "idsPut",
           "children", "parent", "parentPut", "erase", "purge", "clear", "hung"}

TypesOK ==
  /\ store \in [Records -> Reads]
  /\ cache \in [Keys -> {NotCached} \cup SUBSET Records]
  /\ task \in [Ops -> {NoTask} \cup Tasks]
  /\ at \in [Ops -> Places]
  /\ got \in [Ops -> Found]
  /\ failures \in 0..MaxOps
  /\ met \in [Ops -> SUBSET Ops] /\ spoiled \subseteq Ops
  /\ expected \in [Resources \X Groups -> {"in", "out", "any"}]
  /\ raced \subseteq Keys

\* What an update of one field of what an operation found leaves.
LEMMA GotDoes ==
  ASSUME got \in [Ops -> Found], NEW i \in Ops, NEW x
  PROVE  /\ x \in Reads /\ Got(i, "read", x) =>
              /\ got' \in [Ops -> Found] /\ \A j \in Ops \ {i} : got'[j] = got[j]
              /\ got'[i].read = x /\ got'[i].answer = got[i].answer /\ got'[i].ids = got[i].ids
              /\ got'[i].groups = got[i].groups /\ got'[i].failed = got[i].failed
         /\ x \in {NotCached} \cup SUBSET Records /\ Got(i, "answer", x) =>
              /\ got' \in [Ops -> Found] /\ \A j \in Ops \ {i} : got'[j] = got[j]
              /\ got'[i].answer = x
         /\ x \in IdReads /\ Got(i, "ids", x) =>
              /\ got' \in [Ops -> Found] /\ \A j \in Ops \ {i} : got'[j] = got[j]
              /\ got'[i].ids = x /\ got'[i].read = got[i].read
              /\ got'[i].groups = got[i].groups /\ got'[i].failed = got[i].failed
         /\ x \in GroupReads /\ Got(i, "groups", x) =>
              /\ got' \in [Ops -> Found] /\ \A j \in Ops \ {i} : got'[j] = got[j]
              /\ got'[i].groups = x /\ got'[i].read = got[i].read
              /\ got'[i].ids = got[i].ids /\ got'[i].failed = got[i].failed
         /\ Got(i, "failed", TRUE) =>
              /\ got' \in [Ops -> Found] /\ \A j \in Ops \ {i} : got'[j] = got[j]
              /\ got'[i].failed = TRUE /\ got'[i].read = got[i].read
              /\ got'[i].ids = got[i].ids /\ got'[i].groups = got[i].groups
<1>1. x \in Reads /\ Got(i, "read", x) =>
        /\ got' \in [Ops -> Found] /\ \A j \in Ops \ {i} : got'[j] = got[j]
        /\ got'[i].read = x /\ got'[i].answer = got[i].answer /\ got'[i].ids = got[i].ids
        /\ got'[i].groups = got[i].groups /\ got'[i].failed = got[i].failed
  BY DEF Got, Found
<1>2. x \in {NotCached} \cup SUBSET Records /\ Got(i, "answer", x) =>
        /\ got' \in [Ops -> Found] /\ \A j \in Ops \ {i} : got'[j] = got[j]
        /\ got'[i].answer = x
  BY DEF Got, Found
<1>3. x \in IdReads /\ Got(i, "ids", x) =>
        /\ got' \in [Ops -> Found] /\ \A j \in Ops \ {i} : got'[j] = got[j]
        /\ got'[i].ids = x /\ got'[i].read = got[i].read
        /\ got'[i].groups = got[i].groups /\ got'[i].failed = got[i].failed
  BY DEF Got, Found
<1>4. x \in GroupReads /\ Got(i, "groups", x) =>
        /\ got' \in [Ops -> Found] /\ \A j \in Ops \ {i} : got'[j] = got[j]
        /\ got'[i].groups = x /\ got'[i].read = got[i].read
        /\ got'[i].ids = got[i].ids /\ got'[i].failed = got[i].failed
  BY DEF Got, Found
<1>5. Got(i, "failed", TRUE) =>
        /\ got' \in [Ops -> Found] /\ \A j \in Ops \ {i} : got'[j] = got[j]
        /\ got'[i].failed = TRUE /\ got'[i].read = got[i].read
        /\ got'[i].ids = got[i].ids /\ got'[i].groups = got[i].groups
  BY DEF Got, Found
<1> QED BY <1>1, <1>2, <1>3, <1>4, <1>5

-----------------------------------------------------------------------------
(* The invariant *)

\* A record of a resource lists groups, and that of a group resources.
Others(k) == IF k \in Resources THEN Groups ELSE Resources
Pair(k, x) == IF k \in Resources THEN <<k, x>> ELSE <<x, k>>
Members(k) == mergeSiblings(store[k])

\* What an operation has read of the record k and will write it with.
ReadOf(i, k) ==
  CASE at[i] = "idPut" /\ k = task[i].r -> got[i].read
    [] at[i] = "treePut" /\ k = task[i].g -> got[i].read
    [] at[i] = "parentPut" /\ k \in Parents(task[i].g) -> got[i].read
    [] at[i] = "idsPut" /\ k \in DOMAIN got[i].ids -> got[i].ids[k]
    [] at[i] = "purge" /\ k \in DOMAIN got[i].groups -> got[i].groups[k] \ Unread
    [] OTHER -> {}

\* The records that an operation may yet write.
ToWrite(i) ==
  CASE at[i] = "idle" -> Records
    [] at[i] \in {"ask", "fill", "id", "idPut"} /\ task[i].op \in {"join", "leave"} -> {task[i].r, task[i].g}
    [] at[i] \in {"id", "idPut"} /\ task[i].op = "add" -> {task[i].r}
    [] at[i] = "id" /\ task[i].op = "remove" -> Groups
    [] at[i] \in {"tree", "treePut"} -> {task[i].g}
    [] at[i] \in {"list", "ids", "idsPut"} -> Records
    [] at[i] \in {"children", "parent", "parentPut"} -> Groups
    [] at[i] = "purge" -> DOMAIN got[i].groups
    [] OTHER -> {}

\* Operations know what goes on beside them.
PhaseOK ==
  \A i \in Ops :
    /\ at[i] # "idle" => task[i] \in Tasks /\ at[i] \in Phases(task[i].op) \cup Ended
    /\ \A j \in met[i] : at[j] # "idle"
    /\ i \in Active => \A j \in Active \ {i} : j \in met[i]

\* A sibling is told by the number of the operation that wrote it, which writes
\* the record no more.
Seen(k, s) == s \in store[k] \/ \E i \in Ops : s \in ReadOf(i, k)
SiblingsOK ==
  \A k \in Records : \A s \in Siblings : Seen(k, s) =>
    /\ s.set \subseteq Others(k) /\ (s.by = 0 \/ k \notin ToWrite(s.by))
    /\ \A t \in Siblings : Seen(k, t) /\ s.by = t.by => s = t

\* Who must be in a group: nobody that runs takes the resource out.
InOK ==
  \A r \in Resources, g \in Groups : expected[<<r, g>>] = "in" =>
    /\ g \in Members(r) /\ r \in Members(g)
    /\ \A i \in Active : task[i].op = "join" \/ <<r, g>> \notin Touched(task[i])

\* Who must not be in it: nobody that runs brings the resource back.
OutOK ==
  \A r \in Resources, g \in Groups : expected[<<r, g>>] = "out" =>
    /\ g \notin Members(r) /\ r \notin Members(g)
    /\ \A i \in Active : /\ <<r, g>> \notin Touched(task[i])
                         /\ g \notin mergeSiblings(ReadOf(i, r)) /\ r \notin mergeSiblings(ReadOf(i, g))

Alone(i) == \A j \in met[i] : task[j].op = "query"

JoinOK(i) ==
  task[i].op = "join" /\ Undisturbed(i) =>
    /\ at[i] \in {"tree", "treePut", "clear"} => task[i].g \in Members(task[i].r)
    /\ at[i] = "clear" => task[i].r \in Members(task[i].g)

LeaveOK(i) ==
  task[i].op = "leave" /\ Alone(i) /\ ~Failed(i) =>
    /\ at[i] = "idPut" => got[i].read = store[task[i].r]
    /\ at[i] \in {"tree", "treePut", "clear"} => task[i].g \notin Members(task[i].r)
    /\ at[i] = "treePut" => got[i].read = store[task[i].g]
    /\ at[i] = "clear" => task[i].r \notin Members(task[i].g)

CreateOK(i) ==
  task[i].op = "create" /\ Alone(i) /\ at[i] = "treePut" => got[i].read = store[task[i].g]

DeleteOK(i) ==
  task[i].op = "delete" /\ Alone(i) =>
    /\ at[i] = "idsPut" => \A r \in DOMAIN got[i].ids : got[i].ids[r] = store[r]
    /\ at[i] \in {"children", "parent", "parentPut", "erase", "clear"} =>
         \A r \in DOMAIN got[i].ids : task[i].g \notin Members(r)
    /\ at[i] = "clear" => store[task[i].g] = Absent

RemoveOK(i) ==
  task[i].op = "remove" /\ Alone(i) /\ ~Failed(i) =>
    /\ at[i] \in {"purge", "clear"} =>
         /\ got[i].ids = <<>> => store[task[i].r] = Absent
         /\ (\A s, t \in got[i].read : s = t) =>
              \A g \in mergeSiblings(got[i].read) \ DOMAIN got[i].groups : task[i].r \notin Members(g)
         /\ \A g \in DOMAIN got[i].groups : got[i].groups[g] # Unread => got[i].groups[g] = store[g]
    /\ at[i] = "clear" => got[i].ids = <<>> /\ got[i].groups = <<>>

\* A delete deletes what is below the group.
BelowOK(i) ==
  at[i] \in {"parent", "parentPut", "erase"} => DOMAIN got[i].groups \subseteq Below(task[i].g)

\* What an operation has achieved if nothing disturbed it.
OwnOK(i) ==
  i \in Active => JoinOK(i) /\ LeaveOK(i) /\ CreateOK(i) /\ DeleteOK(i) /\ RemoveOK(i) /\ BelowOK(i)

\* The operations that drop cached answers when they end.
Ending ==
  {i \in Ops : /\ at[i] \in {"tree", "treePut", "children", "parent", "parentPut", "erase", "purge", "clear"}
               /\ task[i].op # "create"}

\* The keys of which something is said, and what an answer must be.
Claimed == OwnKeys \cup {Everything}
Fits(key, answer) ==
  IF key = Everything THEN answer \subseteq Value(Everything) ELSE UpToDate(key, answer)

Current(key, answer) == Fits(key, answer) \/ \E i \in Ending : key \in Dropped(i)

CacheOK ==
  /\ \A key \in Claimed \ raced : cache[key] # NotCached => Current(key, cache[key])
  /\ \A i \in Ops : at[i] = "fill" /\ i \notin spoiled /\ KeyOf(i) \in Claimed => Current(KeyOf(i), got[i].answer)

IndexInv == TypesOK /\ PhaseOK /\ SiblingsOK /\ InOK /\ OutOK /\ (\A i \in Ops : OwnOK(i)) /\ CacheOK

-----------------------------------------------------------------------------
(* Lemmas about records *)

\* Resources and groups are different things.
LEMMA RecordsSplit ==
  /\ Records = Resources \cup Groups
  /\ \A k \in Records : (k \in Resources /\ k \notin Groups) \/ (k \in Groups /\ k \notin Resources)
BY IndexAssumption DEF Records

\* What kinds of operations there are.
LEMMA TaskKinds ==
  \A t \in Tasks :
    /\ t.op \in {"join", "leave", "create", "delete", "add", "remove", "query"}
    /\ t.op \in {"join", "leave"} => t.r \in Resources /\ t.g \in Groups
    /\ t.op \in {"create", "delete"} => t.g \in Groups
    /\ t.op \in {"add", "remove"} => t.r \in Resources
    /\ t.op = "query" => t.key \in Keys
BY DEF Tasks

\* Where an operation is says what it does.
LEMMA RunningKinds ==
  ASSUME PhaseOK, NEW i \in Active
  PROVE  /\ i \in Ops /\ task[i] \in Tasks /\ at[i] \in Phases(task[i].op)
         /\ at[i] \in {"ask", "fill"} => task[i].op \in {"join", "query"}
         /\ at[i] = "id" => task[i].op \in {"join", "leave", "add", "remove"}
         /\ at[i] = "idPut" => task[i].op \in {"join", "leave", "add"}
         /\ at[i] \in {"tree", "treePut"} => task[i].op \in {"join", "leave", "create"}
         /\ at[i] \in {"list", "ids", "idsPut", "children", "parent", "parentPut", "erase"} => task[i].op = "delete"
         /\ at[i] = "purge" => task[i].op = "remove"
         /\ at[i] = "clear" => task[i].op \notin {"create", "query"}
         /\ task[i].op = "query" => at[i] \in {"ask", "fill"}
<1>1. i \in Ops /\ task[i] \in Tasks /\ at[i] \in Phases(task[i].op)
  BY DEF PhaseOK, Active, Ended
<1>2. task[i].op \in {"join", "leave", "create", "delete", "add", "remove", "query"}
  BY <1>1, TaskKinds
<1> QED BY <1>1, <1>2 DEF Phases

\* A write replaces what was read.
LEMMA WriteDoes ==
  ASSUME NEW siblings \in Reads, NEW read \in Reads, NEW i \in Ops, NEW set \in SUBSET Records
  PROVE  /\ Write(siblings, read, i, set) \in Reads
         /\ \A s \in Write(siblings, read, i, set) : s \in siblings \/ (s.by = i /\ s.set = set)
         /\ \A s \in siblings : s \in Write(siblings, read, i, set) \/ \E t \in read : s.by = t.by
         /\ \E s \in Write(siblings, read, i, set) : s.by = i /\ s.set = set
<1> DEFINE new == [by |-> i, set |-> set]
<1>1. i \in 0..MaxOps
  <2>1. MaxOps \in Nat
    BY IndexAssumption
  <2> QED BY <2>1 DEF Ops
<1>2. new \in Siblings /\ new.by = i /\ new.set = set
  BY <1>1 DEF Siblings
<1>3. Write(siblings, read, i, set) = {s \in siblings : \A t \in read : s.by # t.by} \cup {new}
  BY DEF Write
<1> HIDE DEF new
<1> QED BY <1>2, <1>3 DEF Reads

\* What a record then lists.
LEMMA WriteMerges ==
  ASSUME NEW siblings \in Reads, NEW read \in Reads, NEW i \in Ops, NEW set \in SUBSET Records,
         \A s \in siblings : \A t \in read : s.by = t.by => s = t
  PROVE  /\ set \subseteq mergeSiblings(Write(siblings, read, i, set))
         /\ mergeSiblings(Write(siblings, read, i, set)) \subseteq mergeSiblings(siblings) \cup set
         /\ mergeSiblings(siblings) \ mergeSiblings(read) \subseteq mergeSiblings(Write(siblings, read, i, set))
BY WriteDoes DEF mergeSiblings

\* What was not changed since it was read is replaced altogether.
LEMMA WriteReplaces ==
  ASSUME NEW siblings \in Reads, NEW i \in Ops, NEW set \in SUBSET Records
  PROVE  mergeSiblings(Write(siblings, siblings, i, set)) = set
<1>1. Write(siblings, siblings, i, set) = {[by |-> i, set |-> set]}
  BY DEF Write
<1> QED BY <1>1 DEF mergeSiblings

\* A record that lists nothing is one that is not there, or lists nothing.
LEMMA AbsentMembers == mergeSiblings(Absent) = {}
BY DEF mergeSiblings, Absent

\* A group has at most one parent.
LEMMA ParentIsOne ==
  ASSUME NEW g \in Groups
  PROVE  /\ Parents(g) \subseteq Groups /\ \A p \in Parents(g) : <<p, g>> \in Path
         /\ \A p, q \in Parents(g) : p = q
BY IndexAssumption DEF Parents

-----------------------------------------------------------------------------
(* What a step of one operation does to the records *)

\* Only what the operation i knows and where it is changes.
Frame(i) ==
  /\ i \in Active /\ task' = task /\ met'[i] \subseteq met[i]
  /\ \A j \in Ops \ {i} : at'[j] = at[j] /\ got'[j] = got[j] /\ met'[j] = met[j]

\* It writes a record with what it read of it, but for the members that it is
\* about: a join adds one, any other takes some out.
Merges(i, k) ==
  /\ task[i].op # "query"
  /\ \E set \in SUBSET Others(k) :
       /\ store'[k] = Write(store[k], ReadOf(i, k), i, set)
       /\ \A x \in Others(k) :
            /\ x \in set /\ x \notin mergeSiblings(ReadOf(i, k)) =>
                 task[i].op = "join" /\ Pair(k, x) \in Touched(task[i])
            /\ x \notin set /\ x \in mergeSiblings(ReadOf(i, k)) =>
                 task[i].op # "join" /\ Pair(k, x) \in Touched(task[i])

\* And no more after that.
Writes(i, k) == k \in ToWrite(i) /\ k \notin ToWrite(i)' /\ Merges(i, k)

\* It deletes a record, or the siblings that it has seen.
Erases(i, k) ==
  /\ store'[k] \subseteq store[k]
  /\ task[i].op \notin {"join", "query"} /\ \A x \in Others(k) : Pair(k, x) \in Touched(task[i])

Effect(i) ==
  /\ Frame(i) /\ ToWrite(i)' \subseteq ToWrite(i)
  /\ \A k \in Records :
       /\ ReadOf(i, k)' \subseteq ReadOf(i, k) \cup store[k]
       /\ store'[k] = store[k] \/ Writes(i, k) \/ Erases(i, k)

\* What others have read, and may yet write, stays.
LEMMA OthersRead ==
  ASSUME TypesOK, NEW i \in Ops, Frame(i), NEW j \in Ops \ {i}
  PROVE  ToWrite(j)' = ToWrite(j) /\ \A k \in Records : ReadOf(j, k)' = ReadOf(j, k)
BY DEF Frame, ToWrite, ReadOf

\* What is read of a record are siblings.
LEMMA ReadsAreSiblings ==
  ASSUME TypesOK, NEW i \in Ops, NEW k \in Records
  PROVE  ReadOf(i, k) \in Reads
<1>1. got[i] \in Found
  BY DEF TypesOK
<1>2. got[i].read \in Reads /\ got[i].ids \in IdReads /\ got[i].groups \in GroupReads
  BY <1>1 DEF Found
<1>3. k \in DOMAIN got[i].ids => got[i].ids[k] \in Reads
  BY <1>2 DEF IdReads
<1>4. k \in DOMAIN got[i].groups => got[i].groups[k] \in Reads \cup {Unread}
  BY <1>2 DEF GroupReads
<1>5. k \in DOMAIN got[i].groups => got[i].groups[k] \ Unread \in Reads
  BY <1>4 DEF Reads
<1>6. {} \in Reads
  BY DEF Reads
<1> QED BY <1>2, <1>3, <1>5, <1>6 DEF ReadOf

\* What an operation read of a record says the same of it as the record.
LEMMA ReadAgrees ==
  ASSUME TypesOK, SiblingsOK, NEW i \in Ops, NEW k \in Records
  PROVE  /\ store[k] \in Reads /\ ReadOf(i, k) \in Reads
         /\ \A s \in store[k] : \A t \in ReadOf(i, k) : s.by = t.by => s = t
<1>1. store[k] \in Reads /\ ReadOf(i, k) \in Reads
  BY ReadsAreSiblings DEF TypesOK
<1> QED BY <1>1 DEF SiblingsOK, Seen, Reads

\* The numbers of siblings stay unique.
LEMMA SiblingsKept ==
  ASSUME TypesOK, SiblingsOK, TypesOK', NEW i \in Ops, Effect(i)
  PROVE  SiblingsOK'
<1> SUFFICES ASSUME NEW k \in Records, NEW s \in Siblings, Seen(k, s)'
             PROVE  /\ s.set \subseteq Others(k) /\ (s.by = 0 \/ k \notin ToWrite(s.by)')
                    /\ \A t \in Siblings : Seen(k, t)' /\ s.by = t.by => s = t
  BY DEF SiblingsOK, Others
<1>1. ASSUME NEW j \in Ops PROVE ToWrite(j)' \subseteq ToWrite(j)
  <2>1. CASE j = i
    BY <2>1 DEF Effect
  <2>2. CASE j # i
    BY <2>2, OthersRead DEF Effect
  <2> QED BY <2>1, <2>2
<1>2. i \in Nat /\ i # 0 /\ 0..MaxOps = {0} \cup Ops
  <2>1. MaxOps \in Nat
    BY IndexAssumption
  <2> QED BY <2>1 DEF Ops
<1>3. \A u \in Siblings : u.by = 0 \/ u.by \in Ops
  BY <1>2 DEF Siblings
<1> DEFINE Fresh(u) == /\ u \in store'[k] /\ u.by = i /\ u.set \subseteq Others(k) /\ k \in ToWrite(i) /\ k \notin ToWrite(i)'
                       /\ \E set \in SUBSET Others(k) : /\ store'[k] = Write(store[k], ReadOf(i, k), i, set)
                                                        /\ u.set = set
<1>4. ASSUME NEW u \in Siblings, Seen(k, u)' PROVE Seen(k, u) \/ Fresh(u)
  <2>1. ASSUME u \in store'[k], ~Seen(k, u) PROVE Fresh(u)
    <3>1. u \notin store[k]
      BY <2>1 DEF Seen
    <3>2. Writes(i, k)
      BY <2>1, <3>1 DEF Effect, Erases
    <3>3. PICK set \in SUBSET Others(k) : store'[k] = Write(store[k], ReadOf(i, k), i, set)
      BY <3>2 DEF Writes, Merges
    <3>4. set \in SUBSET Records
      BY RecordsSplit DEF Others
    <3>5. u \in store[k] \/ (u.by = i /\ u.set = set)
      BY <2>1, <3>3, <3>4, ReadAgrees, WriteDoes
    <3> QED BY <2>1, <3>1, <3>2, <3>3, <3>5 DEF Writes, Merges
  <2>2. ASSUME NEW j \in Ops, u \in ReadOf(j, k)' PROVE Seen(k, u)
    <3>1. CASE j = i
      BY <2>2, <3>1 DEF Effect, Seen
    <3>2. CASE j # i
      BY <2>2, <3>2, OthersRead DEF Effect, Seen
    <3> QED BY <3>1, <3>2
  <2> QED BY <1>4, <2>1, <2>2 DEF Seen
<1>5. s.set \subseteq Others(k)
  BY <1>4 DEF SiblingsOK
<1>6. s.by = 0 \/ k \notin ToWrite(s.by)'
  BY <1>1, <1>3, <1>4 DEF SiblingsOK
<1>7. ASSUME NEW t \in Siblings, Seen(k, t)', s.by = t.by PROVE s = t
  <2>1. CASE Seen(k, s) /\ Seen(k, t)
    BY <1>7, <2>1 DEF SiblingsOK
  <2>2. \A u \in Siblings : Seen(k, u) => ~(u.by = i /\ k \in ToWrite(i))
    BY <1>2 DEF SiblingsOK
  <2>3. CASE Fresh(s) /\ Fresh(t)
    <3>1. PICK a \in SUBSET Others(k) : /\ store'[k] = Write(store[k], ReadOf(i, k), i, a) /\ s.set = a
      BY <2>3
    <3>2. a \in SUBSET Records
      BY RecordsSplit DEF Others
    <3>3. t \in store[k] \/ t.set = a
      BY <2>3, <3>1, <3>2, ReadAgrees, WriteDoes
    <3>4. t.set = s.set
      BY <2>2, <2>3, <3>1, <3>3 DEF Seen
    <3> QED BY <1>7, <3>4 DEF Siblings
  <2> QED BY <1>4, <1>7, <2>1, <2>2, <2>3
<1> QED BY <1>5, <1>6, <1>7

-----------------------------------------------------------------------------
(* What a step of one operation leaves of the rest *)

\* A query changes no record.
LEMMA QueriesOnlyRead ==
  ASSUME TypesOK, NEW i \in Ops, Effect(i), task[i].op = "query"
  PROVE  \A k \in Records : store'[k] = store[k]
BY DEF Effect, Writes, Merges, Erases

\* A record keeps its members but for those that the operation is about.
LEMMA MembersKept ==
  ASSUME TypesOK, SiblingsOK, NEW i \in Ops, Effect(i), NEW k \in Records, NEW x \in Others(k)
  PROVE  /\ x \in Members(k) /\ (task[i].op = "join" \/ Pair(k, x) \notin Touched(task[i])) => x \in Members(k)'
         /\ x \notin Members(k) /\ Pair(k, x) \notin Touched(task[i]) /\ x \notin mergeSiblings(ReadOf(i, k))
              => x \notin Members(k)'
<1>1. Members(k) = mergeSiblings(store[k]) /\ Members(k)' = mergeSiblings(store'[k])
  BY DEF Members, mergeSiblings
<1>2. CASE store'[k] = store[k]
  BY <1>1, <1>2
<1>3. CASE Erases(i, k)
  <2>1. mergeSiblings(store'[k]) \subseteq mergeSiblings(store[k])
    BY <1>3 DEF Erases, mergeSiblings
  <2> QED BY <1>1, <1>3, <2>1 DEF Erases
<1>4. CASE Writes(i, k)
  <2>1. PICK set \in SUBSET Others(k) :
          /\ store'[k] = Write(store[k], ReadOf(i, k), i, set)
          /\ x \in set /\ x \notin mergeSiblings(ReadOf(i, k)) =>
               task[i].op = "join" /\ Pair(k, x) \in Touched(task[i])
          /\ x \notin set /\ x \in mergeSiblings(ReadOf(i, k)) =>
               task[i].op # "join" /\ Pair(k, x) \in Touched(task[i])
    BY <1>4 DEF Writes, Merges
  <2>2. set \in SUBSET Records
    BY RecordsSplit DEF Others
  <2>3. /\ set \subseteq mergeSiblings(store'[k])
        /\ mergeSiblings(store'[k]) \subseteq mergeSiblings(store[k]) \cup set
        /\ mergeSiblings(store[k]) \ mergeSiblings(ReadOf(i, k)) \subseteq mergeSiblings(store'[k])
    BY <2>1, <2>2, ReadAgrees, WriteMerges
  <2> QED BY <1>1, <2>1, <2>3
<1> QED BY <1>2, <1>3, <1>4 DEF Effect

\* The same of a resource and a group.
LEMMA PairKept ==
  ASSUME TypesOK, SiblingsOK, NEW i \in Ops, Effect(i), NEW r \in Resources, NEW g \in Groups
  PROVE  /\ task[i].op = "join" \/ <<r, g>> \notin Touched(task[i]) =>
              /\ g \in Members(r) => g \in Members(r)'
              /\ r \in Members(g) => r \in Members(g)'
         /\ <<r, g>> \notin Touched(task[i]) =>
              /\ g \notin Members(r) /\ g \notin mergeSiblings(ReadOf(i, r)) => g \notin Members(r)'
              /\ r \notin Members(g) /\ r \notin mergeSiblings(ReadOf(i, g)) => r \notin Members(g)'
<1>1. r \in Records /\ g \in Records /\ g \in Others(r) /\ r \in Others(g)
  BY RecordsSplit DEF Others
<1>2. Pair(r, g) = <<r, g>> /\ Pair(g, r) = <<r, g>>
  BY RecordsSplit DEF Pair
<1> QED BY <1>1, <1>2, MembersKept

\* Whoever runs after the step ran before it.
LEMMA ActiveBefore ==
  ASSUME NEW i \in Ops, Frame(i)
  PROVE  Active' \subseteq Active /\ Active \ {i} \subseteq Active'
BY DEF Frame, Active

\* Who must be in a group stays in it.
LEMMA InKept ==
  ASSUME TypesOK, SiblingsOK, InOK, NEW i \in Ops, Effect(i),
         NEW r \in Resources, NEW g \in Groups, expected[<<r, g>>] = "in"
  PROVE  /\ g \in Members(r)' /\ r \in Members(g)'
         /\ \A j \in Active' : task'[j].op = "join" \/ <<r, g>> \notin Touched(task'[j])
<1>1. Frame(i)
  BY DEF Effect
<1>2. task[i].op = "join" \/ <<r, g>> \notin Touched(task[i])
  BY <1>1 DEF InOK, Frame
<1>3. g \in Members(r)' /\ r \in Members(g)'
  BY <1>2, PairKept DEF InOK
<1>4. \A j \in Active' : task'[j].op = "join" \/ <<r, g>> \notin Touched(task'[j])
  BY <1>1, ActiveBefore DEF InOK, Frame
<1> QED BY <1>3, <1>4

\* And who must not be in it stays out.
LEMMA OutKept ==
  ASSUME TypesOK, SiblingsOK, OutOK, NEW i \in Ops, Effect(i),
         NEW r \in Resources, NEW g \in Groups, expected[<<r, g>>] = "out"
  PROVE  /\ g \notin Members(r)' /\ r \notin Members(g)'
         /\ \A j \in Active' : /\ <<r, g>> \notin Touched(task'[j])
                               /\ g \notin mergeSiblings(ReadOf(j, r)') /\ r \notin mergeSiblings(ReadOf(j, g)')
<1>1. Frame(i)
  BY DEF Effect
<1>2. /\ g \notin Members(r) /\ r \notin Members(g)
      /\ \A j \in Active : /\ <<r, g>> \notin Touched(task[j])
                           /\ g \notin mergeSiblings(ReadOf(j, r)) /\ r \notin mergeSiblings(ReadOf(j, g))
  BY DEF OutOK
<1>3. i \in Active
  BY <1>1 DEF Frame
<1>4. g \notin Members(r)' /\ r \notin Members(g)'
  BY <1>2, <1>3, PairKept
<1>5. ASSUME NEW j \in Active'
      PROVE  /\ <<r, g>> \notin Touched(task'[j])
             /\ g \notin mergeSiblings(ReadOf(j, r)') /\ r \notin mergeSiblings(ReadOf(j, g)')
  <2>1. j \in Active /\ task'[j] = task[j] /\ j \in Ops
    BY <1>1, ActiveBefore DEF Frame, Active
  <2>2. r \in Records /\ g \in Records
    BY RecordsSplit
  <2>3. CASE j # i
    <3>1. ReadOf(j, r)' = ReadOf(j, r) /\ ReadOf(j, g)' = ReadOf(j, g)
      BY <1>1, <2>1, <2>2, <2>3, OthersRead
    <3> QED BY <1>2, <2>1, <3>1
  <2>4. CASE j = i
    <3>1. ReadOf(i, r)' \subseteq ReadOf(i, r) \cup store[r] /\ ReadOf(i, g)' \subseteq ReadOf(i, g) \cup store[g]
      BY <2>2 DEF Effect
    <3> QED BY <1>2, <2>1, <2>4, <3>1 DEF mergeSiblings, Members
  <2> QED BY <2>3, <2>4
<1> QED BY <1>4, <1>5

\* An operation that nothing disturbs keeps what it achieved when others step.
LEMMA OwnKept ==
  ASSUME TypesOK, PhaseOK, SiblingsOK, NEW i \in Ops, Effect(i), NEW j \in Ops \ {i}, OwnOK(j)
  PROVE  OwnOK(j)'
<1> SUFFICES ASSUME j \in Active'
             PROVE  (JoinOK(j) /\ LeaveOK(j) /\ CreateOK(j) /\ DeleteOK(j) /\ RemoveOK(j) /\ BelowOK(j))'
  BY DEF OwnOK
<1>1. Frame(i) /\ at'[j] = at[j] /\ got'[j] = got[j] /\ met'[j] = met[j] /\ task' = task
  BY DEF Effect, Frame
<1>2. j \in Active /\ i \in Active /\ i \in met[j]
  BY <1>1, ActiveBefore DEF Frame, PhaseOK
<1>3. task[j] \in Tasks
  BY <1>2, RunningKinds
<1>4. JoinOK(j) /\ LeaveOK(j) /\ CreateOK(j) /\ DeleteOK(j) /\ RemoveOK(j) /\ BelowOK(j)
  BY <1>2 DEF OwnOK
<1>5. (Undisturbed(j)' <=> Undisturbed(j)) /\ (Alone(j)' <=> Alone(j)) /\ (Failed(j)' <=> Failed(j))
  BY <1>1 DEF Undisturbed, Alone, Failed
<1>6. JoinOK(j)'
  <2> SUFFICES ASSUME task[j].op = "join", Undisturbed(j)
               PROVE  /\ at[j] \in {"tree", "treePut", "clear"} => (task[j].g \in Members(task[j].r))'
                      /\ at[j] = "clear" => (task[j].r \in Members(task[j].g))'
    BY <1>1, <1>5 DEF JoinOK
  <2>1. PICK r \in Resources, g \in Groups : r = task[j].r /\ g = task[j].g
    BY <1>3, TaskKinds
  <2>2. r = task'[j].r /\ g = task'[j].g
    BY <1>1, <2>1
  <2>3. task[i].op = "join" \/ <<r, g>> \notin Touched(task[i])
    BY <1>2, <2>1 DEF Undisturbed, Touched
  <2>4. (g \in Members(r) => g \in Members(r)') /\ (r \in Members(g) => r \in Members(g)')
    BY <2>3, PairKept
  <2> QED BY <1>4, <2>1, <2>2, <2>4 DEF JoinOK
<1>7. ASSUME Alone(j) PROVE \A k \in Records : store'[k] = store[k] /\ Members(k)' = Members(k)
  <2>1. task[i].op = "query"
    BY <1>2, <1>7 DEF Alone
  <2> QED BY <2>1, QueriesOnlyRead DEF Members, mergeSiblings
<1>8. (LeaveOK(j) /\ CreateOK(j) /\ DeleteOK(j) /\ RemoveOK(j))'
  <2>1. CASE ~Alone(j)
    BY <1>1, <1>5, <2>1 DEF LeaveOK, CreateOK, DeleteOK, RemoveOK
  <2>2. CASE Alone(j)
    <3>1. task[j].op \in {"leave", "create", "delete", "remove"} =>
            /\ task[j].op \in {"leave", "remove"} => task[j].r \in Records
            /\ task[j].op \in {"leave", "create", "delete"} => task[j].g \in Records
      BY <1>3, TaskKinds, RecordsSplit
    <3>2. DOMAIN got[j].ids \subseteq Records /\ DOMAIN got[j].groups \subseteq Records
      BY RecordsSplit DEF TypesOK, Found, IdReads, GroupReads
    <3>3. LeaveOK(j)'
      BY <1>1, <1>4, <1>5, <1>7, <2>2, <3>1 DEF LeaveOK
    <3>4. CreateOK(j)'
      BY <1>1, <1>4, <1>5, <1>7, <2>2, <3>1 DEF CreateOK
    <3>5. DeleteOK(j)'
      BY <1>1, <1>4, <1>5, <1>7, <2>2, <3>1, <3>2 DEF DeleteOK
    <3>6. RemoveOK(j)'
      <4>1. mergeSiblings(got[j].read) \subseteq Records
        BY DEF TypesOK, Found, Reads, Siblings, mergeSiblings
      <4> SUFFICES ASSUME task[j].op = "remove", ~Failed(j) PROVE RemoveOK(j)'
        BY <1>1, <1>5 DEF RemoveOK
      <4>2. PICK r \in Records : r = task[j].r
        BY <3>1
      <4>3. /\ at[j] \in {"purge", "clear"} =>
                 /\ got[j].ids = <<>> => store[r] = Absent
                 /\ (\A s, t \in got[j].read : s = t) =>
                      \A g \in mergeSiblings(got[j].read) \ DOMAIN got[j].groups : r \notin Members(g)
                 /\ \A g \in DOMAIN got[j].groups : got[j].groups[g] # Unread => got[j].groups[g] = store[g]
            /\ at[j] = "clear" => got[j].ids = <<>> /\ got[j].groups = <<>>
        BY <1>4, <2>2, <4>2 DEF RemoveOK
      <4>4. \A g \in mergeSiblings(got[j].read) \ DOMAIN got[j].groups : r \notin Members(g) => r \notin Members(g)'
        BY <1>7, <2>2, <4>1
      <4>5. /\ store[r] = Absent => store'[r] = Absent
            /\ \A g \in DOMAIN got[j].groups : store'[g] = store[g]
        BY <1>7, <2>2, <3>2
      <4>6. r = task'[j].r
        BY <1>1, <4>2
      <4> QED BY <1>1, <4>3, <4>4, <4>5, <4>6 DEF RemoveOK
    <3> QED BY <3>3, <3>4, <3>5, <3>6
  <2> QED BY <2>1, <2>2
<1>9. BelowOK(j)'
  BY <1>1, <1>4 DEF BelowOK, Below
<1> QED BY <1>6, <1>8, <1>9

-----------------------------------------------------------------------------
(* What a step of one operation does to the cache *)

\* The cached answer of key may be stale, and whoever reads it knows.
Stale(key) == key \in raced' /\ \A j \in Ops : at[j] = "fill" /\ KeyOf(j) = key => j \in spoiled'

\* The operation drops the answer when it ends.
Covers(i, key) == i \in Ending /\ key \in Dropped(i)

\* What is cached for key is as good after the step as it was before.
Stays(key) == \A answer : Fits(key, answer) => Fits(key, answer)'

\* Which answers a step changes.
LEMMA ValueChanges ==
  ASSUME NEW key \in Keys, Value(key)' # Value(key)
  PROVE  \/ \E r \in Resources : key = <<"id", r>> /\ ~(store'[r] = Absent <=> store[r] = Absent)
         \/ \E r \in Resources : key = <<"properties", r>> /\ store'[r] # store[r]
         \/ \E g, h \in Groups : key = <<"group", g>> /\ <<g, h>> \in Text /\ Members(h)' # Members(h)
         \/ key = AnyGroup /\ \E h \in Groups : Members(h)' # Members(h)
         \/ key \in {Everything, AnyId} /\ \E r \in Resources : ~(store'[r] = Absent <=> store[r] = Absent)
<1>1. CASE \E r \in Resources : key = <<"id", r>>
  BY <1>1 DEF Value, AnyGroup
<1>2. CASE \E r \in Resources : key = <<"properties", r>>
  <2>1. PICK r \in Resources : key = <<"properties", r>>
    BY <1>2
  <2>2. CASE store'[r] = store[r]
    <3>1. mergeSiblings(store[r])' = mergeSiblings(store[r])
      BY <2>2 DEF mergeSiblings
    <3>2. key[1] = "properties" /\ key[2] = r
      BY <2>1
    <3>3. Value(key) = IF store[key[2]] = Absent THEN NotCached ELSE mergeSiblings(store[key[2]])
      BY <3>2 DEF Value, AnyGroup
    <3>4. Value(key)' = IF store'[key[2]] = Absent THEN NotCached ELSE mergeSiblings(store[key[2]])'
      BY <3>2 DEF Value, AnyGroup
    <3> QED BY <2>2, <3>1, <3>2, <3>3, <3>4
  <2> QED BY <2>1, <2>2
<1>3. CASE \E g \in Groups : key = <<"group", g>>
  <2>1. PICK g \in Groups : key = <<"group", g>>
    BY <1>3
  <2>2. Value(key) = listGroup(g) /\ Value(key)' = listGroup(g)'
    <3>1. key[1] = "group" /\ key[2] = g
      BY <2>1
    <3>2. Value(key) = listGroup(key[2])
      BY <3>1 DEF Value, AnyGroup
    <3>3. Value(key)' = listGroup(key[2])'
      BY <3>1 DEF Value, AnyGroup
    <3> QED BY <3>1, <3>2, <3>3
  <2>3. ASSUME \A h \in Groups : <<g, h>> \in Text => Members(h)' = Members(h) PROVE FALSE
    <3>1. \A h \in Groups : <<g, h>> \in Text => mergeSiblings(store[h])' = mergeSiblings(store[h])
      BY <2>3 DEF Members
    <3>2. listGroup(g)' = listGroup(g)
      BY <3>1 DEF listGroup
    <3> QED BY <2>2, <3>2
  <2> QED BY <2>1, <2>3
<1>4. CASE key = AnyGroup
  <2>1. Value(key) = listGroups /\ Value(key)' = listGroups'
    BY <1>4 DEF Value, AnyGroup
  <2>2. ASSUME \A h \in Groups : Members(h)' = Members(h) PROVE FALSE
    <3>1. \A h \in Groups : mergeSiblings(store[h])' = mergeSiblings(store[h])
      BY <2>2 DEF Members
    <3>2. listGroups' = listGroups
      BY <3>1 DEF listGroups
    <3> QED BY <2>1, <3>2
  <2> QED BY <1>4, <2>2
<1>5. CASE key \in {Everything, AnyId}
  <2>1. Value(key) = {r \in Resources : store[r] # Absent} /\ Value(key)' = {r \in Resources : store'[r] # Absent}
    BY <1>5 DEF Value, AnyGroup, Everything, AnyId
  <2> QED BY <1>5, <2>1
<1>6. \/ \E r \in Resources : key = <<"id", r>>
      \/ \E r \in Resources : key = <<"properties", r>>
      \/ \E g \in Groups : key = <<"group", g>>
      \/ key = AnyGroup \/ key \in {Everything, AnyId}
  BY DEF Keys
<1> QED BY <1>1, <1>2, <1>3, <1>4, <1>5, <1>6

\* While no record changes, no answer does.
LEMMA ValueKept ==
  ASSUME store' = store, NEW key \in Keys PROVE Value(key)' = Value(key)
BY ValueChanges DEF Members, mergeSiblings

\* The claims are about keys.
LEMMA ClaimedAreKeys ==
  /\ Claimed \subseteq Keys /\ Claimed' = Claimed
  /\ \A key \in Claimed : key # Everything => key \in OwnKeys /\ key # AnyGroup
BY DEF Claimed, OwnKeys, Keys

\* An answer fits as long as DeviceDB gives the same.
LEMMA SameFits ==
  ASSUME NEW key \in Keys, Value(key)' = Value(key), NEW answer
  PROVE  Fits(key, answer)' <=> Fits(key, answer)
<1>1. CASE key = Everything
  <2>1. Value(Everything)' = Value(Everything)
    BY <1>1
  <2> QED BY <1>1, <2>1 DEF Fits
<1>2. CASE key # Everything
  <2>1. Fits(key, answer) <=> UpToDate(key, answer)
    BY <1>2 DEF Fits
  <2>2. Fits(key, answer)' <=> UpToDate(key, answer)'
    BY <1>2 DEF Fits
  <2>3. UpToDate(key, answer)' <=> UpToDate(key, answer)
    BY DEF UpToDate, Expanded
  <2> QED BY <2>1, <2>2, <2>3
<1> QED BY <1>1, <1>2

\* What a step does to make what is cached unfit.
LEMMA Unfits ==
  ASSUME NEW key \in Claimed, ~Stays(key)
  PROVE  \/ \E r \in Resources : key \in {<<"id", r>>, AnyId} /\ ~(store'[r] = Absent <=> store[r] = Absent)
         \/ \E r \in Resources : key = <<"properties", r>> /\ store'[r] # store[r]
         \/ \E g, h \in Groups : key = <<"group", g>> /\ <<g, h>> \in Path /\ Members(h)' # Members(h)
         \/ key = Everything /\ \E r \in Resources : store[r] # Absent /\ store'[r] = Absent
<1>1. key \in Keys /\ (key # Everything => key \in OwnKeys /\ key # AnyGroup)
  BY ClaimedAreKeys
<1>2. Value(key)' # Value(key)
  BY <1>1, SameFits DEF Stays
<1>3. CASE key = Everything
  <2>1. Value(Everything) = {r \in Resources : store[r] # Absent}
        /\ Value(Everything)' = {r \in Resources : store'[r] # Absent}
    BY DEF Value, Everything, AnyGroup
  <2>2. PICK answer : Fits(Everything, answer) /\ ~Fits(Everything, answer)'
    BY <1>3 DEF Stays
  <2>3. answer \subseteq Value(Everything) /\ ~(answer \subseteq Value(Everything)')
    BY <2>2 DEF Fits
  <2> QED BY <1>3, <2>1, <2>3
<1>4. CASE key # Everything
  <2>1. \A g, h \in Groups : key = <<"group", g>> /\ <<g, h>> \in Text => <<g, h>> \in Path
    BY <1>1, <1>4 DEF OwnKeys
  <2> QED BY <1>1, <1>2, <1>4, <2>1, ValueChanges
<1> QED BY <1>3, <1>4

\* While no record changes, every answer stays as good.
LEMMA AllStay ==
  ASSUME store' = store, NEW key \in Claimed
  PROVE  Stays(key)
BY ClaimedAreKeys, ValueKept, SameFits DEF Stays

\* What an operation will drop depends on what it is and what it found.
LEMMA DroppedKept ==
  ASSUME NEW i, task'[i] = task[i], task[i].op = "delete" => got'[i].ids = got[i].ids
  PROVE  Dropped(i)' = Dropped(i)
BY DEF Dropped, GroupKeys, Keys, AnyId, AnyGroup, Everything

\* What somebody looks up is a key.
LEMMA KeysAreKeys ==
  ASSUME PhaseOK, NEW i \in Active, at[i] \in {"ask", "fill"}
  PROVE  KeyOf(i) \in Keys
BY RunningKinds, TaskKinds DEF KeyOf, Keys

\* An answer is current, or will be dropped, or is known to be stale, as long as
\* whoever changes it drops it in the end.
LEMMA CacheKept ==
  ASSUME TypesOK, PhaseOK, CacheOK, NEW i \in Ops, Frame(i), cache' = cache,
         raced \subseteq raced', spoiled \subseteq spoiled',
         at'[i] = "fill" => Current(KeyOf(i), got[i].answer)',
         \A key \in Claimed : Stays(key) \/ Covers(i, key)' \/ Stale(key),
         \A key \in Claimed : Covers(i, key) => Covers(i, key)' \/ Stale(key)
  PROVE  CacheOK'
<1>1. ASSUME NEW j \in Ops \ {i}, NEW key, Covers(j, key) PROVE Covers(j, key)'
  <2>1. at'[j] = at[j] /\ task'[j] = task[j] /\ got'[j] = got[j]
    BY DEF Frame
  <2>2. Dropped(j)' = Dropped(j)
    BY <2>1, DroppedKept
  <2> QED BY <1>1, <2>1, <2>2 DEF Covers, Ending
<1>2. ASSUME NEW key \in Claimed, NEW answer, Current(key, answer), ~Stale(key)
      PROVE  Fits(key, answer)' \/ \E j \in Ending' : key \in Dropped(j)'
  <2>1. CASE Fits(key, answer)
    <3>1. Stays(key) \/ Covers(i, key)'
      BY <1>2
    <3> QED BY <2>1, <3>1 DEF Covers, Stays
  <2>2. CASE \E j \in Ending : key \in Dropped(j)
    <3>1. PICK j \in Ending : key \in Dropped(j)
      BY <2>2
    <3>2. j \in Ops /\ Covers(j, key)
      BY <3>1 DEF Covers, Ending
    <3>3. Covers(j, key)'
      BY <1>1, <1>2, <3>2
    <3> QED BY <3>3 DEF Covers
  <2> QED BY <1>2, <2>1, <2>2 DEF Current
<1>3. Claimed' = Claimed
  BY ClaimedAreKeys
<1>4. ASSUME NEW key \in Claimed \ raced', cache'[key] # NotCached PROVE Current(key, cache[key])'
  <2>1. Current(key, cache[key]) /\ ~Stale(key)
    BY <1>4 DEF CacheOK, Stale
  <2>2. PICK answer : answer = cache[key]
    OBVIOUS
  <2>3. Fits(key, answer)' \/ \E j \in Ending' : key \in Dropped(j)'
    BY <1>2, <2>1, <2>2
  <2>4. cache'[key] = answer
    BY <2>2
  <2> QED BY <2>3, <2>4 DEF Current
<1>5. ASSUME NEW j \in Ops, at'[j] = "fill", j \notin spoiled', KeyOf(j)' \in Claimed
      PROVE  Current(KeyOf(j), got[j].answer)'
  <2>1. CASE j = i
    BY <1>5, <2>1
  <2>2. CASE j # i
    <3>1. at'[j] = at[j] /\ task'[j] = task[j] /\ got'[j] = got[j] /\ KeyOf(j)' = KeyOf(j)
      BY <2>2 DEF Frame, KeyOf
    <3>2. PICK key \in Claimed : key = KeyOf(j)
      BY <1>5, <3>1
    <3>3. PICK answer : answer = got[j].answer
      OBVIOUS
    <3>4. Current(key, answer) /\ ~Stale(key)
      BY <1>5, <3>1, <3>2, <3>3 DEF CacheOK, Stale
    <3>5. Fits(key, answer)' \/ \E l \in Ending' : key \in Dropped(l)'
      BY <1>2, <3>4
    <3>6. key = KeyOf(j)' /\ answer = got'[j].answer
      BY <3>1, <3>2, <3>3
    <3> QED BY <3>5, <3>6 DEF Current
  <2> QED BY <2>1, <2>2
<1> QED BY <1>3, <1>4, <1>5 DEF CacheOK

\* A step that changes no record and drops nothing leaves every answer current.
LEMMA CacheStays ==
  ASSUME TypesOK, PhaseOK, CacheOK, NEW i \in Ops, Frame(i), cache' = cache, raced' = raced, spoiled' = spoiled,
         store' = store, at'[i] = "fill" => Current(KeyOf(i), got[i].answer)',
         i \in Ending => i \in Ending' /\ (task[i].op = "delete" => got'[i].ids = got[i].ids)
  PROVE  CacheOK'
<1>1. ASSUME NEW key \in Claimed, Covers(i, key) PROVE Covers(i, key)'
  <2>1. i \in Ending /\ task'[i] = task[i]
    BY <1>1 DEF Covers, Frame
  <2>2. Dropped(i)' = Dropped(i)
    BY <2>1, DroppedKept
  <2> QED BY <1>1, <2>1, <2>2 DEF Covers
<1> QED BY <1>1, AllStay, CacheKept

-----------------------------------------------------------------------------
(* The steps *)

\* Operations still know what goes on beside them.
LEMMA PhaseKept ==
  ASSUME TypesOK, PhaseOK, NEW i \in Ops, Frame(i), met'[i] = met[i] \/ at'[i] \in Ended,
         at'[i] \in Phases(task[i].op) \cup Ended
  PROVE  PhaseOK'
<1>1. i \in Active /\ at[i] # "idle" /\ task[i] \in Tasks /\ task' = task
  BY DEF Frame, Active, PhaseOK
<1>2. at'[i] # "idle"
  BY <1>1, TaskKinds DEF Phases, Ended
<1>3. Active' \subseteq Active
  BY ActiveBefore
<1>4. at'[i] \in Ended => i \notin Active'
  BY DEF Active, Ended
<1>5. ASSUME NEW j \in Ops
      PROVE  /\ at'[j] # "idle" => task'[j] \in Tasks /\ at'[j] \in Phases(task'[j].op) \cup Ended
             /\ \A l \in met'[j] : at'[l] # "idle"
             /\ j \in Active' => \A l \in Active' \ {j} : l \in met'[j]
  <2>1. met'[j] \subseteq met[j] /\ met[j] \subseteq Ops
    BY DEF Frame, TypesOK
  <2>2. j \in Active' => met'[j] = met[j]
    BY <1>4 DEF Frame
  <2>3. \A l \in Ops : at[l] # "idle" => at'[l] # "idle"
    BY <1>2 DEF Frame
  <2>4. at'[j] # "idle" => task'[j] \in Tasks /\ at'[j] \in Phases(task'[j].op) \cup Ended
    BY <1>1 DEF Frame, PhaseOK
  <2> QED BY <1>3, <2>1, <2>2, <2>3, <2>4 DEF PhaseOK
<1> QED BY <1>5 DEF PhaseOK

\* What is left to show of a step.
LEMMA StepInv ==
  ASSUME IndexInv, TypesOK', PhaseOK', NEW i \in Ops, Effect(i), OwnOK(i)', expected' = expected, CacheOK'
  PROVE  IndexInv'
<1>1. TypesOK /\ PhaseOK /\ SiblingsOK /\ InOK /\ OutOK /\ \A j \in Ops : OwnOK(j)
  BY DEF IndexInv
<1>2. SiblingsOK'
  BY <1>1, SiblingsKept
<1>3. InOK'
  BY <1>1, InKept DEF InOK
<1>4. OutOK'
  <2>1. ASSUME NEW r \in Resources, NEW g \in Groups, expected[<<r, g>>] = "out"
        PROVE  /\ g \notin Members(r)' /\ r \notin Members(g)'
               /\ \A j \in Active' : /\ <<r, g>> \notin Touched(task'[j])
                                     /\ g \notin mergeSiblings(ReadOf(j, r)') /\ r \notin mergeSiblings(ReadOf(j, g)')
    BY <1>1, <2>1, OutKept
  <2>2. \A j, k : mergeSiblings(ReadOf(j, k))' = mergeSiblings(ReadOf(j, k)')
    BY DEF mergeSiblings
  <2> QED BY <2>1, <2>2 DEF OutOK
<1>5. \A j \in Ops : OwnOK(j)'
  BY <1>1, OwnKept
<1> QED BY <1>2, <1>3, <1>4, <1>5 DEF IndexInv

\* Where a step goes.
LEMMA GotoDoes ==
  ASSUME TypesOK, NEW i \in Ops, NEW pc \in Places, Goto(i, pc)
  PROVE  at' \in [Ops -> Places] /\ at'[i] = pc /\ \A j \in Ops \ {i} : at'[j] = at[j]
BY DEF Goto, TypesOK

\* A step that only reads.
LEMMA ReadStepInv ==
  ASSUME IndexInv, NEW i \in Active, store' = store, Same, at' \in [Ops -> Places], got' \in [Ops -> Found],
         \A j \in Ops \ {i} : at'[j] = at[j] /\ got'[j] = got[j],
         at'[i] \in Phases(task[i].op) \cup Ended,
         ToWrite(i)' \subseteq ToWrite(i),
         \A k \in Records : ReadOf(i, k)' \subseteq ReadOf(i, k) \cup store[k],
         OwnOK(i)',
         at'[i] = "fill" => Current(KeyOf(i), got[i].answer)',
         i \in Ending => i \in Ending' /\ (task[i].op = "delete" => got'[i].ids = got[i].ids)
  PROVE  IndexInv'
<1>1. TypesOK /\ PhaseOK /\ CacheOK /\ i \in Ops
  BY DEF IndexInv, Active
<1>2. Frame(i)
  BY DEF Frame, Same
<1>3. TypesOK'
  BY <1>1 DEF TypesOK, Same
<1>4. Effect(i)
  BY <1>2 DEF Effect
<1>5. PhaseOK'
  BY <1>1, <1>2, PhaseKept DEF Same
<1>6. CacheOK'
  BY <1>1, <1>2, CacheStays DEF Same
<1> QED BY <1>1, <1>3, <1>4, <1>5, <1>6, StepInv DEF Same

\* getResources and getResourceProperties look into the cache or ask DeviceDB.
LEMMA LookupInv ==
  ASSUME IndexInv, NEW i \in Ops, Lookup(i)
  PROVE  IndexInv'
<1>1. TypesOK /\ PhaseOK /\ at[i] = "ask" /\ i \in Active /\ store' = store /\ Same
  BY DEF IndexInv, Lookup, Active
<1>2. task[i].op \in {"join", "query"} /\ task[i] \in Tasks
  BY <1>1, RunningKinds
<1>3. KeyOf(i) \in Keys
  BY <1>1, KeysAreKeys
<1>4. Value(KeyOf(i)) \in {NotCached} \cup SUBSET Records
  <2>1. \A k \in Records : mergeSiblings(store[k]) \subseteq Records
    BY <1>1 DEF TypesOK, Reads, Siblings, mergeSiblings
  <2>2. listGroups \subseteq Records /\ \A g \in Groups : listGroup(g) \subseteq Records
    BY <2>1, RecordsSplit DEF listGroup, listGroups
  <2>3. PICK key \in Keys : key = KeyOf(i)
    BY <1>3
  <2>4. Value(key) \in {NotCached} \cup SUBSET Records
    BY <2>1, <2>2, RecordsSplit DEF Value, Keys, AnyGroup, AnyId, Everything
  <2> QED BY <2>3, <2>4
<1>5. CASE cache[KeyOf(i)] # NotCached
  <2>1. got' = got /\ \E pc \in {"id", "done"} : Goto(i, pc) /\ (pc = "id" => task[i].op = "join")
    BY <1>5 DEF Lookup, Answer
  <2>2. PICK pc \in {"id", "done"} : Goto(i, pc) /\ (pc = "id" => task[i].op = "join")
    BY <2>1
  <2>3. at' \in [Ops -> Places] /\ at'[i] = pc /\ \A j \in Ops \ {i} : at'[j] = at[j]
    BY <1>1, <2>2, GotoDoes DEF Places
  <2>4. at'[i] \in Phases(task[i].op) \cup Ended
    BY <2>2, <2>3 DEF Phases, Ended
  <2>5. ToWrite(i)' \subseteq ToWrite(i)
    BY <1>1, <2>2, <2>3 DEF ToWrite, Same
  <2>6. \A k \in Records : ReadOf(i, k)' = {}
    BY <2>3 DEF ReadOf
  <2>7. OwnOK(i)'
    BY <1>1, <1>2, <2>3 DEF OwnOK, JoinOK, LeaveOK, CreateOK, DeleteOK, RemoveOK, BelowOK, Same
  <2> QED BY <1>1, <2>1, <2>3, <2>4, <2>5, <2>6, <2>7, ReadStepInv DEF TypesOK, Ending
<1>6. CASE cache[KeyOf(i)] = NotCached
  <2>1. Goto(i, "fill") /\ Got(i, "answer", Value(KeyOf(i)))
    BY <1>6 DEF Lookup
  <2>2. at' \in [Ops -> Places] /\ at'[i] = "fill" /\ \A j \in Ops \ {i} : at'[j] = at[j]
    BY <1>1, <2>1, GotoDoes DEF Places
  <2>3. /\ got' \in [Ops -> Found] /\ \A j \in Ops \ {i} : got'[j] = got[j]
        /\ got'[i].answer = Value(KeyOf(i))
    BY <1>1, <1>4, <2>1, GotDoes DEF TypesOK
  <2>4. at'[i] \in Phases(task[i].op) \cup Ended
    BY <1>2, <2>2 DEF Phases
  <2>5. ToWrite(i)' \subseteq ToWrite(i)
    BY <1>1, <2>2 DEF ToWrite, Same
  <2>6. \A k \in Records : ReadOf(i, k)' = {}
    BY <2>2 DEF ReadOf
  <2>7. OwnOK(i)'
    BY <1>1, <1>2, <2>2 DEF OwnOK, JoinOK, LeaveOK, CreateOK, DeleteOK, RemoveOK, BelowOK, Same
  <2>8. Current(KeyOf(i), got[i].answer)'
    <3>1. PICK key \in Keys : key = KeyOf(i)
      BY <1>3
    <3>2. KeyOf(i)' = key
      BY <1>1, <3>1 DEF KeyOf, Same
    <3>3. PICK answer : answer = Value(key) /\ answer = got'[i].answer
      BY <2>3, <3>1
    <3>4. Fits(key, answer)
      BY <3>3 DEF Fits, UpToDate
    <3>5. Fits(key, answer)'
      BY <1>1, <3>4, ValueKept, SameFits
    <3> QED BY <3>2, <3>3, <3>5 DEF Current
  <2> QED BY <1>1, <2>2, <2>3, <2>4, <2>5, <2>6, <2>7, <2>8, ReadStepInv DEF Ending
<1> QED BY <1>5, <1>6

\* The record of the resource is read.
LEMMA IdGetInv ==
  ASSUME IndexInv, NEW i \in Ops, IdGet(i)
  PROVE  IndexInv'
<1>1. TypesOK /\ PhaseOK /\ at[i] = "id" /\ i \in Active /\ store' = store /\ Same /\ task' = task
  BY DEF IndexInv, IdGet, Active, Same
<1>2. task[i].op \in {"join", "leave", "add"} /\ task[i] \in Tasks
  BY <1>1, RunningKinds DEF IdGet
<1>3. PICK r \in Resources : r = task[i].r
  BY <1>2, TaskKinds
<1>4. store[r] \in Reads /\ r \in Records
  BY <1>1, RecordsSplit DEF TypesOK
<1>5. CASE store[r] = Absent /\ task[i].op # "add"
  <2>1. got' = got /\ Goto(i, IF task[i].op = "join" THEN "done" ELSE "tree")
    BY <1>3, <1>5 DEF IdGet
  <2>2. at' \in [Ops -> Places] /\ at'[i] = (IF task[i].op = "join" THEN "done" ELSE "tree")
        /\ \A j \in Ops \ {i} : at'[j] = at[j]
    BY <1>1, <2>1, GotoDoes DEF Places
  <2>3. at'[i] \in Phases(task[i].op) \cup Ended
    BY <1>2, <1>5, <2>2 DEF Phases, Ended
  <2>4. ToWrite(i)' \subseteq ToWrite(i)
    BY <1>1, <1>2, <1>5, <2>2 DEF ToWrite
  <2>5. \A k \in Records : ReadOf(i, k)' = {}
    BY <2>2 DEF ReadOf
  <2>6. task[i].op = "leave" => (task[i].g \notin Members(task[i].r))'
    BY <1>1, <1>3, <1>5, AbsentMembers DEF Members
  <2>7. OwnOK(i)'
    BY <1>1, <1>2, <2>2, <2>6 DEF OwnOK, JoinOK, LeaveOK, CreateOK, DeleteOK, RemoveOK, BelowOK, Active
  <2> QED BY <1>1, <2>1, <2>2, <2>3, <2>4, <2>5, <2>7, ReadStepInv DEF TypesOK, Ending
<1>6. CASE ~(store[r] = Absent /\ task[i].op # "add")
  <2>1. Goto(i, "idPut") /\ Got(i, "read", store[r])
    BY <1>3, <1>6 DEF IdGet
  <2>2. at' \in [Ops -> Places] /\ at'[i] = "idPut" /\ \A j \in Ops \ {i} : at'[j] = at[j]
    BY <1>1, <2>1, GotoDoes DEF Places
  <2>3. /\ got' \in [Ops -> Found] /\ \A j \in Ops \ {i} : got'[j] = got[j]
        /\ got'[i].read = store[r]
    BY <1>1, <1>4, <2>1, GotDoes DEF TypesOK
  <2>4. at'[i] \in Phases(task[i].op) \cup Ended
    BY <1>2, <2>2 DEF Phases
  <2>5. ToWrite(i)' \subseteq ToWrite(i)
    BY <1>1, <1>2, <2>2 DEF ToWrite
  <2>6. \A k \in Records : ReadOf(i, k)' \subseteq store[k]
    BY <1>1, <1>3, <2>2, <2>3 DEF ReadOf
  <2>7. OwnOK(i)'
    BY <1>1, <1>2, <1>3, <2>2, <2>3 DEF OwnOK, JoinOK, LeaveOK, CreateOK, DeleteOK, RemoveOK, BelowOK
  <2> QED BY <1>1, <2>2, <2>3, <2>4, <2>5, <2>6, <2>7, ReadStepInv DEF Ending
<1> QED BY <1>5, <1>6

\* The record of the group is read.
LEMMA TreeGetInv ==
  ASSUME IndexInv, NEW i \in Ops, TreeGet(i)
  PROVE  IndexInv'
<1>1. /\ TypesOK /\ PhaseOK /\ at[i] = "tree" /\ i \in Active /\ store' = store /\ Same /\ task' = task
      /\ met' = met /\ OwnOK(i)
  BY DEF IndexInv, TreeGet, Active, Same
<1>2. task[i].op \in {"join", "leave", "create"} /\ task[i] \in Tasks
  BY <1>1, RunningKinds
<1>3. PICK g \in Groups : g = task[i].g
  BY <1>2, TaskKinds
<1>4. store[g] \in Reads /\ g \in Records
  BY <1>1, RecordsSplit DEF TypesOK
<1>5. task[i].op = "leave" /\ Alone(i) /\ ~Failed(i) => (task[i].g \notin Members(task[i].r))'
  BY <1>1 DEF OwnOK, LeaveOK, Members, mergeSiblings
<1>6. Alone(i)' <=> Alone(i)
  BY <1>1 DEF Alone
<1>7. task[i].op = "join" /\ Undisturbed(i)' => (task[i].g \in Members(task[i].r))'
  BY <1>1 DEF OwnOK, JoinOK, Members, mergeSiblings, Undisturbed
<1>8. CASE store[g] = Absent /\ task[i].op = "leave"
  <2>1. got' = got /\ Goto(i, "clear")
    BY <1>3, <1>8 DEF TreeGet
  <2>2. at' \in [Ops -> Places] /\ at'[i] = "clear" /\ \A j \in Ops \ {i} : at'[j] = at[j]
    BY <1>1, <2>1, GotoDoes DEF Places
  <2>3. at'[i] \in Phases(task[i].op) \cup Ended
    BY <1>8, <2>2 DEF Phases
  <2>4. ToWrite(i)' \subseteq ToWrite(i)
    BY <2>2 DEF ToWrite
  <2>5. \A k \in Records : ReadOf(i, k)' = {}
    BY <2>2 DEF ReadOf
  <2>6. (task[i].r \notin Members(task[i].g))'
    BY <1>1, <1>3, <1>8, AbsentMembers DEF Members
  <2>7. Failed(i)' <=> Failed(i)
    BY <2>1 DEF Failed
  <2>8. OwnOK(i)'
    BY <1>1, <1>5, <1>6, <1>8, <2>2, <2>6, <2>7 DEF OwnOK, JoinOK, LeaveOK, CreateOK, DeleteOK, RemoveOK, BelowOK
  <2> QED BY <1>1, <1>8, <2>1, <2>2, <2>3, <2>4, <2>5, <2>8, ReadStepInv DEF TypesOK, Ending
<1>9. CASE ~(store[g] = Absent /\ task[i].op = "leave")
  <2>1. Goto(i, "treePut") /\ Got(i, "read", store[g])
    BY <1>3, <1>9 DEF TreeGet
  <2>2. at' \in [Ops -> Places] /\ at'[i] = "treePut" /\ \A j \in Ops \ {i} : at'[j] = at[j]
    BY <1>1, <2>1, GotoDoes DEF Places
  <2>3. /\ got' \in [Ops -> Found] /\ \A j \in Ops \ {i} : got'[j] = got[j]
        /\ got'[i].read = store[g] /\ got'[i].failed = got[i].failed
    BY <1>1, <1>4, <2>1, GotDoes DEF TypesOK
  <2>4. at'[i] \in Phases(task[i].op) \cup Ended
    BY <1>2, <2>2 DEF Phases
  <2>5. ToWrite(i)' \subseteq ToWrite(i)
    BY <1>1, <1>2, <2>2 DEF ToWrite
  <2>6. \A k \in Records : ReadOf(i, k)' \subseteq store[k]
    BY <1>1, <1>3, <2>2, <2>3 DEF ReadOf
  <2>7. Failed(i)' <=> Failed(i)
    BY <2>3 DEF Failed
  <2>8. OwnOK(i)'
    BY <1>1, <1>2, <1>3, <1>5, <1>6, <1>7, <2>2, <2>3, <2>7 DEF OwnOK, JoinOK, LeaveOK, CreateOK, DeleteOK, RemoveOK, BelowOK
  <2> QED BY <1>1, <1>2, <2>2, <2>3, <2>4, <2>5, <2>6, <2>8, ReadStepInv DEF Ending
<1> QED BY <1>8, <1>9

\* What records list.
LEMMA MembersAre ==
  ASSUME TypesOK, SiblingsOK
  PROVE  /\ \A r \in Resources : Members(r) \subseteq Groups
         /\ \A g \in Groups : Members(g) \subseteq Resources /\ listGroup(g) \subseteq Resources
<1>1. \A k \in Records : \A s \in store[k] : s.set \subseteq Others(k)
  BY DEF SiblingsOK, Seen, TypesOK, Reads
<1>2. \A k \in Records : Members(k) \subseteq Others(k)
  BY <1>1 DEF Members, mergeSiblings
<1>3. \A g \in Groups : g \in Records /\ Others(g) = Resources
  BY RecordsSplit DEF Others
<1>4. \A g \in Groups : Members(g) \subseteq Resources
  BY <1>2, <1>3
<1>5. \A g \in Groups : listGroup(g) \subseteq Resources
  BY <1>4 DEF listGroup, Members
<1> QED BY <1>2, <1>4, <1>5, RecordsSplit DEF Others

\* The empty function.
LEMMA NothingIsEmpty == DOMAIN <<>> = {} /\ \A S : <<>> \in [{} -> S]
OBVIOUS

\* A choice of siblings for some resources, and for some groups.
LEMMA ReadsMake ==
  /\ \A S \in SUBSET Resources : \A f \in [S -> Reads] : f \in IdReads
  /\ \A S \in SUBSET Groups : \A f \in [S -> Reads \cup {Unread}] : f \in GroupReads
BY DEF IdReads, GroupReads

\* deleteGroup lists the resources.
LEMMA DeleteListInv ==
  ASSUME IndexInv, NEW i \in Ops, DeleteList(i)
  PROVE  IndexInv'
<1>1. /\ TypesOK /\ PhaseOK /\ SiblingsOK /\ at[i] = "list" /\ i \in Active /\ store' = store /\ Same /\ task' = task
  BY DEF IndexInv, DeleteList, Active, Same
<1>2. task[i].op = "delete" /\ task[i] \in Tasks
  BY <1>1, RunningKinds
<1>3. PICK g \in Groups : g = task[i].g
  BY <1>2, TaskKinds
<1>4. PICK ids : ids = [r \in listGroup(g) |-> Absent]
  OBVIOUS
<1>5. ids \in IdReads
  <2>1. listGroup(g) \in SUBSET Resources
    BY <1>1, MembersAre
  <2>2. ids \in [listGroup(g) -> Reads]
    BY <1>4 DEF Absent, Reads
  <2> QED BY <2>1, <2>2, ReadsMake
<1>6. Goto(i, "ids") /\ Got(i, "ids", ids)
  BY <1>3, <1>4 DEF DeleteList
<1>7. at' \in [Ops -> Places] /\ at'[i] = "ids" /\ \A j \in Ops \ {i} : at'[j] = at[j]
  BY <1>1, <1>6, GotoDoes DEF Places
<1>8. got' \in [Ops -> Found] /\ \A j \in Ops \ {i} : got'[j] = got[j]
  BY <1>1, <1>5, <1>6, GotDoes DEF TypesOK
<1>9. at'[i] \in Phases(task[i].op) \cup Ended
  BY <1>2, <1>7 DEF Phases
<1>10. ToWrite(i)' \subseteq ToWrite(i)
  BY <1>1, <1>7 DEF ToWrite
<1>11. \A k \in Records : ReadOf(i, k)' = {}
  BY <1>7 DEF ReadOf
<1>12. OwnOK(i)'
  BY <1>1, <1>2, <1>7 DEF OwnOK, JoinOK, LeaveOK, CreateOK, DeleteOK, RemoveOK, BelowOK
<1> QED BY <1>1, <1>7, <1>8, <1>9, <1>10, <1>11, <1>12, ReadStepInv DEF Ending

\* It reads their records.
LEMMA DeleteReadsIdsInv ==
  ASSUME IndexInv, NEW i \in Ops, DeleteReadsIds(i)
  PROVE  IndexInv'
<1>1. /\ TypesOK /\ PhaseOK /\ at[i] = "ids" /\ i \in Active /\ store' = store /\ Same /\ task' = task
  BY DEF IndexInv, DeleteReadsIds, Active, Same
<1>2. task[i].op = "delete" /\ task[i] \in Tasks
  BY <1>1, RunningKinds
<1>3. PICK ids : ids = [r \in DOMAIN got[i].ids |-> store[r]]
  OBVIOUS
<1>4. ids \in IdReads
  <2>1. DOMAIN got[i].ids \in SUBSET Resources
    BY <1>1 DEF TypesOK, Found, IdReads
  <2>2. ids \in [DOMAIN got[i].ids -> Reads]
    BY <1>1, <1>3, <2>1, RecordsSplit DEF TypesOK
  <2> QED BY <2>1, <2>2, ReadsMake
<1>5. \A r \in DOMAIN ids : ids[r] = store[r]
  BY <1>3
<1>6. Goto(i, "idsPut") /\ Got(i, "ids", ids)
  BY <1>3 DEF DeleteReadsIds
<1>7. at' \in [Ops -> Places] /\ at'[i] = "idsPut" /\ \A j \in Ops \ {i} : at'[j] = at[j]
  BY <1>1, <1>6, GotoDoes DEF Places
<1>8. got' \in [Ops -> Found] /\ (\A j \in Ops \ {i} : got'[j] = got[j]) /\ got'[i].ids = ids
  BY <1>1, <1>4, <1>6, GotDoes DEF TypesOK
<1>9. at'[i] \in Phases(task[i].op) \cup Ended
  BY <1>2, <1>7 DEF Phases
<1>10. ToWrite(i)' \subseteq ToWrite(i)
  BY <1>1, <1>7 DEF ToWrite
<1>11. \A k \in Records : ReadOf(i, k)' \subseteq store[k]
  BY <1>5, <1>7, <1>8 DEF ReadOf
<1>12. OwnOK(i)'
  BY <1>1, <1>2, <1>5, <1>7, <1>8 DEF OwnOK, JoinOK, LeaveOK, CreateOK, DeleteOK, RemoveOK, BelowOK
<1> QED BY <1>1, <1>7, <1>8, <1>9, <1>10, <1>11, <1>12, ReadStepInv DEF Ending

\* What a delete has achieved with the resources, while nothing is written.
LEMMA DeleteKept ==
  ASSUME TypesOK, NEW i \in Active, OwnOK(i), task[i].op = "delete", store' = store, task' = task, met' = met,
         at[i] \in {"children", "parent", "parentPut", "erase"},
         at'[i] \in {"children", "parent", "parentPut", "erase"}, got'[i].ids = got[i].ids,
         at'[i] \in {"parent", "parentPut", "erase"} => DOMAIN got'[i].groups \subseteq Below(task[i].g)
  PROVE  OwnOK(i)'
<1>1. Alone(i)' <=> Alone(i)
  BY DEF Alone
<1>2. Alone(i) => \A r \in DOMAIN got[i].ids : task[i].g \notin Members(r)
  BY DEF OwnOK, DeleteOK
<1>3. \A r : Members(r)' = Members(r)
  BY DEF Members, mergeSiblings
<1>4. Below(task[i].g)' = Below(task[i].g)
  BY DEF Below
<1> QED BY <1>1, <1>2, <1>3, <1>4 DEF OwnOK, JoinOK, LeaveOK, CreateOK, DeleteOK, RemoveOK, BelowOK

\* ResourceGroupTree.deleteGroup reads the groups below.
LEMMA DeleteReadsBelowInv ==
  ASSUME IndexInv, NEW i \in Ops, DeleteReadsBelow(i)
  PROVE  IndexInv'
<1>1. /\ TypesOK /\ PhaseOK /\ at[i] = "children" /\ i \in Active /\ store' = store /\ Same /\ task' = task
      /\ met' = met /\ OwnOK(i)
  BY DEF IndexInv, DeleteReadsBelow, Active, Same
<1>2. task[i].op = "delete" /\ task[i] \in Tasks
  BY <1>1, RunningKinds
<1>3. PICK groups : groups = [h \in Below(task[i].g) |-> store[h]]
  OBVIOUS
<1>4. groups \in GroupReads
  <2>1. Below(task[i].g) \in SUBSET Groups
    BY DEF Below
  <2>2. groups \in [Below(task[i].g) -> Reads \cup {Unread}]
    BY <1>1, <1>3, <2>1, RecordsSplit DEF TypesOK
  <2> QED BY <2>1, <2>2, ReadsMake
<1>5. PICK pc \in {"erase", "parent"} : Goto(i, pc) /\ Got(i, "groups", groups)
  BY <1>3 DEF DeleteReadsBelow
<1>6. at' \in [Ops -> Places] /\ at'[i] = pc /\ \A j \in Ops \ {i} : at'[j] = at[j]
  BY <1>1, <1>5, GotoDoes DEF Places
<1>7. /\ got' \in [Ops -> Found] /\ (\A j \in Ops \ {i} : got'[j] = got[j])
      /\ got'[i].ids = got[i].ids /\ got'[i].groups = groups
  BY <1>1, <1>4, <1>5, GotDoes DEF TypesOK
<1>8. at'[i] \in Phases(task[i].op) \cup Ended
  BY <1>2, <1>6 DEF Phases
<1>9. ToWrite(i)' \subseteq ToWrite(i)
  BY <1>1, <1>6 DEF ToWrite
<1>10. \A k \in Records : ReadOf(i, k)' = {}
  BY <1>6 DEF ReadOf
<1>11. OwnOK(i)'
  BY <1>1, <1>2, <1>3, <1>6, <1>7, DeleteKept
<1>12. i \in Ending'
  BY <1>1, <1>2, <1>6 DEF Ending
<1> QED BY <1>1, <1>6, <1>7, <1>8, <1>9, <1>10, <1>11, <1>12, ReadStepInv

\* And the group above.
LEMMA DeleteReadsParentInv ==
  ASSUME IndexInv, NEW i \in Ops, DeleteReadsParent(i)
  PROVE  IndexInv'
<1>1. /\ TypesOK /\ PhaseOK /\ at[i] = "parent" /\ i \in Active /\ store' = store /\ Same /\ task' = task
      /\ met' = met /\ OwnOK(i) /\ Goto(i, "parentPut")
  BY DEF IndexInv, DeleteReadsParent, Active, Same
<1>2. task[i].op = "delete" /\ task[i] \in Tasks
  BY <1>1, RunningKinds
<1>3. PICK g \in Groups : g = task[i].g
  BY <1>2, TaskKinds
<1>4. PICK p \in Parents(g) : Got(i, "read", store[p])
  BY <1>3 DEF DeleteReadsParent
<1>5. store[p] \in Reads
  BY <1>1, ParentIsOne, RecordsSplit DEF TypesOK
<1>6. at' \in [Ops -> Places] /\ at'[i] = "parentPut" /\ \A j \in Ops \ {i} : at'[j] = at[j]
  BY <1>1, GotoDoes DEF Places
<1>7. /\ got' \in [Ops -> Found] /\ (\A j \in Ops \ {i} : got'[j] = got[j])
      /\ got'[i].ids = got[i].ids /\ got'[i].groups = got[i].groups /\ got'[i].read = store[p]
  BY <1>1, <1>4, <1>5, GotDoes DEF TypesOK
<1>8. at'[i] \in Phases(task[i].op) \cup Ended
  BY <1>2, <1>6 DEF Phases
<1>9. ToWrite(i)' \subseteq ToWrite(i)
  BY <1>1, <1>6 DEF ToWrite
<1>10. ASSUME NEW k \in Records PROVE ReadOf(i, k)' \subseteq store[k]
  <2>1. ReadOf(i, k)' = IF k \in Parents(g)' THEN got'[i].read ELSE {}
    BY <1>1, <1>3, <1>6 DEF ReadOf
  <2>2. Parents(g)' = Parents(g)
    BY DEF Parents
  <2>3. k \in Parents(g) => k = p
    BY ParentIsOne
  <2> QED BY <1>7, <2>1, <2>2, <2>3
<1>11. OwnOK(i)'
  BY <1>1, <1>2, <1>6, <1>7, DeleteKept DEF OwnOK, BelowOK
<1>12. i \in Ending'
  BY <1>1, <1>2, <1>6 DEF Ending
<1> QED BY <1>1, <1>6, <1>7, <1>8, <1>9, <1>10, <1>11, <1>12, ReadStepInv

\* removeResource reads the record of the resource.
LEMMA RemoveReadsInv ==
  ASSUME IndexInv, NEW i \in Ops, RemoveReads(i)
  PROVE  IndexInv'
<1>1. /\ TypesOK /\ PhaseOK /\ SiblingsOK /\ at[i] = "id" /\ i \in Active /\ store' = store /\ Same /\ task' = task
      /\ Goto(i, "purge") /\ task[i].op = "remove"
  BY DEF IndexInv, RemoveReads, Active, Same
<1>2. task[i] \in Tasks
  BY <1>1, RunningKinds
<1>3. PICK r \in Resources : r = task[i].r
  BY <1>1, <1>2, TaskKinds
<1>4. store[r] \in Reads /\ r \in Records
  BY <1>1, RecordsSplit DEF TypesOK
<1>5. PICK some \in SUBSET store[r] :
        /\ store[r] # Absent => some # {}
        /\ got' = [got EXCEPT ![i] = [@ EXCEPT
             !.read = store[r], !.ids = [q \in {r} |-> Absent],
             !.groups = [g \in mergeSiblings(some) |-> Unread]]]
  BY <1>3 DEF RemoveReads
<1>6. PICK ids : ids = [q \in {r} |-> Absent]
  OBVIOUS
<1>7. PICK groups : groups = [g \in mergeSiblings(some) |-> Unread]
  OBVIOUS
<1>8. got' = [got EXCEPT ![i] = [@ EXCEPT !.read = store[r], !.ids = ids, !.groups = groups]]
  BY <1>5, <1>6, <1>7
<1>9. ids \in IdReads /\ DOMAIN ids = {r}
  <2>1. {r} \in SUBSET Resources /\ ids \in [{r} -> Reads]
    BY <1>6 DEF Absent, Reads
  <2> QED BY <1>6, <2>1, ReadsMake
<1>10. groups \in GroupReads /\ DOMAIN groups = mergeSiblings(some)
  <2>1. mergeSiblings(some) \subseteq Members(r)
    BY DEF mergeSiblings, Members
  <2>2. mergeSiblings(some) \in SUBSET Groups
    BY <1>1, <2>1, MembersAre
  <2>3. groups \in [mergeSiblings(some) -> Reads \cup {Unread}]
    BY <1>7
  <2> QED BY <1>7, <2>2, <2>3, ReadsMake
<1>11. /\ got' \in [Ops -> Found] /\ \A j \in Ops \ {i} : got'[j] = got[j]
       /\ got'[i].read = store[r] /\ got'[i].ids = ids /\ got'[i].groups = groups
  <2>1. PICK old \in Found : old = got[i]
    BY <1>1 DEF TypesOK
  <2>2. PICK new : new = [old EXCEPT !.read = store[r], !.ids = ids, !.groups = groups]
    OBVIOUS
  <2>3. new \in Found /\ new.read = store[r] /\ new.ids = ids /\ new.groups = groups
    BY <1>4, <1>9, <1>10, <2>2 DEF Found
  <2>4. got' = [got EXCEPT ![i] = new]
    BY <1>8, <2>1, <2>2
  <2> QED BY <1>1, <2>3, <2>4 DEF TypesOK
<1>12. at' \in [Ops -> Places] /\ at'[i] = "purge" /\ \A j \in Ops \ {i} : at'[j] = at[j]
  BY <1>1, GotoDoes DEF Places
<1>13. at'[i] \in Phases(task[i].op) \cup Ended
  BY <1>1, <1>12 DEF Phases
<1>14. DOMAIN groups \subseteq Groups
  BY <1>10 DEF GroupReads
<1>15. ToWrite(i)' \subseteq ToWrite(i)
  BY <1>1, <1>11, <1>12, <1>14 DEF ToWrite
<1>16. \A g \in DOMAIN groups : groups[g] = Unread
  BY <1>7
<1>17. \A k \in Records : ReadOf(i, k)' = {}
  BY <1>11, <1>12, <1>16 DEF ReadOf, Unread
<1>18. OwnOK(i)'
  <2>1. ids # <<>>
    BY <1>9, NothingIsEmpty
  <2>2. (\A s, t \in store[r] : s = t) => mergeSiblings(store[r]) \subseteq DOMAIN groups
    <3> SUFFICES ASSUME \A s, t \in store[r] : s = t, NEW g \in mergeSiblings(store[r]) PROVE g \in DOMAIN groups
      OBVIOUS
    <3>1. PICK s \in store[r] : g \in s.set
      BY DEF mergeSiblings
    <3>2. s \in some
      BY <1>5, <3>1 DEF Absent
    <3> QED BY <1>10, <3>1, <3>2 DEF mergeSiblings
  <2> QED BY <1>1, <1>11, <1>12, <1>16, <2>1, <2>2 DEF OwnOK, JoinOK, LeaveOK, CreateOK, DeleteOK, RemoveOK, BelowOK
<1> QED BY <1>1, <1>11, <1>12, <1>13, <1>15, <1>17, <1>18, ReadStepInv DEF Ending

-----------------------------------------------------------------------------
(* The steps that write *)

\* What an operation has read of a record lists what such a record lists.
LEMMA ReadLists ==
  ASSUME TypesOK, SiblingsOK, NEW i \in Ops, NEW k \in Records
  PROVE  mergeSiblings(ReadOf(i, k)) \subseteq Others(k)
<1>1. \A s \in ReadOf(i, k) : s \in Siblings /\ Seen(k, s)
  BY ReadsAreSiblings DEF Reads, Seen
<1> QED BY <1>1 DEF SiblingsOK, mergeSiblings

\* What an operation drops.
LEMMA DroppedKeys ==
  ASSUME NEW i
  PROVE  /\ task[i].op \in {"join", "leave", "add"} => <<"properties", task[i].r>> \in Dropped(i)
         /\ task[i].op = "delete" => \A r \in DOMAIN got[i].ids : <<"properties", r>> \in Dropped(i)
         /\ task[i].op \in {"join", "leave", "delete"} =>
              \A h \in Groups : <<h, task[i].g>> \in Path \/ <<task[i].g, h>> \in Text => <<"group", h>> \in Dropped(i)
         /\ task[i].op = "remove" => Dropped(i) = Keys
BY DEF Dropped, GroupKeys

\* They are keys.
LEMMA DroppedAreKeys ==
  ASSUME TypesOK, PhaseOK, NEW i \in Active
  PROVE  Dropped(i) \subseteq Keys /\ Undropped(i) \subseteq Keys
<1>0. i \in Ops /\ task[i] \in Tasks /\ at[i] = "idPut" => task[i].r \in Resources
  BY RunningKinds, TaskKinds
<1>1. i \in Ops /\ task[i] \in Tasks /\ DOMAIN got[i].ids \subseteq Resources
  BY RunningKinds DEF TypesOK, Found, IdReads
<1>2. \A g : GroupKeys(g) \subseteq Keys
  BY DEF GroupKeys, Keys
<1>3. Dropped(i) \subseteq Keys
  BY <1>1, <1>2, TaskKinds DEF Dropped, Keys
<1>4. Existing(got[i].ids) \subseteq Resources
  BY <1>1 DEF Existing
<1>5. PICK back : /\ back = {r \in (IF at[i] = "idPut" THEN {task[i].r}
                                   ELSE IF at[i] = "idsPut" THEN Existing(got[i].ids) ELSE {}) : store[r] = Absent}
                  /\ Undropped(i) = Dropped(i) \cup (IF task[i].op = "create" THEN GroupKeys(task[i].g) ELSE {})
                                      \cup ({"id"} \X back) \cup (IF back = {} THEN {} ELSE {AnyId})
  BY DEF Undropped
<1>6. back \subseteq Resources
  BY <1>0, <1>1, <1>4, <1>5
<1>7. AnyId \in Keys /\ {"id"} \X back \subseteq Keys
  BY <1>6 DEF Keys
<1> QED BY <1>2, <1>3, <1>5, <1>7

\* What Put does.
LEMMA PutDoes ==
  ASSUME TypesOK, NEW i \in Ops, NEW k \in Records, NEW set \in SUBSET Records, Put(i, k, set)
  PROVE  /\ store' \in [Records -> Reads] /\ store'[k] = Write(store[k], got[i].read, i, set)
         /\ \A l \in Records \ {k} : store'[l] = store[l]
<1>1. store[k] \in Reads /\ got[i].read \in Reads
  BY DEF TypesOK, Found
<1>2. Write(store[k], got[i].read, i, set) \in Reads
  BY <1>1, WriteDoes
<1> QED BY <1>2 DEF Put, TypesOK

\* What a write leaves, whether or not its answer arrives: a record is written at
\* most once, and what is cached is as good as before, unless it is among the keys
\* that are to be dropped or are known to be stale.
Written(i) ==
  /\ store' \in [Records -> Reads]
  /\ \A k \in Records :
       \/ store'[k] = store[k] \/ Erases(i, k)
       \/ k \in ToWrite(i) /\ (at[i] \in {"idPut", "idsPut"} => k \in Resources) /\ Merges(i, k)
  /\ \A key \in Claimed : Stays(key) \/ key \in Undropped(i)

\* What the operation does with it.
LEMMA WrittenEffect ==
  ASSUME NEW i \in Ops, Frame(i), Written(i), ToWrite(i)' \subseteq ToWrite(i),
         ToWrite(i)' \subseteq IF at[i] \in {"idPut", "idsPut"} THEN Groups ELSE {},
         \A k \in Records : ReadOf(i, k)' \subseteq ReadOf(i, k) \cup store[k]
  PROVE  Effect(i)
<1>1. ASSUME NEW k \in Records, k \in ToWrite(i), at[i] \in {"idPut", "idsPut"} => k \in Resources
      PROVE  k \notin ToWrite(i)'
  BY <1>1, RecordsSplit
<1> QED BY <1>1 DEF Written, Effect, Writes

\* What is then cached.
LEMMA WrittenCache ==
  ASSUME TypesOK, PhaseOK, CacheOK, NEW i \in Ops, Frame(i), got' = got, Written(i), cache' = cache,
         raced \subseteq raced', spoiled \subseteq spoiled', at'[i] # "fill", i \in Ending',
         \A key \in Undropped(i) : key \in Dropped(i) \/ Stale(key)
  PROVE  CacheOK'
<1>1. Dropped(i)' = Dropped(i)
  BY DroppedKept DEF Frame
<1>2. \A key \in Dropped(i) : Covers(i, key)'
  BY <1>1 DEF Covers
<1>3. \A key : Covers(i, key) => Covers(i, key)'
  BY <1>1 DEF Covers
<1> QED BY <1>2, <1>3, CacheKept DEF Written

\* What a write that brings resources back makes known as stale.
LEMMA RevivedDoes ==
  ASSUME TypesOK, PhaseOK, NEW i \in Active, NEW S, Revived(S), task[i].op # "create",
         (at[i] = "idPut" /\ S = {task[i].r}) \/ (at[i] = "idsPut" /\ S = Existing(got[i].ids))
  PROVE  /\ cache' = cache /\ task' = task /\ got' = got /\ failures' = failures
         /\ met' = met /\ expected' = expected
         /\ raced \subseteq raced' /\ raced' \subseteq Keys /\ spoiled \subseteq spoiled' /\ spoiled' \subseteq Ops
         /\ \A key \in Undropped(i) : key \in Dropped(i) \/ Stale(key)
<1>1. PICK keys : /\ keys = ({"id"} \X {r \in S : store[r] = Absent})
                              \cup (IF {r \in S : store[r] = Absent} = {} THEN {} ELSE {AnyId})
                  /\ raced' = raced \cup keys /\ spoiled' = spoiled \cup Reading(keys)
  BY DEF Revived
<1>2. Undropped(i) = Dropped(i) \cup keys
  <2>1. CASE at[i] = "idPut" /\ S = {task[i].r}
    BY <1>1, <2>1 DEF Undropped
  <2>2. CASE at[i] = "idsPut" /\ S = Existing(got[i].ids)
    BY <1>1, <2>2 DEF Undropped
  <2> QED BY <2>1, <2>2
<1>3. keys \subseteq Keys
  BY <1>2, DroppedAreKeys
<1>4. \A key \in keys : Stale(key)
  BY <1>1 DEF Stale, Reading
<1>5. Reading(keys) \subseteq Ops
  BY DEF Reading
<1> QED BY <1>1, <1>2, <1>3, <1>4, <1>5 DEF Revived, TypesOK

\* What the record of the resource is then.
LEMMA IdWrites ==
  ASSUME TypesOK, PhaseOK, SiblingsOK, NEW i \in Active, at[i] = "idPut", IdWritten(i)
  PROVE  /\ Written(i)
         /\ task[i].op = "join" => task[i].g \in mergeSiblings(store'[task[i].r])
         /\ task[i].op = "leave" /\ got[i].read = store[task[i].r] => task[i].g \notin mergeSiblings(store'[task[i].r])
<1>2. task[i].op \in {"join", "leave", "add"} /\ task[i] \in Tasks /\ i \in Ops
  BY RunningKinds
<1>3. PICK r \in Resources : r = task[i].r
  BY <1>2, TaskKinds
<1>4. r \in Records /\ r \notin Groups /\ Others(r) = Groups /\ \A x : Pair(r, x) = <<r, x>>
  BY RecordsSplit DEF Others, Pair
<1>5. ReadOf(i, r) = got[i].read /\ store[r] \in Reads /\ ReadOf(i, r) \in Reads
  BY <1>2, <1>3, <1>4, ReadAgrees DEF ReadOf
<1>6. PICK groups : groups = mergeSiblings(got[i].read)
  OBVIOUS
<1>7. groups \subseteq Groups
  BY <1>2, <1>4, <1>5, <1>6, ReadLists
<1>8. PICK set \in SUBSET Groups :
        /\ set = CASE task[i].op = "join" -> groups \cup {task[i].g}
                   [] task[i].op = "leave" -> groups \ {task[i].g}
                   [] task[i].op = "add" -> groups
        /\ Put(i, r, set)
  <2>1. PICK set : set = CASE task[i].op = "join" -> groups \cup {task[i].g}
                           [] task[i].op = "leave" -> groups \ {task[i].g}
                           [] task[i].op = "add" -> groups
    OBVIOUS
  <2>2. Put(i, r, set)
    BY <1>3, <1>6, <2>1 DEF IdWritten
  <2>3. set \in SUBSET Groups
    BY <1>2, <1>7, <2>1, TaskKinds
  <2> QED BY <2>1, <2>2, <2>3
<1>9. set \in SUBSET Records
  BY <1>8, RecordsSplit
<1>10. /\ store' \in [Records -> Reads] /\ store'[r] = Write(store[r], ReadOf(i, r), i, set)
       /\ \A l \in Records \ {r} : store'[l] = store[l]
  <2>1. Put(i, r, set)
    BY <1>8
  <2>2. ReadOf(i, r) = got[i].read
    BY <1>5
  <2> QED BY <1>2, <1>4, <1>9, <2>1, <2>2, PutDoes
<1>11. r \in ToWrite(i) /\ Merges(i, r)
  <2>1. r \in ToWrite(i)
    BY <1>2, <1>3 DEF ToWrite
  <2>2. task[i].op # "add" => task[i].g \in Groups /\ Touched(task[i]) = {<<r, task[i].g>>}
    BY <1>2, <1>3, TaskKinds DEF Touched
  <2>3. \A x \in Groups :
          /\ x \in set /\ x \notin groups => task[i].op = "join" /\ <<r, x>> \in Touched(task[i])
          /\ x \notin set /\ x \in groups => task[i].op # "join" /\ <<r, x>> \in Touched(task[i])
    BY <1>2, <1>8, <2>2
  <2>4. mergeSiblings(ReadOf(i, r)) = groups
    BY <1>5, <1>6
  <2>5. set \in SUBSET Others(r) /\ store'[r] = Write(store[r], ReadOf(i, r), i, set)
    BY <1>4, <1>10
  <2>6. \A x \in Others(r) :
          /\ x \in set /\ x \notin mergeSiblings(ReadOf(i, r)) =>
               task[i].op = "join" /\ Pair(r, x) \in Touched(task[i])
          /\ x \notin set /\ x \in mergeSiblings(ReadOf(i, r)) =>
               task[i].op # "join" /\ Pair(r, x) \in Touched(task[i])
    BY <1>4, <2>3, <2>4
  <2> QED BY <1>2, <2>1, <2>5, <2>6 DEF Merges
<1>12. ASSUME NEW key \in Claimed, ~Stays(key) PROVE key \in Undropped(i)
  <2>1. <<"properties", r>> \in Undropped(i)
    BY <1>2, <1>3, DroppedKeys DEF Undropped
  <2>2. store[r] = Absent => <<"id", r>> \in Undropped(i) /\ AnyId \in Undropped(i)
    BY <1>3 DEF Undropped
  <2>3. store'[r] # Absent
    BY <1>2, <1>4, <1>5, <1>9, <1>10, WriteDoes DEF Absent
  <2>4. \A h \in Groups : Members(h)' = Members(h)
    BY <1>4, <1>10, RecordsSplit DEF Members, mergeSiblings
  <2>5. \A q \in Resources : q # r => store'[q] = store[q]
    BY <1>10, RecordsSplit
  <2> QED BY <1>12, <2>1, <2>2, <2>3, <2>4, <2>5, Unfits
<1>13. Written(i)
  BY <1>3, <1>10, <1>11, <1>12 DEF Written
<1>14. task[i].op = "join" => task[i].g \in mergeSiblings(store'[r])
  <2>1. set \subseteq mergeSiblings(store'[r])
    BY <1>2, <1>4, <1>9, <1>10, ReadAgrees, WriteMerges
  <2> QED BY <1>8, <2>1
<1>15. task[i].op = "leave" /\ got[i].read = store[r] => task[i].g \notin mergeSiblings(store'[r])
  <2> SUFFICES ASSUME task[i].op = "leave", got[i].read = store[r] PROVE task[i].g \notin mergeSiblings(store'[r])
    OBVIOUS
  <2>1. ReadOf(i, r) = store[r]
    BY <1>5
  <2>2. mergeSiblings(store'[r]) = set
    BY <1>2, <1>5, <1>9, <1>10, <2>1, WriteReplaces
  <2> QED BY <1>8, <2>2
<1> QED BY <1>3, <1>13, <1>14, <1>15

\* The record of the resource is written.
LEMMA IdPutInv ==
  ASSUME IndexInv, NEW i \in Ops, IdPut(i)
  PROVE  IndexInv'
<1>1. TypesOK /\ PhaseOK /\ SiblingsOK /\ CacheOK /\ OwnOK(i) /\ at[i] = "idPut" /\ i \in Active
  BY DEF IndexInv, IdPut, Active
<1>2. task[i].op \in {"join", "leave", "add"} /\ task[i] \in Tasks
  BY <1>1, RunningKinds
<1>3. task[i].r \in Resources /\ (task[i].op # "add" => task[i].g \in Groups)
  BY <1>2, TaskKinds
<1>4. /\ cache' = cache /\ task' = task /\ got' = got /\ failures' = failures /\ met' = met /\ expected' = expected
      /\ raced \subseteq raced' /\ raced' \subseteq Keys /\ spoiled \subseteq spoiled' /\ spoiled' \subseteq Ops
      /\ \A key \in Undropped(i) : key \in Dropped(i) \/ Stale(key)
  <2>1. Revived({task[i].r})
    BY DEF IdPut
  <2> QED BY <1>1, <1>2, <2>1, RevivedDoes
<1>5. /\ Written(i)
      /\ task[i].op = "join" => task[i].g \in mergeSiblings(store'[task[i].r])
      /\ task[i].op = "leave" /\ got[i].read = store[task[i].r] => task[i].g \notin mergeSiblings(store'[task[i].r])
  BY <1>1, IdWrites DEF IdPut
<1>6. PICK pc \in {"clear", "tree"} : Goto(i, pc) /\ (pc = "clear" <=> task[i].op = "add")
  BY DEF IdPut
<1>7. at' \in [Ops -> Places] /\ at'[i] = pc /\ \A j \in Ops \ {i} : at'[j] = at[j]
  BY <1>1, <1>6, GotoDoes DEF Places
<1>8. Frame(i)
  BY <1>1, <1>4, <1>7 DEF Frame
<1>9. TypesOK'
  BY <1>1, <1>4, <1>5, <1>7 DEF TypesOK, Written
<1>10. PhaseOK'
  <2>1. at'[i] \in Phases(task[i].op) \cup Ended
    BY <1>2, <1>6, <1>7 DEF Phases, Ended
  <2> QED BY <1>1, <1>4, <1>8, <2>1, PhaseKept
<1>11. Effect(i)
  <2>1. ToWrite(i) = IF task[i].op = "add" THEN {task[i].r} ELSE {task[i].r, task[i].g}
    BY <1>1, <1>2 DEF ToWrite
  <2>2. ToWrite(i)' = IF task[i].op = "add" THEN {} ELSE {task[i].g}
    BY <1>4, <1>6, <1>7 DEF ToWrite
  <2>3. \A k \in Records : ReadOf(i, k)' = {}
    BY <1>6, <1>7 DEF ReadOf
  <2> QED BY <1>1, <1>3, <1>5, <1>8, <2>1, <2>2, <2>3, WrittenEffect
<1>12. OwnOK(i)'
  <2>1. task[i].op = "join" => (task[i].g \in Members(task[i].r))'
    BY <1>4, <1>5 DEF Members
  <2>2. task[i].op = "leave" /\ Alone(i) /\ ~Failed(i) => (task[i].g \notin Members(task[i].r))'
    <3>1. task[i].op = "leave" /\ Alone(i) /\ ~Failed(i) => got[i].read = store[task[i].r]
      BY <1>1 DEF OwnOK, LeaveOK
    <3> QED BY <1>4, <1>5, <3>1 DEF Members
  <2>3. (Alone(i)' <=> Alone(i)) /\ (Failed(i)' <=> Failed(i))
    BY <1>4 DEF Alone, Failed
  <2> QED BY <1>2, <1>4, <1>6, <1>7, <2>1, <2>2, <2>3
        DEF OwnOK, JoinOK, LeaveOK, CreateOK, DeleteOK, RemoveOK, BelowOK
<1>13. CacheOK'
  <2>1. i \in Ending' /\ at'[i] # "fill"
    BY <1>2, <1>4, <1>6, <1>7 DEF Ending
  <2> QED BY <1>1, <1>4, <1>5, <1>8, <2>1, WrittenCache
<1> QED BY <1>1, <1>4, <1>9, <1>10, <1>11, <1>12, <1>13, StepInv

\* What the record of the group is then.
LEMMA TreeWrites ==
  ASSUME TypesOK, PhaseOK, SiblingsOK, NEW i \in Active, at[i] = "treePut", TreeWritten(i)
  PROVE  /\ Written(i)
         /\ \A q \in Resources : store'[q] = store[q]
         /\ task[i].op = "join" => task[i].r \in mergeSiblings(store'[task[i].g])
         /\ task[i].op = "leave" /\ got[i].read = store[task[i].g] => task[i].r \notin mergeSiblings(store'[task[i].g])
         /\ task[i].op = "create" /\ got[i].read = store[task[i].g] => \A key \in Claimed : Stays(key)
<1>2. task[i].op \in {"join", "leave", "create"} /\ task[i] \in Tasks /\ i \in Ops
  BY RunningKinds
<1>3. PICK g \in Groups : g = task[i].g
  BY <1>2, TaskKinds
<1>4. g \in Records /\ g \notin Resources /\ Others(g) = Resources /\ \A x : Pair(g, x) = <<x, g>>
  BY RecordsSplit DEF Others, Pair
<1>5. ReadOf(i, g) = got[i].read /\ store[g] \in Reads /\ ReadOf(i, g) \in Reads
  BY <1>2, <1>3, <1>4, ReadAgrees DEF ReadOf
<1>6. PICK resources : resources = mergeSiblings(got[i].read)
  OBVIOUS
<1>7. resources \subseteq Resources
  BY <1>2, <1>4, <1>5, <1>6, ReadLists
<1>8. PICK set \in SUBSET Resources :
        /\ set = CASE task[i].op = "join" -> resources \cup {task[i].r}
                   [] task[i].op = "leave" -> resources \ {task[i].r}
                   [] task[i].op = "create" -> resources
        /\ Put(i, g, set)
  <2>1. PICK set : set = CASE task[i].op = "join" -> resources \cup {task[i].r}
                           [] task[i].op = "leave" -> resources \ {task[i].r}
                           [] task[i].op = "create" -> resources
    OBVIOUS
  <2>2. Put(i, g, set)
    BY <1>3, <1>6, <2>1 DEF TreeWritten
  <2>3. set \in SUBSET Resources
    BY <1>2, <1>7, <2>1, TaskKinds
  <2> QED BY <2>1, <2>2, <2>3
<1>9. set \in SUBSET Records
  BY <1>8, RecordsSplit
<1>10. /\ store' \in [Records -> Reads] /\ store'[g] = Write(store[g], ReadOf(i, g), i, set)
       /\ \A l \in Records \ {g} : store'[l] = store[l]
  <2>1. Put(i, g, set)
    BY <1>8
  <2>2. ReadOf(i, g) = got[i].read
    BY <1>5
  <2> QED BY <1>2, <1>4, <1>9, <2>1, <2>2, PutDoes
<1>11. g \in ToWrite(i) /\ Merges(i, g)
  <2>1. g \in ToWrite(i)
    BY <1>2, <1>3 DEF ToWrite
  <2>2. task[i].op # "create" => task[i].r \in Resources /\ Touched(task[i]) = {<<task[i].r, g>>}
    BY <1>2, <1>3, TaskKinds DEF Touched
  <2>3. \A x \in Resources :
          /\ x \in set /\ x \notin resources => task[i].op = "join" /\ <<x, g>> \in Touched(task[i])
          /\ x \notin set /\ x \in resources => task[i].op # "join" /\ <<x, g>> \in Touched(task[i])
    BY <1>2, <1>8, <2>2
  <2>4. mergeSiblings(ReadOf(i, g)) = resources
    BY <1>5, <1>6
  <2>5. set \in SUBSET Others(g) /\ store'[g] = Write(store[g], ReadOf(i, g), i, set)
    BY <1>4, <1>10
  <2>6. \A x \in Others(g) :
          /\ x \in set /\ x \notin mergeSiblings(ReadOf(i, g)) =>
               task[i].op = "join" /\ Pair(g, x) \in Touched(task[i])
          /\ x \notin set /\ x \in mergeSiblings(ReadOf(i, g)) =>
               task[i].op # "join" /\ Pair(g, x) \in Touched(task[i])
    BY <1>4, <2>3, <2>4
  <2> QED BY <1>2, <2>1, <2>5, <2>6 DEF Merges
<1>12. got[i].read = store[g] => mergeSiblings(store'[g]) = set
  <2>1. got[i].read = store[g] => store'[g] = Write(store[g], store[g], i, set)
    BY <1>5, <1>10
  <2> QED BY <1>2, <1>5, <1>9, <2>1, WriteReplaces
<1>13. \A q \in Resources : store'[q] = store[q]
  BY <1>4, <1>10, RecordsSplit
<1>14. ASSUME NEW key \in Claimed, ~Stays(key)
       PROVE  /\ \E q \in Groups : key = <<"group", q>> /\ <<q, g>> \in Path
              /\ Members(g)' # Members(g)
  <2>1. PICK q \in Groups, h \in Groups : key = <<"group", q>> /\ <<q, h>> \in Path /\ Members(h)' # Members(h)
    BY <1>13, <1>14, Unfits
  <2>2. h = g
    BY <1>10, <2>1, RecordsSplit DEF Members, mergeSiblings
  <2> QED BY <2>1, <2>2
<1>15. ASSUME NEW key \in Claimed, ~Stays(key) PROVE key \in Undropped(i)
  <2>1. PICK q \in Groups : key = <<"group", q>> /\ <<q, g>> \in Path
    BY <1>14, <1>15
  <2>2. CASE task[i].op = "create"
    <3>1. key \in GroupKeys(g)
      BY <2>1 DEF GroupKeys
    <3> QED BY <1>3, <2>2, <3>1 DEF Undropped
  <2>3. CASE task[i].op # "create"
    <3>1. key \in Dropped(i)
      BY <1>2, <1>3, <2>1, <2>3, DroppedKeys
    <3> QED BY <3>1 DEF Undropped
  <2> QED BY <2>2, <2>3
<1>16. Written(i)
  BY <1>10, <1>11, <1>15 DEF Written
<1>17. task[i].op = "join" => task[i].r \in mergeSiblings(store'[g])
  <2>1. set \subseteq mergeSiblings(store'[g])
    BY <1>2, <1>4, <1>9, <1>10, ReadAgrees, WriteMerges
  <2> QED BY <1>8, <2>1
<1>18. task[i].op = "leave" /\ got[i].read = store[g] => task[i].r \notin mergeSiblings(store'[g])
  BY <1>8, <1>12
<1>19. task[i].op = "create" /\ got[i].read = store[g] => \A key \in Claimed : Stays(key)
  <2> SUFFICES ASSUME task[i].op = "create", got[i].read = store[g], NEW key \in Claimed, ~Stays(key) PROVE FALSE
    OBVIOUS
  <2>1. mergeSiblings(store'[g]) = mergeSiblings(store[g])
    BY <1>6, <1>8, <1>12
  <2> QED BY <1>14, <2>1 DEF Members
<1> QED BY <1>3, <1>13, <1>16, <1>17, <1>18, <1>19

\* The record of the group is written.
LEMMA TreePutInv ==
  ASSUME IndexInv, NEW i \in Ops, TreePut(i)
  PROVE  IndexInv'
<1>1. /\ TypesOK /\ PhaseOK /\ SiblingsOK /\ CacheOK /\ OwnOK(i) /\ at[i] = "treePut" /\ i \in Active
      /\ cache' = cache /\ task' = task /\ got' = got /\ failures' = failures /\ met' = met /\ expected' = expected
  BY DEF IndexInv, TreePut, Active
<1>2. task[i].op \in {"join", "leave", "create"} /\ task[i] \in Tasks
  BY <1>1, RunningKinds
<1>3. PICK g \in Groups : g = task[i].g
  BY <1>2, TaskKinds
<1>4. /\ Written(i) /\ \A q \in Resources : store'[q] = store[q]
      /\ task[i].op = "join" => task[i].r \in mergeSiblings(store'[g])
      /\ task[i].op = "leave" /\ got[i].read = store[g] => task[i].r \notin mergeSiblings(store'[g])
      /\ task[i].op = "create" /\ got[i].read = store[g] => \A key \in Claimed : Stays(key)
  BY <1>1, <1>3, TreeWrites DEF TreePut
<1>5. PICK pc \in {"done", "clear"} : Goto(i, pc) /\ (pc = "done" <=> task[i].op = "create")
  BY <1>3 DEF TreePut
<1>6. at' \in [Ops -> Places] /\ at'[i] = pc /\ \A j \in Ops \ {i} : at'[j] = at[j]
  BY <1>1, <1>5, GotoDoes DEF Places
<1>7. Frame(i)
  BY <1>1, <1>6 DEF Frame
<1>8. /\ task[i].op = "create" /\ ~Alone(i) =>
           raced' = raced \cup GroupKeys(g) /\ spoiled' = spoiled \cup Reading(GroupKeys(g))
      /\ ~(task[i].op = "create" /\ ~Alone(i)) => raced' = raced /\ spoiled' = spoiled
  BY <1>3 DEF TreePut, BroughtBack, Alone
<1>9. TypesOK'
  <2>1. GroupKeys(g) \subseteq Keys
    BY DEF GroupKeys, Keys
  <2>2. Reading(GroupKeys(g)) \subseteq Ops
    BY DEF Reading
  <2>3. raced' \subseteq Keys /\ spoiled' \subseteq Ops
    BY <1>1, <1>8, <2>1, <2>2 DEF TypesOK
  <2> QED BY <1>1, <1>4, <1>6, <2>3 DEF TypesOK, Written
<1>10. PhaseOK'
  <2>1. at'[i] \in Phases(task[i].op) \cup Ended
    BY <1>2, <1>5, <1>6 DEF Phases, Ended
  <2> QED BY <1>1, <1>7, <2>1, PhaseKept
<1>11. Effect(i)
  <2>1. ToWrite(i)' = {}
    BY <1>5, <1>6 DEF ToWrite
  <2>2. \A k \in Records : ReadOf(i, k)' = {}
    BY <1>5, <1>6 DEF ReadOf
  <2> QED BY <1>4, <1>7, <2>1, <2>2, WrittenEffect
<1>12. OwnOK(i)'
  <2>1. task[i].op = "join" => (task[i].r \in Members(task[i].g))'
    BY <1>1, <1>3, <1>4 DEF Members
  <2>2. task[i].op = "leave" /\ Alone(i) /\ ~Failed(i) => (task[i].r \notin Members(task[i].g))'
    <3>1. task[i].op = "leave" /\ Alone(i) /\ ~Failed(i) => got[i].read = store[g]
      BY <1>1, <1>3 DEF OwnOK, LeaveOK
    <3> QED BY <1>1, <1>3, <1>4, <3>1 DEF Members
  <2>3. (Alone(i)' <=> Alone(i)) /\ (Failed(i)' <=> Failed(i)) /\ (Undisturbed(i)' <=> Undisturbed(i))
    BY <1>1 DEF Alone, Failed, Undisturbed
  <2>4. task[i].op \in {"join", "leave"} => ((task[i].g \in Members(task[i].r))' <=> task[i].g \in Members(task[i].r))
    <3> SUFFICES ASSUME task[i].op \in {"join", "leave"}
                 PROVE  (task[i].g \in Members(task[i].r))' <=> task[i].g \in Members(task[i].r)
      OBVIOUS
    <3>1. PICK r \in Resources : r = task[i].r
      BY <1>2, TaskKinds
    <3>2. Members(r)' = Members(r) /\ r = task'[i].r
      BY <1>1, <1>4, <3>1 DEF Members, mergeSiblings
    <3> QED BY <1>1, <3>1, <3>2
  <2>5. CASE task[i].op = "join"
    BY <1>1, <1>5, <1>6, <2>1, <2>3, <2>4, <2>5 DEF OwnOK, JoinOK, LeaveOK, CreateOK, DeleteOK, RemoveOK, BelowOK
  <2>6. CASE task[i].op = "leave"
    BY <1>1, <1>5, <1>6, <2>2, <2>3, <2>4, <2>6 DEF OwnOK, JoinOK, LeaveOK, CreateOK, DeleteOK, RemoveOK, BelowOK
  <2>7. CASE task[i].op = "create"
    BY <1>5, <1>6, <2>7 DEF OwnOK, Active
  <2> QED BY <1>2, <2>5, <2>6, <2>7
<1>13. CacheOK'
  <2>1. raced \subseteq raced' /\ spoiled \subseteq spoiled' /\ at'[i] # "fill"
    BY <1>5, <1>6, <1>8
  <2>2. CASE task[i].op = "create"
    <3>1. i \notin Ending
      BY <2>2 DEF Ending
    <3>2. Undropped(i) = GroupKeys(g)
      BY <1>1, <1>3, <2>2 DEF Undropped, Dropped
    <3>3. ~Alone(i) => \A key \in GroupKeys(g) : Stale(key)
      BY <1>8, <2>2 DEF Stale, Reading
    <3>4. Alone(i) => \A key \in Claimed : Stays(key)
      BY <1>1, <1>3, <1>4, <2>2 DEF OwnOK, CreateOK
    <3>5. \A key \in Claimed : Stays(key) \/ Stale(key)
      BY <1>4, <3>2, <3>3, <3>4 DEF Written
    <3> QED BY <1>1, <1>7, <2>1, <3>1, <3>5, CacheKept DEF Covers
  <2>3. CASE task[i].op # "create"
    <3>1. i \in Ending'
      BY <1>1, <1>5, <1>6, <2>3 DEF Ending
    <3>2. Undropped(i) \subseteq Dropped(i)
      BY <1>1, <2>3 DEF Undropped
    <3> QED BY <1>1, <1>4, <1>7, <2>1, <3>1, <3>2, WrittenCache
  <2> QED BY <2>2, <2>3
<1> QED BY <1>1, <1>9, <1>10, <1>11, <1>12, <1>13, StepInv

\* What the records of the resources are then.
LEMMA IdsWrites ==
  ASSUME TypesOK, PhaseOK, SiblingsOK, NEW i \in Active, at[i] = "idsPut", IdsWritten(i)
  PROVE  /\ Written(i)
         /\ \A r \in DOMAIN got[i].ids : got[i].ids[r] = store[r] => task[i].g \notin mergeSiblings(store'[r])
<1>2. task[i].op = "delete" /\ task[i] \in Tasks /\ i \in Ops
  BY RunningKinds
<1>3. PICK g \in Groups : g = task[i].g
  BY <1>2, TaskKinds
<1>4. PICK ids \in IdReads : ids = got[i].ids
  BY <1>2 DEF TypesOK, Found
<1>5. DOMAIN ids \subseteq Resources /\ \A k \in DOMAIN ids : ids[k] \in Reads
  BY DEF IdReads
<1>6. PICK known : known = {k \in DOMAIN ids : ids[k] # Absent}
  OBVIOUS
<1>7. \A k \in known : k \in Resources /\ k \in Records /\ k \in DOMAIN ids
  BY <1>5, <1>6, RecordsSplit
<1>8. store' = [k \in Records |-> IF k \in known THEN Write(store[k], ids[k], i, mergeSiblings(ids[k]) \ {g}) ELSE store[k]]
  BY <1>3, <1>4, <1>6 DEF IdsWritten
<1>9. \A k \in DOMAIN ids : ReadOf(i, k) = ids[k]
  BY <1>4 DEF ReadOf
<1>10. ASSUME NEW k \in known
       PROVE  /\ ReadOf(i, k) = ids[k] /\ store[k] \in Reads /\ ids[k] \in Reads
              /\ mergeSiblings(ids[k]) \subseteq Groups
              /\ mergeSiblings(ids[k]) \ {g} \in SUBSET Records
              /\ store'[k] = Write(store[k], ids[k], i, mergeSiblings(ids[k]) \ {g})
              /\ store'[k] \in Reads /\ store'[k] # Absent
  <2>1. ReadOf(i, k) = ids[k] /\ store[k] \in Reads /\ ids[k] \in Reads
    BY <1>5, <1>7, <1>9 DEF TypesOK
  <2>2. mergeSiblings(ids[k]) \subseteq Groups
    BY <1>2, <1>7, <2>1, ReadLists DEF Others
  <2>3. mergeSiblings(ids[k]) \ {g} \in SUBSET Records
    BY <2>2, RecordsSplit
  <2>4. store'[k] = Write(store[k], ids[k], i, mergeSiblings(ids[k]) \ {g})
    BY <1>7, <1>8
  <2>5. PICK set \in SUBSET Records : set = mergeSiblings(ids[k]) \ {g}
    BY <2>3
  <2>6. Write(store[k], ids[k], i, set) \in Reads /\ Write(store[k], ids[k], i, set) # Absent
    BY <1>2, <2>1, WriteDoes DEF Absent
  <2> QED BY <2>1, <2>2, <2>3, <2>4, <2>5, <2>6
<1>11. \A k \in Records \ known : store'[k] = store[k]
  BY <1>8
<1>12. store' \in [Records -> Reads]
  <2>1. \A k \in Records : store'[k] \in Reads
    BY <1>10, <1>11 DEF TypesOK
  <2> QED BY <1>8, <2>1
<1>13. ASSUME NEW k \in known PROVE Merges(i, k)
  <2>1. Touched(task[i]) = Resources \X {h \in Groups : <<g, h>> \in Path}
    BY <1>2, <1>3 DEF Touched
  <2>2. <<k, g>> \in Touched(task[i])
    BY <1>7, <2>1, IndexAssumption
  <2>3. Others(k) = Groups /\ \A x : Pair(k, x) = <<k, x>>
    BY <1>7 DEF Others, Pair
  <2>4. PICK set \in SUBSET Others(k) : set = mergeSiblings(ReadOf(i, k)) \ {g}
    BY <1>10, <2>3
  <2>5. store'[k] = Write(store[k], ReadOf(i, k), i, set)
    BY <1>10, <2>4
  <2>6. \A x \in Others(k) :
          /\ x \in set /\ x \notin mergeSiblings(ReadOf(i, k)) =>
               task[i].op = "join" /\ Pair(k, x) \in Touched(task[i])
          /\ x \notin set /\ x \in mergeSiblings(ReadOf(i, k)) =>
               task[i].op # "join" /\ Pair(k, x) \in Touched(task[i])
    BY <1>2, <2>2, <2>3, <2>4
  <2> QED BY <1>2, <2>5, <2>6 DEF Merges
<1>14. ASSUME NEW key \in Claimed, ~Stays(key) PROVE key \in Undropped(i)
  <2>1. Existing(got[i].ids) = known
    BY <1>4, <1>6 DEF Existing
  <2>2. \A k \in known : store[k] = Absent => <<"id", k>> \in Undropped(i) /\ AnyId \in Undropped(i)
    BY <2>1 DEF Undropped
  <2>3. \A k \in known : <<"properties", k>> \in Undropped(i)
    BY <1>2, <1>4, <1>7, DroppedKeys DEF Undropped
  <2>4. \A h \in Groups : Members(h)' = Members(h)
    BY <1>7, <1>11, RecordsSplit DEF Members, mergeSiblings
  <2>5. \A q \in Resources : q \notin known => store'[q] = store[q]
    BY <1>11, RecordsSplit
  <2>6. \A q \in known : store'[q] # Absent
    BY <1>10
  <2> QED BY <1>14, <2>2, <2>3, <2>4, <2>5, <2>6, Unfits
<1>15. Written(i)
  <2>1. ToWrite(i) = Records
    BY DEF ToWrite
  <2> QED BY <1>7, <1>11, <1>12, <1>13, <1>14, <2>1 DEF Written
<1>16. ASSUME NEW r \in DOMAIN ids, ids[r] = store[r] PROVE g \notin mergeSiblings(store'[r])
  <2>1. CASE r \in known
    <3>1. PICK set \in SUBSET Records : set = mergeSiblings(ids[r]) \ {g}
      BY <1>10, <2>1
    <3>2. store'[r] = Write(store[r], store[r], i, set) /\ store[r] \in Reads
      BY <1>10, <1>16, <2>1, <3>1
    <3>3. mergeSiblings(store'[r]) = set
      BY <1>2, <3>2, WriteReplaces
    <3> QED BY <3>1, <3>3
  <2>2. CASE r \notin known
    <3>1. store'[r] = Absent
      BY <1>5, <1>6, <1>11, <1>16, <2>2, RecordsSplit
    <3> QED BY <3>1, AbsentMembers
  <2> QED BY <2>1, <2>2
<1> QED BY <1>3, <1>4, <1>15, <1>16

\* deleteGroup takes the group out of the records of the resources.
LEMMA DeleteWritesIdsInv ==
  ASSUME IndexInv, NEW i \in Ops, DeleteWritesIds(i)
  PROVE  IndexInv'
<1>1. TypesOK /\ PhaseOK /\ SiblingsOK /\ CacheOK /\ OwnOK(i) /\ at[i] = "idsPut" /\ i \in Active
  BY DEF IndexInv, DeleteWritesIds, Active
<1>2. task[i].op = "delete" /\ task[i] \in Tasks
  BY <1>1, RunningKinds
<1>3. /\ cache' = cache /\ task' = task /\ got' = got /\ failures' = failures /\ met' = met /\ expected' = expected
      /\ raced \subseteq raced' /\ raced' \subseteq Keys /\ spoiled \subseteq spoiled' /\ spoiled' \subseteq Ops
      /\ \A key \in Undropped(i) : key \in Dropped(i) \/ Stale(key)
  <2>1. PICK S : S = Existing(got[i].ids) /\ Revived(S)
    BY DEF DeleteWritesIds
  <2> QED BY <1>1, <1>2, <2>1, RevivedDoes
<1>4. /\ Written(i)
      /\ \A r \in DOMAIN got[i].ids : got[i].ids[r] = store[r] => task[i].g \notin mergeSiblings(store'[r])
  BY <1>1, IdsWrites DEF DeleteWritesIds
<1>5. Goto(i, "children")
  BY DEF DeleteWritesIds
<1>6. at' \in [Ops -> Places] /\ at'[i] = "children" /\ \A j \in Ops \ {i} : at'[j] = at[j]
  BY <1>1, <1>5, GotoDoes DEF Places
<1>7. Frame(i)
  BY <1>1, <1>3, <1>6 DEF Frame
<1>8. TypesOK'
  BY <1>1, <1>3, <1>4, <1>6 DEF TypesOK, Written
<1>9. PhaseOK'
  <2>1. at'[i] \in Phases(task[i].op) \cup Ended
    BY <1>2, <1>6 DEF Phases
  <2> QED BY <1>1, <1>3, <1>7, <2>1, PhaseKept
<1>10. Effect(i)
  <2>1. ToWrite(i) = Records /\ ToWrite(i)' = Groups
    BY <1>1, <1>6 DEF ToWrite
  <2>2. \A k \in Records : ReadOf(i, k)' = {}
    BY <1>6 DEF ReadOf
  <2> QED BY <1>1, <1>4, <1>7, <2>1, <2>2, RecordsSplit, WrittenEffect
<1>11. OwnOK(i)'
  <2>1. Alone(i)' <=> Alone(i)
    BY <1>3 DEF Alone
  <2>2. Alone(i) => \A r \in DOMAIN got'[i].ids : task'[i].g \notin Members(r)'
    <3>1. Alone(i) => \A r \in DOMAIN got[i].ids : got[i].ids[r] = store[r]
      BY <1>1, <1>2 DEF OwnOK, DeleteOK
    <3> QED BY <1>3, <1>4, <3>1 DEF Members
  <2> QED BY <1>2, <1>3, <1>6, <2>1, <2>2 DEF OwnOK, JoinOK, LeaveOK, CreateOK, DeleteOK, RemoveOK, BelowOK
<1>12. CacheOK'
  <2>1. i \in Ending' /\ at'[i] # "fill"
    BY <1>2, <1>3, <1>6 DEF Ending
  <2> QED BY <1>1, <1>3, <1>4, <1>7, <2>1, WrittenCache
<1> QED BY <1>1, <1>3, <1>8, <1>9, <1>10, <1>11, <1>12, StepInv

\* What a delete has achieved with the resources, while it writes the groups.
LEMMA DeleteHolds ==
  ASSUME TypesOK, NEW i \in Active, OwnOK(i), task[i].op = "delete", task' = task, met' = met, got' = got,
         at[i] \in {"parentPut", "erase"}, at'[i] \in {"erase", "clear"},
         \A q \in Resources : store'[q] = store[q],
         at'[i] = "clear" => store'[task[i].g] = Absent
  PROVE  OwnOK(i)'
<1>1. Alone(i)' <=> Alone(i)
  BY DEF Alone
<1>2. Alone(i) => \A r \in DOMAIN got[i].ids : task[i].g \notin Members(r)
  BY DEF OwnOK, DeleteOK
<1>3. \A q \in Resources : Members(q)' = Members(q)
  BY DEF Members, mergeSiblings
<1>4. DOMAIN got[i].ids \subseteq Resources
  BY DEF TypesOK, Found, IdReads, Active
<1>5. Alone(i) => \A r \in DOMAIN got'[i].ids : task'[i].g \notin Members(r)'
  BY <1>2, <1>3, <1>4
<1>6. at'[i] = "erase" => DOMAIN got'[i].groups \subseteq Below(task[i].g)'
  BY DEF OwnOK, BelowOK, Below
<1> QED BY <1>1, <1>5, <1>6 DEF OwnOK, JoinOK, LeaveOK, CreateOK, DeleteOK, RemoveOK, BelowOK

\* What the record of the group above is then.
LEMMA ParentWrites ==
  ASSUME TypesOK, PhaseOK, SiblingsOK, NEW i \in Active, at[i] = "parentPut", ParentWritten(i)
  PROVE  Written(i) /\ \A q \in Resources : store'[q] = store[q]
<1>2. task[i].op = "delete" /\ task[i] \in Tasks /\ i \in Ops
  BY RunningKinds
<1>3. PICK g \in Groups : g = task[i].g
  BY <1>2, TaskKinds
<1>4. PICK p \in Parents(g) : Put(i, p, mergeSiblings(got[i].read))
  BY <1>3 DEF ParentWritten
<1>5. p \in Groups /\ p \in Records /\ p \notin Resources /\ <<p, g>> \in Path
  BY ParentIsOne, RecordsSplit
<1>6. ReadOf(i, p) = got[i].read /\ store[p] \in Reads /\ ReadOf(i, p) \in Reads
  BY <1>2, <1>3, <1>5, ReadAgrees DEF ReadOf
<1>7. Others(p) = Resources /\ \A x : Pair(p, x) = <<x, p>>
  BY <1>5 DEF Others, Pair
<1>8. PICK set \in SUBSET Resources : set = mergeSiblings(ReadOf(i, p))
  BY <1>2, <1>5, <1>7, ReadLists
<1>9. Put(i, p, set) /\ set \in SUBSET Records
  BY <1>4, <1>6, <1>8, RecordsSplit
<1>10. /\ store' \in [Records -> Reads] /\ store'[p] = Write(store[p], ReadOf(i, p), i, set)
       /\ \A l \in Records \ {p} : store'[l] = store[l]
  <2>1. /\ store' \in [Records -> Reads] /\ store'[p] = Write(store[p], got[i].read, i, set)
        /\ \A l \in Records \ {p} : store'[l] = store[l]
    BY <1>2, <1>5, <1>9, PutDoes
  <2> QED BY <1>6, <2>1
<1>11. p \in ToWrite(i) /\ Merges(i, p)
  <2>1. p \in ToWrite(i) /\ set \in SUBSET Others(p)
    BY <1>5, <1>7 DEF ToWrite
  <2> QED BY <1>2, <1>8, <1>10, <2>1 DEF Merges
<1>12. \A r \in Resources : store'[r] = store[r]
  BY <1>5, <1>10, RecordsSplit
<1>13. ASSUME NEW key \in Claimed, ~Stays(key) PROVE key \in Undropped(i)
  <2>1. PICK q \in Groups, h \in Groups : key = <<"group", q>> /\ <<q, h>> \in Path /\ Members(h)' # Members(h)
    BY <1>12, <1>13, Unfits
  <2>2. h = p
    BY <1>10, <2>1, RecordsSplit DEF Members, mergeSiblings
  <2>3. <<q, g>> \in Path
    BY <1>5, <2>1, <2>2, IndexAssumption
  <2>4. key \in Dropped(i)
    BY <1>2, <1>3, <2>1, <2>3, DroppedKeys
  <2> QED BY <2>4 DEF Undropped
<1> QED BY <1>10, <1>11, <1>12, <1>13 DEF Written

\* It writes back the group above.
LEMMA DeleteWritesParentInv ==
  ASSUME IndexInv, NEW i \in Ops, DeleteWritesParent(i)
  PROVE  IndexInv'
<1>1. /\ TypesOK /\ PhaseOK /\ SiblingsOK /\ CacheOK /\ OwnOK(i) /\ at[i] = "parentPut" /\ i \in Active
      /\ cache' = cache /\ task' = task /\ got' = got /\ failures' = failures /\ met' = met /\ expected' = expected
      /\ raced' = raced /\ spoiled' = spoiled /\ Goto(i, "erase")
  BY DEF IndexInv, DeleteWritesParent, Active, Same
<1>2. task[i].op = "delete" /\ task[i] \in Tasks
  BY <1>1, RunningKinds
<1>3. Written(i) /\ \A q \in Resources : store'[q] = store[q]
  BY <1>1, ParentWrites DEF DeleteWritesParent
<1>4. at' \in [Ops -> Places] /\ at'[i] = "erase" /\ \A j \in Ops \ {i} : at'[j] = at[j]
  BY <1>1, GotoDoes DEF Places
<1>5. Frame(i)
  BY <1>1, <1>4 DEF Frame
<1>6. TypesOK'
  BY <1>1, <1>3, <1>4 DEF TypesOK, Written
<1>7. PhaseOK'
  <2>1. at'[i] \in Phases(task[i].op) \cup Ended
    BY <1>2, <1>4 DEF Phases
  <2> QED BY <1>1, <1>5, <2>1, PhaseKept
<1>8. Effect(i)
  <2>1. ToWrite(i)' = {}
    BY <1>4 DEF ToWrite
  <2>2. \A k \in Records : ReadOf(i, k)' = {}
    BY <1>4 DEF ReadOf
  <2> QED BY <1>3, <1>5, <2>1, <2>2, WrittenEffect
<1>9. OwnOK(i)'
  BY <1>1, <1>2, <1>3, <1>4, DeleteHolds
<1>10. CacheOK'
  <2>1. i \in Ending' /\ at'[i] # "fill"
    BY <1>1, <1>2, <1>4 DEF Ending
  <2>2. Undropped(i) \subseteq Dropped(i)
    BY <1>1, <1>2 DEF Undropped
  <2> QED BY <1>1, <1>3, <1>5, <2>1, <2>2, WrittenCache
<1> QED BY <1>1, <1>6, <1>7, <1>8, <1>9, <1>10, StepInv

\* What of the groups is then left.
LEMMA GroupsErases ==
  ASSUME TypesOK, PhaseOK, SiblingsOK, NEW i \in Active, OwnOK(i), at[i] = "erase", GroupsErased(i)
  PROVE  Written(i) /\ (\A q \in Resources : store'[q] = store[q]) /\ store'[task[i].g] = Absent
<1>2. task[i].op = "delete" /\ task[i] \in Tasks /\ i \in Ops
  BY RunningKinds
<1>3. PICK g \in Groups : g = task[i].g
  BY <1>2, TaskKinds
<1>4. PICK below \in SUBSET Groups : below = {g} \cup DOMAIN got[i].groups /\ \A h \in below : <<g, h>> \in Path
  <2>1. DOMAIN got[i].groups \subseteq Below(g)
    BY <1>3 DEF OwnOK, BelowOK
  <2>2. PICK below : below = {g} \cup DOMAIN got[i].groups
    OBVIOUS
  <2>3. below \in SUBSET Groups /\ \A h \in below : <<g, h>> \in Path
    BY <2>1, <2>2, IndexAssumption DEF Below
  <2> QED BY <2>2, <2>3
<1>5. g \in Records /\ below \subseteq Records /\ below \cap Resources = {}
  BY RecordsSplit
<1>6. /\ store'[g] = Absent
      /\ \A k \in below : store'[k] \subseteq store[k]
      /\ \A k \in Records \ below : store'[k] = store[k]
      /\ store' = [k \in Records |-> store'[k]]
  <2>1. PICK less : less = [k \in DOMAIN got[i].groups |->
                              {s \in store[k] : \A t \in got[i].groups[k] : s.by # t.by}]
    OBVIOUS
  <2>2. store' = [k \in Records |->
           IF k = g THEN Absent ELSE IF k \in DOMAIN got[i].groups THEN less[k] ELSE store[k]]
    BY <1>3, <2>1 DEF GroupsErased
  <2>3. \A k \in DOMAIN got[i].groups : less[k] \subseteq store[k]
    BY <2>1
  <2> QED BY <1>4, <1>5, <2>2, <2>3 DEF Absent
<1>7. store' \in [Records -> Reads]
  <2>1. \A k \in Records : store'[k] \in Reads
    BY <1>6 DEF TypesOK, Reads
  <2> QED BY <1>6, <2>1
<1>8. ASSUME NEW k \in below PROVE Erases(i, k)
  <2>1. Touched(task[i]) = Resources \X {h \in Groups : <<g, h>> \in Path}
    BY <1>2, <1>3 DEF Touched
  <2>2. Others(k) = Resources /\ \A x : Pair(k, x) = <<x, k>>
    BY <1>5 DEF Others, Pair
  <2>3. \A x \in Resources : <<x, k>> \in Touched(task[i])
    BY <1>4, <2>1
  <2> QED BY <1>2, <1>6, <2>2, <2>3 DEF Erases
<1>9. \A r \in Resources : store'[r] = store[r]
  BY <1>5, <1>6, RecordsSplit
<1>10. ASSUME NEW key \in Claimed, ~Stays(key) PROVE key \in Undropped(i)
  <2>1. PICK q \in Groups, h \in Groups : key = <<"group", q>> /\ <<q, h>> \in Path /\ Members(h)' # Members(h)
    BY <1>9, <1>10, Unfits
  <2>2. h \in below
    BY <1>6, <2>1, RecordsSplit DEF Members, mergeSiblings
  <2>3. <<q, h>> \in Path /\ <<g, h>> \in Path
    BY <1>4, <2>1, <2>2
  <2>4. <<q, g>> \in Path \/ <<g, q>> \in Text
    BY <2>3, IndexAssumption
  <2>5. key \in Dropped(i)
    BY <1>2, <1>3, <2>1, <2>4, DroppedKeys
  <2> QED BY <2>5 DEF Undropped
<1> QED BY <1>3, <1>6, <1>7, <1>8, <1>9, <1>10 DEF Written

\* And deletes the group with those below it.
LEMMA DeleteErasesInv ==
  ASSUME IndexInv, NEW i \in Ops, DeleteErases(i)
  PROVE  IndexInv'
<1>1. /\ TypesOK /\ PhaseOK /\ SiblingsOK /\ CacheOK /\ OwnOK(i) /\ at[i] = "erase" /\ i \in Active
      /\ cache' = cache /\ task' = task /\ got' = got /\ failures' = failures /\ met' = met /\ expected' = expected
      /\ raced' = raced /\ spoiled' = spoiled /\ Goto(i, "clear")
  BY DEF IndexInv, DeleteErases, Active, Same
<1>2. task[i].op = "delete" /\ task[i] \in Tasks
  BY <1>1, RunningKinds
<1>3. Written(i) /\ (\A q \in Resources : store'[q] = store[q]) /\ store'[task[i].g] = Absent
  BY <1>1, GroupsErases DEF DeleteErases
<1>4. at' \in [Ops -> Places] /\ at'[i] = "clear" /\ \A j \in Ops \ {i} : at'[j] = at[j]
  BY <1>1, GotoDoes DEF Places
<1>5. Frame(i)
  BY <1>1, <1>4 DEF Frame
<1>6. TypesOK'
  BY <1>1, <1>3, <1>4 DEF TypesOK, Written
<1>7. PhaseOK'
  <2>1. at'[i] \in Phases(task[i].op) \cup Ended
    BY <1>2, <1>4 DEF Phases
  <2> QED BY <1>1, <1>5, <2>1, PhaseKept
<1>8. Effect(i)
  <2>1. ToWrite(i)' = {}
    BY <1>4 DEF ToWrite
  <2>2. \A k \in Records : ReadOf(i, k)' = {}
    BY <1>4 DEF ReadOf
  <2> QED BY <1>3, <1>5, <2>1, <2>2, WrittenEffect
<1>9. OwnOK(i)'
  BY <1>1, <1>2, <1>3, <1>4, DeleteHolds
<1>10. CacheOK'
  <2>1. i \in Ending' /\ at'[i] # "fill"
    BY <1>1, <1>2, <1>4 DEF Ending
  <2>2. Undropped(i) \subseteq Dropped(i)
    BY <1>1, <1>2 DEF Undropped
  <2> QED BY <1>1, <1>3, <1>5, <2>1, <2>2, WrittenCache
<1> QED BY <1>1, <1>6, <1>7, <1>8, <1>9, <1>10, StepInv

\* What a group that is left leaves of the groups to leave.
LEMMA WithoutDoes ==
  ASSUME NEW groups \in GroupReads, NEW g
  PROVE  /\ Without(groups, g) \in GroupReads /\ DOMAIN Without(groups, g) = DOMAIN groups \ {g}
         /\ \A h \in DOMAIN groups \ {g} : Without(groups, g)[h] = groups[h]
<1>1. PICK S \in SUBSET Groups : groups \in [S -> Reads \cup {Unread}]
  BY DEF GroupReads
<1>2. S \ {g} \in SUBSET Groups /\ Without(groups, g) \in [S \ {g} -> Reads \cup {Unread}]
  BY <1>1 DEF Without
<1>3. Without(groups, g) \in GroupReads
  BY <1>2, ReadsMake
<1> QED BY <1>3 DEF Without

\* What a step of removeResource leaves to do.
LEMMA LeftDoes ==
  ASSUME TypesOK, NEW i \in Ops, NEW ids \in IdReads, NEW groups \in GroupReads, NEW failed \in BOOLEAN,
         Left(i, ids, groups, failed)
  PROVE  /\ got' \in [Ops -> Found] /\ \A j \in Ops \ {i} : got'[j] = got[j]
         /\ got'[i].ids = ids /\ got'[i].groups = groups /\ got'[i].read = got[i].read /\ got'[i].failed = failed
         /\ at' \in [Ops -> Places] /\ \A j \in Ops \ {i} : at'[j] = at[j]
         /\ at'[i] = IF ids = <<>> /\ groups = <<>> THEN IF failed THEN "done" ELSE "clear" ELSE "purge"
<1>1. PICK new : new = [got[i] EXCEPT !.ids = ids, !.groups = groups, !.failed = failed]
  OBVIOUS
<1>2. /\ new \in Found /\ new.ids = ids /\ new.groups = groups /\ new.read = got[i].read /\ new.failed = failed
  <2>1. PICK old \in Found : old = got[i]
    BY DEF TypesOK
  <2> QED BY <1>1, <2>1 DEF Found
<1>3. got' = [got EXCEPT ![i] = new]
  BY <1>1 DEF Left
<1>4. /\ got' \in [Ops -> Found] /\ got'[i] = new /\ \A j \in Ops \ {i} : got'[j] = got[j]
  BY <1>2, <1>3 DEF TypesOK
<1>5. PICK pc \in {"purge", "clear", "done"} :
        /\ pc = IF ids = <<>> /\ groups = <<>> THEN IF failed THEN "done" ELSE "clear" ELSE "purge"
        /\ Goto(i, pc)
  BY DEF Left
<1>6. at' \in [Ops -> Places] /\ at'[i] = pc /\ \A j \in Ops \ {i} : at'[j] = at[j]
  BY <1>5, GotoDoes DEF Places
<1> QED BY <1>2, <1>4, <1>5, <1>6

\* A removal drops everything in the end, or is known to have failed.
LEMMA PurgeInv ==
  ASSUME IndexInv, NEW i \in Active, at[i] = "purge", NEW ids \in IdReads, NEW groups \in GroupReads,
         NEW failed \in BOOLEAN, Left(i, ids, groups, failed), failures' \in 0..MaxOps,
         store' \in [Records -> Reads], DOMAIN groups \subseteq DOMAIN got[i].groups,
         \A h \in DOMAIN groups : groups[h] = got[i].groups[h] \/ groups[h] = store[h],
         \A k \in Records : \/ store'[k] = store[k] \/ Erases(i, k)
                            \/ k \in DOMAIN got[i].groups \ DOMAIN groups /\ Merges(i, k),
         RemoveOK(i)'
  PROVE  IndexInv'
<1>1. /\ TypesOK /\ PhaseOK /\ SiblingsOK /\ CacheOK /\ OwnOK(i) /\ i \in Ops
      /\ cache' = cache /\ task' = task /\ met' = met /\ expected' = expected
  BY DEF IndexInv, Left, Active
<1>2. task[i].op = "remove" /\ task[i] \in Tasks
  BY <1>1, RunningKinds
<1>3. /\ got' \in [Ops -> Found] /\ \A j \in Ops \ {i} : got'[j] = got[j]
      /\ got'[i].groups = groups
      /\ at' \in [Ops -> Places] /\ \A j \in Ops \ {i} : at'[j] = at[j]
      /\ at'[i] \in {"done", "clear", "purge"}
  BY <1>1, LeftDoes
<1>4. Dropped(i) = Keys /\ Dropped(i)' = Keys
  BY <1>1, <1>2 DEF Dropped, Keys, Everything, AnyId, AnyGroup
<1>5. /\ at'[i] = "done" => raced' = raced \cup Dropped(i) /\ spoiled' = spoiled \cup Reading(Dropped(i))
      /\ at'[i] # "done" => raced' = raced /\ spoiled' = spoiled
  <2>1. at'[i] = "done" <=> ids = <<>> /\ groups = <<>> /\ failed
    BY <1>1, LeftDoes
  <2> QED BY <2>1 DEF Left
<1>6. Frame(i)
  BY <1>1, <1>3 DEF Frame
<1>7. TypesOK'
  <2>1. Reading(Dropped(i)) \subseteq Ops
    BY DEF Reading
  <2>2. raced' \subseteq Keys /\ spoiled' \subseteq Ops
    BY <1>1, <1>4, <1>5, <2>1 DEF TypesOK
  <2> QED BY <1>1, <1>3, <2>2 DEF TypesOK
<1>8. PhaseOK'
  <2>1. at'[i] \in Phases(task[i].op) \cup Ended
    BY <1>2, <1>3 DEF Phases, Ended
  <2> QED BY <1>1, <1>6, <2>1, PhaseKept
<1>9. Effect(i)
  <2>1. ToWrite(i) = DOMAIN got[i].groups
    BY DEF ToWrite
  <2>2. ToWrite(i)' \subseteq DOMAIN groups
    BY <1>3 DEF ToWrite
  <2>3. ASSUME NEW k \in Records PROVE ReadOf(i, k)' \subseteq ReadOf(i, k) \cup store[k]
    <3>1. ReadOf(i, k)' \subseteq IF k \in DOMAIN groups THEN groups[k] \ Unread ELSE {}
      BY <1>3 DEF ReadOf, Unread
    <3>2. k \in DOMAIN got[i].groups => ReadOf(i, k) = got[i].groups[k] \ Unread
      BY DEF ReadOf
    <3> QED BY <3>1, <3>2
  <2>4. \A k \in Records : store'[k] = store[k] \/ Writes(i, k) \/ Erases(i, k)
    BY <2>1, <2>2 DEF Writes
  <2> QED BY <1>6, <2>1, <2>2, <2>3, <2>4 DEF Effect
<1>10. OwnOK(i)'
  BY <1>1, <1>2, <1>3 DEF OwnOK, JoinOK, LeaveOK, CreateOK, DeleteOK, RemoveOK, BelowOK
<1>11. CacheOK'
  <2>1. CASE at'[i] = "done"
    <3>1. \A key \in Keys : Stale(key)
      BY <1>4, <1>5, <2>1 DEF Stale, Reading
    <3>2. raced \subseteq raced' /\ spoiled \subseteq spoiled' /\ at'[i] # "fill"
      BY <1>5, <2>1
    <3> QED BY <1>1, <1>6, <3>1, <3>2, ClaimedAreKeys, CacheKept
  <2>2. CASE at'[i] # "done"
    <3>1. i \in Ending'
      BY <1>1, <1>2, <1>3, <2>2 DEF Ending
    <3>2. \A key \in Keys : Covers(i, key)'
      BY <1>4, <3>1 DEF Covers
    <3>3. raced \subseteq raced' /\ spoiled \subseteq spoiled' /\ at'[i] # "fill"
      BY <1>3, <1>5, <2>2
    <3> QED BY <1>1, <1>6, <3>2, <3>3, ClaimedAreKeys, CacheKept
  <2> QED BY <2>1, <2>2
<1> QED BY <1>1, <1>7, <1>8, <1>9, <1>10, <1>11, StepInv

\* The record of the resource is deleted.
LEMMA ErasedDoes ==
  ASSUME TypesOK, PhaseOK, NEW i \in Active, at[i] = "purge", Erased(i)
  PROVE  /\ store' \in [Records -> Reads] /\ store'[task[i].r] = Absent
         /\ \A g \in Groups : store'[g] = store[g]
         /\ \A k \in Records : store'[k] = store[k] \/ Erases(i, k)
         /\ \A k \in Records : store'[k] = store[k] \/ store'[k] = Absent
<1>1. task[i].op = "remove" /\ task[i] \in Tasks /\ i \in Ops
  BY RunningKinds
<1>2. PICK r \in Resources : r = task[i].r
  BY <1>1, TaskKinds
<1>3. r \in Records /\ r \notin Groups /\ Others(r) = Groups /\ \A x : Pair(r, x) = <<r, x>>
  BY RecordsSplit DEF Others, Pair
<1>4. /\ store' \in [Records -> Reads] /\ store'[r] = Absent
      /\ \A k \in Records \ {r} : store'[k] = store[k]
  BY <1>2, <1>3 DEF Erased, TypesOK, Absent, Reads
<1>5. Erases(i, r)
  <2>1. Touched(task[i]) = {r} \X Groups
    BY <1>1, <1>2 DEF Touched
  <2> QED BY <1>1, <1>3, <1>4, <2>1 DEF Erases, Absent
<1> QED BY <1>2, <1>3, <1>4, <1>5, RecordsSplit

\* What is left to do of a removal whose record is deleted.
LEMMA RemoveErasesInv ==
  ASSUME IndexInv, NEW i \in Ops, RemoveErases(i)
  PROVE  IndexInv'
<1>1. /\ TypesOK /\ PhaseOK /\ OwnOK(i) /\ at[i] = "purge" /\ i \in Active
      /\ task' = task /\ met' = met /\ failures' = failures
  BY DEF IndexInv, RemoveErases, Left, Active
<1>2. task[i].op = "remove" /\ task[i] \in Tasks
  BY <1>1, RunningKinds
<1>3. PICK r \in Resources : r = task[i].r
  BY <1>2, TaskKinds
<1>4. PICK groups \in GroupReads, failed \in BOOLEAN : groups = got[i].groups /\ failed = got[i].failed
  BY <1>1 DEF TypesOK, Found
<1>5. DOMAIN groups \subseteq Groups
  BY DEF GroupReads
<1>6. <<>> \in IdReads
  BY NothingIsEmpty, ReadsMake
<1>7. Left(i, <<>>, groups, failed)
  BY <1>4 DEF RemoveErases
<1>8. /\ store' \in [Records -> Reads] /\ store'[r] = Absent
      /\ \A g \in Groups : store'[g] = store[g]
      /\ \A k \in Records : store'[k] = store[k] \/ Erases(i, k)
      /\ \A k \in Records : store'[k] = store[k] \/ store'[k] = Absent
  BY <1>1, <1>3, ErasedDoes DEF RemoveErases
<1>9. /\ got'[i].ids = <<>> /\ got'[i].groups = groups /\ got'[i].read = got[i].read /\ got'[i].failed = failed
      /\ at'[i] \in {"done", "clear", "purge"} /\ (at'[i] = "clear" => groups = <<>>)
  BY <1>1, <1>6, <1>7, LeftDoes
<1>10. RemoveOK(i)'
  <2>1. (Alone(i)' <=> Alone(i)) /\ (Failed(i)' <=> Failed(i))
    BY <1>1, <1>4, <1>9 DEF Alone, Failed
  <2>2. mergeSiblings(got[i].read) \subseteq Records
    BY <1>1 DEF TypesOK, Found, Reads, Siblings, mergeSiblings
  <2>3. \A g \in Records : r \notin Members(g) => r \notin Members(g)'
    BY <1>8, AbsentMembers DEF Members, mergeSiblings
  <2>4. mergeSiblings(got[i].read)' = mergeSiblings(got[i].read)
    BY <1>9 DEF mergeSiblings
  <2>5. Alone(i) /\ ~Failed(i) =>
          /\ (\A s, t \in got[i].read : s = t) =>
               \A g \in mergeSiblings(got[i].read) \ DOMAIN groups : r \notin Members(g)
          /\ \A g \in DOMAIN groups : groups[g] # Unread => groups[g] = store[g]
    BY <1>1, <1>2, <1>3, <1>4 DEF OwnOK, RemoveOK
  <2>6. r = task'[i].r
    BY <1>1, <1>3
  <2> QED BY <1>5, <1>8, <1>9, <2>1, <2>2, <2>3, <2>4, <2>5, <2>6 DEF RemoveOK
<1>11. failures' \in 0..MaxOps
  BY <1>1 DEF TypesOK
<1> QED BY <1>1, <1>4, <1>6, <1>7, <1>8, <1>10, <1>11, PurgeInv

\* It reads the record of a group, and has left it if there is none.
LEMMA RemoveReadsGroupInv ==
  ASSUME IndexInv, NEW i \in Ops, NEW g \in Groups, RemoveReadsGroup(i, g)
  PROVE  IndexInv'
<1>1. /\ TypesOK /\ PhaseOK /\ OwnOK(i) /\ at[i] = "purge" /\ i \in Active
      /\ task' = task /\ met' = met /\ store' = store /\ failures' = failures
  BY DEF IndexInv, RemoveReadsGroup, Left, Active
<1>2. task[i].op = "remove" /\ task[i] \in Tasks
  BY <1>1, RunningKinds
<1>3. PICK r \in Resources : r = task[i].r
  BY <1>2, TaskKinds
<1>4. PICK ids \in IdReads, old \in GroupReads, failed \in BOOLEAN :
        ids = got[i].ids /\ old = got[i].groups /\ failed = got[i].failed
  BY <1>1 DEF TypesOK, Found
<1>5. g \in DOMAIN old /\ old[g] = Unread /\ g \in Records /\ store[g] \in Reads
  BY <1>1, <1>4, RecordsSplit DEF RemoveReadsGroup, TypesOK
<1>6. PICK groups : groups = IF store[g] = Absent THEN Without(old, g) ELSE [old EXCEPT ![g] = store[g]]
  OBVIOUS
<1>7. Left(i, ids, groups, failed)
  BY <1>4, <1>6 DEF RemoveReadsGroup
<1>8. /\ groups \in GroupReads /\ DOMAIN groups = IF store[g] = Absent THEN DOMAIN old \ {g} ELSE DOMAIN old
      /\ \A h \in DOMAIN groups : groups[h] = IF h = g THEN store[g] ELSE old[h]
  <2>1. CASE store[g] = Absent
    BY <1>6, <2>1, WithoutDoes
  <2>2. CASE store[g] # Absent
    <3>1. PICK S \in SUBSET Groups : old \in [S -> Reads \cup {Unread}]
      BY DEF GroupReads
    <3>2. groups = [old EXCEPT ![g] = store[g]]
      BY <1>6, <2>2
    <3>3. groups \in [S -> Reads \cup {Unread}]
      BY <1>5, <3>1, <3>2
    <3>4. groups \in GroupReads
      BY <3>3, ReadsMake
    <3> QED BY <1>5, <2>2, <3>2, <3>4
  <2> QED BY <2>1, <2>2
<1>9. /\ got'[i].ids = ids /\ got'[i].groups = groups /\ got'[i].read = got[i].read /\ got'[i].failed = failed
      /\ at'[i] \in {"done", "clear", "purge"} /\ (at'[i] = "clear" => ids = <<>> /\ groups = <<>>)
  BY <1>1, <1>7, <1>8, LeftDoes
<1>10. RemoveOK(i)'
  <2>1. (Alone(i)' <=> Alone(i)) /\ (Failed(i)' <=> Failed(i))
    BY <1>1, <1>4, <1>9 DEF Alone, Failed
  <2>2. \A h : Members(h)' = Members(h)
    BY <1>1 DEF Members, mergeSiblings
  <2>3. mergeSiblings(got[i].read)' = mergeSiblings(got[i].read)
    BY <1>9 DEF mergeSiblings
  <2>4. Alone(i) /\ ~Failed(i) =>
          /\ ids = <<>> => store[r] = Absent
          /\ (\A s, t \in got[i].read : s = t) =>
               \A h \in mergeSiblings(got[i].read) \ DOMAIN old : r \notin Members(h)
          /\ \A h \in DOMAIN old : old[h] # Unread => old[h] = store[h]
    BY <1>1, <1>2, <1>3, <1>4 DEF OwnOK, RemoveOK
  <2>5. store[g] = Absent => r \notin Members(g)
    BY AbsentMembers DEF Members
  <2>6. r = task'[i].r
    BY <1>1, <1>3
  <2>7. Alone(i) /\ ~Failed(i) =>
          /\ (\A s, t \in got[i].read : s = t) =>
               \A h \in mergeSiblings(got[i].read) \ DOMAIN groups : r \notin Members(h)
          /\ \A h \in DOMAIN groups : groups[h] # Unread => groups[h] = store[h]
    BY <1>8, <2>4, <2>5
  <2> QED BY <1>1, <1>9, <2>1, <2>2, <2>3, <2>4, <2>6, <2>7 DEF RemoveOK
<1>11. store' \in [Records -> Reads] /\ failures' \in 0..MaxOps /\ \A k \in Records : store'[k] = store[k]
  BY <1>1 DEF TypesOK
<1>12. DOMAIN groups \subseteq DOMAIN got[i].groups
       /\ \A h \in DOMAIN groups : groups[h] = got[i].groups[h] \/ groups[h] = store[h]
  BY <1>4, <1>8
<1> QED BY <1>1, <1>4, <1>7, <1>8, <1>10, <1>11, <1>12, PurgeInv

\* What the record of a group is once the resource has left it.
LEMMA GroupLeftDoes ==
  ASSUME TypesOK, PhaseOK, SiblingsOK, NEW i \in Active, at[i] = "purge", NEW g \in DOMAIN got[i].groups,
         got[i].groups[g] # Unread, GroupLeft(i, g)
  PROVE  /\ store' \in [Records -> Reads] /\ \A k \in Records \ {g} : store'[k] = store[k]
         /\ Merges(i, g)
         /\ got[i].groups[g] = store[g] => task[i].r \notin mergeSiblings(store'[g])
<1>1. task[i].op = "remove" /\ task[i] \in Tasks /\ i \in Ops
  BY RunningKinds
<1>2. PICK r \in Resources : r = task[i].r
  BY <1>1, TaskKinds
<1>3. PICK old \in GroupReads : old = got[i].groups
  BY <1>1 DEF TypesOK, Found
<1>4. g \in DOMAIN old /\ old[g] # Unread /\ g \in Groups
  BY <1>3 DEF GroupReads
<1>5. g \in Records /\ g \notin Resources /\ Others(g) = Resources /\ \A x : Pair(g, x) = <<x, g>>
  BY <1>4, RecordsSplit DEF Others, Pair
<1>6. ReadOf(i, g) = old[g] /\ old[g] \in Reads /\ store[g] \in Reads
  <2>1. old[g] \in Reads
    BY <1>4 DEF GroupReads
  <2>2. \A s \in Siblings : s.by # MaxOps + 1
    <3>1. MaxOps \in Nat
      BY IndexAssumption
    <3>2. MaxOps + 1 \notin 0..MaxOps
      BY <3>1
    <3> QED BY <3>2 DEF Siblings
  <2>3. old[g] \ Unread = old[g]
    BY <2>1, <2>2 DEF Reads, Unread
  <2>4. ReadOf(i, g) = old[g] \ Unread
    BY <1>3, <1>4 DEF ReadOf
  <2> QED BY <1>5, <2>1, <2>3, <2>4 DEF TypesOK
<1>7. PICK set \in SUBSET Resources : set = mergeSiblings(old[g]) \ {r}
  <2>1. mergeSiblings(ReadOf(i, g)) \subseteq Others(g)
    BY <1>1, <1>5, ReadLists
  <2>2. mergeSiblings(old[g]) \subseteq Resources
    BY <1>5, <1>6, <2>1
  <2>3. PICK set : set = mergeSiblings(old[g]) \ {r}
    OBVIOUS
  <2> QED BY <2>2, <2>3
<1>8. set \in SUBSET Records
  BY RecordsSplit
<1>9. /\ store' \in [Records -> Reads] /\ store'[g] = Write(store[g], old[g], i, set)
      /\ \A k \in Records \ {g} : store'[k] = store[k]
  <2>1. Write(store[g], old[g], i, set) \in Reads
    BY <1>1, <1>6, <1>8, WriteDoes
  <2>2. store' = [store EXCEPT ![g] = Write(store[g], old[g], i, set)]
    BY <1>2, <1>3, <1>7 DEF GroupLeft
  <2> QED BY <1>5, <2>1, <2>2 DEF TypesOK
<1>10. Merges(i, g)
  <2>1. Touched(task[i]) = {r} \X Groups
    BY <1>1, <1>2 DEF Touched
  <2>2. set \in SUBSET Others(g) /\ store'[g] = Write(store[g], ReadOf(i, g), i, set)
    BY <1>5, <1>6, <1>9
  <2>3. \A x \in Others(g) :
          /\ x \in set /\ x \notin mergeSiblings(ReadOf(i, g)) =>
               task[i].op = "join" /\ Pair(g, x) \in Touched(task[i])
          /\ x \notin set /\ x \in mergeSiblings(ReadOf(i, g)) =>
               task[i].op # "join" /\ Pair(g, x) \in Touched(task[i])
    BY <1>1, <1>4, <1>5, <1>6, <1>7, <2>1
  <2> QED BY <1>1, <2>2, <2>3 DEF Merges
<1>11. ASSUME old[g] = store[g] PROVE r \notin mergeSiblings(store'[g])
  <2>1. store'[g] = Write(store[g], store[g], i, set)
    BY <1>9, <1>11
  <2>2. mergeSiblings(store'[g]) = set
    BY <1>1, <1>6, <1>8, <2>1, WriteReplaces
  <2> QED BY <1>7, <2>2
<1> QED BY <1>2, <1>3, <1>9, <1>10, <1>11

\* It writes the group without the resource.
LEMMA RemoveLeavesGroupInv ==
  ASSUME IndexInv, NEW i \in Ops, NEW g \in Groups, RemoveLeavesGroup(i, g)
  PROVE  IndexInv'
<1>1. /\ TypesOK /\ PhaseOK /\ SiblingsOK /\ OwnOK(i) /\ at[i] = "purge" /\ i \in Active
      /\ task' = task /\ met' = met /\ failures' = failures
  BY DEF IndexInv, RemoveLeavesGroup, Left, Active
<1>2. task[i].op = "remove" /\ task[i] \in Tasks
  BY <1>1, RunningKinds
<1>3. PICK r \in Resources : r = task[i].r
  BY <1>2, TaskKinds
<1>4. PICK ids \in IdReads, old \in GroupReads, failed \in BOOLEAN :
        ids = got[i].ids /\ old = got[i].groups /\ failed = got[i].failed
  BY <1>1 DEF TypesOK, Found
<1>5. g \in DOMAIN old /\ old[g] # Unread /\ g \in Records /\ g \notin Resources
  BY <1>4, RecordsSplit DEF RemoveLeavesGroup
<1>6. PICK groups : groups = Without(old, g)
  OBVIOUS
<1>7. /\ groups \in GroupReads /\ DOMAIN groups = DOMAIN old \ {g}
      /\ \A h \in DOMAIN groups : groups[h] = old[h]
  BY <1>6, WithoutDoes
<1>8. Left(i, ids, groups, failed)
  BY <1>4, <1>6 DEF RemoveLeavesGroup
<1>9. /\ store' \in [Records -> Reads] /\ \A k \in Records \ {g} : store'[k] = store[k]
      /\ Merges(i, g)
      /\ old[g] = store[g] => r \notin mergeSiblings(store'[g])
  BY <1>1, <1>3, <1>4, <1>5, GroupLeftDoes DEF RemoveLeavesGroup
<1>10. /\ got'[i].ids = ids /\ got'[i].groups = groups /\ got'[i].read = got[i].read /\ got'[i].failed = failed
       /\ at'[i] \in {"done", "clear", "purge"} /\ (at'[i] = "clear" => ids = <<>> /\ groups = <<>>)
  BY <1>1, <1>7, <1>8, LeftDoes
<1>11. RemoveOK(i)'
  <2>1. (Alone(i)' <=> Alone(i)) /\ (Failed(i)' <=> Failed(i))
    BY <1>1, <1>4, <1>10 DEF Alone, Failed
  <2>2. \A h \in Records : h # g => store'[h] = store[h] /\ Members(h)' = Members(h)
    BY <1>9 DEF Members, mergeSiblings
  <2>3. mergeSiblings(got[i].read)' = mergeSiblings(got[i].read)
    BY <1>10 DEF mergeSiblings
  <2>4. Alone(i) /\ ~Failed(i) =>
          /\ ids = <<>> => store[r] = Absent
          /\ (\A s, t \in got[i].read : s = t) =>
               \A h \in mergeSiblings(got[i].read) \ DOMAIN old : r \notin Members(h)
          /\ \A h \in DOMAIN old : old[h] # Unread => old[h] = store[h]
    BY <1>1, <1>2, <1>3, <1>4 DEF OwnOK, RemoveOK
  <2>5. Alone(i) /\ ~Failed(i) => r \notin Members(g)'
    BY <1>5, <1>9, <2>4 DEF Members
  <2>6. r = task'[i].r /\ r # g /\ r \in Records
    BY <1>1, <1>3, <1>5, RecordsSplit
  <2>7. mergeSiblings(got[i].read) \subseteq Records /\ DOMAIN groups \subseteq Records
    <3>1. got[i].read \in Reads
      BY <1>1 DEF TypesOK, Found
    <3>2. mergeSiblings(got[i].read) \subseteq Records
      BY <3>1 DEF Reads, Siblings, mergeSiblings
    <3>3. DOMAIN groups \subseteq Groups
      BY <1>7 DEF GroupReads
    <3> QED BY <3>2, <3>3, RecordsSplit
  <2>8. Alone(i) /\ ~Failed(i) =>
          /\ ids = <<>> => store'[r] = Absent
          /\ (\A s, t \in got[i].read : s = t) =>
               \A h \in mergeSiblings(got[i].read) \ DOMAIN groups : r \notin Members(h)'
          /\ \A h \in DOMAIN groups : groups[h] # Unread => groups[h] = store'[h]
    BY <1>7, <2>2, <2>4, <2>5, <2>6, <2>7
  <2> QED BY <1>10, <2>1, <2>3, <2>6, <2>8 DEF RemoveOK
<1>12. DOMAIN groups \subseteq DOMAIN got[i].groups
       /\ \A h \in DOMAIN groups : groups[h] = got[i].groups[h] \/ groups[h] = store[h]
  BY <1>4, <1>7
<1>13. \A k \in Records : \/ store'[k] = store[k] \/ Erases(i, k)
                          \/ k \in DOMAIN got[i].groups \ DOMAIN groups /\ Merges(i, k)
  BY <1>4, <1>5, <1>7, <1>9
<1>14. failures' \in 0..MaxOps
  BY <1>1 DEF TypesOK
<1> QED BY <1>1, <1>4, <1>7, <1>8, <1>9, <1>11, <1>12, <1>13, <1>14, PurgeInv

-----------------------------------------------------------------------------
(* The other steps *)

\* There are MaxOps operations.
LEMMA FailuresBounded ==
  ASSUME NEW S \in SUBSET Ops
  PROVE  Cardinality(S) \in 0..MaxOps
<1>1. MaxOps \in Nat
  BY IndexAssumption
<1>2. IsFiniteSet(Ops) /\ Cardinality(Ops) = MaxOps
  BY <1>1, FS_Interval DEF Ops
<1>3. IsFiniteSet(S) /\ Cardinality(S) <= MaxOps
  BY <1>2, FS_Subset
<1> QED BY <1>1, <1>3, FS_CardinalityType

\* And so they do.
LEMMA FailsBounded ==
  ASSUME TypesOK, NEW i, MayFail(i)
  PROVE  i \in Active /\ failures' \in 0..MaxOps
<1>1. failures' = failures + 1 /\ failures < Cardinality({j \in Ops : at[j] = "idle"}) /\ i \in Active
  BY DEF MayFail
<1>2. Cardinality({j \in Ops : at[j] = "idle"}) \in 0..MaxOps
  BY FailuresBounded
<1>3. failures \in 0..MaxOps /\ MaxOps \in Nat
  BY IndexAssumption DEF TypesOK
<1> QED BY <1>1, <1>2, <1>3

\* A request fails, and the operation gives up.
LEMMA FailInv ==
  ASSUME IndexInv, NEW i \in Ops, Fail(i)
  PROVE  IndexInv'
<1>1. /\ TypesOK /\ PhaseOK /\ SiblingsOK /\ CacheOK /\ OwnOK(i) /\ i \in Active
      /\ cache' = cache /\ task' = task /\ met' = met /\ expected' = expected
      /\ at[i] \notin {"ask", "clear", "purge"} /\ Got(i, "failed", TRUE) /\ failures' \in 0..MaxOps
  <2>1. MayFail(i) /\ TypesOK
    BY DEF IndexInv, Fail
  <2> QED BY <2>1, FailsBounded DEF IndexInv, Fail
<1>2. task[i] \in Tasks
  BY <1>1, RunningKinds
<1>3. PICK pc \in {"tree", "hung", "done"} :
        Goto(i, pc) /\ (pc = "tree" => at[i] \in {"id", "idPut"} /\ task[i].op = "leave")
  BY DEF Fail
<1>4. at' \in [Ops -> Places] /\ at'[i] = pc /\ \A j \in Ops \ {i} : at'[j] = at[j]
  BY <1>1, <1>3, GotoDoes DEF Places
<1>5. got' \in [Ops -> Found] /\ (\A j \in Ops \ {i} : got'[j] = got[j]) /\ got'[i].failed = TRUE
  BY <1>1, GotDoes DEF TypesOK
<1>6. IF at[i] = "fill" THEN raced' = raced /\ spoiled' = spoiled
      ELSE raced' = raced \cup Undropped(i) /\ spoiled' = spoiled \cup Reading(Undropped(i))
  BY DEF Fail
<1>7. Written(i) /\ (at[i] = "fill" => store' = store)
  <2>1. CASE store' = store
    BY <1>1, <2>1, AllStay DEF Written, TypesOK
  <2>2. CASE Applied(i)
    BY <1>1, <2>2, IdWrites, TreeWrites, IdsWrites, ParentWrites, GroupsErases DEF Applied
  <2> QED BY <2>1, <2>2 DEF Fail, Applied
<1>8. TypesOK'
  <2>1. Undropped(i) \subseteq Keys /\ Reading(Undropped(i)) \subseteq Ops
    BY <1>1, DroppedAreKeys DEF Reading
  <2>2. raced' \subseteq Keys /\ spoiled' \subseteq Ops
    BY <1>1, <1>6, <2>1 DEF TypesOK
  <2> QED BY <1>1, <1>4, <1>5, <1>7, <2>2 DEF TypesOK, Written
<1>9. Frame(i)
  BY <1>1, <1>4, <1>5 DEF Frame
<1>10. PhaseOK'
  <2>1. at'[i] \in Phases(task[i].op) \cup Ended
    BY <1>3, <1>4 DEF Phases, Ended
  <2> QED BY <1>1, <1>9, <2>1, PhaseKept
<1>11. Effect(i)
  <2>1. pc = "tree" => task[i].g \in Groups
    BY <1>2, <1>3, TaskKinds
  <2>2. ToWrite(i)' \subseteq ToWrite(i) /\ (pc # "tree" => ToWrite(i)' = {}) /\ (pc = "tree" => ToWrite(i)' = {task[i].g})
    BY <1>1, <1>3, <1>4 DEF ToWrite
  <2>3. \A k \in Records : ReadOf(i, k)' = {}
    BY <1>3, <1>4 DEF ReadOf
  <2>4. at[i] = "id" => store' = store
    BY DEF Fail, Applied
  <2>5. CASE pc = "tree" /\ at[i] = "id"
    BY <1>9, <2>2, <2>3, <2>4, <2>5 DEF Effect
  <2>6. CASE ~(pc = "tree" /\ at[i] = "id")
    BY <1>3, <1>7, <1>9, <2>1, <2>2, <2>3, <2>6, WrittenEffect
  <2> QED BY <2>5, <2>6
<1>12. OwnOK(i)'
  <2>1. CASE pc = "tree"
    BY <1>1, <1>3, <1>4, <1>5, <2>1 DEF OwnOK, JoinOK, LeaveOK, CreateOK, DeleteOK, RemoveOK, BelowOK, Failed
  <2>2. CASE pc # "tree"
    BY <1>4, <2>2 DEF OwnOK, Active
  <2> QED BY <2>1, <2>2
<1>13. CacheOK'
  <2>1. at[i] # "fill" => \A key \in Undropped(i) : Stale(key)
    BY <1>6 DEF Stale, Reading
  <2>2. \A key \in Claimed : Stays(key) \/ Stale(key)
    BY <1>7, <2>1, AllStay DEF Written
  <2>3. ASSUME NEW key \in Claimed, Covers(i, key) PROVE Stale(key)
    BY <2>1, <2>3 DEF Covers, Ending, Undropped
  <2>4. at'[i] # "fill" /\ raced \subseteq raced' /\ spoiled \subseteq spoiled'
    BY <1>3, <1>4, <1>6
  <2> QED BY <1>1, <1>9, <2>2, <2>3, <2>4, CacheKept
<1> QED BY <1>1, <1>8, <1>10, <1>11, <1>12, <1>13, StepInv

\* The request for the record of a resource that is removed fails.
LEMMA FailEraseInv ==
  ASSUME IndexInv, NEW i \in Ops, FailErase(i)
  PROVE  IndexInv'
<1>1. TypesOK /\ PhaseOK /\ at[i] = "purge" /\ i \in Active /\ failures' \in 0..MaxOps
  <2>1. MayFail(i) /\ TypesOK
    BY DEF IndexInv, FailErase
  <2> QED BY <2>1, FailsBounded DEF IndexInv, FailErase
<1>2. PICK groups \in GroupReads : groups = got[i].groups
  BY <1>1 DEF TypesOK, Found
<1>3. <<>> \in IdReads /\ Left(i, <<>>, groups, TRUE)
  BY <1>2, NothingIsEmpty, ReadsMake DEF FailErase
<1>4. /\ store' \in [Records -> Reads]
      /\ \A k \in Records : store'[k] = store[k] \/ Erases(i, k)
  <2>1. CASE store' = store
    BY <1>1, <2>1 DEF TypesOK
  <2>2. CASE Erased(i)
    BY <1>1, <2>2, ErasedDoes
  <2> QED BY <2>1, <2>2 DEF FailErase
<1>5. RemoveOK(i)'
  <2>1. got'[i].failed = TRUE
    BY <1>1, <1>3, LeftDoes
  <2> QED BY <2>1 DEF RemoveOK, Failed
<1> QED BY <1>1, <1>2, <1>3, <1>4, <1>5, PurgeInv

\* And that for the record of a group that it leaves.
LEMMA FailLeaveInv ==
  ASSUME IndexInv, NEW i \in Ops, NEW g \in Groups, FailLeave(i, g)
  PROVE  IndexInv'
<1>1. /\ TypesOK /\ PhaseOK /\ SiblingsOK /\ at[i] = "purge" /\ i \in Active /\ failures' \in 0..MaxOps
      /\ g \in DOMAIN got[i].groups
  <2>1. MayFail(i) /\ TypesOK
    BY DEF IndexInv, FailLeave
  <2> QED BY <2>1, FailsBounded DEF IndexInv, FailLeave
<1>2. PICK ids \in IdReads, old \in GroupReads : ids = got[i].ids /\ old = got[i].groups
  BY <1>1 DEF TypesOK, Found
<1>3. PICK groups : groups = Without(old, g)
  OBVIOUS
<1>4. /\ groups \in GroupReads /\ DOMAIN groups = DOMAIN old \ {g}
      /\ \A h \in DOMAIN groups : groups[h] = old[h]
  BY <1>3, WithoutDoes
<1>5. Left(i, ids, groups, TRUE)
  BY <1>2, <1>3 DEF FailLeave
<1>6. /\ store' \in [Records -> Reads]
      /\ \A k \in Records : store'[k] = store[k] \/ (k = g /\ Merges(i, g))
  <2>1. CASE store' = store
    BY <1>1, <2>1 DEF TypesOK
  <2>2. CASE got[i].groups[g] # Unread /\ GroupLeft(i, g)
    BY <1>1, <2>2, GroupLeftDoes
  <2> QED BY <2>1, <2>2 DEF FailLeave
<1>7. RemoveOK(i)'
  <2>1. got'[i].failed = TRUE
    BY <1>1, <1>4, <1>5, LeftDoes
  <2> QED BY <2>1 DEF RemoveOK, Failed
<1>8. DOMAIN groups \subseteq DOMAIN got[i].groups
      /\ \A h \in DOMAIN groups : groups[h] = got[i].groups[h] \/ groups[h] = store[h]
  BY <1>2, <1>4
<1>9. \A k \in Records : \/ store'[k] = store[k] \/ Erases(i, k)
                         \/ k \in DOMAIN got[i].groups \ DOMAIN groups /\ Merges(i, k)
  BY <1>1, <1>2, <1>4, <1>6
<1> QED BY <1>1, <1>4, <1>5, <1>6, <1>7, <1>8, <1>9, PurgeInv

\* What does not change stays as it is.
LEMMA RestStays ==
  ASSUME IndexInv, UNCHANGED <<store, task, at, got, met, expected>>
  PROVE  PhaseOK' /\ SiblingsOK' /\ InOK' /\ OutOK' /\ \A i \in Ops : OwnOK(i)'
<1>1. PhaseOK'
  BY DEF IndexInv, PhaseOK, Active
<1>2. \A i, k : ReadOf(i, k)' = ReadOf(i, k)
  BY DEF ReadOf, Parents
<1>3. \A i : ToWrite(i)' = ToWrite(i)
  BY DEF ToWrite
<1>4. \A k : Members(k)' = Members(k)
  BY DEF Members, mergeSiblings
<1>5. SiblingsOK'
  <2>1. \A k, s : Seen(k, s)' <=> Seen(k, s)
    BY <1>2 DEF Seen
  <2> QED BY <1>3, <2>1 DEF IndexInv, SiblingsOK, Others
<1>6. Active' = Active
  BY DEF Active
<1>7. InOK'
  BY <1>4, <1>6 DEF IndexInv, InOK
<1>8. OutOK'
  <2>1. ASSUME NEW r \in Resources, NEW g \in Groups, expected[<<r, g>>] = "out"
        PROVE  /\ g \notin Members(r)' /\ r \notin Members(g)'
               /\ \A j \in Active' : /\ <<r, g>> \notin Touched(task'[j])
                                     /\ g \notin mergeSiblings(ReadOf(j, r)') /\ r \notin mergeSiblings(ReadOf(j, g)')
    <3>1. /\ g \notin Members(r) /\ r \notin Members(g)
          /\ \A j \in Active : /\ <<r, g>> \notin Touched(task[j])
                               /\ g \notin mergeSiblings(ReadOf(j, r)) /\ r \notin mergeSiblings(ReadOf(j, g))
      BY <2>1 DEF IndexInv, OutOK
    <3> QED BY <1>2, <1>4, <1>6, <3>1
  <2>2. \A j, k : mergeSiblings(ReadOf(j, k))' = mergeSiblings(ReadOf(j, k)')
    BY DEF mergeSiblings
  <2> QED BY <2>1, <2>2 DEF OutOK
<1>9. ASSUME NEW i \in Ops PROVE OwnOK(i)'
  <2>1. OwnOK(i)
    BY DEF IndexInv
  <2>2. Undisturbed(i)' <=> Undisturbed(i)
    BY DEF Undisturbed
  <2>3. (Alone(i)' <=> Alone(i)) /\ (Failed(i)' <=> Failed(i))
    BY DEF Alone, Failed
  <2>4. (JoinOK(i)' <=> JoinOK(i)) /\ (LeaveOK(i)' <=> LeaveOK(i)) /\ (CreateOK(i)' <=> CreateOK(i))
    BY <1>4, <2>2, <2>3 DEF JoinOK, LeaveOK, CreateOK
  <2>5. DeleteOK(i)' <=> DeleteOK(i)
    BY <1>4, <2>3 DEF DeleteOK
  <2>6. RemoveOK(i)' <=> RemoveOK(i)
    BY <1>4, <2>3 DEF RemoveOK, mergeSiblings
  <2>7. BelowOK(i)' <=> BelowOK(i)
    BY DEF BelowOK, Below
  <2> QED BY <1>6, <2>1, <2>4, <2>5, <2>6, <2>7 DEF OwnOK
<1> QED BY <1>1, <1>5, <1>7, <1>8, <1>9

\* An answer that is current stays so while no record changes, unless it was
\* one that only the operation i would drop.
LEMMA CurrentKept ==
  ASSUME NEW i \in Ops, store' = store,
         \A j \in Ops \ {i} : at'[j] = at[j] /\ got'[j] = got[j] /\ task'[j] = task[j],
         NEW key \in Claimed, NEW answer, Current(key, answer), ~Covers(i, key)
  PROVE  Fits(key, answer)' \/ \E j \in Ending' : key \in Dropped(j)'
<1>1. CASE Fits(key, answer)
  BY <1>1, AllStay DEF Stays
<1>2. CASE \E j \in Ending : key \in Dropped(j)
  <2>1. PICK j \in Ending : key \in Dropped(j)
    BY <1>2
  <2>2. j \in Ops \ {i}
    BY <2>1 DEF Ending, Covers
  <2>3. Dropped(j)' = Dropped(j)
    BY <2>2, DroppedKept
  <2>4. j \in Ending'
    BY <2>1, <2>2 DEF Ending
  <2> QED BY <2>1, <2>3, <2>4
<1> QED BY <1>1, <1>2 DEF Current

\* While only the cache changes, and what is known to be stale.
LEMMA CacheChanges ==
  ASSUME IndexInv, UNCHANGED <<store, task, at, got, failures, met, expected, spoiled>>,
         cache' \in [Keys -> {NotCached} \cup SUBSET Records], raced' \subseteq Keys,
         \A k \in Claimed \ raced' : cache'[k] # NotCached => Current(k, cache'[k])
  PROVE  IndexInv'
<1>1. TypesOK /\ CacheOK
  BY DEF IndexInv
<1>2. TypesOK'
  BY <1>1 DEF TypesOK
<1>3. \A k \in Claimed : \A answer : Current(k, answer) => Fits(k, answer)' \/ \E j \in Ending' : k \in Dropped(j)'
  <2>1. Ending' = Ending /\ \A i : Dropped(i)' = Dropped(i)
    BY <1>1, DroppedKept DEF Ending
  <2>2. \A k \in Claimed : Stays(k)
    BY AllStay
  <2> QED BY <2>1, <2>2 DEF Current, Stays
<1>4. ASSUME NEW k \in Claimed \ raced', cache'[k] # NotCached PROVE Current(k, cache[k])'
  BY <1>3, <1>4 DEF Current
<1>5. ASSUME NEW i \in Ops, at'[i] = "fill", i \notin spoiled', KeyOf(i)' \in Claimed
      PROVE  Current(KeyOf(i), got[i].answer)'
  <2>1. KeyOf(i)' = KeyOf(i)
    BY DEF KeyOf
  <2>2. PICK k \in Claimed : k = KeyOf(i)
    BY <1>5, <2>1
  <2>3. PICK answer : answer = got[i].answer
    OBVIOUS
  <2>4. Current(k, answer)
    BY <1>1, <1>5, <2>2, <2>3 DEF CacheOK
  <2>5. Fits(k, answer)' \/ \E j \in Ending' : k \in Dropped(j)'
    BY <1>3, <2>4
  <2> QED BY <2>1, <2>2, <2>3, <2>5 DEF Current
<1>6. CacheOK'
  BY <1>4, <1>5, ClaimedAreKeys DEF CacheOK
<1> QED BY <1>2, <1>6, RestStays DEF IndexInv

\* A cached answer expires.
LEMMA ExpireInv ==
  ASSUME IndexInv, NEW key \in Keys, Expire(key)
  PROVE  IndexInv'
<1>1. TypesOK /\ CacheOK /\ UNCHANGED <<store, task, at, got, failures, met, expected, spoiled>>
  BY DEF IndexInv, Expire
<1>2. cache' \in [Keys -> {NotCached} \cup SUBSET Records] /\ raced' \subseteq Keys
  BY <1>1 DEF TypesOK, Expire
<1>3. ASSUME NEW k \in Claimed \ raced', cache'[k] # NotCached PROVE Current(k, cache'[k])
  <2>1. k \in Keys /\ k # key /\ k \notin raced /\ cache'[k] = cache[k]
    BY <1>1, <1>3, ClaimedAreKeys DEF Expire, TypesOK
  <2> QED BY <1>1, <1>3, <2>1 DEF CacheOK
<1> QED BY <1>1, <1>2, <1>3, CacheChanges

\* The groups above those above are those above.
LEMMA ExpandedIs ==
  ASSUME NEW groups
  PROVE  Expanded(groups) \subseteq Groups /\ Expanded(Expanded(groups)) = Expanded(groups)
<1>1. ASSUME NEW g \in Expanded(Expanded(groups)) PROVE g \in Expanded(groups)
  <2>1. PICK h \in Expanded(groups) : <<g, h>> \in Path
    BY DEF Expanded
  <2>2. PICK f \in groups : <<h, f>> \in Path
    BY DEF Expanded
  <2>3. Path \subseteq Groups \X Groups
    BY IndexAssumption
  <2>4. g \in Groups /\ h \in Groups /\ f \in Groups
    BY <2>1, <2>2, <2>3
  <2>5. <<g, f>> \in Path
    BY <2>1, <2>2, <2>4, IndexAssumption
  <2> QED BY <2>4, <2>5 DEF Expanded
<1>2. \A g \in Expanded(groups) : g \in Expanded(Expanded(groups))
  BY IndexAssumption DEF Expanded
<1> QED BY <1>1, <1>2 DEF Expanded

\* The groups above are added to what is cached of a resource's properties.
LEMMA ExpandInv ==
  ASSUME IndexInv, NEW r \in Resources, Expand(r)
  PROVE  IndexInv'
<1>1. /\ TypesOK /\ CacheOK /\ UNCHANGED <<store, task, at, got, failures, met, expected, spoiled>>
      /\ raced' = raced
  BY DEF IndexInv, Expand
<1>2. PICK key \in Keys : key = <<"properties", r>>
  BY DEF Keys
<1>3. cache' = [cache EXCEPT ![key] = Expanded(cache[key])] /\ cache[key] # NotCached
  BY <1>2 DEF Expand
<1>4. Expanded(cache[key]) \in SUBSET Records
  BY ExpandedIs, RecordsSplit
<1>5. cache' \in [Keys -> {NotCached} \cup SUBSET Records] /\ raced' \subseteq Keys
  BY <1>1, <1>3, <1>4 DEF TypesOK
<1>6. key # Everything /\ key[1] = "properties"
  BY <1>2 DEF Everything
<1>7. ASSUME UpToDate(key, cache[key]) PROVE UpToDate(key, Expanded(cache[key]))
  BY <1>3, <1>6, <1>7, ExpandedIs DEF UpToDate
<1>8. ASSUME NEW k \in Claimed \ raced', cache'[k] # NotCached PROVE Current(k, cache'[k])
  <2>1. CASE k = key
    <3>1. Current(key, cache[key])
      BY <1>1, <1>3, <1>8, <2>1 DEF CacheOK
    <3>2. cache'[key] = Expanded(cache[key])
      BY <1>1, <1>3 DEF TypesOK
    <3> QED BY <1>6, <1>7, <2>1, <3>1, <3>2 DEF Current, Fits
  <2>2. CASE k # key
    <3>1. cache'[k] = cache[k]
      BY <1>1, <1>3, <1>8, <2>2, ClaimedAreKeys DEF TypesOK
    <3> QED BY <1>1, <1>8, <3>1 DEF CacheOK
  <2> QED BY <2>1, <2>2
<1> QED BY <1>1, <1>5, <1>8, CacheChanges

\* Nothing happens.
LEMMA StutterInv ==
  ASSUME IndexInv, UNCHANGED indexVars
  PROVE  IndexInv'
<1>1. UNCHANGED <<store, cache, task, at, got, failures, met, expected, raced, spoiled>>
  BY DEF indexVars
<1> QED BY <1>1, CacheChanges DEF IndexInv, TypesOK, CacheOK

\* DeviceDB has answered a query, or the check that a join begins with.
LEMMA FillInv ==
  ASSUME IndexInv, NEW i \in Ops, Fill(i)
  PROVE  IndexInv'
<1>1. /\ TypesOK /\ PhaseOK /\ SiblingsOK /\ InOK /\ OutOK /\ CacheOK /\ OwnOK(i) /\ at[i] = "fill" /\ i \in Active
      /\ store' = store /\ task' = task /\ failures' = failures /\ met' = met /\ expected' = expected
      /\ spoiled' = spoiled \ {i} /\ got' = [got EXCEPT ![i] = Nothing]
  BY DEF IndexInv, Fill, Active
<1>2. task[i].op \in {"join", "query"} /\ task[i] \in Tasks
  BY <1>1, RunningKinds
<1>3. PICK key \in Keys : key = KeyOf(i)
  BY <1>1, KeysAreKeys
<1>4. PICK answer \in {NotCached} \cup SUBSET Records : answer = got[i].answer
  BY <1>1 DEF TypesOK, Found
<1>5. /\ cache' = [cache EXCEPT ![key] = answer]
      /\ raced' = IF i \in spoiled THEN raced \cup {key} ELSE raced \ {key}
  BY <1>3, <1>4 DEF Fill
<1>6. PICK pc \in {"id", "done"} : Goto(i, pc) /\ (pc = "id" => task[i].op = "join")
  BY <1>4 DEF Fill, Answer
<1>7. at' \in [Ops -> Places] /\ at'[i] = pc /\ \A j \in Ops \ {i} : at'[j] = at[j]
  BY <1>1, <1>6, GotoDoes DEF Places
<1>8. got' \in [Ops -> Found] /\ \A j \in Ops \ {i} : got'[j] = got[j]
  <2>1. Nothing \in Found
    BY NothingIsEmpty, ReadsMake DEF Nothing, Found, Absent, Reads
  <2> QED BY <1>1, <2>1 DEF TypesOK
<1>9. TypesOK'
  BY <1>1, <1>5, <1>7, <1>8 DEF TypesOK
<1>10. Frame(i)
  BY <1>1, <1>7, <1>8 DEF Frame
<1>11. PhaseOK'
  <2>1. at'[i] \in Phases(task[i].op) \cup Ended
    BY <1>6, <1>7 DEF Phases, Ended
  <2> QED BY <1>1, <1>10, <2>1, PhaseKept
<1>12. Effect(i)
  <2>1. ToWrite(i)' \subseteq ToWrite(i)
    BY <1>1, <1>6, <1>7 DEF ToWrite
  <2>2. \A k \in Records : ReadOf(i, k)' = {}
    BY <1>6, <1>7 DEF ReadOf
  <2> QED BY <1>1, <1>10, <2>1, <2>2 DEF Effect
<1>13. OwnOK(i)'
  BY <1>1, <1>2, <1>6, <1>7 DEF OwnOK, JoinOK, LeaveOK, CreateOK, DeleteOK, RemoveOK, BelowOK
<1>14. \A k : ~Covers(i, k)
  BY <1>1 DEF Covers, Ending
<1>15. ASSUME NEW k \in Claimed, NEW a, Current(k, a) PROVE Fits(k, a)' \/ \E j \in Ending' : k \in Dropped(j)'
  BY <1>1, <1>7, <1>8, <1>14, <1>15, CurrentKept
<1>16. Claimed' = Claimed /\ Claimed \subseteq Keys
  BY ClaimedAreKeys
<1>17. ASSUME NEW k \in Claimed \ raced', cache'[k] # NotCached PROVE Current(k, cache[k])'
  <2>1. Current(k, cache'[k])
    <3>1. CASE k = key
      <4>1. cache'[k] = answer
        BY <1>1, <1>5, <3>1 DEF TypesOK
      <4>2. Current(KeyOf(i), got[i].answer)
        BY <1>1, <1>3, <1>5, <1>17, <3>1 DEF CacheOK
      <4> QED BY <1>3, <1>4, <3>1, <4>1, <4>2
    <3>2. CASE k # key
      <4>1. cache'[k] = cache[k] /\ k \notin raced
        BY <1>1, <1>5, <1>16, <1>17, <3>2 DEF TypesOK
      <4> QED BY <1>1, <1>17, <4>1 DEF CacheOK
    <3> QED BY <3>1, <3>2
  <2>2. PICK a : a = cache'[k]
    OBVIOUS
  <2>3. Fits(k, a)' \/ \E j \in Ending' : k \in Dropped(j)'
    BY <1>15, <1>17, <2>1, <2>2
  <2> QED BY <2>2, <2>3 DEF Current
<1>18. ASSUME NEW j \in Ops, at'[j] = "fill", j \notin spoiled', KeyOf(j)' \in Claimed
       PROVE  Current(KeyOf(j), got[j].answer)'
  <2>1. j # i /\ at[j] = "fill" /\ j \notin spoiled
    BY <1>1, <1>6, <1>7, <1>18
  <2>2. KeyOf(j)' = KeyOf(j) /\ got'[j] = got[j]
    BY <1>1, <1>8, <2>1 DEF KeyOf
  <2>3. PICK k \in Claimed : k = KeyOf(j) /\ k = KeyOf(j)'
    BY <1>18, <2>2
  <2>4. PICK a : a = got[j].answer /\ Current(k, a)
    BY <1>1, <2>1, <2>3 DEF CacheOK
  <2>5. Fits(k, a)' \/ \E l \in Ending' : k \in Dropped(l)'
    BY <1>15, <2>4
  <2> QED BY <2>2, <2>3, <2>4, <2>5 DEF Current
<1>19. CacheOK'
  BY <1>16, <1>17, <1>18 DEF CacheOK
<1> QED BY <1>1, <1>9, <1>11, <1>12, <1>13, <1>19, StepInv

\* Who is then out of a group is in none of its records.
LEMMA TakenOutAre ==
  ASSUME IndexInv, NEW i \in Active, at[i] = "clear", Undisturbed(i), ~Failed(i),
         NEW r \in Resources, NEW g \in Groups, <<r, g>> \in TakenOut(i)
  PROVE  Alone(i) /\ g \notin Members(r) /\ r \notin Members(g)
<1>1. PhaseOK /\ OwnOK(i)
  BY DEF IndexInv, Active
<1>2. task[i] \in Tasks /\ task[i].op \in {"leave", "delete", "remove"}
  BY <1>1, RunningKinds DEF TakenOut
<1>3. Alone(i)
  BY <1>2 DEF Undisturbed, Alone
<1>4. CASE task[i].op = "leave"
  <2>1. r = task[i].r /\ g = task[i].g
    BY <1>4 DEF TakenOut
  <2> QED BY <1>1, <1>3, <1>4, <2>1 DEF OwnOK, LeaveOK
<1>5. CASE task[i].op = "delete"
  <2>1. r \in DOMAIN got[i].ids /\ g = task[i].g
    BY <1>5 DEF TakenOut
  <2>2. g \notin Members(r) /\ store[g] = Absent
    BY <1>1, <1>3, <1>5, <2>1 DEF OwnOK, DeleteOK
  <2> QED BY <1>3, <2>2, AbsentMembers DEF Members
<1>6. CASE task[i].op = "remove"
  <2>1. TakenOut(i) = IF \A s, u \in got[i].read : s = u THEN {task[i].r} \X mergeSiblings(got[i].read) ELSE {}
    BY <1>6 DEF TakenOut
  <2>2. r = task[i].r /\ g \in mergeSiblings(got[i].read) /\ \A s, u \in got[i].read : s = u
    BY <2>1
  <2>3. /\ got[i].ids = <<>> /\ got[i].groups = <<>>
        /\ got[i].ids = <<>> => store[task[i].r] = Absent
        /\ (\A s, t \in got[i].read : s = t) =>
             \A h \in mergeSiblings(got[i].read) \ DOMAIN got[i].groups : task[i].r \notin Members(h)
    BY <1>1, <1>3, <1>6 DEF OwnOK, RemoveOK
  <2>4. DOMAIN got[i].groups = {}
    BY <2>3, NothingIsEmpty
  <2> QED BY <1>3, <2>2, <2>3, <2>4, AbsentMembers DEF Members
<1> QED BY <1>2, <1>4, <1>5, <1>6

\* An operation is through.
LEMMA ClearInv ==
  ASSUME IndexInv, NEW i \in Ops, Clear(i)
  PROVE  IndexInv'
<1>1. /\ TypesOK /\ PhaseOK /\ SiblingsOK /\ InOK /\ OutOK /\ CacheOK /\ at[i] = "clear" /\ i \in Active
      /\ store' = store /\ task' = task /\ failures' = failures
      /\ Drop(Dropped(i)) /\ met' = [met EXCEPT ![i] = {}] /\ got' = [got EXCEPT ![i] = Nothing]
      /\ \A j \in Ops : OwnOK(j)
  BY DEF IndexInv, Clear, Active, Forget
<1>2. task[i] \in Tasks
  BY <1>1, RunningKinds
<1>3. at' \in [Ops -> Places] /\ at'[i] = "done" /\ \A j \in Ops \ {i} : at'[j] = at[j]
  BY <1>1 DEF Clear, TypesOK, Places
<1>4. got' \in [Ops -> Found] /\ \A j \in Ops \ {i} : got'[j] = got[j]
  <2>1. Nothing \in Found
    BY NothingIsEmpty, ReadsMake DEF Nothing, Found, Absent, Reads
  <2> QED BY <1>1, <2>1 DEF TypesOK
<1>5. met' \in [Ops -> SUBSET Ops] /\ met'[i] = {} /\ \A j \in Ops \ {i} : met'[j] = met[j]
  BY <1>1 DEF TypesOK
<1>6. PICK keys \in SUBSET Keys : keys = Dropped(i)
  BY <1>1, DroppedAreKeys
<1>7. /\ cache' = [k \in Keys |-> IF k \in keys THEN NotCached ELSE cache[k]]
      /\ raced' = raced \ keys /\ spoiled' = spoiled \cup Reading(keys)
  BY <1>1, <1>6 DEF Drop
<1>8. ASSUME NEW p \in Resources \X Groups
      PROVE  /\ expected'[p] = "in" => expected[p] = "in" \/
                  (Undisturbed(i) /\ task[i].op = "join" /\ p \in Touched(task[i]))
             /\ expected'[p] = "out" => expected[p] = "out" \/ (Undisturbed(i) /\ ~Failed(i) /\ p \in TakenOut(i))
             /\ expected'[p] \in {"in", "out", "any"}
  <2>1. expected'[p] = IF ~Undisturbed(i) \/ Failed(i) THEN expected[p]
                       ELSE IF task[i].op = "join" /\ p \in Touched(task[i]) THEN "in"
                       ELSE IF p \in TakenOut(i) THEN "out" ELSE expected[p]
    BY DEF Clear, Failed
  <2>2. expected[p] \in {"in", "out", "any"}
    BY <1>1 DEF TypesOK
  <2> QED BY <2>1, <2>2
<1>9. TypesOK'
  <2>1. expected' \in [Resources \X Groups -> {"in", "out", "any"}]
    <3>1. expected' = [p \in Resources \X Groups |-> expected'[p]]
      BY DEF Clear
    <3> QED BY <1>8, <3>1
  <2>2. cache' \in [Keys -> {NotCached} \cup SUBSET Records]
    BY <1>1, <1>7 DEF TypesOK
  <2>3. raced' \subseteq Keys /\ spoiled' \subseteq Ops
    BY <1>1, <1>7 DEF TypesOK, Reading
  <2> QED BY <1>1, <1>3, <1>4, <1>5, <2>1, <2>2, <2>3 DEF TypesOK
<1>10. Frame(i)
  BY <1>1, <1>3, <1>4, <1>5 DEF Frame
<1>11. PhaseOK'
  <2>1. at'[i] \in Ended
    BY <1>3 DEF Ended
  <2> QED BY <1>1, <1>10, <2>1, PhaseKept
<1>12. Effect(i)
  <2>1. ToWrite(i)' = {}
    BY <1>3 DEF ToWrite
  <2>2. \A k \in Records : ReadOf(i, k)' = {}
    BY <1>3 DEF ReadOf
  <2> QED BY <1>1, <1>10, <2>1, <2>2 DEF Effect
<1>13. SiblingsOK'
  BY <1>1, <1>9, <1>12, SiblingsKept
<1>14. \A j \in Active' : j \in Active /\ j # i /\ j \in met[i] /\ j \in Ops
  BY <1>1, <1>3, <1>10, ActiveBefore DEF Active, PhaseOK
<1>15. \A k : Members(k)' = Members(k)
  BY <1>1 DEF Members, mergeSiblings
<1>16. InOK'
  <2> SUFFICES ASSUME NEW r \in Resources, NEW g \in Groups, expected'[<<r, g>>] = "in"
               PROVE  /\ g \in Members(r)' /\ r \in Members(g)'
                      /\ \A j \in Active' : task'[j].op = "join" \/ <<r, g>> \notin Touched(task'[j])
    BY DEF InOK
  <2>1. CASE expected[<<r, g>>] = "in"
    BY <1>1, <1>12, <2>1, InKept
  <2>2. CASE Undisturbed(i) /\ task[i].op = "join" /\ <<r, g>> \in Touched(task[i])
    <3>1. r = task[i].r /\ g = task[i].g
      BY <2>2 DEF Touched
    <3>2. g \in Members(r) /\ r \in Members(g)
      BY <1>1, <2>2, <3>1 DEF OwnOK, JoinOK
    <3>3. \A j \in met[i] : task[j].op = "join" \/ <<r, g>> \notin Touched(task[j])
      BY <2>2 DEF Undisturbed
    <3> QED BY <1>1, <1>14, <1>15, <3>2, <3>3
  <2> QED BY <1>8, <2>1, <2>2
<1>17. ASSUME NEW r \in Resources, NEW g \in Groups, expected'[<<r, g>>] = "out"
       PROVE  /\ g \notin Members(r)' /\ r \notin Members(g)'
              /\ \A j \in Active' : /\ <<r, g>> \notin Touched(task'[j])
                                    /\ g \notin mergeSiblings(ReadOf(j, r)') /\ r \notin mergeSiblings(ReadOf(j, g)')
  <2>1. CASE expected[<<r, g>>] = "out"
    BY <1>1, <1>12, <2>1, OutKept
  <2>2. CASE Undisturbed(i) /\ ~Failed(i) /\ <<r, g>> \in TakenOut(i)
    <3>1. Alone(i) /\ g \notin Members(r) /\ r \notin Members(g)
      BY <1>1, <2>2, TakenOutAre
    <3>2. ASSUME NEW j \in Active'
          PROVE  /\ <<r, g>> \notin Touched(task'[j])
                 /\ g \notin mergeSiblings(ReadOf(j, r)') /\ r \notin mergeSiblings(ReadOf(j, g)')
      <4>1. j \in Active /\ j # i /\ j \in Ops /\ task[j].op = "query"
        BY <1>14, <3>1 DEF Alone
      <4>2. at'[j] \in {"ask", "fill"}
        BY <1>1, <1>3, <4>1, RunningKinds
      <4>3. ReadOf(j, r)' = {} /\ ReadOf(j, g)' = {}
        BY <4>2 DEF ReadOf
      <4>4. Touched(task'[j]) = {}
        BY <1>1, <4>1 DEF Touched
      <4> QED BY <4>3, <4>4 DEF mergeSiblings
    <3> QED BY <1>15, <3>1, <3>2
  <2> QED BY <1>8, <1>17, <2>1, <2>2
<1>18. OutOK'
  <2>1. \A j, k : mergeSiblings(ReadOf(j, k))' = mergeSiblings(ReadOf(j, k)')
    BY DEF mergeSiblings
  <2> QED BY <1>17, <2>1 DEF OutOK
<1>19. \A j \in Ops : OwnOK(j)'
  <2>1. OwnOK(i)'
    BY <1>3 DEF OwnOK, Active
  <2>2. \A j \in Ops \ {i} : OwnOK(j)'
    BY <1>1, <1>12, OwnKept
  <2> QED BY <2>1, <2>2
<1>20. ASSUME NEW k \in Claimed \ keys, NEW a, Current(k, a) PROVE Fits(k, a)' \/ \E j \in Ending' : k \in Dropped(j)'
  <2>1. ~Covers(i, k)
    BY <1>6 DEF Covers
  <2> QED BY <1>1, <1>3, <1>4, <1>20, <2>1, CurrentKept
<1>21. Claimed' = Claimed /\ Claimed \subseteq Keys
  BY ClaimedAreKeys
<1>22. ASSUME NEW k \in Claimed \ raced', cache'[k] # NotCached PROVE Current(k, cache[k])'
  <2>1. k \in Keys \ keys /\ k \notin raced /\ cache'[k] = cache[k]
    BY <1>7, <1>21, <1>22
  <2>2. PICK a : a = cache[k] /\ Current(k, a)
    BY <1>1, <1>22, <2>1 DEF CacheOK
  <2>3. Fits(k, a)' \/ \E j \in Ending' : k \in Dropped(j)'
    BY <1>20, <1>22, <2>1, <2>2
  <2> QED BY <2>1, <2>2, <2>3 DEF Current
<1>23. ASSUME NEW j \in Ops, at'[j] = "fill", j \notin spoiled', KeyOf(j)' \in Claimed
       PROVE  Current(KeyOf(j), got[j].answer)'
  <2>1. j # i /\ at[j] = "fill" /\ j \notin spoiled /\ KeyOf(j) \notin keys
    BY <1>3, <1>7, <1>23 DEF Reading
  <2>2. KeyOf(j)' = KeyOf(j) /\ got'[j] = got[j]
    BY <1>1, <1>4, <2>1 DEF KeyOf
  <2>3. PICK k \in Claimed : k = KeyOf(j) /\ k = KeyOf(j)'
    BY <1>23, <2>2
  <2>4. PICK a : a = got[j].answer /\ Current(k, a)
    BY <1>1, <2>1, <2>3 DEF CacheOK
  <2>5. Fits(k, a)' \/ \E l \in Ending' : k \in Dropped(l)'
    BY <1>20, <2>1, <2>3, <2>4
  <2> QED BY <2>2, <2>3, <2>4, <2>5 DEF Current
<1>24. CacheOK'
  BY <1>21, <1>22, <1>23 DEF CacheOK
<1> QED BY <1>9, <1>11, <1>13, <1>16, <1>18, <1>19, <1>24 DEF IndexInv

\* A client asks for an operation.
LEMMA BeginInv ==
  ASSUME IndexInv, NEW i \in Ops, NEW t \in Tasks, Begin(i, t)
  PROVE  IndexInv'
<1>1. /\ TypesOK /\ PhaseOK /\ SiblingsOK /\ InOK /\ OutOK /\ CacheOK /\ at[i] = "idle" /\ i \notin Active
      /\ store' = store /\ cache' = cache /\ got' = got /\ failures' = failures
      /\ raced' = raced /\ spoiled' = spoiled /\ task' = [task EXCEPT ![i] = t]
      /\ met' = [j \in Ops |-> IF j = i THEN Active ELSE IF j \in Active THEN met[j] \cup {i} ELSE met[j]]
      /\ expected' = [p \in Resources \X Groups |-> IF p \in Touched(t) THEN "any" ELSE expected[p]]
  BY DEF IndexInv, Begin, Active
<1>2. t.op \in {"join", "leave", "create", "delete", "add", "remove", "query"}
  BY TaskKinds
<1>3. PICK pc : /\ pc = CASE t.op \in {"join", "query"} -> "ask"
                          [] t.op \in {"leave", "add", "remove"} -> "id"
                          [] t.op = "create" -> "tree"
                          [] t.op = "delete" -> "list"
                /\ at' = [at EXCEPT ![i] = pc]
  BY DEF Begin
<1>4. pc \in {"ask", "id", "tree", "list"} /\ pc \in Phases(t.op) /\ (pc = "tree" => t.op = "create")
  BY <1>2, <1>3 DEF Phases
<1>5. at' \in [Ops -> Places] /\ at'[i] = pc /\ \A j \in Ops \ {i} : at'[j] = at[j]
  BY <1>1, <1>3, <1>4 DEF TypesOK, Places
<1>6. task' \in [Ops -> {NoTask} \cup Tasks] /\ task'[i] = t /\ \A j \in Ops \ {i} : task'[j] = task[j]
  BY <1>1 DEF TypesOK
<1>7. Active' = Active \cup {i} /\ Active \subseteq Ops
  BY <1>4, <1>5 DEF Active
<1>8. /\ met' \in [Ops -> SUBSET Ops] /\ met'[i] = Active
      /\ \A j \in Ops \ {i} : met'[j] = IF j \in Active THEN met[j] \cup {i} ELSE met[j]
  BY <1>1, <1>7 DEF TypesOK
<1>9. TypesOK'
  <2>1. expected' \in [Resources \X Groups -> {"in", "out", "any"}]
    BY <1>1 DEF TypesOK
  <2> QED BY <1>1, <1>5, <1>6, <1>8, <2>1 DEF TypesOK
<1>10. ASSUME NEW j \in Ops
       PROVE  /\ at'[j] # "idle" => task'[j] \in Tasks /\ at'[j] \in Phases(task'[j].op) \cup Ended
              /\ \A l \in met'[j] : at'[l] # "idle"
              /\ j \in Active' => \A l \in Active' \ {j} : l \in met'[j]
  <2>1. \A l \in Ops : at[l] # "idle" => l # i /\ at'[l] # "idle"
    BY <1>1, <1>5
  <2>2. \A l \in Active : at[l] # "idle" /\ l \in Ops
    BY DEF Active
  <2>3. at'[i] # "idle"
    BY <1>4, <1>5
  <2>4. CASE j = i
    BY <1>4, <1>5, <1>6, <1>7, <1>8, <2>1, <2>2, <2>4
  <2>5. CASE j # i
    <3>1. at'[j] # "idle" => task'[j] \in Tasks /\ at'[j] \in Phases(task'[j].op) \cup Ended
      BY <1>1, <1>5, <1>6, <2>5 DEF PhaseOK
    <3>2. \A l \in met[j] : l \in Ops /\ at[l] # "idle"
      BY <1>1 DEF PhaseOK, TypesOK
    <3>3. \A l \in met'[j] : at'[l] # "idle"
      BY <1>8, <2>1, <2>3, <2>5, <3>2
    <3>4. j \in Active' => \A l \in Active' \ {j} : l \in met'[j]
      BY <1>1, <1>7, <1>8, <2>5 DEF PhaseOK
    <3> QED BY <3>1, <3>3, <3>4
  <2> QED BY <2>4, <2>5
<1>11. PhaseOK'
  BY <1>10 DEF PhaseOK
<1>12. \A k : Members(k)' = Members(k)
  BY <1>1 DEF Members, mergeSiblings
<1>13. ASSUME NEW j \in Ops PROVE \A k : ReadOf(j, k)' = ReadOf(j, k)
  <2>1. CASE j = i
    <3>1. \A k : ReadOf(j, k)' = {}
      BY <1>4, <1>5, <2>1 DEF ReadOf
    <3>2. \A k : ReadOf(j, k) = {}
      BY <1>1, <2>1 DEF ReadOf
    <3> QED BY <3>1, <3>2
  <2>2. CASE j # i
    <3>1. at'[j] = at[j] /\ task'[j] = task[j] /\ got' = got
      BY <1>1, <1>5, <1>6, <2>2
    <3> QED BY <3>1 DEF ReadOf, Parents
  <2> QED BY <2>1, <2>2
<1>14. ASSUME NEW j \in Ops PROVE ToWrite(j)' \cap Records \subseteq ToWrite(j)
  <2>1. CASE j = i
    <3>1. ToWrite(i) = Records
      BY <1>1 DEF ToWrite
    <3> QED BY <2>1, <3>1
  <2>2. CASE j # i
    <3>1. at'[j] = at[j] /\ task'[j] = task[j] /\ got' = got
      BY <1>1, <1>5, <1>6, <2>2
    <3> QED BY <3>1 DEF ToWrite
  <2> QED BY <2>1, <2>2
<1>15. SiblingsOK'
  <2>1. \A k, s : Seen(k, s)' <=> Seen(k, s)
    BY <1>1, <1>13 DEF Seen
  <2> SUFFICES ASSUME NEW k \in Records, NEW s \in Siblings, Seen(k, s)'
               PROVE  /\ s.set \subseteq Others(k) /\ (s.by = 0 \/ k \notin ToWrite(s.by)')
                      /\ \A u \in Siblings : Seen(k, u)' /\ s.by = u.by => s = u
    BY DEF SiblingsOK, Others
  <2>2. s.by = 0 \/ s.by \in Ops
    <3>1. MaxOps \in Nat
      BY IndexAssumption
    <3> QED BY <3>1 DEF Siblings, Ops
  <2>3. /\ s.set \subseteq Others(k) /\ (s.by = 0 \/ k \notin ToWrite(s.by))
        /\ \A u \in Siblings : Seen(k, u) /\ s.by = u.by => s = u
    BY <1>1, <2>1 DEF SiblingsOK
  <2> QED BY <1>14, <2>1, <2>2, <2>3
<1>16. ASSUME NEW r \in Resources, NEW g \in Groups, expected'[<<r, g>>] \in {"in", "out"}
       PROVE  expected[<<r, g>>] = expected'[<<r, g>>] /\ <<r, g>> \notin Touched(t)
  BY <1>1, <1>16
<1>17. InOK'
  <2> SUFFICES ASSUME NEW r \in Resources, NEW g \in Groups, expected'[<<r, g>>] = "in"
               PROVE  /\ g \in Members(r)' /\ r \in Members(g)'
                      /\ \A j \in Active' : task'[j].op = "join" \/ <<r, g>> \notin Touched(task'[j])
    BY DEF InOK
  <2>1. expected[<<r, g>>] = "in" /\ <<r, g>> \notin Touched(t)
    BY <1>16
  <2>2. /\ g \in Members(r) /\ r \in Members(g)
        /\ \A j \in Active : task[j].op = "join" \/ <<r, g>> \notin Touched(task[j])
    BY <1>1, <2>1 DEF InOK
  <2>3. \A j \in Active' : task'[j].op = "join" \/ <<r, g>> \notin Touched(task'[j])
    BY <1>1, <1>6, <1>7, <2>1, <2>2
  <2> QED BY <1>12, <2>2, <2>3
<1>18. ASSUME NEW r \in Resources, NEW g \in Groups, expected'[<<r, g>>] = "out"
       PROVE  /\ g \notin Members(r)' /\ r \notin Members(g)'
              /\ \A j \in Active' : /\ <<r, g>> \notin Touched(task'[j])
                                    /\ g \notin mergeSiblings(ReadOf(j, r)') /\ r \notin mergeSiblings(ReadOf(j, g)')
  <2>1. expected[<<r, g>>] = "out" /\ <<r, g>> \notin Touched(t)
    BY <1>16, <1>18
  <2>2. /\ g \notin Members(r) /\ r \notin Members(g)
        /\ \A j \in Active : /\ <<r, g>> \notin Touched(task[j])
                             /\ g \notin mergeSiblings(ReadOf(j, r)) /\ r \notin mergeSiblings(ReadOf(j, g))
    BY <1>1, <2>1 DEF OutOK
  <2>3. \A j \in Active : /\ <<r, g>> \notin Touched(task'[j])
                          /\ g \notin mergeSiblings(ReadOf(j, r)') /\ r \notin mergeSiblings(ReadOf(j, g)')
    BY <1>1, <1>6, <1>7, <1>13, <2>2
  <2>4. ReadOf(i, r)' = {} /\ ReadOf(i, g)' = {}
    BY <1>4, <1>5 DEF ReadOf
  <2>5. g \notin mergeSiblings(ReadOf(i, r)') /\ r \notin mergeSiblings(ReadOf(i, g)')
    BY <2>4 DEF mergeSiblings
  <2> QED BY <1>6, <1>7, <1>12, <2>1, <2>2, <2>3, <2>5
<1>19. OutOK'
  <2>1. \A j, k : mergeSiblings(ReadOf(j, k))' = mergeSiblings(ReadOf(j, k)')
    BY DEF mergeSiblings
  <2> QED BY <1>18, <2>1 DEF OutOK
<1>20. ASSUME NEW j \in Ops PROVE OwnOK(j)'
  <2>1. CASE j = i
    BY <1>4, <1>5, <1>6, <2>1 DEF OwnOK, JoinOK, LeaveOK, CreateOK, DeleteOK, RemoveOK, BelowOK
  <2>2. CASE j # i
    <3> SUFFICES ASSUME j \in Active' PROVE OwnOK(j)'
      BY DEF OwnOK
    <3>1. j \in Active /\ OwnOK(j) /\ JoinOK(j) /\ LeaveOK(j) /\ CreateOK(j) /\ DeleteOK(j) /\ RemoveOK(j) /\ BelowOK(j)
      BY <1>7, <2>2 DEF IndexInv, OwnOK
    <3>2. at'[j] = at[j] /\ task'[j] = task[j] /\ got' = got /\ store' = store /\ met[j] \subseteq met'[j]
      BY <1>1, <1>5, <1>6, <1>8, <2>2
    <3>3. \A l \in met[j] : task'[l] = task[l] /\ l \in met'[j]
      BY <1>1, <1>6, <3>2 DEF PhaseOK, TypesOK
    <3>4. (Undisturbed(j)' => Undisturbed(j)) /\ (Alone(j)' => Alone(j)) /\ (Failed(j)' <=> Failed(j))
      BY <3>2, <3>3 DEF Undisturbed, Alone, Failed
    <3>5. JoinOK(j)' /\ LeaveOK(j)' /\ CreateOK(j)'
      BY <1>12, <3>1, <3>2, <3>4 DEF JoinOK, LeaveOK, CreateOK
    <3>6. DeleteOK(j)'
      BY <1>12, <3>1, <3>2, <3>4 DEF DeleteOK
    <3>7. RemoveOK(j)'
      BY <1>12, <3>1, <3>2, <3>4 DEF RemoveOK, mergeSiblings
    <3>8. BelowOK(j)'
      BY <3>1, <3>2 DEF BelowOK, Below
    <3> QED BY <3>5, <3>6, <3>7, <3>8 DEF OwnOK
  <2> QED BY <2>1, <2>2
<1>21. \A k : ~Covers(i, k)
  BY <1>1 DEF Covers, Ending
<1>22. ASSUME NEW k \in Claimed, NEW a, Current(k, a) PROVE Fits(k, a)' \/ \E j \in Ending' : k \in Dropped(j)'
  BY <1>1, <1>5, <1>6, <1>21, <1>22, CurrentKept
<1>23. Claimed' = Claimed /\ Claimed \subseteq Keys
  BY ClaimedAreKeys
<1>24. ASSUME NEW k \in Claimed \ raced', cache'[k] # NotCached PROVE Current(k, cache[k])'
  <2>1. PICK a : a = cache[k] /\ Current(k, a)
    BY <1>1, <1>24 DEF CacheOK
  <2>2. Fits(k, a)' \/ \E j \in Ending' : k \in Dropped(j)'
    BY <1>22, <2>1
  <2> QED BY <1>1, <2>1, <2>2 DEF Current
<1>25. ASSUME NEW j \in Ops, at'[j] = "fill", j \notin spoiled', KeyOf(j)' \in Claimed
       PROVE  Current(KeyOf(j), got[j].answer)'
  <2>1. j # i /\ at[j] = "fill" /\ j \notin spoiled
    BY <1>1, <1>4, <1>5, <1>25
  <2>2. KeyOf(j)' = KeyOf(j)
    BY <1>6, <2>1 DEF KeyOf
  <2>3. PICK k \in Claimed : k = KeyOf(j) /\ k = KeyOf(j)'
    BY <1>25, <2>2
  <2>4. PICK a : a = got[j].answer /\ Current(k, a)
    BY <1>1, <2>1, <2>3 DEF CacheOK
  <2>5. Fits(k, a)' \/ \E l \in Ending' : k \in Dropped(l)'
    BY <1>22, <2>4
  <2> QED BY <1>1, <2>3, <2>4, <2>5 DEF Current
<1>26. CacheOK'
  BY <1>23, <1>24, <1>25 DEF CacheOK
<1> QED BY <1>9, <1>11, <1>15, <1>17, <1>19, <1>20, <1>26 DEF IndexInv

-----------------------------------------------------------------------------
(* The theorems *)

\* At first the records agree, and nothing is cached or under way.
LEMMA InitInv ==
  ASSUME IndexInit
  PROVE  IndexInv
<1>1. MaxOps \in Nat /\ InitialGroups \in [Resources -> SUBSET Groups]
  BY IndexAssumption
<1>2. /\ cache = [k \in Keys |-> NotCached]
      /\ task = [i \in Ops |-> NoTask] /\ at = [i \in Ops |-> "idle"]
      /\ got = [i \in Ops |-> Nothing] /\ failures = 0
      /\ met = [i \in Ops |-> {}] /\ spoiled = {} /\ raced = {}
      /\ expected = [p \in Resources \X Groups |-> IF p[2] \in InitialGroups[p[1]] THEN "in" ELSE "out"]
  BY DEF IndexInit
<1>3. /\ \A r \in Resources : store[r] = {[by |-> 0, set |-> InitialGroups[r]]}
      /\ \A g \in Groups : store[g] = {[by |-> 0, set |-> {r \in Resources : g \in InitialGroups[r]}]}
  BY RecordsSplit DEF IndexInit
<1>4. \A k \in Records : \E set \in SUBSET Others(k) : store[k] = {[by |-> 0, set |-> set]}
  <2>1. \A r \in Resources : InitialGroups[r] \in SUBSET Groups /\ Others(r) = Groups
    BY <1>1 DEF Others
  <2>2. \A g \in Groups : {r \in Resources : g \in InitialGroups[r]} \in SUBSET Resources /\ Others(g) = Resources
    BY RecordsSplit DEF Others
  <2> QED BY <1>3, <2>1, <2>2, RecordsSplit
<1>5. \A k \in Records : store[k] \in Reads /\ \A s \in store[k] : s.by = 0 /\ s.set \subseteq Others(k)
  <2> SUFFICES ASSUME NEW k \in Records PROVE store[k] \in Reads /\ \A s \in store[k] : s.by = 0 /\ s.set \subseteq Others(k)
    OBVIOUS
  <2>1. PICK set \in SUBSET Others(k) : store[k] = {[by |-> 0, set |-> set]}
    BY <1>4
  <2>2. set \in SUBSET Records /\ 0 \in 0..MaxOps
    BY <1>1, RecordsSplit DEF Others
  <2> QED BY <2>1, <2>2 DEF Reads, Siblings
<1>6. TypesOK
  <2>1. store \in [Records -> Reads]
    <3>1. store = [k \in Records |-> store[k]]
      BY DEF IndexInit
    <3> QED BY <1>5, <3>1
  <2>2. got \in [Ops -> Found]
    <3>1. Nothing \in Found
      BY NothingIsEmpty, ReadsMake DEF Nothing, Found, Absent, Reads
    <3> QED BY <1>2, <3>1
  <2>3. at \in [Ops -> Places]
    BY <1>2 DEF Places
  <2> QED BY <1>1, <1>2, <2>1, <2>2, <2>3 DEF TypesOK
<1>7. Active = {} /\ \A i \in Ops : at[i] = "idle"
  BY <1>2 DEF Active
<1>8. PhaseOK
  BY <1>2, <1>7 DEF PhaseOK
<1>9. SiblingsOK
  <2>1. \A i \in Ops, k \in Records : ReadOf(i, k) = {}
    BY <1>7 DEF ReadOf
  <2> SUFFICES ASSUME NEW k \in Records, NEW s \in Siblings, Seen(k, s)
               PROVE  /\ s.set \subseteq Others(k) /\ s.by = 0
                      /\ \A t \in Siblings : Seen(k, t) => s = t
    BY DEF SiblingsOK
  <2>2. \A t \in Siblings : Seen(k, t) => t \in store[k]
    BY <2>1 DEF Seen
  <2>3. \A t \in store[k] : s = t
    BY <1>4, <2>2
  <2> QED BY <1>5, <2>2, <2>3
<1>10. ASSUME NEW r \in Resources, NEW g \in Groups
       PROVE  /\ expected[<<r, g>>] = "in" => g \in Members(r) /\ r \in Members(g)
              /\ expected[<<r, g>>] = "out" => g \notin Members(r) /\ r \notin Members(g)
  <2> DEFINE one(set) == {[by |-> 0, set |-> set]}
  <2>0. \A set : mergeSiblings(one(set)) = set
    BY DEF mergeSiblings
  <2> HIDE DEF one
  <2>1. Members(r) = InitialGroups[r]
    <3>1. store[r] = one(InitialGroups[r])
      BY <1>3 DEF one
    <3> QED BY <2>0, <3>1 DEF Members
  <2>2. Members(g) = {q \in Resources : g \in InitialGroups[q]}
    <3>1. store[g] = one({q \in Resources : g \in InitialGroups[q]})
      BY <1>3 DEF one
    <3> QED BY <2>0, <3>1 DEF Members
  <2>3. expected[<<r, g>>] = IF g \in InitialGroups[r] THEN "in" ELSE "out"
    BY <1>2
  <2> QED BY <2>1, <2>2, <2>3
<1>11. InOK /\ OutOK
  BY <1>7, <1>10 DEF InOK, OutOK
<1>12. \A i \in Ops : OwnOK(i)
  BY <1>7 DEF OwnOK
<1>13. CacheOK
  <2>1. \A key \in Claimed : cache[key] = NotCached
    BY <1>2, ClaimedAreKeys
  <2> QED BY <1>7, <2>1 DEF CacheOK
<1> QED BY <1>6, <1>8, <1>9, <1>11, <1>12, <1>13 DEF IndexInv

\* The next state.
LEMMA NextInv ==
  ASSUME IndexInv, [IndexNext]_indexVars
  PROVE  IndexInv'
<1>1. CASE UNCHANGED indexVars
  BY <1>1, StutterInv
<1>2. CASE \E key \in Keys : Expire(key)
  BY <1>2, ExpireInv
<1>7. CASE \E r \in Resources : Expand(r)
  BY <1>7, ExpandInv
<1>3. ASSUME NEW i \in Ops, NEW t \in Asked, Begin(i, t) PROVE IndexInv'
  <2>1. t \in Tasks
    BY IndexAssumption
  <2> QED BY <1>3, <2>1, BeginInv
<1>4. ASSUME NEW i \in Ops, NEW g \in Groups, RemoveReadsGroup(i, g) \/ RemoveLeavesGroup(i, g) \/ FailLeave(i, g)
      PROVE  IndexInv'
  BY <1>4, RemoveReadsGroupInv, RemoveLeavesGroupInv, FailLeaveInv
<1>5. ASSUME NEW i \in Ops,
             \/ Clear(i) \/ Lookup(i) \/ Fill(i) \/ IdGet(i) \/ IdPut(i) \/ TreeGet(i) \/ TreePut(i)
             \/ RemoveReads(i) \/ RemoveErases(i) \/ Fail(i) \/ FailErase(i)
      PROVE  IndexInv'
  BY <1>5, ClearInv, LookupInv, FillInv, IdGetInv, IdPutInv, TreeGetInv, TreePutInv,
     RemoveReadsInv, RemoveErasesInv, FailInv, FailEraseInv
<1>6. ASSUME NEW i \in Ops,
             \/ DeleteList(i) \/ DeleteReadsIds(i) \/ DeleteWritesIds(i) \/ DeleteReadsBelow(i)
             \/ DeleteReadsParent(i) \/ DeleteWritesParent(i) \/ DeleteErases(i)
      PROVE  IndexInv'
  BY <1>6, DeleteListInv, DeleteReadsIdsInv, DeleteWritesIdsInv, DeleteReadsBelowInv,
     DeleteReadsParentInv, DeleteWritesParentInv, DeleteErasesInv
<1> QED BY <1>1, <1>2, <1>3, <1>4, <1>5, <1>6, <1>7 DEF IndexNext

\* The invariant holds throughout.
LEMMA IndexInvHolds == IndexSpec => []IndexInv
<1>1. IndexInit => IndexInv
  BY InitInv
<1>2. IndexInv /\ [IndexNext]_indexVars => IndexInv'
  BY NextInv
<1> QED BY <1>1, <1>2, PTL DEF IndexSpec

\* No join is lost and no leave comes back, whatever else is done with the same
\* resource and the same group, however many operations there are, whichever of
\* their requests fail and whenever their answers come.
THEOREM MembershipKept == IndexSpec => []MembershipIsKept
<1>1. ASSUME IndexInv PROVE MembershipIsKept
  <2>1. TypesOK /\ InOK /\ OutOK
    BY <1>1 DEF IndexInv
  <2>2. ASSUME NEW i \in Ops
        PROVE  /\ got[i].read \subseteq Siblings /\ got[i].answer \in {NotCached} \cup SUBSET Records
               /\ DOMAIN got[i].ids \subseteq Resources /\ DOMAIN got[i].groups \subseteq Groups
               /\ got[i].failed \in BOOLEAN
    <3>1. got[i] \in Found
      BY <2>1 DEF TypesOK
    <3> QED BY <3>1 DEF Found, Reads, IdReads, GroupReads
  <2>3. IndexTypeOK
    BY <2>1, <2>2 DEF TypesOK, IndexTypeOK, Reads, Places
  <2> QED BY <2>1, <2>3 DEF InOK, OutOK, Members, MembershipIsKept
<1> QED BY <1>1, IndexInvHolds, PTL

\* Between operations a cached answer that is about a resource, or about a group
\* that no other group's name begins with but those below it, is what DeviceDB has,
\* and what is cached of getResources() exists, unless it is known to be stale.
THEOREM CacheCurrent == IndexSpec => []CacheIsCurrent
<1>1. ASSUME IndexInv PROVE CacheIsCurrent
  <2> SUFFICES ASSUME Active = {}
               PROVE  /\ \A key \in OwnKeys \ raced : cache[key] # NotCached => UpToDate(key, cache[key])
                      /\ Everything \notin raced /\ cache[Everything] # NotCached
                           => cache[Everything] \subseteq Value(Everything)
    BY DEF CacheIsCurrent
  <2>1. \A key \in Claimed \ raced : cache[key] # NotCached => Current(key, cache[key])
    BY <1>1 DEF IndexInv, CacheOK
  <2>2. Ending = {}
    BY DEF Ending, Active
  <2>3. \A key \in Claimed \ raced : cache[key] # NotCached => Fits(key, cache[key])
    BY <2>1, <2>2 DEF Current
  <2>4. OwnKeys \subseteq Claimed /\ Everything \in Claimed /\ Everything \notin OwnKeys
    BY DEF Claimed, OwnKeys
  <2> QED BY <2>3, <2>4 DEF Fits
<1> QED BY <1>1, IndexInvHolds, PTL
=============================================================================
