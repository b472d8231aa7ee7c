----------------------------- MODULE GossipProofs -----------------------------
(***************************************************************************)
(* What servers tell one another, the counts of their heartbeats and the   *)
(* tables of their links, and the routes they find in these, for every set *)
(* of servers and every bound.                                             *)
(***************************************************************************)
EXTENDS NodeMonitor, LinkStateTable, ShortestPaths,
        FiniteSetTheorems, WellFoundedInduction, TLAPS

(* Heartbeats: the invariant is CountsAreReal with the types it needs *)

MonitorInv ==
  /\ count \in [Nodes -> Counts]
  /\ \A n \in Nodes : n \in DOMAIN count[n]
  /\ msgs \subseteq Heartbeats
  /\ highest \in [Nodes -> 0..MaxCount]
  /\ CountsAreReal

\* A map of counts, and what it may say.
LEMMA CountsProperties ==
  ASSUME NEW map \in Counts
  PROVE  DOMAIN map \subseteq Nodes /\ \A m \in DOMAIN map : map[m] \in 0..MaxCount
BY DEF Counts

\* A function on some servers, with counts as values, is such a map.
LEMMA CountsMake ==
  ASSUME NEW map, NEW S, S \subseteq Nodes, map = [m \in S |-> map[m]], \A m \in S : map[m] \in 0..MaxCount
  PROVE  map \in Counts
BY DEF Counts

\* What merging two maps gives.
LEMMA Merged ==
  ASSUME NEW mine \in Counts, NEW theirs \in Counts,
         MaxCount \in Nat, NEW high \in [Nodes -> 0..MaxCount],
         \A m \in DOMAIN mine : mine[m] <= high[m],
         \A m \in DOMAIN theirs : theirs[m] <= high[m]
  PROVE  LET map == Merge(mine, theirs)
         IN  /\ map \in Counts /\ DOMAIN map = DOMAIN mine \cup DOMAIN theirs
             /\ \A m \in DOMAIN map : map[m] <= high[m]
<1> DEFINE map == Merge(mine, theirs)
           S == DOMAIN mine \cup DOMAIN theirs
<1>1. /\ DOMAIN mine \subseteq Nodes /\ \A m \in DOMAIN mine : mine[m] \in 0..MaxCount
      /\ DOMAIN theirs \subseteq Nodes /\ \A m \in DOMAIN theirs : theirs[m] \in 0..MaxCount
  BY CountsProperties
<1>2. map = [m \in S |-> map[m]] /\ DOMAIN map = S
  BY DEF Merge
<1>3. \A m \in S : map[m] \in 0..MaxCount /\ map[m] <= high[m]
  BY <1>1 DEF Merge, AtLeast
<1> HIDE DEF map, S
<1>4. S \subseteq Nodes
  BY <1>1 DEF S
<1>5. map \in Counts
  BY <1>2, <1>3, <1>4, CountsMake
<1> QED BY <1>2, <1>3, <1>5 DEF map, S

\* Heartbeat maps are merged into the one of server n, whoever they come from.
LEMMA MergeStep ==
  ASSUME MonitorInv, NEW n \in Nodes, NEW theirs \in Counts,
         \A m \in DOMAIN theirs : theirs[m] <= highest[m],
         count' = [count EXCEPT ![n] = Merge(@, theirs)],
         highest' = [highest EXCEPT ![n] = AtLeast(@, count'[n][n])],
         msgs' \subseteq msgs
  PROVE  MonitorInv'
<1> DEFINE map == Merge(count[n], theirs)
<1>1. MaxCount \in Nat
  BY MonitorAssumption
<1>2. count[n] \in Counts /\ n \in DOMAIN count[n] /\ highest \in [Nodes -> 0..MaxCount]
      /\ \A m \in DOMAIN count[n] : count[n][m] <= highest[m]
  BY DEF MonitorInv, CountsAreReal
<1>3. map \in Counts /\ n \in DOMAIN map /\ \A m \in DOMAIN map : map[m] <= highest[m]
  BY <1>1, <1>2, Merged
<1>4. count' = [count EXCEPT ![n] = map]
  BY DEF MonitorInv
<1> HIDE DEF map
<1>5. count'[n] = map /\ count' \in [Nodes -> Counts] /\ \A m \in Nodes \ {n} : count'[m] = count[m]
  BY <1>3, <1>4 DEF MonitorInv
<1>6. map[n] \in 0..MaxCount /\ map[n] <= highest[n]
  BY <1>3, CountsProperties
<1>7. highest' = highest
  BY <1>1, <1>2, <1>5, <1>6 DEF AtLeast
<1>8. \A m \in Nodes : m \in DOMAIN count'[m] /\ \A k \in DOMAIN count'[m] : count'[m][k] <= highest'[k]
  BY <1>3, <1>5, <1>7 DEF MonitorInv, CountsAreReal
<1>9. \A h \in msgs' : \A m \in DOMAIN h.map : h.map[m] <= highest'[m]
  BY <1>7 DEF MonitorInv, CountsAreReal
<1> QED BY <1>2, <1>5, <1>7, <1>8, <1>9 DEF MonitorInv, CountsAreReal

\* A server counts on, and sends its map.
LEMMA TickStep ==
  ASSUME MonitorInv, NEW n \in Nodes, NEW to \in SUBSET Nodes, Tick(n, to)
  PROVE  MonitorInv'
<1> DEFINE map == [count[n] EXCEPT ![n] = AtMost(@ + 1, MaxCount)]
<1>1. PICK lost \in SUBSET to : msgs' = msgs \cup [from : {n}, to : to \ lost, map : {map}]
  BY DEF Tick
<1>2. count' = [count EXCEPT ![n] = map] /\ highest' = [highest EXCEPT ![n] = AtLeast(@, map[n])]
  BY DEF Tick
<1>3. MaxCount \in Nat
  BY MonitorAssumption
<1>4. /\ count[n] \in Counts /\ n \in DOMAIN count[n] /\ highest \in [Nodes -> 0..MaxCount]
      /\ \A m \in DOMAIN count[n] : count[n][m] <= highest[m]
  BY DEF MonitorInv, CountsAreReal
<1>5. DOMAIN count[n] \subseteq Nodes /\ \A m \in DOMAIN count[n] : count[n][m] \in 0..MaxCount
  BY <1>4, CountsProperties
<1>6. /\ DOMAIN map = DOMAIN count[n] /\ map = [m \in DOMAIN count[n] |-> map[m]]
      /\ map[n] = AtMost(count[n][n] + 1, MaxCount) /\ \A m \in DOMAIN count[n] \ {n} : map[m] = count[n][m]
  BY <1>4
<1> HIDE DEF map
<1>7. map[n] \in 0..MaxCount
  BY <1>3, <1>4, <1>5, <1>6 DEF AtMost
<1>8. map \in Counts
  <2>1. \A m \in DOMAIN count[n] : map[m] \in 0..MaxCount
    BY <1>5, <1>6, <1>7
  <2> QED BY <1>5, <1>6, <2>1, CountsMake
<1>9. /\ highest' \in [Nodes -> 0..MaxCount] /\ highest'[n] >= map[n]
      /\ \A m \in Nodes : highest'[m] >= highest[m]
  BY <1>2, <1>3, <1>4, <1>7 DEF AtLeast
<1>10. \A m \in DOMAIN map : map[m] <= highest'[m]
  <2> TAKE m \in DOMAIN map
  <2>1. CASE m = n
    BY <1>3, <1>7, <1>9, <2>1
  <2>2. CASE m # n
    <3>1. map[m] = count[n][m] /\ count[n][m] \in 0..MaxCount /\ count[n][m] <= highest[m] /\ m \in Nodes
      BY <1>4, <1>5, <1>6, <2>2
    <3>2. highest[m] \in 0..MaxCount /\ highest'[m] \in 0..MaxCount
      BY <1>4, <1>9, <3>1
    <3> QED BY <1>3, <1>9, <3>1, <3>2
  <2> QED BY <2>1, <2>2
<1>11. count' \in [Nodes -> Counts] /\ count'[n] = map /\ \A m \in Nodes \ {n} : count'[m] = count[m]
  BY <1>2, <1>8 DEF MonitorInv
<1>12. ASSUME NEW k \in Counts, \A m \in DOMAIN k : k[m] <= highest[m]
       PROVE  \A m \in DOMAIN k : k[m] <= highest'[m]
  <2> TAKE m \in DOMAIN k
  <2>1. k[m] \in 0..MaxCount /\ m \in Nodes
    BY CountsProperties
  <2>2. highest[m] \in 0..MaxCount /\ highest'[m] \in 0..MaxCount /\ highest'[m] >= highest[m]
    BY <1>4, <1>9, <2>1
  <2> QED BY <1>3, <1>12, <2>1, <2>2
<1>13. \A m \in Nodes : m \in DOMAIN count'[m] /\ \A k \in DOMAIN count'[m] : count'[m][k] <= highest'[k]
  <2> TAKE m \in Nodes
  <2>1. CASE m = n
    BY <1>4, <1>6, <1>10, <1>11, <2>1
  <2>2. CASE m # n
    <3>1. count'[m] = count[m] /\ count[m] \in Counts /\ m \in DOMAIN count[m]
          /\ \A k \in DOMAIN count[m] : count[m][k] <= highest[k]
      BY <1>11, <2>2 DEF MonitorInv, CountsAreReal
    <3> QED BY <1>12, <3>1
  <2> QED BY <2>1, <2>2
<1>14. \A h \in msgs' : h \in Heartbeats /\ \A m \in DOMAIN h.map : h.map[m] <= highest'[m]
  <2> TAKE h \in msgs'
  <2>1. CASE h \in msgs
    <3>1. h \in Heartbeats /\ h.map \in Counts /\ \A m \in DOMAIN h.map : h.map[m] <= highest[m]
      BY <2>1 DEF MonitorInv, CountsAreReal, Heartbeats
    <3> QED BY <1>12, <3>1
  <2>2. CASE h \in [from : {n}, to : to \ lost, map : {map}]
    <3>1. h.map = map /\ h \in Heartbeats
      BY <1>8, <2>2 DEF Heartbeats
    <3> QED BY <1>10, <3>1
  <2> QED BY <1>1, <2>1, <2>2
<1> QED BY <1>9, <1>11, <1>13, <1>14 DEF MonitorInv, CountsAreReal

\* A server starts again at 0.
LEMMA MonitorRestartStep ==
  ASSUME MonitorInv, NEW n \in Nodes, Restart(n)
  PROVE  MonitorInv'
<1> DEFINE map == [m \in {n} |-> 0]
<1>1. count' = [count EXCEPT ![n] = map] /\ UNCHANGED <<msgs, highest>>
  BY DEF Restart
<1>2. DOMAIN map = {n} /\ map[n] = 0 /\ map = [m \in {n} |-> map[m]]
  OBVIOUS
<1>3. MaxCount \in Nat /\ highest \in [Nodes -> 0..MaxCount]
  BY MonitorAssumption DEF MonitorInv
<1> HIDE DEF map
<1>4. map \in Counts /\ \A m \in DOMAIN map : map[m] <= highest[m]
  <2>1. {n} \subseteq Nodes /\ \A m \in {n} : map[m] \in 0..MaxCount
    BY <1>2, <1>3
  <2>2. map \in Counts
    BY <1>2, <2>1, CountsMake
  <2> QED BY <1>2, <1>3, <2>2
<1>5. count' \in [Nodes -> Counts] /\ count'[n] = map /\ \A m \in Nodes \ {n} : count'[m] = count[m]
  BY <1>1, <1>4 DEF MonitorInv
<1>6. \A m \in Nodes : m \in DOMAIN count'[m] /\ \A k \in DOMAIN count'[m] : count'[m][k] <= highest[k]
  BY <1>2, <1>4, <1>5 DEF MonitorInv, CountsAreReal
<1> QED BY <1>1, <1>5, <1>6 DEF MonitorInv, CountsAreReal

\* Every step keeps the invariant of the heartbeats.
LEMMA MonitorNextInv == MonitorInv /\ [Next]_vars => MonitorInv'
<1> SUFFICES ASSUME MonitorInv, [Next]_vars PROVE MonitorInv'
  OBVIOUS
<1>1. ASSUME NEW h \in msgs, heartbeat(h) PROVE MonitorInv'
  <2>1. h.to \in Nodes /\ h.map \in Counts /\ \A m \in DOMAIN h.map : h.map[m] <= highest[m]
    BY DEF MonitorInv, CountsAreReal, Heartbeats
  <2>2. /\ count' = [count EXCEPT ![h.to] = Merge(@, h.map)] /\ msgs' \subseteq msgs
        /\ highest' = [highest EXCEPT ![h.to] = AtLeast(@, count'[h.to][h.to])]
    BY <1>1 DEF heartbeat
  <2> QED BY <2>1, <2>2, MergeStep
<1>2. ASSUME NEW n \in Nodes, NEW to \in SUBSET Nodes, Tick(n, to) PROVE MonitorInv'
  BY <1>2, TickStep
<1>3. ASSUME NEW n \in Nodes, Restart(n) PROVE MonitorInv'
  BY <1>3, MonitorRestartStep
<1>4. ASSUME NEW n \in Nodes, NEW m \in Nodes \ {n}, CloudHeartbeat(n, m) PROVE MonitorInv'
  <2>1. count[m] \in Counts /\ \A k \in DOMAIN count[m] : count[m][k] <= highest[k]
    BY DEF MonitorInv, CountsAreReal
  <2>2. /\ count' = [count EXCEPT ![n] = Merge(@, count[m])] /\ msgs' \subseteq msgs
        /\ highest' = [highest EXCEPT ![n] = AtLeast(@, count'[n][n])]
    BY <1>4 DEF CloudHeartbeat
  <2> QED BY <2>1, <2>2, MergeStep
<1>5. ASSUME NEW n \in Nodes, NEW m \in Nodes \ {n}, LinkDown(n, m) \/ LinkUp(n, m) PROVE MonitorInv'
  BY <1>5 DEF LinkDown, LinkUp, MonitorInv, CountsAreReal
<1>6. CASE UNCHANGED vars
  BY <1>6 DEF vars, MonitorInv, CountsAreReal
<1> QED BY <1>1, <1>2, <1>3, <1>4, <1>5, <1>6 DEF Next

\* And it holds at first.
LEMMA MonitorInitInv == Init => MonitorInv
<1> SUFFICES ASSUME Init PROVE MonitorInv
  OBVIOUS
<1>1. MaxCount \in Nat
  BY MonitorAssumption
<1>2. \A n \in Nodes : DOMAIN count[n] = {n} /\ count[n][n] = 0
  BY DEF Init
<1>3. \A n \in Nodes : count[n] \in Counts
  <2> TAKE n \in Nodes
  <2>1. {n} \subseteq Nodes /\ count[n][n] \in 0..MaxCount
    BY <1>1, <1>2
  <2>2. \A m \in {n} : count[n][m] \in 0..MaxCount
    BY <2>1
  <2>3. count[n] = [m \in {n} |-> count[n][m]]
    BY DEF Init
  <2> QED BY <2>1, <2>2, <2>3, CountsMake
<1>4. count \in [Nodes -> Counts]
  BY <1>3 DEF Init
<1>5. highest \in [Nodes -> 0..MaxCount] /\ \A n \in Nodes : highest[n] = 0
  BY <1>1 DEF Init
<1> QED BY <1>1, <1>2, <1>4, <1>5 DEF Init, MonitorInv, CountsAreReal

\* Nobody is ahead of what a server ever counted, for every set of servers,
\* however often they restart and whatever gets lost, late or passed on.
THEOREM RealCounts == Spec => []CountsAreReal
<1>1. Init => MonitorInv
  BY MonitorInitInv
<1>2. MonitorInv /\ [Next]_vars => MonitorInv'
  BY MonitorNextInv
<1>3. MonitorInv => CountsAreReal
  BY DEF MonitorInv
<1> QED BY <1>1, <1>2, <1>3, PTL DEF Spec

-----------------------------------------------------------------------------
(* Link state tables: the invariant *)

Entries == [neighbors : SUBSET Routers, sequenceNumber : Nat]
Tables == UNION {[S -> Entries] : S \in SUBSET Routers}
Digests == UNION {[S -> Nat] : S \in SUBSET Routers}
Asked == [at : {"asked"}, of : Routers, digest : Digests]
Told == [at : {"told"}, of : Routers, table : Tables, known : Digests]
Learned == [by : Routers, digest : Digests]

LinkTypes ==
  /\ reported \in [Routers -> Seq(SUBSET Routers)]
  /\ table \in [Routers -> Tables]
  /\ sync \in [Routers -> {NoSync} \cup Asked \cup Told]
  /\ learned \subseteq Learned

\* The entry e says what m reported under its number, by these reports.
Reports(reports, m, e) ==
  /\ e.sequenceNumber <= Len(reports[m])
  /\ e.sequenceNumber > 0 => e.neighbors = reports[m][e.sequenceNumber]

AllReported(reports, t) == \A m \in DOMAIN t : Reports(reports, m, t[m])

\* The table t knows at least what the digest has of m.
Knows(t, digest, m) == m \in DOMAIN t /\ t[m].sequenceNumber >= digest[m]

\* What n was asked about or told of: it still knows what its digest says, and
\* it knows, or will learn when it merges, what the other knew.
SyncOK(n) ==
  /\ sync[n] \in Asked => \A m \in DOMAIN sync[n].digest : Knows(table[n], sync[n].digest, m)
  /\ sync[n] \in Told =>
       /\ AllReported(reported, sync[n].table)
       /\ \A m \in DOMAIN sync[n].known :
            Knows(table[n], sync[n].known, m) \/ Knows(sync[n].table, sync[n].known, m)

NodeOK(n) ==
  /\ AllReported(reported, table[n])
  /\ n \in DOMAIN table[n] /\ Own(n).sequenceNumber = Len(reported[n])

LinkInv ==
  /\ LinkTypes
  /\ \A n \in Routers : NodeOK(n) /\ SyncOK(n)
  /\ SyncCatchesUp

-----------------------------------------------------------------------------
(* Lemmas about tables *)

\* What a table or a digest is.
LEMMA TableProperties ==
  /\ \A t \in Tables : DOMAIN t \subseteq Routers /\ \A m \in DOMAIN t : t[m] \in Entries
  /\ \A t \in Digests : DOMAIN t \subseteq Routers /\ \A m \in DOMAIN t : t[m] \in Nat
BY DEF Tables, Digests

\* A choice of entries is a table, a choice of numbers a digest.
LEMMA TablesMake ==
  ASSUME NEW t, NEW S, S \subseteq Routers, t = [m \in S |-> t[m]]
  PROVE  /\ (\A m \in S : t[m] \in Entries) => t \in Tables
         /\ (\A m \in S : t[m] \in Nat) => t \in Digests
BY DEF Tables, Digests

\* The kinds of synchronizations are told apart.
LEMMA SyncKinds ==
  /\ \A x \in Asked : x \notin Told /\ x # NoSync /\ x.at = "asked"
  /\ \A x \in Told : x \notin Asked /\ x # NoSync /\ x.at = "told"
  /\ NoSync \notin Asked /\ NoSync \notin Told
BY DEF Asked, Told, NoSync

\* What was reported stays reported: reports are only appended.
ReportsGrow ==
  \A m \in Routers : /\ Len(reported[m]) <= Len(reported'[m])
                     /\ \A i \in 1..Len(reported[m]) : reported'[m][i] = reported[m][i]

LEMMA ReportedStays ==
  ASSUME reported \in [Routers -> Seq(SUBSET Routers)], reported' \in [Routers -> Seq(SUBSET Routers)],
         ReportsGrow, NEW t \in Tables, AllReported(reported, t)
  PROVE  AllReported(reported', t)
<1> SUFFICES ASSUME NEW m \in DOMAIN t PROVE Reports(reported', m, t[m])
  BY DEF AllReported
<1>1. m \in Routers /\ t[m] \in Entries /\ Reports(reported, m, t[m])
  BY TableProperties DEF AllReported
<1>2. t[m].sequenceNumber \in Nat /\ Len(reported[m]) \in Nat /\ Len(reported'[m]) \in Nat
  BY <1>1 DEF Entries
<1>3. Len(reported[m]) <= Len(reported'[m]) /\ \A i \in 1..Len(reported[m]) : reported'[m][i] = reported[m][i]
  BY <1>1 DEF ReportsGrow
<1> QED BY <1>1, <1>2, <1>3 DEF Reports

\* No table forgets or goes back.
TablesGrow ==
  \A n \in Routers : \A m \in DOMAIN table[n] :
    m \in DOMAIN table'[n] /\ table'[n][m].sequenceNumber >= table[n][m].sequenceNumber

\* So a node that does not ask or merge keeps what its synchronization relies on.
LEMMA SyncKept ==
  ASSUME LinkInv, LinkTypes', ReportsGrow, TablesGrow, NEW n \in Routers, sync'[n] = sync[n]
  PROVE  SyncOK(n)'
<1>1. SyncOK(n) /\ LinkTypes
  BY DEF LinkInv
<1>2. ASSUME NEW digest \in Digests, NEW m \in DOMAIN digest, Knows(table[n], digest, m)
      PROVE  Knows(table'[n], digest, m)
  <2>1. table[n] \in Tables /\ table'[n] \in Tables
    BY <1>1 DEF LinkTypes
  <2>2. m \in DOMAIN table[n] /\ m \in DOMAIN table'[n]
        /\ table'[n][m].sequenceNumber >= table[n][m].sequenceNumber
        /\ table[n][m].sequenceNumber >= digest[m]
    BY <1>2 DEF Knows, TablesGrow
  <2>3. table[n][m] \in Entries /\ table'[n][m] \in Entries /\ digest[m] \in Nat
    BY <2>1, <2>2, TableProperties
  <2>4. table[n][m].sequenceNumber \in Nat /\ table'[n][m].sequenceNumber \in Nat
    BY <2>3 DEF Entries
  <2> QED BY <2>2, <2>3, <2>4 DEF Knows
<1>3. CASE sync[n] \in Asked
  <2>1. sync[n].digest \in Digests
    BY <1>3 DEF Asked
  <2>2. \A m \in DOMAIN sync[n].digest : Knows(table'[n], sync[n].digest, m)
    BY <1>1, <1>2, <1>3, <2>1 DEF SyncOK
  <2> QED BY <1>3, <2>2, SyncKinds DEF SyncOK
<1>4. CASE sync[n] \in Told
  <2>1. sync[n].known \in Digests /\ sync[n].table \in Tables
    BY <1>4 DEF Told
  <2>2. \A m \in DOMAIN sync[n].known :
          Knows(table'[n], sync[n].known, m) \/ Knows(sync[n].table, sync[n].known, m)
    BY <1>1, <1>2, <1>4, <2>1 DEF SyncOK
  <2>3. AllReported(reported, sync[n].table)
    BY <1>1, <1>4 DEF SyncOK
  <2>4. AllReported(reported', sync[n].table)
    BY <1>1, <2>1, <2>3, ReportedStays DEF LinkTypes
  <2> QED BY <1>4, <2>2, <2>4, SyncKinds DEF SyncOK
<1>5. CASE sync[n] = NoSync
  BY <1>5, SyncKinds DEF SyncOK
<1> QED BY <1>1, <1>3, <1>4, <1>5 DEF LinkTypes

\* A node whose table is not touched, and that reports nothing, is as it was.
LEMMA NodeKept ==
  ASSUME LinkInv, LinkTypes', ReportsGrow, NEW n \in Routers,
         table'[n] = table[n], reported'[n] = reported[n]
  PROVE  NodeOK(n)'
<1>1. NodeOK(n) /\ LinkTypes
  BY DEF LinkInv
<1>2. table[n] \in Tables /\ AllReported(reported, table[n])
  BY <1>1 DEF NodeOK, LinkTypes
<1>3. AllReported(reported', table[n])
  BY <1>1, <1>2, ReportedStays DEF LinkTypes
<1> QED BY <1>1, <1>3 DEF NodeOK, Own

-----------------------------------------------------------------------------
(* Link state tables: the steps *)

\* A node reports a change of its links.
LEMMA ReportStep ==
  ASSUME LinkInv, NEW n \in Routers, NEW neighbors \in SUBSET Routers, Report(n, neighbors)
  PROVE  LinkInv'
<1> DEFINE s == Own(n).sequenceNumber + 1
           e == [neighbors |-> neighbors, sequenceNumber |-> s]
           t == [table[n] EXCEPT ![n] = e]
           q == Append(reported[n], neighbors)
<1>1. /\ table' = [table EXCEPT ![n] = t] /\ reported' = [reported EXCEPT ![n] = q]
      /\ sync' = sync /\ learned' = {}
  BY DEF Report, LinkInv, LinkTypes
<1>2. LinkTypes /\ NodeOK(n)
  BY DEF LinkInv
<1>3. /\ table[n] \in Tables /\ n \in DOMAIN table[n] /\ reported[n] \in Seq(SUBSET Routers)
      /\ Own(n).sequenceNumber = Len(reported[n]) /\ AllReported(reported, table[n])
  BY <1>2 DEF LinkTypes, NodeOK
<1>4. s \in Nat /\ s = Len(reported[n]) + 1 /\ Len(reported[n]) \in Nat
  BY <1>3
<1>5. /\ q \in Seq(SUBSET Routers) /\ Len(q) = s /\ q[s] = neighbors
      /\ \A i \in 1..Len(reported[n]) : q[i] = reported[n][i]
  BY <1>3, <1>4
<1>6. e \in Entries /\ e.sequenceNumber = s /\ e.neighbors = neighbors
  BY <1>4 DEF Entries
<1> HIDE DEF s, e, q
<1>7. DOMAIN t = DOMAIN table[n] /\ t[n] = e /\ \A m \in DOMAIN table[n] \ {n} : t[m] = table[n][m]
  BY <1>3
<1>8. t \in Tables
  <2>1. \A m \in DOMAIN t : t[m] \in Entries
    BY <1>3, <1>6, <1>7, TableProperties
  <2>2. DOMAIN t \subseteq Routers /\ t = [m \in DOMAIN t |-> t[m]]
    BY <1>3, <1>7, TableProperties
  <2> HIDE DEF t
  <2> QED BY <2>1, <2>2, TablesMake
<1> HIDE DEF t
<1>9. /\ table' \in [Routers -> Tables] /\ reported' \in [Routers -> Seq(SUBSET Routers)]
      /\ table'[n] = t /\ reported'[n] = q
      /\ \A m \in Routers \ {n} : table'[m] = table[m] /\ reported'[m] = reported[m]
  BY <1>1, <1>2, <1>5, <1>8 DEF LinkTypes
<1>10. LinkTypes'
  BY <1>1, <1>2, <1>9 DEF LinkTypes
<1>11. ReportsGrow
  <2> SUFFICES ASSUME NEW m \in Routers
               PROVE  /\ Len(reported[m]) <= Len(reported'[m])
                      /\ \A i \in 1..Len(reported[m]) : reported'[m][i] = reported[m][i]
    BY DEF ReportsGrow
  <2>1. Len(reported[m]) \in Nat
    BY <1>2 DEF LinkTypes
  <2>2. CASE m = n
    BY <1>4, <1>5, <1>9, <2>2
  <2>3. CASE m # n
    BY <1>9, <2>1, <2>3
  <2> QED BY <2>2, <2>3
<1>12. TablesGrow
  <2> SUFFICES ASSUME NEW k \in Routers, NEW m \in DOMAIN table[k]
               PROVE  m \in DOMAIN table'[k] /\ table'[k][m].sequenceNumber >= table[k][m].sequenceNumber
    BY DEF TablesGrow
  <2>1. table[k][m].sequenceNumber \in Nat
    <3>1. table[k] \in Tables
      BY <1>2 DEF LinkTypes
    <3> QED BY <3>1, TableProperties DEF Entries
  <2>2. CASE k = n /\ m = n
    BY <1>3, <1>4, <1>6, <1>7, <1>9, <2>2 DEF Own
  <2>3. CASE ~(k = n /\ m = n)
    BY <1>7, <1>9, <2>1, <2>3
  <2> QED BY <2>2, <2>3
<1>13. NodeOK(n)'
  <2>1. AllReported(reported', table[n])
    BY <1>2, <1>3, <1>9, <1>11, ReportedStays DEF LinkTypes
  <2>2. AllReported(reported', t)
    <3> SUFFICES ASSUME NEW m \in DOMAIN t PROVE Reports(reported', m, t[m])
      BY DEF AllReported
    <3>1. CASE m = n
      BY <1>4, <1>5, <1>6, <1>7, <1>9, <3>1 DEF Reports
    <3>2. CASE m # n
      BY <1>7, <2>1, <3>2 DEF AllReported
    <3> QED BY <3>1, <3>2
  <2> QED BY <1>3, <1>4, <1>5, <1>6, <1>7, <1>9, <2>2 DEF NodeOK, Own
<1>14. \A m \in Routers : NodeOK(m)' /\ SyncOK(m)'
  <2> TAKE m \in Routers
  <2>1. SyncOK(m)'
    BY <1>1, <1>10, <1>11, <1>12, SyncKept
  <2>2. CASE m = n
    BY <1>13, <2>1, <2>2
  <2>3. CASE m # n
    <3>1. NodeOK(m)'
      BY <1>9, <1>10, <1>11, <2>3, NodeKept
    <3> QED BY <2>1, <3>1
  <2> QED BY <2>2, <2>3
<1>15. SyncCatchesUp'
  BY <1>1 DEF SyncCatchesUp
<1> QED BY <1>10, <1>14, <1>15 DEF LinkInv

\* A step of one synchronization, which touches no table.
LEMMA SyncStep ==
  ASSUME LinkInv, NEW n \in Routers, UNCHANGED <<table, reported>>, learned' = {},
         NEW x \in {NoSync} \cup Asked \cup Told, sync' = [sync EXCEPT ![n] = x], SyncOK(n)'
  PROVE  LinkInv'
<1>1. LinkTypes
  BY DEF LinkInv
<1>2. LinkTypes' /\ \A m \in Routers \ {n} : sync'[m] = sync[m]
  BY <1>1 DEF LinkTypes
<1>3. ReportsGrow
  BY DEF ReportsGrow
<1>4. TablesGrow
  <2> SUFFICES ASSUME NEW k \in Routers, NEW m \in DOMAIN table[k]
               PROVE  table[k][m].sequenceNumber >= table[k][m].sequenceNumber
    BY DEF TablesGrow
  <2>1. table[k][m].sequenceNumber \in Nat
    <3>1. table[k] \in Tables
      BY <1>1 DEF LinkTypes
    <3> QED BY <3>1, TableProperties DEF Entries
  <2> QED BY <2>1
<1>5. \A m \in Routers : NodeOK(m)' /\ SyncOK(m)'
  <2> TAKE m \in Routers
  <2>1. NodeOK(m)'
    BY <1>2, <1>3, NodeKept
  <2>2. CASE m = n
    BY <2>1, <2>2
  <2>3. CASE m # n
    <3>1. SyncOK(m)'
      BY <1>2, <1>3, <1>4, <2>3, SyncKept
    <3> QED BY <2>1, <3>1
  <2> QED BY <2>2, <2>3
<1> QED BY <1>2, <1>5 DEF LinkInv, SyncCatchesUp

\* The digest of a node is what its table knows.
LEMMA DigestKnown ==
  ASSUME LinkTypes, NEW n \in Routers
  PROVE  getDigest(n) \in Digests /\ \A m \in DOMAIN getDigest(n) : Knows(table[n], getDigest(n), m)
<1> DEFINE d == getDigest(n)
<1>1. table[n] \in Tables
  BY DEF LinkTypes
<1>2. d = [m \in DOMAIN table[n] |-> d[m]] /\ DOMAIN table[n] \subseteq Routers
      /\ \A m \in DOMAIN table[n] : d[m] = table[n][m].sequenceNumber
  BY <1>1, TableProperties DEF getDigest
<1> HIDE DEF d
<1>3. \A m \in DOMAIN table[n] : d[m] \in Nat
  BY <1>1, <1>2, TableProperties DEF Entries
<1>4. d \in Digests
  BY <1>2, <1>3, TablesMake
<1>5. \A m \in DOMAIN d : Knows(table[n], d, m)
  BY <1>2, <1>3 DEF Knows
<1> QED BY <1>4, <1>5 DEF d

\* A node sends its digest.
LEMMA AskStep ==
  ASSUME LinkInv, NEW n \in Routers, NEW m \in Routers, Ask(n, m)
  PROVE  LinkInv'
<1> DEFINE x == [at |-> "asked", of |-> m, digest |-> getDigest(n)]
<1>1. sync' = [sync EXCEPT ![n] = x] /\ UNCHANGED <<table, reported>> /\ learned' = {}
  BY DEF Ask
<1>2. getDigest(n) \in Digests /\ \A k \in DOMAIN getDigest(n) : Knows(table[n], getDigest(n), k)
  BY DigestKnown DEF LinkInv
<1>3. x \in Asked /\ x.digest = getDigest(n)
  BY <1>2 DEF Asked
<1> HIDE DEF x
<1>4. sync'[n] = x
  BY <1>1 DEF LinkInv, LinkTypes
<1>5. SyncOK(n)'
  BY <1>1, <1>2, <1>3, <1>4, SyncKinds DEF SyncOK
<1> QED BY <1>1, <1>3, <1>5, SyncStep

\* What the other knew, n knows already or is told, since its digest was true.
LEMMA DiffCovers ==
  ASSUME LinkTypes, NEW n \in Routers, NEW o \in Routers, NEW digest \in Digests,
         AllReported(reported, table[o]),
         \A m \in DOMAIN digest : Knows(table[n], digest, m)
  PROVE  LET t == diff(o, digest)
         IN  /\ t \in Tables /\ AllReported(reported, t)
             /\ \A m \in DOMAIN getDigest(o) : Knows(table[n], getDigest(o), m) \/ Knows(t, getDigest(o), m)
<1> DEFINE t == diff(o, digest)
           unseen == {m \in DOMAIN table[o] : m \in DOMAIN digest => table[o][m].sequenceNumber > digest[m]}
           d == getDigest(o)
<1>1. table[o] \in Tables /\ table[n] \in Tables
  BY DEF LinkTypes
<1>2. t = [m \in unseen |-> t[m]] /\ DOMAIN t = unseen /\ \A m \in unseen : t[m] = table[o][m]
  BY DEF diff
<1>3. d \in Digests /\ DOMAIN d = DOMAIN table[o] /\ \A m \in DOMAIN d : d[m] = table[o][m].sequenceNumber
  BY DigestKnown DEF getDigest
<1> HIDE DEF t, d
<1>4. unseen \subseteq Routers /\ \A m \in unseen : t[m] \in Entries
  BY <1>1, <1>2, TableProperties
<1>5. AllReported(reported, t)
  BY <1>2 DEF AllReported
<1>6. t \in Tables
  <2> HIDE DEF unseen
  <2> QED BY <1>2, <1>4, TablesMake
<1>7. ASSUME NEW m \in DOMAIN d
      PROVE  Knows(table[n], d, m) \/ Knows(t, d, m)
  <2>1. table[o][m] \in Entries /\ d[m] = table[o][m].sequenceNumber /\ d[m] \in Nat
    BY <1>1, <1>3, TableProperties DEF Entries
  <2>2. CASE m \in unseen
    <3>1. m \in DOMAIN t /\ t[m].sequenceNumber = d[m]
      BY <1>2, <2>1, <2>2
    <3>2. t[m].sequenceNumber >= d[m]
      BY <2>1, <3>1
    <3> QED BY <3>1, <3>2 DEF Knows
  <2>3. CASE m \notin unseen
    <3>1. m \in DOMAIN digest /\ digest[m] \in Nat /\ digest[m] >= d[m]
      BY <1>3, <2>1, <2>3, TableProperties
    <3>2. m \in DOMAIN table[n] /\ table[n][m].sequenceNumber >= digest[m] /\ table[n][m] \in Entries
      BY <1>1, <3>1, TableProperties DEF Knows
    <3>3. table[n][m].sequenceNumber \in Nat
      BY <3>2 DEF Entries
    <3> QED BY <2>1, <3>1, <3>2, <3>3 DEF Knows
  <2> QED BY <2>2, <2>3
<1> QED BY <1>5, <1>6, <1>7 DEF t, d

\* The other node answers.
LEMMA TellStep ==
  ASSUME LinkInv, NEW n \in Routers, Tell(n)
  PROVE  LinkInv'
<1> DEFINE o == sync[n].of
           t == diff(o, sync[n].digest)
           d == getDigest(o)
           x == [at |-> "told", of |-> o, table |-> t, known |-> d]
<1>1. LinkTypes /\ sync[n].at = "asked"
  BY DEF LinkInv, Tell
<1>2. sync' = [sync EXCEPT ![n] = x] /\ UNCHANGED <<table, reported>> /\ learned' = {}
  BY <1>1 DEF Tell, LinkTypes
<1>3. sync[n] \in Asked
  BY <1>1, SyncKinds DEF LinkTypes, NoSync
<1>4. o \in Routers /\ sync[n].digest \in Digests
      /\ \A m \in DOMAIN sync[n].digest : Knows(table[n], sync[n].digest, m)
  BY <1>3 DEF Asked, LinkInv, SyncOK
<1>5. AllReported(reported, table[o])
  BY <1>4 DEF LinkInv, NodeOK
<1>6. /\ t \in Tables /\ AllReported(reported, t)
      /\ \A m \in DOMAIN d : Knows(table[n], d, m) \/ Knows(t, d, m)
  BY <1>1, <1>4, <1>5, DiffCovers
<1>7. d \in Digests
  BY <1>1, <1>4, DigestKnown
<1> HIDE DEF o, t, d
<1>8. x \in Told /\ x.table = t /\ x.known = d
  BY <1>4, <1>6, <1>7 DEF Told
<1> HIDE DEF x
<1>9. sync'[n] = x
  BY <1>1, <1>2 DEF LinkTypes
<1>10. SyncOK(n)'
  BY <1>2, <1>6, <1>8, <1>9, SyncKinds DEF SyncOK
<1> QED BY <1>2, <1>8, <1>10, SyncStep

\* A request or its answer is lost.
LEMMA LoseStep ==
  ASSUME LinkInv, NEW n \in Routers, Lose(n)
  PROVE  LinkInv'
<1>1. sync' = [sync EXCEPT ![n] = NoSync] /\ UNCHANGED <<table, reported>> /\ learned' = {}
  BY DEF Lose
<1>2. sync'[n] = NoSync
  BY <1>1 DEF LinkInv, LinkTypes
<1>3. SyncOK(n)'
  BY <1>2, SyncKinds DEF SyncOK
<1> QED BY <1>1, <1>3, SyncStep

\* A node merges what it was told, and passes on what was new.
LEMMA MergeTableStep ==
  ASSUME LinkInv, NEW n \in Routers, NEW others \in SUBSET (Routers \ {n}), merge(n, others)
  PROVE  LinkInv'
<1> DEFINE entries == sync[n].table
           known == sync[n].known
           new == NewFor(n, entries)
           t == [m \in DOMAIN table[n] \cup new |-> IF m \in new THEN entries[m] ELSE table[n][m]]
           part == [m \in new |-> entries[m]]
           nothing == [m \in {} |-> 0]
           changes == [at |-> "told", of |-> n, table |-> part, known |-> nothing]
           l == [by |-> n, digest |-> known]
<1>1. LinkTypes /\ sync[n].at = "told"
  BY DEF LinkInv, merge
<1>2. sync[n] \in Told
  BY <1>1, SyncKinds DEF LinkTypes, NoSync
<1>3. /\ table' = [table EXCEPT ![n] = t] /\ UNCHANGED reported /\ learned' = {l}
      /\ sync' = [m \in Routers |-> IF m = n THEN NoSync ELSE IF m \in others THEN changes ELSE sync[m]]
  BY <1>1 DEF merge, LinkTypes
<1>4. /\ entries \in Tables /\ known \in Digests /\ AllReported(reported, entries)
      /\ \A m \in DOMAIN known : Knows(table[n], known, m) \/ Knows(entries, known, m)
  BY <1>2 DEF Told, LinkInv, SyncOK
<1>5. table[n] \in Tables /\ AllReported(reported, table[n]) /\ n \in DOMAIN table[n]
      /\ Own(n).sequenceNumber = Len(reported[n]) /\ reported[n] \in Seq(SUBSET Routers)
  BY <1>1 DEF LinkInv, NodeOK, LinkTypes
<1> HIDE DEF entries, known
<1>6. new \subseteq DOMAIN entries
      /\ \A m \in DOMAIN entries : m \in new <=>
           (m \in DOMAIN table[n] => table[n][m].sequenceNumber < entries[m].sequenceNumber)
  BY DEF NewFor
<1> HIDE DEF new
<1>7. DOMAIN table[n] \subseteq Routers /\ DOMAIN entries \subseteq Routers
      /\ (\A m \in DOMAIN table[n] : table[n][m] \in Entries /\ table[n][m].sequenceNumber \in Nat)
      /\ (\A m \in DOMAIN entries : entries[m] \in Entries /\ entries[m].sequenceNumber \in Nat)
  BY <1>4, <1>5, TableProperties DEF Entries
<1>8. n \notin new
  <2>1. ASSUME n \in DOMAIN entries
        PROVE  entries[n].sequenceNumber <= Own(n).sequenceNumber
    BY <1>4, <1>5, <2>1 DEF AllReported, Reports
  <2> QED BY <1>5, <1>6, <1>7, <2>1 DEF Own
<1>9. DOMAIN t = DOMAIN table[n] \cup new
      /\ (\A m \in new : t[m] = entries[m]) /\ (\A m \in DOMAIN table[n] \ new : t[m] = table[n][m])
  OBVIOUS
<1> HIDE DEF t
<1>10. t \in Tables /\ AllReported(reported, t)
  <2>1. \A m \in DOMAIN table[n] \cup new : t[m] \in Entries
    BY <1>6, <1>7, <1>9
  <2>2. DOMAIN table[n] \cup new \subseteq Routers
    BY <1>6, <1>7
  <2>3. t = [m \in DOMAIN table[n] \cup new |-> t[m]]
    BY DEF t
  <2>4. t \in Tables
    BY <2>1, <2>2, <2>3, TablesMake
  <2>5. AllReported(reported, t)
    BY <1>4, <1>5, <1>6, <1>9 DEF AllReported
  <2> QED BY <2>4, <2>5
<1>11. part \in Tables /\ AllReported(reported, part) /\ nothing \in Digests /\ DOMAIN nothing = {}
  <2>1. part = [m \in new |-> part[m]] /\ \A m \in new : part[m] = entries[m]
    OBVIOUS
  <2>2. AllReported(reported, part)
    BY <1>4, <1>6 DEF AllReported
  <2>3. nothing = [m \in {} |-> nothing[m]] /\ DOMAIN nothing = {} /\ \A m \in {} : nothing[m] \in Nat
    OBVIOUS
  <2> HIDE DEF part, nothing
  <2>4. part \in Tables
    BY <1>6, <1>7, <2>1, TablesMake
  <2>5. nothing \in Digests
    BY <2>3, TablesMake
  <2> QED BY <2>2, <2>3, <2>4, <2>5
<1> HIDE DEF part, nothing
<1>12. changes \in Told /\ changes.table = part /\ changes.known = nothing
  BY <1>11 DEF Told
<1> HIDE DEF changes
<1>13. l \in Learned /\ l.by = n /\ l.digest = known
  BY <1>4 DEF Learned
<1> HIDE DEF l
<1>14. /\ table'[n] = t /\ \A m \in Routers \ {n} : table'[m] = table[m]
       /\ sync'[n] = NoSync /\ \A m \in others : sync'[m] = changes
       /\ \A m \in Routers \ {n} : m \notin others => sync'[m] = sync[m]
  BY <1>1, <1>3 DEF LinkTypes
<1>15. LinkTypes'
  <2>1. table' \in [Routers -> Tables] /\ learned' \subseteq Learned
    BY <1>1, <1>3, <1>10, <1>13 DEF LinkTypes
  <2>2. sync' \in [Routers -> {NoSync} \cup Asked \cup Told]
    BY <1>1, <1>3, <1>12 DEF LinkTypes
  <2> QED BY <1>1, <1>3, <2>1, <2>2 DEF LinkTypes
<1>16. ReportsGrow
  BY <1>3 DEF ReportsGrow
<1>17. TablesGrow
  <2> SUFFICES ASSUME NEW k \in Routers, NEW m \in DOMAIN table[k]
               PROVE  m \in DOMAIN table'[k] /\ table'[k][m].sequenceNumber >= table[k][m].sequenceNumber
    BY DEF TablesGrow
  <2>1. CASE k = n
    <3>1. CASE m \in new
      BY <1>6, <1>7, <1>9, <1>14, <2>1, <3>1
    <3>2. CASE m \notin new
      BY <1>7, <1>9, <1>14, <2>1, <3>2
    <3> QED BY <3>1, <3>2
  <2>2. CASE k # n
    <3>1. table[k][m].sequenceNumber \in Nat
      <4>1. table[k] \in Tables
        BY <1>1 DEF LinkTypes
      <4> QED BY <4>1, TableProperties DEF Entries
    <3> QED BY <1>14, <2>2, <3>1
  <2> QED BY <2>1, <2>2
<1>18. NodeOK(n)'
  BY <1>3, <1>5, <1>8, <1>9, <1>10, <1>14 DEF NodeOK, Own
<1>19. \A m \in Routers : NodeOK(m)' /\ SyncOK(m)'
  <2> TAKE m \in Routers
  <2>1. CASE m = n
    <3>1. SyncOK(n)'
      BY <1>14, SyncKinds DEF SyncOK
    <3> QED BY <1>18, <2>1, <3>1
  <2>2. CASE m # n
    <3>1. NodeOK(m)'
      BY <1>3, <1>14, <1>15, <1>16, <2>2, NodeKept
    <3>2. CASE m \in others
      <4>1. SyncOK(m)'
        BY <1>3, <1>11, <1>12, <1>14, <3>2, SyncKinds DEF SyncOK
      <4> QED BY <3>1, <4>1
    <3>3. CASE m \notin others
      <4>1. SyncOK(m)'
        BY <1>14, <1>15, <1>16, <1>17, <2>2, <3>3, SyncKept
      <4> QED BY <3>1, <4>1
    <3> QED BY <3>2, <3>3
  <2> QED BY <2>1, <2>2
<1>20. \A m \in DOMAIN known : m \in DOMAIN t /\ t[m].sequenceNumber >= known[m]
  <2> TAKE m \in DOMAIN known
  <2>1. known[m] \in Nat
    BY <1>4, TableProperties
  <2>2. CASE Knows(table[n], known, m)
    <3>1. m \in DOMAIN table[n] /\ table[n][m].sequenceNumber >= known[m]
      BY <2>2 DEF Knows
    <3>2. m \in DOMAIN t /\ t[m].sequenceNumber >= table[n][m].sequenceNumber
      BY <1>14, <1>17, <3>1 DEF TablesGrow
    <3>3. t[m] \in Entries
      BY <1>10, <3>2, TableProperties
    <3>4. t[m].sequenceNumber \in Nat
      BY <3>3 DEF Entries
    <3> QED BY <1>7, <2>1, <3>1, <3>2, <3>4
  <2>3. CASE Knows(entries, known, m)
    <3>1. m \in DOMAIN entries /\ entries[m].sequenceNumber >= known[m]
      BY <2>3 DEF Knows
    <3>2. CASE m \in new
      BY <1>9, <3>1, <3>2
    <3>3. CASE m \notin new
      BY <1>6, <1>7, <1>9, <2>1, <3>1, <3>3
    <3> QED BY <3>2, <3>3
  <2> QED BY <1>4, <2>2, <2>3
<1>21. SyncCatchesUp'
  BY <1>3, <1>13, <1>14, <1>20 DEF SyncCatchesUp
<1> QED BY <1>15, <1>19, <1>21 DEF LinkInv

-----------------------------------------------------------------------------
(* Link state tables: the theorems *)

\* Every step keeps the invariant of the tables.
LEMMA LinkNextInv == LinkInv /\ [LinkNext]_linkVars => LinkInv'
<1> SUFFICES ASSUME LinkInv, [LinkNext]_linkVars PROVE LinkInv'
  OBVIOUS
<1>1. ASSUME NEW n \in Routers, NEW m \in Routers, linkUp(n, m) \/ linkDown(n, m) PROVE LinkInv'
  <2>1. Own(n).neighbors \subseteq Routers
    <3>1. table[n] \in Tables /\ n \in DOMAIN table[n]
      BY DEF LinkInv, LinkTypes, NodeOK
    <3>2. Own(n) \in Entries
      BY <3>1, TableProperties DEF Own
    <3> QED BY <3>2 DEF Entries
  <2>2. Own(n).neighbors \cup {m} \in SUBSET Routers /\ Own(n).neighbors \ {m} \in SUBSET Routers
    BY <2>1
  <2> QED BY <1>1, <2>2, ReportStep DEF linkUp, linkDown
<1>2. ASSUME NEW n \in Routers, NEW m \in Routers, Ask(n, m) PROVE LinkInv'
  BY <1>2, AskStep
<1>3. ASSUME NEW n \in Routers, Tell(n) \/ Lose(n) PROVE LinkInv'
  BY <1>3, TellStep, LoseStep
<1>4. ASSUME NEW n \in Routers, NEW others \in SUBSET (Routers \ {n}), merge(n, others) PROVE LinkInv'
  BY <1>4, MergeTableStep
<1>5. CASE UNCHANGED linkVars
  BY <1>5 DEF linkVars, LinkInv, LinkTypes, NodeOK, Own, SyncOK, SyncCatchesUp
<1> QED BY <1>1, <1>2, <1>3, <1>4, <1>5 DEF LinkNext

\* And it holds at first.
LEMMA LinkInitInv == LinkInit => LinkInv
<1> SUFFICES ASSUME LinkInit PROVE LinkInv
  OBVIOUS
<1>1. \A n \in Routers : /\ DOMAIN table[n] = {n}
                         /\ table[n][n] = [neighbors |-> {}, sequenceNumber |-> 0]
                         /\ reported[n] = <<>> /\ sync[n] = NoSync
  BY DEF LinkInit
<1>2. \A n \in Routers : table[n] \in Tables
  <2> TAKE n \in Routers
  <2>1. table[n][n] \in Entries
    BY <1>1 DEF Entries
  <2>2. \A m \in {n} : table[n][m] \in Entries
    BY <2>1
  <2>3. {n} \subseteq Routers /\ table[n] = [m \in {n} |-> table[n][m]]
    BY DEF LinkInit
  <2> QED BY <2>2, <2>3, TablesMake
<1>3. reported \in [Routers -> Seq(SUBSET Routers)]
  BY DEF LinkInit
<1>4. LinkTypes
  BY <1>2, <1>3 DEF LinkInit, LinkTypes
<1>5. \A n \in Routers : NodeOK(n) /\ SyncOK(n)
  <2> TAKE n \in Routers
  <2>1. DOMAIN table[n] = {n} /\ table[n][n].sequenceNumber = 0 /\ Len(reported[n]) = 0 /\ sync[n] = NoSync
    BY <1>1
  <2> QED BY <2>1, SyncKinds DEF NodeOK, Own, AllReported, Reports, SyncOK
<1> QED BY <1>4, <1>5 DEF LinkInv, LinkInit, SyncCatchesUp

\* What it says of entries.
LEMMA LinkInvImplies == LinkInv => EntriesAreReports /\ SyncCatchesUp
<1> SUFFICES ASSUME LinkInv PROVE EntriesAreReports
  BY DEF LinkInv
<1> SUFFICES ASSUME NEW n \in Routers, NEW m \in Routers, m \in DOMAIN table[n], table[n][m].sequenceNumber > 0
             PROVE  LET s == table[n][m].sequenceNumber
                    IN  s <= Len(reported[m]) /\ table[n][m].neighbors = reported[m][s]
  BY DEF EntriesAreReports
<1>1. Reports(reported, m, table[n][m])
  BY DEF LinkInv, NodeOK, AllReported
<1> QED BY <1>1 DEF Reports

\* What a node believes of another is what that one reported, for every set of
\* nodes, any number of changes and of synchronizations under way together, lost,
\* late or passed on.
THEOREM EntriesReported == LinkSpec => []EntriesAreReports
<1>1. LinkInit => LinkInv
  BY LinkInitInv
<1>2. LinkInv /\ [LinkNext]_linkVars => LinkInv'
  BY LinkNextInv
<1>3. LinkInv => EntriesAreReports
  BY LinkInvImplies
<1> QED BY <1>1, <1>2, <1>3, PTL DEF LinkSpec

\* After a synchronization a node knows at least what the other knew when it
\* answered.
THEOREM SyncsCatchUp == LinkSpec => []SyncCatchesUp
<1>1. LinkInit => LinkInv
  BY LinkInitInv
<1>2. LinkInv /\ [LinkNext]_linkVars => LinkInv'
  BY LinkNextInv
<1>3. LinkInv => SyncCatchesUp
  BY LinkInvImplies
<1> QED BY <1>1, <1>2, <1>3, PTL DEF LinkSpec

-----------------------------------------------------------------------------
(* Routes: the invariant of Dijkstra's algorithm when every link counts one   *)

\* A node has a predecessor iff it was reached from another one, and that is one
\* link nearer and taken from the heap.
TreeOK ==
  \A m \in Known :
    /\ distance[m] = 0 <=> m = Self
    /\ previous[m] = NoNode <=> m = Self \/ distance[m] = Infinity
    /\ previous[m] # NoNode =>
         /\ previous[m] \in Known \ vertexHeap
         /\ m \in links[previous[m]]
         /\ distance[m] = distance[previous[m]] + 1

\* The neighbors of what was taken and reached are reached from there at the latest.
TakenOK ==
  \A p \in Known \ vertexHeap :
    /\ \A h \in vertexHeap : distance[p] <= distance[h]
    /\ distance[p] < Infinity =>
         \A m \in links[p] \cap Known : distance[m] <= distance[p] + 1 /\ distance[m] < Infinity

PathInv == PathTypeOK /\ TreeOK /\ TakenOK

\* A set of numbers has a least one.
LEMMA LeastNumber ==
  ASSUME NEW S \in SUBSET Nat, S # {}
  PROVE  \E n \in S : \A k \in S : n <= k
<1> DEFINE R == OpToRel(<, Nat)
<1> HIDE DEF R
<1>1. IsWellFoundedOn(R, Nat)
  BY NatLessThanWellFounded DEF R
<1>2. PICK n \in S : \A k \in S : <<k, n>> \notin R
  BY <1>1, WFMin
<1>3. ASSUME NEW k \in S PROVE n <= k
  <2>1. <<k, n>> \notin R /\ k \in Nat /\ n \in Nat
    BY <1>2
  <2>2. ~(k < n)
    BY <2>1 DEF R, OpToRel
  <2> QED BY <2>1, <2>2
<1> QED BY <1>3

\* The number that stands for infinity.
LEMMA InfinityIsNumber == Infinity \in Nat /\ Infinity > 0
<1>1. Cardinality(Vertices) \in Nat
  BY PathAssumption, FS_CardinalityType
<1>2. Cardinality(Vertices) # 0
  BY PathAssumption, FS_EmptySet
<1> QED BY <1>1, <1>2 DEF Infinity

\* Distances are numbers.
LEMMA DistanceTypes ==
  ASSUME PathTypeOK, NEW m \in Known
  PROVE  distance[m] \in Nat /\ distance[m] <= Infinity
<1>1. distance[m] \in 0..Infinity
  BY DEF PathTypeOK
<1> QED BY <1>1, InfinityIsNumber

\* On the way to a node there is one at every smaller distance.
LEMMA EveryDistance ==
  ASSUME PathTypeOK, TreeOK, NEW n \in Known, distance[n] < Infinity
  PROVE  \A e \in 0..distance[n] : \E v \in Known : distance[v] = e
<1> DEFINE S == {j \in 0..distance[n] : ~ \E v \in Known : distance[v] = distance[n] - j}
<1>1. distance[n] \in Nat
  BY DistanceTypes
<1>2. CASE S = {}
  <2> TAKE e \in 0..distance[n]
  <2>1. distance[n] - e \in 0..distance[n] /\ distance[n] - (distance[n] - e) = e
    BY <1>1
  <2>2. distance[n] - e \notin S
    BY <1>2
  <2> QED BY <2>1, <2>2
<1>3. CASE S # {}
  <2>1. S \in SUBSET Nat
    BY <1>1
  <2> HIDE DEF S
  <2>2. PICK j \in S : \A k \in S : j <= k
    BY <1>3, <2>1, LeastNumber
  <2> USE DEF S
  <2>3. j \in 0..distance[n] /\ ~ \E v \in Known : distance[v] = distance[n] - j
    OBVIOUS
  <2>4. j # 0
    BY <1>1, <2>3
  <2>5. j - 1 \in 0..distance[n] /\ ~(j <= j - 1)
    BY <1>1, <2>3, <2>4
  <2>6. j - 1 \notin S
    BY <2>2, <2>5
  <2>7. PICK v \in Known : distance[v] = distance[n] - (j - 1)
    BY <2>5, <2>6
  <2>8. distance[v] # 0 /\ distance[v] # Infinity
    BY <1>1, <2>3, <2>4, <2>7, InfinityIsNumber
  <2>9. previous[v] \in Known /\ distance[v] = distance[previous[v]] + 1
    BY <2>8 DEF TreeOK
  <2>10. distance[previous[v]] \in Nat
    BY <2>9, DistanceTypes
  <2>11. distance[previous[v]] = distance[n] - j
    BY <1>1, <2>3, <2>7, <2>9, <2>10
  <2> QED BY <2>3, <2>9, <2>11
<1> QED BY <1>2, <1>3

\* As long as a node has not been reached, no distance comes close to infinity.
LEMMA NeverFull ==
  ASSUME PathTypeOK, TreeOK, NEW n \in Known, distance[n] < Infinity,
         NEW m \in Known, distance[m] = Infinity
  PROVE  distance[n] + 1 < Infinity
<1> DEFINE d == distance[n]
           at == [e \in 0..d |-> CHOOSE v \in Known : distance[v] = e]
<1>1. d \in Nat /\ Infinity \in Nat
  BY DistanceTypes, InfinityIsNumber
<1>2. \A e \in 0..d : at[e] \in Known /\ distance[at[e]] = e
  BY EveryDistance
<1>3. Known \subseteq Vertices
  BY DEF PathTypeOK
<1> HIDE DEF at
<1>4. at \in [0..d -> Vertices \ {m}]
  <2>1. \A e \in 0..d : at[e] # m
    BY <1>1, <1>2
  <2>2. at = [e \in 0..d |-> at[e]]
    BY DEF at
  <2> QED BY <1>2, <1>3, <2>1, <2>2
<1>5. IsFiniteSet(Vertices \ {m}) /\ Cardinality(Vertices \ {m}) = Infinity - 1
  BY <1>3, PathAssumption, FS_RemoveElement DEF Infinity
<1>6. IsFiniteSet(0..d) /\ Cardinality(0..d) = d + 1
  <2>1. 0 \in Int /\ d \in Int /\ ~(0 > d) /\ d - 0 + 1 = d + 1
    BY <1>1
  <2> HIDE DEF d
  <2> QED BY <2>1, FS_Interval
<1>7. ~ \E x, y \in 0..d : x # y /\ at[x] = at[y]
  BY <1>2
<1>8. ~(Cardinality(Vertices \ {m}) < Cardinality(0..d))
  BY <1>4, <1>5, <1>6, <1>7, FS_PigeonHole
<1> QED BY <1>1, <1>5, <1>6, <1>8

\* Before the first round.
LEMMA PathInitInv == PathInit => PathInv
<1> SUFFICES ASSUME NEW known \in {k \in SUBSET Vertices : Self \in k}, StartFrom(known)
             PROVE  PathInv
  BY DEF PathInit
<1>1. Known = known /\ known \subseteq Vertices /\ Self \in known
  BY DEF StartFrom, Known
<1>2. \A m \in Known : distance[m] = (IF m = Self THEN 0 ELSE Infinity) /\ previous[m] = NoNode
  BY <1>1 DEF StartFrom
<1>3. PathTypeOK
  BY <1>1, InfinityIsNumber DEF StartFrom, PathTypeOK
<1>4. TreeOK
  BY <1>2, InfinityIsNumber DEF TreeOK
<1>5. TakenOK
  BY <1>1 DEF StartFrom, TakenOK
<1> QED BY <1>3, <1>4, <1>5 DEF PathInv

\* One round.
LEMMA PopInv ==
  ASSUME PathInv, NEW n \in vertexHeap, Pop(n)
  PROVE  PathInv'
<1> DEFINE nearer == {m \in links[n] \cap Known :
                        distance[n] # Infinity /\ distance[n] + 1 < distance[m]}
<1>1. PathTypeOK /\ TreeOK /\ TakenOK
  BY DEF PathInv
<1>2. links' = links /\ Known' = Known /\ vertexHeap' = vertexHeap \ {n} /\ n \in Known
  BY <1>1 DEF Pop, Known, PathTypeOK
<1>3. \A m \in Known : /\ m \in nearer => distance'[m] = distance[n] + 1 /\ previous'[m] = n
                       /\ m \notin nearer => distance'[m] = distance[m] /\ previous'[m] = previous[m]
  BY DEF Pop
<1>4. \A m \in vertexHeap : distance[n] <= distance[m]
  BY DEF Pop
<1>5. \A m \in Known : distance[m] \in Nat /\ distance[m] <= Infinity
  BY <1>1, DistanceTypes
<1>6. Infinity \in Nat /\ Infinity > 0 /\ NoNode # n /\ NoNode \notin Known
  BY <1>1, <1>2, InfinityIsNumber, PathAssumption DEF PathTypeOK
<1>7. \A m \in nearer : m \in Known /\ m \in links[n] /\ distance[n] < Infinity /\ distance[n] + 1 < distance[m]
  BY <1>2, <1>5, <1>6
<1>8. distance' = [m \in Known |-> distance'[m]] /\ previous' = [m \in Known |-> previous'[m]]
  BY DEF Pop
<1> HIDE DEF nearer
<1>9. \A m \in Known : distance'[m] \in Nat /\ distance'[m] <= distance[m] /\ distance'[m] <= Infinity
  BY <1>2, <1>3, <1>5, <1>6, <1>7
<1>10. \A p \in Known \ (vertexHeap \ {n}) : p \notin nearer /\ distance[p] <= distance[n]
  <2> TAKE p \in Known \ (vertexHeap \ {n})
  <2>1. distance[p] <= distance[n]
    BY <1>1, <1>2, <1>5 DEF TakenOK
  <2> QED BY <1>2, <1>5, <1>7, <2>1
<1>11. PathTypeOK'
  <2>1. \A m \in Known : distance'[m] \in 0..Infinity
    BY <1>6, <1>9
  <2>2. \A m \in Known : previous'[m] \in Known \cup {NoNode}
    BY <1>1, <1>2, <1>3 DEF PathTypeOK
  <2> QED BY <1>1, <1>2, <1>8, <2>1, <2>2 DEF PathTypeOK, Known, Infinity
<1>12. TreeOK'
  <2> SUFFICES ASSUME NEW m \in Known
      PROVE /\ distance'[m] = 0 <=> m = Self
            /\ previous'[m] = NoNode <=> m = Self \/ distance'[m] = Infinity
            /\ previous'[m] # NoNode =>
                 /\ previous'[m] \in Known \ vertexHeap'
                 /\ m \in links[previous'[m]]
                 /\ distance'[m] = distance'[previous'[m]] + 1
    BY <1>2 DEF TreeOK, Infinity
  <2>1. CASE m \in nearer
    <3>1. m # Self
      BY <1>1, <1>2, <1>5, <1>7, <2>1 DEF TreeOK
    <3>2. distance'[n] = distance[n]
      BY <1>2, <1>3, <1>10
    <3> QED BY <1>2, <1>3, <1>5, <1>6, <1>7, <2>1, <3>1, <3>2
  <2>2. CASE m \notin nearer
    <3>1. distance'[m] = distance[m] /\ previous'[m] = previous[m]
      BY <1>3, <2>2
    <3>2. ASSUME previous[m] # NoNode
          PROVE /\ previous[m] \in Known \ vertexHeap' /\ m \in links[previous[m]]
                /\ distance[m] = distance'[previous[m]] + 1
      <4>1. /\ previous[m] \in Known \ vertexHeap /\ m \in links[previous[m]]
            /\ distance[m] = distance[previous[m]] + 1
        BY <1>1, <3>2 DEF TreeOK
      <4> QED BY <1>2, <1>3, <1>10, <4>1
    <3> QED BY <1>1, <3>1, <3>2 DEF TreeOK
  <2> QED BY <2>1, <2>2
<1>13. TakenOK'
  <2> SUFFICES ASSUME NEW p \in Known \ vertexHeap'
      PROVE /\ \A h \in vertexHeap' : distance'[p] <= distance'[h]
            /\ distance'[p] < Infinity =>
                 \A m \in links[p] \cap Known : distance'[m] <= distance'[p] + 1 /\ distance'[m] < Infinity
    BY <1>2 DEF TakenOK, Infinity
  <2>1. p \notin nearer /\ distance'[p] = distance[p] /\ distance[p] <= distance[n]
    BY <1>2, <1>3, <1>10
  <2>2. ASSUME NEW h \in vertexHeap' PROVE distance'[p] <= distance'[h]
    <3>1. h \in vertexHeap /\ h \in Known
      BY <1>1, <1>2 DEF PathTypeOK
    <3> QED BY <1>2, <1>3, <1>4, <1>5, <2>1, <3>1
  <2>3. ASSUME distance'[p] < Infinity, NEW m \in links[p] \cap Known
        PROVE  distance'[m] <= distance'[p] + 1 /\ distance'[m] < Infinity
    <3>1. CASE p # n
      <4>1. distance[m] <= distance[p] + 1 /\ distance[m] < Infinity
        BY <1>1, <1>2, <2>1, <2>3, <3>1 DEF TakenOK
      <4> QED BY <1>5, <1>6, <1>9, <2>1, <4>1
    <3>2. CASE p = n /\ m \in nearer
      <4>1. distance'[m] = distance[n] + 1 /\ distance[n] + 1 < distance[m] /\ m \in Known
        BY <1>3, <1>7, <3>2
      <4> QED BY <1>2, <1>5, <1>6, <2>1, <3>2, <4>1
    <3>3. CASE p = n /\ m \notin nearer
      <4>1. distance'[m] = distance[m]
        BY <1>3, <3>3
      <4>2. ~(distance[n] + 1 < distance[m])
        BY <1>2, <1>5, <1>6, <2>1, <2>3, <3>3 DEF nearer
      <4>3. distance[m] <= distance[n] + 1
        BY <1>2, <1>5, <4>2
      <4>4. distance[m] # Infinity
        BY <1>1, <1>2, <1>5, <1>6, <2>1, <2>3, <3>3, <4>2, NeverFull
      <4> QED BY <1>5, <1>6, <2>1, <3>3, <4>1, <4>3, <4>4
    <3> QED BY <3>1, <3>2, <3>3
  <2> QED BY <2>2, <2>3
<1> QED BY <1>11, <1>12, <1>13 DEF PathInv

\* A set of nodes and their neighbors.
Reach(S) == S \cup UNION {links[m] \cap Known : m \in S}

\* What the recursion behind Within says of each round.
LEMMA EachRound ==
  ASSUME NEW n, NEW K \in Nat, NEW f, f = [i \in 0..K |-> IF i = 0 THEN {n} ELSE Reach(f[i - 1])]
  PROVE  f[0] = {n} /\ \A i \in 0..K : i # 0 => f[i] = Reach(f[i - 1])
<1> DEFINE Value(i) == IF i = 0 THEN {n} ELSE Reach(f[i - 1])
<1>1. f = [i \in 0..K |-> Value(i)]
  OBVIOUS
<1> HIDE DEF Value
<1>2. \A i \in 0..K : f[i] = Value(i)
  BY <1>1
<1>3. 0 \in 0..K
  OBVIOUS
<1>4. f[0] = {n}
  BY <1>2, <1>3 DEF Value
<1>5. ASSUME NEW i \in 0..K, i # 0 PROVE f[i] = Reach(f[i - 1])
  BY <1>2, <1>5 DEF Value
<1> QED BY <1>4, <1>5

\* The recursion behind Within is well defined.
LEMMA WithinRuns ==
  ASSUME NEW n, NEW k \in Nat
  PROVE  \E near : /\ near = [i \in 0..k |-> IF i = 0 THEN {n} ELSE Reach(near[i - 1])]
                   /\ Within(n, k) = near[k]
<1> DEFINE Near(f, K) == f = [i \in 0..K |-> IF i = 0 THEN {n} ELSE Reach(f[i - 1])]
           S == {K \in Nat : ~ \E f : Near(f, K)}
<1>1. S = {}
  <2> SUFFICES ASSUME S # {} PROVE FALSE
    OBVIOUS
  <2>1. S \in SUBSET Nat
    OBVIOUS
  <2> HIDE DEF S
  <2>2. PICK K \in S : \A j \in S : K <= j
    BY <2>1, LeastNumber
  <2> USE DEF S
  <2>3. K \in Nat /\ ~ \E f : Near(f, K)
    OBVIOUS
  <2>4. CASE K = 0
    <3> DEFINE g == [i \in 0..K |-> {n}]
    <3>1. Near(g, K)
      BY <2>4
    <3> QED BY <2>3, <3>1
  <2>5. CASE K # 0
    <3>1. K - 1 \in Nat /\ ~(K <= K - 1)
      BY <2>3, <2>5
    <3>2. K - 1 \notin S
      BY <2>2, <3>1
    <3>3. PICK f : Near(f, K - 1)
      BY <3>1, <3>2
    <3> DEFINE g == [i \in 0..K |-> IF i = 0 THEN {n} ELSE Reach(f[i - 1])]
    <3>4. \A i \in 0..(K - 1) : g[i] = f[i]
      <4>1. f[0] = {n} /\ \A i \in 0..(K - 1) : i # 0 => f[i] = Reach(f[i - 1])
        BY <3>1, <3>3, EachRound
      <4>2. \A i \in 0..(K - 1) : i \in 0..K
        BY <2>3
      <4> QED BY <4>1, <4>2
    <3>5. \A i \in 0..K : i # 0 => i - 1 \in 0..(K - 1)
      BY <2>3
    <3>6. \A i \in 0..K : i # 0 => g[i - 1] = f[i - 1]
      BY <3>4, <3>5
    <3>7. \A i \in 0..K : g[i] = IF i = 0 THEN {n} ELSE Reach(f[i - 1])
      OBVIOUS
    <3> HIDE DEF g
    <3>8. \A i \in 0..K : g[i] = IF i = 0 THEN {n} ELSE Reach(g[i - 1])
      BY <3>6, <3>7
    <3>9. g = [i \in 0..K |-> g[i]]
      BY DEF g
    <3>10. Near(g, K)
      BY <3>8, <3>9
    <3> QED BY <2>3, <3>10
  <2> QED BY <2>4, <2>5
<1> DEFINE near == CHOOSE f : Near(f, k)
<1>2. k \notin S
  BY <1>1
<1>3. \E f : Near(f, k)
  BY <1>2
<1>4. Near(near, k)
  BY <1>3
<1>5. Within(n, k) = near[k]
  BY DEF Within, Reach
<1> HIDE DEF near
<1> QED BY <1>4, <1>5

\* In the end the nodes within k links are those at distance k at most.
LEMMA WithinIsDistance ==
  ASSUME PathInv, vertexHeap = {}, NEW k \in Nat, k <= Infinity
  PROVE  Within(Self, k) = {m \in Known : distance[m] <= k /\ distance[m] < Infinity}
<1> DEFINE Near(i) == {m \in Known : distance[m] <= i /\ distance[m] < Infinity}
<1>1. PICK near : /\ near = [i \in 0..k |-> IF i = 0 THEN {Self} ELSE Reach(near[i - 1])]
                  /\ Within(Self, k) = near[k]
  BY WithinRuns
<1>2. near[0] = {Self} /\ \A i \in 0..k : i # 0 => near[i] = Reach(near[i - 1])
  BY <1>1, EachRound
<1>3. PathTypeOK /\ TreeOK /\ TakenOK
  BY DEF PathInv
<1>4. \A m \in Known : distance[m] \in Nat /\ distance[m] <= Infinity
  BY <1>3, DistanceTypes
<1>5. Infinity \in Nat /\ Infinity > 0 /\ Self \in Known
  BY <1>3, InfinityIsNumber DEF PathTypeOK
<1>6. Near(0) = {Self}
  <2>1. \A m \in Known : distance[m] = 0 <=> m = Self
    BY <1>3 DEF TreeOK
  <2> QED BY <1>4, <1>5, <2>1
<1>7. ASSUME NEW i \in 0..k, i # 0 PROVE Reach(Near(i - 1)) = Near(i)
  <2>1. ASSUME NEW p \in Near(i - 1) PROVE p \in Near(i)
    BY <1>4, <2>1
  <2>2. ASSUME NEW p \in Near(i - 1), NEW m \in links[p] \cap Known PROVE m \in Near(i)
    <3>1. distance[m] <= distance[p] + 1 /\ distance[m] < Infinity
      BY <1>3 DEF TakenOK
    <3> QED BY <1>4, <2>2, <3>1
  <2>3. ASSUME NEW m \in Near(i), m \notin Near(i - 1)
        PROVE  \E p \in Near(i - 1) : m \in links[p] \cap Known
    <3>1. distance[m] = i
      BY <1>4, <2>3
    <3>2. previous[m] # NoNode
      BY <1>3, <1>7, <3>1 DEF TreeOK
    <3>3. previous[m] \in Known /\ m \in links[previous[m]] /\ distance[m] = distance[previous[m]] + 1
      BY <1>3, <3>2 DEF TreeOK
    <3>4. previous[m] \in Near(i - 1)
      BY <1>4, <1>5, <3>1, <3>3
    <3> QED BY <3>3, <3>4
  <2> HIDE DEF Near
  <2> QED BY <2>1, <2>2, <2>3 DEF Reach
<1> DEFINE S == {i \in 0..k : near[i] # Near(i)}
<1>8. S = {}
  <2> SUFFICES ASSUME S # {} PROVE FALSE
    OBVIOUS
  <2>1. S \in SUBSET Nat
    OBVIOUS
  <2> HIDE DEF S
  <2>2. PICK i \in S : \A j \in S : i <= j
    BY <2>1, LeastNumber
  <2> USE DEF S
  <2> HIDE DEF Near
  <2>3. i \in 0..k /\ near[i] # Near(i)
    OBVIOUS
  <2>4. i # 0
    BY <1>2, <1>6, <2>3
  <2>5. i - 1 \in 0..k /\ ~(i <= i - 1)
    BY <2>3, <2>4
  <2>6. near[i - 1] = Near(i - 1)
    BY <2>2, <2>5
  <2> QED BY <1>2, <1>7, <2>3, <2>4, <2>6
<1>9. near[k] = Near(k)
  BY <1>8
<1> QED BY <1>1, <1>9

\* The nodes that have a route.
Routed == {m \in Known : previous[m] # NoNode}

\* The predecessor of a node with a route has one, too, or is the root.
LEMMA ParentRouted ==
  ASSUME PathTypeOK, TreeOK, NEW n \in Routed
  PROVE  /\ n \in Known /\ n \in links[previous[n]] /\ distance[n] < Infinity
         /\ previous[n] # Self => previous[n] \in Routed
         /\ distance[n] \in Nat /\ distance[previous[n]] \in Nat
         /\ distance[n] = distance[previous[n]] + 1
<1>1. /\ n \in Known /\ previous[n] \in Known /\ n \in links[previous[n]]
      /\ distance[n] = distance[previous[n]] + 1
  BY DEF Routed, TreeOK
<1>2. distance[n] # Infinity
  BY <1>1 DEF Routed, TreeOK
<1>3. distance[n] \in Nat /\ distance[n] <= Infinity /\ distance[previous[n]] \in Nat
  BY <1>1, DistanceTypes
<1>4. distance[n] < Infinity /\ distance[previous[n]] # Infinity
  BY <1>1, <1>2, <1>3, InfinityIsNumber
<1>5. previous[n] # Self => previous[n] \in Routed
  BY <1>1, <1>4 DEF Routed, TreeOK
<1> QED BY <1>1, <1>3, <1>4, <1>5

\* The recursion behind the routing table is well defined.
LEMMA RoutesRun ==
  ASSUME PathTypeOK, TreeOK
  PROVE  routingTable = [n \in Routed |-> IF previous[n] = Self THEN n ELSE routingTable[previous[n]]]
<1> DEFINE Upto(K) == {n \in Routed : distance[n] <= K}
           Via(f, T) == f = [n \in T |-> IF previous[n] = Self THEN n ELSE f[previous[n]]]
           S == {K \in Nat : ~ \E f : Via(f, Upto(K))}
<1>1. S = {}
  <2> SUFFICES ASSUME S # {} PROVE FALSE
    OBVIOUS
  <2>1. S \in SUBSET Nat
    OBVIOUS
  <2> HIDE DEF S
  <2>2. PICK K \in S : \A j \in S : K <= j
    BY <2>1, LeastNumber
  <2> USE DEF S
  <2>3. K \in Nat /\ ~ \E f : Via(f, Upto(K))
    OBVIOUS
  <2>4. CASE K = 0
    <3> DEFINE g == [n \in {} |-> n]
    <3>1. \A n \in Routed : ~(distance[n] <= 0)
      <4> TAKE n \in Routed
      <4> QED BY ParentRouted
    <3>2. Upto(K) = {}
      BY <2>4, <3>1
    <3>3. Via(g, {})
      OBVIOUS
    <3> HIDE DEF Upto
    <3> QED BY <2>3, <3>2, <3>3
  <2>5. CASE K # 0
    <3>1. K - 1 \in Nat /\ ~(K <= K - 1)
      BY <2>3, <2>5
    <3>2. K - 1 \notin S
      BY <2>2, <3>1
    <3>3. PICK f : Via(f, Upto(K - 1))
      BY <3>1, <3>2
    <3> DEFINE g == [n \in Upto(K) |-> IF previous[n] = Self THEN n ELSE f[previous[n]]]
    <3>4. \A n \in Upto(K) : n \in Routed /\ (previous[n] # Self => previous[n] \in Upto(K - 1))
      <4> TAKE n \in Upto(K)
      <4>1. n \in Routed /\ distance[n] <= K
        OBVIOUS
      <4> QED BY <2>3, <4>1, ParentRouted
    <3>5. \A n \in Upto(K - 1) : n \in Upto(K)
      <4> TAKE n \in Upto(K - 1)
      <4>1. n \in Routed /\ distance[n] <= K - 1
        OBVIOUS
      <4>2. distance[n] \in Nat
        BY <4>1, ParentRouted
      <4> QED BY <2>3, <4>1, <4>2
    <3> HIDE DEF Upto
    <3>6. \A n \in Upto(K - 1) : f[n] = IF previous[n] = Self THEN n ELSE f[previous[n]]
      BY <3>3
    <3>7. \A n \in Upto(K) : g[n] = IF previous[n] = Self THEN n ELSE f[previous[n]]
      OBVIOUS
    <3>8. g = [n \in Upto(K) |-> g[n]]
      OBVIOUS
    <3> HIDE DEF g
    <3>9. \A n \in Upto(K - 1) : g[n] = f[n]
      BY <3>5, <3>6, <3>7
    <3>10. \A n \in Upto(K) : g[n] = IF previous[n] = Self THEN n ELSE g[previous[n]]
      BY <3>4, <3>7, <3>9
    <3>11. Via(g, Upto(K))
      BY <3>8, <3>10
    <3> QED BY <2>3, <3>11
  <2> QED BY <2>4, <2>5
<1> DEFINE via == CHOOSE f : Via(f, Routed)
<1>2. Infinity \notin S /\ Infinity \in Nat
  BY <1>1, InfinityIsNumber
<1>3. Upto(Infinity) = Routed
  <2>1. \A n \in Routed : distance[n] <= Infinity
    BY DistanceTypes DEF Routed
  <2> QED BY <2>1
<1>4. \E f : Via(f, Upto(Infinity))
  BY <1>2
<1>5. \E f : Via(f, Routed)
  <2> HIDE DEF Upto
  <2> QED BY <1>3, <1>4
<1>6. Via(via, Routed)
  BY <1>5
<1>7. routingTable = via
  BY DEF routingTable, Routed
<1> HIDE DEF via
<1> QED BY <1>6, <1>7

\* The next hop is a neighbor, and the node is within the links that remain.
LEMMA NextHop ==
  ASSUME PathTypeOK, TreeOK, NEW n \in Routed
  PROVE  /\ routingTable[n] \in links[Self]
         /\ \A k \in Nat : distance[n] - 1 <= k => n \in Within(routingTable[n], k)
<1> DEFINE Hop(m) == IF previous[m] = Self THEN m ELSE routingTable[previous[m]]
<1>1. \A m \in Routed : routingTable[m] = Hop(m)
  BY RoutesRun
<1> DEFINE S == {i \in Nat : \E m \in Routed : distance[m] = i /\ routingTable[m] \notin links[Self]}
<1>2. S = {}
  <2> SUFFICES ASSUME S # {} PROVE FALSE
    OBVIOUS
  <2>1. S \in SUBSET Nat
    OBVIOUS
  <2> HIDE DEF S
  <2>2. PICK i \in S : \A j \in S : i <= j
    BY <2>1, LeastNumber
  <2> USE DEF S
  <2>3. PICK m \in Routed : distance[m] = i /\ routingTable[m] \notin links[Self]
    OBVIOUS
  <2>4. m \in links[previous[m]] /\ distance[previous[m]] \in Nat /\ distance[m] = distance[previous[m]] + 1
    BY ParentRouted
  <2>5. previous[m] # Self
    BY <1>1, <2>3, <2>4
  <2>6. previous[m] \in Routed /\ routingTable[previous[m]] = routingTable[m]
    BY <1>1, <2>5, ParentRouted
  <2>7. distance[previous[m]] \in S
    BY <2>3, <2>4, <2>6
  <2> QED BY <2>2, <2>3, <2>4, <2>7
<1>3. routingTable[n] \in links[Self]
  <2>1. distance[n] \in Nat /\ distance[n] \notin S
    BY <1>2, ParentRouted
  <2> QED BY <2>1
<1>4. ASSUME NEW k \in Nat, distance[n] - 1 <= k PROVE n \in Within(routingTable[n], k)
  <2> DEFINE r == routingTable[n]
  <2> HIDE DEF r
  <2>1. PICK near : /\ near = [i \in 0..k |-> IF i = 0 THEN {r} ELSE Reach(near[i - 1])]
                    /\ Within(r, k) = near[k]
    BY WithinRuns
  <2>2. near[0] = {r} /\ \A i \in 0..k : i # 0 => near[i] = Reach(near[i - 1])
    BY <2>1, EachRound
  <2> DEFINE Lost(i) == \E m \in Routed : routingTable[m] = r /\ distance[m] - 1 <= i /\ m \notin near[i]
             T == {i \in 0..k : Lost(i)}
  <2>3. T = {}
    <3> SUFFICES ASSUME T # {} PROVE FALSE
      OBVIOUS
    <3>1. T \in SUBSET Nat
      OBVIOUS
    <3> HIDE DEF T
    <3>2. PICK i \in T : \A j \in T : i <= j
      BY <3>1, LeastNumber
    <3> USE DEF T
    <3>3. PICK m \in Routed : routingTable[m] = r /\ distance[m] - 1 <= i /\ m \notin near[i]
      OBVIOUS
    <3>4. /\ m \in links[previous[m]] /\ m \in Known
          /\ distance[previous[m]] \in Nat /\ distance[m] = distance[previous[m]] + 1
      BY ParentRouted
    <3>5. i \in 0..k /\ i \in Nat
      BY <3>1
    <3>6. CASE i = 0
      <4>1. distance[previous[m]] = 0
        BY <3>3, <3>4, <3>6
      <4>2. previous[m] = Self
        BY <4>1 DEF TreeOK, Routed
      <4>3. m = r
        BY <1>1, <3>3, <4>2
      <4> QED BY <2>2, <3>3, <3>6, <4>3
    <3>7. CASE i # 0
      <4>1. i - 1 \in 0..k /\ ~(i <= i - 1)
        BY <3>5, <3>7
      <4>2. ~Lost(i - 1)
        BY <3>2, <4>1
      <4>3. near[i] = Reach(near[i - 1])
        BY <2>2, <3>5, <3>7
      <4>4. CASE previous[m] = Self
        <5>1. distance[m] = 1
          BY <3>4, <4>4 DEF TreeOK, Routed
        <5>2. distance[m] - 1 <= i - 1
          BY <3>5, <3>7, <5>1
        <5>3. m \in near[i - 1]
          BY <3>3, <4>2, <5>2
        <5> QED BY <3>3, <4>3, <5>3 DEF Reach
      <4>5. CASE previous[m] # Self
        <5>1. previous[m] \in Routed /\ routingTable[previous[m]] = r
          BY <1>1, <3>3, <4>5, ParentRouted
        <5>2. distance[previous[m]] - 1 <= i - 1
          BY <3>3, <3>4, <3>5
        <5>3. previous[m] \in near[i - 1]
          BY <4>2, <5>1, <5>2
        <5> QED BY <3>3, <3>4, <4>3, <5>3 DEF Reach
      <4> QED BY <4>4, <4>5
    <3> QED BY <3>6, <3>7
  <2>4. ~Lost(k)
    BY <2>3
  <2>5. n \in near[k]
    BY <1>4, <2>4 DEF r
  <2> QED BY <2>1, <2>5 DEF r
<1> QED BY <1>3, <1>4

\* In the end the routes are the shortest.
LEMMA PathInvImplies == PathInv => RoutesAreShortest
<1> SUFFICES ASSUME PathInv PROVE RoutesAreShortest
  OBVIOUS
<1>1. PathTypeOK /\ TreeOK
  BY DEF PathInv
<1>2. ASSUME vertexHeap = {}
      PROVE  /\ DOMAIN routingTable = Within(Self, Infinity) \ {Self}
             /\ \A n \in DOMAIN routingTable :
                  /\ routingTable[n] \in links[Self]
                  /\ \A k \in 1..Infinity : n \in Within(Self, k) => n \in Within(routingTable[n], k - 1)
  <2>1. Infinity \in Nat /\ Infinity <= Infinity
    BY InfinityIsNumber
  <2>2. \A m \in Known : distance[m] \in Nat /\ distance[m] <= Infinity
    BY <1>1, DistanceTypes
  <2>3. Within(Self, Infinity) = {m \in Known : distance[m] <= Infinity /\ distance[m] < Infinity}
    BY <1>2, <2>1, WithinIsDistance
  <2>4. Routed = Within(Self, Infinity) \ {Self}
    <3>1. \A m \in Known : distance[m] # Infinity <=> distance[m] <= Infinity /\ distance[m] < Infinity
      BY <2>1, <2>2
    <3>2. \A m \in Known : previous[m] # NoNode <=> m # Self /\ distance[m] # Infinity
      BY <1>1 DEF TreeOK
    <3> QED BY <2>3, <3>1, <3>2 DEF Routed
  <2>5. DOMAIN routingTable = Routed
    BY <1>1, RoutesRun
  <2>6. ASSUME NEW n \in Routed PROVE routingTable[n] \in links[Self]
    BY <1>1, NextHop
  <2>7. ASSUME NEW n \in Routed, NEW k \in 1..Infinity, n \in Within(Self, k)
        PROVE  n \in Within(routingTable[n], k - 1)
    <3>1. k \in Nat /\ k <= Infinity /\ k - 1 \in Nat
      BY <2>1
    <3>2. n \in Known /\ distance[n] <= k
      BY <1>2, <2>7, <3>1, WithinIsDistance
    <3>3. distance[n] - 1 <= k - 1
      BY <2>2, <3>1, <3>2
    <3> QED BY <1>1, <3>1, <3>3, NextHop
  <2> QED BY <2>4, <2>5, <2>6, <2>7
<1> QED BY <1>1, <1>2 DEF RoutesAreShortest

\* However the ties in the heap are broken, the routing table has exactly the
\* nodes that can be reached, each by a neighbor on a shortest path to it
\* (getShortestPathTree, updateRoutingTable).
THEOREM ShortestRoutes == PathSpec => []RoutesAreShortest
<1>1. ASSUME PathInv, [PathNext]_pathVars PROVE PathInv'
  <2>1. CASE PathNext
    BY <1>1, <2>1, PopInv DEF PathNext
  <2>2. CASE UNCHANGED pathVars
    BY <1>1, <2>2 DEF pathVars, PathInv, PathTypeOK, TreeOK, TakenOK, Known, Infinity
  <2> QED BY <1>1, <2>1, <2>2
<1>2. PathSpec => []PathInv
  BY <1>1, PathInitInv, PTL DEF PathSpec
<1> QED BY <1>2, PathInvImplies, PTL
=============================================================================
