--------------------------- MODULE SelectionProofs ---------------------------
(***************************************************************************)
(* Who is told of an event: the topic tree, for any clients and topics, and *)
(* the selections, for any checks and levels of operators.                 *)
(***************************************************************************)
EXTENDS TopicMap, SelectionGraph, FiniteSetTheorems, WellFoundedInduction, TLAPS

\* A set of numbers has a least one.
LEMMA LeastNumber ==
  ASSUME NEW S \in SUBSET Nat, S # {}
  PROVE  \E n \in S : \A k \in S : n <= k
<1> DEFINE R == OpToRel(<, Nat)
<1> HIDE DEF R
<1>1. IsWellFoundedOn(R, Nat)
  BY NatLessThanWellFounded DEF R
<1>2. PICK n \in S : \A k \in S : <<k, n>> \notin R
  BY <1>1, WFMin
<1>3. ASSUME NEW k \in S PROVE n <= k
  <2>1. <<k, n>> \notin R /\ k \in Nat /\ n \in Nat
    BY <1>2
  <2>2. ~(k < n)
    BY <2>1 DEF R, OpToRel
  <2> QED BY <2>1, <2>2
<1> QED BY <1>3

-----------------------------------------------------------------------------
(* The walk through the topic tree *)

\* What the tasks of one round add to the queue.
Onward(topic, tasks) == UNION {Steps(topic, t[1], t[2]) : t \in tasks}

\* The task that the walk begins with.
Start == {<<<<>>, 0>>}

\* What the recursion says of each round.
LEMMA EachRound ==
  ASSUME NEW topic, NEW K \in Nat, NEW f,
         f = [k \in 0..K |-> IF k = 0 THEN Start ELSE Onward(topic, f[k - 1])]
  PROVE  f[0] = Start /\ \A k \in 0..K : k # 0 => f[k] = Onward(topic, f[k - 1])
<1> DEFINE Value(k) == IF k = 0 THEN Start ELSE Onward(topic, f[k - 1])
<1>1. f = [k \in 0..K |-> Value(k)]
  OBVIOUS
<1> HIDE DEF Value
<1>2. \A k \in 0..K : f[k] = Value(k)
  BY <1>1
<1>3. 0 \in 0..K
  OBVIOUS
<1>4. f[0] = Start
  BY <1>2, <1>3 DEF Value
<1>5. ASSUME NEW k \in 0..K, k # 0 PROVE f[k] = Onward(topic, f[k - 1])
  BY <1>2, <1>5 DEF Value
<1> QED BY <1>4, <1>5

\* The rounds are well defined, and give the nodes.
LEMMA RoundsRun ==
  ASSUME NEW topic \in Seq(Levels)
  PROVE  \E round :
           /\ round[0] = Start
           /\ \A k \in 0..Len(topic) + 1 : k # 0 => round[k] = Onward(topic, round[k - 1])
           /\ NodesOf(topic) = {t[1] : t \in {u \in UNION {round[k] : k \in 0..Len(topic) + 1} :
                                                u[2] = Len(topic)}} \cap Patterns
<1> DEFINE Rounds(f, K) == f = [k \in 0..K |-> IF k = 0 THEN Start ELSE Onward(topic, f[k - 1])]
           S == {K \in Nat : ~ \E f : Rounds(f, K)}
<1>1. S = {}
  <2> SUFFICES ASSUME S # {} PROVE FALSE
    OBVIOUS
  <2>1. S \in SUBSET Nat
    OBVIOUS
  <2> HIDE DEF S
  <2>2. PICK K \in S : \A j \in S : K <= j
    BY <2>1, LeastNumber
  <2> USE DEF S
  <2>3. K \in Nat /\ ~ \E f : Rounds(f, K)
    OBVIOUS
  <2>4. CASE K = 0
    <3> DEFINE g == [k \in 0..K |-> Start]
    <3>1. Rounds(g, K)
      BY <2>4
    <3> QED BY <2>3, <3>1
  <2>5. CASE K # 0
    <3>1. K - 1 \in Nat /\ ~(K <= K - 1)
      BY <2>3, <2>5
    <3>2. K - 1 \notin S
      BY <2>2, <3>1
    <3>3. PICK f : Rounds(f, K - 1)
      BY <3>1, <3>2
    <3> DEFINE g == [k \in 0..K |-> IF k = 0 THEN Start ELSE Onward(topic, f[k - 1])]
    <3>4. \A k \in 0..(K - 1) : g[k] = f[k]
      <4>1. f[0] = Start /\ \A k \in 0..(K - 1) : k # 0 => f[k] = Onward(topic, f[k - 1])
        BY <3>1, <3>3, EachRound
      <4>2. \A k \in 0..(K - 1) : k \in 0..K
        BY <2>3
      <4> QED BY <4>1, <4>2
    <3>5. \A k \in 0..K : k # 0 => k - 1 \in 0..(K - 1)
      BY <2>3
    <3>6. \A k \in 0..K : k # 0 => g[k - 1] = f[k - 1]
      BY <3>4, <3>5
    <3>7. \A k \in 0..K : g[k] = IF k = 0 THEN Start ELSE Onward(topic, f[k - 1])
      OBVIOUS
    <3> HIDE DEF g
    <3>8. \A k \in 0..K : g[k] = IF k = 0 THEN Start ELSE Onward(topic, g[k - 1])
      BY <3>6, <3>7
    <3>9. g = [k \in 0..K |-> g[k]]
      BY DEF g
    <3>10. Rounds(g, K)
      BY <3>8, <3>9
    <3> QED BY <2>3, <3>10
  <2> QED BY <2>4, <2>5
<1> DEFINE round == CHOOSE f : Rounds(f, Len(topic) + 1)
<1>2. Len(topic) + 1 \in Nat /\ Len(topic) + 1 \notin S
  BY <1>1
<1>3. \E f : Rounds(f, Len(topic) + 1)
  BY <1>2
<1>4. Rounds(round, Len(topic) + 1)
  BY <1>3
<1>5. NodesOf(topic) = {t[1] : t \in {u \in UNION {round[k] : k \in 0..Len(topic) + 1} :
                                        u[2] = Len(topic)}} \cap Patterns
  BY DEF NodesOf, Onward, Start
<1> HIDE DEF round
<1>6. /\ round[0] = Start
      /\ \A k \in 0..Len(topic) + 1 : k # 0 => round[k] = Onward(topic, round[k - 1])
  BY <1>2, <1>4, EachRound
<1> QED BY <1>5, <1>6

\* What a level of a pattern may be.
Names == Levels \cup {"+", "#"}

\* A node that the walk may be at when i levels of the topic are used up: level by
\* level it is what the topic says or "+", or that up to a "#" at its end.
Fits(path, topic, i) ==
  /\ path \in Seq(Names) /\ i \in 0..Len(topic)
  /\ \/ /\ Len(path) = i
        /\ \A j \in 1..i : path[j] \in {"+", topic[j]}
     \/ /\ i = Len(topic) /\ path # <<>> /\ path[Len(path)] = "#"
        /\ Len(path) - 1 <= Len(topic)
        /\ \A j \in 1..(Len(path) - 1) : path[j] \in {"+", topic[j]}

\* A child is one level longer, and on the way to a pattern.
LEMMA ChildFacts ==
  ASSUME NEW path \in Seq(Names), NEW level \in Names, NEW x \in Child(path, level)
  PROVE  /\ x = Append(path, level) /\ x \in Seq(Names) /\ Len(x) = Len(path) + 1
         /\ x[Len(path) + 1] = level /\ \A j \in 1..Len(path) : x[j] = path[j]
         /\ \A j \in 1..Len(path) : path[j] # "#"
<1>1. x = Append(path, level)
  BY DEF Child
<1>2. /\ x \in Seq(Names) /\ Len(x) = Len(path) + 1
      /\ x[Len(path) + 1] = level /\ \A j \in 1..Len(path) : x[j] = path[j]
  BY <1>1
<1>3. PICK p \in Patterns : Len(p) > Len(path) /\ x = SubSeq(p, 1, Len(path) + 1)
  BY DEF Child
<1>4. p \in Seq(Names) /\ \A j \in 1..(Len(p) - 1) : p[j] # "#"
  BY TopicsAssumption DEF Names
<1>5. \A j \in 1..Len(path) : x[j] = p[j] /\ j \in 1..(Len(p) - 1)
  BY <1>3, <1>4
<1>6. \A j \in 1..Len(path) : path[j] # "#"
  BY <1>2, <1>4, <1>5
<1> QED BY <1>1, <1>2, <1>6

\* The walk only goes where the topic fits.
LEMMA StepsFit ==
  ASSUME NEW topic \in Seq(Levels), NEW path, NEW i, Fits(path, topic, i),
         NEW u \in Steps(topic, path, i)
  PROVE  Fits(u[1], topic, u[2])
<1>1. path \in Seq(Names) /\ i \in 0..Len(topic) /\ Len(path) \in Nat /\ Len(topic) \in Nat
  BY DEF Fits
<1>2. "+" \in Names /\ "#" \in Names /\ \A j \in 1..Len(topic) : topic[j] \in Names
  BY DEF Names
<1>3. ASSUME NEW level \in Names, NEW x \in Child(path, level)
      PROVE  Len(path) = i /\ \A j \in 1..i : path[j] \in {"+", topic[j]}
  <2>1. \A j \in 1..Len(path) : path[j] # "#"
    BY <1>1, <1>3, ChildFacts
  <2>2. path # <<>> => Len(path) \in 1..Len(path)
    BY <1>1
  <2> QED BY <2>1, <2>2 DEF Fits
<1>4. ASSUME NEW x \in Child(path, "#") PROVE Fits(x, topic, Len(topic))
  <2>1. Len(path) = i /\ \A j \in 1..i : path[j] \in {"+", topic[j]}
    BY <1>2, <1>3
  <2>2. /\ x \in Seq(Names) /\ Len(x) = Len(path) + 1
        /\ x[Len(path) + 1] = "#" /\ \A j \in 1..Len(path) : x[j] = path[j]
    BY <1>1, <1>2, ChildFacts
  <2>3. x # <<>> /\ Len(x) - 1 = i
    BY <1>1, <2>1, <2>2
  <2> QED BY <1>1, <2>1, <2>2, <2>3 DEF Fits
<1>5. ASSUME i # Len(topic), NEW level \in {"+", topic[i + 1]}, NEW x \in Child(path, level)
      PROVE  Fits(x, topic, i + 1)
  <2>1. level \in Names /\ i + 1 \in 0..Len(topic)
    BY <1>1, <1>2, <1>5
  <2>2. Len(path) = i /\ \A j \in 1..i : path[j] \in {"+", topic[j]}
    BY <1>3, <2>1
  <2>3. /\ x \in Seq(Names) /\ Len(x) = Len(path) + 1
        /\ x[Len(path) + 1] = level /\ \A j \in 1..Len(path) : x[j] = path[j]
    BY <1>1, <2>1, ChildFacts
  <2>4. \A j \in 1..(i + 1) : x[j] \in {"+", topic[j]}
    BY <1>1, <1>5, <2>2, <2>3
  <2> QED BY <2>1, <2>2, <2>3, <2>4 DEF Fits
<1>6. CASE i = Len(topic)
  BY <1>4, <1>6 DEF Steps
<1>7. CASE i # Len(topic)
  BY <1>4, <1>5, <1>7 DEF Steps
<1> QED BY <1>6, <1>7

\* A pattern where the topic is used up covers it.
LEMMA FitsCovers ==
  ASSUME NEW topic \in Seq(Levels), NEW p \in Patterns, Fits(p, topic, Len(topic))
  PROVE  Covers(p, topic)
<1>1. p \in Seq(Names) /\ p # <<>> /\ Len(p) \in Nat /\ Len(topic) \in Nat
  BY TopicsAssumption DEF Names
<1>2. Last(p) = p[Len(p)]
  BY DEF Last
<1>3. CASE Len(p) = Len(topic) /\ \A j \in 1..Len(topic) : p[j] \in {"+", topic[j]}
  BY <1>1, <1>3 DEF Covers
<1>4. CASE /\ p[Len(p)] = "#" /\ Len(p) - 1 <= Len(topic)
           /\ \A j \in 1..(Len(p) - 1) : p[j] \in {"+", topic[j]}
  BY <1>1, <1>2, <1>4 DEF Covers
<1> QED BY <1>3, <1>4 DEF Fits

\* The walk finds only patterns that cover the topic.
LEMMA WalkIsSound ==
  ASSUME NEW topic \in Seq(Levels), NEW round, round[0] = Start,
         \A k \in 0..Len(topic) + 1 : k # 0 => round[k] = Onward(topic, round[k - 1]),
         NEW k \in 0..Len(topic) + 1, NEW u \in round[k]
  PROVE  Fits(u[1], topic, u[2])
<1> DEFINE S == {j \in 0..Len(topic) + 1 : \E t \in round[j] : ~Fits(t[1], topic, t[2])}
<1>1. Len(topic) \in Nat
  OBVIOUS
<1>2. S = {}
  <2> SUFFICES ASSUME S # {} PROVE FALSE
    OBVIOUS
  <2>1. S \in SUBSET Nat
    BY <1>1
  <2> HIDE DEF S
  <2>2. PICK j \in S : \A i \in S : j <= i
    BY <2>1, LeastNumber
  <2> USE DEF S
  <2>3. PICK t \in round[j] : ~Fits(t[1], topic, t[2])
    OBVIOUS
  <2>4. j \in 0..Len(topic) + 1 /\ j \in Nat
    BY <2>1
  <2>5. CASE j = 0
    <3>1. t = <<<<>>, 0>>
      BY <2>5 DEF Start
    <3>2. t[1] = <<>> /\ t[2] = 0
      BY <3>1
    <3>3. <<>> \in Seq(Names) /\ Len(<<>>) = 0
      OBVIOUS
    <3>4. 0 \in 0..Len(topic)
      BY <1>1
    <3>5. Fits(<<>>, topic, 0)
      BY <3>3, <3>4 DEF Fits
    <3> QED BY <2>3, <3>2, <3>5
  <2>6. CASE j # 0
    <3>1. j - 1 \in 0..Len(topic) + 1 /\ ~(j <= j - 1)
      BY <2>4, <2>6
    <3>2. j - 1 \notin S
      BY <2>2, <3>1
    <3>3. PICK s \in round[j - 1] : t \in Steps(topic, s[1], s[2])
      BY <2>4, <2>6 DEF Onward
    <3>4. Fits(s[1], topic, s[2])
      BY <3>1, <3>2
    <3>5. Fits(t[1], topic, t[2])
      BY <3>3, <3>4, StepsFit
    <3> QED BY <2>3, <3>5
  <2> QED BY <2>5, <2>6
<1> QED BY <1>2

\* The way to a pattern is in the tree.
LEMMA WayIsThere ==
  ASSUME NEW p \in Patterns, NEW k \in Nat, k < Len(p)
  PROVE  SubSeq(p, 1, k + 1) \in Child(SubSeq(p, 1, k), p[k + 1])
<1>1. p \in Seq(Names) /\ Len(p) \in Nat
  BY TopicsAssumption DEF Names
<1>2. Len(SubSeq(p, 1, k)) = k
  BY <1>1
<1>3. SubSeq(p, 1, k + 1) = Append(SubSeq(p, 1, k), p[k + 1])
  BY <1>1
<1> QED BY <1>1, <1>2, <1>3 DEF Child

\* A task of one round leads to those of the next.
LEMMA OnwardHas ==
  ASSUME NEW topic, NEW tasks, NEW path, NEW i, <<path, i>> \in tasks,
         NEW u \in Steps(topic, path, i)
  PROVE  u \in Onward(topic, tasks)
<1> DEFINE t == <<path, i>>
<1>1. t[1] = path /\ t[2] = i /\ t \in tasks
  OBVIOUS
<1> HIDE DEF t
<1> QED BY <1>1 DEF Onward

\* The walk finds every pattern that covers the topic.
LEMMA WalkIsComplete ==
  ASSUME NEW topic \in Seq(Levels), NEW round, round[0] = Start,
         \A k \in 0..Len(topic) + 1 : k # 0 => round[k] = Onward(topic, round[k - 1]),
         NEW p \in Patterns, Covers(p, topic)
  PROVE  \E k \in 0..Len(topic) + 1 : <<p, Len(topic)>> \in round[k]
<1> DEFINE n == IF Last(p) = "#" THEN Len(p) - 1 ELSE Len(p)
           S == {k \in 0..n : <<SubSeq(p, 1, k), k>> \notin round[k]}
<1>1. p \in Seq(Names) /\ p # <<>> /\ Len(p) \in Nat /\ Len(p) > 0 /\ Len(topic) \in Nat
  BY TopicsAssumption DEF Names
<1>2. n \in Nat /\ n <= Len(p) /\ n <= Len(topic)
  BY <1>1 DEF Covers
<1>3. \A k \in 1..n : p[k] \in {"+", topic[k]}
  BY DEF Covers
<1> HIDE DEF n
<1>4. S = {}
  <2> SUFFICES ASSUME S # {} PROVE FALSE
    OBVIOUS
  <2>1. S \in SUBSET Nat
    BY <1>2
  <2> HIDE DEF S
  <2>2. PICK k \in S : \A i \in S : k <= i
    BY <2>1, LeastNumber
  <2> USE DEF S
  <2>3. k \in 0..n /\ k \in Nat /\ <<SubSeq(p, 1, k), k>> \notin round[k]
    BY <2>1
  <2>4. CASE k = 0
    <3>1. SubSeq(p, 1, 0) = <<>>
      BY <1>1
    <3> QED BY <2>3, <2>4, <3>1 DEF Start
  <2>5. CASE k # 0
    <3>1. k - 1 \in 0..n /\ ~(k <= k - 1) /\ k - 1 \in Nat /\ k - 1 < Len(p) /\ k - 1 # Len(topic)
      BY <1>1, <1>2, <2>3, <2>5
    <3>2. <<SubSeq(p, 1, k - 1), k - 1>> \in round[k - 1]
      BY <2>2, <3>1
    <3>3. SubSeq(p, 1, (k - 1) + 1) \in Child(SubSeq(p, 1, k - 1), p[(k - 1) + 1])
      BY <3>1, WayIsThere
    <3>4. (k - 1) + 1 = k /\ k \in 1..n /\ k \in 0..Len(topic) + 1
      BY <1>1, <1>2, <2>3, <2>5
    <3>5. SubSeq(p, 1, k) \in Child(SubSeq(p, 1, k - 1), p[k])
      BY <3>3, <3>4
    <3>6. p[k] \in {"+", topic[(k - 1) + 1]}
      BY <1>3, <3>4
    <3>7. <<SubSeq(p, 1, k), k>> \in Steps(topic, SubSeq(p, 1, k - 1), k - 1)
      BY <3>1, <3>4, <3>5, <3>6 DEF Steps
    <3>8. round[k] = Onward(topic, round[k - 1])
      BY <2>5, <3>4
    <3>9. <<SubSeq(p, 1, k), k>> \in round[k]
      <4> DEFINE path == SubSeq(p, 1, k - 1)
                 w == <<SubSeq(p, 1, k), k>>
      <4>1. <<path, k - 1>> \in round[k - 1] /\ w \in Steps(topic, path, k - 1)
        BY <3>2, <3>7
      <4> HIDE DEF path, w
      <4>2. w \in Onward(topic, round[k - 1])
        BY <4>1, OnwardHas
      <4>3. w \in round[k]
        BY <3>8, <4>2
      <4> QED BY <4>3 DEF w
    <3> QED BY <2>3, <3>9
  <2> QED BY <2>4, <2>5
<1>5. <<SubSeq(p, 1, n), n>> \in round[n]
  <2>1. n \in 0..n
    BY <1>2
  <2> QED BY <1>4, <2>1
<1>6. SubSeq(p, 1, Len(p)) = p
  BY <1>1
<1>7. CASE Last(p) # "#"
  <2>1. n = Len(p) /\ n = Len(topic)
    BY <1>7 DEF n, Covers
  <2>2. n \in 0..Len(topic) + 1
    BY <1>2
  <2> QED BY <1>5, <1>6, <2>1, <2>2
<1>8. CASE Last(p) = "#"
  <2>1. n = Len(p) - 1 /\ p[Len(p)] = "#"
    BY <1>8 DEF n, Last
  <2>2. n + 1 = Len(p) /\ n < Len(p) /\ n + 1 \in 0..Len(topic) + 1 /\ n + 1 # 0 /\ (n + 1) - 1 = n
    BY <1>1, <1>2, <2>1
  <2>3. p \in Child(SubSeq(p, 1, n), "#")
    <3>1. SubSeq(p, 1, n + 1) \in Child(SubSeq(p, 1, n), p[n + 1])
      BY <1>2, <2>2, WayIsThere
    <3> QED BY <1>6, <2>1, <2>2, <3>1
  <2>4. <<p, Len(topic)>> \in Steps(topic, SubSeq(p, 1, n), n)
    BY <2>3 DEF Steps
  <2>5. round[n + 1] = Onward(topic, round[n])
    BY <2>2
  <2>6. <<p, Len(topic)>> \in round[n + 1]
    <3> DEFINE path == SubSeq(p, 1, n)
               w == <<p, Len(topic)>>
    <3>1. <<path, n>> \in round[n] /\ w \in Steps(topic, path, n)
      BY <1>5, <2>4
    <3> HIDE DEF path, w
    <3>2. w \in Onward(topic, round[n])
      BY <3>1, OnwardHas
    <3>3. w \in round[n + 1]
      BY <2>5, <3>2
    <3> QED BY <3>3 DEF w
  <2> QED BY <2>2, <2>6
<1> QED BY <1>7, <1>8

\* The nodes are the patterns that cover the topic.
LEMMA NodesCover ==
  ASSUME NEW topic \in Seq(Levels)
  PROVE  NodesOf(topic) = {q \in Patterns : Covers(q, topic)}
<1>1. PICK round :
        /\ round[0] = Start
        /\ \A k \in 0..Len(topic) + 1 : k # 0 => round[k] = Onward(topic, round[k - 1])
        /\ NodesOf(topic) = {t[1] : t \in {u \in UNION {round[k] : k \in 0..Len(topic) + 1} :
                                             u[2] = Len(topic)}} \cap Patterns
  BY RoundsRun
<1> DEFINE nodes == {t[1] : t \in {u \in UNION {round[k] : k \in 0..Len(topic) + 1} : u[2] = Len(topic)}}
<1>2. ASSUME NEW p \in nodes \cap Patterns PROVE Covers(p, topic)
  <2>1. PICK u \in UNION {round[k] : k \in 0..Len(topic) + 1} : u[2] = Len(topic) /\ p = u[1]
    OBVIOUS
  <2>2. PICK k \in 0..Len(topic) + 1 : u \in round[k]
    BY <2>1
  <2>3. Fits(p, topic, Len(topic))
    BY <1>1, <2>1, <2>2, WalkIsSound
  <2> QED BY <2>3, FitsCovers
<1>3. ASSUME NEW p \in Patterns, Covers(p, topic) PROVE p \in nodes
  <2>1. PICK k \in 0..Len(topic) + 1 : <<p, Len(topic)>> \in round[k]
    BY <1>1, <1>3, WalkIsComplete
  <2> DEFINE u == <<p, Len(topic)>>
  <2>2. u[1] = p /\ u[2] = Len(topic)
    OBVIOUS
  <2> HIDE DEF u
  <2>3. u \in round[k]
    BY <2>1 DEF u
  <2> QED BY <2>2, <2>3
<1>4. NodesOf(topic) = nodes \cap Patterns
  BY <1>1
<1> HIDE DEF nodes
<1> QED BY <1>2, <1>3, <1>4

-----------------------------------------------------------------------------
(* Subscribing: a node has the clients that hold its pattern *)

NodesOK ==
  /\ TopicTypeOK
  /\ \A p \in Patterns, c \in Subscribers : c \in clients[p] <=> <<c, p>> \in live
  /\ \A p \in Patterns : \A c \in clients[p] : p \in mentioned[c]

\* Every operation keeps it; removeClient finds all patterns of the client,
\* because it never forgets one.
LEMMA NodesStep == NodesOK /\ [TopicNext]_topicVars => NodesOK'
<1> SUFFICES ASSUME NodesOK, [TopicNext]_topicVars PROVE NodesOK'
  OBVIOUS
<1>1. TopicTypeOK
  BY DEF NodesOK
<1>2. ASSUME NEW c \in Subscribers, NEW p \in Patterns, addSubscription(p, c) PROVE NodesOK'
  <2>1. TopicTypeOK'
    BY <1>1, <1>2 DEF TopicTypeOK, addSubscription
  <2> QED BY <1>1, <1>2, <2>1 DEF NodesOK, TopicTypeOK, addSubscription
<1>3. ASSUME NEW c \in Subscribers, NEW p \in Patterns, removeSubscription(p, c) PROVE NodesOK'
  <2>1. TopicTypeOK'
    BY <1>1, <1>3 DEF TopicTypeOK, removeSubscription
  <2> QED BY <1>1, <1>3, <2>1 DEF NodesOK, TopicTypeOK, removeSubscription
<1>4. ASSUME NEW c \in Subscribers, removeClient(c) PROVE NodesOK'
  <2>1. TopicTypeOK'
    BY <1>1, <1>4 DEF TopicTypeOK, removeClient
  <2> QED BY <1>1, <1>4, <2>1 DEF NodesOK, TopicTypeOK, removeClient
<1>5. CASE UNCHANGED topicVars
  BY <1>5 DEF NodesOK, TopicTypeOK, topicVars
<1> QED BY <1>2, <1>3, <1>4, <1>5 DEF TopicNext

\* Who is found holds a subscription that covers the topic, and the other way round.
LEMMA NodesImply == NodesOK => PublishSetIsExact
<1> SUFFICES ASSUME NodesOK PROVE PublishSetIsExact
  OBVIOUS
<1>1. TopicTypeOK
  BY DEF NodesOK
<1>2. ASSUME NEW topic \in Topics
      PROVE  getPublishSet(topic) = {c \in Subscribers : \E p \in Patterns : <<c, p>> \in live /\ Covers(p, topic)}
  <2>1. topic \in Seq(Levels)
    BY TopicsAssumption
  <2>2. getPublishSet(topic) = UNION {clients[p] : p \in {q \in Patterns : Covers(q, topic)}}
    BY <2>1, NodesCover DEF getPublishSet, Reached
  <2>3. \A p \in Patterns : clients[p] \subseteq Subscribers
    BY <1>1 DEF TopicTypeOK
  <2> QED BY <2>2, <2>3 DEF NodesOK
<1> QED BY <1>1, <1>2 DEF PublishSetIsExact

\* Publishing to a topic reaches exactly the clients that hold a subscription which
\* covers it (getPublishSet), for any subscriptions with wildcards.
THEOREM ExactPublishSets == TopicSpec => []PublishSetIsExact
<1>1. TopicInit => NodesOK
  BY DEF TopicInit, NodesOK, TopicTypeOK
<1>2. TopicSpec => []NodesOK
  BY <1>1, NodesStep, PTL DEF TopicSpec
<1> QED BY <1>2, NodesImply, PTL

-----------------------------------------------------------------------------
(* Selections: what the recursive definitions say *)

\* One more level of operators, for the levels f that there are.
NextLevel(f, d) == IF d = 0 THEN Leaves ELSE f[d - 1] \cup Deeper(f[d - 1])
NextOrs(f, d) == IF d = 0 THEN Leaves ELSE f[d - 1] \cup Either(f[d - 1])

\* A step of a recursion over levels reads the level below only.
LEMMA SameBelow ==
  ASSUME NEW d \in Nat, NEW f, NEW h, d # 0 => f[d - 1] = h[d - 1]
  PROVE  NextLevel(f, d) = NextLevel(h, d) /\ NextOrs(f, d) = NextOrs(h, d)
BY DEF NextLevel, NextOrs

\* There are such levels.
LEMMA LevelsRun == \A d \in 0..Depth : SelectionsUpTo[d] = NextLevel(SelectionsUpTo, d)
<1> DEFINE Runs(f, K) == f = [d \in 0..K |-> NextLevel(f, d)]
           S == {K \in Nat : ~ \E f : Runs(f, K)}
<1>1. S = {}
  <2> SUFFICES ASSUME S # {} PROVE FALSE
    OBVIOUS
  <2>1. S \in SUBSET Nat
    OBVIOUS
  <2> HIDE DEF S
  <2>2. PICK K \in S : \A j \in S : K <= j
    BY <2>1, LeastNumber
  <2> USE DEF S
  <2>3. K \in Nat /\ ~ \E f : Runs(f, K)
    OBVIOUS
  <2>4. CASE K = 0
    <3> DEFINE h == [d \in 0..K |-> Leaves]
    <3>1. \A d \in 0..K : NextLevel(h, d) = Leaves
      BY <2>4 DEF NextLevel
    <3>2. Runs(h, K)
      BY <3>1
    <3> QED BY <2>3, <3>2
  <2>5. CASE K # 0
    <3>1. K - 1 \in Nat /\ ~(K <= K - 1)
      BY <2>3, <2>5
    <3>2. K - 1 \notin S
      BY <2>2, <3>1
    <3>3. PICK f : Runs(f, K - 1)
      BY <3>1, <3>2
    <3> DEFINE h == [d \in 0..K |-> NextLevel(f, d)]
    <3>4. \A d \in 0..(K - 1) : h[d] = f[d]
      <4>1. \A d \in 0..(K - 1) : f[d] = NextLevel(f, d)
        BY <3>3
      <4>2. \A d \in 0..(K - 1) : d \in 0..K
        BY <2>3
      <4> QED BY <4>1, <4>2
    <3>5. \A d \in 0..K : d \in Nat /\ (d # 0 => d - 1 \in 0..(K - 1))
      BY <2>3
    <3>6. \A d \in 0..K : NextLevel(f, d) = NextLevel(h, d)
      <4> HIDE DEF h
      <4> QED BY <3>4, <3>5, SameBelow
    <3>7. Runs(h, K)
      BY <3>6
    <3> QED BY <2>3, <3>7
  <2> QED BY <2>4, <2>5
<1>2. Depth \in Nat /\ Depth \notin S
  BY <1>1, DepthAssumption
<1>3. \E f : Runs(f, Depth)
  BY <1>2
<1>4. SelectionsUpTo = CHOOSE f : Runs(f, Depth)
  BY DEF SelectionsUpTo, NextLevel
<1>5. Runs(SelectionsUpTo, Depth)
  BY <1>3, <1>4
<1> QED BY <1>5

\* What may be on a level: a check, or an operator over nodes of the level below.
Shape(n, d) ==
  \/ n \in Leaves
  \/ /\ d # 0
     /\ \/ \E l, r \in SelectionsUpTo[d - 1] : n = Op("and", <<l, r>>) \/ n = Op("or", <<l, r>>)
        \/ \E x \in SelectionsUpTo[d - 1] : n = Op("not", <<x>>)

\* Every level has the nodes of the level below.
LEMMA LevelsGrow ==
  ASSUME NEW d \in 0..Depth, d # 0
  PROVE  d - 1 \in 0..Depth /\ SelectionsUpTo[d - 1] \subseteq SelectionsUpTo[d]
<1>1. d - 1 \in 0..Depth
  BY DepthAssumption
<1> QED BY <1>1, LevelsRun DEF NextLevel

\* What Either and Deeper add.
LEMMA DeeperNodes ==
  ASSUME NEW S
  PROVE  /\ \A n \in Either(S) : \E l, r \in S : n = Op("or", <<l, r>>)
         /\ \A n \in Deeper(S) : \/ \E l, r \in S : n = Op("and", <<l, r>>) \/ n = Op("or", <<l, r>>)
                                 \/ \E x \in S : n = Op("not", <<x>>)
         /\ Either(S) \subseteq Deeper(S)
         /\ \A T : S \subseteq T => Either(S) \subseteq Either(T)
<1>1. \A pair \in S \X S : \E l, r \in S : pair = <<l, r>>
  OBVIOUS
<1>2. \A n \in Either(S) : \E pair \in S \X S : n = Op("or", pair)
  BY DEF Either
<1>3. \A n \in Either(S) : \E l, r \in S : n = Op("or", <<l, r>>)
  BY <1>1, <1>2
<1>4. \A n \in Deeper(S) : \/ \E pair \in S \X S : n = Op("and", pair)
                           \/ n \in Either(S) \/ \E x \in S : n = Op("not", <<x>>)
  BY DEF Deeper
<1>5. \A n \in Deeper(S) : \/ \E l, r \in S : n = Op("and", <<l, r>>) \/ n = Op("or", <<l, r>>)
                           \/ \E x \in S : n = Op("not", <<x>>)
  BY <1>1, <1>3, <1>4
<1>6. Either(S) \subseteq Deeper(S)
  BY DEF Deeper
<1>7. ASSUME NEW T, S \subseteq T PROVE Either(S) \subseteq Either(T)
  <2>1. \A pair \in S \X S : pair \in T \X T
    BY <1>7
  <2> QED BY <2>1 DEF Either
<1> QED BY <1>3, <1>5, <1>6, <1>7

\* A node is a check or has its children on the level below.
LEMMA NodesHaveShape == \A d \in 0..Depth : \A n \in SelectionsUpTo[d] : Shape(n, d)
<1> DEFINE S == {d \in 0..Depth : ~ \A n \in SelectionsUpTo[d] : Shape(n, d)}
<1> SUFFICES ASSUME S # {} PROVE FALSE
  OBVIOUS
<1>1. S \in SUBSET Nat
  BY DepthAssumption
<1> HIDE DEF S
<1>2. PICK d \in S : \A j \in S : d <= j
  BY <1>1, LeastNumber
<1> USE DEF S
<1>3. PICK n \in SelectionsUpTo[d] : ~Shape(n, d)
  OBVIOUS
<1>4. d \in 0..Depth /\ d \in Nat
  BY <1>1
<1>5. d # 0
  BY <1>3, <1>4, LevelsRun DEF NextLevel, Shape
<1>6. d - 1 \in 0..Depth /\ ~(d <= d - 1)
  BY <1>4, <1>5, DepthAssumption
<1>7. n \in SelectionsUpTo[d - 1] \/ n \in Deeper(SelectionsUpTo[d - 1])
  BY <1>3, <1>4, <1>5, LevelsRun DEF NextLevel
<1>8. CASE n \in SelectionsUpTo[d - 1]
  <2>1. d - 1 \notin S
    BY <1>2, <1>6
  <2>2. Shape(n, d - 1)
    BY <1>6, <1>8, <2>1
  <2>3. d - 1 # 0 => SelectionsUpTo[(d - 1) - 1] \subseteq SelectionsUpTo[d - 1]
    BY <1>6, LevelsGrow
  <2> QED BY <1>3, <1>5, <2>2, <2>3 DEF Shape
<1>9. CASE n \in Deeper(SelectionsUpTo[d - 1])
  BY <1>3, <1>5, <1>9, DeeperNodes DEF Shape
<1> QED BY <1>7, <1>8, <1>9

\* The parts of a node.
LEMMA NodeParts ==
  /\ \A c : Check(c).op = "check" /\ Check(c).check = c /\ Check(c).children = <<>>
  /\ \A op, l, r : /\ Op(op, <<l, r>>).op = op /\ Op(op, <<l, r>>).children = <<l, r>>
                   /\ Op(op, <<l, r>>).children[1] = l /\ Op(op, <<l, r>>).children[2] = r
  /\ \A x : Op("not", <<x>>).op = "not" /\ Op("not", <<x>>).children[1] = x
BY DEF Check, Op

\* The selections are closed under taking children.
LEMMA ChildrenAreSelections ==
  ASSUME NEW d \in 0..Depth, NEW n \in SelectionsUpTo[d]
  PROVE  /\ n.op \in {"and", "or", "not", "check"}
         /\ n.op # "check" => d # 0 /\ n.children[1] \in SelectionsUpTo[d - 1]
         /\ n.op \in {"and", "or"} => n.children[2] \in SelectionsUpTo[d - 1]
         /\ n.op = "check" => n \in Leaves
<1>1. Shape(n, d)
  BY NodesHaveShape
<1>2. CASE n \in Leaves
  BY <1>2, NodeParts DEF Leaves
<1>3. ASSUME d # 0, NEW l \in SelectionsUpTo[d - 1], NEW r \in SelectionsUpTo[d - 1], NEW op \in {"and", "or"},
             n = Op(op, <<l, r>>)
      PROVE  /\ n.op = op /\ n.children[1] \in SelectionsUpTo[d - 1] /\ n.children[2] \in SelectionsUpTo[d - 1]
  BY <1>3, NodeParts
<1>4. ASSUME d # 0, NEW x \in SelectionsUpTo[d - 1], n = Op("not", <<x>>)
      PROVE  n.op = "not" /\ n.children[1] \in SelectionsUpTo[d - 1]
  BY <1>4, NodeParts
<1> QED BY <1>1, <1>2, <1>3, <1>4 DEF Shape

\* What a node means, given what the nodes below mean.
Meaning(f, resource, n) ==
  CASE n.op = "and" -> f[n.children[1]] /\ f[n.children[2]]
    [] n.op = "or"  -> f[n.children[1]] \/ f[n.children[2]]
    [] n.op = "not" -> ~f[n.children[1]]
    [] OTHER        -> Satisfies(resource, n.check)

\* It depends on the children only.
LEMMA SameMeaning ==
  ASSUME NEW resource, NEW d \in 0..Depth, NEW n \in SelectionsUpTo[d], NEW f, NEW h,
         d # 0 => \A x \in SelectionsUpTo[d - 1] : f[x] = h[x]
  PROVE  Meaning(f, resource, n) = Meaning(h, resource, n)
<1>1. n.op # "check" => f[n.children[1]] = h[n.children[1]]
  BY ChildrenAreSelections
<1>2. n.op \in {"and", "or"} => f[n.children[2]] = h[n.children[2]]
  BY ChildrenAreSelections
<1>3. n.op \in {"and", "or", "not", "check"}
  BY ChildrenAreSelections
<1> QED BY <1>1, <1>2, <1>3 DEF Meaning

\* There is such a meaning.
LEMMA MeaningRuns ==
  ASSUME NEW resource
  PROVE  \E f : /\ f = [m \in ParsedSelections |-> Meaning(f, resource, m)]
                /\ \A m : isInSelection(resource, m) = f[m]
<1> DEFINE Means(f, K) == f = [m \in SelectionsUpTo[K] |-> Meaning(f, resource, m)]
           S == {K \in 0..Depth : ~ \E f : Means(f, K)}
<1>1. S = {}
  <2> SUFFICES ASSUME S # {} PROVE FALSE
    OBVIOUS
  <2>1. S \in SUBSET Nat
    BY DepthAssumption
  <2> HIDE DEF S
  <2>2. PICK K \in S : \A j \in S : K <= j
    BY <2>1, LeastNumber
  <2> USE DEF S
  <2>3. K \in 0..Depth /\ K \in Nat /\ ~ \E f : Means(f, K)
    BY <2>1
  <2>4. \E f : K # 0 => Means(f, K - 1)
    <3>1. CASE K # 0
      <4>1. K - 1 \in 0..Depth /\ ~(K <= K - 1)
        BY <2>3, <3>1, DepthAssumption
      <4>2. K - 1 \notin S
        BY <2>2, <4>1
      <4> QED BY <4>1, <4>2
    <3> QED BY <3>1
  <2>5. PICK f : K # 0 => Means(f, K - 1)
    BY <2>4
  <2> DEFINE h == [m \in SelectionsUpTo[K] |-> Meaning(f, resource, m)]
  <2>6. K # 0 => \A x \in SelectionsUpTo[K - 1] : f[x] = h[x]
    <3>1. K # 0 => \A x \in SelectionsUpTo[K - 1] : f[x] = Meaning(f, resource, x)
      BY <2>5
    <3>2. K # 0 => \A x \in SelectionsUpTo[K - 1] : x \in SelectionsUpTo[K]
      BY <2>3, LevelsGrow
    <3> QED BY <3>1, <3>2
  <2>7. \A m \in SelectionsUpTo[K] : Meaning(f, resource, m) = Meaning(h, resource, m)
    <3> HIDE DEF h
    <3> QED BY <2>3, <2>6, SameMeaning
  <2>8. Means(h, K)
    BY <2>7
  <2> QED BY <2>3, <2>8
<1>2. Depth \in 0..Depth /\ Depth \notin S
  BY <1>1, DepthAssumption
<1>3. \E f : Means(f, Depth)
  BY <1>2
<1> DEFINE isIn == CHOOSE f : Means(f, Depth)
<1>4. Means(isIn, Depth)
  BY <1>3
<1>5. \A m : isInSelection(resource, m) = isIn[m]
  BY DEF isInSelection, Meaning, ParsedSelections
<1> HIDE DEF isIn
<1> QED BY <1>4, <1>5 DEF ParsedSelections

\* What is on a level is a selection.
LEMMA EveryLevel == \A d \in 0..Depth : SelectionsUpTo[d] \subseteq ParsedSelections
<1> DEFINE S == {k \in Nat : ~(k \in 0..Depth => SelectionsUpTo[Depth - k] \subseteq ParsedSelections)}
<1>1. S = {}
  <2> SUFFICES ASSUME S # {} PROVE FALSE
    OBVIOUS
  <2>1. S \in SUBSET Nat
    OBVIOUS
  <2> HIDE DEF S
  <2>2. PICK k \in S : \A j \in S : k <= j
    BY <2>1, LeastNumber
  <2> USE DEF S
  <2>3. k \in 0..Depth /\ k \in Nat /\ ~(SelectionsUpTo[Depth - k] \subseteq ParsedSelections)
    BY <2>1
  <2>4. k # 0
    BY <2>3, DepthAssumption DEF ParsedSelections
  <2>5. k - 1 \in 0..Depth /\ k - 1 \in Nat /\ ~(k <= k - 1)
    BY <2>3, <2>4, DepthAssumption
  <2>6. k - 1 \notin S
    BY <2>2, <2>5
  <2>7. SelectionsUpTo[Depth - (k - 1)] \subseteq ParsedSelections
    BY <2>5, <2>6
  <2>8. /\ Depth - (k - 1) \in 0..Depth /\ Depth - (k - 1) # 0
        /\ (Depth - (k - 1)) - 1 = Depth - k
    BY <2>3, <2>4, DepthAssumption
  <2>9. SelectionsUpTo[Depth - k] \subseteq SelectionsUpTo[Depth - (k - 1)]
    BY <2>8, LevelsGrow
  <2> QED BY <2>3, <2>7, <2>9
<1>2. ASSUME NEW d \in 0..Depth PROVE SelectionsUpTo[d] \subseteq ParsedSelections
  <2>1. Depth - d \in Nat /\ Depth - d \in 0..Depth /\ Depth - (Depth - d) = d
    BY DepthAssumption
  <2>2. Depth - d \notin S
    BY <1>1
  <2> QED BY <2>1, <2>2
<1> QED BY <1>2

\* isInSelection, node by node.
LEMMA InSelection ==
  ASSUME NEW resource, NEW n \in ParsedSelections
  PROVE  /\ n.op = "and" => (isInSelection(resource, n) <=>
              isInSelection(resource, n.children[1]) /\ isInSelection(resource, n.children[2]))
         /\ n.op = "or" => (isInSelection(resource, n) <=>
              isInSelection(resource, n.children[1]) \/ isInSelection(resource, n.children[2]))
         /\ n.op = "not" => (isInSelection(resource, n) <=> ~isInSelection(resource, n.children[1]))
         /\ n.op = "check" => (isInSelection(resource, n) <=> Satisfies(resource, n.check))
<1>1. PICK f : /\ f = [m \in ParsedSelections |-> Meaning(f, resource, m)]
               /\ \A m : isInSelection(resource, m) = f[m]
  BY MeaningRuns
<1>2. f[n] = Meaning(f, resource, n)
  BY <1>1
<1>3. isInSelection(resource, n) = Meaning(f, resource, n)
  BY <1>1, <1>2
<1>4. /\ isInSelection(resource, n.children[1]) = f[n.children[1]]
      /\ isInSelection(resource, n.children[2]) = f[n.children[2]]
  BY <1>1
<1> HIDE <1>1
<1> QED BY <1>3, <1>4 DEF Meaning

\* The children of a selection are selections.
LEMMA ChildrenOfSelections ==
  ASSUME NEW n \in ParsedSelections
  PROVE  /\ n.op \in {"and", "or", "not", "check"}
         /\ n.op # "check" => n.children[1] \in ParsedSelections
         /\ n.op \in {"and", "or"} => n.children[2] \in ParsedSelections
<1>1. Depth \in 0..Depth /\ n \in SelectionsUpTo[Depth]
  BY DepthAssumption DEF ParsedSelections
<1>2. Depth # 0 => SelectionsUpTo[Depth - 1] \subseteq SelectionsUpTo[Depth]
  BY <1>1, LevelsGrow
<1> QED BY <1>1, <1>2, ChildrenAreSelections DEF ParsedSelections

\* The resources that a node is found to hold for, given those of the nodes below.
Found(f, n) ==
  CASE n.op = "and" -> f[n.children[1]] \cap f[n.children[2]]
    [] n.op = "or"  -> f[n.children[1]] \cup f[n.children[2]]
    [] n.op = "not" -> Complement(f[n.children[1]])
    [] OTHER        -> getResources(n.check)

\* They depend on the children only.
LEMMA SameFound ==
  ASSUME NEW d \in 0..Depth, NEW n \in SelectionsUpTo[d], NEW f, NEW h,
         d # 0 => \A x \in SelectionsUpTo[d - 1] : f[x] = h[x]
  PROVE  Found(f, n) = Found(h, n)
<1>1. n.op # "check" => f[n.children[1]] = h[n.children[1]]
  BY ChildrenAreSelections
<1>2. n.op \in {"and", "or"} => f[n.children[2]] = h[n.children[2]]
  BY ChildrenAreSelections
<1>3. n.op \in {"and", "or", "not", "check"}
  BY ChildrenAreSelections
<1> QED BY <1>1, <1>2, <1>3 DEF Found

\* The evaluation over the index, node by node.
LEMMA EvaluationRuns == \A n \in ParsedSelections : evaluateSelection[n] = Found(evaluateSelection, n)
<1> DEFINE Finds(f, K) == f = [m \in SelectionsUpTo[K] |-> Found(f, m)]
           S == {K \in 0..Depth : ~ \E f : Finds(f, K)}
<1>1. S = {}
  <2> SUFFICES ASSUME S # {} PROVE FALSE
    OBVIOUS
  <2>1. S \in SUBSET Nat
    BY DepthAssumption
  <2> HIDE DEF S
  <2>2. PICK K \in S : \A j \in S : K <= j
    BY <2>1, LeastNumber
  <2> USE DEF S
  <2>3. K \in 0..Depth /\ K \in Nat /\ ~ \E f : Finds(f, K)
    BY <2>1
  <2>4. \E f : K # 0 => Finds(f, K - 1)
    <3>1. CASE K # 0
      <4>1. K - 1 \in 0..Depth /\ ~(K <= K - 1)
        BY <2>3, <3>1, DepthAssumption
      <4>2. K - 1 \notin S
        BY <2>2, <4>1
      <4> QED BY <4>1, <4>2
    <3> QED BY <3>1
  <2>5. PICK f : K # 0 => Finds(f, K - 1)
    BY <2>4
  <2> DEFINE h == [m \in SelectionsUpTo[K] |-> Found(f, m)]
  <2>6. K # 0 => \A x \in SelectionsUpTo[K - 1] : f[x] = h[x]
    <3>1. K # 0 => \A x \in SelectionsUpTo[K - 1] : f[x] = Found(f, x)
      BY <2>5
    <3>2. K # 0 => \A x \in SelectionsUpTo[K - 1] : x \in SelectionsUpTo[K]
      BY <2>3, LevelsGrow
    <3> QED BY <3>1, <3>2
  <2>7. \A m \in SelectionsUpTo[K] : Found(f, m) = Found(h, m)
    <3> HIDE DEF h
    <3> QED BY <2>3, <2>6, SameFound
  <2>8. Finds(h, K)
    BY <2>7
  <2> QED BY <2>3, <2>8
<1>2. Depth \in 0..Depth /\ Depth \notin S
  BY <1>1, DepthAssumption
<1>3. \E f : Finds(f, Depth)
  BY <1>2
<1>4. evaluateSelection = CHOOSE f : Finds(f, Depth)
  BY DEF evaluateSelection, Found, ParsedSelections
<1>5. Finds(evaluateSelection, Depth)
  BY <1>3, <1>4
<1> QED BY <1>5 DEF ParsedSelections

\* A check that the index finds a resource by is one that isInSelection grants, and
\* of a resource that has a record the other way round.
LEMMA ChecksAgree ==
  ASSUME NEW resource \in Candidates, NEW check
  PROVE  /\ resource \in getResources(check) => Satisfies(resource, check)
         /\ resource.indexed /\ Satisfies(resource, check) => resource \in getResources(check)
<1>1. CASE check.property = "id"
  BY <1>1 DEF getResources, Satisfies
<1>2. CASE check.property # "id"
  BY <1>2 DEF Satisfies
<1> QED BY <1>1, <1>2

\* The evaluation of a selection over the index finds only resources it holds for,
\* and of those that have a record all.
LEMMA EvaluationFinds ==
  ASSUME NEW resource \in Candidates, NEW n \in ParsedSelections
  PROVE  /\ resource \in evaluateSelection[n] => isInSelection(resource, n)
         /\ resource.indexed /\ isInSelection(resource, n) => resource \in evaluateSelection[n]
<1> DEFINE Agree(m) ==
             /\ resource \in evaluateSelection[m] => isInSelection(resource, m)
             /\ resource.indexed /\ isInSelection(resource, m) => resource \in evaluateSelection[m]
           S == {d \in 0..Depth : ~ \A m \in SelectionsUpTo[d] : Agree(m)}
<1>1. ASSUME NEW m \in ParsedSelections,
             m.op # "check" => Agree(m.children[1]),
             m.op \in {"and", "or"} => Agree(m.children[2])
      PROVE  Agree(m)
  <2>1. m.op \in {"and", "or", "not", "check"}
    BY ChildrenOfSelections
  <2>2. evaluateSelection[m] = Found(evaluateSelection, m)
    BY EvaluationRuns
  <2>3. CASE m.op = "and"
    <3>1. evaluateSelection[m] = evaluateSelection[m.children[1]] \cap evaluateSelection[m.children[2]]
      BY <2>2, <2>3 DEF Found
    <3> QED BY <1>1, <2>3, <3>1, InSelection
  <2>4. CASE m.op = "or"
    <3>1. evaluateSelection[m] = evaluateSelection[m.children[1]] \cup evaluateSelection[m.children[2]]
      BY <2>2, <2>4 DEF Found
    <3> QED BY <1>1, <2>4, <3>1, InSelection
  <2>5. CASE m.op = "not"
    <3>1. evaluateSelection[m] = getAllResources \ evaluateSelection[m.children[1]]
      BY <2>2, <2>5 DEF Found, Complement
    <3>2. resource \in getAllResources <=> resource.indexed
      BY DEF getAllResources
    <3> QED BY <1>1, <2>5, <3>1, <3>2, InSelection
  <2>6. CASE m.op = "check"
    <3>1. evaluateSelection[m] = getResources(m.check)
      BY <2>2, <2>6 DEF Found
    <3> QED BY <2>6, <3>1, ChecksAgree, InSelection
  <2> QED BY <2>1, <2>3, <2>4, <2>5, <2>6
<1> HIDE DEF Agree
<1>2. S = {}
  <2> SUFFICES ASSUME S # {} PROVE FALSE
    OBVIOUS
  <2>1. S \in SUBSET Nat
    BY DepthAssumption
  <2> HIDE DEF S
  <2>2. PICK d \in S : \A j \in S : d <= j
    BY <2>1, LeastNumber
  <2> USE DEF S
  <2>3. d \in 0..Depth /\ d \in Nat
    BY <2>1
  <2>4. PICK m \in SelectionsUpTo[d] : ~Agree(m)
    OBVIOUS
  <2>5. m \in ParsedSelections
    BY <2>3, <2>4, EveryLevel
  <2>6. d # 0 => \A x \in SelectionsUpTo[d - 1] : Agree(x)
    <3>1. CASE d # 0
      <4>1. d - 1 \in 0..Depth /\ ~(d <= d - 1)
        BY <2>3, <3>1, DepthAssumption
      <4>2. d - 1 \notin S
        BY <2>2, <4>1
      <4> QED BY <4>1, <4>2
    <3> QED BY <3>1
  <2>7. Agree(m)
    BY <1>1, <2>3, <2>5, <2>6, ChildrenAreSelections
  <2> QED BY <2>4, <2>7
<1>3. Depth \in 0..Depth /\ Depth \notin S
  BY <1>2, DepthAssumption
<1>4. Agree(n)
  BY <1>3 DEF ParsedSelections
<1> QED BY <1>4 DEF Agree

\* What a resource's own record satisfies the index has, too, if there is a record;
\* and what the index has is in the record, if that is how the index has it.
LEMMA InputsAgree ==
  ASSUME NEW resource \in Candidates, NEW check \in Checks
  PROVE  /\ resource.indexed /\ check \in getInputs(resource) => Satisfies(resource, check)
         /\ AsRecorded(resource) /\ Satisfies(resource, check) => check \in getInputs(resource)
<1>1. OnPath \subseteq Begins /\ resource.others \subseteq resource.listed
  BY CandidatesAssumption
<1>2. CASE check.property = "id"
  BY <1>2 DEF getInputs, Satisfies, getResources, AsRecorded
<1>3. CASE check.property = "group"
  <2>1. Satisfies(resource, check) <=>
          \E h \in resource.groups : check.value = Wildcard \/ <<check.value, h>> \in Begins
    BY <1>3 DEF Satisfies, getResources
  <2>2. check \in getInputs(resource) <=>
          /\ resource.indexed
          /\ \E h \in resource.groups : check.value = Wildcard \/ <<check.value, h>> \in OnPath
    BY <1>3 DEF getInputs
  <2> QED BY <1>1, <2>1, <2>2 DEF AsRecorded
<1>4. CASE check.property \notin {"id", "group"}
  <2>1. Satisfies(resource, check) <=>
          check.value \in resource.listed \/ (check.value = Wildcard /\ resource.indexed)
    BY <1>4 DEF Satisfies, getResources
  <2>2. check \in getInputs(resource) <=> resource.indexed /\ check.value \in resource.others \cup {Wildcard}
    BY <1>4 DEF getInputs
  <2> QED BY <1>1, <2>1, <2>2 DEF AsRecorded
<1> QED BY <1>2, <1>3, <1>4

\* The same of the levels of "or"s.
LEMMA OrsRun == \A d \in 0..Depth : OrsUpTo[d] = NextOrs(OrsUpTo, d)
<1> DEFINE Runs(f, K) == f = [d \in 0..K |-> NextOrs(f, d)]
           S == {K \in Nat : ~ \E f : Runs(f, K)}
<1>1. S = {}
  <2> SUFFICES ASSUME S # {} PROVE FALSE
    OBVIOUS
  <2>1. S \in SUBSET Nat
    OBVIOUS
  <2> HIDE DEF S
  <2>2. PICK K \in S : \A j \in S : K <= j
    BY <2>1, LeastNumber
  <2> USE DEF S
  <2>3. K \in Nat /\ ~ \E f : Runs(f, K)
    OBVIOUS
  <2>4. CASE K = 0
    <3> DEFINE h == [d \in 0..K |-> Leaves]
    <3>1. \A d \in 0..K : NextOrs(h, d) = Leaves
      BY <2>4 DEF NextOrs
    <3>2. Runs(h, K)
      BY <3>1
    <3> QED BY <2>3, <3>2
  <2>5. CASE K # 0
    <3>1. K - 1 \in Nat /\ ~(K <= K - 1)
      BY <2>3, <2>5
    <3>2. K - 1 \notin S
      BY <2>2, <3>1
    <3>3. PICK f : Runs(f, K - 1)
      BY <3>1, <3>2
    <3> DEFINE h == [d \in 0..K |-> NextOrs(f, d)]
    <3>4. \A d \in 0..(K - 1) : h[d] = f[d]
      <4>1. \A d \in 0..(K - 1) : f[d] = NextOrs(f, d)
        BY <3>3
      <4>2. \A d \in 0..(K - 1) : d \in 0..K
        BY <2>3
      <4> QED BY <4>1, <4>2
    <3>5. \A d \in 0..K : d \in Nat /\ (d # 0 => d - 1 \in 0..(K - 1))
      BY <2>3
    <3>6. \A d \in 0..K : NextOrs(f, d) = NextOrs(h, d)
      <4> HIDE DEF h
      <4> QED BY <3>4, <3>5, SameBelow
    <3>7. Runs(h, K)
      BY <3>6
    <3> QED BY <2>3, <3>7
  <2> QED BY <2>4, <2>5
<1>2. Depth \in Nat /\ Depth \notin S
  BY <1>1, DepthAssumption
<1>3. \E f : Runs(f, Depth)
  BY <1>2
<1>4. OrsUpTo = CHOOSE f : Runs(f, Depth)
  BY DEF OrsUpTo, NextOrs
<1>5. Runs(OrsUpTo, Depth)
  BY <1>3, <1>4
<1> QED BY <1>5

\* An "or" of "or"s has children of that kind, and is a selection.
LEMMA OrsClosed ==
  /\ Ors \subseteq ParsedSelections
  /\ \A n \in Ors : n \in Leaves \/ \E l, r \in Ors : n = Op("or", <<l, r>>)
<1> DEFINE P(d) == /\ OrsUpTo[d] \subseteq SelectionsUpTo[d]
                   /\ \A n \in OrsUpTo[d] : n \in Leaves \/ \E l, r \in OrsUpTo[d] : n = Op("or", <<l, r>>)
           S == {d \in 0..Depth : ~P(d)}
<1>1. S = {}
  <2> SUFFICES ASSUME S # {} PROVE FALSE
    OBVIOUS
  <2>1. S \in SUBSET Nat
    BY DepthAssumption
  <2> HIDE DEF S
  <2>2. PICK d \in S : \A j \in S : d <= j
    BY <2>1, LeastNumber
  <2> USE DEF S
  <2>3. d \in 0..Depth /\ d \in Nat /\ ~P(d)
    BY <2>1
  <2>4. CASE d = 0
    <3>1. OrsUpTo[d] = Leaves /\ SelectionsUpTo[d] = Leaves
      BY <2>3, <2>4, OrsRun, LevelsRun DEF NextOrs, NextLevel
    <3> QED BY <2>3, <3>1
  <2>5. CASE d # 0
    <3>1. d - 1 \in 0..Depth /\ ~(d <= d - 1)
      BY <2>3, <2>5, DepthAssumption
    <3>2. d - 1 \notin S
      BY <2>2, <3>1
    <3>3. P(d - 1)
      BY <3>1, <3>2
    <3>4. OrsUpTo[d] = OrsUpTo[d - 1] \cup Either(OrsUpTo[d - 1])
      BY <2>3, <2>5, OrsRun DEF NextOrs
    <3>5. SelectionsUpTo[d] = SelectionsUpTo[d - 1] \cup Deeper(SelectionsUpTo[d - 1])
      BY <2>3, <2>5, LevelsRun DEF NextLevel
    <3>6. OrsUpTo[d] \subseteq SelectionsUpTo[d]
      <4>1. Either(OrsUpTo[d - 1]) \subseteq Deeper(SelectionsUpTo[d - 1])
        BY <3>3, DeeperNodes
      <4> QED BY <3>3, <3>4, <3>5, <4>1
    <3>7. \A n \in OrsUpTo[d] : n \in Leaves \/ \E l, r \in OrsUpTo[d] : n = Op("or", <<l, r>>)
      <4>1. OrsUpTo[d - 1] \subseteq OrsUpTo[d]
        BY <3>4
      <4>2. \A n \in OrsUpTo[d - 1] : n \in Leaves \/ \E l, r \in OrsUpTo[d - 1] : n = Op("or", <<l, r>>)
        BY <3>3
      <4>3. \A n \in Either(OrsUpTo[d - 1]) : \E l, r \in OrsUpTo[d - 1] : n = Op("or", <<l, r>>)
        BY DeeperNodes
      <4>4. \A n \in OrsUpTo[d] : n \in OrsUpTo[d - 1] \/ n \in Either(OrsUpTo[d - 1])
        BY <3>4
      <4> HIDE DEF P
      <4> QED BY <4>1, <4>2, <4>3, <4>4
    <3> QED BY <2>3, <3>6, <3>7
  <2> QED BY <2>4, <2>5
<1>2. Depth \in 0..Depth /\ Depth \notin S
  BY <1>1, DepthAssumption
<1> QED BY <1>2 DEF Ors, ParsedSelections

-----------------------------------------------------------------------------
(* Matching: the two loops *)

\* A selection that begins: the graph is empty.
Begun(g) ==
  /\ g.nextVertexID = 1
  /\ DOMAIN g.vertexMap = {0} /\ g.vertexMap[0] = sel
  /\ DOMAIN g.edgeMap = {0} /\ g.edgeMap[0] = Null
  /\ \/ g.nodeQueue = <<sel>> /\ g.sourceSet = {}
     \/ g.nodeQueue = <<>> /\ g.sourceSet = {0}

\* A check by itself sends one token to the root if the resource satisfies it.
SingleOK ==
  LET holds == sel.check \in getInputs(candidate) IN
  sel.op = "check" =>
    /\ phase = "graph" => Begun(graph) /\ output = FALSE
    /\ phase = "output" => /\ DOMAIN logic = {} /\ tokens \in {<<>>, <<Null>>}
                           /\ holds <=> output \/ tokens = <<Null>>
    /\ phase \in Final => (phase = "matched" <=> holds)

\* The "or"s that a resource that has a record does not hold for.
Dead == {n \in Ors : candidate.indexed /\ ~isInSelection(candidate, n)}

\* Such a selection consists of such nodes, so no token is ever sent.
OrsOK ==
  sel \in Dead =>
    /\ output = FALSE /\ phase # "matched"
    /\ phase = "graph" =>
         /\ graph.nodeQueue \in Seq(Dead)
         /\ graph.nextVertexID \in Nat \ {0} /\ graph.nextVertexID - 1 \in DOMAIN graph.vertexMap
         /\ graph.sourceSet \subseteq DOMAIN graph.vertexMap /\ DOMAIN graph.vertexMap \subseteq Nat
         /\ \A v \in DOMAIN graph.vertexMap : graph.vertexMap[v] \in Dead
    /\ phase = "output" => tokens = <<>>

SelectInv ==
  /\ sel \in ParsedSelections /\ candidate \in Candidates
  /\ phase \in {"graph", "output"} \cup Final
  /\ SingleOK
  /\ OrsOK

\* The tokens of the sources in order, if there is no source or one.
LEMMA FewTokens ==
  ASSUME NEW start, NEW order,
         (\E s \in SetToSeqs(DOMAIN start) : \A i, j \in DOMAIN s : i < j => s[i] < s[j])
           => order \in SetToSeqs(DOMAIN start)
  PROVE  /\ DOMAIN start = {} => [i \in DOMAIN order |-> start[order[i]]] = <<>>
         /\ DOMAIN start = {0} => [i \in DOMAIN order |-> start[order[i]]] = <<start[0]>>
<1>1. CASE DOMAIN start = {}
  <2>1. Cardinality({}) = 0 /\ 1..0 = {}
    BY FS_EmptySet
  <2>2. SetToSeqs({}) = {f \in [{} -> {}] : \A i, j \in {} : i # j => f[i] # f[j]}
    BY <2>1 DEF SetToSeqs
  <2> DEFINE e == [i \in {} |-> i]
  <2>3. e \in SetToSeqs({}) /\ \A i, j \in DOMAIN e : i < j => e[i] < e[j]
    BY <2>2
  <2>4. order \in SetToSeqs({})
    BY <1>1, <2>3
  <2>5. DOMAIN order = {}
    BY <2>2, <2>4
  <2>6. [i \in DOMAIN order |-> start[order[i]]] = [i \in 1..0 |-> start[order[i]]]
    BY <2>1, <2>5
  <2>7. [i \in 1..0 |-> start[order[i]]] = <<>>
    OBVIOUS
  <2> QED BY <1>1, <2>6, <2>7
<1>2. CASE DOMAIN start = {0}
  <2>1. Cardinality({0}) = 1
    BY FS_Singleton
  <2>2. SetToSeqs({0}) = {f \in [1..1 -> {0}] : \A i, j \in 1..1 : i # j => f[i] # f[j]}
    <3> HIDE <1>2
    <3> QED BY ONLY <2>1 DEF SetToSeqs
  <2> DEFINE e == [i \in 1..1 |-> 0]
  <2>3. e \in SetToSeqs({0}) /\ \A i, j \in DOMAIN e : i < j => e[i] < e[j]
    BY <2>2
  <2>4. order \in SetToSeqs({0})
    BY <1>2, <2>3
  <2>5. DOMAIN order = 1..1 /\ \A i \in 1..1 : order[i] = 0
    BY <2>2, <2>4
  <2>6. [i \in DOMAIN order |-> start[order[i]]] = [i \in 1..1 |-> start[0]]
    <3> HIDE DEF e
    <3> QED BY <2>5
  <2>7. [i \in 1..1 |-> start[0]] = <<start[0]>>
    OBVIOUS
  <2> QED BY <1>2, <2>6, <2>7
<1> QED BY <1>1, <1>2

\* The children of an "or" that does not hold do not hold, either; a check that
\* does not hold is not satisfied.
LEMMA DeadNodes ==
  ASSUME candidate \in Candidates, NEW n \in Dead
  PROVE  /\ n.op \in {"or", "check"}
         /\ n.op = "check" => n.children = <<>> /\ n.check \notin getInputs(candidate)
         /\ n.op = "or" => n.children \in Seq(Dead) /\ Len(n.children) = 2
<1>1. n \in Ors /\ n \in ParsedSelections /\ candidate.indexed /\ ~isInSelection(candidate, n)
  BY OrsClosed DEF Dead
<1>2. CASE n \in Leaves
  <2>1. n.op = "check" /\ n.children = <<>> /\ n.check \in Checks
    BY <1>2, NodeParts DEF Leaves
  <2>2. ~Satisfies(candidate, n.check)
    BY <1>1, <2>1, InSelection
  <2>3. n.check \notin getInputs(candidate)
    BY <1>1, <2>1, <2>2, InputsAgree
  <2> QED BY <2>1, <2>3
<1>3. ASSUME NEW l \in Ors, NEW r \in Ors, n = Op("or", <<l, r>>)
      PROVE  n.op = "or" /\ n.children = <<l, r>> /\ l \in Dead /\ r \in Dead
  <2>1. n.op = "or" /\ n.children = <<l, r>> /\ n.children[1] = l /\ n.children[2] = r
    BY <1>3, NodeParts
  <2>2. ~isInSelection(candidate, l) /\ ~isInSelection(candidate, r)
    BY <1>1, <2>1, InSelection
  <2> QED BY <2>1, <2>2 DEF Dead
<1>4. CASE n \notin Leaves
  <2>1. PICK l \in Ors, r \in Ors : n = Op("or", <<l, r>>)
    BY <1>1, <1>4, OrsClosed
  <2>2. n.op = "or" /\ n.children = <<l, r>> /\ l \in Dead /\ r \in Dead
    BY <1>3, <2>1
  <2>3. <<l, r>> \in Seq(Dead) /\ Len(<<l, r>>) = 2
    BY <2>2
  <2> QED BY <2>2, <2>3
<1> QED BY <1>2, <1>4

\* A selection by itself that is a check.
LEMMA SingleCheck ==
  ASSUME sel \in ParsedSelections, sel.op = "check"
  PROVE  /\ sel.children = <<>> /\ sel.check \in Checks
         /\ isInSelection(candidate, sel) <=> Satisfies(candidate, sel.check)
<1>1. sel \in Leaves
  BY ChildrenAreSelections, DepthAssumption DEF ParsedSelections
<1> QED BY <1>1, InSelection, NodeParts DEF Leaves

\* What is matched agrees with the evaluations.
LEMMA SelectInvImplies == SelectInv => EvaluationsAgree
<1> SUFFICES ASSUME SelectInv PROVE EvaluationsAgree
  OBVIOUS
<1>1. RequestsAgree
  BY EvaluationFinds DEF SelectInv, RequestsAgree
<1>2. sel.op = "check" /\ phase \in Final /\ AsRecorded(candidate) /\ isInSelection(candidate, sel)
        => phase = "matched"
  <2> SUFFICES ASSUME sel.op = "check", phase \in Final, AsRecorded(candidate), isInSelection(candidate, sel)
               PROVE  phase = "matched"
    OBVIOUS
  <2>1. sel.check \in Checks /\ Satisfies(candidate, sel.check) /\ candidate \in Candidates
    BY SingleCheck DEF SelectInv
  <2>2. sel.check \in getInputs(candidate)
    BY <2>1, InputsAgree
  <2> QED BY <2>2 DEF SelectInv, SingleOK
<1>3. sel \in Ors /\ phase = "matched" /\ candidate.indexed => isInSelection(candidate, sel)
  BY DEF SelectInv, OrsOK, Dead
<1> QED BY <1>1, <1>2, <1>3 DEF EvaluationsAgree, SubscriptionsAgree

\* A selection starts with its root on the queue.
LEMMA SelectInit == SelectionInit => SelectInv
<1> SUFFICES ASSUME NEW selection \in ParsedSelections, NEW resource \in Candidates,
                    SelectFor(selection, resource)
             PROVE  SelectInv
  BY DEF SelectionInit
<1>1. /\ sel \in ParsedSelections /\ candidate \in Candidates /\ phase = "graph" /\ output = FALSE
      /\ graph.nextVertexID = 1 /\ graph.nodeQueue = <<sel>> /\ graph.sourceSet = {}
      /\ graph.vertexMap = [v \in {0} |-> sel] /\ graph.edgeMap = [v \in {0} |-> Null]
  BY DEF SelectFor
<1>2. Begun(graph)
  BY <1>1 DEF Begun
<1>3. SingleOK
  BY <1>1, <1>2 DEF SingleOK, Final
<1>4. OrsOK
  <2> SUFFICES ASSUME sel \in Dead PROVE OrsOK
    BY DEF OrsOK
  <2>1. <<sel>> \in Seq(Dead)
    OBVIOUS
  <2> QED BY <1>1, <2>1 DEF OrsOK
<1> QED BY <1>1, <1>3, <1>4 DEF SelectInv

\* A round that takes a node without children.
LEMMA VisitNone ==
  ASSUME NEW g, g.nextVertexID \in Nat, Head(g.nodeQueue).children = <<>>
  PROVE  /\ Visit(g).nextVertexID = g.nextVertexID
         /\ Visit(g).nodeQueue = Tail(g.nodeQueue) \o <<>>
         /\ Visit(g).sourceSet = g.sourceSet \cup {g.nextVertexID - 1}
         /\ Visit(g).vertexMap = [v \in DOMAIN g.vertexMap |-> g.vertexMap[v]]
         /\ Visit(g).edgeMap = [v \in DOMAIN g.edgeMap |-> g.edgeMap[v]]
<1> DEFINE id == g.nextVertexID
           node == Head(g.nodeQueue)
           n == Len(node.children)
           new == id .. id + n - 1
<1>1. /\ Visit(g).nextVertexID = id + n
      /\ Visit(g).nodeQueue = Tail(g.nodeQueue) \o node.children
      /\ Visit(g).sourceSet = IF n = 0 THEN g.sourceSet \cup {id - 1} ELSE g.sourceSet
      /\ Visit(g).vertexMap = [v \in DOMAIN g.vertexMap \cup {c + 1 : c \in new} |->
                                 IF v - 1 \in new THEN node.children[v - id] ELSE g.vertexMap[v]]
      /\ Visit(g).edgeMap = [v \in DOMAIN g.edgeMap \cup new |-> IF v \in new THEN id - 1 ELSE g.edgeMap[v]]
  BY DEF Visit
<1>2. n = 0
  OBVIOUS
<1>3. node.children = <<>>
  OBVIOUS
<1>4. id \in Nat
  OBVIOUS
<1> HIDE DEF n, node, id
<1>5. new = {} /\ id + n = id
  BY <1>2, <1>4
<1> HIDE DEF new
<1>6. {c + 1 : c \in new} = {}
  BY <1>5
<1>7. /\ Visit(g).nextVertexID = id /\ Visit(g).nodeQueue = Tail(g.nodeQueue) \o <<>>
      /\ Visit(g).sourceSet = g.sourceSet \cup {id - 1}
  BY <1>1, <1>2, <1>3, <1>5
<1>8. Visit(g).vertexMap = [v \in DOMAIN g.vertexMap |-> g.vertexMap[v]]
  BY <1>1, <1>5, <1>6
<1>9. Visit(g).edgeMap = [v \in DOMAIN g.edgeMap |-> g.edgeMap[v]]
  BY <1>1, <1>5
<1> QED BY <1>7, <1>8, <1>9 DEF id

\* A round that takes a node with two children.
LEMMA VisitTwo ==
  ASSUME NEW g, g.nextVertexID \in Nat, Len(Head(g.nodeQueue).children) = 2
  PROVE  /\ Visit(g).nextVertexID = g.nextVertexID + 2
         /\ Visit(g).nodeQueue = Tail(g.nodeQueue) \o Head(g.nodeQueue).children
         /\ Visit(g).sourceSet = g.sourceSet
         /\ DOMAIN Visit(g).vertexMap = DOMAIN g.vertexMap \cup {g.nextVertexID + 1, g.nextVertexID + 2}
         /\ \A v \in DOMAIN Visit(g).vertexMap :
              Visit(g).vertexMap[v] = IF v - 1 \in {g.nextVertexID, g.nextVertexID + 1}
                                        THEN Head(g.nodeQueue).children[v - g.nextVertexID]
                                        ELSE g.vertexMap[v]
<1> DEFINE id == g.nextVertexID
           pair == Head(g.nodeQueue).children
           node == Head(g.nodeQueue)
           n == Len(node.children)
           new == id .. id + n - 1
<1>1. /\ Visit(g).nextVertexID = id + n
      /\ Visit(g).nodeQueue = Tail(g.nodeQueue) \o node.children
      /\ Visit(g).sourceSet = IF n = 0 THEN g.sourceSet \cup {id - 1} ELSE g.sourceSet
      /\ Visit(g).vertexMap = [v \in DOMAIN g.vertexMap \cup {c + 1 : c \in new} |->
                                 IF v - 1 \in new THEN node.children[v - id] ELSE g.vertexMap[v]]
  BY DEF Visit
<1>2. n = 2
  OBVIOUS
<1>3. node.children = pair /\ id \in Nat
  OBVIOUS
<1> HIDE DEF n, node, id, pair
<1>4. new = {id, id + 1}
  BY <1>2, <1>3
<1> HIDE DEF new
<1>5. {c + 1 : c \in new} = {id + 1, id + 2}
  BY <1>3, <1>4
<1>6. /\ Visit(g).nextVertexID = id + 2 /\ Visit(g).nodeQueue = Tail(g.nodeQueue) \o pair
      /\ Visit(g).sourceSet = g.sourceSet
  BY <1>1, <1>2, <1>3
<1>7. Visit(g).vertexMap = [v \in DOMAIN g.vertexMap \cup {id + 1, id + 2} |->
                              IF v - 1 \in {id, id + 1} THEN pair[v - id] ELSE g.vertexMap[v]]
  BY <1>1, <1>3, <1>4, <1>5
<1> QED BY <1>6, <1>7 DEF id, pair

\* A round of the graph.
LEMMA GraphStep ==
  ASSUME SelectInv, ToGraph
  PROVE  SelectInv'
<1>1. /\ phase = "graph" /\ graph.nodeQueue # <<>> /\ graph' = Visit(graph)
      /\ UNCHANGED <<sel, candidate, phase, logic, tokens, ands, output>>
  BY DEF ToGraph
<1>2. Dead' = Dead /\ (sel \in ParsedSelections /\ candidate \in Candidates)'
  BY <1>1 DEF Dead, SelectInv
<1>3. SingleOK'
  <2> SUFFICES ASSUME sel.op = "check" PROVE SingleOK'
    BY <1>1 DEF SingleOK
  <2>1. Begun(graph) /\ output = FALSE
    BY <1>1 DEF SelectInv, SingleOK
  <2>2. graph.nodeQueue = <<sel>> /\ graph.sourceSet = {} /\ graph.nextVertexID = 1
    BY <1>1, <2>1 DEF Begun
  <2>3. Head(graph.nodeQueue) = sel /\ Tail(graph.nodeQueue) = <<>>
    BY <2>2
  <2>4. sel.children = <<>> /\ Len(sel.children) = 0
    BY SingleCheck DEF SelectInv
  <2>5. 1..(1 + 0 - 1) = {}
    OBVIOUS
  <2>6. /\ graph'.nextVertexID = 1 /\ graph'.nodeQueue = <<>> /\ graph'.sourceSet = {0}
        /\ graph'.vertexMap = [v \in {0} |-> graph.vertexMap[v]]
        /\ graph'.edgeMap = [v \in {0} |-> graph.edgeMap[v]]
    <3>1. DOMAIN graph.vertexMap = {0} /\ DOMAIN graph.edgeMap = {0}
      BY <2>1 DEF Begun
    <3>2. Head(graph.nodeQueue).children = <<>> /\ Len(<<>>) = 0 /\ graph.nextVertexID - 1 = 0
      BY <2>2, <2>3, <2>4
    <3>3. <<>> \o <<>> = <<>> /\ {} \cup {0} = {0}
      OBVIOUS
    <3>4. graph.nextVertexID \in Nat
      BY <2>2
    <3>5. /\ Visit(graph).nextVertexID = graph.nextVertexID
          /\ Visit(graph).nodeQueue = Tail(graph.nodeQueue) \o <<>>
          /\ Visit(graph).sourceSet = graph.sourceSet \cup {graph.nextVertexID - 1}
          /\ Visit(graph).vertexMap = [v \in DOMAIN graph.vertexMap |-> graph.vertexMap[v]]
          /\ Visit(graph).edgeMap = [v \in DOMAIN graph.edgeMap |-> graph.edgeMap[v]]
      BY <3>2, <3>4, VisitNone
    <3> QED BY <1>1, <2>2, <2>3, <3>1, <3>2, <3>3, <3>5
  <2>7. Begun(graph)'
    BY <1>1, <2>1, <2>6 DEF Begun
  <2> QED BY <1>1, <2>1, <2>7 DEF SingleOK, Final
<1>4. OrsOK'
  <2> SUFFICES ASSUME sel \in Dead PROVE OrsOK'
    BY <1>1, <1>2 DEF OrsOK
  <2> DEFINE id == graph.nextVertexID
             node == Head(graph.nodeQueue)
  <2>1. /\ output = FALSE /\ graph.nodeQueue \in Seq(Dead) /\ id \in Nat \ {0}
        /\ id - 1 \in DOMAIN graph.vertexMap /\ graph.sourceSet \subseteq DOMAIN graph.vertexMap
        /\ DOMAIN graph.vertexMap \subseteq Nat
        /\ \A v \in DOMAIN graph.vertexMap : graph.vertexMap[v] \in Dead
    BY <1>1 DEF SelectInv, OrsOK
  <2>2. candidate \in Candidates /\ node \in Dead /\ Tail(graph.nodeQueue) \in Seq(Dead)
    BY <1>1, <2>1 DEF SelectInv
  <2>3. /\ graph'.nodeQueue \in Seq(Dead)
        /\ graph'.nextVertexID \in Nat \ {0} /\ graph'.nextVertexID - 1 \in DOMAIN graph'.vertexMap
        /\ graph'.sourceSet \subseteq DOMAIN graph'.vertexMap /\ DOMAIN graph'.vertexMap \subseteq Nat
        /\ \A v \in DOMAIN graph'.vertexMap : graph'.vertexMap[v] \in Dead
    <3>1. CASE node.op = "check"
      <4>1. node.children = <<>> /\ Len(node.children) = 0
        BY <2>2, <3>1, DeadNodes
      <4>3. /\ graph'.nextVertexID = id /\ graph'.nodeQueue = Tail(graph.nodeQueue) \o <<>>
            /\ graph'.sourceSet = graph.sourceSet \cup {id - 1}
            /\ graph'.vertexMap = [v \in DOMAIN graph.vertexMap |-> graph.vertexMap[v]]
        BY <1>1, <2>1, <2>2, <4>1, VisitNone
      <4>4. graph'.nodeQueue \in Seq(Dead)
        BY <2>2, <4>3
      <4> HIDE DEF node, id
      <4> QED BY <2>1, <4>3, <4>4 DEF id
    <3>2. CASE node.op = "or"
      <4> DEFINE pair == node.children
      <4>1. pair \in Seq(Dead) /\ Len(pair) = 2
        BY <2>2, <3>2, DeadNodes
      <4>2. id \in Nat /\ \A i \in 1..2 : pair[i] \in Dead
        BY <2>1, <4>1
      <4>3. graph.nextVertexID = id /\ Head(graph.nodeQueue).children = pair
        OBVIOUS
      <4> HIDE DEF pair, node, id
      <4>4. /\ Visit(graph).nextVertexID = id + 2
            /\ Visit(graph).nodeQueue = Tail(graph.nodeQueue) \o pair
            /\ Visit(graph).sourceSet = graph.sourceSet
            /\ DOMAIN Visit(graph).vertexMap = DOMAIN graph.vertexMap \cup {id + 1, id + 2}
            /\ \A v \in DOMAIN Visit(graph).vertexMap :
                 Visit(graph).vertexMap[v] = IF v - 1 \in {id, id + 1} THEN pair[v - id] ELSE graph.vertexMap[v]
        <5>1. graph.nextVertexID \in Nat /\ Len(Head(graph.nodeQueue).children) = 2
          BY <4>1, <4>2, <4>3
        <5> QED BY <4>3, <5>1, VisitTwo
      <4>5. graph'.nodeQueue \in Seq(Dead)
        BY <1>1, <2>2, <4>1, <4>4
      <4>6. /\ DOMAIN graph'.vertexMap = DOMAIN graph.vertexMap \cup {id + 1, id + 2}
            /\ \A v \in DOMAIN graph'.vertexMap :
                 graph'.vertexMap[v] = IF v - 1 \in {id, id + 1} THEN pair[v - id] ELSE graph.vertexMap[v]
        BY <1>1, <4>4
      <4>7. \A v \in Nat : v - 1 \in {id, id + 1} => v - id \in 1..2
        BY <4>2
      <4>8. DOMAIN graph'.vertexMap \subseteq Nat
        BY <2>1, <4>2, <4>6
      <4>9. ASSUME NEW v \in DOMAIN graph'.vertexMap PROVE graph'.vertexMap[v] \in Dead
        <5>1. v \in Nat
          BY <4>8
        <5>2. CASE v - 1 \in {id, id + 1}
          BY <4>2, <4>6, <4>7, <5>1, <5>2
        <5>3. CASE v - 1 \notin {id, id + 1}
          <6>1. v \in DOMAIN graph.vertexMap
            BY <4>2, <4>6, <5>1, <5>3
          <6> QED BY <2>1, <4>6, <5>3, <6>1
        <5> QED BY <5>2, <5>3
      <4>10. /\ graph'.nextVertexID \in Nat \ {0} /\ graph'.nextVertexID - 1 \in DOMAIN graph'.vertexMap
            /\ graph'.sourceSet \subseteq DOMAIN graph'.vertexMap
        BY <1>1, <2>1, <4>2, <4>4, <4>6
      <4> QED BY <4>5, <4>8, <4>9, <4>10
    <3> QED BY <2>2, <3>1, <3>2, DeadNodes
  <2> QED BY <1>1, <1>2, <2>1, <2>3 DEF OrsOK
<1> QED BY <1>1, <1>2, <1>3, <1>4 DEF SelectInv

\* The tokens that the sources send.
LEMMA BuildStep ==
  ASSUME SelectInv, BuildKVMap
  PROVE  SelectInv'
<1> DEFINE inner == DOMAIN graph.vertexMap \ graph.sourceSet
           start == SatisfiedSources(graph)
           order == CHOOSE s \in SetToSeqs(DOMAIN start) : \A i, j \in DOMAIN s : i < j => s[i] < s[j]
<1>1. /\ phase = "graph" /\ graph.nodeQueue = <<>>
      /\ UNCHANGED <<sel, candidate, graph, ands, output>>
      /\ \/ /\ \E v \in inner : graph.vertexMap[v].op = "not"
            /\ phase' = "refused" /\ UNCHANGED <<logic, tokens>>
         \/ /\ phase' = "output"
            /\ DOMAIN logic' = inner
            /\ tokens' = [i \in DOMAIN order |-> start[order[i]]]
  BY DEF BuildKVMap
<1>2. /\ DOMAIN start = {w \in graph.sourceSet : graph.vertexMap[w].op = "check"
                                                   /\ graph.vertexMap[w].check \in getInputs(candidate)}
      /\ \A w \in DOMAIN start : start[w] = graph.edgeMap[w]
  BY DEF SatisfiedSources
<1> HIDE DEF start
<1>3. (\E s \in SetToSeqs(DOMAIN start) : \A i, j \in DOMAIN s : i < j => s[i] < s[j])
        => order \in SetToSeqs(DOMAIN start)
  OBVIOUS
<1> HIDE DEF order
<1>4. /\ DOMAIN start = {} => [i \in DOMAIN order |-> start[order[i]]] = <<>>
      /\ DOMAIN start = {0} => [i \in DOMAIN order |-> start[order[i]]] = <<start[0]>>
  BY <1>3, FewTokens
<1>5. Dead' = Dead /\ (sel \in ParsedSelections /\ candidate \in Candidates)'
  BY <1>1 DEF Dead, SelectInv
<1>6. SingleOK'
  <2> SUFFICES ASSUME sel.op = "check" PROVE SingleOK'
    BY <1>1 DEF SingleOK
  <2>1. Begun(graph) /\ output = FALSE
    BY <1>1 DEF SelectInv, SingleOK
  <2>2. graph.sourceSet = {0} /\ inner = {} /\ graph.vertexMap[0] = sel /\ graph.edgeMap[0] = Null
    BY <1>1, <2>1 DEF Begun
  <2>3. phase' = "output" /\ DOMAIN logic' = {} /\ tokens' = [i \in DOMAIN order |-> start[order[i]]]
    BY <1>1, <2>2
  <2>4. CASE sel.check \in getInputs(candidate)
    <3>1. DOMAIN start = {0} /\ start[0] = Null
      BY <1>2, <2>2, <2>4
    <3> QED BY <1>1, <1>4, <2>1, <2>3, <2>4, <3>1 DEF SingleOK, Final
  <2>5. CASE sel.check \notin getInputs(candidate)
    <3>1. DOMAIN start = {}
      BY <1>2, <2>2, <2>5
    <3> QED BY <1>1, <1>4, <2>1, <2>3, <2>5, <3>1 DEF SingleOK, Final
  <2> QED BY <2>4, <2>5
<1>7. OrsOK'
  <2> SUFFICES ASSUME sel \in Dead PROVE OrsOK'
    BY <1>1, <1>5 DEF OrsOK
  <2>1. /\ output = FALSE /\ graph.sourceSet \subseteq DOMAIN graph.vertexMap
        /\ \A v \in DOMAIN graph.vertexMap : graph.vertexMap[v] \in Dead
    BY <1>1 DEF SelectInv, OrsOK
  <2>2. DOMAIN start = {}
    BY <1>2, <2>1, DeadNodes DEF SelectInv
  <2> QED BY <1>1, <1>4, <1>5, <2>1, <2>2 DEF OrsOK
<1> QED BY <1>1, <1>5, <1>6, <1>7 DEF SelectInv, Final

\* The tokens are sent up, and the answer is given.
LEMMA OutputStep ==
  ASSUME SelectInv, TokenAtRoot \/ TokenAtOr \/ TokenAtAnd \/ TokenLost \/ TokenThrows \/ Decide
  PROVE  SelectInv'
<1>1. /\ phase = "output" /\ UNCHANGED <<sel, candidate>>
      /\ phase' \in {"output", "threw", "matched", "unmatched"}
  BY DEF TokenAtRoot, TokenAtOr, TokenAtAnd, TokenLost, TokenThrows, Decide, TokenAt
<1>2. Dead' = Dead /\ (sel \in ParsedSelections /\ candidate \in Candidates)'
  BY <1>1 DEF Dead, SelectInv
<1>3. tokens = <<>> => Decide
  BY DEF TokenAtRoot, TokenAtOr, TokenAtAnd, TokenLost, TokenThrows, TokenAt
<1>4. DOMAIN logic = {} /\ tokens = <<Null>> => TokenAtRoot
  BY DEF TokenAtOr, TokenAtAnd, TokenLost, TokenThrows, TokenAt, Decide
<1>5. SingleOK'
  <2> SUFFICES ASSUME sel.op = "check" PROVE SingleOK'
    BY <1>1 DEF SingleOK
  <2>1. /\ DOMAIN logic = {} /\ tokens \in {<<>>, <<Null>>}
        /\ sel.check \in getInputs(candidate) <=> output \/ tokens = <<Null>>
    BY <1>1 DEF SelectInv, SingleOK
  <2>2. CASE tokens = <<>>
    <3>1. /\ phase' = IF output THEN "matched" ELSE "unmatched"
          /\ UNCHANGED <<sel, candidate, graph, logic, tokens, ands, output>>
      BY <1>3, <2>2 DEF Decide
    <3>2. tokens # <<Null>>
      BY <2>2
    <3> QED BY <1>1, <2>1, <3>1, <3>2 DEF SingleOK, Final
  <2>3. CASE tokens = <<Null>>
    <3>1. /\ output' = TRUE /\ tokens' = Tail(tokens) /\ phase' = "output" /\ logic' = logic
      BY <1>1, <1>4, <2>1, <2>3 DEF TokenAtRoot
    <3>2. tokens' = <<>>
      BY <2>3, <3>1
    <3> QED BY <1>1, <2>1, <2>3, <3>1, <3>2 DEF SingleOK, Final
  <2> QED BY <2>1, <2>2, <2>3
<1>6. OrsOK'
  <2> SUFFICES ASSUME sel \in Dead PROVE OrsOK'
    BY <1>1, <1>2 DEF OrsOK
  <2>1. output = FALSE /\ tokens = <<>>
    BY <1>1 DEF SelectInv, OrsOK
  <2>2. phase' = "unmatched" /\ output' = output
    BY <1>3, <2>1 DEF Decide
  <2> QED BY <1>2, <2>1, <2>2 DEF OrsOK
<1> QED BY <1>1, <1>2, <1>5, <1>6 DEF SelectInv, Final

\* Every step keeps it.
LEMMA SelectStep == SelectInv /\ [SelectionNext]_selectionVars => SelectInv'
<1> SUFFICES ASSUME SelectInv, [SelectionNext]_selectionVars PROVE SelectInv'
  OBVIOUS
<1>1. CASE UNCHANGED selectionVars
  BY <1>1 DEF selectionVars, SelectInv, SingleOK, OrsOK, Begun, Dead
<1>2. CASE ToGraph
  BY <1>2, GraphStep
<1>3. CASE BuildKVMap
  BY <1>3, BuildStep
<1>4. CASE TokenAtRoot \/ TokenAtOr \/ TokenAtAnd \/ TokenLost \/ TokenThrows \/ Decide
  BY <1>4, OutputStep
<1>5. CASE Ended
  BY <1>1, <1>5 DEF Ended
<1> QED BY <1>1, <1>2, <1>3, <1>4, <1>5 DEF SelectionNext

\* A request (evaluateSelection) finds exactly the resources that isInSelection
\* grants among those that have a record, and none that it denies; a subscription
\* to a check or an "or" of checks is never matched falsely by such a resource,
\* and one to a check by every resource that the index has as it is recorded.
THEOREM SelectionsAgree == SelectionSpec => []EvaluationsAgree
<1>1. SelectionSpec => []SelectInv
  BY SelectInit, SelectStep, PTL DEF SelectionSpec
<1> QED BY <1>1, SelectInvImplies, PTL
=============================================================================
