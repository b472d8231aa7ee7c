------------------------------- MODULE TopicMap -------------------------------
(***************************************************************************)
(* The tree of topics (src/core/topicMap.js).  A topic is a sequence of    *)
(* levels; a subscription may have "+" for one level and end in "#" for    *)
(* all that follow, and for none.  A node of the tree is the path to it;   *)
(* nodes are never removed, and one that was never made has no clients.    *)
(***************************************************************************)
EXTENDS Naturals, FiniteSets, SequencesExt

CONSTANTS Subscribers, Levels,
          Topics,           \* what may be published to
          Patterns          \* what may be subscribed to, "#" only at the end

VARIABLES clients,          \* the clients of each node
          mentioned,        \* _clientSubscriptionMap: never forgets
          live              \* history: the subscriptions that hold

topicVars == <<clients, mentioned, live>>

\* No level comes after "#" (_parseTopicString).
ASSUME TopicsAssumption ==
  /\ Topics \subseteq Seq(Levels) /\ Patterns \subseteq Seq(Levels \cup {"+", "#"})
  /\ \A p \in Patterns : p # <<>> /\ \A k \in 1..(Len(p) - 1) : p[k] # "#"

TopicTypeOK ==
  /\ clients \in [Patterns -> SUBSET Subscribers]
  /\ mentioned \in [Subscribers -> SUBSET Patterns]
  /\ live \subseteq Subscribers \X Patterns

TopicInit ==
  /\ clients = [p \in Patterns |-> {}]
  /\ mentioned = [c \in Subscribers |-> {}]
  /\ live = {}

addSubscription(p, c) ==
  /\ clients' = [clients EXCEPT ![p] = @ \cup {c}]
  /\ mentioned' = [mentioned EXCEPT ![c] = @ \cup {p}]
  /\ live' = live \cup {<<c, p>>}

removeSubscription(p, c) ==
  /\ clients' = [clients EXCEPT ![p] = @ \ {c}]
  /\ live' = live \ {<<c, p>>}
  /\ UNCHANGED mentioned

removeClient(c) ==
  /\ clients' = [p \in Patterns |-> IF p \in mentioned[c] THEN clients[p] \ {c} ELSE clients[p]]
  /\ live' = live \ ({c} \X Patterns)
  /\ UNCHANGED mentioned

TopicNext == \E c \in Subscribers :
  removeClient(c) \/ \E p \in Patterns : addSubscription(p, c) \/ removeSubscription(p, c)

TopicSpec == TopicInit /\ [][TopicNext]_topicVars

-----------------------------------------------------------------------------
(* getPublishSet *)

Child(path, level) == {Append(path, level)}
                        \cap {SubSeq(p, 1, Len(path) + 1) : p \in {q \in Patterns : Len(q) > Len(path)}}

\* Mutant: a topic that ends here does not reach the "#" below.
StepsNotBeyond(topic, path, index) ==
  IF index = Len(topic) THEN {}
  ELSE (Child(path, "+") \X {index + 1}) \cup (Child(path, "#") \X {Len(topic)})
         \cup (Child(path, topic[index + 1]) \X {index + 1})

\* The tasks that one task adds to the queue: a node, and how much of the topic
\* is used up there.
Steps(topic, path, index) ==
  IF index = Len(topic) THEN Child(path, "#") \X {Len(topic)}
  ELSE (Child(path, "+") \X {index + 1}) \cup (Child(path, "#") \X {Len(topic)})
         \cup (Child(path, topic[index + 1]) \X {index + 1})

\* The nodes of patterns at which the walk uses up the topic.
NodesOf(topic) ==
  LET round[k \in 0..Len(topic) + 1] ==
        IF k = 0 THEN {<<<<>>, 0>>}
        ELSE UNION {Steps(topic, t[1], t[2]) : t \in round[k - 1]}
      tasks == UNION {round[k] : k \in 0..Len(topic) + 1}
  IN  {t[1] : t \in {u \in tasks : u[2] = Len(topic)}} \cap Patterns

\* They do not depend on who has subscribed.
Reached == UNION {{<<topic, p>> : p \in NodesOf(topic)} : topic \in Topics}

getPublishSet(topic) == UNION {clients[p] : p \in {q \in Patterns : <<topic, q>> \in Reached}}

-----------------------------------------------------------------------------
(* Properties *)

\* What a subscription means: level by level, "+" is any level and "#" the rest.
Covers(p, topic) ==
  LET n == IF Last(p) = "#" THEN Len(p) - 1 ELSE Len(p)
  IN  /\ IF Last(p) = "#" THEN n <= Len(topic) ELSE n = Len(topic)
      /\ \A k \in 1..n : p[k] \in {"+", topic[k]}

\* The walk through the tree finds exactly the clients that hold a subscription
\* that covers the topic, whatever was subscribed, unsubscribed and removed.
PublishSetIsExact ==
  /\ TopicTypeOK
  /\ \A topic \in Topics :
       getPublishSet(topic) = {c \in Subscribers : \E p \in Patterns : <<c, p>> \in live /\ Covers(p, topic)}
=============================================================================
