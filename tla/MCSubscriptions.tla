--------------------------- MODULE MCSubscriptions ---------------------------
(* The subscriptions of clients over reconnects, the registry of them in     *)
(* memory and database, and the two structures that match subscriptions, the *)
(* selection graph and the topic map: the initial state chooses which is     *)
(* exercised, the rest stays as it is.                                       *)
EXTENDS SubscriberRegistry, PeerSubscriptions, MCSelection, TopicMap

VARIABLE class

registryVars == vars
allVars == <<class, peerVars, registryVars, selectionVars, topicVars>>

SomeTopics == UNION {[1..n -> Levels] : n \in 1..2} \cup {<<"x", "x", "y">>, <<"y", "y", "y">>}
OnePatternOfEach == {<<"x">>, <<"x", "#">>, <<"+", "y">>, <<"#">>}

MCInit ==
  /\ PeerInit /\ Init /\ TopicInit
  /\ class \in {"PeerSubscriptions", "SubscriberRegistry", "SelectionGraph", "TopicMap"}
  /\ IF class = "SelectionGraph" THEN SelectionInit
       ELSE SelectFor(Check(CHOOSE c \in Checks : TRUE), CHOOSE r \in Candidates : TRUE)

PeerStep      == class = "PeerSubscriptions" /\ PeerNext
                 /\ UNCHANGED <<class, registryVars, selectionVars, topicVars>>
RegistryStep  == class = "SubscriberRegistry" /\ Next
                 /\ UNCHANGED <<class, peerVars, selectionVars, topicVars>>
SelectionStep == class = "SelectionGraph" /\ SelectionNext
                 /\ UNCHANGED <<class, peerVars, registryVars, topicVars>>
TopicStep     == class = "TopicMap" /\ TopicNext
                 /\ UNCHANGED <<class, peerVars, registryVars, selectionVars>>

MCSpec == MCInit /\ [][PeerStep \/ RegistryStep \/ SelectionStep \/ TopicStep]_allVars

\* The clients are the subscribers of the registry and of the topic map.
Symmetry == Permutations(Clients)
=============================================================================
