--------------------------- MODULE SelectionGraph ---------------------------
(***************************************************************************)
(* How a subscription's selection is matched against a resource            *)
(* (src/core/registry.js): FlatSelection turns the parsed selection into a *)
(* graph whose sources are property checks, and _getOutput sends a token   *)
(* up that graph from every check that the resource satisfies.  Both loops *)
(* are modelled step by step.  Beside them, the two recursive evaluations  *)
(* of the same selections: isInSelection and evaluateSelection.            *)
(*                                                                         *)
(* A selection is a tree of and, or and not over checks.  A check names a  *)
(* property and a value of it, or any: an id, a group, or, as "other", a   *)
(* type or an interface.  The three evaluations read a resource in three   *)
(* ways.  A subscription takes the resource's own record (getInputs), a    *)
(* request the records of the index (evaluateSelection), and isInSelection *)
(* the index but for an id.                                                *)
(***************************************************************************)
EXTENDS Integers, Sequences, FiniteSets, SequencesExt

CONSTANTS Checks,       \* [property, value]
          Candidates,   \* the resources, in the states that they may be in:
                        \* [id, indexed, others, listed, groups]
          OnPath,       \* <<g, h>>: h is the group g, or one below it
          Begins,       \* <<g, h>>: the name of h starts with the name of g
          Depth         \* bound: the levels of operators in a selection

Wildcard == "*"    \* what a WildcardCheckNode is: any value

ASSUME DepthAssumption == Depth \in Nat

\* A resource that is indexed has a record of its types and interfaces (others).
\* The index may list it under more, those that it once had, and in groups that
\* it was put into without having a record, or kept when it was removed.
ASSUME CandidatesAssumption ==
  /\ \A r \in Candidates : r.indexed \in BOOLEAN /\ r.others \subseteq r.listed
  /\ OnPath \subseteq Begins

VARIABLES sel,      \* the parsed selection
          candidate,  \* the resource
          phase,    \* "graph", "output", or how it ended
          graph,    \* _toGraph's local variables
          logic,    \* FlatSelection.nodes
          tokens,   \* _getOutput's inputs
          ands,     \* _getOutput's andInputCounts: vertices with one input so far
          output

selectionVars == <<sel, candidate, phase, graph, logic, tokens, ands, output>>

Check(c) == [op |-> "check", check |-> c, children |-> <<>>]
Op(o, children) == [op |-> o, check |-> "none", children |-> children]

Either(S) == {Op("or", pair) : pair \in S \X S}

\* The trees with one more level of operators than those in S.
Deeper(S) == {Op("and", pair) : pair \in S \X S} \cup Either(S) \cup {Op("not", <<n>>) : n \in S}

Leaves == {Check(c) : c \in Checks}
SelectionsUpTo[d \in 0..Depth] ==
  IF d = 0 THEN Leaves ELSE SelectionsUpTo[d - 1] \cup Deeper(SelectionsUpTo[d - 1])
ParsedSelections == SelectionsUpTo[Depth]

Null == -1
Final == {"matched", "unmatched", "threw", "refused"}

SelectFor(selection, resource) ==
  /\ sel = selection /\ candidate = resource
  /\ phase = "graph"
  /\ graph = [nextVertexID |-> 1, nodeQueue |-> <<sel>>, sourceSet |-> {},
              vertexMap |-> [v \in {0} |-> sel], edgeMap |-> [v \in {0} |-> Null]]
  /\ logic = [v \in {} |-> {}]
  /\ tokens = <<>>
  /\ ands = {}
  /\ output = FALSE

SelectionInit == \E selection \in ParsedSelections, resource \in Candidates : SelectFor(selection, resource)

-----------------------------------------------------------------------------
(* FlatSelection *)

\* Mutant: the children's edges lead to the first child.
VisitSelfLoop(g) ==
  LET node   == Head(g.nodeQueue)
      parent == g.nextVertexID - 1
      n      == Len(node.children)
      new    == g.nextVertexID .. g.nextVertexID + n - 1
  IN  [nextVertexID |-> g.nextVertexID + n,
       nodeQueue    |-> Tail(g.nodeQueue) \o node.children,
       sourceSet    |-> IF n = 0 THEN g.sourceSet \cup {parent} ELSE g.sourceSet,
       vertexMap    |-> [v \in DOMAIN g.vertexMap \cup {c + 1 : c \in new} |->
                           IF v - 1 \in new THEN node.children[v - g.nextVertexID] ELSE g.vertexMap[v]],
       edgeMap      |-> [v \in DOMAIN g.edgeMap \cup new |-> IF v \in new THEN parent + 1 ELSE g.edgeMap[v]]]

\* The node at the head of the queue is given the last id handed out, which is
\* its own only for the root, and a child is entered in vertexMap after
\* nextVertexID moved on, one above the id that edgeMap has for it.
Visit(g) ==
  LET node   == Head(g.nodeQueue)
      parent == g.nextVertexID - 1
      n      == Len(node.children)
      new    == g.nextVertexID .. g.nextVertexID + n - 1
  IN  [nextVertexID |-> g.nextVertexID + n,
       nodeQueue    |-> Tail(g.nodeQueue) \o node.children,
       sourceSet    |-> IF n = 0 THEN g.sourceSet \cup {parent} ELSE g.sourceSet,
       vertexMap    |-> [v \in DOMAIN g.vertexMap \cup {c + 1 : c \in new} |->
                           IF v - 1 \in new THEN node.children[v - g.nextVertexID] ELSE g.vertexMap[v]],
       edgeMap      |-> [v \in DOMAIN g.edgeMap \cup new |-> IF v \in new THEN parent ELSE g.edgeMap[v]]]

ToGraph ==
  /\ phase = "graph" /\ graph.nodeQueue # <<>>
  /\ graph' = Visit(graph)
  /\ UNCHANGED <<sel, candidate, phase, logic, tokens, ands, output>>

\* Mutant: the groups above are left out.
InputsWithoutPaths(resource) ==
  {c \in Checks :
     CASE c.property = "id" -> c.value \in {resource.id, Wildcard}
       [] c.property = "group" -> resource.indexed /\ \E h \in resource.groups : c.value \in {Wildcard, h}
       [] OTHER -> resource.indexed /\ c.value \in resource.others \cup {Wildcard}}

\* getInputs: the checks that a resource's own record satisfies.  Its id needs no
\* record, and a group counts with those above it on its path.
getInputs(resource) ==
  {c \in Checks :
     CASE c.property = "id" -> c.value \in {resource.id, Wildcard}
       [] c.property = "group" -> /\ resource.indexed
                                  /\ \E h \in resource.groups : c.value = Wildcard \/ <<c.value, h>> \in OnPath
       [] OTHER -> resource.indexed /\ c.value \in resource.others \cup {Wildcard}}

\* What the resource's inputs find: the parents of the sources whose node is one
\* of them.
SatisfiedSources(g) ==
  LET inputs == getInputs(candidate)
  IN  [v \in {w \in g.sourceSet : g.vertexMap[w].op = "check" /\ g.vertexMap[w].check \in inputs} |-> g.edgeMap[v]]

\* A "not" at a vertex that is no source is refused.  The vertices that are
\* left make up the logic; one that is a check has no type.
BuildKVMap ==
  LET inner == DOMAIN graph.vertexMap \ graph.sourceSet
      start == SatisfiedSources(graph)
      order == CHOOSE s \in SetToSeqs(DOMAIN start) : \A i, j \in DOMAIN s : i < j => s[i] < s[j]
  IN  /\ phase = "graph" /\ graph.nodeQueue = <<>>
      /\ IF \E v \in inner : graph.vertexMap[v].op = "not"
           THEN phase' = "refused" /\ UNCHANGED <<logic, tokens>>
           ELSE /\ phase' = "output"
                /\ logic' = [v \in inner |-> [type |-> graph.vertexMap[v].op,
                                              parent |-> IF v \in DOMAIN graph.edgeMap
                                                           THEN graph.edgeMap[v] ELSE Null]]
                /\ tokens' = [i \in DOMAIN order |-> start[order[i]]]
      /\ UNCHANGED <<sel, candidate, graph, ands, output>>

-----------------------------------------------------------------------------
(* _getOutput *)

\* A token is at a vertex of the given type.
TokenAt(type) == /\ phase = "output" /\ tokens # <<>>
                 /\ Head(tokens) \in DOMAIN logic /\ logic[Head(tokens)].type = type

\* Mutant: a token at the root is not noticed.
RootUnnoticed ==
  /\ phase = "output" /\ tokens # <<>> /\ Head(tokens) = Null
  /\ tokens' = Tail(tokens)
  /\ UNCHANGED <<sel, candidate, phase, graph, logic, ands, output>>

TokenAtRoot ==
  /\ phase = "output" /\ tokens # <<>> /\ Head(tokens) = Null
  /\ output' = TRUE
  /\ tokens' = Tail(tokens)
  /\ UNCHANGED <<sel, candidate, phase, graph, logic, ands>>

TokenAtOr ==
  /\ TokenAt("or")
  /\ tokens' = Append(Tail(tokens), logic[Head(tokens)].parent)
  /\ UNCHANGED <<sel, candidate, phase, graph, logic, ands, output>>

\* Mutant: one input is enough for an "and".
PassAnd ==
  /\ TokenAt("and")
  /\ tokens' = Append(Tail(tokens), logic[Head(tokens)].parent)
  /\ UNCHANGED <<sel, candidate, phase, graph, logic, ands, output>>

\* The second input of an "and" goes on to its parent.
TokenAtAnd ==
  LET v == Head(tokens)
  IN  /\ TokenAt("and")
      /\ IF v \in ands
           THEN tokens' = Append(Tail(tokens), logic[v].parent) /\ ands' = ands \ {v}
           ELSE tokens' = Tail(tokens) /\ ands' = ands \cup {v}
      /\ UNCHANGED <<sel, candidate, phase, graph, logic, output>>

\* A vertex without a type lets nothing through.
TokenLost ==
  /\ TokenAt("check")
  /\ tokens' = Tail(tokens)
  /\ UNCHANGED <<sel, candidate, phase, graph, logic, ands, output>>

\* There is no such vertex: logic[input].type throws.
TokenThrows ==
  /\ phase = "output" /\ tokens # <<>> /\ Head(tokens) \notin DOMAIN logic \cup {Null}
  /\ phase' = "threw"
  /\ UNCHANGED <<sel, candidate, graph, logic, tokens, ands, output>>

Decide ==
  /\ phase = "output" /\ tokens = <<>>
  /\ phase' = IF output THEN "matched" ELSE "unmatched"
  /\ UNCHANGED <<sel, candidate, graph, logic, tokens, ands, output>>

Ended == phase \in Final /\ UNCHANGED selectionVars

SelectionNext ==
  \/ ToGraph \/ BuildKVMap
  \/ TokenAtRoot \/ TokenAtOr \/ TokenAtAnd \/ TokenLost \/ TokenThrows
  \/ Decide \/ Ended

\* The two loops run without yielding.
SelectionSpec == SelectionInit /\ [][SelectionNext]_selectionVars

-----------------------------------------------------------------------------
(* The recursive evaluations *)

\* getResources of a property and a value, or any: what the index has.  A group
\* is found by the beginning of its name (listGroup).
getResources(check) ==
  {r \in Candidates :
     CASE check.property = "id" -> r.indexed /\ check.value \in {r.id, Wildcard}
       [] check.property = "group" -> \E h \in r.groups : check.value = Wildcard \/ <<check.value, h>> \in Begins
       [] OTHER -> check.value \in r.listed \/ (check.value = Wildcard /\ r.indexed)}

\* getResources without a property: the resources that have a record.
getAllResources == {r \in Candidates : r.indexed}

\* An id is compared, for all else the index is asked.
Satisfies(resource, check) ==
  IF check.property = "id" /\ check.value # Wildcard
    THEN check.value = resource.id ELSE resource \in getResources(check)

\* What a node means for a resource, given what the nodes below mean.
isInSelection(resource, node) ==
  LET isIn[n \in ParsedSelections] ==
        CASE n.op = "and" -> isIn[n.children[1]] /\ isIn[n.children[2]]
          [] n.op = "or"  -> isIn[n.children[1]] \/ isIn[n.children[2]]
          [] n.op = "not" -> ~isIn[n.children[1]]
          [] OTHER        -> Satisfies(resource, n.check)
  IN  isIn[node]

\* Mutant: the operands of the difference are swapped.
ComplementSwapped(S) == S \ getAllResources

\* difference(getResources(), S)
Complement(S) == getAllResources \ S

evaluateSelection[node \in ParsedSelections] ==
  CASE node.op = "and" -> evaluateSelection[node.children[1]] \cap evaluateSelection[node.children[2]]
    [] node.op = "or"  -> evaluateSelection[node.children[1]] \cup evaluateSelection[node.children[2]]
    [] node.op = "not" -> Complement(evaluateSelection[node.children[1]])
    [] OTHER           -> getResources(node.check)

-----------------------------------------------------------------------------
(* Properties *)

\* The selections whose only operator is "or".
OrsUpTo[d \in 0..Depth] ==
  IF d = 0 THEN Leaves ELSE OrsUpTo[d - 1] \cup Either(OrsUpTo[d - 1])
Ors == OrsUpTo[Depth]

\* What the index says of a resource is what its own record says: it is listed
\* under what it is now, and no group that it is in only begins like another.
AsRecorded(resource) ==
  /\ resource.indexed /\ resource.listed = resource.others
  /\ \A c \in Checks, h \in resource.groups : <<c.value, h>> \in Begins => <<c.value, h>> \in OnPath

\* A request (evaluateSelection) finds no resource that isInSelection denies, and
\* all that it grants among the resources that have a record: for others an id,
\* and the complement, differ.
RequestsAgree ==
  LET found == candidate \in evaluateSelection[sel]
  IN  /\ found => isInSelection(candidate, sel)
      /\ candidate.indexed /\ isInSelection(candidate, sel) => found

\* A subscription to a selection that is one check, or made of "or"s, is only
\* matched by resources that it holds for, those without a record aside; and a
\* resource that the index has as it is recorded matches every check that it
\* satisfies.
SubscriptionsAgree ==
  /\ sel \in Ors /\ phase = "matched" /\ candidate.indexed => isInSelection(candidate, sel)
  /\ sel.op = "check" /\ phase \in Final /\ AsRecorded(candidate) /\ isInSelection(candidate, sel)
       => phase = "matched"

\* As far as the three evaluations of a selection agree, which read the resource
\* in three ways, and FlatSelection mixes up the ids of the vertices.
EvaluationsAgree == RequestsAgree /\ SubscriptionsAgree

\* With "and" and "not" in it, a selection of two levels of operators is not
\* matched by a resource that it does not hold for, either.  A deeper one is:
\* or(or(or(or(a, a), a), or(or(a, a), a)), and(or(c, d), d)) is matched by a
\* resource that only satisfies c.
NoFalseMatch == Depth <= 2 /\ phase = "matched" /\ candidate.indexed => isInSelection(candidate, sel)

\* "subscribe('1', 'id="abc123" or id="xyz456"', 'event1')" and then
\* getSubscribers('xyz456', 'event1') gives { '1': true }: an or of two ids is
\* matched by the resource that has the second.
OrMatchesEither ==
  LET ids == {Check(c) : c \in {d \in Checks : d.property = "id" /\ d.value # Wildcard}}
  IN  sel \in {Op("or", <<l, r>>) : l, r \in ids} /\ phase \in Final /\ isInSelection(candidate, sel)
        => phase = "matched"
=============================================================================
