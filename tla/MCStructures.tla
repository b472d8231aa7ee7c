----------------------------- MODULE MCStructures -----------------------------
(* The routing of a server and the resource index of DeviceDB in one run: the *)
(* initial state chooses which is exercised, the rest stays as it is.         *)
EXTENDS LinkStateTable, ShortestPaths, ResourceIndex, TLC

CONSTANTS r1, r2, g, gx      \* ResourceIndex

VARIABLE class

allVars == <<class, linkVars, pathVars, indexVars>>

\* Two resources, one of them in the group g, and the group gx below g.
GroupPaths == {<<g, g>>, <<gx, gx>>, <<g, gx>>}
FirstGroups == (r1 :> {g}) @@ (r2 :> {})
Operations == {[op |-> "join", r |-> r2, g |-> gx], [op |-> "leave", r |-> r1, g |-> g],
               [op |-> "create", g |-> gx], [op |-> "delete", g |-> g],
               [op |-> "add", r |-> r1], [op |-> "remove", r |-> r1],
               [op |-> "query", key |-> <<"group", g>>], [op |-> "query", key |-> <<"properties", r2>>],
               [op |-> "query", key |-> Everything], [op |-> "query", key |-> AnyId]}

MCInit ==
  /\ LinkInit /\ IndexInit
  /\ class \in {"LinkStateTable", "ShortestPaths", "ResourceIndex"}
  /\ IF class = "ShortestPaths" THEN PathInit ELSE StartFrom({Self}) /\ links[Self] = {}

LinkStep  == class = "LinkStateTable" /\ LinkNext /\ UNCHANGED <<class, pathVars, indexVars>>
PathStep  == class = "ShortestPaths" /\ PathNext /\ UNCHANGED <<class, linkVars, indexVars>>
IndexStep == class = "ResourceIndex" /\ IndexNext /\ UNCHANGED <<class, linkVars, pathVars>>

MCSpec == MCInit /\ [][LinkStep \/ PathStep \/ IndexStep]_allVars
=============================================================================
