---------------------------- MODULE MCNodeServices ----------------------------
(* What runs beside the server of a node: the heartbeats, the monitors of     *)
(* resources and the installation of modules.  The initial state chooses      *)
(* which is exercised, the rest stays as it is.                               *)
EXTENDS NodeMonitor, ResourceMonitor, ModuleInstall

CONSTANTS n1, n2,      \* NodeMonitor
          A, B, C, D   \* ModuleInstall

VARIABLE class

allVars == <<class, vars, monitorVars, installVars>>

Two == (n1 :> {n2}) @@ (n2 :> {n1})

\* A needs B and C; B needs C in a version that may be another one, and a version
\* of C needs A in turn.
Needs == (<<A, 1>> :> ((B :> {1}) @@ (C :> {1}))) @@ (<<A, 2>> :> ((B :> {2}) @@ (C :> {1})))
           @@ (<<B, 1>> :> (C :> {1, 2})) @@ (<<B, 2>> :> (C :> {2}))
           @@ (<<C, 1>> :> <<>>) @@ (<<C, 2>> :> (A :> {1}))

\* A needs B and C, which both need D, C only its first version.
NeedsShared == (<<A, 1>> :> ((B :> {1}) @@ (C :> {1}))) @@ (<<B, 1>> :> (D :> {1, 2})) @@ (<<C, 1>> :> (D :> {1}))
                 @@ (<<D, 1>> :> <<>>) @@ (<<D, 2>> :> <<>>)

MCInit ==
  /\ Init /\ MonitorInit /\ InstallInit
  /\ class \in {"NodeMonitor", "ResourceMonitor", "ModuleInstall"}

Gossip(action)     == class = "NodeMonitor" /\ action /\ UNCHANGED <<class, monitorVars, installVars>>
Monitoring(action) == class = "ResourceMonitor" /\ action /\ UNCHANGED <<class, vars, installVars>>
Installing(action) == class = "ModuleInstall" /\ action /\ UNCHANGED <<class, vars, monitorVars>>

MCSpec ==
  /\ MCInit /\ [][Gossip(Next) \/ Monitoring(MonitorNext) \/ Installing(InstallNext)]_allVars
  /\ \A n \in Nodes : \A m \in gossipPeers[n] :
       SF_allVars(Gossip(Reaches(n, m))) /\ WF_allVars(Gossip(Arrives(n, m)))
  /\ \A l \in Loops : WF_allVars(Monitoring(Refresh(l))) /\ WF_allVars(Monitoring(ReadsOn(l)))

\* A server that restarts at 0 counts again from where it was, and its peers
\* find it reachable again and again, however often a heartbeat gets lost.
ServersAreHeard ==
  \A n \in Nodes : \A m \in Nodes \ {n} :
    /\ []<>(class # "NodeMonitor" \/ CountsOn(n, m))
    /\ m \in gossipPeers[n] => []<>(class # "NodeMonitor" \/ n \in fresh[m])
===============================================================================
