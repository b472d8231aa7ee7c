---------------------------- MODULE MCRegistration ----------------------------
(* The peers and resources of one server, and the owner record of a resource *)
(* among several: the initial state chooses which.                            *)
EXTENDS PeerRegistration, ResourceOwners, TLC

VARIABLE class

allVars == <<class, vars, ownersVars>>

MCInit == Init /\ OwnersInit /\ class \in {"PeerRegistration", "ResourceOwners"}

MCNext == \/ class = "PeerRegistration" /\ Next /\ UNCHANGED <<class, ownersVars>>
          \/ class = "ResourceOwners" /\ OwnersNext /\ UNCHANGED <<class, vars>>

MCSpec == MCInit /\ [][MCNext]_allVars

Symmetry == Permutations(Nodes) \cup Permutations(Updates)
=============================================================================
