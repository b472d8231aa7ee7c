---------------------------- MODULE LinkStateTable ----------------------------
(***************************************************************************)
(* Link state tables (src/core/router.js, class LinkStateTable): each node *)
(* knows its own links and what others told it of theirs, newest first by  *)
(* sequence number.  A node synchronizes by sending its digest, getting    *)
(* the entries it has not seen, and merging them; the changes that a merge *)
(* made can be passed on.  Tables travel as JSON, so that what is merged   *)
(* is a copy as old as the message.                                        *)
(***************************************************************************)
EXTENDS Naturals, Sequences, FiniteSets

CONSTANTS Routers,          \* the nodes
          MaxChanges,       \* bound: links that come up or go down
          MaxSyncs          \* bound: synchronizations under way together

VARIABLES table,            \* the entries of each node
          sync,             \* the synchronization or message under way to each node
          reported,         \* history: the neighbors of each node, by sequence number
          learned           \* history: who merged in the last step, and the digest
                            \* of the node that had answered it

linkVars == <<table, sync, reported, learned>>

Entry == [neighbors : SUBSET Routers, sequenceNumber : 0..MaxChanges]
NoSync == [at |-> "none"]
Own(n) == table[n][n]
IsTable(t) == DOMAIN t \subseteq Routers /\ \A m \in DOMAIN t : t[m] \in Entry

LinkTypeOK ==
  /\ \A n \in Routers : IsTable(table[n]) /\ n \in DOMAIN table[n]
  /\ \A n \in Routers :
       /\ sync[n].at \in {"none", "asked", "told"}
       /\ sync[n].at # "none" => sync[n].of \in Routers
       /\ sync[n].at = "asked" => DOMAIN sync[n].digest \subseteq Routers
       /\ sync[n].at = "told" => IsTable(sync[n].table) /\ DOMAIN sync[n].known \subseteq Routers
  /\ \A l \in learned : l.by \in Routers /\ DOMAIN l.digest \subseteq Routers

LinkInit ==
  /\ table = [n \in Routers |-> [m \in {n} |-> [neighbors |-> {}, sequenceNumber |-> 0]]]
  /\ sync = [n \in Routers |-> NoSync]
  /\ reported = [n \in Routers |-> <<>>]
  /\ learned = {}

Changes == {c \in Routers \X (1..MaxChanges) : c[2] <= Len(reported[c[1]])}

\* Mutant: the change is not numbered when a link goes down.
ReportUnnumbered(n, neighbors) ==
  LET s == Own(n).sequenceNumber + (IF Own(n).neighbors \subseteq neighbors THEN 1 ELSE 0)
  IN  /\ Cardinality(Changes) < MaxChanges
      /\ table' = [table EXCEPT ![n][n] = [neighbors |-> neighbors, sequenceNumber |-> s]]
      /\ reported' = [reported EXCEPT ![n] = Append(@, neighbors)]
      /\ sync' = sync /\ learned' = {}

Report(n, neighbors) ==
  LET s == Own(n).sequenceNumber + 1
  IN  /\ Cardinality(Changes) < MaxChanges
      /\ table' = [table EXCEPT ![n][n] = [neighbors |-> neighbors, sequenceNumber |-> s]]
      /\ reported' = [reported EXCEPT ![n] = Append(@, neighbors)]
      /\ sync' = sync /\ learned' = {}

linkUp(n, m) == m # n /\ Report(n, Own(n).neighbors \cup {m})
linkDown(n, m) == m \in Own(n).neighbors /\ Report(n, Own(n).neighbors \ {m})

-----------------------------------------------------------------------------
(* Synchronization *)

getDigest(n) == [m \in DOMAIN table[n] |-> table[n][m].sequenceNumber]

\* Mutant: only nodes that the other knows of are told.
DiffOfKnown(n, digest) ==
  LET unseen == {m \in DOMAIN table[n] \cap DOMAIN digest : table[n][m].sequenceNumber > digest[m]}
  IN  [m \in unseen |-> table[n][m]]

diff(n, digest) ==
  LET unseen == {m \in DOMAIN table[n] :
                   m \in DOMAIN digest => table[n][m].sequenceNumber > digest[m]}
  IN  [m \in unseen |-> table[n][m]]

NewFor(n, entries) ==
  {m \in DOMAIN entries : m \in DOMAIN table[n] =>
                            table[n][m].sequenceNumber < entries[m].sequenceNumber}

\* n sends its digest to m.
Ask(n, m) ==
  /\ m # n /\ sync[n] = NoSync
  /\ Cardinality({k \in Routers : sync[k] # NoSync}) < MaxSyncs
  /\ sync' = [sync EXCEPT ![n] = [at |-> "asked", of |-> m, digest |-> getDigest(n)]]
  /\ UNCHANGED <<table, reported>> /\ learned' = {}

\* The other node answers with what n had not seen when it asked.
Tell(n) ==
  /\ sync[n].at = "asked"
  /\ sync' = [sync EXCEPT ![n] = [at |-> "told", of |-> @.of, table |-> diff(@.of, @.digest),
                                           known |-> getDigest(@.of)]]
  /\ UNCHANGED <<table, reported>> /\ learned' = {}

\* merge: n takes over what is newer, and passes on what has changed to others.
merge(n, others) ==
  LET entries == sync[n].table
      new == NewFor(n, entries)
      changes == [at |-> "told", of |-> n, table |-> [m \in new |-> entries[m]],
                  known |-> [m \in {} |-> 0]]
  IN  /\ sync[n].at = "told"
      /\ \A m \in others : sync[m] = NoSync
      /\ new = {} => others = {}
      /\ table' = [table EXCEPT ![n] =
           [m \in DOMAIN @ \cup new |-> IF m \in new THEN entries[m] ELSE @[m]]]
      /\ sync' = [m \in Routers |-> IF m = n THEN NoSync ELSE IF m \in others THEN changes ELSE sync[m]]
      /\ learned' = {[by |-> n, digest |-> sync[n].known]}
      /\ UNCHANGED reported

\* A request or its answer is lost.
Lose(n) ==
  /\ sync[n] # NoSync
  /\ sync' = [sync EXCEPT ![n] = NoSync]
  /\ UNCHANGED <<table, reported>> /\ learned' = {}

LinkNext == \E n \in Routers :
  \/ \E m \in Routers : linkUp(n, m) \/ linkDown(n, m) \/ Ask(n, m)
  \/ Tell(n) \/ Lose(n)
  \/ \E others \in SUBSET (Routers \ {n}) : merge(n, others)

LinkSpec == LinkInit /\ [][LinkNext]_linkVars

-----------------------------------------------------------------------------
(* Properties *)

\* What a node believes of another is what that one reported under the same
\* number, never a mixture and never of the future, over lost, late and passed
\* on tables.
EntriesAreReports ==
  \A n, m \in Routers :
    m \in DOMAIN table[n] /\ table[n][m].sequenceNumber > 0 =>
      LET s == table[n][m].sequenceNumber
      IN  s <= Len(reported[m]) /\ table[n][m].neighbors = reported[m][s]

\* After a synchronization a node knows at least what the other one knew when it
\* answered, though both tables went on changing between digest, diff and merge.
SyncCatchesUp ==
  \A l \in learned : \A m \in DOMAIN l.digest :
    m \in DOMAIN table[l.by] /\ table[l.by][m].sequenceNumber >= l.digest[m]
=============================================================================
