---------------------------- MODULE AsyncRWLock -----------------------------
(***************************************************************************)
(* One AsyncRWLock of src/core/asyncLockMap.js.  A call is one rlock() or  *)
(* wlock() with its promise: a promise is resolved at most once and its    *)
(* holder unlocks once, so a call is never reused.  What is reused is the  *)
(* lock: entries that wunlock() leaves in readerQueue belong to calls that *)
(* are long done, and resolving such a promise again has no effect on it.  *)
(***************************************************************************)
EXTENDS AsyncLock, Integers, FiniteSets

CONSTANT Calls

ASSUME CallsAssumption == IsFiniteSet(Calls)

VARIABLES rw,         \* the AsyncRWLock object
          at          \* how far each call is

rwVars == <<rw, at>>

States == {"idle", "rwait", "reading", "wwait", "writing", "done"}

RWInit == /\ rw = NewRWLock
          /\ at = [c \in Calls |-> "idle"]

\* Resolving a promise moves a pending call on and changes no other.
Resolve(p, granted) ==
  [c \in Calls |->
     CASE c \in granted /\ p[c] = "rwait" -> "reading"
       [] c \in granted /\ p[c] = "wwait" -> "writing"
       [] OTHER -> p[c]]

Take(res, p) == /\ rw' = res.lock
                /\ at' = Resolve(p, res.granted)

rlock(c) == /\ at[c] = "idle"
            /\ Take(RLock(rw, c), [at EXCEPT ![c] = "rwait"])

wlock(c) == /\ at[c] = "idle"
            /\ Take(WLock(rw, c), [at EXCEPT ![c] = "wwait"])

runlock(c) == /\ at[c] = "reading"
              /\ Take(RUnlock(rw), [at EXCEPT ![c] = "done"])

wunlock(c) == /\ at[c] = "writing"
              /\ Take(WUnlock(rw), [at EXCEPT ![c] = "done"])

RWNext == \E c \in Calls : rlock(c) \/ wlock(c) \/ runlock(c) \/ wunlock(c)

RWSpec == RWInit /\ [][RWNext]_rwVars

-----------------------------------------------------------------------------
(* Properties *)

Reading == {c \in Calls : at[c] = "reading"}
Writing == {c \in Calls : at[c] = "writing"}

RWTypeOK == /\ rw \in [readerQueue : Seq(Calls), writerQueue : Seq(Calls),
                       readers : Int, writers : {0, 1}]
            /\ at \in [Calls -> States]

\* Two writers never hold the lock together, and `writers` is 1 exactly while
\* one does: the hand-over in wunlock() and the admission in runlock() never
\* add a second writer.
OneWriter == /\ \A c, d \in Writing : c = d
             /\ rw.writers = 1 <=> Writing # {}

\* A queued writer is a pending call, queued once: unlock never resolves a
\* writer that holds or is done.
QueuedWritersWait ==
  /\ \A i \in DOMAIN rw.writerQueue : at[rw.writerQueue[i]] = "wwait"
  /\ \A i, j \in DOMAIN rw.writerQueue :
        rw.writerQueue[i] = rw.writerQueue[j] => i = j

\* What readerQueue holds are rlock() calls, also the stale ones.
QueuedReadersRead ==
  \A i \in DOMAIN rw.readerQueue :
     at[rw.readerQueue[i]] \in {"rwait", "reading", "done"}

\* What the queues and `writers` say of the calls is true.
QueueInv == RWTypeOK /\ OneWriter /\ QueuedWritersWait /\ QueuedReadersRead

\* `readers` never undercounts: readers leave in any order, are admitted one
\* by one and in bulk, and stale entries are counted again and again.
ReadersCounted == rw.readers >= Cardinality(Reading)

\* The inductive invariant: writers exclude each other, the queues hold calls
\* that wait, and no reader inside is forgotten.
RWInv == QueueInv /\ ReadersCounted

\* No reader gets in while a writer holds the lock or would have to queue
\* behind it: a step that admits a reader leaves no writer inside.
ReadersAdmittedAlone ==
  [][ (\E c \in Calls : at[c] # "reading" /\ at'[c] = "reading")
        => /\ \A c \in Calls : at'[c] # "writing"
           /\ rw'.writerQueue = <<>> ]_rwVars

\* A wlock() that is granted at once finds nobody inside (a runlock() may let a
\* writer in next to readers, see the README).
ImmediateWriterIsAlone ==
  [][ \A c \in Calls : at[c] = "idle" /\ at'[c] = "writing"
        => Reading = {} /\ Writing = {} ]_rwVars
=============================================================================
