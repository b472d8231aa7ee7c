---------------------------- MODULE RequestProofs ----------------------------
(***************************************************************************)
(* POST /request, for every finite set of resources: one answer at most, a *)
(* count that never falls behind, and answers that are complete.  Then     *)
(* what is forwarded, for every set of servers: the subscriptions of the   *)
(* cloud, the entry of a forwarded request, and its answer, which is that  *)
(* of ForwardedAnswer.                                                     *)
(***************************************************************************)
EXTENDS RequestFanout, ForwardedRequest, FiniteSetTheorems, SequenceTheorems, TLAPS

(* A request at the server that gets it *)

Open == entry # NoEntry

ResponseSets == UNION {[S -> Outcomes] : S \in SUBSET Resources}

Batches == SUBSET (Resources \X Outcomes)

\* What was sent to the requester.
AnswersInv ==
  /\ answers \in Seq(Answers)
  /\ AnsweredOnce
  /\ CompleteUnlessTimedOut
  /\ AnswerCoversSelection

\* The entry comes with the request and goes with the answer.
Life ==
  /\ fwd.at = "idle" => ~Open /\ answers = <<>> /\ emitting = "idle" /\ ~otherIsReady
  /\ Open => answers = <<>>
  /\ TimeoutFindsEntry

\* Clients are asked by the emitting promise, for what it lists, and nothing is
\* struck off before the owners are read.
AskedAreListed ==
  /\ emitting # "done" => asked = {}
  /\ Open /\ fwd.at \in {"select", "lookup"} => asked \subseteq DOMAIN entry.responseSet

\* The resources that the owner lookup may still strike off and take off the
\* count.  Those among them that a client was asked for, and that are pending,
\* were counted by both promises.
Owed == IF fwd.at = "owners" THEN fwd.set ELSE {}

Counts(e, owed, askedFor) ==
  LET pending == Pending(e.responseSet)
  IN  e.pendingResponseCount >= Cardinality(pending \cup owed) + Cardinality(owed \cap pending \cap askedFor)

Counted == Open => Counts(entry, Owed, asked)

Listed == fwd.at \in {"owners", "sent", "done"}

\* The second promise to be ready makes the entry ready.
ReadyInv ==
  Open => /\ otherIsReady => Listed \/ emitting = "done"
          /\ entry.isReady => Listed /\ emitting = "done"

\* While registrations do not change, the promises split the selection.
Split ==
  ~changed =>
    /\ fwd.at \in {"idle", "select"} => fwd.set = {}
    /\ fwd.at = "lookup" => fwd.set = Resources \ registered
    /\ fwd.set \cap registered = {}
    /\ Open => /\ entry.pendingResponseCount = Cardinality(Pending(entry.responseSet))
               /\ DOMAIN entry.responseSet = (IF Listed THEN Resources \ registered ELSE {})
                                             \cup (IF emitting = "done" THEN registered ELSE {})

IInv == /\ TypeOK /\ AnswersInv /\ Life /\ AskedAreListed
        /\ Counted /\ ReadyInv /\ Split

-----------------------------------------------------------------------------
(* Finite sets *)

\* Every set of resources is finite.
LEMMA Finite ==
  ASSUME NEW S, S \subseteq Resources
  PROVE  IsFiniteSet(S) /\ Cardinality(S) \in Nat
BY ResourcesAssumption, FS_Subset, FS_CardinalityType

\* The cardinality of a part, of a union and of what is left.
LEMMA Sizes ==
  ASSUME NEW S, NEW T, S \subseteq Resources, T \subseteq Resources
  PROVE  /\ S \subseteq T => Cardinality(S) <= Cardinality(T)
         /\ Cardinality(S \cup T) = Cardinality(S) + Cardinality(T) - Cardinality(S \cap T)
         /\ S \subseteq T => Cardinality(T \ S) = Cardinality(T) - Cardinality(S)
         /\ S \cap T = {} => Cardinality(S \cap T) = 0
         /\ Cardinality(S) = 0 <=> S = {}
<1>1. IsFiniteSet(S) /\ IsFiniteSet(T)
  BY Finite
<1>2. S \subseteq T => Cardinality(S) <= Cardinality(T)
  BY <1>1, FS_Subset
<1>3. Cardinality(S \cup T) = Cardinality(S) + Cardinality(T) - Cardinality(S \cap T)
  BY <1>1, FS_Union
<1>4. ASSUME S \subseteq T PROVE Cardinality(T \ S) = Cardinality(T) - Cardinality(S)
  <2>1. T \cap S = S
    BY <1>4
  <2> QED BY <1>1, <2>1, FS_Difference
<1> QED BY <1>1, <1>2, <1>3, <1>4, FS_EmptySet

\* Nothing is left when the count of what is left is not positive.
LEMMA Empty ==
  ASSUME NEW S, S \subseteq Resources, 0 >= Cardinality(S)
  PROVE  S = {}
BY Finite, FS_EmptySet

\* What an entry is.
LEMMA OpenEntry ==
  ASSUME TypeOK, Open
  PROVE  /\ entry \in Entries
         /\ entry.pendingResponseCount \in Int
         /\ entry.responseSet \in ResponseSets
         /\ entry.isReady \in BOOLEAN
         /\ DOMAIN entry.responseSet \subseteq Resources
         /\ Pending(entry.responseSet) \subseteq DOMAIN entry.responseSet
BY DEF TypeOK, Open, Entries, ResponseSets, Pending

\* An entry that is ready is an entry.
LEMMA EntryReady ==
  ASSUME NEW x \in Entries, NEW e, e = [x EXCEPT !.isReady = TRUE]
  PROVE  /\ e \in Entries /\ e.isReady
         /\ e.responseSet = x.responseSet /\ e.pendingResponseCount = x.pendingResponseCount
BY DEF Entries, ResponseSets

\* A set with other resources is a set.
LEMMA SetType ==
  ASSUME NEW S, S \subseteq Resources, NEW f, f \in [S -> Outcomes]
  PROVE  f \in ResponseSets
BY DEF ResponseSets

\* The empty set of resources.
LEMMA NothingIsASet == Nothing \in ResponseSets /\ Pending(Nothing) = {} /\ DOMAIN Nothing = {}
<1>1. Nothing \in [{} -> Outcomes]
  BY DEF Nothing
<1>2. DOMAIN Nothing = {}
  BY DEF Nothing
<1>3. Pending(Nothing) = {}
  BY <1>2 DEF Pending
<1> QED BY <1>1, <1>2, <1>3, SetType

-----------------------------------------------------------------------------
(* What every step leaves to show *)

\* The part of the invariant that does not look at the entry.
RestInv ==
  /\ registered \subseteq Resources
  /\ fwd \in [at : {"idle", "select", "lookup", "owners", "sent", "done"}, set : SUBSET Resources]
  /\ emitting \in {"idle", "select", "done"}
  /\ otherIsReady \in BOOLEAN
  /\ asked \subseteq Resources
  /\ changed \in BOOLEAN
  /\ fwd.at = "idle" => emitting = "idle" /\ ~otherIsReady
  /\ emitting # "done" => asked = {}
  /\ ~changed =>
       /\ fwd.at \in {"idle", "select"} => fwd.set = {}
       /\ fwd.at = "lookup" => fwd.set = Resources \ registered
       /\ fwd.set \cap registered = {}

\* It is a part.
LEMMA RestHolds == IInv => RestInv
BY DEF IInv, TypeOK, Life, AskedAreListed, Split, RestInv

\* The part that does look at an open entry.
EntryInv ==
  /\ entry \in Entries
  /\ fwd.at \in {"select", "lookup"} => asked \subseteq DOMAIN entry.responseSet
  /\ Counts(entry, Owed, asked)
  /\ otherIsReady => Listed \/ emitting = "done"
  /\ entry.isReady => Listed /\ emitting = "done"
  /\ ~changed =>
       /\ entry.pendingResponseCount = Cardinality(Pending(entry.responseSet))
       /\ DOMAIN entry.responseSet = (IF Listed THEN Resources \ registered ELSE {})
                                     \cup (IF emitting = "done" THEN registered ELSE {})

\* It is a part, too.
LEMMA EntryHolds == IInv /\ Open => EntryInv
BY OpenEntry DEF IInv, TypeOK, AskedAreListed, Split, Counted, ReadyInv, EntryInv

\* A step that leaves the entry open: the rest, and the entry's part.
LEMMA StaysOpen ==
  ASSUME IInv, Open, RestInv', EntryInv', fwd'.at # "idle", changed' = changed,
         UNCHANGED <<answers, timer, cached>>
  PROVE  IInv'
<1>1. entry' # NoEntry
  BY DEF EntryInv, Entries, NoEntry
<1>2. AnswersInv'
  BY DEF IInv, AnswersInv, AnsweredOnce, CompleteUnlessTimedOut, AnswerCoversSelection
<1>3. TypeOK'
  BY DEF IInv, TypeOK, RestInv, EntryInv
<1>4. Life'
  BY <1>1 DEF IInv, Life, Open, TimeoutFindsEntry
<1> QED
  BY <1>1, <1>2, <1>3, <1>4
  DEF IInv, RestInv, EntryInv, AskedAreListed, Counted, ReadyInv, Split, Open

\* The request was answered, by this step or before.
Answered == entry' = NoEntry /\ timer' = FALSE /\ cached' \subseteq Resources /\ AnswersInv'

\* A step without an entry after it: the rest, and the answers.
LEMMA IsGone ==
  ASSUME IInv, RestInv', Answered, fwd'.at # "idle"
  PROVE  IInv'
<1>1. \A i \in DOMAIN answers' : answers'[i] \in Answers
  BY DEF Answered, AnswersInv
<1>2. TypeOK'
  BY <1>1 DEF IInv, TypeOK, RestInv, Answered
<1> QED
  BY <1>2 DEF IInv, RestInv, Answered, Life, Open, TimeoutFindsEntry, AskedAreListed, Counted, ReadyInv, Split

\* A step that finds no entry and does nothing about it.
LEMMA StaysGone ==
  ASSUME IInv, ~Open, UNCHANGED <<entry, answers, timer, cached>>, changed => changed'
  PROVE  Answered
<1>1. timer = FALSE /\ cached \subseteq Resources
  BY DEF IInv, Life, TimeoutFindsEntry, Open, TypeOK
<1>2. AnswersInv'
  BY DEF IInv, AnswersInv, AnsweredOnce, CompleteUnlessTimedOut, AnswerCoversSelection, TypeOK
<1> QED BY <1>1, <1>2 DEF Answered, Open

\* The one answer of a request.
LEMMA OneAnswer ==
  ASSUME IInv, answers = <<>>, NEW a \in Answers, answers' = Append(answers, a), changed' = changed,
         a.timedOut \/ Pending(a.responseSet) = {},
         ~changed /\ a.status = 200 /\ ~a.timedOut => DOMAIN a.responseSet = Resources
  PROVE  AnswersInv'
<1>1. answers' = <<a>>
  OBVIOUS
<1>2. answers' \in Seq(Answers) /\ Len(answers') = 1 /\ DOMAIN answers' = {1} /\ answers'[1] = a
  BY <1>1
<1> QED BY <1>2 DEF AnswersInv, AnsweredOnce, CompleteUnlessTimedOut, AnswerCoversSelection

\* finish answers.
LEMMA Finishes ==
  ASSUME IInv, Open, NEW e \in Entries, NEW timedOut \in BOOLEAN, finish(e, timedOut), changed' = changed,
         timedOut \/ Pending(e.responseSet) = {},
         ~changed /\ ~timedOut => DOMAIN e.responseSet = Resources
  PROVE  Answered
<1> DEFINE a == [status |-> 200, timedOut |-> timedOut, responseSet |-> e.responseSet]
<1>1. a \in Answers
  BY DEF Answers, Entries
<1>2. answers = <<>>
  BY DEF IInv, Life
<1>3. answers' = Append(answers, a)
  BY DEF finish
<1>4. AnswersInv'
  <2> HIDE DEF a
  <2>1. a.timedOut = timedOut /\ a.responseSet = e.responseSet
    BY DEF a
  <2> QED BY <1>1, <1>2, <1>3, <2>1, OneAnswer
<1>5. cached' \subseteq Resources
  <2>1. e.updateBatch \subseteq Resources \X Outcomes
    BY DEF Entries
  <2>2. \A u \in e.updateBatch : u[1] \in Resources
    BY <2>1
  <2> QED BY <2>2 DEF finish, IInv, TypeOK
<1> QED BY <1>4, <1>5 DEF Answered, finish

\* cancel answers, or does nothing.
LEMMA Cancels ==
  ASSUME IInv, NEW status \in {400, 500}, cancel(status), changed' = changed
  PROVE  Answered
<1>1. CASE ~Open
  BY <1>1, StaysGone DEF cancel, Open
<1>2. CASE Open
  <2> DEFINE a == [status |-> status, timedOut |-> FALSE, responseSet |-> Nothing]
  <2>1. Nothing \in ResponseSets /\ Pending(Nothing) = {}
    BY NothingIsASet
  <2>2. a \in Answers
    BY <2>1 DEF Answers, ResponseSets
  <2>3. answers = <<>> /\ answers' = Append(answers, a)
    BY <1>2 DEF IInv, Life, cancel, Open
  <2>4. AnswersInv'
    BY <2>1, <2>2, <2>3, OneAnswer
  <2> QED BY <1>2, <2>4 DEF cancel, Answered, Open, IInv, TypeOK
<1> QED BY <1>1, <1>2

-----------------------------------------------------------------------------
(* What an entry's operations come to *)

\* ready, with a count that covers what is pending.
LEMMA Readies ==
  ASSUME IInv, Open, NEW e \in Entries, ready(e), changed' = changed,
         e.pendingResponseCount >= Cardinality(Pending(e.responseSet)),
         ~changed => DOMAIN e.responseSet = Resources
  PROVE  Answered \/ Keep([e EXCEPT !.isReady = TRUE])
<1>1. CASE e.pendingResponseCount = 0
  <2>1. Pending(e.responseSet) \subseteq Resources
    BY DEF Entries, Pending
  <2>2. Pending(e.responseSet) = {}
    BY <1>1, <2>1, Empty
  <2>3. finish(e, FALSE)
    BY <1>1 DEF ready
  <2> QED BY <2>2, <2>3, Finishes
<1>2. CASE e.pendingResponseCount # 0
  BY <1>2 DEF ready
<1> QED BY <1>1, <1>2

\* The entry after responses for the resources new.
Responded(new, e) ==
  /\ new \subseteq Pending(entry.responseSet)
  /\ e \in Entries
  /\ e.isReady = entry.isReady
  /\ e.pendingResponseCount = entry.pendingResponseCount - Cardinality(new)
  /\ DOMAIN e.responseSet = DOMAIN entry.responseSet
  /\ Pending(e.responseSet) = Pending(entry.responseSet) \ new

\* What the responses for some resources do to the entry.
LEMMA ResponseEntry ==
  ASSUME TypeOK, Open, NEW D, NEW resps \in [D -> {"client", "remote", "failed"}],
         response(entry, resps)
  PROVE  LET new == D \cap Pending(entry.responseSet)
         IN  \E e : /\ Responded(new, e)
                    /\ \/ Keep(e)
                       \/ e.isReady /\ e.pendingResponseCount = 0 /\ finish(e, FALSE)
<1> DEFINE new == D \cap Pending(entry.responseSet)
           set == [r \in DOMAIN entry.responseSet |-> IF r \in new THEN resps[r] ELSE entry.responseSet[r]]
           batch == IF entry.get THEN entry.updateBatch \cup {<<r, resps[r]>> : r \in new} ELSE entry.updateBatch
           e == [entry EXCEPT !.responseSet = set, !.updateBatch = batch,
                              !.pendingResponseCount = @ - Cardinality(new)]
<1>0. PICK S \in SUBSET Resources : entry.responseSet \in [S -> Outcomes]
  BY OpenEntry DEF ResponseSets
<1>1. entry \in Entries /\ DOMAIN entry.responseSet = S /\ new \subseteq Resources /\ new \subseteq S
  BY <1>0, OpenEntry DEF Pending
<1>2. \A r \in new : resps[r] \in {"client", "remote", "failed"} /\ resps[r] \in Outcomes
  BY DEF Outcomes
<1>3. set \in [S -> Outcomes]
  BY <1>0, <1>1, <1>2
<1>4. batch \in Batches
  BY <1>1, <1>2 DEF Entries, Batches
<1>5. Cardinality(new) \in Nat
  BY <1>1, Finite
<1>6. e \in Entries /\ e.responseSet = set /\ e.isReady = entry.isReady
      /\ e.pendingResponseCount = entry.pendingResponseCount - Cardinality(new)
  <2> HIDE DEF set, batch, new
  <2>1. set \in UNION {[T -> Outcomes] : T \in SUBSET Resources}
    BY <1>3
  <2> DEFINE c == entry.pendingResponseCount - Cardinality(new)
  <2>2. c \in Int /\ set \in ResponseSets /\ entry \in Entries
    BY <1>1, <1>5, <2>1, OpenEntry DEF ResponseSets
  <2>3. e = [entry EXCEPT !.responseSet = set, !.updateBatch = batch, !.pendingResponseCount = c]
    OBVIOUS
  <2> HIDE DEF c, e
  <2>5. e = [at |-> entry.at, get |-> entry.get, isReady |-> entry.isReady, pendingResponseCount |-> c,
             responseSet |-> set, updateBatch |-> batch]
    BY <2>2, <2>3 DEF Entries
  <2>4. e \in Entries /\ e.responseSet = set /\ e.isReady = entry.isReady /\ e.pendingResponseCount = c
    BY <1>4, <2>2, <2>5 DEF Entries, ResponseSets, Batches
  <2> QED BY <2>4 DEF c
<1>7. Pending(set) = Pending(entry.responseSet) \ new
  BY <1>1, <1>2, <1>3 DEF Pending
<1>8. Responded(new, e)
  <2> HIDE DEF e, new
  <2>1. new \subseteq Pending(entry.responseSet)
    BY DEF new
  <2>2. DOMAIN e.responseSet = DOMAIN entry.responseSet
    BY <1>1, <1>3, <1>6
  <2> QED BY <1>6, <1>7, <2>1, <2>2 DEF Responded
<1>9. Keep(e) \/ (e.isReady /\ e.pendingResponseCount = 0 /\ finish(e, FALSE))
  <2>1. DOMAIN resps = D
    OBVIOUS
  <2> QED BY <2>1 DEF response
<1> QED
  <2> HIDE DEF e
  <2> QED BY <1>8, <1>9

\* A count that covers more than what is pending covers that.
LEMMA CountsCover ==
  ASSUME NEW e \in Entries, NEW owed, owed \subseteq Resources, NEW A, Counts(e, owed, A)
  PROVE  /\ Pending(e.responseSet) \subseteq Resources
         /\ e.pendingResponseCount >= Cardinality(Pending(e.responseSet))
<1> DEFINE P == Pending(e.responseSet)
<1>1. P \subseteq Resources
  BY DEF Entries, Pending
<1> HIDE DEF P
<1>2. P \subseteq P \cup owed /\ P \cup owed \subseteq Resources /\ owed \cap P \cap A \subseteq Resources
  BY <1>1
<1>3. Cardinality(P) <= Cardinality(P \cup owed)
  BY <1>1, <1>2, Sizes
<1>4. Cardinality(P) \in Nat /\ Cardinality(P \cup owed) \in Nat /\ Cardinality(owed \cap P \cap A) \in Nat
  BY <1>1, <1>2, Finite
<1>5. e.pendingResponseCount \in Int
  BY DEF Entries
<1>6. e.pendingResponseCount >= Cardinality(P \cup owed) + Cardinality(owed \cap P \cap A)
  BY DEF Counts, P
<1> QED BY <1>1, <1>3, <1>4, <1>5, <1>6 DEF P

\* What is taken off the count of P and O by the responses N.
LEMMA SizesAfter ==
  ASSUME NEW P, NEW O, NEW A, NEW B, NEW N, P \subseteq Resources, O \subseteq Resources,
         N \subseteq P, B \subseteq A, N \cap O \subseteq A \ B
  PROVE  Cardinality((P \ N) \cup O) + Cardinality(O \cap (P \ N) \cap B)
           <= Cardinality(P \cup O) + Cardinality(O \cap P \cap A) - Cardinality(N)
<1> DEFINE inside == N \cap O
           outside == N \ O
           U == P \cup O
           Q == O \cap P \cap A
           R == O \cap (P \ N) \cap B
<1>1. U \subseteq Resources /\ Q \subseteq Resources /\ R \subseteq Resources
      /\ inside \subseteq Resources /\ outside \subseteq Resources /\ N \subseteq Resources
  OBVIOUS
<1>2. (P \ N) \cup O = U \ outside /\ outside \subseteq U
  OBVIOUS
<1>3. Cardinality(U \ outside) = Cardinality(U) - Cardinality(outside)
  <2> HIDE DEF U, outside
  <2> QED BY <1>1, <1>2, Sizes
<1>4. inside \subseteq Q /\ R \subseteq Q \ inside /\ Q \ inside \subseteq Resources
  OBVIOUS
<1>5. Cardinality(Q \ inside) = Cardinality(Q) - Cardinality(inside)
  <2> HIDE DEF Q, inside
  <2> QED BY <1>1, <1>4, Sizes
<1>6. Cardinality(R) <= Cardinality(Q \ inside)
  <2> HIDE DEF R, Q, inside
  <2> QED BY <1>1, <1>4, Sizes
<1>7. N = inside \cup outside /\ inside \cap outside = {}
  OBVIOUS
<1>8. Cardinality(N) = Cardinality(inside) + Cardinality(outside)
  <2>1. Cardinality(inside \cup outside) = Cardinality(inside) + Cardinality(outside) - Cardinality(inside \cap outside)
    <3> HIDE DEF inside, outside
    <3> QED BY <1>1, Sizes
  <2>2. Cardinality(inside \cap outside) = 0
    BY <1>7, FS_EmptySet
  <2>3. Cardinality(inside) \in Nat /\ Cardinality(outside) \in Nat
    BY <1>1, Finite
  <2> HIDE DEF inside, outside
  <2> QED BY <1>7, <2>1, <2>2, <2>3
<1>9. /\ Cardinality(U) \in Nat /\ Cardinality(Q) \in Nat /\ Cardinality(R) \in Nat
      /\ Cardinality(inside) \in Nat /\ Cardinality(outside) \in Nat /\ Cardinality(Q \ inside) \in Nat
  <2> HIDE DEF U, Q, R, inside, outside
  <2> QED BY <1>1, <1>4, Finite
<1>10. Cardinality(U \ outside) + Cardinality(R) <= Cardinality(U) + Cardinality(Q) - Cardinality(N)
  <2> HIDE DEF U, Q, R, inside, outside
  <2> QED BY <1>3, <1>5, <1>6, <1>8, <1>9
<1> QED BY <1>2, <1>10

\* A count that covers the entry's resources covers them after responses.
LEMMA CountsAfter ==
  ASSUME NEW x \in Entries, NEW e \in Entries, NEW N, NEW O, NEW A, NEW B,
         Counts(x, O, A), O \subseteq Resources, B \subseteq A,
         N \subseteq Pending(x.responseSet), N \cap O \subseteq A \ B,
         Pending(e.responseSet) = Pending(x.responseSet) \ N,
         e.pendingResponseCount = x.pendingResponseCount - Cardinality(N)
  PROVE  Counts(e, O, B)
<1> DEFINE P == Pending(x.responseSet)
           P2 == Pending(e.responseSet)
<1>1. P \subseteq Resources /\ P2 = P \ N /\ N \subseteq P
  BY DEF Entries, Pending
<1>2. x.pendingResponseCount >= Cardinality(P \cup O) + Cardinality(O \cap P \cap A)
  BY DEF Counts
<1>3. x.pendingResponseCount \in Int
  BY DEF Entries
<1> HIDE DEF P, P2
<1>4. Cardinality(P2 \cup O) + Cardinality(O \cap P2 \cap B)
        <= Cardinality(P \cup O) + Cardinality(O \cap P \cap A) - Cardinality(N)
  BY <1>1, SizesAfter
<1>5. /\ P2 \cup O \subseteq Resources /\ O \cap P2 \cap B \subseteq Resources
      /\ P \cup O \subseteq Resources /\ O \cap P \cap A \subseteq Resources /\ N \subseteq Resources
  BY <1>1
<1>6. /\ Cardinality(P2 \cup O) \in Nat /\ Cardinality(O \cap P2 \cap B) \in Nat
      /\ Cardinality(P \cup O) \in Nat /\ Cardinality(O \cap P \cap A) \in Nat /\ Cardinality(N) \in Nat
  BY <1>5, Finite
<1>7. e.pendingResponseCount >= Cardinality(P2 \cup O) + Cardinality(O \cap P2 \cap B)
  BY <1>2, <1>3, <1>4, <1>6
<1> QED BY <1>7 DEF Counts, P2

\* Responses keep the invariant, from whoever they come.
LEMMA Responds ==
  ASSUME IInv, Open, NEW D, NEW resps \in [D -> {"client", "remote", "failed"}], response(entry, resps),
         RestInv', changed' = changed, registered' = registered, emitting' = emitting,
         otherIsReady' = otherIsReady, fwd'.at # "idle",
         Owed' = Owed, Listed' = Listed, fwd'.at \in {"select", "lookup"} => fwd'.at = fwd.at,
         asked' \subseteq asked, D \cap Owed \subseteq asked \ asked'
  PROVE  IInv'
<1> DEFINE new == D \cap Pending(entry.responseSet)
<1>0. TypeOK /\ EntryInv /\ RestInv
  BY EntryHolds, RestHolds DEF IInv
<1>1. PICK e : /\ Responded(new, e)
               /\ \/ Keep(e)
                  \/ e.isReady /\ e.pendingResponseCount = 0 /\ finish(e, FALSE)
  BY <1>0, ResponseEntry
<1>2. e \in Entries /\ e.isReady = entry.isReady /\ DOMAIN e.responseSet = DOMAIN entry.responseSet
      /\ e.pendingResponseCount = entry.pendingResponseCount - Cardinality(new)
      /\ Pending(e.responseSet) = Pending(entry.responseSet) \ new
  BY <1>1 DEF Responded
<1>3. Owed \subseteq Resources /\ Pending(entry.responseSet) \subseteq Resources /\ new \subseteq Resources
  BY <1>0, OpenEntry DEF Owed, RestInv
<1>4. Counts(e, Owed, asked')
  <2>1. new \subseteq Pending(entry.responseSet) /\ new \cap Owed \subseteq asked \ asked'
    OBVIOUS
  <2>2. Counts(entry, Owed, asked) /\ entry \in Entries
    BY <1>0 DEF EntryInv
  <2> HIDE DEF new
  <2> QED BY <1>2, <1>3, <2>1, <2>2, CountsAfter
<1>5. ~changed => e.pendingResponseCount = Cardinality(Pending(e.responseSet))
  <2>1. new \subseteq Pending(entry.responseSet)
    OBVIOUS
  <2> HIDE DEF new
  <2>2. Cardinality(Pending(entry.responseSet) \ new) = Cardinality(Pending(entry.responseSet)) - Cardinality(new)
    BY <1>3, <2>1, Sizes
  <2> QED BY <1>0, <1>2, <2>2 DEF EntryInv
<1>6. CASE Keep(e)
  <2>1. EntryInv'
    <3> HIDE DEF new
    <3> QED BY <1>0, <1>2, <1>4, <1>5, <1>6 DEF Keep, EntryInv, Listed
  <2> QED BY <1>6, <2>1, StaysOpen DEF Keep
<1>7. CASE e.isReady /\ e.pendingResponseCount = 0 /\ finish(e, FALSE)
  <2>1. Pending(e.responseSet) = {}
    BY <1>2, <1>3, <1>4, <1>7, CountsCover, Empty
  <2>2. ~changed => DOMAIN e.responseSet = Resources
    BY <1>0, <1>2, <1>7 DEF EntryInv, RestInv
  <2>3. Answered
    BY <1>2, <1>7, <2>1, <2>2, Finishes
  <2> QED BY <2>3, IsGone
<1> QED BY <1>1, <1>6, <1>7

\* What a promise lists.
LEMMA Lists ==
  ASSUME TypeOK, Open, NEW S, S \subseteq Resources, NEW e,
         e = [entry EXCEPT !.pendingResponseCount = @ + Cardinality(S),
                           !.responseSet = [r \in DOMAIN @ \cup S |-> IF r \in S THEN "pending" ELSE @[r]]]
  PROVE  /\ e \in Entries /\ e.isReady = entry.isReady
         /\ DOMAIN e.responseSet = DOMAIN entry.responseSet \cup S
         /\ Pending(e.responseSet) = Pending(entry.responseSet) \cup S
         /\ e.pendingResponseCount = entry.pendingResponseCount + Cardinality(S)
<1> DEFINE D == DOMAIN entry.responseSet
           set == [r \in D \cup S |-> IF r \in S THEN "pending" ELSE entry.responseSet[r]]
           c == entry.pendingResponseCount + Cardinality(S)
<1>1. PICK T \in SUBSET Resources : entry.responseSet \in [T -> Outcomes]
  BY OpenEntry DEF ResponseSets
<1>2. set \in [D \cup S -> Outcomes] /\ D \cup S \subseteq Resources
  BY <1>1 DEF Outcomes
<1>3. set \in ResponseSets
  <2> HIDE DEF set, D
  <2> QED BY <1>2, SetType
<1>4. c \in Int
  BY Finite, OpenEntry
<1>5. Pending(set) = Pending(entry.responseSet) \cup S
  BY <1>1 DEF Pending
<1>6. e = [entry EXCEPT !.pendingResponseCount = c, !.responseSet = set]
  <2>1. entry \in Entries
    BY OpenEntry
  <2> QED BY <2>1 DEF Entries
<1>7. e \in Entries /\ e.isReady = entry.isReady /\ e.responseSet = set /\ e.pendingResponseCount = c
  <2> HIDE DEF set, c
  <2>1. entry \in Entries
    BY OpenEntry
  <2>2. e = [at |-> entry.at, get |-> entry.get, isReady |-> entry.isReady, pendingResponseCount |-> c,
             responseSet |-> set, updateBatch |-> entry.updateBatch]
    BY <1>6, <2>1 DEF Entries
  <2>3. entry.at = "open" /\ entry.get \in BOOLEAN /\ entry.isReady \in BOOLEAN
        /\ entry.updateBatch \in Batches
    BY <2>1 DEF Entries, Batches
  <2>4. e \in [at : {"open"}, get : BOOLEAN, isReady : BOOLEAN, pendingResponseCount : Int,
               responseSet : ResponseSets, updateBatch : Batches]
    BY ONLY <1>3, <1>4, <2>2, <2>3
  <2>5. e.isReady = entry.isReady /\ e.responseSet = set /\ e.pendingResponseCount = c
    BY ONLY <2>2
  <2> QED BY <2>4, <2>5 DEF Entries, ResponseSets, Batches
<1> QED BY <1>2, <1>5, <1>7

\* The forwarding promise lists resources that are not listed, and owes them.
LEMMA CountsForwarded ==
  ASSUME NEW x \in Entries, NEW e \in Entries, NEW N, NEW A,
         Counts(x, {}, A), N \subseteq Resources, N \cap A = {},
         Pending(e.responseSet) = Pending(x.responseSet) \cup N,
         e.pendingResponseCount = x.pendingResponseCount + Cardinality(N)
  PROVE  Counts(e, N, A)
<1> DEFINE P == Pending(x.responseSet)
           P2 == Pending(e.responseSet)
<1>1. P \subseteq Resources /\ P2 = P \cup N
  BY DEF Entries, Pending
<1>2. x.pendingResponseCount >= Cardinality(P)
  BY CountsCover DEF P
<1>3. x.pendingResponseCount \in Int
  BY DEF Entries
<1> HIDE DEF P, P2
<1>4. P2 \cup N = P \cup N /\ N \cap P2 \cap A = {} /\ P \cap N \subseteq Resources
  BY <1>1
<1>5. Cardinality(P \cup N) = Cardinality(P) + Cardinality(N) - Cardinality(P \cap N)
  BY <1>1, Sizes
<1>6. Cardinality(P) \in Nat /\ Cardinality(N) \in Nat /\ Cardinality(P \cap N) \in Nat
  BY <1>1, <1>4, Finite
<1>7. Cardinality(N \cap P2 \cap A) = 0
  BY <1>4, FS_EmptySet
<1>8. e.pendingResponseCount >= Cardinality(P2 \cup N) + Cardinality(N \cap P2 \cap A)
  <2>1. Cardinality(P2 \cup N) = Cardinality(P \cup N)
    BY <1>4, Zenon
  <2> QED BY <1>2, <1>3, <1>5, <1>6, <1>7, <2>1
<1> QED BY <1>8 DEF Counts, P2

\* The emitting promise lists S and asks for S.
LEMMA CountsEmitted ==
  ASSUME NEW x \in Entries, NEW e \in Entries, NEW O, NEW S,
         Counts(x, O, {}), O \subseteq Resources, S \subseteq Resources,
         Pending(e.responseSet) = Pending(x.responseSet) \cup S,
         e.pendingResponseCount = x.pendingResponseCount + Cardinality(S)
  PROVE  Counts(e, O, S)
<1> DEFINE P == Pending(x.responseSet)
           P2 == Pending(e.responseSet)
           U == P \cup O
<1>1. P \subseteq Resources /\ P2 = P \cup S
  BY DEF Entries, Pending
<1>2. x.pendingResponseCount >= Cardinality(U)
  <2>1. x.pendingResponseCount >= Cardinality(P \cup O) + Cardinality(O \cap P \cap {})
    BY DEF Counts
  <2>2. O \cap P \cap {} = {} /\ P \cup O \subseteq Resources
    BY <1>1
  <2>3. Cardinality(O \cap P \cap {}) = 0
    BY <2>2, FS_EmptySet
  <2>4. Cardinality(P \cup O) \in Nat
    BY <2>2, Finite
  <2> QED BY <2>1, <2>3, <2>4
<1>3. x.pendingResponseCount \in Int
  BY DEF Entries
<1> HIDE DEF P, P2
<1>4. P2 \cup O = U \cup S /\ O \cap P2 \cap S \subseteq U \cap S /\ U \subseteq Resources
  BY <1>1
<1> HIDE DEF U
<1>5. Cardinality(U \cup S) = Cardinality(U) + Cardinality(S) - Cardinality(U \cap S)
  BY <1>4, Sizes
<1>6. U \cap S \subseteq Resources /\ O \cap P2 \cap S \subseteq Resources
  BY <1>4
<1>7. Cardinality(O \cap P2 \cap S) <= Cardinality(U \cap S)
  BY <1>4, <1>6, Sizes
<1>8. /\ Cardinality(U) \in Nat /\ Cardinality(S) \in Nat /\ Cardinality(U \cap S) \in Nat
      /\ Cardinality(O \cap P2 \cap S) \in Nat
  BY <1>4, <1>6, Finite
<1>9. e.pendingResponseCount >= Cardinality(P2 \cup O) + Cardinality(O \cap P2 \cap S)
  <2>1. Cardinality(P2 \cup O) = Cardinality(U \cup S)
    BY <1>4, Zenon
  <2> QED BY <1>2, <1>3, <1>5, <1>7, <1>8, <2>1
<1> QED BY <1>9 DEF Counts, P2

\* What is struck off was owed.
LEMMA CountsStruckOff ==
  ASSUME NEW x \in Entries, NEW e \in Entries, NEW O, NEW A, NEW T,
         Counts(x, O, A), O \subseteq Resources, T \subseteq O,
         Pending(e.responseSet) = Pending(x.responseSet) \ T,
         e.pendingResponseCount = x.pendingResponseCount - Cardinality(T)
  PROVE  Counts(e, {}, A)
<1> DEFINE P == Pending(x.responseSet)
           P2 == Pending(e.responseSet)
           U == P \cup O
<1>1. P \subseteq Resources /\ P2 = P \ T
  BY DEF Entries, Pending
<1>2. x.pendingResponseCount >= Cardinality(U) + Cardinality(O \cap P \cap A)
  BY DEF Counts
<1>3. x.pendingResponseCount \in Int
  BY DEF Entries
<1> HIDE DEF P, P2
<1>4. T \subseteq U /\ P2 \subseteq U \ T /\ U \subseteq Resources /\ U \ T \subseteq Resources
      /\ O \cap P \cap A \subseteq Resources /\ T \subseteq Resources
  BY <1>1
<1> HIDE DEF U
<1>5. Cardinality(U \ T) = Cardinality(U) - Cardinality(T)
  BY <1>4, Sizes
<1>6. P2 \subseteq Resources /\ Cardinality(P2) <= Cardinality(U \ T)
  BY <1>4, Sizes
<1>7. /\ Cardinality(U) \in Nat /\ Cardinality(T) \in Nat /\ Cardinality(P2) \in Nat
      /\ Cardinality(O \cap P \cap A) \in Nat
  BY <1>4, <1>6, Finite
<1>8. P2 \cup {} = P2 /\ {} \cap P2 \cap A = {}
  OBVIOUS
<1>9. Cardinality({} \cap P2 \cap A) = 0
  BY <1>8, FS_EmptySet
<1>10. e.pendingResponseCount >= Cardinality(P2 \cup {}) + Cardinality({} \cap P2 \cap A)
  BY <1>2, <1>3, <1>5, <1>6, <1>7, <1>8, <1>9
<1> QED BY <1>10 DEF Counts, P2

-----------------------------------------------------------------------------
(* The steps *)

\* The invariant holds at first.
LEMMA InitIInv == Init => IInv
<1> SUFFICES ASSUME Init PROVE IInv
  OBVIOUS
<1>1. answers = <<>> /\ answers \in Seq(Answers) /\ Len(answers) = 0 /\ DOMAIN answers = {}
  BY DEF Init
<1>2. AnswersInv
  BY <1>1 DEF AnswersInv, AnsweredOnce, CompleteUnlessTimedOut, AnswerCoversSelection
<1>3. TypeOK
  BY <1>1 DEF Init, TypeOK
<1> QED
  BY <1>1, <1>2, <1>3
  DEF Init, IInv, Life, Open, TimeoutFindsEntry, AskedAreListed, Counted, ReadyInv, Split

\* The request arrives.
LEMMA RequestStep ==
  ASSUME IInv, NEW get \in BOOLEAN, Request(get)
  PROVE  IInv'
<1>1. RestInv /\ answers = <<>> /\ ~Open
  BY RestHolds DEF Request, IInv, Life
<1>2. RestInv'
  BY <1>1 DEF Request, RestInv
<1>3. entry' = NewEntry(get) /\ Pending(Nothing) = {} /\ Nothing \in ResponseSets /\ DOMAIN Nothing = {}
  BY NothingIsASet DEF Request
<1>4. entry' \in Entries /\ entry'.responseSet = Nothing /\ entry'.pendingResponseCount = 0 /\ ~entry'.isReady
  BY <1>3 DEF NewEntry, Entries, ResponseSets
<1>5. entry' # NoEntry
  BY <1>4 DEF Entries, NoEntry
<1>6. EntryInv'
  <2>1. Cardinality({}) = 0 /\ asked' = {} /\ fwd'.at = "select" /\ emitting' = "select" /\ ~otherIsReady'
    BY <1>1, FS_EmptySet DEF RestInv, Request
  <2>2. Counts(entry', {}, {})
    <3>1. Pending(entry'.responseSet) \cup {} = {} /\ {} \cap Pending(entry'.responseSet) \cap {} = {}
      BY <1>3, <1>4
    <3>2. Cardinality(Pending(entry'.responseSet) \cup {}) = 0
          /\ Cardinality({} \cap Pending(entry'.responseSet) \cap {}) = 0
      BY <2>1, <3>1, Zenon
    <3> QED BY <1>4, <3>2 DEF Counts
  <2>3. Owed' = {}
    BY <2>1 DEF Owed
  <2>4. Pending(entry'.responseSet) = {} /\ DOMAIN entry'.responseSet = {}
    BY <1>3, <1>4
  <2>5. Cardinality(Pending(entry'.responseSet)) = 0
    BY <2>1, <2>4, Zenon
  <2>6. Counts(entry', Owed', asked')
    BY <2>1, <2>2, <2>3, Zenon
  <2> QED BY <1>4, <2>1, <2>4, <2>5, <2>6 DEF EntryInv, Listed
<1>7. AnswersInv'
  BY DEF Request, IInv, AnswersInv, AnsweredOnce, CompleteUnlessTimedOut, AnswerCoversSelection
<1>8. TypeOK'
  BY <1>2, <1>4 DEF IInv, TypeOK, RestInv, Request
<1>9. Life'
  BY <1>1, <1>5 DEF Request, Life, TimeoutFindsEntry
<1> QED
  BY <1>2, <1>5, <1>6, <1>7, <1>8, <1>9
  DEF IInv, RestInv, EntryInv, AskedAreListed, Counted, ReadyInv, Split, Open

\* The request is refused.
LEMMA RefusedStep ==
  ASSUME IInv, RequestRefused
  PROVE  IInv'
<1>1. RestInv /\ answers = <<>> /\ ~Open
  BY RestHolds DEF RequestRefused, IInv, Life
<1>2. RestInv'
  BY <1>1 DEF RequestRefused, RestInv
<1>3. AnswersInv'
  <2> DEFINE a == [status |-> 400, timedOut |-> FALSE, responseSet |-> Nothing]
  <2>1. Nothing \in ResponseSets /\ Pending(Nothing) = {}
    BY NothingIsASet
  <2>2. a \in Answers
    BY <2>1 DEF Answers, ResponseSets
  <2>3. answers' = Append(answers, a) /\ changed' = changed
    BY DEF RequestRefused
  <2> QED BY <1>1, <2>1, <2>2, <2>3, OneAnswer
<1>4. Answered
  BY <1>1, <1>3 DEF Answered, RequestRefused, Open, IInv, Life, TimeoutFindsEntry, TypeOK
<1> QED
  BY <1>2, <1>4, IsGone DEF RequestRefused, RestInv

\* The timeout.
LEMMA FanoutTimeoutStep ==
  ASSUME IInv, Timeout
  PROVE  IInv'
<1>1. RestInv /\ Open /\ fwd.at # "idle"
  BY RestHolds DEF Timeout, Open, IInv, Life
<1>2. RestInv' /\ fwd'.at # "idle"
  BY <1>1 DEF Timeout, RestInv
<1>3. Answered
  BY <1>1, OpenEntry, Finishes DEF Timeout, IInv
<1> QED BY <1>2, <1>3, IsGone

\* The forwarding promise evaluates the selection.
LEMMA ForwardSelectsStep ==
  ASSUME IInv, ForwardSelects
  PROVE  IInv'
<1>1. RestInv
  BY RestHolds
<1>2. RestInv' /\ fwd'.at = "lookup"
  BY <1>1 DEF ForwardSelects, RestInv
<1>3. CASE ~Open
  <2>1. Answered
    BY <1>3, StaysGone DEF ForwardSelects
  <2> QED BY <1>2, <2>1, IsGone
<1>4. CASE Open
  <2>1. EntryInv
    BY <1>4, EntryHolds
  <2>2. EntryInv'
    BY <1>2, <2>1 DEF EntryInv, ForwardSelects, Owed, Listed
  <2> QED BY <1>2, <1>4, <2>2, StaysOpen DEF ForwardSelects
<1> QED BY <1>3, <1>4

\* The forwarding promise lists what no local client controls.
LEMMA ForwardListsStep ==
  ASSUME IInv, ForwardLists
  PROVE  IInv'
<1>1. RestInv /\ fwd.at = "lookup"
  BY RestHolds DEF ForwardLists
<1>2. CASE ~Open
  <2>1. fwd' = [at |-> "done", set |-> {}] /\ UNCHANGED <<entry, timer, answers, cached, changed>>
    BY <1>2 DEF ForwardLists, Open
  <2>2. RestInv'
    BY <1>1, <2>1 DEF ForwardLists, RestInv
  <2>3. Answered
    BY <1>2, <2>1, StaysGone
  <2> QED BY <2>1, <2>2, <2>3, IsGone
<1>3. CASE Open
  <2> DEFINE new == fwd.set \ DOMAIN entry.responseSet
             e == [entry EXCEPT !.pendingResponseCount = @ + Cardinality(new),
                                !.responseSet = [r \in DOMAIN @ \cup new |-> IF r \in new THEN "pending" ELSE @[r]]]
  <2>1. EntryInv /\ entry \in Entries /\ new \subseteq Resources /\ TypeOK
    BY <1>1, <1>3, EntryHolds, OpenEntry DEF RestInv, IInv
  <2>2. /\ e \in Entries /\ e.isReady = entry.isReady
        /\ DOMAIN e.responseSet = DOMAIN entry.responseSet \cup new
        /\ Pending(e.responseSet) = Pending(entry.responseSet) \cup new
        /\ e.pendingResponseCount = entry.pendingResponseCount + Cardinality(new)
    <3> HIDE DEF new
    <3> QED BY <1>3, <2>1, Lists
  <2>3. /\ fwd' = [at |-> IF new # {} THEN "owners" ELSE "done", set |-> new]
        /\ otherIsReady'
        /\ IF otherIsReady THEN ready(e) ELSE Keep(e)
        /\ UNCHANGED <<registered, emitting, asked, changed>>
    BY <1>3 DEF ForwardLists, Open
  <2>4. RestInv'
    BY <1>1, <2>1, <2>3 DEF RestInv
  <2>5. Owed' = new /\ Listed' /\ fwd'.at \notin {"idle", "select", "lookup"}
    BY <2>3 DEF Owed, Listed
  <2>6. Counts(e, new, asked)
    <3>1. Owed = {} /\ new \cap asked = {}
      BY <1>1, <2>1 DEF Owed, EntryInv
    <3>2. Counts(entry, {}, asked)
      BY <2>1, <3>1, Zenon DEF EntryInv
    <3> HIDE DEF new, e
    <3> QED BY <2>1, <2>2, <3>1, <3>2, CountsForwarded
  <2>7. ASSUME ~changed
        PROVE  /\ e.pendingResponseCount = Cardinality(Pending(e.responseSet))
               /\ DOMAIN e.responseSet = (Resources \ registered) \cup (IF emitting = "done" THEN registered ELSE {})
    <3>1. /\ fwd.set = Resources \ registered
          /\ DOMAIN entry.responseSet = IF emitting = "done" THEN registered ELSE {}
          /\ entry.pendingResponseCount = Cardinality(Pending(entry.responseSet))
      BY <1>1, <2>1, <2>7 DEF EntryInv, RestInv, Listed
    <3>2. new = Resources \ registered
      BY <1>1, <3>1 DEF RestInv
    <3>3. Pending(entry.responseSet) \cap new = {} /\ Pending(entry.responseSet) \subseteq Resources
      BY <1>3, <2>1, OpenEntry
    <3>4. Cardinality(Pending(entry.responseSet) \cup new)
            = Cardinality(Pending(entry.responseSet)) + Cardinality(new) - 0
      <4>1. Cardinality(Pending(entry.responseSet) \cap new) = 0
        BY <3>3, FS_EmptySet
      <4> HIDE DEF new
      <4> QED BY <2>1, <3>3, <4>1, Sizes
    <3>5. Cardinality(new) \in Nat /\ Cardinality(Pending(entry.responseSet)) \in Nat
      BY <2>1, <3>3, Finite
    <3>6. Cardinality(Pending(e.responseSet)) = Cardinality(Pending(entry.responseSet) \cup new)
      BY <2>2, Zenon
    <3>7. e.pendingResponseCount = Cardinality(Pending(e.responseSet))
      <4> HIDE DEF new, e
      <4> QED BY <2>2, <3>1, <3>4, <3>5, <3>6
    <3> HIDE DEF e, new
    <3> QED BY <2>2, <3>1, <3>2, <3>7
  <2> HIDE DEF e, new
  <2>8. e.pendingResponseCount >= Cardinality(Pending(e.responseSet))
    BY <2>1, <2>2, <2>6, CountsCover
  <2>9. ~otherIsReady \/ emitting = "done"
    BY <1>1, <2>1 DEF EntryInv, Listed
  <2>10. ~entry.isReady
    BY <1>1, <2>1 DEF EntryInv, Listed
  <2>11. CASE otherIsReady
    <3>1. ~changed => DOMAIN e.responseSet = Resources
      BY <1>1, <2>7, <2>9, <2>11 DEF RestInv
    <3>2. Answered \/ Keep([e EXCEPT !.isReady = TRUE])
      BY <1>3, <2>2, <2>3, <2>8, <2>11, <3>1, Readies
    <3>3. CASE Answered
      BY <2>4, <2>5, <3>3, IsGone
    <3>4. CASE Keep([e EXCEPT !.isReady = TRUE])
      <4>1. /\ entry' \in Entries
            /\ entry'.responseSet = e.responseSet /\ entry'.pendingResponseCount = e.pendingResponseCount
        BY <2>2, <3>4, EntryReady DEF Keep
      <4>2. Counts(entry', Owed', asked')
        BY <2>3, <2>5, <2>6, <4>1 DEF Counts
      <4>3. EntryInv'
        BY <2>3, <2>5, <2>7, <2>9, <2>11, <4>1, <4>2 DEF EntryInv
      <4> QED BY <1>3, <2>3, <2>4, <2>5, <3>4, <4>3, StaysOpen DEF Keep
    <3> QED BY <3>2, <3>3, <3>4
  <2>12. CASE ~otherIsReady
    <3>1. entry' = e /\ UNCHANGED <<answers, timer, cached>>
      BY <2>3, <2>12 DEF Keep
    <3>2. Counts(entry', Owed', asked')
      BY <2>3, <2>5, <2>6, <3>1
    <3>3. EntryInv'
      BY <2>2, <2>3, <2>5, <2>7, <2>10, <3>1, <3>2 DEF EntryInv
    <3> QED BY <1>3, <2>3, <2>4, <2>5, <3>1, <3>3, StaysOpen
  <2> QED BY <2>11, <2>12
<1> QED BY <1>2, <1>3

\* What is left of an entry when the resources T are struck off.
LEMMA StruckOff ==
  ASSUME TypeOK, Open, NEW T, T \subseteq Resources, NEW e,
         e = [entry EXCEPT !.responseSet = Restrict(@, DOMAIN @ \ T), !.pendingResponseCount = @ - Cardinality(T)]
  PROVE  /\ e \in Entries /\ e.isReady = entry.isReady
         /\ DOMAIN e.responseSet = DOMAIN entry.responseSet \ T
         /\ Pending(e.responseSet) = Pending(entry.responseSet) \ T
         /\ e.pendingResponseCount = entry.pendingResponseCount - Cardinality(T)
<1> DEFINE D == DOMAIN entry.responseSet
           set == Restrict(entry.responseSet, D \ T)
           c == entry.pendingResponseCount - Cardinality(T)
<1>1. PICK S \in SUBSET Resources : entry.responseSet \in [S -> Outcomes]
  BY OpenEntry DEF ResponseSets
<1>2. set \in [D \ T -> Outcomes] /\ D \ T \subseteq Resources
  BY <1>1 DEF Restrict
<1>3. set \in ResponseSets
  <2> HIDE DEF set, D
  <2> QED BY <1>2, SetType
<1>4. c \in Int
  BY Finite, OpenEntry
<1>5. Pending(set) = Pending(entry.responseSet) \ T
  BY <1>1 DEF Pending, Restrict
<1>6. e = [entry EXCEPT !.responseSet = set, !.pendingResponseCount = c]
  <2>1. entry \in Entries
    BY OpenEntry
  <2> QED BY <2>1 DEF Entries
<1>7. e \in Entries /\ e.isReady = entry.isReady /\ e.responseSet = set /\ e.pendingResponseCount = c
  <2> HIDE DEF set, c
  <2>1. entry \in Entries
    BY OpenEntry
  <2>2. e = [at |-> entry.at, get |-> entry.get, isReady |-> entry.isReady, pendingResponseCount |-> c,
             responseSet |-> set, updateBatch |-> entry.updateBatch]
    BY <1>6, <2>1 DEF Entries
  <2>3. entry.at = "open" /\ entry.get \in BOOLEAN /\ entry.isReady \in BOOLEAN
        /\ entry.updateBatch \in Batches
    BY <2>1 DEF Entries, Batches
  <2>4. e \in [at : {"open"}, get : BOOLEAN, isReady : BOOLEAN, pendingResponseCount : Int,
               responseSet : ResponseSets, updateBatch : Batches]
    BY ONLY <1>3, <1>4, <2>2, <2>3
  <2>5. e.isReady = entry.isReady /\ e.responseSet = set /\ e.pendingResponseCount = c
    BY ONLY <2>2
  <2> QED BY <2>4, <2>5 DEF Entries, ResponseSets, Batches
<1> QED BY <1>2, <1>5, <1>7

\* The owners are read.
LEMMA OwnersReadStep ==
  ASSUME IInv, NEW taken \in SUBSET Resources, NEW remote \in SUBSET Resources, OwnersRead(taken, remote)
  PROVE  IInv'
<1>1. RestInv /\ fwd.at = "owners" /\ taken \subseteq fwd.set \cap registered /\ remote \subseteq fwd.set
  BY RestHolds DEF OwnersRead
<1>2. /\ fwd'.at \in {"sent", "done"} /\ fwd'.set = remote
      /\ fwd' \in [at : {"sent", "done"}, set : SUBSET Resources]
      /\ UNCHANGED <<registered, emitting, otherIsReady, asked, changed>>
  <2>1. fwd' = [at |-> "sent", set |-> remote] \/ fwd' = [at |-> "done", set |-> remote]
    <3>1. CASE entry = NoEntry
      BY <3>1, Zenon DEF OwnersRead
    <3>2. CASE entry # NoEntry
      BY <3>2, Zenon DEF OwnersRead
    <3> QED BY <3>1, <3>2
  <2>2. UNCHANGED <<registered, emitting, otherIsReady, asked, changed>>
    BY Zenon DEF OwnersRead
  <2> QED BY <2>1, <2>2
<1>3. RestInv'
  BY <1>1, <1>2 DEF RestInv
<1>4. CASE ~Open
  <2>1. Answered
    BY <1>4, StaysGone DEF OwnersRead, Open
  <2> QED BY <1>2, <1>3, <2>1, IsGone
<1>5. CASE Open
  <2> DEFINE e == [entry EXCEPT !.responseSet = Restrict(@, DOMAIN @ \ taken),
                                !.pendingResponseCount = @ - Cardinality(taken)]
  <2>1. EntryInv /\ entry \in Entries /\ TypeOK
    BY <1>5, EntryHolds, OpenEntry DEF IInv
  <2>2. /\ e \in Entries /\ e.isReady = entry.isReady
        /\ DOMAIN e.responseSet = DOMAIN entry.responseSet \ taken
        /\ Pending(e.responseSet) = Pending(entry.responseSet) \ taken
        /\ e.pendingResponseCount = entry.pendingResponseCount - Cardinality(taken)
    BY <1>5, <2>1, StruckOff
  <2>3. IF taken # {} /\ e.pendingResponseCount = 0 THEN finish(e, FALSE) ELSE Keep(e)
    BY <1>5 DEF OwnersRead, Open
  <2> HIDE DEF e
  <2>4. Owed = fwd.set /\ Owed' = {} /\ Listed /\ Listed'
    BY <1>1, <1>2 DEF Owed, Listed
  <2>5. Counts(e, {}, asked)
    <3>1. Counts(entry, Owed, asked) /\ Owed \subseteq Resources /\ taken \subseteq Owed
      BY <1>1, <2>1, <2>4 DEF EntryInv, RestInv
    <3> QED BY <2>1, <2>2, <3>1, CountsStruckOff
  <2>6. ~changed => taken = {}
    BY <1>1 DEF RestInv
  <2>7. CASE finish(e, FALSE) /\ taken # {} /\ e.pendingResponseCount = 0
    <3>1. Pending(e.responseSet) = {}
      BY <2>2, <2>5, <2>7, CountsCover, Empty
    <3>2. Answered
      BY <1>2, <1>5, <2>2, <2>6, <2>7, <3>1, Finishes
    <3> QED BY <1>2, <1>3, <3>2, IsGone
  <2>8. CASE Keep(e)
    <3>1. ASSUME ~changed
          PROVE  /\ e.pendingResponseCount = Cardinality(Pending(e.responseSet))
                 /\ DOMAIN e.responseSet = DOMAIN entry.responseSet
      <4>1. Cardinality(taken) = 0
        BY <2>6, <3>1, FS_EmptySet
      <4>2. Pending(e.responseSet) = Pending(entry.responseSet) /\ DOMAIN e.responseSet = DOMAIN entry.responseSet
        BY <2>2, <2>6, <3>1
      <4>3. e.pendingResponseCount = entry.pendingResponseCount
        BY <2>1, <2>2, <4>1, OpenEntry, <1>5
      <4>4. Cardinality(Pending(e.responseSet)) = Cardinality(Pending(entry.responseSet))
        BY <4>2, Zenon
      <4> QED BY <2>1, <3>1, <4>2, <4>3, <4>4 DEF EntryInv
    <3>2. Counts(entry', Owed', asked')
      BY <1>2, <2>4, <2>5, <2>8, Zenon DEF Keep
    <3>3. EntryInv'
      BY <1>2, <2>1, <2>2, <2>4, <2>8, <3>1, <3>2 DEF EntryInv, Keep
    <3> QED BY <1>2, <1>3, <1>5, <2>8, <3>3, StaysOpen DEF Keep
  <2> QED BY <2>3, <2>7, <2>8
<1> QED BY <1>4, <1>5

\* The owners' servers answer.
LEMMA ForwardRespondsStep ==
  ASSUME IInv, NEW S \in SUBSET fwd.set, NEW resps \in [S -> {"remote", "failed"}], ForwardResponds(resps)
  PROVE  IInv'
<1>1. RestInv /\ fwd.at = "sent"
  BY RestHolds DEF ForwardResponds
<1>2. fwd' = [fwd EXCEPT !.at = "done"] /\ UNCHANGED <<registered, emitting, otherIsReady, asked, changed>>
  BY DEF ForwardResponds
<1>3. RestInv' /\ fwd'.at = "done"
  BY <1>1, <1>2 DEF RestInv
<1>4. CASE ~Open
  <2>1. Answered
    BY <1>2, <1>4, StaysGone DEF ForwardResponds, Open
  <2> QED BY <1>3, <2>1, IsGone
<1>5. CASE Open
  <2>1. response(entry, resps)
    BY <1>5 DEF ForwardResponds, Open
  <2>2. resps \in [S -> {"client", "remote", "failed"}]
    OBVIOUS
  <2>3. Owed = {} /\ Owed' = {} /\ Listed /\ Listed'
    BY <1>1, <1>3 DEF Owed, Listed
  <2> QED BY <1>2, <1>3, <1>5, <2>1, <2>2, <2>3, Responds
<1> QED BY <1>4, <1>5

\* The forwarding promise is rejected.
LEMMA ForwardFailsStep ==
  ASSUME IInv, ForwardFails
  PROVE  IInv'
<1>1. RestInv
  BY RestHolds
<1>2. RestInv' /\ fwd'.at = "done"
  BY <1>1 DEF ForwardFails, RestInv
<1>3. Answered
  BY Cancels DEF ForwardFails
<1> QED BY <1>2, <1>3, IsGone

\* The emitting promise is rejected after it asked some clients.
LEMMA EmitThrowsStep ==
  ASSUME IInv, NEW given \in SUBSET Resources, EmitThrows(given)
  PROVE  IInv'
<1>1. RestInv /\ fwd.at # "idle"
  BY RestHolds DEF EmitThrows, RestInv
<1>2. RestInv' /\ fwd'.at # "idle"
  BY <1>1 DEF EmitThrows, RestInv
<1>3. Answered
  BY Cancels DEF EmitThrows
<1> QED BY <1>2, <1>3, IsGone

\* The emitting promise is rejected before.
LEMMA EmitFailsStep ==
  ASSUME IInv, EmitFails
  PROVE  IInv'
<1>1. RestInv /\ fwd.at # "idle"
  BY RestHolds DEF EmitFails, RestInv
<1>2. RestInv' /\ fwd'.at # "idle"
  BY <1>1 DEF EmitFails, RestInv
<1>3. Answered
  BY Cancels DEF EmitFails
<1> QED BY <1>2, <1>3, IsGone

\* The emitting promise lists what local clients control, and asks them.
LEMMA EmitStep ==
  ASSUME IInv, Emit
  PROVE  IInv'
<1>1. RestInv /\ emitting = "select" /\ asked = {} /\ fwd.at # "idle"
  BY RestHolds DEF Emit, RestInv
<1>2. emitting' = "done" /\ otherIsReady' /\ UNCHANGED <<registered, fwd, changed>>
  BY DEF Emit
<1>3. CASE ~Open
  <2>1. RestInv' /\ fwd'.at # "idle"
    BY <1>1, <1>2, <1>3 DEF RestInv, Emit, Open
  <2>2. Answered
    BY <1>2, <1>3, StaysGone DEF Emit, Open
  <2> QED BY <2>1, <2>2, IsGone
<1>4. CASE Open
  <2> DEFINE e == EmitLists
  <2>1. EntryInv /\ entry \in Entries /\ TypeOK /\ registered \subseteq Resources
    BY <1>1, <1>4, EntryHolds, OpenEntry DEF IInv, RestInv
  <2>2. /\ e \in Entries /\ e.isReady = entry.isReady
        /\ DOMAIN e.responseSet = DOMAIN entry.responseSet \cup registered
        /\ Pending(e.responseSet) = Pending(entry.responseSet) \cup registered
        /\ e.pendingResponseCount = entry.pendingResponseCount + Cardinality(registered)
    BY <1>4, <2>1, Lists DEF EmitLists
  <2>3. asked' = registered /\ IF otherIsReady THEN ready(e) ELSE Keep(e)
    BY <1>4 DEF Emit, Open
  <2> HIDE DEF e
  <2>4. RestInv' /\ fwd'.at # "idle"
    BY <1>1, <1>2, <2>3 DEF RestInv
  <2>5. Owed' = Owed /\ Listed' = Listed
    BY <1>2 DEF Owed, Listed
  <2>6. Owed \subseteq Resources
    BY <1>1 DEF Owed, RestInv
  <2>7. Counts(e, Owed, registered)
    <3>1. Counts(entry, Owed, {})
      BY <1>1, <2>1, Zenon DEF EntryInv
    <3> QED BY <2>1, <2>2, <2>6, <3>1, CountsEmitted
  <2>8. ASSUME ~changed
        PROVE  /\ e.pendingResponseCount = Cardinality(Pending(e.responseSet))
               /\ DOMAIN e.responseSet = (IF Listed THEN Resources \ registered ELSE {}) \cup registered
    <3>1. /\ DOMAIN entry.responseSet = IF Listed THEN Resources \ registered ELSE {}
          /\ entry.pendingResponseCount = Cardinality(Pending(entry.responseSet))
      BY <1>1, <2>1, <2>8 DEF EntryInv
    <3>2. Pending(entry.responseSet) \cap registered = {} /\ Pending(entry.responseSet) \subseteq Resources
      BY <1>4, <2>1, <3>1, OpenEntry
    <3>3. Cardinality(Pending(entry.responseSet) \cap registered) = 0
      BY <3>2, FS_EmptySet
    <3>4. Cardinality(Pending(entry.responseSet) \cup registered)
            = Cardinality(Pending(entry.responseSet)) + Cardinality(registered) - 0
      BY <2>1, <3>2, <3>3, Sizes
    <3>5. Cardinality(registered) \in Nat /\ Cardinality(Pending(entry.responseSet)) \in Nat
      BY <2>1, <3>2, Finite
    <3>6. Cardinality(Pending(e.responseSet)) = Cardinality(Pending(entry.responseSet) \cup registered)
      BY <2>2, Zenon
    <3>7. e.pendingResponseCount = Cardinality(Pending(e.responseSet))
      BY <2>2, <3>1, <3>4, <3>5, <3>6
    <3> QED BY <2>2, <3>1, <3>7
  <2>9. e.pendingResponseCount >= Cardinality(Pending(e.responseSet))
    BY <2>2, <2>6, <2>7, CountsCover
  <2>10. (otherIsReady => Listed) /\ ~entry.isReady
    BY <1>1, <2>1 DEF EntryInv
  <2>11. CASE otherIsReady
    <3>1. ~changed => DOMAIN e.responseSet = Resources
      BY <2>1, <2>8, <2>10, <2>11
    <3>2. Answered \/ Keep([e EXCEPT !.isReady = TRUE])
      BY <1>2, <1>4, <2>2, <2>3, <2>9, <2>11, <3>1, Readies
    <3>3. CASE Answered
      BY <2>4, <3>3, IsGone
    <3>4. CASE Keep([e EXCEPT !.isReady = TRUE])
      <4>1. /\ entry' \in Entries
            /\ entry'.responseSet = e.responseSet /\ entry'.pendingResponseCount = e.pendingResponseCount
        BY <2>2, <3>4, EntryReady DEF Keep
      <4>2. Counts(entry', Owed', asked')
        BY <2>3, <2>5, <2>7, <4>1 DEF Counts
      <4>3. EntryInv'
        BY <1>2, <2>1, <2>2, <2>3, <2>5, <2>8, <2>10, <2>11, <4>1, <4>2 DEF EntryInv
      <4> QED BY <1>2, <1>4, <2>4, <3>4, <4>3, StaysOpen DEF Keep
    <3> QED BY <3>2, <3>3, <3>4
  <2>12. CASE ~otherIsReady
    <3>1. entry' = e /\ UNCHANGED <<answers, timer, cached>>
      BY <2>3, <2>12 DEF Keep
    <3>2. Counts(entry', Owed', asked')
      BY <2>3, <2>5, <2>7, <3>1, Zenon
    <3>3. EntryInv'
      BY <1>2, <2>2, <2>3, <2>5, <2>8, <2>10, <3>1, <3>2 DEF EntryInv
    <3> QED BY <1>2, <1>4, <2>4, <3>1, <3>3, StaysOpen
  <2> QED BY <2>11, <2>12
<1> QED BY <1>3, <1>4

\* A client responds.
LEMMA ClientRespondsStep ==
  ASSUME IInv, NEW r \in Resources, ClientResponds(r)
  PROVE  IInv'
<1>1. RestInv /\ r \in asked /\ asked' = asked \ {r}
  BY RestHolds DEF ClientResponds
<1>2. UNCHANGED <<registered, fwd, emitting, otherIsReady, changed>>
  BY DEF ClientResponds
<1>3. RestInv' /\ fwd'.at # "idle"
  BY <1>1, <1>2 DEF RestInv
<1>4. CASE ~Open
  <2>1. Answered
    BY <1>2, <1>4, StaysGone DEF ClientResponds, Open
  <2> QED BY <1>3, <2>1, IsGone
<1>5. CASE Open
  <2> DEFINE resps == [x \in {r} |-> "client"]
  <2>1. response(entry, resps)
    BY <1>5 DEF ClientResponds, Open
  <2>2. resps \in [{r} -> {"client", "remote", "failed"}]
    OBVIOUS
  <2>3. Owed' = Owed /\ Listed' = Listed
    BY <1>2 DEF Owed, Listed
  <2> HIDE DEF resps
  <2>4. asked' \subseteq asked /\ {r} \cap Owed \subseteq asked \ asked'
    BY <1>1
  <2> QED BY <1>2, <1>3, <1>5, <2>1, <2>2, <2>3, <2>4, Responds
<1> QED BY <1>4, <1>5

\* A registration changes.
LEMMA RegistrationStep ==
  ASSUME IInv, NEW r \in Resources, RegistrationChanges(r)
  PROVE  IInv'
<1>1. RestInv /\ changed' = TRUE /\ UNCHANGED <<entry, timer, fwd, emitting, otherIsReady, asked, answers, cached>>
  BY RestHolds DEF RegistrationChanges
<1>2. registered' \subseteq Resources
  BY <1>1 DEF RegistrationChanges, RestInv
<1>3. TypeOK'
  BY <1>1, <1>2 DEF IInv, TypeOK
<1>4. AnswersInv'
  BY <1>1 DEF IInv, AnswersInv, AnsweredOnce, CompleteUnlessTimedOut, AnswerCoversSelection
<1>5. Life' /\ AskedAreListed'
  BY <1>1 DEF IInv, Life, AskedAreListed, Open, TimeoutFindsEntry
<1>6. Counted' /\ ReadyInv'
  BY <1>1 DEF IInv, Counted, ReadyInv, Open, Owed, Listed, Counts
<1> QED BY <1>1, <1>3, <1>4, <1>5, <1>6 DEF IInv, Split

\* Nothing happens.
LEMMA StutterStep ==
  ASSUME IInv, UNCHANGED vars
  PROVE  IInv'
<1>1. TypeOK' /\ AnswersInv' /\ Life' /\ AskedAreListed'
  BY DEF vars, IInv, TypeOK, AnswersInv, AnsweredOnce, CompleteUnlessTimedOut, AnswerCoversSelection,
         Life, AskedAreListed, Open, TimeoutFindsEntry
<1>2. Counted' /\ ReadyInv' /\ Split'
  BY DEF vars, IInv, Counted, ReadyInv, Split, Open, Owed, Listed, Counts
<1> QED BY <1>1, <1>2 DEF IInv

\* Every step keeps the invariant.
LEMMA NextIInv == IInv /\ [Next]_vars => IInv'
<1> SUFFICES ASSUME IInv, [Next]_vars PROVE IInv'
  OBVIOUS
<1>1. ASSUME NEW get \in BOOLEAN, Request(get) PROVE IInv'
  BY <1>1, RequestStep
<1>2. CASE RequestRefused
  BY <1>2, RefusedStep
<1>3. CASE Timeout
  BY <1>3, FanoutTimeoutStep
<1>4. CASE ForwardSelects
  BY <1>4, ForwardSelectsStep
<1>5. CASE ForwardLists
  BY <1>5, ForwardListsStep
<1>6. ASSUME NEW taken \in SUBSET Resources, NEW remote \in SUBSET Resources, OwnersRead(taken, remote)
      PROVE  IInv'
  BY <1>6, OwnersReadStep
<1>7. ASSUME NEW S \in SUBSET fwd.set, NEW resps \in [S -> {"remote", "failed"}], ForwardResponds(resps)
      PROVE  IInv'
  BY <1>7, ForwardRespondsStep
<1>8. CASE ForwardFails
  BY <1>8, ForwardFailsStep
<1>9. CASE Emit
  BY <1>9, EmitStep
<1>10. ASSUME NEW given \in SUBSET Resources, EmitThrows(given) PROVE IInv'
  BY <1>10, EmitThrowsStep
<1>11. CASE EmitFails
  BY <1>11, EmitFailsStep
<1>12. ASSUME NEW r \in Resources, ClientResponds(r) PROVE IInv'
  BY <1>12, ClientRespondsStep
<1>13. ASSUME NEW r \in Resources, RegistrationChanges(r) PROVE IInv'
  BY <1>13, RegistrationStep
<1>14. CASE UNCHANGED vars
  BY <1>14, StutterStep
<1> QED
  BY <1>1, <1>2, <1>3, <1>4, <1>5, <1>6, <1>7, <1>8, <1>9, <1>10, <1>11, <1>12, <1>13, <1>14 DEF Next, Done

\* The invariant says what the properties say.
LEMMA IInvImplies == IInv => EntryIsSound /\ AnswersComplete
<1> SUFFICES ASSUME IInv PROVE EntryIsSound /\ AnswersComplete
  OBVIOUS
<1>1. CountCoversPending
  <2>1. CASE ~Open
    BY <2>1 DEF CountCoversPending, Open
  <2>2. CASE Open
    <3>1. Owed \subseteq Resources
      BY RestHolds DEF Owed, RestInv
    <3>2. Counts(entry, Owed, asked) /\ entry \in Entries
      BY <2>2, EntryHolds DEF EntryInv
    <3> QED BY <3>1, <3>2, CountsCover DEF CountCoversPending
  <2> QED BY <2>1, <2>2
<1>2. CountIsExact
  BY DEF IInv, Split, CountIsExact, Open
<1> QED
  BY <1>1, <1>2 DEF IInv, AnswersInv, Life, EntryIsSound, AnswersComplete

-----------------------------------------------------------------------------
\* POST /request, for every set of resources: `res` is answered at most once,
\* an armed timeout finds the request's entry, and pendingResponseCount never
\* falls behind the resources that have not responded.
THEOREM SoundEntries == Spec => []EntryIsSound
<1>1. Init => IInv
  BY InitIInv
<1>2. IInv /\ [Next]_vars => IInv'
  BY NextIInv
<1>3. IInv => EntryIsSound
  BY IInvImplies
<1> QED BY <1>1, <1>2, <1>3, PTL DEF Spec

\* POST /request, for every set of resources: only the timeout ends a request
\* with a listed resource that has not responded, and while registrations do not
\* change the count is exact and an answer covers the selection.
THEOREM CompleteAnswers == Spec => []AnswersComplete
<1>1. Init => IInv
  BY InitIInv
<1>2. IInv /\ [Next]_vars => IInv'
  BY NextIInv
<1>3. IInv => AnswersComplete
  BY IInvImplies
<1> QED BY <1>1, <1>2, <1>3, PTL DEF Spec

-----------------------------------------------------------------------------
(* The tunnel, and forwarded requests *)

(* The cloud's subscriptions *)

\* The last message about a subscription decides.
LastWins ==
  socket = "open" /\ ~kept =>
    \A id \in Subscriptions :
      /\ \A i \in DOMAIN inbox :
           inbox[i][2] = id /\ (\A j \in DOMAIN inbox : j > i => inbox[j][2] # id)
             => (inbox[i][1] = "addSubscription" <=> id \in wanted)
      /\ (\A i \in DOMAIN inbox : inbox[i][2] # id) => (id \in cloudSubs <=> id \in wanted)

TunnelInv ==
  /\ TunnelTypeOK
  /\ LastWins
  /\ socket # "open" => inbox = <<>> /\ (~kept => cloudSubs = {})

\* SetToSeq lists a finite set.
LEMMA SetInSeq ==
  ASSUME NEW S, IsFiniteSet(S)
  PROVE  /\ SetToSeq(S) \in Seq(S)
         /\ \A x \in S : \E i \in DOMAIN SetToSeq(S) : SetToSeq(S)[i] = x
<1> DEFINE n == Cardinality(S)
           D == 1..n
           q == SetToSeq(S)
<1>1. n \in Nat /\ ExistsBijection(D, S)
  BY FS_CardinalityType
<1>2. PICK g \in Bijection(D, S) : TRUE
  BY <1>1 DEF ExistsBijection
<1>3. g \in [D -> S] /\ IsInjective(g)
  BY <1>2 DEF Bijection, Injection
<1>4. q \in [D -> S] /\ IsInjective(q)
  BY <1>3 DEF SetToSeq
<1>5. q \in Seq(S) /\ DOMAIN q = D
  BY <1>1, <1>4
<1> HIDE DEF q
<1> DEFINE R == {q[i] : i \in D}
<1>6. q \in Bijection(D, R)
  BY <1>4 DEF Bijection, Injection, Surjection
<1>7. IsFiniteSet(D) /\ Cardinality(D) = n
  BY <1>1, FS_Interval
<1>8. Cardinality(R) = n
  <2>1. ExistsBijection(D, R)
    BY <1>6 DEF ExistsBijection
  <2> HIDE DEF R, D, n
  <2> QED BY <1>7, <2>1, FS_Bijection
<1>9. R \subseteq S
  BY <1>4
<1>10. S \ R = {}
  <2> HIDE DEF R
  <2>1. S \cap R = R
    BY <1>9
  <2>2. IsFiniteSet(S \ R) /\ Cardinality(S \ R) = Cardinality(S) - Cardinality(S \cap R)
    BY FS_Difference
  <2>3. Cardinality(S \cap R) = n
    BY <1>8, <2>1, Zenon
  <2>4. Cardinality(S \ R) = 0
    BY <1>1, <2>2, <2>3
  <2> QED BY <2>2, <2>4, FS_EmptySet
<1> QED BY <1>5, <1>10 DEF q

\* What the cloud sends when the tunnel connects.
LEMMA Greeting ==
  ASSUME wanted \subseteq Subscriptions
  PROVE  LET q == SetToSeq({"addSubscription"} \X wanted)
         IN  /\ q \in Seq(Messages)
             /\ \A i \in DOMAIN q : q[i][1] = "addSubscription" /\ q[i][2] \in wanted
             /\ \A id \in wanted : \E i \in DOMAIN q : q[i][2] = id
<1> DEFINE S == {"addSubscription"} \X wanted
           q == SetToSeq(S)
<1>1. IsFiniteSet(S)
  <2>1. IsFiniteSet(wanted)
    BY SubscriptionsAssumption, FS_Subset
  <2>2. IsFiniteSet({"addSubscription"})
    BY FS_Singleton
  <2> QED BY <2>1, <2>2, FS_Product
<1>2. q \in Seq(S) /\ \A x \in S : \E i \in DOMAIN q : q[i] = x
  BY <1>1, SetInSeq
<1> HIDE DEF q
<1>3. \A i \in DOMAIN q : q[i] \in S
  BY <1>2
<1>4. S \subseteq Messages
  BY DEF Messages
<1>5. q \in Seq(Messages)
  BY <1>2, <1>4, SeqMonotonic
<1>6. \A i \in DOMAIN q : q[i][1] = "addSubscription" /\ q[i][2] \in wanted
  BY <1>3
<1>7. \A id \in wanted : \E i \in DOMAIN q : q[i][2] = id
  <2> TAKE id \in wanted
  <2>1. <<"addSubscription", id>> \in S
    OBVIOUS
  <2>2. PICK i \in DOMAIN q : q[i] = <<"addSubscription", id>>
    BY <1>2, <2>1
  <2> QED BY <2>2
<1> QED BY <1>5, <1>6, <1>7 DEF q

\* The tunnel is closed, by whatever step.
LEMMA TunnelCloses ==
  ASSUME TunnelInv, socket' \in {"none", "closed"}, isConnected' \in BOOLEAN, inbox' = <<>>,
         cloudSubs' \subseteq Subscriptions, wanted' \subseteq Subscriptions,
         kept' = (cloudSubs' # {})
  PROVE  TunnelInv'
<1>1. inbox' \in Seq(Messages)
  BY EmptySeq
<1>2. TunnelTypeOK'
  BY <1>1 DEF TunnelTypeOK
<1> QED BY <1>2 DEF TunnelInv, LastWins

\* The tunnel opens.
LEMMA TunnelOpens ==
  ASSUME TunnelInv, onConnect
  PROVE  TunnelInv'
<1>1. wanted \subseteq Subscriptions /\ (~kept => cloudSubs = {})
  BY DEF TunnelInv, TunnelTypeOK, onConnect
<1>2. /\ inbox' \in Seq(Messages)
      /\ \A i \in DOMAIN inbox' : inbox'[i][1] = "addSubscription" /\ inbox'[i][2] \in wanted
      /\ \A id \in wanted : \E i \in DOMAIN inbox' : inbox'[i][2] = id
  BY <1>1, Greeting DEF onConnect
<1>3. TunnelTypeOK'
  BY <1>2 DEF TunnelInv, TunnelTypeOK, onConnect
<1>4. LastWins'
  BY <1>1, <1>2 DEF LastWins, onConnect
<1> QED BY <1>3, <1>4 DEF TunnelInv, onConnect

\* A message arrives.
LEMMA MessageArrives ==
  ASSUME TunnelInv, onSubscriptionMessage
  PROVE  TunnelInv'
<1> DEFINE n == Len(inbox)
           rest == Tail(inbox)
           first == inbox[1]
<1>1. /\ inbox \in Seq(Messages) /\ inbox # <<>> /\ n \in Nat /\ n > 0 /\ DOMAIN inbox = 1..n
      /\ Head(inbox) = first /\ first \in Messages
  BY DEF TunnelInv, TunnelTypeOK, onSubscriptionMessage
<1>2. /\ rest \in Seq(Messages) /\ DOMAIN rest = 1..(n - 1)
      /\ \A i \in 1..(n - 1) : rest[i] = inbox[i + 1]
  BY <1>1
<1>3. first[1] \in {"addSubscription", "removeSubscription"} /\ first[2] \in Subscriptions
  BY <1>1 DEF Messages
<1>4. /\ inbox' = rest
      /\ cloudSubs' = IF first[1] = "addSubscription" THEN cloudSubs \cup {first[2]} ELSE cloudSubs \ {first[2]}
      /\ socket = "open" /\ UNCHANGED <<socket, isConnected, wanted, kept>>
  BY <1>1 DEF onSubscriptionMessage
<1> HIDE DEF rest, first, n
<1>5. TunnelTypeOK'
  BY <1>2, <1>3, <1>4 DEF TunnelInv, TunnelTypeOK
<1>6. ASSUME ~kept, NEW id \in Subscriptions,
             NEW i \in DOMAIN rest, rest[i][2] = id, \A j \in DOMAIN rest : j > i => rest[j][2] # id
      PROVE  rest[i][1] = "addSubscription" <=> id \in wanted
  <2>1. i \in 1..(n - 1) /\ i + 1 \in DOMAIN inbox /\ inbox[i + 1] = rest[i]
    BY <1>1, <1>2, <1>6
  <2>2. \A j \in DOMAIN inbox : j > i + 1 => inbox[j][2] # id
    <3> TAKE j \in DOMAIN inbox
    <3> HAVE j > i + 1
    <3>1. j - 1 \in 1..(n - 1) /\ j - 1 > i
      BY <1>1, <2>1
    <3>2. rest[j - 1] = inbox[(j - 1) + 1] /\ (j - 1) + 1 = j
      BY <1>1, <1>2, <3>1
    <3>3. rest[j - 1][2] # id
      BY <1>2, <1>6, <3>1
    <3> QED BY <3>2, <3>3
  <2> QED BY <1>4, <1>6, <2>1, <2>2 DEF TunnelInv, LastWins
<1>7. ASSUME ~kept, NEW id \in Subscriptions, \A i \in DOMAIN rest : rest[i][2] # id
      PROVE  id \in cloudSubs' <=> id \in wanted
  <2>1. \A j \in DOMAIN inbox : j > 1 => inbox[j][2] # id
    <3> TAKE j \in DOMAIN inbox
    <3> HAVE j > 1
    <3>1. j - 1 \in 1..(n - 1)
      BY <1>1
    <3>2. rest[j - 1] = inbox[(j - 1) + 1] /\ (j - 1) + 1 = j
      BY <1>1, <1>2, <3>1
    <3> QED BY <1>2, <1>7, <3>1, <3>2
  <2>2. 1 \in DOMAIN inbox /\ inbox[1] = first
    BY <1>1 DEF first
  <2>3. CASE first[2] = id
    <3>1. first[1] = "addSubscription" <=> id \in wanted
      BY <1>4, <1>7, <2>1, <2>2, <2>3 DEF TunnelInv, LastWins
    <3> QED BY <1>3, <1>4, <2>3, <3>1
  <2>4. CASE first[2] # id
    <3>1. \A j \in DOMAIN inbox : inbox[j][2] # id
      <4> TAKE j \in DOMAIN inbox
      <4>1. j = 1 \/ j > 1
        BY <1>1
      <4> QED BY <2>1, <2>2, <2>4, <4>1
    <3>2. id \in cloudSubs <=> id \in wanted
      BY <1>4, <1>7, <3>1 DEF TunnelInv, LastWins
    <3> QED BY <1>4, <2>4, <3>2
  <2> QED BY <2>3, <2>4
<1>8. LastWins'
  BY <1>4, <1>6, <1>7 DEF LastWins
<1> QED BY <1>4, <1>5, <1>8 DEF TunnelInv

\* The cloud changes its mind.
LEMMA CloudChanges ==
  ASSUME TunnelInv, NEW id \in Subscriptions, CloudSubscribes(id)
  PROVE  TunnelInv'
<1> DEFINE message == <<IF id \in wanted THEN "removeSubscription" ELSE "addSubscription", id>>
           n == Len(inbox)
<1>1. /\ wanted' = (wanted \ {id}) \cup ({id} \ wanted)
      /\ UNCHANGED <<socket, isConnected, cloudSubs, kept>>
      /\ IF socket = "open" THEN inbox' = Append(inbox, message) ELSE UNCHANGED inbox
  BY DEF CloudSubscribes
<1>2. message \in Messages /\ message[2] = id /\ (message[1] = "addSubscription" <=> id \notin wanted)
  BY DEF Messages
<1>3. inbox \in Seq(Messages) /\ n \in Nat /\ DOMAIN inbox = 1..n
  BY DEF TunnelInv, TunnelTypeOK
<1> HIDE DEF message, n
<1>4. inbox' \in Seq(Messages)
  BY <1>1, <1>2, <1>3, AppendProperties
<1>5. TunnelTypeOK'
  BY <1>1, <1>4 DEF TunnelInv, TunnelTypeOK
<1>6. CASE socket # "open"
  BY <1>1, <1>5, <1>6 DEF TunnelInv, LastWins
<1>7. CASE socket = "open"
  <2>1. /\ DOMAIN inbox' = 1..(n + 1) /\ inbox'[n + 1] = message
        /\ \A i \in DOMAIN inbox : i \in DOMAIN inbox' /\ inbox'[i] = inbox[i] /\ i < n + 1
    BY <1>1, <1>2, <1>3, <1>7 DEF n
  <2>2. n + 1 \in DOMAIN inbox' /\ \A i \in DOMAIN inbox' : i = n + 1 \/ i \in DOMAIN inbox
    BY <1>3, <2>1
  <2>3. ASSUME ~kept, NEW s \in Subscriptions, NEW i \in DOMAIN inbox', inbox'[i][2] = s,
               \A j \in DOMAIN inbox' : j > i => inbox'[j][2] # s
        PROVE  inbox'[i][1] = "addSubscription" <=> s \in wanted'
    <3>1. CASE i = n + 1
      BY <1>1, <1>2, <2>1, <2>3, <3>1
    <3>2. CASE i \in DOMAIN inbox
      <4>1. n + 1 > i
        BY <1>3, <3>2
      <4>2. s # id
        BY <1>2, <2>1, <2>2, <2>3, <4>1
      <4>3. \A j \in DOMAIN inbox : j > i => inbox[j][2] # s
        BY <2>1, <2>3
      <4>4. inbox[i][1] = "addSubscription" <=> s \in wanted
        BY <1>1, <1>7, <2>1, <2>3, <3>2, <4>3 DEF TunnelInv, LastWins
      <4> QED BY <1>1, <2>1, <3>2, <4>2, <4>4
    <3> QED BY <2>2, <3>1, <3>2
  <2>4. ASSUME ~kept, NEW s \in Subscriptions, \A i \in DOMAIN inbox' : inbox'[i][2] # s
        PROVE  s \in cloudSubs <=> s \in wanted'
    <3>1. s # id
      BY <1>2, <2>1, <2>2, <2>4
    <3>2. \A i \in DOMAIN inbox : inbox[i][2] # s
      BY <2>1, <2>4
    <3>3. s \in cloudSubs <=> s \in wanted
      BY <1>7, <2>4, <3>2 DEF TunnelInv, LastWins
    <3> QED BY <1>1, <3>1, <3>3
  <2>5. LastWins'
    BY <1>1, <2>3, <2>4 DEF LastWins
  <2> QED BY <1>1, <1>5, <1>7, <2>5 DEF TunnelInv
<1> QED BY <1>6, <1>7

\* Every step of the tunnel keeps its invariant.
LEMMA TunnelNextInv == TunnelInv /\ [TunnelNext]_tunnelVars => TunnelInv'
<1> SUFFICES ASSUME TunnelInv, [TunnelNext]_tunnelVars PROVE TunnelInv'
  OBVIOUS
<1>0. TunnelTypeOK
  BY DEF TunnelInv
<1>1. CASE start
  BY <1>0, <1>1, TunnelCloses DEF start, TunnelTypeOK
<1>2. CASE stop
  BY <1>0, <1>2, TunnelCloses DEF stop, TunnelTypeOK
<1>3. CASE onConnect
  BY <1>3, TunnelOpens
<1>4. CASE onDisconnect
  BY <1>0, <1>4, TunnelCloses DEF onDisconnect, TunnelTypeOK
<1>5. CASE onSubscriptionMessage
  BY <1>5, MessageArrives
<1>6. ASSUME NEW id \in Subscriptions, CloudSubscribes(id) PROVE TunnelInv'
  BY <1>6, CloudChanges
<1>7. CASE UNCHANGED tunnelVars
  BY <1>7 DEF tunnelVars, TunnelInv, TunnelTypeOK, LastWins
<1> QED BY <1>1, <1>2, <1>3, <1>4, <1>5, <1>6, <1>7 DEF TunnelNext

\* And it holds at first.
LEMMA TunnelInitInv == TunnelInit => TunnelInv
BY EmptySeq DEF TunnelInit, TunnelInv, TunnelTypeOK, LastWins

\* What it says of an open tunnel without messages.
LEMMA TunnelInvImplies == TunnelInv => TunnelTypeOK /\ CloudSubscriptionsMatch
<1> SUFFICES ASSUME TunnelInv, socket = "open", inbox = <<>>, ~kept PROVE cloudSubs = wanted
  BY DEF TunnelInv, CloudSubscriptionsMatch
<1>1. DOMAIN inbox = {}
  OBVIOUS
<1>2. \A id \in Subscriptions : id \in cloudSubs <=> id \in wanted
  BY <1>1 DEF TunnelInv, LastWins
<1> QED BY <1>2 DEF TunnelInv, TunnelTypeOK

\* Whatever the cloud adds and removes while the tunnel is closed, it finds
\* exactly its subscriptions at the server when the tunnel is open and no
\* message is under way, for every finite set of subscriptions.
THEOREM CloudSubscriptionsHold == TunnelSpec => []CloudSubscriptionsMatch
<1>1. TunnelInit => TunnelInv
  BY TunnelInitInv
<1>2. TunnelInv /\ [TunnelNext]_tunnelVars => TunnelInv'
  BY TunnelNextInv
<1>3. TunnelInv => CloudSubscriptionsMatch
  BY TunnelInvImplies
<1> QED BY <1>1, <1>2, <1>3, PTL DEF TunnelSpec

-----------------------------------------------------------------------------
(* Forwarded requests: the invariant *)

OpenEntries == [at : {"open"}, pendingResponseCount : Int, responseSet : Sets]
SentReplies == [at : {"sent"}, status : {200, 400}, timedOut : BOOLEAN, set : Sets]
Onwards == [at : {"none", "lookup", "sent"}, set : SUBSET Forwarded]

Types ==
  /\ hasTunnel \in BOOLEAN
  /\ call \in {"idle", "addresses", "waiting", "resolved", "rejected"}
  /\ leg \in [Servers -> {"none", "post", "tunnel", "ended", "rejected"}]
  /\ responseMap \in [Forwarded -> {"none", "failed", "response"}]
  /\ sent \subseteq Servers
  /\ reply \in [Servers -> {NoReply} \cup SentReplies]
  /\ fwdEntry \in [Servers -> {NoForward} \cup OpenEntries]
  /\ onward \in [Servers -> Onwards]
  /\ fwdTimer \in [Servers -> BOOLEAN]
  /\ fwdAsked \subseteq Forwarded /\ responded \subseteq Forwarded

\* The resources of n that have not responded to its entry e.
Silent(n, e) == {r \in Of(n) : ~e.responseSet[r]}

\* The count covers the silent resources that a client was asked for or that are
\* looked up or forwarded, and not more than the silent ones; what is looked up
\* is silent; what responded did respond.
EntryOK(n, e, o, a, resp) ==
  /\ DOMAIN e.responseSet = Of(n)
  /\ e.pendingResponseCount \in 1..Cardinality(Silent(n, e))
  /\ e.pendingResponseCount >= Cardinality(Silent(n, e) \cap (a \cup o.set))
  /\ o.at = "lookup" => o.set \subseteq Silent(n, e)
  /\ \A r \in Of(n) : e.responseSet[r] => r \in resp

\* No client was asked for what is looked up.
OnwardOK(n, o, a) ==
  /\ o.set \subseteq Of(n)
  /\ o.at = "none" => o = Nobody
  /\ o.at = "lookup" => o.set \cap a = {}

\* An answer is complete, unless it was cut short, and makes no response up.
ReplyOK(x, a, resp) ==
  x # NoReply =>
    /\ x.status = 200 /\ ~x.timedOut => \A r \in a : x.set[r]
    /\ \A r \in DOMAIN x.set : x.set[r] => r \in resp

AskedAt(n) == Of(n) \cap fwdAsked

\* A server that the request has not reached has no part in it yet.
Unreached(n) == call \in {"idle", "addresses"} \/ n \in sent

ServerInv(n) ==
  /\ fwdTimer[n] <=> fwdEntry[n] # NoForward
  /\ fwdEntry[n] # NoForward => EntryOK(n, fwdEntry[n], onward[n], AskedAt(n), responded)
  /\ OnwardOK(n, onward[n], AskedAt(n))
  /\ ReplyOK(reply[n], AskedAt(n), responded)
  /\ Unreached(n) => /\ fwdEntry[n] = NoForward /\ onward[n] = Nobody /\ reply[n] = NoReply
                     /\ AskedAt(n) = {}

\* Nothing is on its way before the addresses are known; a call that is resolved
\* has all its answers, and no response is made up.
CallInv ==
  /\ call \in {"idle", "addresses"} => sent = {}
  /\ call = "resolved" => \A n \in Servers : leg[n] = "ended"
  /\ \A r \in Forwarded : responseMap[r] = "response" => r \in responded

ForwardInv ==
  /\ TunnelInv /\ Types /\ CallInv
  /\ \A n \in Servers : ServerInv(n)

-----------------------------------------------------------------------------
(* Lemmas about a server *)

\* The resources of a server are finitely many, and at least one.
LEMMA OfServer ==
  ASSUME NEW n \in Servers, NEW S, S \subseteq Of(n)
  PROVE  /\ Of(n) \subseteq Forwarded /\ Of(n) # {}
         /\ IsFiniteSet(S) /\ Cardinality(S) \in Nat
         /\ Cardinality(S) = 0 <=> S = {}
         /\ \A T : T \subseteq S => /\ Cardinality(T) <= Cardinality(S)
                                    /\ Cardinality(S \ T) = Cardinality(S) - Cardinality(T)
<1>1. Of(n) \subseteq Forwarded /\ Of(n) # {}
  BY ForwardAssumption DEF Of
<1>2. IsFiniteSet(S) /\ Cardinality(S) \in Nat
  BY <1>1, ForwardAssumption, FS_Subset, FS_CardinalityType
<1>3. ASSUME NEW T, T \subseteq S
      PROVE  Cardinality(T) <= Cardinality(S) /\ Cardinality(S \ T) = Cardinality(S) - Cardinality(T)
  <2>1. S \cap T = T
    BY <1>3
  <2>2. Cardinality(S \cap T) = Cardinality(T)
    BY <2>1, Zenon
  <2>3. Cardinality(S \ T) = Cardinality(S) - Cardinality(S \cap T)
    BY <1>2, FS_Difference
  <2>4. Cardinality(T) <= Cardinality(S)
    BY <1>2, <1>3, FS_Subset
  <2> QED BY <2>2, <2>3, <2>4
<1> QED BY <1>1, <1>2, <1>3, FS_EmptySet

\* What a server does and learns leaves the others alone.
LEMMA OtherServer ==
  ASSUME NEW n \in Servers, ServerInv(n),
         fwdTimer'[n] = fwdTimer[n], fwdEntry'[n] = fwdEntry[n], onward'[n] = onward[n],
         reply'[n] = reply[n], AskedAt(n)' = AskedAt(n), responded \subseteq responded',
         Unreached(n)' => Unreached(n)
  PROVE  ServerInv(n)'
BY DEF ServerInv, EntryOK, OnwardOK, ReplyOK

\* Two servers share no resource.
LEMMA Apart ==
  ASSUME NEW m \in Servers, NEW n \in Servers, m # n
  PROVE  Of(m) \cap Of(n) = {}
BY DEF Of

\* What finish leaves of a server.
LEMMA ForwardFinishes ==
  ASSUME Types, NEW n \in Servers, NEW e \in OpenEntries, NEW timedOut \in BOOLEAN,
         finishForward(n, e, timedOut),
         ~timedOut => \A r \in AskedAt(n)' : e.responseSet[r],
         \A r \in DOMAIN e.responseSet : e.responseSet[r] => r \in responded',
         OnwardOK(n, onward'[n], AskedAt(n)'), ~Unreached(n)'
  PROVE  /\ ServerInv(n)'
         /\ reply' \in [Servers -> {NoReply} \cup SentReplies]
         /\ fwdEntry' \in [Servers -> {NoForward} \cup OpenEntries]
         /\ fwdTimer' \in [Servers -> BOOLEAN]
         /\ \A m \in Servers \ {n} : fwdTimer'[m] = fwdTimer[m] /\ fwdEntry'[m] = fwdEntry[m] /\ reply'[m] = reply[m]
<1> DEFINE x == [at |-> "sent", status |-> 200, timedOut |-> timedOut, set |-> e.responseSet]
<1>1. x \in SentReplies /\ x.timedOut = timedOut /\ x.set = e.responseSet /\ x.status = 200
  BY DEF SentReplies, OpenEntries
<1>2. reply' = [reply EXCEPT ![n] = x] /\ fwdEntry' = [fwdEntry EXCEPT ![n] = NoForward]
      /\ fwdTimer' = [fwdTimer EXCEPT ![n] = FALSE]
  BY DEF finishForward
<1> HIDE DEF x
<1>3. reply'[n] = x /\ fwdEntry'[n] = NoForward /\ fwdTimer'[n] = FALSE
  BY <1>2 DEF Types
<1>4. ReplyOK(reply'[n], AskedAt(n)', responded')
  BY <1>1, <1>3 DEF ReplyOK
<1>5. ServerInv(n)'
  BY <1>3, <1>4 DEF ServerInv
<1> QED BY <1>1, <1>2, <1>5 DEF Types

\* What counting down leaves of a server.
LEMMA CountsDown ==
  ASSUME Types, NEW n \in Servers, NEW e \in OpenEntries, NEW k \in Nat, CountDown(n, e, k),
         DOMAIN e.responseSet = Of(n),
         e.pendingResponseCount >= 1,
         e.pendingResponseCount - k <= Cardinality(Silent(n, e)),
         e.pendingResponseCount - k >= Cardinality(Silent(n, e) \cap (AskedAt(n)' \cup onward'[n].set)),
         onward'[n].at = "lookup" => onward'[n].set \subseteq Silent(n, e),
         \A r \in Of(n) : e.responseSet[r] => r \in responded',
         OnwardOK(n, onward'[n], AskedAt(n)'), ~Unreached(n)',
         fwdTimer[n], ReplyOK(reply[n], AskedAt(n)', responded')
  PROVE  /\ ServerInv(n)'
         /\ reply' \in [Servers -> {NoReply} \cup SentReplies]
         /\ fwdEntry' \in [Servers -> {NoForward} \cup OpenEntries]
         /\ fwdTimer' \in [Servers -> BOOLEAN]
         /\ \A m \in Servers \ {n} : fwdTimer'[m] = fwdTimer[m] /\ fwdEntry'[m] = fwdEntry[m] /\ reply'[m] = reply[m]
<1> DEFINE now == [e EXCEPT !.pendingResponseCount = @ - k]
           waiting == Silent(n, e) \cap (AskedAt(n)' \cup onward'[n].set)
<1>1. now \in OpenEntries /\ now.responseSet = e.responseSet /\ now.pendingResponseCount = e.pendingResponseCount - k
  BY DEF OpenEntries
<1>2. IF k > 0 /\ now.pendingResponseCount = 0 THEN finishForward(n, now, FALSE)
      ELSE fwdEntry' = [fwdEntry EXCEPT ![n] = now] /\ UNCHANGED <<reply, fwdTimer>>
  BY DEF CountDown
<1> HIDE DEF now
<1>3. Cardinality(waiting) \in Nat /\ (Cardinality(waiting) = 0 <=> waiting = {})
      /\ Cardinality(Silent(n, e)) \in Nat
  <2>1. waiting \subseteq Of(n) /\ Silent(n, e) \subseteq Of(n)
    BY DEF Silent
  <2> HIDE DEF waiting
  <2> QED BY <2>1, OfServer
<1>4. e.pendingResponseCount \in Int
  BY DEF OpenEntries
<1>5. CASE k > 0 /\ now.pendingResponseCount = 0
  <2>1. waiting = {}
    <3>1. e.pendingResponseCount - k >= Cardinality(waiting)
      OBVIOUS
    <3> HIDE DEF waiting
    <3> QED BY <1>1, <1>3, <1>4, <1>5, <3>1
  <2>2. \A r \in AskedAt(n)' : e.responseSet[r]
    <3> TAKE r \in AskedAt(n)'
    <3>1. r \in Of(n)
      BY DEF AskedAt, Of
    <3>2. r \notin Silent(n, e)
      BY <2>1
    <3> QED BY <3>1, <3>2 DEF Silent
  <2>3. finishForward(n, now, FALSE)
    BY <1>2, <1>5
  <2> HIDE DEF waiting
  <2> QED BY <1>1, <2>2, <2>3, ForwardFinishes
<1>6. CASE ~(k > 0 /\ now.pendingResponseCount = 0)
  <2>1. now.pendingResponseCount \in 1..Cardinality(Silent(n, e))
    <3>1. e.pendingResponseCount - k >= Cardinality(waiting)
      OBVIOUS
    <3> HIDE DEF waiting
    <3> QED BY <1>1, <1>3, <1>4, <1>6, <3>1
  <2>2. Silent(n, now) = Silent(n, e)
    BY <1>1 DEF Silent
  <2>3. EntryOK(n, now, onward'[n], AskedAt(n)', responded')
    BY <1>1, <2>1, <2>2 DEF EntryOK
  <2>4. now # NoForward
    BY <1>1 DEF OpenEntries, NoForward
  <2>5. fwdEntry'[n] = now /\ fwdTimer'[n] = fwdTimer[n] /\ reply'[n] = reply[n]
    BY <1>2, <1>6 DEF Types
  <2>6. ServerInv(n)'
    BY <2>3, <2>4, <2>5 DEF ServerInv
  <2> QED BY <1>1, <1>2, <1>6, <2>6 DEF Types
<1> QED BY <1>5, <1>6

\* A step at one server, or at none.
LEMMA AtOneServer ==
  ASSUME ForwardInv, NEW n,
         n \in Servers => ServerInv(n)',
         responded \subseteq responded',
         \A m \in Servers \ {n} :
           /\ fwdTimer'[m] = fwdTimer[m] /\ fwdEntry'[m] = fwdEntry[m] /\ onward'[m] = onward[m]
           /\ reply'[m] = reply[m] /\ AskedAt(m)' = AskedAt(m)
           /\ Unreached(m)' => Unreached(m)
  PROVE  \A m \in Servers : ServerInv(m)'
<1> TAKE m \in Servers
<1>1. CASE m = n
  BY <1>1
<1>2. CASE m # n
  <2>1. ServerInv(m)
    BY DEF ForwardInv
  <2>2. m \in Servers \ {n}
    BY <1>2
  <2> QED BY <2>1, <2>2, OtherServer
<1> QED BY <1>1, <1>2

\* What the resources responded so far did is not undone.
LEMMA CallKept ==
  ASSUME ForwardInv, responded \subseteq responded', sent' \subseteq sent, UNCHANGED <<call, leg, responseMap>>
  PROVE  CallInv'
BY DEF ForwardInv, CallInv

-----------------------------------------------------------------------------
(* The sender's steps *)

\* The servers' part is not touched.
LEMMA ServersKept ==
  ASSUME ForwardInv, UNCHANGED listenerVars, \A n \in Servers : Unreached(n)' => Unreached(n)
  PROVE  \A n \in Servers : ServerInv(n)'
<1> TAKE n \in Servers
<1>1. ServerInv(n)
  BY DEF ForwardInv
<1>2. AskedAt(n)' = AskedAt(n)
  BY DEF listenerVars, AskedAt
<1> QED BY <1>1, <1>2, OtherServer DEF listenerVars

\* The call begins, finds no addresses, or has all its answers.
LEMMA CallSteps ==
  ASSUME ForwardInv, forwardRequests \/ AddressesFail \/ Resolve
  PROVE  ForwardInv'
<1>1. UNCHANGED <<tunnelVars, hasTunnel, leg, responseMap, sent, listenerVars>>
  BY DEF forwardRequests, AddressesFail, Resolve
<1>2. \A n \in Servers : ServerInv(n)'
  <2>1. \A n \in Servers : Unreached(n)' => Unreached(n)
    BY <1>1 DEF forwardRequests, AddressesFail, Resolve, Unreached
  <2> QED BY <1>1, <2>1, ServersKept
<1>3. TunnelInv'
  BY <1>1 DEF ForwardInv, TunnelInv, TunnelTypeOK, LastWins, tunnelVars
<1>4. Types'
  BY <1>1 DEF ForwardInv, Types, listenerVars, forwardRequests, AddressesFail, Resolve
<1>5. CallInv'
  BY <1>1 DEF ForwardInv, CallInv, forwardRequests, AddressesFail, Resolve, listenerVars
<1> QED BY <1>2, <1>3, <1>4, <1>5 DEF ForwardInv

\* The requests are sent.
LEMMA SendStep ==
  ASSUME ForwardInv, NEW direct \in SUBSET Servers, NEW tunnelled \in SUBSET Servers,
         SendRequests(direct, tunnelled)
  PROVE  ForwardInv'
<1>1. UNCHANGED <<tunnelVars, hasTunnel, responseMap, listenerVars>> /\ call = "addresses"
  BY DEF SendRequests
<1>2. call' \in {"waiting", "rejected"} /\ sent' \subseteq Servers
  BY DEF SendRequests
<1>3. leg' \in [Servers -> {"none", "post", "tunnel", "ended", "rejected"}]
  BY DEF SendRequests
<1>4. \A n \in Servers : ServerInv(n)'
  <2>1. \A n \in Servers : Unreached(n)' => Unreached(n)
    BY <1>1 DEF Unreached
  <2> QED BY <1>1, <2>1, ServersKept
<1>5. TunnelInv'
  BY <1>1 DEF ForwardInv, TunnelInv, TunnelTypeOK, LastWins, tunnelVars
<1>6. Types'
  BY <1>1, <1>2, <1>3 DEF ForwardInv, Types, listenerVars
<1>7. CallInv'
  BY <1>1, <1>2 DEF ForwardInv, CallInv, listenerVars
<1> QED BY <1>4, <1>5, <1>6, <1>7 DEF ForwardInv

\* What a server's answer adds to the responses.
LEMMA Merges ==
  ASSUME ForwardInv, NEW set, Merge(set), responded' = responded,
         \A r \in DOMAIN set : set[r] => r \in responded
  PROVE  /\ responseMap' \in [Forwarded -> {"none", "failed", "response"}]
         /\ \A r \in Forwarded : responseMap'[r] = "response" => r \in responded'
BY DEF Merge, ForwardInv, Types, CallInv

\* An answer arrives.
LEMMA ReplyStep ==
  ASSUME ForwardInv, NEW n \in Servers, ReplyArrives(n)
  PROVE  ForwardInv'
<1>1. /\ UNCHANGED <<tunnelVars, hasTunnel, call, sent, fwdEntry, fwdTimer, onward, fwdAsked, responded>>
      /\ reply[n] # NoReply /\ reply' = [reply EXCEPT ![n] = NoReply]
  BY DEF ReplyArrives
<1>2. Types
  BY DEF ForwardInv
<1>3. reply[n] \in SentReplies /\ ServerInv(n)
  BY <1>1, <1>2 DEF Types, ForwardInv
<1>4. reply'[n] = NoReply /\ reply' \in [Servers -> {NoReply} \cup SentReplies]
      /\ \A m \in Servers \ {n} : reply'[m] = reply[m]
  BY <1>1, <1>2 DEF Types
<1>5. \A m \in Servers : AskedAt(m)' = AskedAt(m) /\ Unreached(m)' = Unreached(m)
  BY <1>1 DEF AskedAt, Unreached
<1>6. ServerInv(n)'
  BY <1>1, <1>3, <1>4, <1>5 DEF ServerInv, EntryOK, OnwardOK, ReplyOK
<1>7. \A m \in Servers : ServerInv(m)'
  BY <1>1, <1>4, <1>5, <1>6, AtOneServer
<1>8. /\ leg' \in [Servers -> {"none", "post", "tunnel", "ended", "rejected"}]
      /\ \A m \in Servers : leg'[m] = leg[m] \/ leg'[m] = "ended"
  BY <1>2 DEF ReplyArrives, Types
<1>9. /\ responseMap' \in [Forwarded -> {"none", "failed", "response"}]
      /\ \A r \in Forwarded : responseMap'[r] = "response" => r \in responded'
  <2>1. CASE UNCHANGED responseMap
    BY <1>1, <2>1 DEF ForwardInv, Types, CallInv
  <2>2. CASE Merge(reply[n].set)
    BY <1>1, <1>3, <2>2, Merges DEF ServerInv, ReplyOK
  <2>3. CASE Merge([r \in Of(n) |-> FALSE])
    BY <1>1, <2>3, Merges
  <2> QED BY <2>1, <2>2, <2>3 DEF ReplyArrives
<1>10. TunnelInv'
  BY <1>1 DEF ForwardInv, TunnelInv, TunnelTypeOK, LastWins, tunnelVars
<1>11. Types'
  BY <1>1, <1>2, <1>4, <1>8, <1>9 DEF Types
<1>12. CallInv'
  BY <1>1, <1>8, <1>9 DEF ForwardInv, CallInv
<1> QED BY <1>7, <1>10, <1>11, <1>12 DEF ForwardInv

\* A direct request fails.
LEMMA PostFailsStep ==
  ASSUME ForwardInv, NEW n \in Servers, PostFails(n)
  PROVE  ForwardInv'
<1>1. UNCHANGED <<tunnelVars, hasTunnel, call, sent, listenerVars>> /\ Merge([r \in Of(n) |-> FALSE])
  BY DEF PostFails
<1>2. /\ leg' \in [Servers -> {"none", "post", "tunnel", "ended", "rejected"}]
      /\ \A m \in Servers : leg'[m] = leg[m] \/ leg'[m] = "ended"
  BY DEF PostFails, ForwardInv, Types
<1>3. /\ responseMap' \in [Forwarded -> {"none", "failed", "response"}]
      /\ \A r \in Forwarded : responseMap'[r] = "response" => r \in responded'
  BY <1>1, Merges DEF listenerVars
<1>4. \A m \in Servers : ServerInv(m)'
  <2>1. \A m \in Servers : Unreached(m)' => Unreached(m)
    BY <1>1 DEF Unreached
  <2> QED BY <1>1, <2>1, ServersKept
<1>5. TunnelInv'
  BY <1>1 DEF ForwardInv, TunnelInv, TunnelTypeOK, LastWins, tunnelVars
<1>6. Types'
  BY <1>1, <1>2, <1>3 DEF ForwardInv, Types, listenerVars
<1>7. CallInv'
  BY <1>1, <1>2, <1>3 DEF ForwardInv, CallInv
<1> QED BY <1>4, <1>5, <1>6, <1>7 DEF ForwardInv

\* The tunnel changes.
LEMMA TunnelStepsStep ==
  ASSUME ForwardInv, TunnelSteps
  PROVE  ForwardInv'
<1>1. TunnelInv'
  BY TunnelNextInv DEF ForwardInv, TunnelSteps, TunnelDisconnects, TunnelNext
<1>2. UNCHANGED <<hasTunnel, responseMap, sent, listenerVars>>
  BY DEF TunnelSteps, TunnelDisconnects, forwardVars, listenerVars
<1>3. /\ leg' \in [Servers -> {"none", "post", "tunnel", "ended", "rejected"}]
      /\ \A m \in Servers : leg[m] = "ended" => leg'[m] = "ended"
  BY DEF TunnelSteps, TunnelDisconnects, forwardVars, ForwardInv, Types
<1>4. call' = call \/ (call = "waiting" /\ call' = "rejected")
  BY DEF TunnelSteps, TunnelDisconnects, forwardVars
<1>5. \A m \in Servers : ServerInv(m)'
  <2>1. \A m \in Servers : Unreached(m)' => Unreached(m)
    BY <1>2, <1>4 DEF Unreached
  <2> QED BY <1>2, <2>1, ServersKept
<1>6. Types'
  BY <1>2, <1>3, <1>4 DEF ForwardInv, Types, listenerVars
<1>7. CallInv'
  BY <1>2, <1>3, <1>4 DEF ForwardInv, CallInv, listenerVars
<1> QED BY <1>1, <1>5, <1>6, <1>7 DEF ForwardInv

-----------------------------------------------------------------------------
(* The servers' steps *)

\* A step of one server keeps the invariant, when it keeps the server's part.
LEMMA ServerStep ==
  ASSUME ForwardInv, NEW n \in Servers, UNCHANGED <<tunnelVars, hasTunnel, senderVars>>,
         ServerInv(n)',
         responded \subseteq responded', responded' \subseteq Forwarded,
         sent' = sent \/ sent' = sent \ {n},
         fwdAsked' \subseteq Forwarded, fwdAsked' \ Of(n) = fwdAsked \ Of(n),
         onward' \in [Servers -> Onwards], \A m \in Servers \ {n} : onward'[m] = onward[m],
         reply' \in [Servers -> {NoReply} \cup SentReplies],
         fwdEntry' \in [Servers -> {NoForward} \cup OpenEntries],
         fwdTimer' \in [Servers -> BOOLEAN],
         \A m \in Servers \ {n} : fwdTimer'[m] = fwdTimer[m] /\ fwdEntry'[m] = fwdEntry[m] /\ reply'[m] = reply[m]
  PROVE  ForwardInv'
<1>1. TunnelInv'
  BY DEF ForwardInv, TunnelInv, TunnelTypeOK, LastWins, tunnelVars
<1>2. Types'
  BY DEF ForwardInv, Types, senderVars
<1>3. CallInv'
  BY CallKept DEF senderVars
<1>4. \A m \in Servers \ {n} : AskedAt(m)' = AskedAt(m) /\ (Unreached(m)' => Unreached(m))
  <2> TAKE m \in Servers \ {n}
  <2>1. Of(m) \cap Of(n) = {}
    BY Apart
  <2>2. AskedAt(m)' = AskedAt(m)
    BY <2>1 DEF AskedAt, Of
  <2> QED BY <2>2 DEF Unreached, senderVars
<1>5. \A m \in Servers : ServerInv(m)'
  BY <1>4, AtOneServer
<1> QED BY <1>1, <1>2, <1>3, <1>5 DEF ForwardInv

\* A server that has a part in the request was reached by it.
LEMMA Reached ==
  ASSUME ForwardInv, NEW n \in Servers,
         fwdEntry[n] # NoForward \/ onward[n] # Nobody \/ reply[n] # NoReply \/ AskedAt(n) # {}
  PROVE  ~Unreached(n) /\ (UNCHANGED call /\ (sent' = sent \/ sent' = sent \ {n}) => ~Unreached(n)')
<1>1. ~Unreached(n)
  BY DEF ForwardInv, ServerInv
<1> QED BY <1>1 DEF Unreached

\* The cloud loses the request or its answer.
LEMMA LossStep ==
  ASSUME ForwardInv, NEW n \in Servers, CloudLoses(n)
  PROVE  ForwardInv'
<1>1. /\ UNCHANGED <<tunnelVars, hasTunnel, senderVars, fwdEntry, fwdTimer, onward, fwdAsked, responded>>
      /\ sent' = sent \ {n} /\ reply' = [reply EXCEPT ![n] = NoReply]
  BY DEF CloudLoses
<1>2. Types /\ ServerInv(n)
  BY DEF ForwardInv
<1>3. /\ reply'[n] = NoReply /\ reply' \in [Servers -> {NoReply} \cup SentReplies]
      /\ \A m \in Servers \ {n} : reply'[m] = reply[m]
  BY <1>1, <1>2 DEF Types
<1>4. AskedAt(n)' = AskedAt(n) /\ (Unreached(n)' => Unreached(n))
  BY <1>1 DEF AskedAt, Unreached, senderVars
<1>5. ServerInv(n)'
  BY <1>1, <1>2, <1>3, <1>4 DEF ServerInv, EntryOK, OnwardOK, ReplyOK
<1> QED BY <1>1, <1>2, <1>3, <1>5, ServerStep DEF Types

\* The selection is invalid at the server.
LEMMA RefusalStep ==
  ASSUME ForwardInv, NEW n \in Servers, ForwardRefused(n)
  PROVE  ForwardInv'
<1> DEFINE x == [at |-> "sent", status |-> 400, timedOut |-> FALSE, set |-> <<>>]
<1>1. /\ UNCHANGED <<tunnelVars, hasTunnel, senderVars, fwdEntry, fwdTimer, onward, fwdAsked, responded>>
      /\ n \in sent /\ sent' = sent \ {n} /\ reply' = [reply EXCEPT ![n] = x]
  BY DEF ForwardRefused
<1>2. Types /\ ServerInv(n) /\ Unreached(n)
  BY <1>1 DEF ForwardInv, Unreached
<1>3. x \in SentReplies /\ x.status = 400 /\ x.set = <<>>
  <2>1. <<>> \in [{} -> BOOLEAN]
    OBVIOUS
  <2>2. <<>> \in Sets
    BY <2>1 DEF Sets
  <2> QED BY <2>2 DEF SentReplies
<1> HIDE DEF x
<1>4. /\ reply'[n] = x /\ reply' \in [Servers -> {NoReply} \cup SentReplies]
      /\ \A m \in Servers \ {n} : reply'[m] = reply[m]
  BY <1>1, <1>2, <1>3 DEF Types
<1>5. AskedAt(n)' = AskedAt(n) /\ AskedAt(n) = {}
  BY <1>1, <1>2 DEF AskedAt, ServerInv
<1>6. ReplyOK(x, {}, responded)
  BY <1>3 DEF ReplyOK
<1>7. ~Unreached(n)'
  BY <1>1 DEF ForwardInv, CallInv, Unreached, senderVars
<1>8. ServerInv(n)'
  BY <1>1, <1>2, <1>4, <1>5, <1>6, <1>7 DEF ServerInv
<1> QED BY <1>1, <1>2, <1>4, <1>8, ServerStep DEF Types

\* The request arrives: an entry is made for all its resources.
LEMMA ArrivalStep ==
  ASSUME ForwardInv, NEW n \in Servers, NEW local \in SUBSET Of(n), ForwardArrives(n, local)
  PROVE  ForwardInv'
<1> DEFINE none == [r \in Of(n) |-> FALSE]
           e == [at |-> "open", pendingResponseCount |-> Cardinality(Of(n)), responseSet |-> none]
           o == IF local = Of(n) THEN Nobody ELSE [at |-> "lookup", set |-> Of(n) \ local]
<1>1. /\ UNCHANGED <<tunnelVars, hasTunnel, senderVars, reply, responded>>
      /\ n \in sent /\ sent' = sent \ {n} /\ fwdAsked' = fwdAsked \cup local
      /\ fwdEntry' = [fwdEntry EXCEPT ![n] = e] /\ fwdTimer' = [fwdTimer EXCEPT ![n] = TRUE]
      /\ onward' = [onward EXCEPT ![n] = o]
  BY DEF ForwardArrives
<1>2. Types /\ ServerInv(n) /\ Unreached(n)
  BY <1>1 DEF ForwardInv, Unreached
<1>3. Of(n) \subseteq Forwarded /\ Of(n) # {} /\ Cardinality(Of(n)) \in Nat /\ Cardinality(Of(n)) # 0
  BY OfServer
<1>4. e \in OpenEntries /\ e.pendingResponseCount = Cardinality(Of(n)) /\ e.responseSet = none
  <2>1. none \in Sets
    BY <1>3 DEF Sets
  <2> HIDE DEF none
  <2> QED BY <1>3, <2>1 DEF OpenEntries
<1>5. DOMAIN none = Of(n) /\ \A r \in Of(n) : ~none[r]
  OBVIOUS
<1> HIDE DEF none
<1>6. Silent(n, e) = Of(n)
  BY <1>5 DEF Silent
<1> HIDE DEF e
<1>7. /\ o \in Onwards /\ o.set \subseteq Of(n) /\ o.set \cap local = {}
      /\ o.at = "none" => o = Nobody
  BY <1>3 DEF Onwards, Nobody
<1> HIDE DEF o
<1>8. AskedAt(n)' = local
  BY <1>1, <1>2 DEF AskedAt, ServerInv, Of
<1>9. EntryOK(n, e, o, local, responded)
  <2>1. Silent(n, e) \cap (local \cup o.set) \subseteq Of(n)
    BY <1>6
  <2>2. Cardinality(Silent(n, e) \cap (local \cup o.set)) <= Cardinality(Of(n))
    <3> DEFINE S == Silent(n, e) \cap (local \cup o.set)
    <3> HIDE DEF S
    <3>1. S \subseteq Of(n)
      BY <2>1 DEF S
    <3>2. Cardinality(S) <= Cardinality(Of(n))
      BY <3>1, OfServer
    <3> QED BY <3>2 DEF S
  <2>3. Cardinality(Silent(n, e)) = Cardinality(Of(n))
    BY <1>6, Zenon
  <2>4. e.pendingResponseCount \in 1..Cardinality(Silent(n, e))
    BY <1>3, <1>4, <2>3
  <2>5. e.pendingResponseCount >= Cardinality(Silent(n, e) \cap (local \cup o.set))
    <3>1. Cardinality(Silent(n, e) \cap (local \cup o.set)) \in Nat
      BY <2>1, OfServer
    <3> QED BY <1>3, <1>4, <2>2, <3>1
  <2>6. o.at = "lookup" => o.set \subseteq Silent(n, e)
    BY <1>6, <1>7
  <2> QED BY <1>4, <1>5, <2>4, <2>5, <2>6 DEF EntryOK
<1>10. /\ fwdEntry'[n] = e /\ fwdTimer'[n] = TRUE /\ onward'[n] = o /\ reply'[n] = reply[n]
       /\ fwdEntry' \in [Servers -> {NoForward} \cup OpenEntries] /\ fwdTimer' \in [Servers -> BOOLEAN]
       /\ onward' \in [Servers -> Onwards]
       /\ \A m \in Servers \ {n} : fwdTimer'[m] = fwdTimer[m] /\ fwdEntry'[m] = fwdEntry[m] /\ onward'[m] = onward[m]
  BY <1>1, <1>2, <1>4, <1>7 DEF Types
<1>11. e # NoForward
  BY <1>4 DEF OpenEntries, NoForward
<1>12. ~Unreached(n)'
  BY <1>1 DEF ForwardInv, CallInv, Unreached, senderVars
<1>13. OnwardOK(n, o, local) /\ reply[n] = NoReply
  BY <1>2, <1>7 DEF OnwardOK, ServerInv
<1>14. ServerInv(n)'
  BY <1>1, <1>8, <1>9, <1>10, <1>11, <1>12, <1>13 DEF ServerInv, ReplyOK
<1>15. fwdAsked' \subseteq Forwarded /\ fwdAsked' \ Of(n) = fwdAsked \ Of(n)
  BY <1>1, <1>2, <1>3 DEF Types
<1> QED BY <1>1, <1>2, <1>10, <1>14, <1>15, ServerStep DEF Types

\* The owner records are read.
LEMMA OwnersStep ==
  ASSUME ForwardInv, NEW n \in Servers, NEW gone \in SUBSET Of(n), ForwardOwnersRead(n, gone)
  PROVE  ForwardInv'
<1> DEFINE o == IF gone = onward[n].set \/ (gone # {} /\ fwdEntry[n] = NoForward) THEN Nobody
                ELSE [at |-> "sent", set |-> onward[n].set \ gone]
           e == fwdEntry[n]
<1>1. /\ UNCHANGED <<tunnelVars, hasTunnel, senderVars, sent, fwdAsked, responded>>
      /\ onward[n].at = "lookup" /\ gone \subseteq onward[n].set
      /\ IF e = NoForward THEN UNCHANGED <<fwdEntry, reply, fwdTimer>>
         ELSE CountDown(n, e, Cardinality(gone))
  BY DEF ForwardOwnersRead
<1>2. Types /\ ServerInv(n)
  BY DEF ForwardInv
<1>3. onward' = [onward EXCEPT ![n] = o]
  BY <1>2 DEF ForwardOwnersRead, Types
<1>4. onward[n] \in Onwards /\ onward[n].set \subseteq Of(n) /\ onward[n].set \cap AskedAt(n) = {}
  BY <1>1, <1>2 DEF ServerInv, OnwardOK, Types
<1>5. /\ o \in Onwards /\ o.at # "lookup" /\ o.set \subseteq onward[n].set \ gone
      /\ o.at = "none" => o = Nobody
  BY <1>4 DEF Onwards, Nobody
<1> HIDE DEF o
<1>6. /\ onward'[n] = o /\ onward' \in [Servers -> Onwards]
      /\ \A m \in Servers \ {n} : onward'[m] = onward[m]
  BY <1>2, <1>3, <1>5 DEF Types
<1>7. ~Unreached(n)'
  <2>1. onward[n] # Nobody
    BY <1>1 DEF Nobody
  <2> QED BY <1>1, <2>1, Reached DEF senderVars
<1>8. AskedAt(n)' = AskedAt(n) /\ OnwardOK(n, o, AskedAt(n))
  BY <1>1, <1>4, <1>5 DEF AskedAt, OnwardOK
<1>9. CASE e = NoForward
  <2>1. ServerInv(n)'
    BY <1>1, <1>2, <1>6, <1>7, <1>8, <1>9 DEF ServerInv
  <2> QED BY <1>1, <1>2, <1>6, <1>9, <2>1, ServerStep DEF Types
<1>10. CASE e # NoForward
  <2>1. e \in OpenEntries /\ EntryOK(n, e, onward[n], AskedAt(n), responded) /\ fwdTimer[n]
    BY <1>2, <1>10 DEF Types, ServerInv
  <2> HIDE DEF e
  <2> DEFINE silent == Silent(n, e)
             before == silent \cap (AskedAt(n) \cup onward[n].set)
             after == silent \cap (AskedAt(n) \cup o.set)
             k == Cardinality(gone)
             c == e.pendingResponseCount
  <2>2. gone \subseteq silent /\ silent \subseteq Of(n)
    BY <1>1, <2>1 DEF EntryOK, Silent
  <2>3. gone \subseteq before /\ after \subseteq before \ gone /\ before \subseteq Of(n)
    BY <1>1, <1>4, <1>5, <2>2
  <2>4. c >= Cardinality(before) /\ c \in 1..Cardinality(silent)
    BY <2>1 DEF EntryOK
  <2> HIDE DEF silent, before, after
  <2>5. k \in Nat /\ Cardinality(before) \in Nat /\ Cardinality(silent) \in Nat
        /\ Cardinality(before \ gone) = Cardinality(before) - k
    BY <2>2, <2>3, OfServer
  <2>6. Cardinality(after) <= Cardinality(before \ gone) /\ Cardinality(after) \in Nat
    <3>1. before \ gone \subseteq Of(n)
      BY <2>3
    <3>2. after \subseteq Of(n)
      BY <2>3
    <3> QED BY <2>3, <3>1, <3>2, OfServer
  <2> HIDE DEF k, c
  <2>7. c - k <= Cardinality(silent) /\ c - k >= Cardinality(after) /\ c >= 1
    BY <2>4, <2>5, <2>6
  <2>8. /\ c - k <= Cardinality(Silent(n, e)) /\ c >= 1
        /\ c - k >= Cardinality(Silent(n, e) \cap (AskedAt(n) \cup o.set))
    BY <2>7, Zenon DEF silent, after
  <2>9. CountDown(n, e, k)
    BY <1>1, <1>10 DEF k, e
  <2>10. ReplyOK(reply[n], AskedAt(n), responded)
    BY <1>2 DEF ServerInv
  <2>11. DOMAIN e.responseSet = Of(n) /\ \A r \in Of(n) : e.responseSet[r] => r \in responded
    BY <2>1 DEF EntryOK
  <2>12. /\ e.pendingResponseCount - k <= Cardinality(Silent(n, e)) /\ e.pendingResponseCount >= 1
         /\ e.pendingResponseCount - k >= Cardinality(Silent(n, e) \cap (AskedAt(n)' \cup onward'[n].set))
    BY <1>6, <1>8, <2>8, Zenon DEF c
  <2>13. /\ ServerInv(n)'
         /\ reply' \in [Servers -> {NoReply} \cup SentReplies]
         /\ fwdEntry' \in [Servers -> {NoForward} \cup OpenEntries]
         /\ fwdTimer' \in [Servers -> BOOLEAN]
         /\ \A m \in Servers \ {n} : fwdTimer'[m] = fwdTimer[m] /\ fwdEntry'[m] = fwdEntry[m] /\ reply'[m] = reply[m]
    <3>1. onward'[n].at # "lookup" /\ OnwardOK(n, onward'[n], AskedAt(n)')
          /\ (\A r \in Of(n) : e.responseSet[r] => r \in responded')
          /\ ReplyOK(reply[n], AskedAt(n)', responded')
      BY <1>1, <1>5, <1>6, <1>8, <2>10, <2>11
    <3> QED BY <1>2, <1>7, <2>1, <2>5, <2>9, <2>11, <2>12, <3>1, CountsDown
  <2> QED BY <1>1, <1>2, <1>6, <2>13, ServerStep DEF Types
<1> QED BY <1>9, <1>10

\* Forwarding once more fails.
LEMMA OnwardFailsStep ==
  ASSUME ForwardInv, NEW n \in Servers, OnwardFails(n)
  PROVE  ForwardInv'
<1>1. /\ UNCHANGED <<tunnelVars, hasTunnel, senderVars, sent, reply, fwdEntry, fwdTimer, fwdAsked, responded>>
      /\ onward[n] # Nobody /\ onward' = [onward EXCEPT ![n] = Nobody]
  BY DEF OnwardFails
<1>2. Types /\ ServerInv(n)
  BY DEF ForwardInv
<1>3. Nobody \in Onwards /\ Nobody.set = {} /\ Nobody.at = "none"
  BY DEF Onwards, Nobody
<1>4. /\ onward'[n] = Nobody /\ onward' \in [Servers -> Onwards]
      /\ \A m \in Servers \ {n} : onward'[m] = onward[m]
  BY <1>1, <1>2, <1>3 DEF Types
<1>5. AskedAt(n)' = AskedAt(n) /\ ~Unreached(n)'
  BY <1>1, Reached DEF AskedAt, senderVars
<1>6. ASSUME fwdEntry[n] # NoForward
      PROVE  EntryOK(n, fwdEntry[n], Nobody, AskedAt(n), responded)
  <2> DEFINE e == fwdEntry[n]
             before == Silent(n, e) \cap (AskedAt(n) \cup onward[n].set)
             after == Silent(n, e) \cap (AskedAt(n) \cup Nobody.set)
  <2>1. EntryOK(n, e, onward[n], AskedAt(n), responded) /\ e.pendingResponseCount \in Int
    BY <1>2, <1>6 DEF ServerInv, Types, OpenEntries, NoForward
  <2>2. e.pendingResponseCount >= Cardinality(before)
    BY <2>1 DEF EntryOK
  <2>3. after \subseteq before /\ before \subseteq Of(n)
    BY <1>3 DEF Silent
  <2> HIDE DEF e, before, after
  <2>4. Cardinality(after) <= Cardinality(before) /\ Cardinality(before) \in Nat /\ Cardinality(after) \in Nat
    <3>1. after \subseteq Of(n)
      BY <2>3
    <3> QED BY <2>3, <3>1, OfServer
  <2>5. e.pendingResponseCount >= Cardinality(after)
    BY <2>1, <2>2, <2>4
  <2> QED BY <1>3, <2>1, <2>5 DEF EntryOK, after, e
<1>7. OnwardOK(n, Nobody, AskedAt(n))
  BY <1>3 DEF OnwardOK
<1>8. ServerInv(n)'
  BY <1>1, <1>2, <1>4, <1>5, <1>6, <1>7 DEF ServerInv
<1> QED BY <1>1, <1>2, <1>4, <1>8, ServerStep DEF Types

\* Responses of the resources S at a server, from clients or from further away.
LEMMA ResponsesStep ==
  ASSUME ForwardInv, NEW n \in Servers, NEW S, S \subseteq AskedAt(n) \cup onward[n].set,
         forwardResponse(n, S), responded' = responded \cup S,
         UNCHANGED <<tunnelVars, hasTunnel, senderVars, sent, fwdAsked>>,
         onward' \in [Servers -> Onwards], \A m \in Servers \ {n} : onward'[m] = onward[m],
         \/ onward'[n] = Nobody
         \/ onward'[n] = onward[n] /\ S \subseteq AskedAt(n),
         onward[n] # Nobody \/ AskedAt(n) # {}
  PROVE  ForwardInv'
<1> DEFINE e == fwdEntry[n]
           new == {r \in S \cap DOMAIN e.responseSet : ~e.responseSet[r]}
           f == [r \in DOMAIN e.responseSet |-> r \in new \/ e.responseSet[r]]
           e2 == [e EXCEPT !.responseSet = f]
           k == Cardinality(new)
<1>1. Types /\ ServerInv(n)
  BY DEF ForwardInv
<1>2. ~Unreached(n)' /\ AskedAt(n)' = AskedAt(n)
  BY Reached DEF senderVars, AskedAt
<1>3. onward[n].set \subseteq Of(n) /\ AskedAt(n) \subseteq Of(n) /\ S \subseteq Of(n) /\ Of(n) \subseteq Forwarded
  BY <1>1, OfServer DEF ServerInv, OnwardOK, AskedAt
<1>4. Nobody.set = {} /\ Nobody.at = "none"
  BY DEF Nobody
<1>5. OnwardOK(n, onward'[n], AskedAt(n)) /\ onward'[n].set \subseteq onward[n].set
      /\ (onward'[n].at = "lookup" => onward'[n] = onward[n] /\ S \subseteq AskedAt(n))
  BY <1>1, <1>4 DEF OnwardOK, ServerInv
<1>6. ReplyOK(reply[n], AskedAt(n), responded \cup S)
  BY <1>1 DEF ServerInv, ReplyOK
<1>7. responded \subseteq responded' /\ responded' \subseteq Forwarded
  BY <1>1, <1>3 DEF Types
<1>8. CASE e = NoForward
  <2>1. UNCHANGED <<fwdEntry, reply, fwdTimer>>
    BY <1>8 DEF forwardResponse
  <2>2. ServerInv(n)'
    BY <1>1, <1>2, <1>5, <1>6, <1>8, <2>1 DEF ServerInv
  <2> QED BY <1>1, <1>7, <2>1, <2>2, ServerStep DEF Types
<1>9. CASE e # NoForward
  <2>1. e \in OpenEntries /\ EntryOK(n, e, onward[n], AskedAt(n), responded) /\ fwdTimer[n]
    BY <1>1, <1>9 DEF Types, ServerInv
  <2>2. CountDown(n, e2, k)
    BY <1>9 DEF forwardResponse
  <2> HIDE DEF e
  <2>3. DOMAIN e.responseSet = Of(n) /\ e.responseSet \in [Of(n) -> BOOLEAN]
    <3>1. DOMAIN e.responseSet = Of(n)
      BY <2>1 DEF EntryOK
    <3>2. e.responseSet \in Sets
      BY <2>1 DEF OpenEntries
    <3> QED BY <3>1, <3>2 DEF Sets
  <2>4. f \in [Of(n) -> BOOLEAN] /\ f \in Sets
    BY <1>3, <2>3 DEF Sets
  <2>5. \A r \in Of(n) : f[r] <=> r \in new \/ e.responseSet[r]
    BY <2>3
  <2>6. new \subseteq Silent(n, e) /\ new \subseteq S
    BY <1>3 DEF Silent
  <2> HIDE DEF f
  <2>7. e2 = [at |-> "open", pendingResponseCount |-> e.pendingResponseCount, responseSet |-> f]
    BY <2>1 DEF OpenEntries
  <2>8. e2 \in OpenEntries /\ e2.responseSet = f /\ e2.pendingResponseCount = e.pendingResponseCount
    <3>1. e.pendingResponseCount \in Int
      BY <2>1 DEF OpenEntries
    <3> HIDE DEF e2
    <3> QED BY <2>4, <2>7, <3>1 DEF OpenEntries
  <2> HIDE DEF e2, new
  <2> DEFINE silent == Silent(n, e)
             before == silent \cap (AskedAt(n) \cup onward[n].set)
             after == Silent(n, e2) \cap (AskedAt(n) \cup onward'[n].set)
             c == e.pendingResponseCount
  <2>9. Silent(n, e2) = silent \ new
    BY <2>5, <2>8 DEF Silent
  <2>10. new \subseteq before /\ after \subseteq before \ new /\ before \subseteq Of(n) /\ silent \subseteq Of(n)
    BY <1>3, <1>5, <2>6, <2>9 DEF Silent
  <2>11. c >= Cardinality(before) /\ c \in 1..Cardinality(silent)
    BY <2>1 DEF EntryOK
  <2>12. Cardinality(Silent(n, e2)) = Cardinality(silent \ new)
    BY <2>9, Zenon
  <2> HIDE DEF silent, before, after
  <2>13. /\ k \in Nat /\ Cardinality(before) \in Nat /\ Cardinality(silent) \in Nat
         /\ Cardinality(before \ new) = Cardinality(before) - k
    <3>1. new \subseteq Of(n)
      BY <2>10
    <3> QED BY <2>10, <3>1, OfServer
  <2>14. Cardinality(silent \ new) = Cardinality(silent) - k
    <3>1. new \subseteq silent
      BY <2>6 DEF silent
    <3> QED BY <2>10, <3>1, OfServer
  <2>15. Cardinality(after) <= Cardinality(before \ new) /\ Cardinality(after) \in Nat
    <3>1. before \ new \subseteq Of(n)
      BY <2>10
    <3>2. after \subseteq Of(n)
      BY <2>10
    <3> QED BY <2>10, <3>1, <3>2, OfServer
  <2> HIDE DEF k, c
  <2>16. c - k <= Cardinality(Silent(n, e2)) /\ c - k >= Cardinality(after) /\ c >= 1
    BY <2>11, <2>12, <2>13, <2>14, <2>15
  <2>17. /\ e2.pendingResponseCount - k <= Cardinality(Silent(n, e2)) /\ e2.pendingResponseCount >= 1
         /\ e2.pendingResponseCount - k >= Cardinality(Silent(n, e2) \cap (AskedAt(n)' \cup onward'[n].set))
    BY <1>2, <2>8, <2>16, Zenon DEF c, after
  <2>18. \A r \in Of(n) : e2.responseSet[r] => r \in responded'
    BY <2>1, <2>5, <2>6, <2>8 DEF EntryOK
  <2>19. onward'[n].at = "lookup" => onward'[n].set \subseteq Silent(n, e2)
    BY <1>1, <1>5, <2>1, <2>6, <2>9 DEF EntryOK, silent, ServerInv, OnwardOK
  <2>20. DOMAIN e2.responseSet = Of(n)
    BY <2>4, <2>8
  <2>21. OnwardOK(n, onward'[n], AskedAt(n)') /\ ReplyOK(reply[n], AskedAt(n)', responded')
    BY <1>2, <1>5, <1>6
  <2>22. /\ ServerInv(n)'
         /\ reply' \in [Servers -> {NoReply} \cup SentReplies]
         /\ fwdEntry' \in [Servers -> {NoForward} \cup OpenEntries]
         /\ fwdTimer' \in [Servers -> BOOLEAN]
         /\ \A m \in Servers \ {n} : fwdTimer'[m] = fwdTimer[m] /\ fwdEntry'[m] = fwdEntry[m] /\ reply'[m] = reply[m]
    BY <1>1, <1>2, <2>1, <2>2, <2>8, <2>13, <2>17, <2>18, <2>19, <2>20, <2>21, CountsDown
  <2> QED BY <1>1, <1>7, <2>22, ServerStep DEF Types
<1> QED BY <1>8, <1>9

\* Responses that come from further away.
LEMMA OnwardRespondsStep ==
  ASSUME ForwardInv, NEW n \in Servers, NEW S \in SUBSET Of(n), OnwardResponds(n, S)
  PROVE  ForwardInv'
<1>1. /\ UNCHANGED <<tunnelVars, hasTunnel, senderVars, sent, fwdAsked>>
      /\ onward[n].at = "sent" /\ S \subseteq onward[n].set /\ onward' = [onward EXCEPT ![n] = Nobody]
      /\ forwardResponse(n, S) /\ responded' = responded \cup S
  BY DEF OnwardResponds
<1>2. onward'[n] = Nobody /\ onward' \in [Servers -> Onwards]
      /\ \A m \in Servers \ {n} : onward'[m] = onward[m]
  BY <1>1 DEF ForwardInv, Types, Onwards, Nobody
<1>3. onward[n] # Nobody
  BY <1>1 DEF Nobody
<1> QED BY <1>1, <1>2, <1>3, ResponsesStep

\* A client responds.
LEMMA ClientStep ==
  ASSUME ForwardInv, NEW r \in Forwarded, ForwardClientResponds(r)
  PROVE  ForwardInv'
<1> DEFINE n == Owner[r]
<1>1. /\ UNCHANGED <<tunnelVars, hasTunnel, senderVars, sent, onward, fwdAsked>>
      /\ r \in fwdAsked /\ forwardResponse(n, {r}) /\ responded' = responded \cup {r}
  BY DEF ForwardClientResponds
<1>2. n \in Servers /\ r \in AskedAt(n)
  BY <1>1, ForwardAssumption DEF AskedAt, Of
<1> HIDE DEF n
<1>3. onward' \in [Servers -> Onwards]
  BY <1>1 DEF ForwardInv, Types
<1> QED BY <1>1, <1>2, <1>3, ResponsesStep

\* The timeout of an entry fires.
LEMMA TimeoutStep ==
  ASSUME ForwardInv, NEW n \in Servers, ForwardTimeout(n)
  PROVE  ForwardInv'
<1> DEFINE e == fwdEntry[n]
<1>1. /\ UNCHANGED <<tunnelVars, hasTunnel, senderVars, sent, onward, fwdAsked, responded>>
      /\ e # NoForward /\ finishForward(n, e, TRUE)
  BY DEF ForwardTimeout
<1>2. Types /\ ServerInv(n)
  BY DEF ForwardInv
<1>3. e \in OpenEntries /\ \A r \in DOMAIN e.responseSet : e.responseSet[r] => r \in responded
  BY <1>1, <1>2 DEF Types, ServerInv, EntryOK
<1>4. AskedAt(n)' = AskedAt(n) /\ ~Unreached(n)' /\ OnwardOK(n, onward[n], AskedAt(n))
  BY <1>1, <1>2, Reached DEF AskedAt, senderVars, ServerInv
<1> HIDE DEF e
<1>5. /\ ServerInv(n)'
      /\ reply' \in [Servers -> {NoReply} \cup SentReplies]
      /\ fwdEntry' \in [Servers -> {NoForward} \cup OpenEntries]
      /\ fwdTimer' \in [Servers -> BOOLEAN]
      /\ \A m \in Servers \ {n} : fwdTimer'[m] = fwdTimer[m] /\ fwdEntry'[m] = fwdEntry[m] /\ reply'[m] = reply[m]
  BY <1>1, <1>2, <1>3, <1>4, ForwardFinishes
<1> QED BY <1>1, <1>2, <1>5, ServerStep DEF Types

\* A server ends, and starts again with nothing.
LEMMA CrashStep ==
  ASSUME ForwardInv, NEW n \in Servers, ServerCrash(n)
  PROVE  ForwardInv'
<1>1. /\ UNCHANGED <<tunnelVars, hasTunnel, senderVars, sent, reply, responded>>
      /\ fwdEntry[n] # NoForward /\ fwdAsked' = fwdAsked \ Of(n)
      /\ fwdEntry' = [fwdEntry EXCEPT ![n] = NoForward] /\ fwdTimer' = [fwdTimer EXCEPT ![n] = FALSE]
      /\ onward' = [onward EXCEPT ![n] = Nobody]
  BY DEF ServerCrash
<1>2. Types /\ ServerInv(n)
  BY DEF ForwardInv
<1>3. Nobody \in Onwards /\ Nobody.set = {} /\ Nobody.at = "none"
  BY DEF Onwards, Nobody
<1>4. /\ fwdEntry'[n] = NoForward /\ ~fwdTimer'[n] /\ onward'[n] = Nobody
      /\ fwdEntry' \in [Servers -> {NoForward} \cup OpenEntries] /\ fwdTimer' \in [Servers -> BOOLEAN]
      /\ onward' \in [Servers -> Onwards]
      /\ \A m \in Servers \ {n} : fwdTimer'[m] = fwdTimer[m] /\ fwdEntry'[m] = fwdEntry[m] /\ onward'[m] = onward[m]
  BY <1>1, <1>2, <1>3 DEF Types
<1>5. AskedAt(n)' = {} /\ ~Unreached(n)'
  BY <1>1, Reached DEF AskedAt, Of, senderVars
<1>6. OnwardOK(n, Nobody, {}) /\ ReplyOK(reply[n], {}, responded)
  BY <1>2, <1>3 DEF OnwardOK, ReplyOK, ServerInv
<1>7. ServerInv(n)'
  BY <1>1, <1>4, <1>5, <1>6 DEF ServerInv
<1>8. fwdAsked' \subseteq Forwarded /\ fwdAsked' \ Of(n) = fwdAsked \ Of(n)
  BY <1>1, <1>2 DEF Types
<1> QED BY <1>1, <1>2, <1>4, <1>7, <1>8, ServerStep DEF Types

-----------------------------------------------------------------------------
(* Forwarded requests: the theorems *)

\* Every step of a forwarded request keeps the invariant.
LEMMA ForwardNextInv == ForwardInv /\ [ForwardNext]_fwdVars => ForwardInv'
<1> SUFFICES ASSUME ForwardInv, [ForwardNext]_fwdVars PROVE ForwardInv'
  OBVIOUS
<1>1. CASE forwardRequests \/ AddressesFail \/ Resolve
  BY <1>1, CallSteps
<1>2. CASE TunnelSteps
  BY <1>2, TunnelStepsStep
<1>3. ASSUME NEW direct \in SUBSET Servers, NEW tunnelled \in SUBSET Servers, SendRequests(direct, tunnelled)
      PROVE  ForwardInv'
  BY <1>3, SendStep
<1>4. ASSUME NEW n \in Servers,
             \/ ReplyArrives(n) \/ PostFails(n) \/ CloudLoses(n)
             \/ ForwardRefused(n) \/ OnwardFails(n) \/ ForwardTimeout(n) \/ ServerCrash(n)
      PROVE  ForwardInv'
  BY <1>4, ReplyStep, PostFailsStep, LossStep, RefusalStep, OnwardFailsStep, TimeoutStep, CrashStep
<1>5. ASSUME NEW n \in Servers, NEW S \in SUBSET Of(n),
             ForwardArrives(n, S) \/ ForwardOwnersRead(n, S) \/ OnwardResponds(n, S)
      PROVE  ForwardInv'
  BY <1>5, ArrivalStep, OwnersStep, OnwardRespondsStep
<1>6. ASSUME NEW r \in Forwarded, ForwardClientResponds(r)
      PROVE  ForwardInv'
  BY <1>6, ClientStep
<1>7. CASE UNCHANGED fwdVars
  <2>1. UNCHANGED <<tunnelVars, hasTunnel, call, leg, responseMap, sent, listenerVars>>
    BY <1>7 DEF fwdVars, forwardVars, listenerVars
  <2>2. \A n \in Servers : ServerInv(n)'
    <3>1. \A n \in Servers : Unreached(n)' => Unreached(n)
      BY <2>1 DEF Unreached
    <3> QED BY <2>1, <3>1, ServersKept
  <2>3. TunnelInv'
    BY <2>1 DEF ForwardInv, TunnelInv, TunnelTypeOK, LastWins, tunnelVars
  <2>4. Types' /\ CallInv'
    BY <2>1 DEF ForwardInv, Types, CallInv, listenerVars
  <2> QED BY <2>2, <2>3, <2>4 DEF ForwardInv
<1> QED BY <1>1, <1>2, <1>3, <1>4, <1>5, <1>6, <1>7 DEF ForwardNext

\* And it holds at first.
LEMMA ForwardInitInv == ForwardInit => ForwardInv
<1> SUFFICES ASSUME ForwardInit PROVE ForwardInv
  OBVIOUS
<1>1. TunnelInv
  BY TunnelInitInv DEF ForwardInit
<1>2. Types /\ CallInv
  BY DEF ForwardInit, Types, CallInv, Onwards, Nobody
<1>3. \A n \in Servers : ServerInv(n)
  BY DEF ForwardInit, ServerInv, OnwardOK, ReplyOK, Nobody, AskedAt, Of
<1> QED BY <1>1, <1>2, <1>3 DEF ForwardInv

\* What it says of entries and answers.
LEMMA ForwardInvImplies == ForwardInv => ForwardedEntryWaits /\ RepliesComplete
<1> SUFFICES ASSUME ForwardInv PROVE ForwardedEntryWaits /\ RepliesComplete
  OBVIOUS
<1>1. Types /\ TunnelTypeOK /\ \A n \in Servers : ServerInv(n)
  BY TunnelInvImplies DEF ForwardInv
<1>2. ForwardTypeOK
  BY <1>1 DEF Types, ForwardTypeOK, OpenEntries, SentReplies, Onwards
<1>3. EntriesWait
  <2> SUFFICES ASSUME NEW n \in Servers, fwdEntry[n] # NoForward
               PROVE  fwdEntry[n].pendingResponseCount
                        \in 1..Cardinality({r \in DOMAIN fwdEntry[n].responseSet : ~fwdEntry[n].responseSet[r]})
    BY <1>1 DEF EntriesWait, ServerInv
  <2>1. EntryOK(n, fwdEntry[n], onward[n], AskedAt(n), responded)
    BY <1>1 DEF ServerInv
  <2>2. {r \in DOMAIN fwdEntry[n].responseSet : ~fwdEntry[n].responseSet[r]} = Silent(n, fwdEntry[n])
    BY <2>1 DEF EntryOK, Silent
  <2>3. Cardinality({r \in DOMAIN fwdEntry[n].responseSet : ~fwdEntry[n].responseSet[r]})
          = Cardinality(Silent(n, fwdEntry[n]))
    BY <2>2, Zenon
  <2>4. fwdEntry[n].pendingResponseCount \in 1..Cardinality(Silent(n, fwdEntry[n]))
    BY <2>1 DEF EntryOK
  <2> QED BY <2>3, <2>4, Zenon
<1>4. RepliesComplete
  BY <1>1 DEF RepliesComplete, ServerInv, ReplyOK, AskedAt
<1> QED BY <1>2, <1>3, <1>4 DEF ForwardedEntryWaits

\* The values have their types, a listener's timeout is armed exactly while it
\* has its entry, and an entry waits for some resource that is silent, whatever
\* responses, lookups, timeouts and crashes come in between, for every finite
\* set of resources and every set of servers.
THEOREM EntriesWaitForSomebody == ForwardSpec => []ForwardedEntryWaits
<1>1. ForwardInit => ForwardInv
  BY ForwardInitInv
<1>2. ForwardInv /\ [ForwardNext]_fwdVars => ForwardInv'
  BY ForwardNextInv
<1>3. ForwardInv => ForwardedEntryWaits
  BY ForwardInvImplies
<1> QED BY <1>1, <1>2, <1>3, PTL DEF ForwardSpec

\* An answer that no timeout cut short has the response of each client that was
\* asked.
THEOREM CompleteReplies == ForwardSpec => []RepliesComplete
<1>1. ForwardInit => ForwardInv
  BY ForwardInitInv
<1>2. ForwardInv /\ [ForwardNext]_fwdVars => ForwardInv'
  BY ForwardNextInv
<1>3. ForwardInv => RepliesComplete
  BY ForwardInvImplies
<1> QED BY <1>1, <1>2, <1>3, PTL DEF ForwardSpec

\* A step that leaves the call where it is maps to a stutter, or to responses.
LEMMA CallStays ==
  ASSUME UNCHANGED call, call = "resolved" => UNCHANGED responseMap,
         UNCHANGED responded \/ \E S \in SUBSET Forwarded : responded' = responded \cup S
  PROVE  [Answer!Next]_(Answer!answerVars)
<1>1. UNCHANGED <<AnswerState, AnswerGiven>>
  BY DEF AnswerState, AnswerGiven
<1> QED BY <1>1 DEF Answer!Next, Answer!answerVars, Answer!Respond

\* A call that is rejected has lost its answer.
LEMMA CallLost ==
  ASSUME call \in {"idle", "addresses", "waiting"}, call' = "rejected", UNCHANGED responded
  PROVE  Answer!Next
<1>1. AnswerState = "waiting" /\ AnswerState' = "lost" /\ UNCHANGED AnswerGiven
  BY DEF AnswerState, AnswerGiven
<1> QED BY <1>1 DEF Answer!Next, Answer!Lose

\* Every step of a forwarded request maps to a step of the abstract answer, or
\* to none: what was resolved is not changed by a late answer.
LEMMA ForwardRefines ==
  ForwardInv /\ [ForwardNext]_fwdVars => [Answer!Next]_(Answer!answerVars)
<1> SUFFICES ASSUME ForwardInv, [ForwardNext]_fwdVars PROVE [Answer!Next]_(Answer!answerVars)
  OBVIOUS
<1>0. Types /\ CallInv
  BY DEF ForwardInv
<1>1. CASE forwardRequests
  <2>1. UNCHANGED <<AnswerState, AnswerGiven, responded>>
    BY <1>1 DEF forwardRequests, AnswerState, AnswerGiven, listenerVars
  <2> QED BY <2>1 DEF Answer!answerVars
<1>2. CASE AddressesFail
  BY <1>2, CallLost DEF AddressesFail, listenerVars
<1>3. CASE Resolve
  <2>1. AnswerState = "waiting" /\ AnswerState' = "answered" /\ AnswerGiven' = responseMap
        /\ UNCHANGED responded
    BY <1>3 DEF Resolve, AnswerState, AnswerGiven, listenerVars
  <2>2. responseMap \in [Forwarded -> {"none", "failed", "response"}]
        /\ \A r \in Forwarded : responseMap[r] = "response" => r \in responded
    BY <1>0 DEF Types, CallInv
  <2> QED BY <2>1, <2>2 DEF Answer!Next, Answer!Answer
<1>4. CASE TunnelSteps
  <2>1. UNCHANGED <<responseMap, responded>>
    BY <1>4 DEF TunnelSteps, TunnelDisconnects, forwardVars, listenerVars
  <2>2. UNCHANGED call \/ (call = "waiting" /\ call' = "rejected")
    BY <1>4 DEF TunnelSteps, TunnelDisconnects, forwardVars
  <2> QED BY <2>1, <2>2, CallStays, CallLost
<1>5. ASSUME NEW direct \in SUBSET Servers, NEW tunnelled \in SUBSET Servers, SendRequests(direct, tunnelled)
      PROVE  [Answer!Next]_(Answer!answerVars)
  <2>1. call = "addresses" /\ UNCHANGED responded /\ (call' = "rejected" \/ call' = "waiting")
    BY <1>5 DEF SendRequests, listenerVars
  <2>2. CASE call' = "rejected"
    BY <2>1, <2>2, CallLost
  <2>3. CASE call' = "waiting"
    <3>1. UNCHANGED <<AnswerState, AnswerGiven>>
      BY <2>1, <2>3 DEF AnswerState, AnswerGiven
    <3> QED BY <2>1, <3>1 DEF Answer!answerVars
  <2> QED BY <2>1, <2>2, <2>3
<1>6. ASSUME NEW n \in Servers, ReplyArrives(n)
      PROVE  [Answer!Next]_(Answer!answerVars)
  <2>1. call = "resolved" => UNCHANGED responseMap
    BY <1>0, <1>6 DEF ReplyArrives, CallInv
  <2> QED BY <1>6, <2>1, CallStays DEF ReplyArrives
<1>7. ASSUME NEW n \in Servers, PostFails(n)
      PROVE  [Answer!Next]_(Answer!answerVars)
  <2>1. call # "resolved"
    BY <1>0, <1>7 DEF PostFails, CallInv
  <2> QED BY <1>7, <2>1, CallStays DEF PostFails, listenerVars
<1>8. ASSUME NEW n \in Servers,
             CloudLoses(n) \/ ForwardRefused(n) \/ OnwardFails(n) \/ ForwardTimeout(n) \/ ServerCrash(n)
      PROVE  [Answer!Next]_(Answer!answerVars)
  BY <1>8, CallStays DEF CloudLoses, ForwardRefused, OnwardFails, ForwardTimeout, ServerCrash, senderVars
<1>9. ASSUME NEW n \in Servers, NEW S \in SUBSET Of(n),
             ForwardArrives(n, S) \/ ForwardOwnersRead(n, S) \/ OnwardResponds(n, S)
      PROVE  [Answer!Next]_(Answer!answerVars)
  <2>1. S \in SUBSET Forwarded
    BY DEF Of
  <2> QED BY <1>9, <2>1, CallStays DEF ForwardArrives, ForwardOwnersRead, OnwardResponds, senderVars
<1>10. ASSUME NEW r \in Forwarded, ForwardClientResponds(r)
       PROVE  [Answer!Next]_(Answer!answerVars)
  <2>1. {r} \in SUBSET Forwarded /\ UNCHANGED <<call, responseMap>> /\ responded' = responded \cup {r}
    BY <1>10 DEF ForwardClientResponds, senderVars
  <2>2. \E S \in SUBSET Forwarded : responded' = responded \cup S
    BY <2>1
  <2> QED BY <2>1, <2>2, CallStays
<1>11. CASE UNCHANGED fwdVars
  BY <1>11, CallStays DEF fwdVars, forwardVars
<1> QED BY <1>1, <1>2, <1>3, <1>4, <1>5, <1>6, <1>7, <1>8, <1>9, <1>10, <1>11 DEF ForwardNext

\* The sender of a forwarded request gets what the abstract answer allows, in
\* every order of answers, failures, crashes and disconnects.
THEOREM ForwardImplementsAnswer == ForwardSpec => ImplementsAnswer
<1>1. ForwardInit => Answer!Init
  BY DEF ForwardInit, Answer!Init, Answer!Silence, AnswerState, AnswerGiven
<1>2. ForwardInit => ForwardInv
  BY ForwardInitInv
<1>3. ForwardInv /\ [ForwardNext]_fwdVars => ForwardInv'
  BY ForwardNextInv
<1>4. ForwardInv /\ [ForwardNext]_fwdVars => [Answer!Next]_(Answer!answerVars)
  BY ForwardRefines
<1> QED BY <1>1, <1>2, <1>3, <1>4, PTL DEF ForwardSpec, ImplementsAnswer, Answer!Spec
=============================================================================
