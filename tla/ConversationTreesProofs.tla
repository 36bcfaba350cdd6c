------------------------- MODULE ConversationTreesProofs -------------------------
(***************************************************************************)
(* What holds of the conversation trees, however many nodes, claims and    *)
(* aggregates there are. First, one lemma for each operation of an         *)
(* aggregate says what it makes of a sound tree, and of the places of its  *)
(* messages. Then the inductive invariant, TInv, joins the aggregates to   *)
(* the repository's index and to the processor's task slots; one lemma for *)
(* each action shows that it is kept. The safety properties follow from it *)
(* and so does the refinement: every step is one of SerialQueue, or none.  *)
(* Last come the snapshots, whose invariant, SInv, says what a command in  *)
(* progress still owes to the store.                                       *)
(***************************************************************************)
EXTENDS SavedTrees, OrderedLinesProofs, FiniteSetTheorems

--------------------------------------------------------------------------------
(* One tree *)

\* exactly what is pending waits, once
QueueIsPending(t) == IsInjective(t.queue) /\ WithStates(t, {"pending"}) = ToSet(t.queue)

\* a tree at rest has nothing that waits; an uncancelled claim works on a node that has
\* begun
ClaimIsWhole(t) ==
  /\ t.active = NoClaim => t.work = NoNode /\ ~t.cancelled /\ t.queue = <<>>
  /\ t.active # NoClaim => t.work \in Nodes
  /\ t.active # NoClaim /\ ~t.cancelled => t.state[t.work] \notin {"none", "pending"}

\* what is in progress is the claim's, which nobody has cancelled
ProgressIsClaimed(t) ==
  \A n \in Nodes : t.state[n] = "progress" => t.active # NoClaim /\ t.work = n /\ ~t.cancelled

\* a prompt without its status is over, and so is a claim on it
StatuslessIsError(t) ==
  \A n \in Members(t) \ t.status :
    t.state[n] = "error" /\ n \notin t.session /\ (t.active # NoClaim /\ t.work = n => t.cancelled)

Sound(t) ==
  /\ t \in TreeRecord
  /\ QueueIsPending(t) /\ ClaimIsWhole(t) /\ ProgressIsClaimed(t) /\ StatuslessIsError(t)

\* u has the messages of t, at the same places.
SameTree(t, u) ==
  /\ u.root = t.root /\ u.parent = t.parent /\ u.status = t.status
  /\ Members(u) = Members(t)

\* No aggregate at all is sound.
LEMMA BlankIsSound == Sound(Blank) /\ Live(Blank) = {} /\ Blank.active = NoClaim
<1>1. Blank \in TreeRecord
  BY TreesAssumption DEF Blank, TreeRecord, States
<1>2. /\ Blank.state = [n \in Nodes |-> "none"] /\ Blank.queue = <<>> /\ Blank.active = NoClaim
      /\ Blank.work = NoNode /\ Blank.cancelled = FALSE
  BY DEF Blank
<1>3. QueueIsPending(Blank)
  BY <1>2 DEF QueueIsPending, WithStates, IsInjective, ToSet
<1>4. ClaimIsWhole(Blank) /\ ProgressIsClaimed(Blank) /\ Members(Blank) = {}
  BY <1>2 DEF ClaimIsWhole, ProgressIsClaimed, Members
<1> QED
  BY <1>1, <1>2, <1>3, <1>4 DEF Sound, StatuslessIsError, Live

\* A prompt without its status stays an error when a step leaves errors and sessions
\* alone.
LEMMA StatuslessKept ==
  ASSUME NEW t \in TreeRecord, NEW u \in TreeRecord, StatuslessIsError(t), SameTree(t, u),
         u.session = t.session, \A n \in Nodes : t.state[n] = "error" => u.state[n] = "error",
         \/ u.active = NoClaim
         \/ u.active = t.active /\ u.work = t.work /\ (t.cancelled => u.cancelled)
  PROVE  StatuslessIsError(u)
<1>1. \A n \in Members(t) \ t.status : n \in Nodes
  BY DEF Members
<1> QED
  BY <1>1 DEF StatuslessIsError, SameTree

\* A session is recorded for the node in progress only.
LEMMA RecordedTree ==
  ASSUME NEW t, Sound(t), NEW c \in Claims
  PROVE  LET u == Recorded(t, c) IN
         /\ Sound(u) /\ SameTree(t, u) /\ u.state = t.state /\ u.queue = t.queue
         /\ u.active = t.active /\ u.work = t.work /\ u.cancelled = t.cancelled
<1>1. CASE Owns(t, c) /\ t.state[t.work] = "progress"
  <2> DEFINE u == [t EXCEPT !.session = @ \cup {t.work}]
  <2>0. Recorded(t, c) = u
    BY <1>1 DEF Recorded
  <2>1. t.work \in Nodes
    BY <1>1, TreesAssumption DEF Sound, ClaimIsWhole, Owns
  <2>2. /\ u \in TreeRecord /\ u.session = t.session \cup {t.work}
        /\ u.root = t.root /\ u.parent = t.parent /\ u.status = t.status /\ u.state = t.state
        /\ u.queue = t.queue /\ u.active = t.active /\ u.work = t.work /\ u.cancelled = t.cancelled
    BY <2>1 DEF Sound, TreeRecord
  <2> HIDE DEF u
  <2>3. Members(u) = Members(t) /\ WithStates(u, {"pending"}) = WithStates(t, {"pending"})
    BY <2>2 DEF Members, WithStates
  <2>4. Sound(u)
    BY <1>1, <2>1, <2>2, <2>3
       DEF Sound, QueueIsPending, ClaimIsWhole, ProgressIsClaimed, StatuslessIsError
  <2> QED
    BY <2>0, <2>2, <2>3, <2>4 DEF SameTree
<1>2. CASE ~(Owns(t, c) /\ t.state[t.work] = "progress")
  BY <1>2 DEF Recorded, SameTree
<1> QED
  BY <1>1, <1>2

\* A completion ends the progress of the claim's node and of no other.
LEMMA CompletedTree ==
  ASSUME NEW t, Sound(t), NEW c \in Claims, NEW captured \in BOOLEAN
  PROVE  LET u == Completed(t, c, captured) IN
         /\ Sound(u) /\ SameTree(t, u) /\ u.queue = t.queue
         /\ u.active = t.active /\ u.work = t.work /\ u.cancelled = t.cancelled
         /\ \A n \in Nodes : u.state[n] = "progress" => t.state[n] = "progress" /\ t.active # c
<1>1. CASE Owns(t, c) /\ t.state[t.work] \in {"progress", "error"}
  <2> DEFINE u == [t EXCEPT !.state[t.work] = "completed",
                            !.session = IF captured THEN @ \cup {t.work} ELSE @]
  <2>0. Completed(t, c, captured) = u
    BY <1>1 DEF Completed
  <2>1. t.work \in Nodes /\ t.active = c
    BY <1>1, TreesAssumption DEF Sound, ClaimIsWhole, Owns
  <2>2. /\ u \in TreeRecord /\ u.session \subseteq t.session \cup {t.work}
        /\ u.root = t.root /\ u.parent = t.parent /\ u.status = t.status
        /\ u.state = [t.state EXCEPT ![t.work] = "completed"]
        /\ u.queue = t.queue /\ u.active = t.active /\ u.work = t.work /\ u.cancelled = t.cancelled
    BY <2>1 DEF Sound, TreeRecord, States
  <2> HIDE DEF u
  <2>3. \A n \in Nodes : u.state[n] = IF n = t.work THEN "completed" ELSE t.state[n]
    BY <2>1, <2>2 DEF Sound, TreeRecord
  <2>4. Members(u) = Members(t) /\ WithStates(u, {"pending"}) = WithStates(t, {"pending"})
    BY <1>1, <2>1, <2>3 DEF Members, WithStates
  <2>5. t.work \in t.status
    <3>1. t.work \in Members(t) /\ ~t.cancelled /\ t.active # NoClaim
      BY <1>1, <2>1, TreesAssumption DEF Members, Owns
    <3> QED
      BY <3>1 DEF Sound, StatuslessIsError
  <2>6. \A n \in Nodes : u.state[n] = "progress" => FALSE
    BY <1>1, <2>1, <2>3 DEF Sound, ProgressIsClaimed
  <2>7. Sound(u)
    BY <2>1, <2>2, <2>3, <2>4, <2>5, <2>6
       DEF Sound, QueueIsPending, ClaimIsWhole, ProgressIsClaimed, StatuslessIsError
  <2> QED
    BY <2>0, <2>2, <2>4, <2>6, <2>7 DEF SameTree
<1>2. CASE ~(Owns(t, c) /\ t.state[t.work] \in {"progress", "error"})
  <2>1. Completed(t, c, captured) = t
    BY <1>2 DEF Completed
  <2>2. \A n \in Nodes : t.state[n] = "progress" => t.active # c
    BY <1>2 DEF Owns, Sound, ProgressIsClaimed
  <2> QED
    BY <2>1, <2>2 DEF SameTree
<1> QED
  BY <1>1, <1>2

\* A failure ends the progress of the claim's node; the heirs that fail with it leave
\* the queue.
LEMMA FailedTree ==
  ASSUME NEW t, Sound(t), NEW c \in Claims, NEW propagate \in BOOLEAN
  PROVE  LET u == Failed(t, c, propagate) IN
         /\ Sound(u) /\ SameTree(t, u) /\ Thinned(u.queue, t.queue)
         /\ u.active = t.active /\ u.work = t.work /\ u.cancelled = t.cancelled
         /\ \A n \in Nodes : u.state[n] = "progress" => t.state[n] = "progress" /\ t.active # c
<1> DEFINE heirs == IF propagate THEN Heirs(t, t.work) \cap WithStates(t, {"pending"}) ELSE {}
<1>0. heirs \subseteq WithStates(t, {"pending"})
  OBVIOUS
<1>1. CASE Owns(t, c) /\ t.state[t.work] \notin {"none", "completed"}
  <2> DEFINE u == [Erred(t, {t.work} \cup heirs) EXCEPT !.queue = Without(@, heirs)]
  <2>0. Failed(t, c, propagate) = u
    BY <1>1 DEF Failed
  <2> HIDE DEF heirs
  <2>1. t.work \in Nodes /\ t.active = c /\ t.queue \in Seq(Nodes) /\ t.work \in Members(t)
    BY <1>1, TreesAssumption DEF Sound, ClaimIsWhole, Owns, TreeRecord, Members
  <2>2. /\ Without(t.queue, heirs) \in Seq(Nodes) /\ IsInjective(Without(t.queue, heirs))
        /\ Thinned(Without(t.queue, heirs), t.queue)
        /\ ToSet(Without(t.queue, heirs)) = ToSet(t.queue) \ heirs
    BY <2>1, WithoutIsThinned, WithoutIsInjective DEF Sound, QueueIsPending
  <2>3. /\ u \in TreeRecord /\ u.session = t.session
        /\ u.root = t.root /\ u.parent = t.parent /\ u.status = t.status
        /\ u.state = [n \in Nodes |-> IF n \in {t.work} \cup heirs THEN "error" ELSE t.state[n]]
        /\ u.queue = Without(t.queue, heirs)
        /\ u.active = t.active /\ u.work = t.work /\ u.cancelled = t.cancelled
    BY <2>1, <2>2 DEF Sound, TreeRecord, States, Erred
  <2> HIDE DEF u
  <2>4. Members(u) = Members(t)
    BY <1>0, <2>1, <2>3 DEF Members, WithStates
  <2>5. WithStates(u, {"pending"}) = WithStates(t, {"pending"}) \ heirs
    <3>1. t.state[t.work] # "pending"
      BY <1>1, <2>1, TreesAssumption DEF Sound, ClaimIsWhole, Owns
    <3> QED
      BY <1>0, <2>1, <2>3, <3>1 DEF WithStates
  <2>6. \A n \in Nodes : u.state[n] = "progress" => FALSE
    BY <1>1, <2>1, <2>3 DEF Sound, ProgressIsClaimed
  <2>7. Sound(u)
    <3>1. QueueIsPending(u)
      BY <2>2, <2>3, <2>5 DEF Sound, QueueIsPending
    <3>2. ClaimIsWhole(u)
      BY <2>1, <2>3, TreesAssumption DEF ClaimIsWhole
    <3>3. ProgressIsClaimed(u)
      BY <2>6 DEF ProgressIsClaimed
    <3>4. StatuslessIsError(u)
      BY <2>3, <2>4, StatuslessKept DEF Sound, SameTree
    <3> QED
      BY <2>3, <3>1, <3>2, <3>3, <3>4 DEF Sound
  <2> QED
    BY <2>0, <2>2, <2>3, <2>4, <2>6, <2>7 DEF SameTree
<1>2. CASE ~(Owns(t, c) /\ t.state[t.work] \notin {"none", "completed"})
  <2>1. Failed(t, c, propagate) = t
    BY <1>2 DEF Failed
  <2>2. \A n \in Nodes : t.state[n] = "progress" => t.active # c
    BY <1>2 DEF Owns, Sound, ProgressIsClaimed
  <2>3. Thinned(t.queue, t.queue)
    BY ThinnedTrivially DEF Sound, TreeRecord
  <2> QED
    BY <2>1, <2>2, <2>3 DEF SameTree
<1> QED
  BY <1>1, <1>2

\* Struck nodes leave the queue and are not runnable any more. The claim's node may be
\* left out of a strike only when it is not one of those the claim is asked about.
LEMMA StruckTree ==
  ASSUME NEW t, Sound(t), NEW A \in SUBSET Nodes, NEW N \in SUBSET A,
         t.active # NoClaim /\ t.work \in A => t.work \in N
  PROVE  LET u == Struck(Asked(t, A), N) IN
         /\ Sound(u) /\ SameTree(t, u) /\ u.queue = Without(t.queue, N)
         /\ u.active = t.active /\ u.work = t.work /\ u.session = t.session
         /\ u.cancelled <=> t.cancelled \/ (t.active # NoClaim /\ t.work \in A)
         /\ \A n \in Nodes : u.state[n] = "progress" => t.state[n] = "progress"
         /\ \A n \in N : u.state[n] \notin Runnable
         /\ \A n \in Nodes : u.state[n] = t.state[n] \/ (u.state[n] = "error" /\ t.state[n] \in Runnable)
<1> DEFINE u == Struck(Asked(t, A), N)
<1>1. /\ t \in TreeRecord /\ t.queue \in Seq(Nodes) /\ IsInjective(t.queue)
      /\ ToSet(t.queue) = WithStates(t, {"pending"})
  BY DEF Sound, QueueIsPending, TreeRecord
<1>2. /\ Without(t.queue, N) \in Seq(Nodes) /\ IsInjective(Without(t.queue, N))
      /\ ToSet(Without(t.queue, N)) = ToSet(t.queue) \ N
  BY <1>1, WithoutIsThinned, WithoutIsInjective
<1>3. /\ u \in TreeRecord /\ u.session = t.session
      /\ u.root = t.root /\ u.parent = t.parent /\ u.status = t.status
      /\ u.state = [n \in Nodes |->
                      IF n \in N /\ t.state[n] \in Runnable THEN "error" ELSE t.state[n]]
      /\ u.queue = Without(t.queue, N) /\ u.active = t.active /\ u.work = t.work
      /\ u.cancelled = (t.cancelled \/ (t.active # NoClaim /\ t.work \in A))
  BY <1>1, <1>2 DEF TreeRecord, States, Struck, Asked, Erred, WithStates
<1> HIDE DEF u
<1>4. \A n \in Nodes :
        u.state[n] = IF n \in N /\ t.state[n] \in Runnable THEN "error" ELSE t.state[n]
  BY <1>3
<1>5. Members(u) = Members(t) /\ WithStates(u, {"pending"}) = WithStates(t, {"pending"}) \ N
  BY <1>4 DEF Members, WithStates, Runnable
<1>6. QueueIsPending(u)
  BY <1>1, <1>2, <1>3, <1>5 DEF QueueIsPending
<1>7. ClaimIsWhole(u)
  <2>1. t.queue = <<>> => u.queue = <<>>
    <3>1. t.queue = <<>> => ToSet(Without(t.queue, N)) = {}
      BY <1>1, <1>2, EmptyLine
    <3> QED
      BY <1>2, <1>3, <3>1, EmptyLine
  <2> QED
    BY <1>3, <1>4, <2>1 DEF Sound, ClaimIsWhole, Runnable
<1>8. ProgressIsClaimed(u)
  <2> SUFFICES ASSUME NEW n \in Nodes, u.state[n] = "progress"
               PROVE  u.active # NoClaim /\ u.work = n /\ ~u.cancelled
    BY DEF ProgressIsClaimed
  <2>1. t.state[n] = "progress" /\ n \notin N
    BY <1>4 DEF Runnable
  <2>2. t.active # NoClaim /\ t.work = n /\ ~t.cancelled
    BY <2>1 DEF Sound, ProgressIsClaimed
  <2> QED
    BY <1>3, <2>1, <2>2
<1>9. SameTree(t, u)
  BY <1>3, <1>5 DEF SameTree
<1>10. StatuslessIsError(u)
  BY <1>1, <1>3, <1>4, <1>9, StatuslessKept DEF Sound, Runnable
<1>11. Sound(u)
  BY <1>3, <1>6, <1>7, <1>8, <1>10 DEF Sound
<1>12. \A n \in Nodes : u.state[n] = "progress" => t.state[n] = "progress"
  BY <1>4
<1>13. \A n \in N : u.state[n] \notin Runnable
  BY <1>4 DEF Runnable
<1>14. \A n \in Nodes : u.state[n] = t.state[n] \/ (u.state[n] = "error" /\ t.state[n] \in Runnable)
  BY <1>4
<1> QED
  BY <1>3, <1>9, <1>11, <1>12, <1>13, <1>14 DEF u

\* A stop leaves nothing runnable and asks the claim, if there is one.
LEMMA CancelledTree ==
  ASSUME NEW t, Sound(t)
  PROVE  LET u == CancelledAll(t) IN
         /\ Sound(u) /\ SameTree(t, u) /\ u.queue = <<>> /\ WithStates(u, Runnable) = {}
         /\ u.active = t.active /\ u.work = t.work /\ (u.cancelled <=> t.active # NoClaim)
         /\ u.session = t.session
         /\ \A n \in Nodes : u.state[n] = t.state[n] \/ (u.state[n] = "error" /\ t.state[n] \in Runnable)
<1> DEFINE u == CancelledAll(t)
<1>1. t \in TreeRecord
  BY DEF Sound
<1>2. /\ u \in TreeRecord /\ u.session = t.session
      /\ u.root = t.root /\ u.parent = t.parent /\ u.status = t.status
      /\ u.state = [n \in Nodes |-> IF t.state[n] \in Runnable THEN "error" ELSE t.state[n]]
      /\ u.queue = <<>> /\ u.active = t.active /\ u.work = t.work
      /\ u.cancelled = (t.active # NoClaim)
  <2> DEFINE st == [n \in Nodes |-> IF t.state[n] \in Runnable THEN "error" ELSE t.state[n]]
  <2>1. Erred(t, WithStates(t, Runnable)) = [t EXCEPT !.state = st]
    BY <1>1 DEF TreeRecord, Erred, WithStates
  <2>2. st \in [Nodes -> States]
    BY <1>1 DEF TreeRecord, States
  <2> HIDE DEF st
  <2>3. u = [t EXCEPT !.state = st, !.queue = <<>>, !.cancelled = (t.active # NoClaim)]
    BY <1>1, <2>1 DEF CancelledAll, TreeRecord
  <2>4. /\ <<>> \in Seq(Nodes)
        /\ st = [n \in Nodes |-> IF t.state[n] \in Runnable THEN "error" ELSE t.state[n]]
    BY DEF st
  <2>5. /\ u.session = t.session /\ u.root = t.root /\ u.parent = t.parent /\ u.status = t.status
        /\ u.state = st /\ u.queue = <<>> /\ u.active = t.active /\ u.work = t.work
          /\ u.cancelled = (t.active # NoClaim)
    BY <1>1, <2>3 DEF TreeRecord
  <2>6. u \in TreeRecord
    BY <1>1, <2>2, <2>3, <2>4 DEF TreeRecord
  <2> QED
    BY <2>4, <2>5, <2>6
<1> HIDE DEF u
<1>3. \A n \in Nodes : u.state[n] = IF t.state[n] \in Runnable THEN "error" ELSE t.state[n]
  BY <1>2
<1>4. Members(u) = Members(t) /\ WithStates(u, Runnable) = {} /\ WithStates(u, {"pending"}) = {}
  BY <1>3 DEF Members, WithStates, Runnable
<1>5. SameTree(t, u)
  BY <1>2, <1>4 DEF SameTree
<1>6. QueueIsPending(u)
  BY <1>2, <1>4 DEF QueueIsPending, IsInjective, ToSet
<1>7. ClaimIsWhole(u) /\ ProgressIsClaimed(u)
  BY <1>2, <1>4 DEF Sound, ClaimIsWhole, ProgressIsClaimed, WithStates, Runnable
<1>8. StatuslessIsError(u)
  <2>1. t.cancelled => t.active # NoClaim
    BY DEF Sound, ClaimIsWhole
  <2> QED
    BY <1>1, <1>2, <1>3, <1>5, <2>1, StatuslessKept DEF Sound, Runnable
<1>9. \A n \in Nodes : u.state[n] = t.state[n] \/ (u.state[n] = "error" /\ t.state[n] \in Runnable)
  BY <1>3
<1> QED
  BY <1>2, <1>4, <1>5, <1>6, <1>7, <1>8, <1>9 DEF u, Sound

\* A restored tree is at rest.
LEMMA RestoredTree ==
  ASSUME NEW t, Sound(t)
  PROVE  LET u == Restored(t) IN
         /\ Sound(u) /\ SameTree(t, u) /\ u.queue = <<>> /\ u.active = NoClaim
         /\ u.work = NoNode
<1> DEFINE u == Restored(t)
<1>1. t \in TreeRecord
  BY DEF Sound
<1>2. /\ u \in TreeRecord /\ u.session = t.session
      /\ u.root = t.root /\ u.parent = t.parent /\ u.status = t.status
      /\ u.state = [n \in Nodes |-> IF t.state[n] \in Runnable THEN "error" ELSE t.state[n]]
      /\ u.queue = <<>> /\ u.active = NoClaim /\ u.work = NoNode /\ u.cancelled = FALSE
  <2> DEFINE st == [n \in Nodes |-> IF t.state[n] \in Runnable THEN "error" ELSE t.state[n]]
  <2>1. Erred(t, WithStates(t, Runnable)) = [t EXCEPT !.state = st]
    BY <1>1 DEF TreeRecord, Erred, WithStates
  <2>2. st \in [Nodes -> States]
    BY <1>1 DEF TreeRecord, States
  <2> HIDE DEF st
  <2>3. u = [t EXCEPT !.state = st, !.queue = <<>>, !.active = NoClaim, !.work = NoNode,
                      !.cancelled = FALSE]
    BY <1>1, <2>1 DEF Restored, Released, TreeRecord
  <2>4. /\ <<>> \in Seq(Nodes)
        /\ st = [n \in Nodes |-> IF t.state[n] \in Runnable THEN "error" ELSE t.state[n]]
    BY DEF st
  <2>5. /\ u.session = t.session /\ u.root = t.root /\ u.parent = t.parent /\ u.status = t.status
        /\ u.state = st /\ u.queue = <<>> /\ u.active = NoClaim /\ u.work = NoNode
        /\ u.cancelled = FALSE
    BY <1>1, <2>3 DEF TreeRecord
  <2>6. u \in TreeRecord
    BY <1>1, <2>2, <2>3, <2>4 DEF TreeRecord
  <2> QED
    BY <2>4, <2>5, <2>6
<1> HIDE DEF u
<1>3. \A n \in Nodes : u.state[n] = IF t.state[n] \in Runnable THEN "error" ELSE t.state[n]
  BY <1>2
<1>4. Members(u) = Members(t) /\ WithStates(u, {"pending"}) = {} /\ WithStates(u, Runnable) = {}
  BY <1>3 DEF Members, WithStates, Runnable
<1>5. SameTree(t, u)
  BY <1>2, <1>4 DEF SameTree
<1>6. QueueIsPending(u)
  BY <1>2, <1>4 DEF QueueIsPending, IsInjective, ToSet
<1>7. ClaimIsWhole(u) /\ ProgressIsClaimed(u)
  BY <1>2, <1>4 DEF ClaimIsWhole, ProgressIsClaimed, WithStates, Runnable
<1>8. StatuslessIsError(u)
  BY <1>1, <1>2, <1>3, <1>5, StatuslessKept DEF Sound, Runnable
<1> QED
  BY <1>2, <1>5, <1>6, <1>7, <1>8 DEF u, Sound

\* A new tree has one message, which is claimed at once.
LEMMA SeedTree ==
  ASSUME NEW n \in Nodes, NEW c \in Claims
  PROVE  LET u == Admitted(Seedling(n), n, c) IN
         /\ Sound(u) /\ Members(u) = {n} /\ u.status = {n} /\ u.root = n /\ u.queue = <<>>
         /\ u.parent = [m \in Nodes |-> NoRef]
         /\ u.active = c /\ u.work = n /\ ~u.cancelled
<1> DEFINE u == Admitted(Seedling(n), n, c)
<1>0. <<>> \in Seq(Nodes)
  OBVIOUS
<1>1. /\ u.root = n /\ u.parent = [m \in Nodes |-> NoRef] /\ u.status = {n} /\ u.session = {}
      /\ u.state = [m \in Nodes |-> IF m = n THEN "progress" ELSE "none"]
      /\ u.queue = <<>> /\ u.active = c /\ u.work = n /\ u.cancelled = FALSE
      /\ u \in TreeRecord
  <2> DEFINE s == [Blank EXCEPT !.root = n, !.state[n] = "pending", !.status = {n}]
  <2>1. s.state[n] = "pending" /\ s.active = NoClaim
    BY DEF Blank
  <2>2. u = Claimed(s, n, c)
    BY <2>1 DEF Admitted, Seedling
  <2>3. s.state = [m \in Nodes |-> IF m = n THEN "pending" ELSE "none"]
    BY DEF Blank
  <2>4. /\ s.root = n /\ s.parent = [m \in Nodes |-> NoRef] /\ s.status = {n} /\ s.session = {}
        /\ s.queue = <<>> /\ s \in TreeRecord
    BY <1>0, <2>3, BlankIsSound DEF Blank, Sound, TreeRecord, States
  <2> HIDE DEF s
  <2>5. u = [s EXCEPT !.state = [s.state EXCEPT ![n] = "progress"], !.active = c, !.work = n,
                      !.cancelled = FALSE]
    BY <2>2, <2>4 DEF Claimed, TreeRecord
  <2>6. [s.state EXCEPT ![n] = "progress"] = [m \in Nodes |-> IF m = n THEN "progress" ELSE "none"]
    BY <2>3
  <2>7. /\ u.root = n /\ u.parent = [m \in Nodes |-> NoRef] /\ u.status = {n} /\ u.session = {}
        /\ u.state = [m \in Nodes |-> IF m = n THEN "progress" ELSE "none"]
        /\ u.queue = <<>> /\ u.active = c /\ u.work = n /\ u.cancelled = FALSE
    BY <2>4, <2>5, <2>6 DEF TreeRecord
  <2>8. [m \in Nodes |-> IF m = n THEN "progress" ELSE "none"] \in [Nodes -> States]
    BY DEF States
  <2>9. s \in TreeRecord /\ [s.state EXCEPT ![n] = "progress"] \in [Nodes -> States]
    BY <2>4, <2>6, <2>8
  <2>10. u \in TreeRecord
    BY <2>5, <2>9 DEF TreeRecord
  <2> QED
    BY <2>7, <2>10
<1> HIDE DEF u
<1>2. \A m \in Nodes : u.state[m] = IF m = n THEN "progress" ELSE "none"
  BY <1>1
<1>3. Members(u) = {n} /\ WithStates(u, {"pending"}) = {}
  BY <1>2 DEF Members, WithStates
<1>4. QueueIsPending(u)
  BY <1>1, <1>3, NobodyWaits DEF QueueIsPending
<1>5. ClaimIsWhole(u) /\ ProgressIsClaimed(u)
  BY <1>1, <1>2, TreesAssumption DEF ClaimIsWhole, ProgressIsClaimed
<1>6. StatuslessIsError(u)
  BY <1>1, <1>3 DEF StatuslessIsError
<1> QED
  BY <1>1, <1>3, <1>4, <1>5, <1>6 DEF Sound, u

\* A reply is claimed for c or waits at the end of the queue.
Turned(t, u, n, c) ==
  /\ t.active = NoClaim => u.active = c /\ u.work = n /\ ~u.cancelled /\ u.queue = t.queue
  /\ t.active # NoClaim =>
       /\ u.active = t.active /\ u.work = t.work /\ (u.cancelled <=> t.cancelled)
       /\ u.queue = Append(t.queue, n)
       /\ \A m \in Nodes : u.state[m] = "progress" => t.state[m] = "progress"

\* A reply joins the tree.
LEMMA GrownTree ==
  ASSUME NEW t, Sound(t), NEW n \in Nodes \ Members(t), NEW r \in Live(t),
         NEW c \in Claims \cup {NoClaim}, t.active = NoClaim => c \in Claims
  PROVE  LET u == Grown(t, n, r, c) IN
         /\ Sound(u) /\ Members(u) = Members(t) \cup {n} /\ u.status = t.status \cup {n}
         /\ u.root = t.root /\ u.parent = [t.parent EXCEPT ![n] = r]
         /\ Turned(t, u, n, c)
<1> DEFINE s == [t EXCEPT !.state[n] = "pending", !.parent[n] = r, !.status = @ \cup {n}]
           u == Grown(t, n, r, c)
<1>1. /\ t \in TreeRecord /\ r \in Refs /\ n \in Nodes /\ t.state[n] = "none"
      /\ n \notin ToSet(t.queue)
  BY DEF Sound, Live, Members, QueueIsPending, WithStates
<1>2. /\ s \in TreeRecord /\ s.root = t.root /\ s.parent = [t.parent EXCEPT ![n] = r]
      /\ s.status = t.status \cup {n} /\ s.session = t.session
      /\ s.state = [t.state EXCEPT ![n] = "pending"]
      /\ s.queue = t.queue /\ s.active = t.active /\ s.work = t.work /\ s.cancelled = t.cancelled
  BY <1>1 DEF TreeRecord, States
<1>3. u = Admitted(s, n, c)
  BY DEF Grown
<1> HIDE DEF s, u
<1>4. s.state[n] = "pending"
  BY <1>1, <1>2 DEF TreeRecord
<1>5. CASE t.active = NoClaim
  <2>1. u = Claimed(s, n, c)
    BY <1>2, <1>3, <1>4, <1>5 DEF Admitted
  <2>2. /\ u \in TreeRecord /\ u.root = t.root /\ u.parent = s.parent
        /\ u.status = t.status \cup {n} /\ u.session = t.session
        /\ u.state = [t.state EXCEPT ![n] = "progress"]
        /\ u.queue = t.queue /\ u.active = c /\ u.work = n /\ u.cancelled = FALSE
    BY <1>1, <1>2, <1>5, <2>1 DEF Claimed, TreeRecord, States
  <2>3. \A m \in Nodes : u.state[m] = IF m = n THEN "progress" ELSE t.state[m]
    BY <1>1, <2>2 DEF TreeRecord
  <2>4. Members(u) = Members(t) \cup {n} /\ WithStates(u, {"pending"}) = WithStates(t, {"pending"})
    BY <1>1, <2>3 DEF Members, WithStates
  <2>5. QueueIsPending(u)
    BY <2>2, <2>4 DEF Sound, QueueIsPending
  <2>6. c # NoClaim /\ \A m \in Nodes : t.state[m] # "progress"
    BY <1>5, TreesAssumption DEF Sound, ProgressIsClaimed
  <2>7. ClaimIsWhole(u) /\ ProgressIsClaimed(u)
    BY <1>1, <2>2, <2>3, <2>6 DEF ClaimIsWhole, ProgressIsClaimed
  <2>8. StatuslessIsError(u)
    <3> SUFFICES ASSUME NEW m \in Members(u) \ u.status
                 PROVE  u.state[m] = "error" /\ m \notin u.session /\ m # n
      BY <2>2 DEF StatuslessIsError
    <3> QED
      BY <2>2, <2>3, <2>4 DEF Sound, StatuslessIsError, Members
  <2> QED
    BY <1>2, <1>5, <2>2, <2>4, <2>5, <2>7, <2>8 DEF Sound, Turned, u
<1>6. CASE t.active # NoClaim
  <2>1. u = [s EXCEPT !.queue = Append(@, n)]
    BY <1>1, <1>2, <1>3, <1>4, <1>6 DEF Admitted
  <2>2. /\ Append(t.queue, n) \in Seq(Nodes) /\ ToSet(Append(t.queue, n)) = ToSet(t.queue) \cup {n}
        /\ IsInjective(Append(t.queue, n))
    BY <1>1, AppendedLine DEF Sound, QueueIsPending, TreeRecord
  <2>3. /\ u \in TreeRecord /\ u.root = t.root /\ u.parent = s.parent
        /\ u.status = t.status \cup {n} /\ u.session = t.session
        /\ u.state = [t.state EXCEPT ![n] = "pending"] /\ u.queue = Append(t.queue, n)
        /\ u.active = t.active /\ u.work = t.work /\ u.cancelled = t.cancelled
    BY <1>2, <2>1, <2>2 DEF TreeRecord
  <2>4. \A m \in Nodes : u.state[m] = IF m = n THEN "pending" ELSE t.state[m]
    BY <1>1, <2>3 DEF TreeRecord
  <2>5. Members(u) = Members(t) \cup {n}
        /\ WithStates(u, {"pending"}) = WithStates(t, {"pending"}) \cup {n}
    BY <1>1, <2>4 DEF Members, WithStates
  <2>6. QueueIsPending(u)
    BY <2>2, <2>3, <2>5 DEF Sound, QueueIsPending
  <2>7. ClaimIsWhole(u)
    BY <1>1, <1>6, <2>3, <2>4 DEF Sound, ClaimIsWhole
  <2>8. ProgressIsClaimed(u)
    BY <2>3, <2>4 DEF Sound, ProgressIsClaimed
  <2>9. StatuslessIsError(u)
    <3> SUFFICES ASSUME NEW m \in Members(u) \ u.status
                 PROVE  /\ u.state[m] = "error" /\ m \notin u.session
                        /\ u.active # NoClaim /\ u.work = m => u.cancelled
      BY DEF StatuslessIsError
    <3>1. m \in Members(t) \ t.status /\ m # n /\ m \in Nodes
      BY <2>3, <2>5 DEF Members
    <3> QED
      BY <2>3, <2>4, <3>1 DEF Sound, StatuslessIsError
  <2> QED
    BY <1>2, <1>6, <2>3, <2>4, <2>5, <2>6, <2>7, <2>8, <2>9 DEF Sound, Turned, u
<1> QED
  BY <1>5, <1>6

\* A message the tree has already changes nothing: it waits in the queue, or its state
\* is past that.
LEMMA AgainTree ==
  ASSUME NEW t, Sound(t), NEW n \in Nodes, NEW c
  PROVE  Admitted(t, n, c) = t
<1>1. CASE t.state[n] # "pending"
  BY <1>1 DEF Admitted
<1>2. CASE t.state[n] = "pending"
  <2>1. n \in ToSet(t.queue) /\ t.queue \in Seq(Nodes)
    BY <1>2 DEF Sound, QueueIsPending, WithStates, TreeRecord
  <2>2. t.active # NoClaim
    <3>1. ToSet(t.queue) # {}
      BY <2>1
    <3> QED
      BY <2>1, <3>1, EmptyLine DEF Sound, ClaimIsWhole
  <2>3. Admitted(t, n, c) = [t EXCEPT !.queue = t.queue]
    BY <1>2, <2>1, <2>2 DEF Admitted
  <2> QED
    BY <2>3 DEF Sound, TreeRecord
<1> QED
  BY <1>1, <1>2

\* The first of the queue has its turn, or the tree is at rest.
Advanced(t, u, next) ==
  /\ t.queue = <<>> => u.active = NoClaim /\ u.work = NoNode /\ u.queue = <<>>
  /\ t.queue # <<>> => /\ u.active = next /\ u.work = Head(t.queue)
                       /\ ~u.cancelled /\ u.queue = Tail(t.queue)

\* The claim is released, and nothing in the queue has lost its turn, so that the first
\* one has it.
LEMMA FinishedTree ==
  ASSUME NEW t, Sound(t), t.active # NoClaim, NEW next \in Claims,
         \A n \in Nodes : t.state[n] # "progress"
  PROVE  LET u == Finished(t, t.active, next) IN
         /\ Sound(u) /\ SameTree(t, u)
         /\ Advanced(t, u, next)
<1> DEFINE u == Finished(t, t.active, next)
           ready == {i \in DOMAIN t.queue : t.state[t.queue[i]] = "pending"}
<1>1. t \in TreeRecord /\ t.queue \in Seq(Nodes) /\ IsInjective(t.queue)
      /\ ToSet(t.queue) = WithStates(t, {"pending"})
  BY DEF Sound, QueueIsPending, TreeRecord
<1>2. ready = DOMAIN t.queue
  BY <1>1 DEF ToSet, WithStates
<1>3. CASE t.queue = <<>>
  <2>1. ready = {}
    BY <1>2, <1>3
  <2>2. u = [Released(t) EXCEPT !.queue = <<>>]
    BY <2>1 DEF Finished
  <2>3. /\ u \in TreeRecord /\ u.root = t.root /\ u.parent = t.parent /\ u.status = t.status
        /\ u.session = t.session /\ u.state = t.state /\ u.queue = <<>>
        /\ u.active = NoClaim /\ u.work = NoNode /\ u.cancelled = FALSE
    BY <1>1, <1>3, <2>2 DEF Released, TreeRecord
  <2> HIDE DEF u, ready
  <2>4. SameTree(t, u) /\ WithStates(u, {"pending"}) = WithStates(t, {"pending"})
    BY <2>3 DEF SameTree, Members, WithStates
  <2>5. QueueIsPending(u) /\ ClaimIsWhole(u) /\ ProgressIsClaimed(u)
    BY <1>1, <1>3, <2>3, <2>4 DEF QueueIsPending, ClaimIsWhole, ProgressIsClaimed
  <2>6. StatuslessIsError(u)
    BY <1>1, <2>3, <2>4, StatuslessKept DEF Sound
  <2> QED
    BY <1>3, <2>3, <2>4, <2>5, <2>6 DEF Sound, Advanced, u
<1>4. CASE t.queue # <<>>
  <2> DEFINE n == Head(t.queue)
             s == [t EXCEPT !.queue = Tail(t.queue)]
  <2>1. /\ Tail(t.queue) \in Seq(Nodes) /\ n \in ToSet(t.queue) /\ n \in Nodes
        /\ SubSeq(t.queue, 2, Len(t.queue)) = Tail(t.queue) /\ t.queue[1] = n
        /\ IsInjective(Tail(t.queue)) /\ ToSet(Tail(t.queue)) = ToSet(t.queue) \ {n}
    BY <1>1, <1>4, TailOfLine
  <2>2. Min(ready) = 1 /\ ready # {}
    <3>1. ready = 1 .. Len(t.queue) /\ Len(t.queue) \in Nat /\ Len(t.queue) # 0
      BY <1>1, <1>2, <1>4
    <3> HIDE DEF ready
    <3>2. 1 \in ready /\ \A i \in ready : i \in Nat /\ 1 =< i
      BY <3>1
    <3>3. \A i \in ready : (\A j \in ready : i =< j) => i = 1
      BY <3>2
    <3> QED
      BY <3>2, <3>3 DEF Min
  <2>3. u = Claimed(s, n, next)
    <3>1. u = Claimed([t EXCEPT !.queue = SubSeq(@, Min(ready) + 1, Len(@))],
                      t.queue[Min(ready)], next)
      BY <2>2 DEF Finished
    <3>2. Min(ready) + 1 = 2
      BY <2>2
    <3> QED
      BY <2>1, <2>2, <3>1, <3>2
  <2> HIDE DEF n, ready
  <2>4. /\ u \in TreeRecord /\ u.root = t.root /\ u.parent = t.parent /\ u.status = t.status
        /\ u.session = t.session /\ u.state = [t.state EXCEPT ![n] = "progress"]
        /\ u.queue = Tail(t.queue) /\ u.active = next /\ u.work = n /\ u.cancelled = FALSE
    <3>1. u = [t EXCEPT !.queue = Tail(t.queue), !.state = [t.state EXCEPT ![n] = "progress"],
                        !.active = next, !.work = n, !.cancelled = FALSE]
      BY <1>1, <2>3 DEF Claimed, TreeRecord
    <3>2. [t.state EXCEPT ![n] = "progress"] \in [Nodes -> States]
      BY <1>1 DEF TreeRecord, States
    <3> QED
      BY <1>1, <2>1, <3>1, <3>2 DEF TreeRecord
  <2> HIDE DEF u, s
  <2>5. \A m \in Nodes : u.state[m] = IF m = n THEN "progress" ELSE t.state[m]
    BY <1>1, <2>1, <2>4 DEF TreeRecord
  <2>6. t.state[n] = "pending"
    BY <1>1, <2>1 DEF WithStates
  <2>7. Members(u) = Members(t) /\ WithStates(u, {"pending"}) = WithStates(t, {"pending"}) \ {n}
    BY <2>1, <2>5, <2>6 DEF Members, WithStates
  <2>8. QueueIsPending(u)
    BY <1>1, <2>1, <2>4, <2>7 DEF QueueIsPending
  <2>9. ClaimIsWhole(u) /\ ProgressIsClaimed(u)
    BY <2>1, <2>4, <2>5, TreesAssumption DEF ClaimIsWhole, ProgressIsClaimed
  <2>10. StatuslessIsError(u)
    <3> SUFFICES ASSUME NEW m \in Members(u) \ u.status
                 PROVE  u.state[m] = "error" /\ m \notin u.session /\ m # n
      BY <2>4 DEF StatuslessIsError
    <3>1. m \in Nodes /\ m \in Members(t) \ t.status
      BY <2>4, <2>7 DEF Members
    <3> QED
      BY <2>4, <2>5, <2>6, <3>1 DEF Sound, StatuslessIsError
  <2> QED
    BY <1>4, <2>4, <2>7, <2>8, <2>9, <2>10 DEF Sound, SameTree, Advanced, u, n
<1> QED
  BY <1>3, <1>4

--------------------------------------------------------------------------------
(* The references of a tree *)

\* S has r and with a reference every live one that hangs on it.
ClosedBelow(t, r, S) ==
  S \subseteq Live(t) /\ r \in S /\ \A s \in Live(t) \ S : Above(t, s) \notin S

\* ReplySubtree is the least set that is closed below r: all of what hangs on r, by
\* however many replies, and nothing else.
LEMMA Subtree ==
  ASSUME NEW t, NEW r \in Live(t)
  PROVE  /\ ClosedBelow(t, r, ReplySubtree(t, r))
         /\ \A S : ClosedBelow(t, r, S) => ReplySubtree(t, r) \subseteq S
         /\ \A s \in ReplySubtree(t, r) \ {r} : Above(t, s) \in ReplySubtree(t, r)
<1> DEFINE R == ReplySubtree(t, r)
<1>1. R = {s \in Live(t) : \A S : ClosedBelow(t, r, S) => s \in S}
  BY DEF ReplySubtree, ClosedBelow
<1> HIDE DEF R
<1>2. ClosedBelow(t, r, R)
  <2> SUFFICES ASSUME NEW s \in Live(t) \ R PROVE Above(t, s) \notin R
    BY <1>1 DEF ClosedBelow
  <2>1. PICK S : ClosedBelow(t, r, S) /\ s \notin S
    BY <1>1
  <2>2. R \subseteq S
    BY <1>1, <2>1
  <2> QED
    BY <2>1, <2>2 DEF ClosedBelow
<1>3. \A S : ClosedBelow(t, r, S) => R \subseteq S
  BY <1>1
<1>4. ASSUME NEW s \in R \ {r}, Above(t, s) \notin R PROVE FALSE
  <2>1. ClosedBelow(t, r, R \ {s})
    BY <1>2, <1>4 DEF ClosedBelow
  <2> QED
    BY <1>3, <1>4, <2>1
<1> QED
  BY <1>2, <1>3, <1>4 DEF R

\* A reference is a prompt or a status, and its owner says which node's.
LEMMA References ==
  /\ \A r \in Refs : Owner(r) \in Nodes /\ (r = Prompt(Owner(r)) \/ r = Status(Owner(r)))
  /\ \A r \in Refs : r[2] = "status" <=> r = Status(Owner(r))
  /\ \A n \in Nodes : /\ Prompt(n) \in Refs /\ Owner(Prompt(n)) = n /\ Prompt(n)[2] # "status"
                      /\ Status(n) \in Refs /\ Owner(Status(n)) = n /\ Status(n)[2] = "status"
BY DEF Refs, Owner, Prompt, Status

\* What is live, in terms of nodes.
LEMMA LiveReferences ==
  ASSUME NEW t
  PROVE  /\ Live(t) \subseteq Refs
         /\ \A n \in Nodes : Prompt(n) \in Live(t) <=> n \in Members(t)
         /\ \A n \in Nodes : Status(n) \in Live(t) <=> n \in Members(t) \cap t.status
BY References DEF Live

\* Trees with the same messages have the same references, in the same places.
LEMMA SameReferences ==
  ASSUME NEW t, NEW u, SameTree(t, u)
  PROVE  Live(u) = Live(t) /\ \A r : ReplySubtree(u, r) = ReplySubtree(t, r)
<1>1. Live(u) = Live(t)
  BY DEF Live, SameTree
<1>2. \A s : Above(u, s) = Above(t, s)
  BY DEF Above, SameTree
<1> QED
  BY <1>1, <1>2 DEF ReplySubtree

\* What from_snapshot demands of a tree.
Hangs(t) ==
  /\ t.root \in Members(t) /\ t.parent[t.root] = NoRef
  /\ \A n \in Members(t) \ {t.root} : t.parent[n] \in Live(t)
  /\ Live(t) = ReplySubtree(t, Prompt(t.root))

\* A step that leaves the messages alone leaves the tree as restorable as it was.
LEMMA SameHangs ==
  ASSUME NEW t, NEW u, SameTree(t, u), Hangs(t)
  PROVE  Hangs(u)
BY SameReferences DEF Hangs, SameTree

\* A tree of one message can be restored.
LEMMA SeedHangs ==
  ASSUME NEW n \in Nodes, NEW c \in Claims
  PROVE  LET u == Admitted(Seedling(n), n, c) IN
         Hangs(u) /\ Live(u) = {Prompt(n), Status(n)}
<1> DEFINE u == Admitted(Seedling(n), n, c)
<1>1. /\ Members(u) = {n} /\ u.status = {n} /\ u.root = n /\ u.parent = [m \in Nodes |-> NoRef]
  BY SeedTree
<1> HIDE DEF u
<1>2. Live(u) = {Prompt(n), Status(n)}
  BY <1>1, References DEF Live
<1>3. ReplySubtree(u, Prompt(n)) = Live(u)
  <2> DEFINE R == ReplySubtree(u, Prompt(n))
  <2>1. ClosedBelow(u, Prompt(n), R)
    BY <1>2, Subtree
  <2> HIDE DEF R
  <2>2. Prompt(n) \in R
    BY <2>1 DEF ClosedBelow
  <2>3. Above(u, Status(n)) = Prompt(n)
    BY References DEF Above
  <2> QED
    BY <1>2, <2>1, <2>2, <2>3 DEF ClosedBelow, R
<1> QED
  BY <1>1, <1>2, <1>3 DEF Hangs, u

\* A reply hangs on the message it replies to, and moves nothing else.
LEMMA GrownHangs ==
  ASSUME NEW t, Sound(t), Hangs(t), NEW n \in Nodes \ Members(t), NEW r \in Live(t),
         NEW c \in Claims \cup {NoClaim}, t.active = NoClaim => c \in Claims
  PROVE  LET u == Grown(t, n, r, c) IN
         Hangs(u) /\ Live(u) = Live(t) \cup {Prompt(n), Status(n)}
<1> DEFINE u == Grown(t, n, r, c)
<1>1. /\ Members(u) = Members(t) \cup {n} /\ u.status = t.status \cup {n}
      /\ u.root = t.root /\ u.parent = [t.parent EXCEPT ![n] = r]
      /\ t.parent \in [Nodes -> Refs \cup {NoRef}]
  BY GrownTree DEF Sound, TreeRecord
<1> HIDE DEF u
<1>2. Live(u) = Live(t) \cup {Prompt(n), Status(n)}
  <2> SUFFICES ASSUME NEW s \in Refs
               PROVE  s \in Live(u) <=> s \in Live(t) \/ s = Prompt(n) \/ s = Status(n)
    BY References DEF Live
  <2>1. Owner(s) = n => (s = Prompt(n) \/ s = Status(n)) /\ s \in Live(u)
    BY <1>1, References DEF Live
  <2>2. Owner(s) # n => (s \in Live(u) <=> s \in Live(t)) /\ s # Prompt(n) /\ s # Status(n)
    BY <1>1, References DEF Live
  <2> QED
    BY <2>1, <2>2
<1>3. \A m \in Nodes : u.parent[m] = IF m = n THEN r ELSE t.parent[m]
  BY <1>1
<1>4. \A m \in Members(u) \ {u.root} : u.parent[m] \in Live(u)
  BY <1>1, <1>2, <1>3 DEF Hangs, Members
<1>5. u.root \in Members(u) /\ u.parent[u.root] = NoRef
  BY <1>1, <1>3 DEF Hangs, Members
<1>6. Live(u) = ReplySubtree(u, Prompt(u.root))
  <2> DEFINE R == ReplySubtree(u, Prompt(u.root))
  <2>0. /\ Prompt(t.root) \in Live(t) /\ Prompt(u.root) \in Live(u) /\ u.root = t.root
    BY <1>1, <1>5, LiveReferences DEF Hangs, Members
  <2>1. ClosedBelow(u, Prompt(u.root), R)
    BY <2>0, Subtree
  <2> HIDE DEF R
  <2>2. \A s \in Live(t) : Above(u, s) = Above(t, s)
    BY <1>3 DEF Above, Live, Members
  <2>3. ClosedBelow(t, Prompt(t.root), R \cap Live(t))
    <3> SUFFICES ASSUME NEW s \in Live(t), s \notin R PROVE Above(t, s) \notin R
      BY <2>0, <2>1 DEF ClosedBelow
    <3> QED
      BY <1>2, <2>1, <2>2 DEF ClosedBelow
  <2>4. Live(t) \subseteq R
    BY <2>0, <2>3, Subtree DEF Hangs
  <2>5. Prompt(n) \in R
    <3>1. Above(u, Prompt(n)) = r
      BY <1>3, References DEF Above
    <3> QED
      BY <1>2, <2>1, <2>4, <3>1 DEF ClosedBelow
  <2>6. Status(n) \in R
    <3>1. Above(u, Status(n)) = Prompt(n)
      BY References DEF Above
    <3> QED
      BY <1>2, <2>1, <2>5, <3>1 DEF ClosedBelow
  <2> QED
    BY <1>2, <2>1, <2>4, <2>5, <2>6 DEF ClosedBelow, R
<1> QED
  BY <1>2, <1>4, <1>5, <1>6 DEF Hangs, u

--------------------------------------------------------------------------------
(* Removal *)

\* What is left of the references is what does not hang on the removed one.
LEMMA PrunedReferences ==
  ASSUME NEW t, Sound(t), NEW r \in Live(t), NEW u,
         Members(u) = Members(t) \ RemovedNodes(t, r),
         u.status = (IF r[2] = "status" THEN t.status \ {Owner(r)} ELSE t.status)
                      \ RemovedNodes(t, r)
  PROVE  Live(u) = Live(t) \ ReplySubtree(t, r)
<1> DEFINE R == ReplySubtree(t, r)
           gone == RemovedNodes(t, r)
<1>1. /\ ClosedBelow(t, r, R) /\ r \in R /\ R \subseteq Live(t)
      /\ \A s \in R \ {r} : Above(t, s) \in R
      /\ \A n \in Nodes : n \in gone <=> Prompt(n) \in R
  BY Subtree DEF ClosedBelow, RemovedNodes
<1> HIDE DEF R, gone
<1>2. \A n \in Nodes : Above(t, Status(n)) = Prompt(n)
  BY References DEF Above
<1>3. ASSUME NEW n \in Nodes PROVE Prompt(n) \in Live(u) <=> Prompt(n) \in Live(t) \ R
  BY <1>1, LiveReferences DEF gone
<1>4. ASSUME NEW n \in Nodes PROVE Status(n) \in Live(u) <=> Status(n) \in Live(t) \ R
  <2>1. Status(n) \in Live(u) <=> n \in Members(t) /\ n \notin gone /\ n \in t.status
                                  /\ ~ (r[2] = "status" /\ n = Owner(r))
    BY LiveReferences DEF gone
  <2>2. r[2] = "status" /\ n = Owner(r) <=> r = Status(n)
    BY References, LiveReferences
  <2>3. Status(n) \in Live(t) => (Status(n) \in R <=> n \in gone \/ r = Status(n))
    BY <1>1, <1>2 DEF ClosedBelow
  <2> QED
    BY <2>1, <2>2, <2>3, LiveReferences
<1> QED
  BY <1>3, <1>4, References, LiveReferences DEF R

\* The nodes of A lose their places, and the claim that works on one of them goes on
\* only to be told to stop.
CutOff(t, u, A) ==
  /\ u.queue = Without(t.queue, A) /\ u.active = t.active /\ u.work = t.work
  /\ u.cancelled <=> t.cancelled \/ (t.active # NoClaim /\ t.work \in A)
  /\ \A n \in Nodes : u.state[n] = "progress" => t.state[n] = "progress"

\* The whole operation: the removed nodes lose their places, the claim that works on
\* one of them is asked to stop, and a prompt that loses its status is an error.
LEMMA PrunedTree ==
  ASSUME NEW t, Sound(t), NEW r \in Live(t)
  PROVE  LET u == Pruned(t, r)
             A == Affected(t, r)
         IN
         /\ Sound(u) /\ Live(u) = Live(t) \ ReplySubtree(t, r)
         /\ Members(u) = Members(t) \ RemovedNodes(t, r) /\ u.root = t.root
         /\ u.parent = [n \in Nodes |-> IF n \in RemovedNodes(t, r) THEN NoRef ELSE t.parent[n]]
         /\ CutOff(t, u, A)
<1> DEFINE A == Affected(t, r)
           gone == RemovedNodes(t, r)
           struck == Struck(Asked(t, A), A)
           clears == IF r[2] = "status" THEN {Owner(r)} ELSE {}
           u == Pruned(t, r)
<1>1. A \in SUBSET Nodes /\ gone \subseteq A /\ clears \subseteq A /\ clears \subseteq Members(t)
      /\ gone \subseteq Nodes /\ Owner(r) \in A
  BY References DEF Affected, RemovedNodes, Live
<1>2. /\ Sound(struck) /\ SameTree(t, struck) /\ struck.queue = Without(t.queue, A)
      /\ struck.active = t.active /\ struck.work = t.work /\ struck.session = t.session
      /\ struck.cancelled <=> t.cancelled \/ (t.active # NoClaim /\ t.work \in A)
      /\ \A n \in Nodes : struck.state[n] = "progress" => t.state[n] = "progress"
      /\ \A n \in A : struck.state[n] \notin Runnable
  <2> HIDE DEF A
  <2> QED
    BY <1>1, StruckTree
<1> HIDE DEF struck, A, gone
<1>3. struck \in TreeRecord /\ struck.state \in [Nodes -> States]
      /\ struck.parent \in [Nodes -> Refs \cup {NoRef}]
  BY <1>2 DEF Sound, TreeRecord
<1> DEFINE st == [n \in Nodes |-> IF n \in gone THEN "none"
                                 ELSE IF n \in clears THEN "error" ELSE struck.state[n]]
           par == [n \in Nodes |-> IF n \in gone THEN NoRef ELSE struck.parent[n]]
<1>4. u = [struck EXCEPT !.state = st, !.parent = par, !.status = (@ \ clears) \ gone,
                         !.session = (@ \ clears) \ gone]
  <2>1. u = Detached(IF r[2] = "status" THEN StatusCleared(struck, Owner(r)) ELSE struck, gone)
    BY DEF Pruned, struck, A, gone, Affected
  <2>2. CASE r[2] = "status"
    <3> DEFINE s == [struck EXCEPT !.state[Owner(r)] = "error", !.status = @ \ {Owner(r)},
                                   !.session = @ \ {Owner(r)}]
    <3>1. u = Detached(s, gone) /\ clears = {Owner(r)} /\ Owner(r) \in Nodes
      BY <1>1, <2>1, <2>2 DEF StatusCleared
    <3>2. /\ s.state = [struck.state EXCEPT ![Owner(r)] = "error"] /\ s.parent = struck.parent
          /\ s.status = struck.status \ clears /\ s.session = struck.session \ clears
      BY <1>3, <3>1 DEF TreeRecord
    <3>3. [n \in Nodes |-> IF n \in gone THEN "none" ELSE s.state[n]] = st
      BY <1>3, <3>1, <3>2
    <3>4. u = [struck EXCEPT !.state = [n \in Nodes |-> IF n \in gone THEN "none" ELSE s.state[n]],
                             !.parent = [n \in Nodes |-> IF n \in gone THEN NoRef ELSE s.parent[n]],
                             !.status = s.status \ gone, !.session = s.session \ gone]
      BY <1>3, <3>1 DEF Detached, TreeRecord
    <3> HIDE DEF s, st, clears
    <3> QED
      BY <1>3, <3>2, <3>3, <3>4 DEF TreeRecord
  <2>3. CASE r[2] # "status"
    BY <1>3, <2>1, <2>3 DEF Detached, TreeRecord
  <2> QED
    BY <2>2, <2>3
<1>5. st \in [Nodes -> States] /\ par \in [Nodes -> Refs \cup {NoRef}]
  BY <1>3 DEF States
<1>6. /\ \A n \in Nodes : st[n] = IF n \in gone THEN "none"
                                 ELSE IF n \in clears THEN "error" ELSE struck.state[n]
      /\ \A n \in Nodes : par[n] = IF n \in gone THEN NoRef ELSE struck.parent[n]
  OBVIOUS
<1>7. par = [n \in Nodes |-> IF n \in gone THEN NoRef ELSE t.parent[n]]
  BY <1>2 DEF SameTree
<1> HIDE DEF st, par, clears
<1>8. /\ u.root = t.root /\ u.state = st /\ u.parent = par
      /\ u.status = (t.status \ clears) \ gone /\ u.session = (t.session \ clears) \ gone
      /\ u.queue = Without(t.queue, A) /\ u.active = t.active /\ u.work = t.work
      /\ u.cancelled = struck.cancelled
  BY <1>2, <1>3, <1>4 DEF TreeRecord, SameTree
<1>9. u \in TreeRecord
  BY <1>3, <1>4, <1>5 DEF TreeRecord
<1> HIDE DEF u
<1>10. Members(u) = Members(t) \ gone
  BY <1>1, <1>2, <1>6, <1>8 DEF Members, SameTree
<1>11. WithStates(u, {"pending"}) = WithStates(struck, {"pending"})
  BY <1>1, <1>2, <1>6, <1>8 DEF WithStates, Runnable
<1>12. QueueIsPending(u)
  BY <1>2, <1>8, <1>11 DEF Sound, QueueIsPending
<1>13. u.cancelled <=> t.cancelled \/ (t.active # NoClaim /\ t.work \in A)
  BY <1>2, <1>8
<1>14. ClaimIsWhole(u)
  <2>1. u.active = NoClaim => u.work = NoNode /\ ~u.cancelled /\ u.queue = <<>>
    BY <1>2, <1>8 DEF Sound, ClaimIsWhole
  <2>2. u.active # NoClaim => u.work \in Nodes
    BY <1>8 DEF Sound, ClaimIsWhole
  <2>3. u.active # NoClaim /\ ~u.cancelled => u.state[u.work] \notin {"none", "pending"}
    BY <1>1, <1>2, <1>6, <1>8, <1>13, <2>2 DEF Sound, ClaimIsWhole
  <2> QED
    BY <2>1, <2>2, <2>3 DEF ClaimIsWhole
<1>15. \A n \in Nodes : u.state[n] = "progress" => struck.state[n] = "progress"
  BY <1>6, <1>8
<1>16. ProgressIsClaimed(u)
  BY <1>2, <1>8, <1>15 DEF Sound, ProgressIsClaimed
<1>17. StatuslessIsError(u)
  <2> SUFFICES ASSUME NEW n \in Nodes, n \in Members(u), n \notin u.status
               PROVE  /\ u.state[n] = "error" /\ n \notin u.session
                      /\ u.active # NoClaim /\ u.work = n => u.cancelled
    BY DEF StatuslessIsError, Members
  <2>1. n \in Members(struck) /\ n \notin gone
    BY <1>2, <1>10 DEF SameTree
  <2>2. CASE n \in clears
    BY <1>1, <1>6, <1>8, <1>13, <2>1, <2>2
  <2>3. CASE n \notin clears
    <3>1. n \in Members(struck) \ struck.status /\ u.state[n] = struck.state[n]
      BY <1>2, <1>6, <1>8, <2>1, <2>3 DEF SameTree
    <3> QED
      BY <1>2, <1>8, <3>1 DEF Sound, StatuslessIsError
  <2> QED
    BY <2>2, <2>3
<1>18. Live(u) = Live(t) \ ReplySubtree(t, r)
  BY <1>8, <1>10, PrunedReferences DEF clears, gone
<1> QED
  BY <1>2, <1>7, <1>8, <1>9, <1>10, <1>12, <1>13, <1>14, <1>15, <1>16, <1>17, <1>18
     DEF Sound, CutOff, u, A, gone

\* What is left still hangs together, unless nothing is left.
LEMMA PrunedHangs ==
  ASSUME NEW t, Sound(t), Hangs(t), NEW r \in Live(t), Prompt(t.root) \notin ReplySubtree(t, r)
  PROVE  Hangs(Pruned(t, r))
<1> DEFINE u == Pruned(t, r)
           gone == RemovedNodes(t, r)
           G == ReplySubtree(t, r)
           R == ReplySubtree(u, Prompt(u.root))
<1>1. /\ Live(u) = Live(t) \ G /\ Members(u) = Members(t) \ gone /\ u.root = t.root
      /\ u.parent = [n \in Nodes |-> IF n \in gone THEN NoRef ELSE t.parent[n]]
  BY PrunedTree
<1>2. t.root \in Nodes /\ Prompt(t.root) \in Live(t)
  BY LiveReferences DEF Hangs, Members
<1>3. /\ ClosedBelow(t, r, G) /\ \A n \in Nodes : n \in gone <=> Prompt(n) \in G
      /\ ClosedBelow(u, Prompt(u.root), R)
  <2>1. Prompt(u.root) \in Live(u)
    <3> HIDE DEF u
    <3> QED BY <1>1, <1>2
  <2>2. ClosedBelow(u, Prompt(u.root), R)
    <3> HIDE DEF u
    <3> QED BY <2>1, Subtree
  <2> QED BY <2>2, Subtree DEF RemovedNodes
<1> HIDE DEF u, gone, G, R
<1>4. t.root \in Members(u) /\ u.parent[t.root] = NoRef
  BY <1>1, <1>3, <1>2 DEF Hangs, G
<1>5. ASSUME NEW n \in Members(u) \ {u.root} PROVE u.parent[n] \in Live(u)
  <2>1. n \in Nodes /\ n \in Members(t) \ {t.root} /\ n \notin gone /\ Prompt(n) \in Live(t) \ G
    BY <1>1, <1>3, LiveReferences DEF Members
  <2>2. u.parent[n] = t.parent[n] /\ Above(t, Prompt(n)) = t.parent[n] /\ t.parent[n] \in Live(t)
    BY <1>1, <2>1, References DEF Above, Hangs
  <2> QED
    BY <1>1, <1>3, <2>1, <2>2 DEF ClosedBelow
<1>6. \A s \in Live(u) : Above(u, s) = Above(t, s)
  <2> SUFFICES ASSUME NEW s \in Live(u), s[2] # "status"
               PROVE  u.parent[Owner(s)] = t.parent[Owner(s)]
    BY DEF Above
  <2>1. Owner(s) \in Nodes /\ Owner(s) \in Members(u)
    BY References, LiveReferences DEF Live
  <2> QED
    BY <1>1, <2>1
<1>7. ClosedBelow(t, Prompt(t.root), R \cup G)
  <2> SUFFICES ASSUME NEW s \in Live(t), s \notin R, s \notin G
               PROVE  Above(t, s) \notin R \cup G
    BY <1>1, <1>3 DEF ClosedBelow
  <2>1. s \in Live(u) \ R
    BY <1>1
  <2> QED
    BY <1>1, <1>3, <1>6, <2>1 DEF ClosedBelow
<1>8. Live(u) = R
  <2>1. Live(t) \subseteq R \cup G
    BY <1>2, <1>7, Subtree DEF Hangs
  <2> QED
    BY <1>1, <1>3, <2>1 DEF ClosedBelow
<1> QED
  BY <1>1, <1>4, <1>5, <1>8 DEF Hangs, u, R

\* A removal takes the root only when it is asked for it, and then everything.
LEMMA PrunedWhole ==
  ASSUME NEW t, Sound(t), Hangs(t), NEW r \in Live(t), Prompt(t.root) \in ReplySubtree(t, r)
  PROVE  /\ ReplySubtree(t, r) = Live(t)
         /\ Members(Pruned(t, r)) = {} /\ Pruned(t, r).queue = <<>>
         /\ t.active # NoClaim => Pruned(t, r).cancelled
<1> DEFINE u == Pruned(t, r)
<1>1. t.root \in Nodes /\ Above(t, Prompt(t.root)) = NoRef /\ NoRef \notin Live(t)
  BY References, TreesAssumption DEF Hangs, Members, Above, Live
<1>2. r = Prompt(t.root)
  BY <1>1, Subtree DEF ClosedBelow
<1>3. ReplySubtree(t, r) = Live(t)
  BY <1>2 DEF Hangs
<1>4. RemovedNodes(t, r) = Members(t)
  BY <1>3, LiveReferences DEF RemovedNodes, Members
<1>5. /\ Sound(u) /\ Members(u) = Members(t) \ RemovedNodes(t, r)
      /\ CutOff(t, u, Affected(t, r))
  BY PrunedTree
<1> HIDE DEF u
<1>6. Members(u) = {}
  BY <1>4, <1>5
<1>7. u.queue = <<>>
  <2>1. ToSet(u.queue) = {} /\ u.queue \in Seq(Nodes)
    BY <1>5, <1>6 DEF Sound, QueueIsPending, WithStates, Members, TreeRecord
  <2> QED
    BY <2>1, EmptyLine
<1>8. t.active # NoClaim => u.cancelled
  <2>1. t.active # NoClaim /\ ~t.cancelled => t.work \in Members(t)
    BY DEF Sound, ClaimIsWhole, Members
  <2> QED
    BY <1>4, <1>5, <2>1 DEF Affected, CutOff
<1> QED
  BY <1>3, <1>6, <1>7, <1>8 DEF u

--------------------------------------------------------------------------------
(* The inductive invariant *)

SlotRecord == [tree : TreeIds \cup {NoTree}, phase : Phases, requested : BOOLEAN]
Unreported == {"scheduled", "successor", "announcing", "running"}

\* a tree that is out of reach only waits for its task to end
Drained(t) ==
  /\ WithStates(t, Runnable) = {} /\ t.queue = <<>>
  /\ t.active # NoClaim => t.cancelled
  /\ t.active = NoClaim => t = Blank

\* the aggregates, those that no reference leads to included
Bodies ==
  /\ tree \in [TreeIds -> TreeRecord] /\ \A t \in TreeIds : Sound(tree[t])
  /\ \A t \in TreeIds \ Published : Drained(tree[t])

\* the repository: the index leads to the trees, which can be restored
Places ==
  /\ trees \in Seq(TreeIds) /\ index \in [Refs -> TreeIds \cup {NoTree}]
  /\ IndexMatches /\ \A t \in Published : Hangs(tree[t])

\* the processor: one task for each claim
Slots ==
  /\ slot \in [Claims -> SlotRecord] /\ ClaimsAreExecuted
  /\ \A c \in Claims : slot[c].phase # "none" => slot[c].tree \in TreeIds

\* a node in progress has a runner that has not reported yet, or has it to come
Turns ==
  \A t \in TreeIds, n \in Nodes :
    tree[t].state[n] = "progress" => slot[tree[t].active].phase \in Unreported

TInv == Bodies /\ Places /\ Slots /\ Turns

\* The published trees are trees.
LEMMA PublishedTrees ==
  ASSUME TInv
  PROVE  Published \subseteq TreeIds /\ \A i \in DOMAIN trees : trees[i] \in Published
BY DEF TInv, Places, Published, ToSet

\* A reference the repository knows leads to the published tree that holds it.
LEMMA Located ==
  ASSUME TInv, NEW r \in Refs, index[r] # NoTree
  PROVE  index[r] \in TreeIds /\ index[r] \in Published /\ r \in Live(tree[index[r]])
<1>1. index[r] \in TreeIds
  BY DEF TInv, Places
<1> QED
  BY <1>1 DEF TInv, Places, IndexMatches

\* The invariant holds at the start.
LEMMA TInvAtFirst == Init => TInv
<1> SUFFICES ASSUME Init PROVE TInv
  OBVIOUS
<1>1. Published = {} /\ trees \in Seq(TreeIds)
  BY NobodyWaits DEF Init, Published
<1>2. \A t \in TreeIds : tree[t] = Blank
  BY DEF Init
<1>3. Bodies
  <2>1. Drained(Blank)
    BY DEF Drained, Blank, WithStates, Runnable
  <2> QED
    BY <1>2, <2>1, BlankIsSound DEF Init, Bodies, Sound
<1>4. Places
  <2>1. IndexMatches
    BY <1>1, TreesAssumption DEF Init, IndexMatches
  <2> QED
    BY <1>1, <2>1 DEF Init, Places
<1>5. Slots
  <2>1. slot \in [Claims -> SlotRecord] /\ \A c \in Claims : slot[c].phase = "none"
    BY DEF Init, NoSlot, SlotRecord, Phases
  <2> QED
    BY <1>2, <2>1, BlankIsSound DEF Slots, ClaimsAreExecuted
<1>6. Turns
  BY <1>2 DEF Turns, Blank
<1> QED
  BY <1>3, <1>4, <1>5, <1>6 DEF TInv

\* Steps that leave the messages of the published trees alone.
LEMMA PlacesKept ==
  ASSUME TInv, UNCHANGED <<trees, index>>, \A t \in Published : SameTree(tree[t], tree'[t])
  PROVE  Places' /\ Published' = Published
<1>1. Published' = Published
  BY DEF Published
<1>2. \A t \in Published : Live(tree'[t]) = Live(tree[t]) /\ Hangs(tree'[t])
  BY SameReferences, SameHangs DEF TInv, Places
<1>3. IndexMatches'
  BY <1>1, <1>2 DEF TInv, Places, IndexMatches
<1> QED
  BY <1>1, <1>2, <1>3 DEF TInv, Places

\* Steps that give out no claim and end no task.
LEMMA SlotsKept ==
  ASSUME TInv, slot' \in [Claims -> SlotRecord],
         \A c \in Claims : /\ slot'[c].tree = slot[c].tree
                           /\ slot'[c].phase = "none" <=> slot[c].phase = "none",
         \A t \in TreeIds : tree'[t].active = tree[t].active,
         \A t \in TreeIds : tree[t].active # NoClaim =>
            slot'[tree[t].active].requested = tree'[t].cancelled
  PROVE  Slots'
<1>1. \A t \in TreeIds : tree[t].active \in Claims \cup {NoClaim}
  BY DEF TInv, Bodies, TreeRecord
<1>2. ASSUME NEW t \in TreeIds, tree'[t].active # NoClaim
      PROVE  LET s == slot'[tree'[t].active]
             IN  s.phase # "none" /\ s.tree = t /\ s.requested = tree'[t].cancelled
  BY <1>1, <1>2 DEF TInv, Slots, ClaimsAreExecuted
<1>3. ASSUME NEW c \in Claims, slot'[c].phase # "none"
      PROVE  slot'[c].tree \in TreeIds /\ tree'[slot'[c].tree].active = c
  BY <1>3 DEF TInv, Slots, ClaimsAreExecuted
<1> QED
  BY <1>2, <1>3 DEF Slots, ClaimsAreExecuted

\* Steps that leave the messages, the claims and the tasks at their places.
LEMMA InPlace ==
  ASSUME TInv, UNCHANGED <<trees, index>>,
         tree' \in [TreeIds -> TreeRecord], slot' \in [Claims -> SlotRecord],
         \A c \in Claims : /\ slot'[c].tree = slot[c].tree
                           /\ slot'[c].phase = "none" <=> slot[c].phase = "none",
         \A t \in TreeIds : Sound(tree'[t]) /\ tree'[t].active = tree[t].active,
         \A t \in Published : SameTree(tree[t], tree'[t]),
         \A t \in TreeIds \ Published : tree'[t] = tree[t],
         \A t \in TreeIds : tree[t].active # NoClaim =>
            slot'[tree[t].active].requested = tree'[t].cancelled,
         \A t \in TreeIds, n \in Nodes : tree'[t].state[n] = "progress" =>
            tree[t].state[n] = "progress" /\ slot'[tree[t].active].phase \in Unreported
  PROVE  TInv'
<1>1. Places' /\ Published' = Published
  BY PlacesKept
<1>2. Bodies'
  BY <1>1 DEF TInv, Bodies
<1>3. Slots'
  BY SlotsKept
<1>4. Turns'
  BY DEF Turns
<1> QED
  BY <1>1, <1>2, <1>3, <1>4 DEF TInv

--------------------------------------------------------------------------------
(* The life of a task *)

\* What a task's move does to its slot.
LEMMA MovedSlot ==
  ASSUME TInv, NEW c \in Claims, NEW from \in SUBSET (Phases \ {"none"}),
         NEW to \in Phases \ {"none"}, Moves(c, from, to)
  PROVE  /\ slot' \in [Claims -> SlotRecord]
         /\ \A d \in Claims : /\ slot'[d].tree = slot[d].tree
                              /\ slot'[d].requested = slot[d].requested
                              /\ slot'[d].phase = "none" <=> slot[d].phase = "none"
                              /\ slot'[d].phase = IF d = c THEN to ELSE slot[d].phase
<1>1. slot \in [Claims -> SlotRecord] /\ slot' = [slot EXCEPT ![c].phase = to]
      /\ slot[c].phase # "none"
  BY DEF TInv, Slots, Moves
<1>2. slot' = [slot EXCEPT ![c] = [slot[c] EXCEPT !.phase = to]]
  BY <1>1
<1>3. [slot[c] EXCEPT !.phase = to] \in SlotRecord
  BY <1>1 DEF SlotRecord
<1>4. /\ [slot[c] EXCEPT !.phase = to].tree = slot[c].tree
      /\ [slot[c] EXCEPT !.phase = to].requested = slot[c].requested
      /\ [slot[c] EXCEPT !.phase = to].phase = to
  BY <1>1 DEF SlotRecord
<1>5. \A d \in Claims : slot'[d] = IF d = c THEN [slot[c] EXCEPT !.phase = to] ELSE slot[d]
  BY <1>1, <1>2
<1>6. slot' \in [Claims -> SlotRecord]
  BY <1>1, <1>2, <1>3
<1> QED
  BY <1>1, <1>4, <1>5, <1>6

\* The steps in which a task only gets on.
LEMMA TasksMove ==
  ASSUME TInv, NEW c \in Claims, Drop(c) \/ Enter(c) \/ Announced(c)
  PROVE  TInv'
<1>1. UNCHANGED <<tree, trees, index>>
  BY DEF Drop, Enter, Announced
<1>2. \A t \in TreeIds : tree[t] \in TreeRecord /\ Sound(tree[t])
                         /\ tree[t].active \in Claims \cup {NoClaim}
                         /\ tree[t].cancelled \in BOOLEAN
  BY DEF TInv, Bodies, TreeRecord
<1>3. PICK from \in SUBSET (Phases \ {"none"}), to \in Phases \ {"none"} :
        /\ Moves(c, from, to) /\ (slot[c].requested \/ to \in Unreported)
  <2>1. {"scheduled", "successor"} \in SUBSET (Phases \ {"none"})
        /\ {"scheduled"} \in SUBSET (Phases \ {"none"})
        /\ {"successor"} \in SUBSET (Phases \ {"none"})
        /\ {"announcing"} \in SUBSET (Phases \ {"none"})
    BY DEF Phases
  <2>2. /\ "ending" \in Phases \ {"none"} /\ "running" \in Phases \ {"none"}
        /\ "announcing" \in Phases \ {"none"}
        /\ "running" \in Unreported /\ "announcing" \in Unreported
    BY DEF Phases, Unreported
  <2>3. CASE Drop(c)
    BY <2>1, <2>2, <2>3 DEF Drop
  <2>4. CASE Enter(c)
    BY <2>1, <2>2, <2>4 DEF Enter
  <2>5. CASE Announced(c)
    BY <2>1, <2>2, <2>5 DEF Announced
  <2> QED
    BY <2>3, <2>4, <2>5
<1>4. /\ slot' \in [Claims -> SlotRecord]
      /\ \A d \in Claims : /\ slot'[d].tree = slot[d].tree
                           /\ slot'[d].requested = slot[d].requested
                           /\ slot'[d].phase = "none" <=> slot[d].phase = "none"
                           /\ slot'[d].phase = IF d = c THEN to ELSE slot[d].phase
  BY <1>3, MovedSlot
<1>5. \A t \in TreeIds : tree[t].active # NoClaim =>
        slot'[tree[t].active].requested = tree[t].cancelled
  BY <1>2, <1>4 DEF TInv, Slots, ClaimsAreExecuted
<1>6. ASSUME NEW t \in TreeIds, NEW n \in Nodes, tree[t].state[n] = "progress"
      PROVE  slot'[tree[t].active].phase \in Unreported
  <2>1. tree[t].active # NoClaim /\ ~tree[t].cancelled
    BY <1>2, <1>6 DEF Sound, ProgressIsClaimed
  <2>2. tree[t].active = c => ~slot[c].requested
    BY <1>2, <2>1 DEF TInv, Slots, ClaimsAreExecuted
  <2> QED
    BY <1>2, <1>3, <1>4, <1>6, <2>1, <2>2 DEF TInv, Turns
<1>7. \A t \in TreeIds : SameTree(tree[t], tree'[t])
  BY <1>1 DEF SameTree
<1>8. tree' \in [TreeIds -> TreeRecord]
  BY <1>1 DEF TInv, Bodies
<1> QED
  BY <1>1, <1>2, <1>4, <1>5, <1>6, <1>7, <1>8, PublishedTrees, InPlace

\* A report of a runner reaches the tree that is published under the identity in its
\* claim, whichever that is by now; on any other claim's tree it has no effect.
LEMMA ReportMade ==
  ASSUME TInv, NEW c \in Claims, slot[c].phase # "none", UNCHANGED <<trees, index>>,
         NEW F, tree' = [t \in TreeIds |-> IF t \in Addressed(c) THEN F[t] ELSE tree[t]],
         \A t \in TreeIds : /\ Sound(F[t]) /\ SameTree(tree[t], F[t])
                            /\ F[t].active = tree[t].active /\ F[t].cancelled = tree[t].cancelled,
         slot' \in [Claims -> SlotRecord],
         \A d \in Claims : /\ slot'[d].tree = slot[d].tree
                           /\ slot'[d].requested = slot[d].requested
                           /\ slot'[d].phase = "none" <=> slot[d].phase = "none"
                           /\ d # c => slot'[d].phase = slot[d].phase,
         \A t \in TreeIds, n \in Nodes : F[t].state[n] = "progress" =>
            tree[t].state[n] = "progress" /\ (tree[t].active # c \/ slot'[c].phase \in Unreported)
  PROVE  TInv'
<1>1. Addressed(c) \subseteq Published /\ Published \subseteq TreeIds
  BY PublishedTrees DEF Addressed
<1>2. \A t \in TreeIds : tree[t] \in TreeRecord /\ Sound(tree[t])
                         /\ tree[t].active \in Claims \cup {NoClaim}
  BY DEF TInv, Bodies, TreeRecord
<1>3. \A t \in TreeIds : tree'[t] = IF t \in Addressed(c) THEN F[t] ELSE tree[t]
  OBVIOUS
<1>4. \A t \in TreeIds : /\ Sound(tree'[t]) /\ SameTree(tree[t], tree'[t])
                         /\ tree'[t].active = tree[t].active
                         /\ tree'[t].cancelled = tree[t].cancelled
  BY <1>2, <1>3 DEF SameTree
<1>5. tree' \in [TreeIds -> TreeRecord]
  BY <1>2, <1>3 DEF Sound
<1>6. \A t \in TreeIds : tree[t].active # NoClaim =>
        slot'[tree[t].active].requested = tree'[t].cancelled
  BY <1>2, <1>4 DEF TInv, Slots, ClaimsAreExecuted
<1>7. ASSUME NEW t \in TreeIds, NEW n \in Nodes, tree'[t].state[n] = "progress"
      PROVE  tree[t].state[n] = "progress" /\ slot'[tree[t].active].phase \in Unreported
  <2>1. tree[t].state[n] = "progress"
    BY <1>3, <1>7
  <2>2. tree[t].active \in Claims /\ ~tree[t].cancelled
    BY <1>2, <2>1 DEF Sound, ProgressIsClaimed
  <2>3. CASE tree[t].active # c
    BY <2>1, <2>2, <2>3 DEF TInv, Turns
  <2>4. CASE tree[t].active = c
    <3>1. slot[c].tree = t
      BY <1>2, <2>2, <2>4, TreesAssumption DEF TInv, Slots, ClaimsAreExecuted
    <3>2. t \in Published
      BY <2>1 DEF TInv, Bodies, Drained, WithStates, Runnable
    <3>3. t \in Addressed(c)
      BY <3>1, <3>2 DEF Addressed
    <3> QED
      BY <1>3, <1>7, <2>1, <2>4, <3>3
  <2> QED
    BY <2>3, <2>4
<1> QED
  BY <1>1, <1>3, <1>4, <1>5, <1>6, <1>7, InPlace

\* What a runner reports, whenever it does.
LEMMA RunnersReport ==
  ASSUME TInv, NEW c \in Claims, Runner(c)
  PROVE  TInv'
<1>1. \A t \in TreeIds : Sound(tree[t])
  BY DEF TInv, Bodies
<1>2. slot \in [Claims -> SlotRecord]
  BY DEF TInv, Slots
<1>3. {"running", "settled"} \in SUBSET (Phases \ {"none"})
      /\ "running" \in Phases \ {"none"} /\ "settled" \in Phases \ {"none"}
      /\ "ending" \in Phases \ {"none"}
  BY DEF Phases
<1>4. CASE RecordSession(c)
  <2> DEFINE F == [t \in TreeIds |-> Recorded(tree[t], c)]
  <2>1. \A t \in TreeIds : F[t] = Recorded(tree[t], c)
    OBVIOUS
  <2>2. tree' = [t \in TreeIds |-> IF t \in Addressed(c) THEN F[t] ELSE tree[t]]
        /\ UNCHANGED <<trees, index, slot>> /\ slot[c].phase \in {"running", "settled"}
    BY <1>4 DEF RecordSession
  <2> HIDE DEF F
  <2>3. \A t \in TreeIds : /\ Sound(F[t]) /\ SameTree(tree[t], F[t])
                           /\ F[t].active = tree[t].active /\ F[t].cancelled = tree[t].cancelled
                           /\ F[t].state = tree[t].state
    BY <1>1, <2>1, RecordedTree
  <2>4. ASSUME NEW t \in TreeIds, NEW n \in Nodes, F[t].state[n] = "progress"
        PROVE  /\ tree[t].state[n] = "progress"
               /\ tree[t].active # c \/ slot'[c].phase \in Unreported
    BY <2>2, <2>3, <2>4 DEF TInv, Turns
  <2> QED
    BY <1>2, <2>2, <2>3, <2>4, ReportMade
<1>5. CASE CompleteClaim(c)
  <2>1. PICK captured \in BOOLEAN :
          tree' = [t \in TreeIds |->
                     IF t \in Addressed(c) THEN Completed(tree[t], c, captured) ELSE tree[t]]
    BY <1>5 DEF CompleteClaim
  <2> DEFINE F == [t \in TreeIds |-> Completed(tree[t], c, captured)]
  <2>2. \A t \in TreeIds : F[t] = Completed(tree[t], c, captured)
    OBVIOUS
  <2>3. tree' = [t \in TreeIds |-> IF t \in Addressed(c) THEN F[t] ELSE tree[t]]
    BY <2>1
  <2>4. UNCHANGED <<trees, index>> /\ slot[c].phase # "none"
        /\ Moves(c, {"running", "settled"}, "settled")
    BY <1>5 DEF CompleteClaim, Moves
  <2> HIDE DEF F
  <2>5. \A t \in TreeIds : /\ Sound(F[t]) /\ SameTree(tree[t], F[t])
                           /\ F[t].active = tree[t].active /\ F[t].cancelled = tree[t].cancelled
                           /\ \A n \in Nodes : F[t].state[n] = "progress" =>
                                tree[t].state[n] = "progress" /\ tree[t].active # c
    BY <1>1, <2>2, CompletedTree
  <2>6. /\ slot' \in [Claims -> SlotRecord]
        /\ \A d \in Claims : /\ slot'[d].tree = slot[d].tree
                             /\ slot'[d].requested = slot[d].requested
                             /\ slot'[d].phase = "none" <=> slot[d].phase = "none"
                             /\ d # c => slot'[d].phase = slot[d].phase
    BY <1>3, <2>4, MovedSlot, ZenonT(40)
  <2> QED
    BY <2>3, <2>4, <2>5, <2>6, ReportMade
<1>6. ASSUME NEW propagate \in BOOLEAN, NEW to \in Phases \ {"none"},
             Moves(c, {"running", "settled"}, to), UNCHANGED <<trees, index>>,
             tree' = [t \in TreeIds |->
                        IF t \in Addressed(c) THEN Failed(tree[t], c, propagate) ELSE tree[t]]
      PROVE  TInv'
  <2> DEFINE F == [t \in TreeIds |-> Failed(tree[t], c, propagate)]
  <2>1. \A t \in TreeIds : F[t] = Failed(tree[t], c, propagate)
    OBVIOUS
  <2>2. tree' = [t \in TreeIds |-> IF t \in Addressed(c) THEN F[t] ELSE tree[t]]
    BY <1>6
  <2>3. slot[c].phase # "none"
    BY <1>6 DEF Moves
  <2> HIDE DEF F
  <2>4. \A t \in TreeIds : /\ Sound(F[t]) /\ SameTree(tree[t], F[t])
                           /\ F[t].active = tree[t].active /\ F[t].cancelled = tree[t].cancelled
                           /\ \A n \in Nodes : F[t].state[n] = "progress" =>
                                tree[t].state[n] = "progress" /\ tree[t].active # c
    BY <1>1, <2>1, FailedTree
  <2>5. /\ slot' \in [Claims -> SlotRecord]
        /\ \A d \in Claims : /\ slot'[d].tree = slot[d].tree
                             /\ slot'[d].requested = slot[d].requested
                             /\ slot'[d].phase = "none" <=> slot[d].phase = "none"
                             /\ d # c => slot'[d].phase = slot[d].phase
    BY <1>3, <1>6, MovedSlot
  <2> QED
    BY <1>6, <2>2, <2>3, <2>4, <2>5, ReportMade
<1>7. CASE FailClaim(c)
  <2>1. PICK to \in {"running", "settled"} : Moves(c, {"running", "settled"}, to)
    BY <1>7 DEF FailClaim
  <2>2. PICK propagate \in BOOLEAN :
          tree' = [t \in TreeIds |->
                     IF t \in Addressed(c) THEN Failed(tree[t], c, propagate) ELSE tree[t]]
    BY <1>7 DEF FailClaim
  <2>3. UNCHANGED <<trees, index>> /\ to \in Phases \ {"none"}
    BY <1>3, <1>7 DEF FailClaim
  <2> QED
    BY <1>6, <2>1, <2>2, <2>3
<1>8. CASE RunnerRaises(c)
  <2>1. /\ Moves(c, {"running", "settled"}, "ending") /\ UNCHANGED <<trees, index>>
        /\ tree' = [t \in TreeIds |->
                      IF t \in Addressed(c) THEN Failed(tree[t], c, TRUE) ELSE tree[t]]
    BY <1>8 DEF RunnerRaises
  <2> QED
    BY <1>3, <1>6, <2>1
<1> QED
  BY <1>4, <1>5, <1>7, <1>8 DEF Runner

--------------------------------------------------------------------------------
(* Commands that cancel *)

\* A task that is asked to stop is where it was.
LEMMA TaskCancelled ==
  ASSUME TInv, NEW t \in TreeIds, tree[t].active # NoClaim
  PROVE  LET s == CancelTask(slot, tree[t].active) IN
         /\ s \in [Claims -> SlotRecord]
         /\ \A c \in Claims : /\ s[c].tree = slot[c].tree /\ s[c].phase = slot[c].phase
                              /\ s[c].requested = IF c = tree[t].active THEN TRUE
                                                  ELSE slot[c].requested
<1> DEFINE d == tree[t].active
           s == CancelTask(slot, d)
           new == [slot[d] EXCEPT !.requested = TRUE]
<1>1. d \in Claims /\ slot \in [Claims -> SlotRecord] /\ slot[d].phase # "none"
  BY DEF TInv, Bodies, Slots, ClaimsAreExecuted, TreeRecord
<1>2. s = [slot EXCEPT ![d] = new]
  BY <1>1 DEF CancelTask
<1>3. new \in SlotRecord /\ new.tree = slot[d].tree /\ new.phase = slot[d].phase
      /\ new.requested = TRUE
  BY <1>1 DEF SlotRecord
<1> HIDE DEF new, s, d
<1>4. s \in [Claims -> SlotRecord] /\ \A c \in Claims : s[c] = IF c = d THEN new ELSE slot[c]
  BY <1>1, <1>2, <1>3
<1> QED
  BY <1>3, <1>4 DEF s, d

\* Other tasks are not asked.
LEMMA OthersUntouched ==
  ASSUME TInv, NEW d, NEW c \in Claims, c # d
  PROVE  CancelTask(slot, d)[c] = slot[c]
<1>1. slot \in [Claims -> SlotRecord]
  BY DEF TInv, Slots
<1> QED
  BY <1>1 DEF CancelTask

\* What strikes nodes of one tree, where its claim is asked to stop if it works on one
\* of them, and its task with it.
LEMMA NodesStruck ==
  ASSUME TInv, UNCHANGED <<trees, index>>, NEW t \in Published,
         NEW A \in SUBSET Nodes, NEW N \in SUBSET A,
         tree[t].active # NoClaim /\ tree[t].work \in A => tree[t].work \in N,
         tree' = [tree EXCEPT ![t] = Struck(Asked(@, A), N)],
         slot' = IF tree[t].active # NoClaim /\ tree[t].work \in A /\ ~Faceless(tree[t])
                   THEN CancelTask(slot, tree[t].active) ELSE slot
  PROVE  TInv'
<1> DEFINE u == Struck(Asked(tree[t], A), N)
<1>1. /\ t \in TreeIds /\ tree \in [TreeIds -> TreeRecord]
      /\ \A x \in TreeIds : Sound(tree[x]) /\ tree[x].active \in Claims \cup {NoClaim}
      /\ slot \in [Claims -> SlotRecord]
  BY PublishedTrees DEF TInv, Bodies, TreeRecord, Slots
<1>2. /\ Sound(u) /\ SameTree(tree[t], u)
      /\ u.active = tree[t].active /\ u.work = tree[t].work
      /\ u.cancelled <=> tree[t].cancelled \/ (tree[t].active # NoClaim /\ tree[t].work \in A)
      /\ \A n \in Nodes : u.state[n] = "progress" => tree[t].state[n] = "progress"
  BY <1>1, StruckTree
<1> HIDE DEF u
<1>3. \A x \in TreeIds : tree'[x] = IF x = t THEN u ELSE tree[x]
  BY <1>1 DEF u
<1>4. tree' \in [TreeIds -> TreeRecord]
  <2>1. u \in TreeRecord /\ tree' = [tree EXCEPT ![t] = u]
    BY <1>2 DEF Sound, u
  <2> QED
    BY <1>1, <2>1
<1>5. /\ slot' \in [Claims -> SlotRecord]
      /\ \A c \in Claims : slot'[c].tree = slot[c].tree /\ slot'[c].phase = slot[c].phase
      /\ \A c \in Claims : c # tree[t].active => slot'[c].requested = slot[c].requested
  BY <1>1, TaskCancelled
<1>6. tree[t].active # NoClaim => slot'[tree[t].active].requested = u.cancelled
  <2> SUFFICES ASSUME tree[t].active # NoClaim
               PROVE  slot'[tree[t].active].requested = u.cancelled
    OBVIOUS
  <2>1. /\ tree[t].cancelled \in BOOLEAN /\ u.cancelled \in BOOLEAN
        /\ slot[tree[t].active].requested = tree[t].cancelled
    BY <1>1, <1>2 DEF Sound, TreeRecord, TInv, Slots, ClaimsAreExecuted
  <2>2. CASE tree[t].work \notin A
    BY <1>2, <2>1, <2>2
  <2>3. CASE tree[t].work \in A /\ ~Faceless(tree[t])
    <3>1. slot'[tree[t].active].requested = TRUE
      BY <1>1, <2>3, TaskCancelled
    <3> QED
      BY <1>2, <2>1, <2>3, <3>1
  <2>4. CASE tree[t].work \in A /\ Faceless(tree[t])
    <3>1. tree[t].cancelled
      <4>1. tree[t].work \in Members(tree[t]) \ tree[t].status /\ tree[t].active # NoClaim
        BY <1>1, <2>4 DEF Faceless, Members, Sound, ClaimIsWhole
      <4> QED
        BY <1>1, <4>1 DEF Sound, StatuslessIsError
    <3> QED
      BY <1>2, <2>1, <2>4, <3>1
  <2> QED
    BY <2>2, <2>3, <2>4
<1>7. ASSUME NEW x \in TreeIds, tree[x].active # NoClaim
      PROVE  slot'[tree[x].active].requested = tree'[x].cancelled
  <2>1. CASE x = t
    BY <1>3, <1>6, <1>7, <2>1
  <2>2. CASE x # t
    <3>1. slot[tree[x].active].tree = x /\ slot[tree[x].active].requested = tree[x].cancelled
      BY <1>7 DEF TInv, Slots, ClaimsAreExecuted
    <3>2. tree[x].active # tree[t].active
      BY <1>1, <1>7, <2>2, <3>1 DEF TInv, Slots, ClaimsAreExecuted
    <3> QED
      BY <1>1, <1>3, <1>5, <1>7, <2>2, <3>1, <3>2
  <2> QED
    BY <2>1, <2>2
<1>8. ASSUME NEW x \in TreeIds, NEW n \in Nodes, tree'[x].state[n] = "progress"
      PROVE  tree[x].state[n] = "progress" /\ slot'[tree[x].active].phase \in Unreported
  <2>1. tree[x].state[n] = "progress"
    BY <1>2, <1>3, <1>8
  <2>2. tree[x].active \in Claims
    BY <1>1, <2>1 DEF Sound, ProgressIsClaimed
  <2> QED
    BY <1>5, <2>1, <2>2 DEF TInv, Turns
<1>9. \A x \in TreeIds : /\ Sound(tree'[x]) /\ SameTree(tree[x], tree'[x])
                         /\ tree'[x].active = tree[x].active
  BY <1>1, <1>2, <1>3 DEF SameTree
<1> QED
  BY <1>3, <1>4, <1>5, <1>7, <1>8, <1>9, PublishedTrees, InPlace

\* A stop of one node.
LEMMA NodeCancelled ==
  ASSUME TInv, NEW r \in Refs, CancelNode(r)
  PROVE  TInv'
<1> DEFINE t == index[r]
           n == Owner(r)
<1>1. t \in Published /\ n \in Nodes /\ UNCHANGED <<trees, index>>
  BY Located, References DEF CancelNode
<1>2. tree' = [tree EXCEPT ![t] = Struck(Asked(@, {n}), {n})]
  BY DEF CancelNode, CancelledNode
<1>3. slot' = IF tree[t].active # NoClaim /\ tree[t].work \in {n} /\ ~Faceless(tree[t])
                THEN CancelTask(slot, tree[t].active) ELSE slot
  BY DEF CancelNode
<1> QED
  BY <1>1, <1>2, <1>3, NodesStruck

\* A removal that raises midway: the claim whose face is gone has been asked before.
LEMMA RemovalRaised ==
  ASSUME TInv, NEW r \in Refs, RemoveRaises(r)
  PROVE  TInv'
<1> DEFINE t == index[r]
           A == Affected(tree[t], r)
<1>1. t \in Published /\ UNCHANGED <<trees, index, slot>> /\ A \in SUBSET Nodes
  BY Located, References DEF RemoveRaises, Affected, RemovedNodes
<1>2. PICK N \in SUBSET A : /\ tree[t].work \in N
                            /\ tree' = [tree EXCEPT ![t] = Struck(Asked(@, A), N)]
  BY DEF RemoveRaises, PrunedUpTo
<1>3. Faceless(tree[t])
  BY DEF RemoveRaises, PruneRaises
<1> HIDE DEF t, A
<1> QED
  BY <1>1, <1>2, <1>3, NodesStruck

\* The trees that a stop reaches are published.
LEMMA ReachedTrees ==
  ASSUME TInv
  PROVE  Reached \subseteq Published /\ Reached \subseteq TreeIds
BY PublishedTrees DEF Reached

\* The tasks that a stop asks to stop.
LEMMA TasksCancelled ==
  ASSUME TInv
  PROVE  LET s == CancelTasks(slot, Reached) IN
         /\ s \in [Claims -> SlotRecord]
         /\ \A c \in Claims :
              /\ s[c].tree = slot[c].tree /\ s[c].phase = slot[c].phase
              /\ (\E t \in Reached : tree[t].active = c) => s[c].requested = TRUE
              /\ (\A t \in Reached : tree[t].active # c) => s[c].requested = slot[c].requested
<1> DEFINE s == CancelTasks(slot, Reached)
<1>1. slot \in [Claims -> SlotRecord] /\ Reached \subseteq TreeIds
  BY ReachedTrees DEF TInv, Slots
<1>2. ASSUME NEW c \in Claims
      PROVE  /\ s[c] \in SlotRecord /\ s[c].tree = slot[c].tree /\ s[c].phase = slot[c].phase
             /\ (\E t \in Reached : tree[t].active = c) => s[c].requested = TRUE
             /\ (\A t \in Reached : tree[t].active # c) => s[c].requested = slot[c].requested
  <2>1. CASE \E t \in Reached : tree[t].active = c
    <3>1. PICK t \in Reached : tree[t].active = c
      BY <2>1
    <3>2. s[c] = CancelTask(slot, c)[c]
      BY <2>1 DEF CancelTasks
    <3>3. t \in TreeIds /\ c # NoClaim
      BY <1>1, TreesAssumption
    <3> QED
      BY <2>1, <3>1, <3>2, <3>3, TaskCancelled, ZenonT(40)
  <2>2. CASE \A t \in Reached : tree[t].active # c
    BY <1>1, <2>2 DEF CancelTasks
  <2> QED
    BY <2>1, <2>2
<1>3. s \in [Claims -> SlotRecord]
  <2>1. s = [c \in Claims |-> s[c]]
    BY DEF CancelTasks
  <2> HIDE DEF s
  <2> QED
    BY <1>2, <2>1
<1> QED
  BY <1>2, <1>3

\* What a stop makes of each tree.
LEMMA TreesStopped ==
  ASSUME TInv
  PROVE  \A t \in TreeIds :
           LET u == Stopped[t] IN
           /\ Sound(u) /\ SameTree(tree[t], u) /\ u.active = tree[t].active
           /\ u.work = tree[t].work /\ (t \notin Reached => u = tree[t])
           /\ t \in Reached => /\ u.queue = <<>> /\ WithStates(u, Runnable) = {}
                               /\ u.cancelled <=> tree[t].active # NoClaim
<1>1. \A t \in TreeIds :
        /\ Sound(tree[t])
        /\ Stopped[t] = IF t \in Reached THEN CancelledAll(tree[t]) ELSE tree[t]
  BY DEF TInv, Bodies, Stopped
<1>2. \A t \in TreeIds : SameTree(tree[t], tree[t])
  BY DEF SameTree
<1> QED
  BY <1>1, <1>2, CancelledTree

\* The task of every claim knows what a stop has made of it.
LEMMA StopHeard ==
  ASSUME TInv, NEW t \in TreeIds, tree[t].active # NoClaim
  PROVE  CancelTasks(slot, Reached)[tree[t].active].requested = Stopped[t].cancelled
<1> DEFINE s == CancelTasks(slot, Reached)
<1>1. /\ \A x \in TreeIds : /\ tree[x].active \in Claims \cup {NoClaim}
                            /\ tree[x].cancelled \in BOOLEAN
      /\ Reached \subseteq TreeIds
  BY ReachedTrees DEF TInv, Bodies, TreeRecord
<1>2. /\ Sound(Stopped[t]) /\ (t \notin Reached => Stopped[t] = tree[t])
      /\ t \in Reached => (Stopped[t].cancelled <=> tree[t].active # NoClaim)
  BY TreesStopped
<1>3. \A c \in Claims :
        /\ (\E x \in Reached : tree[x].active = c) => s[c].requested = TRUE
        /\ (\A x \in Reached : tree[x].active # c) => s[c].requested = slot[c].requested
  BY TasksCancelled
<1> HIDE DEF s
<1>4. /\ slot[tree[t].active].tree = t /\ slot[tree[t].active].requested = tree[t].cancelled
      /\ tree[t].active \in Claims
  BY <1>1 DEF TInv, Slots, ClaimsAreExecuted
<1>5. CASE t \in Reached
  <2>1. Stopped[t].cancelled \in BOOLEAN
    BY <1>2 DEF Sound, TreeRecord
  <2> QED
    BY <1>2, <1>3, <1>4, <1>5, <2>1 DEF s
<1>6. CASE t \notin Reached
  <2>1. \A x \in Reached : tree[x].active # tree[t].active
    <3> SUFFICES ASSUME NEW x \in Reached, tree[x].active = tree[t].active PROVE FALSE
      OBVIOUS
    <3>1. slot[tree[x].active].tree = x
      BY <1>1 DEF TInv, Slots, ClaimsAreExecuted
    <3> QED
      BY <1>4, <1>6, <3>1
  <2> QED
    BY <1>2, <1>3, <1>4, <1>6, <2>1 DEF s
<1> QED
  BY <1>5, <1>6

\* A stop of everything.
LEMMA AllCancelled ==
  ASSUME TInv, CancelAll
  PROVE  TInv'
<1>1. tree' = Stopped /\ slot' = CancelTasks(slot, Reached) /\ UNCHANGED <<trees, index>>
  BY DEF CancelAll
<1>2. /\ \A t \in TreeIds : /\ tree[t].active \in Claims \cup {NoClaim}
                            /\ tree[t].cancelled \in BOOLEAN
      /\ Reached \subseteq Published /\ Reached \subseteq TreeIds
      /\ slot \in [Claims -> SlotRecord]
  BY ReachedTrees DEF TInv, Bodies, TreeRecord, Slots
<1>3. \A t \in TreeIds :
        /\ Sound(tree'[t]) /\ SameTree(tree[t], tree'[t]) /\ tree'[t].active = tree[t].active
        /\ t \notin Reached => tree'[t] = tree[t]
        /\ t \in Reached => /\ WithStates(tree'[t], Runnable) = {}
                            /\ tree'[t].cancelled <=> tree[t].active # NoClaim
  BY <1>1, TreesStopped
<1>4. tree' \in [TreeIds -> TreeRecord]
  <2>1. tree' = [t \in TreeIds |-> tree'[t]]
    BY <1>1 DEF Stopped
  <2>2. \A t \in TreeIds : tree'[t] \in TreeRecord
    BY <1>3 DEF Sound
  <2> QED
    BY <2>1, <2>2
<1>5. /\ slot' \in [Claims -> SlotRecord]
      /\ \A c \in Claims : /\ slot'[c].tree = slot[c].tree /\ slot'[c].phase = slot[c].phase
                           /\ (\E t \in Reached : tree[t].active = c) => slot'[c].requested = TRUE
                           /\ (\A t \in Reached : tree[t].active # c) =>
                                slot'[c].requested = slot[c].requested
  BY <1>1, TasksCancelled
<1>6. \A t \in TreeIds : tree[t].active # NoClaim =>
        slot'[tree[t].active].requested = tree'[t].cancelled
  BY <1>1, StopHeard
<1>7. ASSUME NEW t \in TreeIds, NEW n \in Nodes, tree'[t].state[n] = "progress"
      PROVE  tree[t].state[n] = "progress" /\ slot'[tree[t].active].phase \in Unreported
  <2>1. t \notin Reached
    BY <1>3, <1>7 DEF WithStates, Runnable
  <2>2. tree[t].state[n] = "progress"
    BY <1>3, <1>7, <2>1
  <2>3. tree[t].active \in Claims
    BY <1>2, <2>2 DEF TInv, Bodies, Sound, ProgressIsClaimed
  <2> QED
    BY <1>5, <2>2, <2>3 DEF TInv, Turns
<1>8. \A t \in TreeIds \ Published : tree'[t] = tree[t]
  BY <1>2, <1>3
<1> QED
  BY <1>1, <1>3, <1>4, <1>5, <1>6, <1>7, <1>8, PublishedTrees, InPlace

--------------------------------------------------------------------------------
(* Steps that give out a claim, or take a tree away *)

\* A step of one tree. Its old claim has no task any more unless it goes on, its new
\* one has the task that knows its tree and whether it is cancelled.
LEMMA OneTree ==
  ASSUME TInv, NEW t \in TreeIds, NEW u, Sound(u), tree' = [tree EXCEPT ![t] = u],
         slot' \in [Claims -> SlotRecord],
         \A x \in Published : x # t => x \in Published',
         t \in Published' \/ Drained(u),
         \A c \in Claims : c # tree[t].active /\ c # u.active => slot'[c] = slot[c],
         tree[t].active # NoClaim /\ tree[t].active # u.active =>
           slot'[tree[t].active].phase = "none",
         u.active # NoClaim => /\ \A x \in TreeIds \ {t} : tree[x].active # u.active
                               /\ slot'[u.active].phase # "none" /\ slot'[u.active].tree = t
                               /\ slot'[u.active].requested = u.cancelled,
         \A n \in Nodes : u.state[n] = "progress" => slot'[u.active].phase \in Unreported
  PROVE  Bodies' /\ Slots' /\ Turns'
<1>1. /\ tree \in [TreeIds -> TreeRecord] /\ u \in TreeRecord
      /\ \A x \in TreeIds : Sound(tree[x]) /\ tree[x].active \in Claims \cup {NoClaim}
      /\ u.active \in Claims \cup {NoClaim} /\ slot \in [Claims -> SlotRecord]
  BY DEF TInv, Bodies, TreeRecord, Slots, Sound
<1>2. \A x \in TreeIds : tree'[x] = IF x = t THEN u ELSE tree[x]
  BY <1>1
<1>3. tree' \in [TreeIds -> TreeRecord]
  BY <1>1
<1>4. Bodies'
  BY <1>1, <1>2, <1>3 DEF TInv, Bodies
<1>5. ASSUME NEW x \in TreeIds \ {t}, tree[x].active # NoClaim
      PROVE  tree[x].active # tree[t].active /\ slot'[tree[x].active] = slot[tree[x].active]
  <2>1. slot[tree[x].active].tree = x
    BY <1>5 DEF TInv, Slots, ClaimsAreExecuted
  <2>2. tree[x].active # tree[t].active
    BY <1>5, <2>1 DEF TInv, Slots, ClaimsAreExecuted
  <2>3. tree[x].active # u.active
    BY <1>5
  <2> QED
    BY <1>1, <1>5, <2>2, <2>3
<1>6. ASSUME NEW x \in TreeIds, tree'[x].active # NoClaim
      PROVE  LET s == slot'[tree'[x].active]
             IN  s.phase # "none" /\ s.tree = x /\ s.requested = tree'[x].cancelled
  <2>1. CASE x = t
    BY <1>2, <1>6, <2>1
  <2>2. CASE x # t
    BY <1>2, <1>5, <1>6, <2>2 DEF TInv, Slots, ClaimsAreExecuted
  <2> QED
    BY <2>1, <2>2
<1>7. ASSUME NEW c \in Claims, slot'[c].phase # "none"
      PROVE  slot'[c].tree \in TreeIds /\ tree'[slot'[c].tree].active = c
  <2>1. CASE c = u.active
    BY <1>2, <2>1, TreesAssumption
  <2>2. CASE c # u.active
    <3>1. c # tree[t].active
      BY <1>7, <2>2, TreesAssumption
    <3>2. slot'[c] = slot[c]
      BY <2>2, <3>1
    <3>3. slot[c].tree \in TreeIds /\ tree[slot[c].tree].active = c
      BY <1>7, <3>2 DEF TInv, Slots, ClaimsAreExecuted
    <3>4. slot[c].tree # t
      BY <3>1, <3>3
    <3> QED
      BY <1>2, <3>2, <3>3, <3>4
  <2> QED
    BY <2>1, <2>2
<1>8. Slots'
  BY <1>6, <1>7 DEF Slots, ClaimsAreExecuted
<1>9. ASSUME NEW x \in TreeIds, NEW n \in Nodes, tree'[x].state[n] = "progress"
      PROVE  slot'[tree'[x].active].phase \in Unreported
  <2>1. CASE x = t
    BY <1>2, <1>9, <2>1
  <2>2. CASE x # t
    <3>1. tree[x].active # NoClaim
      BY <1>1, <1>2, <1>9, <2>2 DEF Sound, ProgressIsClaimed
    <3> QED
      BY <1>2, <1>5, <1>9, <2>2, <3>1 DEF TInv, Turns
  <2> QED
    BY <2>1, <2>2
<1>10. Turns'
  BY <1>9 DEF Turns
<1> QED
  BY <1>4, <1>8, <1>10

\* A new task has a slot of its own.
LEMMA TaskLaunched ==
  ASSUME NEW slots \in [Claims -> SlotRecord], NEW t \in TreeIds, NEW after,
         NEW phase \in Unreported, NEW c \in Claims, after.active = c
  PROVE  LET s == Launched(slots, t, after, c, phase) IN
         /\ s \in [Claims -> SlotRecord] /\ \A d \in Claims \ {c} : s[d] = slots[d]
         /\ s[c].tree = t /\ s[c].phase = phase /\ ~s[c].requested
<1> DEFINE new == [tree |-> t, phase |-> phase, requested |-> FALSE]
<1>1. new \in SlotRecord /\ new.tree = t /\ new.phase = phase /\ ~new.requested
  BY DEF SlotRecord, Phases, Unreported
<1>2. Launched(slots, t, after, c, phase) = [slots EXCEPT ![c] = new]
  BY DEF Launched
<1> HIDE DEF new
<1> QED
  BY <1>1, <1>2

\* A free claim is nobody's.
LEMMA FreeClaim ==
  ASSUME NEW c \in FreeClaims
  PROVE  c \in Claims /\ c # NoClaim /\ \A t \in TreeIds : tree[t].active # c
BY TreesAssumption DEF FreeClaims

\* A new conversation is published with the claim of its root, and the claim's task.
LEMMA RootAdmitted ==
  ASSUME TInv, NEW n \in Nodes, AdmitRoot(n)
  PROVE  TInv'
<1>1. PICK t \in FreeTrees, c \in FreeClaims :
        /\ tree' = [tree EXCEPT ![t] = Admitted(Seedling(n), n, c)]
        /\ trees' = Append(trees, t)
        /\ index' = [index EXCEPT ![Prompt(n)] = t, ![Status(n)] = t]
        /\ slot' = Launched(slot, t, tree'[t], c, "scheduled")
  BY DEF AdmitRoot
<1> DEFINE u == Admitted(Seedling(n), n, c)
<1>2. /\ t \in TreeIds \ Published /\ tree[t] = Blank /\ tree[t].active = NoClaim
      /\ c \in Claims /\ c # NoClaim /\ \A x \in TreeIds : tree[x].active # c
      /\ tree \in [TreeIds -> TreeRecord] /\ slot \in [Claims -> SlotRecord]
      /\ index[Prompt(n)] = NoTree /\ index[Status(n)] = NoTree
      /\ "scheduled" \in Unreported
  BY FreeClaim, BlankIsSound DEF FreeTrees, TInv, Bodies, Slots, AdmitRoot, Unreported
<1>3. /\ Sound(u) /\ u.active = c /\ ~u.cancelled /\ u.cancelled \in BOOLEAN
      /\ Hangs(u) /\ Live(u) = {Prompt(n), Status(n)}
  BY <1>2, SeedTree, SeedHangs DEF Sound, TreeRecord
<1> HIDE DEF u
<1>4. tree' = [tree EXCEPT ![t] = u] /\ tree'[t] = u
  BY <1>1, <1>2 DEF u
<1>5. /\ slot' \in [Claims -> SlotRecord] /\ \A d \in Claims \ {c} : slot'[d] = slot[d]
      /\ slot'[c].tree = t /\ slot'[c].phase = "scheduled" /\ ~slot'[c].requested
  <2>1. slot' = Launched(slot, t, u, c, "scheduled")
    BY <1>1, <1>4
  <2> QED
    BY <1>2, <1>3, <2>1, TaskLaunched
<1>6. Published' = Published \cup {t} /\ trees' \in Seq(TreeIds)
  <2>1. trees \in Seq(TreeIds) /\ t \in TreeIds
    BY <1>2 DEF TInv, Places
  <2> QED
    BY <1>1, <2>1, AppendedLine DEF Published
<1>7. Bodies' /\ Slots' /\ Turns'
  <2>1. slot'[c].requested \in BOOLEAN
    BY <1>2, <1>5 DEF SlotRecord
  <2>2. slot'[u.active].requested = u.cancelled
    BY <1>3, <1>5, <2>1
  <2>3. u.active # NoClaim /\ u.active \in Claims /\ slot'[u.active].phase \in Unreported
    BY <1>2, <1>3, <1>5
  <2> QED
    BY <1>2, <1>3, <1>4, <1>5, <1>6, <2>2, <2>3, OneTree
<1>8. Places'
  <2>1. index \in [Refs -> TreeIds \cup {NoTree}] /\ Prompt(n) \in Refs /\ Status(n) \in Refs
    BY References DEF TInv, Places
  <2>2. /\ index' \in [Refs -> TreeIds \cup {NoTree}]
        /\ \A r \in Refs : index'[r] = IF r \in {Prompt(n), Status(n)} THEN t ELSE index[r]
    BY <1>1, <1>2, <2>1
  <2>3. \A x \in TreeIds : tree'[x] = IF x = t THEN u ELSE tree[x]
    BY <1>2, <1>4
  <2>4. ASSUME NEW r \in Refs, NEW x \in TreeIds
        PROVE  index'[r] = x <=> x \in Published' /\ r \in Live(tree'[x])
    <3>1. index[r] = x <=> x \in Published /\ r \in Live(tree[x])
      BY DEF TInv, Places, IndexMatches
    <3>2. NoTree # x
      BY TreesAssumption
    <3> QED
      BY <1>2, <1>3, <1>6, <2>2, <2>3, <3>1, <3>2
  <2>5. \A x \in Published' : Hangs(tree'[x])
    BY <1>2, <1>3, <1>6, <2>3, PublishedTrees DEF TInv, Places
  <2> QED
    BY <1>6, <2>2, <2>4, <2>5 DEF Places, IndexMatches
<1> QED
  BY <1>7, <1>8 DEF TInv

\* A reply joins the tree that holds what it replies to.
LEMMA ReplyAdmitted ==
  ASSUME TInv, NEW n \in Nodes, NEW r \in Refs, AdmitReply(n, r)
  PROVE  TInv'
<1>1. PICK t \in Published : \E c \in Offered(t) :
        /\ index[r] = t /\ r \in Live(tree[t])
        /\ tree' = [tree EXCEPT ![t] = Grown(@, n, r, c)]
        /\ index' = [index EXCEPT ![Prompt(n)] = t, ![Status(n)] = t]
        /\ slot' = Launched(slot, t, tree'[t], c, "scheduled")
  BY DEF AdmitReply
<1>2. PICK c \in Offered(t) :
        /\ index[r] = t /\ r \in Live(tree[t])
        /\ tree' = [tree EXCEPT ![t] = Grown(@, n, r, c)]
        /\ index' = [index EXCEPT ![Prompt(n)] = t, ![Status(n)] = t]
        /\ slot' = Launched(slot, t, tree'[t], c, "scheduled")
  BY <1>1
<1> DEFINE u == Grown(tree[t], n, r, c)
<1>3. /\ t \in TreeIds /\ Sound(tree[t]) /\ Hangs(tree[t])
      /\ tree \in [TreeIds -> TreeRecord] /\ slot \in [Claims -> SlotRecord]
      /\ tree[t].active \in Claims \cup {NoClaim} /\ tree[t].cancelled \in BOOLEAN
      /\ index[Prompt(n)] = NoTree /\ index[Status(n)] = NoTree /\ UNCHANGED trees
      /\ "scheduled" \in Unreported
  BY PublishedTrees DEF TInv, Bodies, Places, Slots, AdmitReply, Unreported, TreeRecord
<1>4. /\ tree[t].active = NoClaim => /\ c \in Claims /\ c # NoClaim
                                     /\ \A x \in TreeIds : tree[x].active # c
      /\ tree[t].active # NoClaim => c = NoClaim
      /\ c \in Claims \cup {NoClaim}
  BY FreeClaim DEF Offered
<1>5. n \in Nodes \ Members(tree[t])
  <2>1. Prompt(n) \in Refs /\ index[Prompt(n)] # t
    BY <1>3, TreesAssumption, References
  <2>2. Prompt(n) \notin Live(tree[t])
    BY <1>3, <2>1 DEF TInv, Places, IndexMatches
  <2> QED
    BY <2>2, LiveReferences
<1>6. /\ Sound(u)
      /\ tree[t].active = NoClaim => u.active = c /\ ~u.cancelled
      /\ tree[t].active # NoClaim =>
           /\ u.active = tree[t].active /\ (u.cancelled <=> tree[t].cancelled)
           /\ \A m \in Nodes : u.state[m] = "progress" => tree[t].state[m] = "progress"
  <2>1. Sound(u) /\ Turned(tree[t], u, n, c)
    BY <1>2, <1>3, <1>4, <1>5, GrownTree
  <2> QED
    BY <2>1 DEF Turned
<1>7. Hangs(u) /\ Live(u) = Live(tree[t]) \cup {Prompt(n), Status(n)}
  BY <1>2, <1>3, <1>4, <1>5, GrownHangs
<1> HIDE DEF u
<1>8. tree' = [tree EXCEPT ![t] = u] /\ tree'[t] = u
  BY <1>2, <1>3 DEF u
<1>9. Published' = Published
  BY <1>3 DEF Published
<1>10. u.cancelled \in BOOLEAN
  BY <1>6 DEF Sound, TreeRecord
<1>11. Bodies' /\ Slots' /\ Turns'
  <2>1. CASE tree[t].active = NoClaim
    <3>1. /\ slot' \in [Claims -> SlotRecord] /\ \A d \in Claims \ {c} : slot'[d] = slot[d]
          /\ slot'[c].tree = t /\ slot'[c].phase = "scheduled" /\ ~slot'[c].requested
      <4>1. slot' = Launched(slot, t, u, c, "scheduled") /\ u.active = c /\ c \in Claims
            /\ slot \in [Claims -> SlotRecord] /\ t \in TreeIds /\ "scheduled" \in Unreported
        BY <1>2, <1>3, <1>4, <1>6, <1>8, <2>1
      <4> QED
        BY <4>1, TaskLaunched
    <3>2. slot'[u.active].requested = u.cancelled
      <4>1. slot'[c].requested \in BOOLEAN /\ u.active = c /\ ~u.cancelled
        BY <1>4, <1>6, <2>1, <3>1 DEF SlotRecord
      <4> QED
        BY <1>10, <3>1, <4>1
    <3> QED
      BY <1>3, <1>4, <1>6, <1>8, <1>9, <2>1, <3>1, <3>2, OneTree
  <2>2. CASE tree[t].active # NoClaim
    <3>1. slot' = slot
      BY <1>2, <1>4, <1>6, <1>8, <2>2 DEF Launched
    <3>2. /\ slot[u.active].phase # "none" /\ slot[u.active].tree = t
          /\ slot[u.active].requested = u.cancelled
      BY <1>3, <1>6, <1>10, <2>2 DEF TInv, Slots, ClaimsAreExecuted
    <3>3. \A x \in TreeIds \ {t} : tree[x].active # u.active
      BY <1>6, <2>2, <3>2 DEF TInv, Slots, ClaimsAreExecuted
    <3>4. \A m \in Nodes : u.state[m] = "progress" => slot[u.active].phase \in Unreported
      BY <1>3, <1>6, <2>2 DEF TInv, Turns
    <3> QED
      BY <1>3, <1>6, <1>8, <1>9, <2>2, <3>1, <3>2, <3>3, <3>4, OneTree
  <2> QED
    BY <2>1, <2>2
<1>12. Places'
  <2>1. index \in [Refs -> TreeIds \cup {NoTree}] /\ Prompt(n) \in Refs /\ Status(n) \in Refs
    BY References DEF TInv, Places
  <2>2. /\ index' \in [Refs -> TreeIds \cup {NoTree}]
        /\ \A s \in Refs : index'[s] = IF s \in {Prompt(n), Status(n)} THEN t ELSE index[s]
    BY <1>2, <1>3, <2>1
  <2>3. \A x \in TreeIds : tree'[x] = IF x = t THEN u ELSE tree[x]
    BY <1>3, <1>8
  <2>4. ASSUME NEW s \in Refs, NEW x \in TreeIds
        PROVE  index'[s] = x <=> x \in Published' /\ s \in Live(tree'[x])
    <3>1. index[s] = x <=> x \in Published /\ s \in Live(tree[x])
      BY DEF TInv, Places, IndexMatches
    <3>2. NoTree # x
      BY TreesAssumption
    <3> QED
      BY <1>3, <1>7, <1>9, <2>2, <2>3, <3>1, <3>2
  <2>5. \A x \in Published' : Hangs(tree'[x])
    BY <1>3, <1>7, <1>9, <2>3, PublishedTrees DEF TInv, Places
  <2> QED
    BY <1>3, <2>2, <2>4, <2>5 DEF TInv, Places, IndexMatches
<1> QED
  BY <1>11, <1>12 DEF TInv

\* A message that is delivered again changes nothing: its node waits already, or its
\* turn has come.
LEMMA AdmittedAgain ==
  ASSUME TInv, NEW n \in Nodes, AdmitAgain(n)
  PROVE  UNCHANGED vars
<1> DEFINE t == index[Prompt(n)]
<1>1. t \in TreeIds /\ UNCHANGED <<trees, index, slot>>
  BY Located, References DEF AdmitAgain
<1>2. Sound(tree[t]) /\ tree \in [TreeIds -> TreeRecord]
  BY <1>1 DEF TInv, Bodies
<1>3. PICK c \in Offered(t) : tree' = [tree EXCEPT ![t] = Admitted(@, n, c)]
  BY DEF AdmitAgain
<1>4. tree' = tree
  BY <1>1, <1>2, <1>3, AgainTree
<1> QED
  BY <1>1, <1>4 DEF vars

\* The end of a task: its claim is released and the first that waits has its turn, if
\* its tree is still there.
LEMMA TaskEnded ==
  ASSUME TInv, NEW c \in Claims, End(c)
  PROVE  TInv'
<1> DEFINE t == slot[c].tree
           base == [slot EXCEPT ![c] = NoSlot]
<1>1. /\ t \in TreeIds /\ tree[t].active = c /\ c # NoClaim /\ slot[c].phase # "none"
      /\ tree \in [TreeIds -> TreeRecord] /\ slot \in [Claims -> SlotRecord]
      /\ \A x \in TreeIds : Sound(tree[x])
      /\ UNCHANGED <<trees, index>>
  <2>1. slot[c].phase # "none" /\ UNCHANGED <<trees, index>>
    BY DEF End, Ends, Finish
  <2> QED
    BY <2>1, TreesAssumption DEF TInv, Bodies, Slots, ClaimsAreExecuted
<1>2. \A n \in Nodes : tree[t].state[n] # "progress"
  <2> SUFFICES ASSUME NEW n \in Nodes, tree[t].state[n] = "progress" PROVE FALSE
    OBVIOUS
  <2>1. ~tree[t].cancelled /\ slot[c].requested = tree[t].cancelled /\ slot[c].phase \in Unreported
    BY <1>1 DEF Sound, ProgressIsClaimed, TInv, Slots, ClaimsAreExecuted, Turns
  <2> QED
    BY <2>1 DEF End, Ends, Unreported
<1>3. PICK next \in FreeClaims \cup {c} :
        /\ tree' = [tree EXCEPT ![t] = IF t \in Published THEN Finished(@, c, next) ELSE Blank]
        /\ slot' = Launched(base, t, tree'[t], next, "successor")
  BY DEF End, Finish
<1> HIDE DEF t
<1>4. /\ next \in Claims /\ next # NoClaim
      /\ \A x \in TreeIds \ {t} : tree[x].active # next
  <2>1. \A x \in TreeIds \ {t} : tree[x].active # c
    BY <1>1, TreesAssumption DEF TInv, Slots, ClaimsAreExecuted, t
  <2> QED
    BY <1>1, <1>3, <2>1, FreeClaim
<1>5. /\ base \in [Claims -> SlotRecord] /\ base[c].phase = "none"
      /\ \A d \in Claims \ {c} : base[d] = slot[d]
  <2>1. NoSlot \in SlotRecord /\ NoSlot.phase = "none"
    BY DEF NoSlot, SlotRecord, Phases
  <2> QED
    BY <1>1, <2>1
<1> HIDE DEF base
<1> DEFINE u == IF t \in Published THEN Finished(tree[t], c, next) ELSE Blank
<1>6. tree' = [tree EXCEPT ![t] = u] /\ tree'[t] = u
  BY <1>1, <1>3
<1>7. /\ Sound(u) /\ (t \in Published => SameTree(tree[t], u)) /\ (t \notin Published => Drained(u))
      /\ u.active = NoClaim \/ (u.active = next /\ ~u.cancelled)
  <2>1. CASE t \in Published
    <3>1. Sound(u) /\ SameTree(tree[t], u) /\ Advanced(tree[t], u, next)
      BY <1>1, <1>2, <1>4, <2>1, FinishedTree
    <3> HIDE DEF u
    <3> QED
      BY <2>1, <3>1 DEF Advanced
  <2>2. CASE t \notin Published
    <3>1. u = Blank
      BY <2>2
    <3>2. Drained(Blank) /\ Sound(Blank) /\ Blank.active = NoClaim
      BY BlankIsSound DEF Drained, Blank, WithStates, Runnable
    <3> HIDE DEF u
    <3> QED
      BY <2>2, <3>1, <3>2
  <2> QED
    BY <2>1, <2>2
<1> HIDE DEF u
<1>8. slot' = Launched(base, t, u, next, "successor") /\ "successor" \in Unreported
  BY <1>3, <1>6 DEF Unreported
<1>9. Places' /\ Published' = Published
  <2>1. ASSUME NEW x \in Published PROVE SameTree(tree[x], tree'[x])
    <3>1. x \in TreeIds
      BY PublishedTrees
    <3>2. tree'[x] = IF x = t THEN u ELSE tree[x]
      BY <1>1, <1>6, <3>1
    <3> QED
      BY <1>7, <3>2 DEF SameTree
  <2> QED
    BY <1>1, <2>1, PlacesKept
<1>10. Bodies' /\ Slots' /\ Turns'
  <2>1. CASE u.active = NoClaim
    <3>1. slot' = base
      BY <1>4, <1>8, <2>1 DEF Launched
    <3>2. \A n \in Nodes : u.state[n] # "progress"
      BY <1>7, <2>1 DEF Sound, ProgressIsClaimed
    <3> QED
      BY <1>1, <1>5, <1>6, <1>7, <1>9, <2>1, <3>1, <3>2, OneTree
  <2>2. CASE u.active # NoClaim
    <3>1. u.active = next /\ ~u.cancelled /\ u.cancelled \in BOOLEAN
      BY <1>7, <2>2 DEF Sound, TreeRecord
    <3>2. /\ slot' \in [Claims -> SlotRecord] /\ \A d \in Claims \ {next} : slot'[d] = base[d]
          /\ slot'[next].tree = t /\ slot'[next].phase = "successor" /\ ~slot'[next].requested
      BY <1>1, <1>4, <1>5, <1>8, <3>1, TaskLaunched
    <3>3. slot'[next].requested \in BOOLEAN
      BY <1>4, <3>2 DEF SlotRecord
    <3>4. slot'[next].requested = u.cancelled
      BY <3>1, <3>2, <3>3
    <3>5. \A d \in Claims : d # c /\ d # next => slot'[d] = slot[d]
      BY <1>5, <3>2
    <3>6. c # next => slot'[c].phase = "none"
      BY <1>5, <3>2
    <3> QED
      BY <1>1, <1>4, <1>6, <1>7, <1>8, <1>9, <2>2, <3>1, <3>2, <3>4, <3>5, <3>6, OneTree
  <2> QED
    BY <2>1, <2>2
<1> QED
  BY <1>9, <1>10 DEF TInv

\* A restart: what was running or waiting was interrupted, and no task is left.
LEMMA Restarted ==
  ASSUME TInv, Restart
  PROVE  TInv'
<1>1. /\ UNCHANGED <<trees, index>> /\ slot' = [c \in Claims |-> NoSlot]
      /\ tree' = [t \in TreeIds |-> IF t \in Published THEN Restored(tree[t]) ELSE Blank]
  BY DEF Restart
<1>2. Sound(Blank) /\ Blank.active = NoClaim /\ Drained(Blank)
  BY BlankIsSound DEF Drained, Blank, WithStates, Runnable
<1>3. \A t \in TreeIds : /\ Sound(tree'[t]) /\ tree'[t].active = NoClaim
                         /\ t \in Published => SameTree(tree[t], tree'[t])
                         /\ t \notin Published => tree'[t] = Blank
  <2> SUFFICES ASSUME NEW t \in TreeIds
               PROVE  /\ Sound(tree'[t]) /\ tree'[t].active = NoClaim
                      /\ t \in Published => SameTree(tree[t], tree'[t])
                      /\ t \notin Published => tree'[t] = Blank
    OBVIOUS
  <2>1. tree'[t] = IF t \in Published THEN Restored(tree[t]) ELSE Blank
    BY <1>1
  <2>2. Sound(tree[t])
    BY DEF TInv, Bodies
  <2>3. /\ Sound(Restored(tree[t])) /\ SameTree(tree[t], Restored(tree[t]))
        /\ Restored(tree[t]).active = NoClaim
    BY <2>2, RestoredTree
  <2> QED
    BY <1>2, <2>1, <2>3
<1>4. Places' /\ Published' = Published
  BY <1>1, <1>3, PublishedTrees, PlacesKept
<1>5. Bodies'
  <2>1. tree' = [t \in TreeIds |-> tree'[t]]
    BY <1>1
  <2>2. \A t \in TreeIds : tree'[t] \in TreeRecord
    BY <1>3 DEF Sound
  <2>3. tree' \in [TreeIds -> TreeRecord]
    BY <2>1, <2>2
  <2> QED
    BY <1>2, <1>3, <1>4, <2>3 DEF Bodies
<1>6. Slots'
  <2>1. NoSlot \in SlotRecord /\ NoSlot.phase = "none"
    BY DEF NoSlot, SlotRecord, Phases
  <2>2. slot' \in [Claims -> SlotRecord] /\ \A c \in Claims : slot'[c].phase = "none"
    BY <1>1, <2>1
  <2> QED
    BY <1>3, <2>2 DEF Slots, ClaimsAreExecuted
<1>7. Turns'
  BY <1>3 DEF Turns, Sound, ProgressIsClaimed
<1> QED
  BY <1>4, <1>5, <1>6, <1>7 DEF TInv

\* A clear: what a stop has reached is out of reach now.
LEMMA ScopeCleared ==
  ASSUME TInv, ClearScope
  PROVE  TInv'
<1>1. /\ tree' = [t \in TreeIds |-> IF t \in Reached THEN Kept(Stopped[t]) ELSE tree[t]]
      /\ slot' = CancelTasks(slot, Reached) /\ trees' = Without(trees, Reached)
      /\ index' = [r \in Refs |-> IF index[r] \in Reached THEN NoTree ELSE index[r]]
  BY DEF ClearScope
<1>2. /\ trees \in Seq(TreeIds) /\ index \in [Refs -> TreeIds \cup {NoTree}]
      /\ slot \in [Claims -> SlotRecord] /\ Reached \subseteq Published /\ Reached \subseteq TreeIds
      /\ \A t \in TreeIds : tree[t].active \in Claims \cup {NoClaim}
  BY ReachedTrees DEF TInv, Bodies, Places, Slots, TreeRecord
<1>3. trees' \in Seq(TreeIds) /\ Published' = Published \ Reached
  BY <1>1, <1>2, WithoutIsThinned DEF Published
<1>4. ASSUME NEW t \in TreeIds, t \notin Reached
      PROVE  tree'[t] = tree[t] /\ Stopped[t] = tree[t] /\ Sound(tree'[t])
  BY <1>1, <1>4 DEF Stopped, TInv, Bodies
<1>5. ASSUME NEW t \in TreeIds, t \in Reached
      PROVE  /\ Sound(tree'[t]) /\ Drained(tree'[t]) /\ tree'[t].active = tree[t].active
             /\ tree[t].active # NoClaim => tree'[t] = Stopped[t]
  <2>1. /\ Sound(Stopped[t]) /\ Stopped[t].active = tree[t].active
        /\ Stopped[t].queue = <<>> /\ WithStates(Stopped[t], Runnable) = {}
        /\ Stopped[t].cancelled <=> tree[t].active # NoClaim
    BY <1>5, TreesStopped
  <2>2. tree'[t] = Kept(Stopped[t])
    BY <1>1, <1>5
  <2>3. Sound(Blank) /\ Blank.active = NoClaim /\ Drained(Blank)
    BY BlankIsSound DEF Drained, Blank, WithStates, Runnable
  <2>4. CASE tree[t].active = NoClaim
    BY <2>1, <2>2, <2>3, <2>4 DEF Kept
  <2>5. CASE tree[t].active # NoClaim
    BY <2>1, <2>2, <2>5 DEF Kept, Drained
  <2> QED
    BY <2>4, <2>5
<1>6. Bodies'
  <2>1. tree' = [t \in TreeIds |-> tree'[t]]
    BY <1>1
  <2>2. \A t \in TreeIds : Sound(tree'[t]) /\ tree'[t] \in TreeRecord
    BY <1>4, <1>5 DEF Sound
  <2>3. tree' \in [TreeIds -> TreeRecord]
    BY <2>1, <2>2
  <2>4. \A t \in TreeIds \ Published' : Drained(tree'[t])
    BY <1>3, <1>4, <1>5 DEF TInv, Bodies
  <2> QED
    BY <2>2, <2>3, <2>4 DEF Bodies
<1>7. \A t \in TreeIds : /\ tree'[t].active = tree[t].active
                         /\ tree[t].active # NoClaim => tree'[t] = Stopped[t]
  BY <1>4, <1>5
<1>8. /\ slot' \in [Claims -> SlotRecord]
      /\ \A c \in Claims : slot'[c].tree = slot[c].tree /\ slot'[c].phase = slot[c].phase
  BY <1>1, TasksCancelled
<1>9. Slots'
  <2>1. \A t \in TreeIds : tree[t].active # NoClaim =>
          slot'[tree[t].active].requested = tree'[t].cancelled
    BY <1>1, <1>7, StopHeard
  <2> QED
    BY <1>7, <1>8, <2>1, SlotsKept
<1>10. Turns'
  <2> SUFFICES ASSUME NEW t \in TreeIds, NEW n \in Nodes, tree'[t].state[n] = "progress"
               PROVE  slot'[tree'[t].active].phase \in Unreported
    BY DEF Turns
  <2>1. t \notin Reached
    BY <1>5 DEF Drained, WithStates, Runnable
  <2>2. tree[t].state[n] = "progress" /\ tree'[t] = tree[t]
    BY <1>4, <2>1
  <2>3. tree[t].active \in Claims
    BY <1>2, <2>2 DEF TInv, Bodies, Sound, ProgressIsClaimed
  <2> QED
    BY <1>8, <2>2, <2>3 DEF TInv, Turns
<1>11. Places'
  <2>1. /\ index' \in [Refs -> TreeIds \cup {NoTree}]
        /\ \A r \in Refs : index'[r] = IF index[r] \in Reached THEN NoTree ELSE index[r]
    BY <1>1, <1>2
  <2>2. ASSUME NEW r \in Refs, NEW t \in TreeIds
        PROVE  index'[r] = t <=> t \in Published' /\ r \in Live(tree'[t])
    <3>1. index[r] = t <=> t \in Published /\ r \in Live(tree[t])
      BY DEF TInv, Places, IndexMatches
    <3>2. NoTree # t
      BY TreesAssumption
    <3> QED
      BY <1>3, <1>4, <2>1, <3>1, <3>2
  <2>3. \A t \in Published' : Hangs(tree'[t])
    BY <1>3, <1>4, PublishedTrees DEF TInv, Places
  <2> QED
    BY <1>3, <2>1, <2>2, <2>3 DEF Places, IndexMatches
<1> QED
  BY <1>6, <1>9, <1>10, <1>11 DEF TInv

\* A removal that comes to its end.
LEMMA SubtreeRemoved ==
  ASSUME TInv, NEW r \in Refs, RemoveSubtree(r)
  PROVE  TInv'
<1> DEFINE t == index[r]
           gone == ReplySubtree(tree[t], r)
           whole == Prompt(tree[t].root) \in gone
           after == Pruned(tree[t], r)
           u == IF whole THEN Kept(after) ELSE after
           mine == tree[t].active # NoClaim /\ tree[t].work \in Affected(tree[t], r)
<1>1. /\ tree' = [tree EXCEPT ![t] = u]
      /\ trees' = IF whole THEN Without(trees, {t}) ELSE trees
      /\ index' = Unregistered(t, IF whole THEN Refs ELSE gone)
      /\ slot' = IF mine THEN CancelTask(slot, tree[t].active) ELSE slot
  BY DEF RemoveSubtree
<1>2. /\ t \in TreeIds /\ t \in Published /\ r \in Live(tree[t])
      /\ Sound(tree[t]) /\ Hangs(tree[t])
      /\ tree \in [TreeIds -> TreeRecord] /\ slot \in [Claims -> SlotRecord]
      /\ trees \in Seq(TreeIds) /\ index \in [Refs -> TreeIds \cup {NoTree}]
      /\ tree[t].active \in Claims \cup {NoClaim} /\ tree[t].cancelled \in BOOLEAN
  BY Located DEF RemoveSubtree, TInv, Bodies, Places, Slots, TreeRecord
<1>3. /\ Sound(after) /\ Live(after) = Live(tree[t]) \ gone
      /\ after.active = tree[t].active
      /\ after.cancelled <=> tree[t].cancelled \/ mine
      /\ \A n \in Nodes : after.state[n] = "progress" => tree[t].state[n] = "progress"
  <2>1. Sound(after) /\ Live(after) = Live(tree[t]) \ gone
        /\ CutOff(tree[t], after, Affected(tree[t], r))
    BY <1>2, PrunedTree
  <2> QED
    BY <2>1 DEF CutOff
<1>4. whole => /\ Members(after) = {} /\ after.queue = <<>>
               /\ tree[t].active # NoClaim => after.cancelled
  BY <1>2, PrunedWhole
<1>5. ~whole => Hangs(after)
  BY <1>2, PrunedHangs
<1>6. gone \subseteq Live(tree[t]) /\ gone \subseteq Refs /\ (whole => gone = Live(tree[t]))
  BY <1>2, Subtree, PrunedWhole, LiveReferences DEF ClosedBelow
<1> HIDE DEF t, gone, whole, after, mine
<1>7. /\ Sound(u) /\ u.active = tree[t].active /\ (whole => Drained(u)) /\ (~whole => u = after)
      /\ tree[t].active # NoClaim => u = after
      /\ \A n \in Nodes : u.state[n] = "progress" => tree[t].state[n] = "progress"
  <2>1. Sound(Blank) /\ Blank.active = NoClaim /\ Drained(Blank)
        /\ \A n \in Nodes : Blank.state[n] # "progress"
    BY BlankIsSound DEF Drained, Blank, WithStates, Runnable
  <2>2. CASE whole /\ tree[t].active = NoClaim
    <3>1. u = Blank
      BY <1>3, <2>2 DEF Kept
    <3> HIDE DEF u
    <3> QED
      BY <2>1, <2>2, <3>1
  <2>3. CASE whole /\ tree[t].active # NoClaim
    <3>1. u = after
      BY <1>3, <2>3 DEF Kept
    <3>2. WithStates(after, Runnable) = {}
      BY <1>4, <2>3 DEF Members, WithStates, Runnable
    <3> HIDE DEF u
    <3> QED
      BY <1>3, <1>4, <2>3, <3>1, <3>2 DEF Drained
  <2>4. CASE ~whole
    BY <1>3, <2>4
  <2> QED
    BY <2>2, <2>3, <2>4
<1> HIDE DEF u
<1>8. trees' \in Seq(TreeIds) /\ Published' = IF whole THEN Published \ {t} ELSE Published
  BY <1>1, <1>2, WithoutIsThinned DEF Published
<1>9. /\ slot' \in [Claims -> SlotRecord]
      /\ \A c \in Claims : slot'[c].phase = slot[c].phase /\ slot'[c].tree = slot[c].tree
      /\ \A c \in Claims : c # tree[t].active => slot'[c] = slot[c]
  <2>1. CASE mine
    <3>1. slot' = CancelTask(slot, tree[t].active) /\ tree[t].active # NoClaim
      BY <1>1, <2>1 DEF mine
    <3> QED
      BY <1>2, <3>1, TaskCancelled, OthersUntouched
  <2>2. CASE ~mine
    BY <1>1, <1>2, <2>2
  <2> QED
    BY <2>1, <2>2
<1>10. tree[t].active # NoClaim => slot'[tree[t].active].requested = u.cancelled
  <2> SUFFICES ASSUME tree[t].active # NoClaim
               PROVE  slot'[tree[t].active].requested = after.cancelled
    BY <1>7
  <2>1. after.cancelled \in BOOLEAN /\ slot[tree[t].active].requested = tree[t].cancelled
    BY <1>2, <1>3 DEF Sound, TreeRecord, TInv, Slots, ClaimsAreExecuted
  <2>2. CASE mine
    <3>1. slot'[tree[t].active].requested = TRUE
      BY <1>1, <1>2, <2>2, TaskCancelled
    <3> QED
      BY <1>3, <2>1, <2>2, <3>1
  <2>3. CASE ~mine
    BY <1>1, <1>2, <1>3, <2>1, <2>3
  <2> QED
    BY <2>2, <2>3
<1>11. Bodies' /\ Slots' /\ Turns'
  <2>1. ASSUME tree[t].active # NoClaim
        PROVE  /\ slot[tree[t].active].phase # "none" /\ slot[tree[t].active].tree = t
               /\ \A x \in TreeIds \ {t} : tree[x].active # tree[t].active
    BY <1>2, <2>1 DEF TInv, Slots, ClaimsAreExecuted
  <2>2. ASSUME tree[t].active # NoClaim
        PROVE  slot'[tree[t].active].phase # "none" /\ slot'[tree[t].active].tree = t
    BY <1>2, <1>9, <2>1, <2>2
  <2>3. ASSUME NEW n \in Nodes, u.state[n] = "progress"
        PROVE  slot'[u.active].phase \in Unreported
    <3>1. tree[t].state[n] = "progress"
      BY <1>7, <2>3
    <3>2. tree[t].active \in Claims
      BY <1>2, <3>1 DEF Sound, ProgressIsClaimed
    <3> QED
      BY <1>2, <1>7, <1>9, <3>1, <3>2 DEF TInv, Turns
  <2>4. t \in Published' \/ Drained(u)
    BY <1>2, <1>7, <1>8
  <2>5. \A x \in Published : x # t => x \in Published'
    BY <1>8
  <2> QED
    <3>1. u.active # NoClaim =>
            /\ \A x \in TreeIds \ {t} : tree[x].active # u.active
            /\ slot'[u.active].phase # "none" /\ slot'[u.active].tree = t
            /\ slot'[u.active].requested = u.cancelled
      BY <1>7, <1>10, <2>1, <2>2
    <3>2. Sound(u) /\ tree[t].active = u.active
          /\ \A c \in Claims : c # tree[t].active => slot'[c] = slot[c]
      BY <1>7, <1>9
    <3> QED
      BY <1>1, <1>2, <1>9, <2>3, <2>4, <2>5, <3>1, <3>2, OneTree
<1>12. Places'
  <2>1. /\ index' \in [Refs -> TreeIds \cup {NoTree}]
        /\ \A s \in Refs : index'[s] = IF index[s] = t /\ (whole \/ s \in gone)
                                        THEN NoTree ELSE index[s]
    BY <1>1, <1>2 DEF Unregistered
  <2>2. \A x \in TreeIds : tree'[x] = IF x = t THEN u ELSE tree[x]
    BY <1>1, <1>2
  <2>3. ASSUME NEW s \in Refs, NEW x \in TreeIds
        PROVE  index'[s] = x <=> x \in Published' /\ s \in Live(tree'[x])
    <3>1. index[s] = x <=> x \in Published /\ s \in Live(tree[x])
      BY DEF TInv, Places, IndexMatches
    <3>2. NoTree # x
      BY TreesAssumption
    <3>3. CASE x # t
      BY <1>8, <2>1, <2>2, <3>1, <3>2, <3>3
    <3>4. CASE x = t /\ whole
      BY <1>8, <2>1, <3>2, <3>4
    <3>5. CASE x = t /\ ~whole
      BY <1>3, <1>7, <1>8, <2>1, <2>2, <3>1, <3>2, <3>5
    <3> QED
      BY <3>3, <3>4, <3>5
  <2>4. \A x \in Published' : Hangs(tree'[x])
    BY <1>5, <1>7, <1>8, <2>2, PublishedTrees DEF TInv, Places
  <2> QED
    BY <1>8, <2>1, <2>3, <2>4 DEF Places, IndexMatches
<1> QED
  BY <1>11, <1>12 DEF TInv

--------------------------------------------------------------------------------
(* Safety *)

\* Nothing changes while nothing happens.
LEMMA TInvStutters ==
  ASSUME TInv, UNCHANGED vars
  PROVE  TInv'
BY DEF vars, TInv, Bodies, Places, Slots, Turns, ClaimsAreExecuted, IndexMatches, Published

\* Every step keeps the invariant.
LEMMA TInvStep == TInv /\ [Next]_vars => TInv'
<1> SUFFICES ASSUME TInv, [Next]_vars PROVE TInv'
  OBVIOUS
<1>1. ASSUME NEW n \in Nodes, Admit(n) PROVE TInv'
  BY <1>1, RootAdmitted, ReplyAdmitted, AdmittedAgain, TInvStutters DEF Admit
<1>2. ASSUME NEW c \in Claims, Task(c) PROVE TInv'
  BY <1>2, TasksMove, RunnersReport, TaskEnded DEF Task
<1>3. ASSUME Command PROVE TInv'
  BY <1>3, NodeCancelled, SubtreeRemoved, RemovalRaised, AllCancelled, ScopeCleared, Restarted
     DEF Command
<1> QED
  BY <1>1, <1>2, <1>3, TInvStutters DEF Next

\* The aggregates are sound, the index leads to them, and their claims have their tasks.
THEOREM TreesInvariant == Spec => []TInv
<1> QED
  BY TInvAtFirst, TInvStep, PTL DEF Spec

\* The trees are well formed and found by exactly the messages they hold.
THEOREM TreesWellIndexed == Spec => []WellIndexed
<1>1. TInv => WellIndexed
  BY DEF TInv, Bodies, Places, Slots, SlotRecord, Sound, QueueIsPending, WellIndexed, TypeOK
<1> QED
  BY <1>1, TreesInvariant, PTL

\* Each claim is executed by exactly one task, each task works for its tree's claim.
THEOREM ClaimsExecuted == Spec => []ClaimsAreExecuted
<1>1. TInv => ClaimsAreExecuted
  BY DEF TInv, Slots
<1> QED
  BY <1>1, TreesInvariant, PTL

\* Nobody is stranded.
THEOREM NobodyIsStranded == Spec => []NobodyStranded
<1>1. TInv => NobodyStranded
  <2> SUFFICES ASSUME TInv, NEW t \in TreeIds
               PROVE  /\ WithStates(tree[t], {"pending"}) = ToSet(tree[t].queue)
                      /\ tree[t].queue # <<>> => tree[t].active # NoClaim
                      /\ \A n \in WithStates(tree[t], {"progress"}) :
                           /\ tree[t].active # NoClaim /\ tree[t].work = n /\ ~tree[t].cancelled
                           /\ slot[tree[t].active].phase \in Unreported
    BY DEF NobodyStranded, Unreported
  <2>1. Sound(tree[t])
    BY DEF TInv, Bodies
  <2>2. \A n \in WithStates(tree[t], {"progress"}) :
          /\ tree[t].active # NoClaim /\ tree[t].work = n /\ ~tree[t].cancelled
          /\ slot[tree[t].active].phase \in Unreported
    BY <2>1 DEF TInv, Turns, Sound, ProgressIsClaimed, WithStates
  <2> QED
    BY <2>1, <2>2 DEF Sound, QueueIsPending, ClaimIsWhole
<1> QED
  BY <1>1, TreesInvariant, PTL

\* Every published tree can be restored from its snapshot.
THEOREM TreesRestorable == Spec => []Restorable
<1>1. TInv => Restorable
  BY DEF TInv, Places, Hangs, Restorable
<1> QED
  BY <1>1, TreesInvariant, PTL

\* What a removal or a stop has reached is over, and a stop reaches everything.
THEOREM StoppedMeansOver == Spec => []StoppedIsOver
<1>1. TInv => StatuslessIsOver
  BY DEF TInv, Bodies, Sound, StatuslessIsError, StatuslessIsOver
<1>2. TInv => StopReachesFaces
  <2> SUFFICES ASSUME TInv, \A t \in Published : ~Faceless(tree[t]), NEW t \in Published
               PROVE  /\ WithStates(Stopped[t], Runnable) = {} /\ Stopped[t].queue = <<>>
                      /\ tree[t].active # NoClaim =>
                           CancelTasks(slot, Reached)[tree[t].active].requested
    BY DEF StopReachesFaces, StopReachesAll
  <2>1. t \in TreeIds /\ t \in Reached
    <3>1. PICK i \in DOMAIN trees : trees[i] = t
      BY DEF Published, ToSet
    <3>2. \A k \in 1 .. i : k \in DOMAIN trees
      BY <3>1 DEF TInv, Places
    <3>3. \A k \in 1 .. i : ~Faceless(tree[trees[k]])
      BY <3>2, PublishedTrees
    <3> QED
      BY <3>1, <3>3, PublishedTrees DEF Reached
  <2>2. WithStates(Stopped[t], Runnable) = {} /\ Stopped[t].queue = <<>>
    BY <2>1, TreesStopped
  <2>3. ASSUME tree[t].active # NoClaim
        PROVE  CancelTasks(slot, Reached)[tree[t].active].requested
    <3>1. tree[t].active \in Claims
      BY <2>1, <2>3 DEF TInv, Bodies, TreeRecord
    <3>2. CancelTasks(slot, Reached)[tree[t].active].requested = TRUE
      BY <2>1, <3>1, TasksCancelled
    <3> QED
      BY <3>2
  <2> QED
    BY <2>2, <2>3
<1> QED
  BY <1>1, <1>2, TreesInvariant, PTL DEF StoppedIsOver

--------------------------------------------------------------------------------
(* The trees are serial queues *)

\* How a step looks from outside: in some lines jobs leave, in order.
LEMMA JobsLeave ==
  ASSUME \A t \in TreeIds : /\ tree'[t].work = tree[t].work /\ tree'[t].queue \in Seq(Nodes)
                            /\ Thinned(tree'[t].queue, tree[t].queue)
  PROVE  Line!Withdraw
<1> DEFINE W == [t \in TreeIds |-> tree[t].queue]
           R == [t \in TreeIds |-> tree[t].work]
<1>1. R' = R
  OBVIOUS
<1>2. W' \in [TreeIds -> Seq(Nodes)] /\ \A t \in TreeIds : Thinned(W'[t], W[t])
  OBVIOUS
<1>3. \A a, b : Line!Thinned(a, b) <=> Thinned(a, b)
  BY Zenon DEF Thinned, Line!Thinned
<1>4. W' \in [TreeIds -> Seq(Nodes)] /\ \A t \in TreeIds : Line!Thinned(W'[t], W[t])
  <2> HIDE DEF W
  <2> QED
    BY <1>2, <1>3
<1> QED
  BY <1>1, <1>4, Zenon DEF Line!Withdraw

\* A job is submitted to a line: it runs at once, or waits at the end.
LEMMA JobSubmitted ==
  ASSUME NEW t \in TreeIds, NEW n \in Nodes, NEW u, tree \in [TreeIds -> TreeRecord],
         tree' = [tree EXCEPT ![t] = u],
         tree[t].work = NoNode => u.work = n /\ u.queue = tree[t].queue,
         tree[t].work # NoNode => u.work = tree[t].work /\ u.queue = Append(tree[t].queue, n)
  PROVE  Line!Submit(t, n)
<1> DEFINE W == [x \in TreeIds |-> tree[x].queue]
           R == [x \in TreeIds |-> tree[x].work]
<1>1. \A x \in TreeIds : tree'[x] = IF x = t THEN u ELSE tree[x]
  OBVIOUS
<1>2. CASE tree[t].work = NoNode
  <2>1. R' = [R EXCEPT ![t] = n]
    BY <1>1, <1>2
  <2>2. W' = W /\ R[t] = NoNode
    BY <1>1, <1>2
  <2> QED
    BY <2>1, <2>2 DEF Line!Submit
<1>3. CASE tree[t].work # NoNode
  <2>1. W' = [W EXCEPT ![t] = Append(W[t], n)]
    BY <1>1, <1>3
  <2>2. R' = R /\ R[t] # NoNode
    BY <1>1, <1>3
  <2> QED
    BY <2>1, <2>2 DEF Line!Submit
<1> QED
  BY <1>2, <1>3

\* The running job ends, and the first that waits is the next.
LEMMA JobEnded ==
  ASSUME NEW t \in TreeIds, NEW u, tree \in [TreeIds -> TreeRecord],
         tree' = [tree EXCEPT ![t] = u], tree[t].work # NoNode,
         tree[t].queue = <<>> => u.work = NoNode /\ u.queue = <<>>,
         tree[t].queue # <<>> => u.work = Head(tree[t].queue) /\ u.queue = Tail(tree[t].queue)
  PROVE  Line!Advance(t)
<1> DEFINE W == [x \in TreeIds |-> tree[x].queue]
           R == [x \in TreeIds |-> tree[x].work]
<1>1. \A x \in TreeIds : tree'[x] = IF x = t THEN u ELSE tree[x]
  OBVIOUS
<1>2. R[t] # NoNode /\ W[t] = tree[t].queue
  OBVIOUS
<1>3. CASE tree[t].queue = <<>>
  <2>1. R' = [R EXCEPT ![t] = NoNode] /\ W' = W
    BY <1>1, <1>3
  <2> QED
    BY <1>2, <1>3, <2>1 DEF Line!Advance
<1>4. CASE tree[t].queue # <<>>
  <2>1. R' = [R EXCEPT ![t] = Head(W[t])] /\ W' = [W EXCEPT ![t] = Tail(W[t])]
    BY <1>1, <1>4
  <2> QED
    BY <1>2, <1>4, <2>1 DEF Line!Advance
<1> QED
  BY <1>3, <1>4

\* Admissions submit, or change nothing.
LEMMA AdmissionsSubmit ==
  ASSUME TInv, NEW n \in Nodes, Admit(n)
  PROVE  Line!Next \/ UNCHANGED vars
<1>1. CASE AdmitRoot(n)
  <2>1. PICK t \in FreeTrees, c \in FreeClaims :
          tree' = [tree EXCEPT ![t] = Admitted(Seedling(n), n, c)]
    BY <1>1 DEF AdmitRoot
  <2>2. t \in TreeIds /\ tree[t] = Blank /\ c \in Claims /\ tree \in [TreeIds -> TreeRecord]
    BY FreeClaim DEF FreeTrees, TInv, Bodies
  <2>3. Blank.work = NoNode /\ Blank.queue = <<>>
    BY DEF Blank
  <2>4. Admitted(Seedling(n), n, c).work = n /\ Admitted(Seedling(n), n, c).queue = <<>>
    BY <2>2, SeedTree
  <2>5. Line!Submit(t, n)
    BY <2>1, <2>2, <2>3, <2>4, JobSubmitted
  <2> QED
    BY <2>2, <2>5 DEF Line!Next
<1>2. ASSUME NEW r \in Refs, AdmitReply(n, r) PROVE Line!Next
  <2>1. PICK t \in Published : \E c \in Offered(t) :
          /\ index[r] = t /\ r \in Live(tree[t])
          /\ tree' = [tree EXCEPT ![t] = Grown(@, n, r, c)]
    BY <1>2 DEF AdmitReply
  <2>2. PICK c \in Offered(t) :
          r \in Live(tree[t]) /\ tree' = [tree EXCEPT ![t] = Grown(@, n, r, c)]
    BY <2>1
  <2>3. t \in TreeIds /\ Sound(tree[t]) /\ tree \in [TreeIds -> TreeRecord]
    BY PublishedTrees DEF TInv, Bodies
  <2>4. c \in Claims \cup {NoClaim} /\ (tree[t].active = NoClaim => c \in Claims)
    BY FreeClaim DEF Offered
  <2>5. n \in Nodes \ Members(tree[t])
    <3>1. Prompt(n) \in Refs /\ index[Prompt(n)] # t
      BY <1>2, <2>3, TreesAssumption, References DEF AdmitReply
    <3>2. Prompt(n) \notin Live(tree[t])
      BY <2>3, <3>1 DEF TInv, Places, IndexMatches
    <3> QED
      BY <3>2, LiveReferences
  <2> DEFINE u == Grown(tree[t], n, r, c)
  <2>6. Turned(tree[t], u, n, c)
    BY <2>2, <2>3, <2>4, <2>5, GrownTree
  <2>7. tree' = [tree EXCEPT ![t] = u]
    BY <2>2
  <2> HIDE DEF u
  <2>8. tree[t].work = NoNode <=> tree[t].active = NoClaim
    BY <2>3, TreesAssumption DEF Sound, ClaimIsWhole
  <2>9. Line!Submit(t, n)
    BY <2>3, <2>6, <2>7, <2>8, JobSubmitted DEF Turned
  <2> QED
    BY <2>3, <2>9 DEF Line!Next
<1>3. CASE AdmitAgain(n)
  BY <1>3, AdmittedAgain
<1> QED
  BY <1>1, <1>2, <1>3 DEF Admit

\* Runners only withdraw: the heirs of a failed node.
LEMMA RunnersWithdraw ==
  ASSUME TInv, NEW c \in Claims, Runner(c)
  PROVE  Line!Withdraw
<1>1. \A t \in TreeIds : Sound(tree[t]) /\ tree[t].queue \in Seq(Nodes)
  BY DEF TInv, Bodies, Sound, TreeRecord
<1>2. \A t \in TreeIds : Thinned(tree[t].queue, tree[t].queue)
  BY <1>1, ThinnedTrivially
<1>3. CASE RecordSession(c)
  <2>1. \A t \in TreeIds : Recorded(tree[t], c).queue = tree[t].queue
                           /\ Recorded(tree[t], c).work = tree[t].work
    BY <1>1, RecordedTree
  <2>2. \A t \in TreeIds : tree'[t] = IF t \in Addressed(c) THEN Recorded(tree[t], c) ELSE tree[t]
    BY <1>3 DEF RecordSession
  <2>3. \A t \in TreeIds : tree'[t].queue = tree[t].queue /\ tree'[t].work = tree[t].work
    BY <2>1, <2>2
  <2> QED
    BY <1>1, <1>2, <2>3, JobsLeave
<1>4. CASE CompleteClaim(c)
  <2>1. PICK captured \in BOOLEAN :
          \A t \in TreeIds :
            tree'[t] = IF t \in Addressed(c) THEN Completed(tree[t], c, captured) ELSE tree[t]
    BY <1>4 DEF CompleteClaim
  <2>2. \A t \in TreeIds : Completed(tree[t], c, captured).queue = tree[t].queue
                           /\ Completed(tree[t], c, captured).work = tree[t].work
    BY <1>1, CompletedTree
  <2>3. \A t \in TreeIds : tree'[t].queue = tree[t].queue /\ tree'[t].work = tree[t].work
    BY <2>1, <2>2
  <2> QED
    BY <1>1, <1>2, <2>3, JobsLeave
<1>5. CASE FailClaim(c) \/ RunnerRaises(c)
  <2>1. PICK propagate \in BOOLEAN :
          tree' = [t \in TreeIds |->
                     IF t \in Addressed(c) THEN Failed(tree[t], c, propagate) ELSE tree[t]]
    BY <1>5 DEF FailClaim, RunnerRaises
  <2>2. \A t \in TreeIds : /\ Sound(Failed(tree[t], c, propagate))
                           /\ Thinned(Failed(tree[t], c, propagate).queue, tree[t].queue)
                           /\ Failed(tree[t], c, propagate).work = tree[t].work
    BY <1>1, FailedTree
  <2>3. \A t \in TreeIds : Failed(tree[t], c, propagate).queue \in Seq(Nodes)
    BY <2>2 DEF Sound, TreeRecord
  <2>4. \A t \in TreeIds :
          tree'[t] = IF t \in Addressed(c) THEN Failed(tree[t], c, propagate) ELSE tree[t]
    BY <2>1
  <2> QED
    BY <1>1, <1>2, <2>2, <2>3, <2>4, JobsLeave
<1> QED
  BY <1>3, <1>4, <1>5 DEF Runner

\* The end of a task makes room for the next.
LEMMA EndsAdvance ==
  ASSUME TInv, NEW c \in Claims, End(c)
  PROVE  Line!Next
<1> DEFINE t == slot[c].tree
<1>1. /\ t \in TreeIds /\ tree[t].active = c /\ c # NoClaim /\ Sound(tree[t])
      /\ tree \in [TreeIds -> TreeRecord] /\ slot[c].phase # "none"
  <2>1. slot[c].phase # "none"
    BY DEF End, Ends
  <2> QED
    BY <2>1, TreesAssumption DEF TInv, Bodies, Slots, ClaimsAreExecuted
<1>2. \A n \in Nodes : tree[t].state[n] # "progress"
  <2> SUFFICES ASSUME NEW n \in Nodes, tree[t].state[n] = "progress" PROVE FALSE
    OBVIOUS
  <2>1. ~tree[t].cancelled /\ slot[c].requested = tree[t].cancelled /\ slot[c].phase \in Unreported
    BY <1>1 DEF Sound, ProgressIsClaimed, TInv, Slots, ClaimsAreExecuted, Turns
  <2> QED
    BY <2>1 DEF End, Ends, Unreported
<1>3. PICK next \in FreeClaims \cup {c} :
        tree' = [tree EXCEPT ![t] = IF t \in Published THEN Finished(@, c, next) ELSE Blank]
  BY DEF End, Finish
<1> HIDE DEF t
<1>4. next \in Claims /\ tree[t].work \in Nodes /\ tree[t].work # NoNode
  BY <1>1, <1>3, FreeClaim, TreesAssumption DEF Sound, ClaimIsWhole
<1>5. CASE t \in Published
  <2>1. Advanced(tree[t], Finished(tree[t], c, next), next)
    BY <1>1, <1>2, <1>4, FinishedTree
  <2>2. tree' = [tree EXCEPT ![t] = Finished(tree[t], c, next)]
    BY <1>3, <1>5
  <2> QED
    BY <1>1, <1>4, <2>1, <2>2, JobEnded DEF Advanced, Line!Next
<1>6. CASE t \notin Published
  <2>1. tree[t].queue = <<>> /\ tree' = [tree EXCEPT ![t] = Blank]
    BY <1>1, <1>3, <1>6 DEF TInv, Bodies, Drained
  <2>2. Blank.work = NoNode /\ Blank.queue = <<>>
    BY DEF Blank
  <2> QED
    BY <1>1, <1>4, <2>1, <2>2, JobEnded DEF Line!Next
<1> QED
  BY <1>5, <1>6

\* A step of one tree in which the nodes of N leave, if they wait.
LEMMA NodesLeave ==
  ASSUME TInv, NEW t \in TreeIds, NEW u, NEW N, tree' = [tree EXCEPT ![t] = u],
         u.work = tree[t].work, u.queue = Without(tree[t].queue, N) \/ u.queue = <<>>
  PROVE  Line!Withdraw
<1>1. \A x \in TreeIds : tree[x].queue \in Seq(Nodes)
  BY DEF TInv, Bodies, TreeRecord
<1>2. \A x \in TreeIds : tree'[x] = IF x = t THEN u ELSE tree[x]
  BY DEF TInv, Bodies
<1>3. u.queue \in Seq(Nodes) /\ Thinned(u.queue, tree[t].queue)
  <2> DEFINE q == tree[t].queue
  <2>1. q \in Seq(Nodes)
    BY <1>1
  <2> HIDE DEF q
  <2>2. Without(q, N) \in Seq(Nodes) /\ Thinned(Without(q, N), q)
    BY <2>1, WithoutIsThinned
  <2>3. <<>> \in Seq(Nodes) /\ Thinned(<<>>, q)
    BY <2>1, ThinnedTrivially
  <2>4. u.queue = Without(q, N) \/ u.queue = <<>>
    BY DEF q
  <2>5. u.queue \in Seq(Nodes) /\ Thinned(u.queue, q)
    BY <2>2, <2>3, <2>4
  <2> QED
    BY <2>5 DEF q
<1>4. \A x \in TreeIds : Thinned(tree[x].queue, tree[x].queue)
  BY <1>1, ThinnedTrivially
<1> QED
  BY <1>1, <1>2, <1>3, <1>4, JobsLeave

\* Commands withdraw, and a restart forgets.
LEMMA CommandsWithdraw ==
  ASSUME TInv, Command
  PROVE  Line!Next
<1>1. \A t \in TreeIds : Sound(tree[t]) /\ tree[t].queue \in Seq(Nodes)
  BY DEF TInv, Bodies, Sound, TreeRecord
<1>2. \A t \in TreeIds : Thinned(tree[t].queue, tree[t].queue) /\ Thinned(<<>>, tree[t].queue)
  BY <1>1, ThinnedTrivially
<1>3. ASSUME NEW r \in Refs, CancelNode(r) PROVE Line!Withdraw
  <2> DEFINE t == index[r]
             N == {Owner(r)}
             u == Struck(Asked(tree[t], N), N)
  <2>1. t \in TreeIds /\ Sound(tree[t]) /\ N \in SUBSET Nodes /\ tree' = [tree EXCEPT ![t] = u]
    BY <1>1, <1>3, Located, References DEF CancelNode, CancelledNode
  <2>2. u.work = tree[t].work /\ u.queue = Without(tree[t].queue, N)
    <3> HIDE DEF N
    <3> QED BY <2>1, StruckTree
  <2> HIDE DEF u
  <2> QED
    BY <2>1, <2>2, NodesLeave
<1>4. ASSUME NEW r \in Refs, RemoveRaises(r) PROVE Line!Withdraw
  <2> DEFINE t == index[r]
             A == Affected(tree[t], r)
  <2>1. t \in TreeIds /\ Sound(tree[t]) /\ A \in SUBSET Nodes
    BY <1>1, <1>4, Located, References DEF RemoveRaises, Affected, RemovedNodes
  <2>2. PICK N \in SUBSET A : /\ tree[t].work \in N
                              /\ tree' = [tree EXCEPT ![t] = Struck(Asked(@, A), N)]
    BY <1>4 DEF RemoveRaises, PrunedUpTo
  <2> HIDE DEF t, A
  <2> DEFINE u == Struck(Asked(tree[t], A), N)
  <2>3. u.work = tree[t].work /\ u.queue = Without(tree[t].queue, N)
    BY <2>1, <2>2, StruckTree
  <2>4. tree' = [tree EXCEPT ![t] = u]
    BY <2>2
  <2> HIDE DEF u
  <2> QED
    BY <2>1, <2>3, <2>4, NodesLeave
<1>5. ASSUME NEW r \in Refs, RemoveSubtree(r) PROVE Line!Withdraw
  <2> DEFINE t == index[r]
             after == Pruned(tree[t], r)
             whole == Prompt(tree[t].root) \in ReplySubtree(tree[t], r)
             u == IF whole THEN Kept(after) ELSE after
  <2>1. t \in TreeIds /\ Sound(tree[t]) /\ r \in Live(tree[t]) /\ tree' = [tree EXCEPT ![t] = u]
    BY <1>1, <1>5, Located DEF RemoveSubtree
  <2>2. Sound(after) /\ CutOff(tree[t], after, Affected(tree[t], r))
    BY <2>1, PrunedTree
  <2> HIDE DEF t, after, whole
  <2>3. u = after \/ (u = Blank /\ after.active = NoClaim)
    BY DEF Kept
  <2> HIDE DEF u
  <2>4. Blank.work = NoNode /\ Blank.queue = <<>>
    BY DEF Blank
  <2>5. after.active = NoClaim => after.work = NoNode
    BY <2>2 DEF Sound, ClaimIsWhole
  <2>6. u.work = tree[t].work
        /\ (u.queue = Without(tree[t].queue, Affected(tree[t], r)) \/ u.queue = <<>>)
    BY <2>2, <2>3, <2>4, <2>5 DEF CutOff
  <2> QED
    BY <2>1, <2>6, NodesLeave
<1>6. CASE CancelAll \/ ClearScope
  <2>1. \A t \in TreeIds : /\ Stopped[t].work = tree[t].work /\ Sound(Stopped[t])
                           /\ Stopped[t].queue = tree[t].queue \/ Stopped[t].queue = <<>>
    BY TreesStopped
  <2>2. \A t \in TreeIds : tree'[t] \in {Stopped[t], Kept(Stopped[t]), tree[t]}
    BY <1>6 DEF CancelAll, ClearScope
  <2>3. ASSUME NEW t \in TreeIds
        PROVE  /\ tree'[t].work = tree[t].work
               /\ tree'[t].queue = tree[t].queue \/ tree'[t].queue = <<>>
    <3>1. Blank.work = NoNode /\ Blank.queue = <<>>
      BY DEF Blank
    <3>2. Stopped[t].active = NoClaim => Stopped[t].work = NoNode
      BY <2>1 DEF Sound, ClaimIsWhole
    <3> QED
      BY <2>1, <2>2, <3>1, <3>2 DEF Kept
  <2>4. \A t \in TreeIds : /\ tree'[t].work = tree[t].work /\ tree'[t].queue \in Seq(Nodes)
                           /\ Thinned(tree'[t].queue, tree[t].queue)
    <3> SUFFICES ASSUME NEW t \in TreeIds
                 PROVE  /\ tree'[t].work = tree[t].work /\ tree'[t].queue \in Seq(Nodes)
                        /\ Thinned(tree'[t].queue, tree[t].queue)
      OBVIOUS
    <3>1. CASE tree'[t].queue = tree[t].queue
      BY <1>1, <1>2, <2>3, <3>1
    <3>2. CASE tree'[t].queue = <<>>
      <4>1. Thinned(<<>>, tree[t].queue) /\ <<>> \in Seq(Nodes)
        BY <1>2
      <4> QED
        BY <2>3, <3>2, <4>1
    <3> QED
      BY <2>3, <3>1, <3>2
  <2> QED
    BY <2>4, JobsLeave DEF Line!Next
<1>7. CASE Restart
  <2>1. \A t \in TreeIds : /\ Restored(tree[t]).queue = <<>> /\ Restored(tree[t]).work = NoNode
    BY <1>1, RestoredTree
  <2>2. Blank.work = NoNode /\ Blank.queue = <<>>
    BY DEF Blank
  <2>3. \A t \in TreeIds : tree'[t].queue = <<>> /\ tree'[t].work = NoNode
    BY <1>7, <2>1, <2>2 DEF Restart
  <2>4. Line!Restart
    BY <2>3 DEF Line!Restart
  <2> QED
    BY <2>4 DEF Line!Next
<1> QED
  BY <1>3, <1>4, <1>5, <1>6, <1>7 DEF Command, Line!Next

\* Each tree runs one node at a time, first come first served: whatever a step does to
\* the aggregates, it is a step of the lines or none.
THEOREM TreesAreLines == Spec => SerialExecution
<1>1. Init => Line!Init
  <2> SUFFICES ASSUME Init PROVE Line!Init
    OBVIOUS
  <2>1. \A t \in TreeIds : tree[t].queue = <<>> /\ tree[t].work = NoNode
    BY DEF Init, Blank
  <2> QED
    BY <2>1 DEF Line!Init
<1>2. TInv /\ [Next]_vars => [Line!Next]_(Line!vars)
  <2> SUFFICES ASSUME TInv, [Next]_vars PROVE Line!Next \/ UNCHANGED Line!vars
    OBVIOUS
  <2>1. UNCHANGED tree => UNCHANGED Line!vars
    BY DEF Line!vars
  <2>2. ASSUME NEW n \in Nodes, Admit(n) PROVE Line!Next \/ UNCHANGED vars
    BY <2>2, AdmissionsSubmit
  <2>3. ASSUME NEW c \in Claims, Task(c) PROVE Line!Next \/ UNCHANGED tree
    <3>1. CASE Drop(c) \/ Enter(c) \/ Announced(c)
      BY <3>1 DEF Drop, Enter, Announced
    <3>2. CASE Runner(c)
      BY <3>2, RunnersWithdraw DEF Line!Next
    <3>3. CASE End(c)
      BY <3>3, EndsAdvance
    <3> QED
      BY <2>3, <3>1, <3>2, <3>3 DEF Task
  <2>4. CASE Command
    BY <2>4, CommandsWithdraw
  <2> QED
    BY <2>1, <2>2, <2>3, <2>4 DEF Next, vars
<1> QED
  BY <1>1, <1>2, TreesInvariant, PTL DEF Spec, SerialExecution, Line!Spec

--------------------------------------------------------------------------------
(* Snapshots *)

\* What a restoration is of a tree, spelt out.
LEMMA RestoredValue ==
  ASSUME NEW t \in TreeRecord
  PROVE  Restored(t) =
           [root |-> t.root,
            state |-> [n \in Nodes |-> IF t.state[n] \in Runnable THEN "error" ELSE t.state[n]],
            parent |-> t.parent, status |-> t.status, session |-> t.session, queue |-> <<>>,
            active |-> NoClaim, work |-> NoNode, cancelled |-> FALSE]
<1>1. \A n \in Nodes : n \in WithStates(t, Runnable) <=> t.state[n] \in Runnable
  BY DEF WithStates
<1>2. Erred(t, WithStates(t, Runnable)) =
        [t EXCEPT !.state = [n \in Nodes |-> IF t.state[n] \in Runnable THEN "error" ELSE t.state[n]]]
  BY <1>1 DEF Erred, TreeRecord
<1>3. Restored(t) =
        [t EXCEPT !.state = [n \in Nodes |-> IF t.state[n] \in Runnable THEN "error" ELSE t.state[n]],
                  !.active = NoClaim, !.work = NoNode, !.cancelled = FALSE, !.queue = <<>>]
  BY <1>2 DEF Restored, Released
<1> HIDE DEF Restored
<1> QED
  BY <1>3 DEF TreeRecord

\* Trees that differ in what runs or waits have one restoration.
LEMMA SameRestoration ==
  ASSUME NEW t \in TreeRecord, NEW u \in TreeRecord,
         u.root = t.root, u.parent = t.parent, u.status = t.status, u.session = t.session,
         \A n \in Nodes : \/ u.state[n] = t.state[n]
                          \/ u.state[n] \in Runnable \cup {"error"} /\ t.state[n] \in Runnable \cup {"error"}
  PROVE  Restored(u) = Restored(t)
<1>1. \A n \in Nodes : (IF u.state[n] \in Runnable THEN "error" ELSE u.state[n])
                       = (IF t.state[n] \in Runnable THEN "error" ELSE t.state[n])
  BY DEF Runnable
<1>2. [n \in Nodes |-> IF u.state[n] \in Runnable THEN "error" ELSE u.state[n]]
      = [n \in Nodes |-> IF t.state[n] \in Runnable THEN "error" ELSE t.state[n]]
  BY <1>1
<1> QED
  BY <1>2, RestoredValue

\* s can be stored as the snapshot of the tree of n.
Whole(s, n) == Sound(s) /\ Hangs(s) /\ s.root = n /\ Restored(s) = s

\* s has the messages of t, at the same places.
SameMessages(s, t) == Live(s) = Live(t) /\ s.parent = t.parent

\* The snapshot of a tree is restored as it is, with the messages of the tree.
LEMMA SnapshotIsWhole ==
  ASSUME NEW t, Sound(t), Hangs(t)
  PROVE  /\ Whole(Restored(t), t.root) /\ Restored(t) # Blank /\ t.root \in Nodes
         /\ SameMessages(Restored(t), t)
<1> DEFINE s == Restored(t)
<1>1. Sound(s) /\ SameTree(t, s)
  BY RestoredTree
<1>2. Hangs(s)
  BY <1>1, SameHangs
<1>3. Restored(s) = s
  <2>1. t \in TreeRecord /\ s \in TreeRecord
    BY <1>1 DEF Sound
  <2>2. /\ s.root = t.root /\ s.parent = t.parent /\ s.status = t.status /\ s.session = t.session
        /\ s.state = [n \in Nodes |-> IF t.state[n] \in Runnable THEN "error" ELSE t.state[n]]
    BY <2>1, RestoredValue
  <2> HIDE DEF s
  <2>3. \A n \in Nodes : \/ s.state[n] = t.state[n]
                         \/ s.state[n] \in Runnable \cup {"error"} /\ t.state[n] \in Runnable \cup {"error"}
    BY <2>2
  <2>4. Restored(s) = Restored(t)
    BY <2>1, <2>2, <2>3, SameRestoration
  <2> QED
    BY <2>4 DEF s
<1>4. t.root \in Nodes
  BY DEF Hangs, Members
<1>5. s # Blank
  <2>1. s.root = t.root /\ t.root # NoNode /\ Blank.root = NoNode
    BY <1>1, <1>4, TreesAssumption DEF SameTree, Blank
  <2> QED
    BY <2>1
<1>6. SameMessages(s, t)
  BY <1>1, SameReferences DEF SameTree, SameMessages
<1> QED
  BY <1>1, <1>2, <1>3, <1>4, <1>5, <1>6 DEF Whole, SameTree

\* A snapshot keeps a tree's messages and the states of what is over.
LEMMA RestoredState ==
  ASSUME NEW t \in TreeRecord
  PROVE  LET s == Restored(t) IN
         /\ s.root = t.root /\ s.parent = t.parent /\ s.status = t.status /\ s.session = t.session
         /\ \A n \in Nodes : s.state[n] = IF t.state[n] \in Runnable THEN "error" ELSE t.state[n]
         /\ Members(s) = Members(t)
<1> DEFINE s == Restored(t)
<1>1. /\ s.root = t.root /\ s.parent = t.parent /\ s.status = t.status /\ s.session = t.session
      /\ s.state = [n \in Nodes |-> IF t.state[n] \in Runnable THEN "error" ELSE t.state[n]]
  BY RestoredValue
<1> HIDE DEF s
<1>2. \A n \in Nodes : s.state[n] = IF t.state[n] \in Runnable THEN "error" ELSE t.state[n]
  BY <1>1
<1>3. Members(s) = Members(t)
  BY <1>2 DEF Members, Runnable
<1> QED
  BY <1>1, <1>2, <1>3 DEF s

\* What is stored is the tree but for some reports: of none.
LEMMA ButForNone ==
  ASSUME NEW s, NEW N
  PROVE  IsButFor(s, s, N)
BY DEF IsButFor

\* Reports add up.
LEMMA ButForTrans ==
  ASSUME NEW a, NEW b, NEW c, NEW N, IsButFor(a, b, N), IsButFor(b, c, N)
  PROVE  IsButFor(a, c, N)
BY DEF IsButFor

\* Only reports of the tree's own nodes count.
LEMMA ButForWidens ==
  ASSUME NEW s, NEW t \in TreeRecord, NEW M, NEW N,
         IsButFor(s, Restored(t), N), N \cap Members(t) \subseteq M
  PROVE  IsButFor(s, Restored(t), M)
<1> DEFINE u == Restored(t)
<1>1. Members(u) = Members(t)
  BY RestoredState
<1> HIDE DEF u
<1>2. IsButFor(s, u, N)
  BY DEF u
<1>3. IsButFor(s, u, M)
  BY <1>1, <1>2 DEF IsButFor
<1> QED
  BY <1>3 DEF u

\* Whatever has been reported, the messages are the same.
LEMMA ButForMessages ==
  ASSUME NEW s, NEW t \in TreeRecord, NEW N, IsButFor(s, Restored(t), N)
  PROVE  Live(s) = Live(t)
<1> DEFINE u == Restored(t)
<1>1. Members(u) = Members(t) /\ u.status = t.status
  BY RestoredState
<1> HIDE DEF u
<1>2. IsButFor(s, u, N)
  BY DEF u
<1>3. Members(s) = Members(t) /\ s.status = t.status
  BY <1>1, <1>2 DEF IsButFor
<1> QED
  BY <1>3 DEF Live

\* A report is one of the claim's node, whichever it is.
LEMMA ReportedRestores ==
  ASSUME NEW t, Sound(t), NEW c \in Claims, NEW captured \in BOOLEAN, NEW propagate \in BOOLEAN
  PROVE  /\ IsButFor(Restored(t), Restored(Recorded(t, c)), {t.work})
         /\ IsButFor(Restored(t), Restored(Completed(t, c, captured)), {t.work})
         /\ IsButFor(Restored(t), Restored(Failed(t, c, propagate)), {t.work})
<1>1. t \in TreeRecord /\ (Owns(t, c) => t.work \in Nodes)
  BY TreesAssumption DEF Sound, ClaimIsWhole, Owns
<1>2. ASSUME NEW u, u \in TreeRecord, SameTree(t, u), t.session \subseteq u.session,
             u.session \subseteq t.session \cup {t.work},
             \A n \in Nodes : \/ u.state[n] = t.state[n]
                              \/ (u.state[n] \in Runnable \cup {"error"} /\ t.state[n] \in Runnable \cup {"error"})
                              \/ (n = t.work /\ u.state[n] = "completed" /\ t.state[n] \in {"progress", "error"})
      PROVE  IsButFor(Restored(t), Restored(u), {t.work})
  <2> DEFINE s == Restored(t)
             v == Restored(u)
  <2>1. /\ s.root = t.root /\ s.parent = t.parent /\ s.status = t.status /\ s.session = t.session
        /\ \A n \in Nodes : s.state[n] = IF t.state[n] \in Runnable THEN "error" ELSE t.state[n]
        /\ Members(s) = Members(t)
    BY <1>1, RestoredState
  <2>2. /\ v.root = u.root /\ v.parent = u.parent /\ v.status = u.status /\ v.session = u.session
        /\ \A n \in Nodes : v.state[n] = IF u.state[n] \in Runnable THEN "error" ELSE u.state[n]
        /\ Members(v) = Members(u)
    BY <1>2, RestoredState
  <2> HIDE DEF s, v
  <2>3. \A n \in Members(v) : n \in Nodes
    BY DEF Members
  <2>4. \A n \in Nodes : \/ s.state[n] = v.state[n]
                         \/ (n = t.work /\ s.state[n] = "error" /\ v.state[n] = "completed")
    BY <1>2, <2>1, <2>2 DEF Runnable
  <2>5. IsButFor(s, v, {t.work})
    BY <1>2, <2>1, <2>2, <2>3, <2>4 DEF IsButFor, SameTree
  <2> QED
    BY <2>5 DEF s, v
<1>3. IsButFor(Restored(t), Restored(Recorded(t, c)), {t.work})
  <2> DEFINE u == Recorded(t, c)
  <2>1. Sound(u) /\ SameTree(t, u) /\ u.state = t.state
    BY RecordedTree
  <2>2. u.session = t.session \/ u.session = t.session \cup {t.work}
    BY <1>1 DEF Recorded, TreeRecord
  <2> HIDE DEF u
  <2>3. IsButFor(Restored(t), Restored(u), {t.work})
    BY <1>2, <2>1, <2>2 DEF Sound
  <2> QED
    BY <2>3 DEF u
<1>4. IsButFor(Restored(t), Restored(Completed(t, c, captured)), {t.work})
  <2> DEFINE u == Completed(t, c, captured)
  <2>1. Sound(u) /\ SameTree(t, u)
    BY CompletedTree
  <2>2. \/ u = t
        \/ /\ t.state[t.work] \in {"progress", "error"} /\ t.work \in Nodes
           /\ u.state = [t.state EXCEPT ![t.work] = "completed"]
           /\ u.session = t.session \/ u.session = t.session \cup {t.work}
    BY <1>1 DEF Completed, TreeRecord
  <2> HIDE DEF u
  <2>3. \A n \in Nodes : \/ u.state[n] = t.state[n]
                         \/ (n = t.work /\ u.state[n] = "completed" /\ t.state[n] \in {"progress", "error"})
    BY <1>1, <2>2 DEF TreeRecord
  <2>4. IsButFor(Restored(t), Restored(u), {t.work})
    BY <1>2, <2>1, <2>2, <2>3 DEF Sound
  <2> QED
    BY <2>4 DEF u
<1>5. IsButFor(Restored(t), Restored(Failed(t, c, propagate)), {t.work})
  <2> DEFINE u == Failed(t, c, propagate)
             heirs == IF propagate THEN Heirs(t, t.work) \cap WithStates(t, {"pending"}) ELSE {}
  <2>1. Sound(u) /\ SameTree(t, u)
    BY FailedTree
  <2>2. \A n \in heirs : t.state[n] = "pending"
    BY DEF WithStates
  <2>3. \/ u = t
        \/ /\ t.state[t.work] \in States \ {"none", "completed"}
           /\ u.state = [n \in Nodes |-> IF n \in {t.work} \cup heirs THEN "error" ELSE t.state[n]]
           /\ u.session = t.session
    <3> HIDE DEF heirs
    <3>1. Failed(t, c, propagate) =
            IF Owns(t, c) /\ t.state[t.work] \notin {"none", "completed"}
              THEN [Erred(t, {t.work} \cup heirs) EXCEPT !.queue = Without(@, heirs)]
              ELSE t
      BY DEF Failed, heirs
    <3> QED
      BY <1>1, <3>1 DEF TreeRecord, Erred
  <2> HIDE DEF u, heirs
  <2>4. \A n \in Nodes : \/ u.state[n] = t.state[n]
                         \/ (u.state[n] \in Runnable \cup {"error"} /\ t.state[n] \in Runnable \cup {"error"})
    BY <2>2, <2>3 DEF Runnable, States
  <2>5. IsButFor(Restored(t), Restored(u), {t.work})
    BY <1>2, <2>1, <2>3, <2>4 DEF Sound
  <2> QED
    BY <2>5 DEF u
<1> QED
  BY <1>3, <1>4, <1>5

\* Who waits or runs is restored as one whose turn was interrupted, whoever stopped it.
LEMMA StoppedRestores ==
  ASSUME NEW t, Sound(t)
  PROVE  /\ Restored(CancelledAll(t)) = Restored(t)
         /\ \A A \in SUBSET Nodes : \A N \in SUBSET A :
              (t.active # NoClaim /\ t.work \in A => t.work \in N)
              => Restored(Struck(Asked(t, A), N)) = Restored(t)
<1>1. ASSUME NEW u, Sound(u), SameTree(t, u), u.session = t.session,
             \A n \in Nodes : u.state[n] = t.state[n] \/ (u.state[n] = "error" /\ t.state[n] \in Runnable)
      PROVE  Restored(u) = Restored(t)
  BY <1>1, SameRestoration DEF Sound, SameTree
<1>2. Restored(CancelledAll(t)) = Restored(t)
  BY <1>1, CancelledTree
<1>3. ASSUME NEW A \in SUBSET Nodes, NEW N \in SUBSET A,
             t.active # NoClaim /\ t.work \in A => t.work \in N
      PROVE  Restored(Struck(Asked(t, A), N)) = Restored(t)
  BY <1>1, <1>3, StruckTree
<1> QED
  BY <1>2, <1>3

--------------------------------------------------------------------------------
(* The invariant of the snapshots *)

\* the roots that have a snapshot
StoredRoots == {n \in Nodes : stored[n] # Blank}

\* What is stored are trees, and no message is in two of them.
Store ==
  /\ stored \in [Nodes -> TreeRecord] /\ IsFiniteSet(StoredRoots)
  /\ \A n \in StoredRoots : Whole(stored[n], n)
  /\ \A m, n \in Nodes : m # n => Live(stored[m]) \cap Live(stored[n]) = {}

\* No message of a tree is in the snapshot of another one.
Foreign ==
  \A t \in Published : \A n \in Nodes :
    tree[t].root # n => Live(tree[t]) \cap Live(stored[n]) = {}

\* A command is under way.
Busy == command.kind # "none"

\* the roots whose snapshots a command will save, and will remove
Due ==
  {n \in Nodes : Busy /\ (command.read[n] # Blank \/ \E t \in command.unread : tree[t].root = n)}
Removing == {n \in Nodes : Busy /\ n \in command.gone}

\* A tree that a raising clear has not wiped has its snapshot, which has at least its
\* messages. Unless a command will save it, it is the last one but for overtaken reports.
Covered ==
  /\ \A n \in wiped : n \in Nodes /\ stored[n] = Blank
  /\ \A t \in Published : tree[t].root \notin wiped =>
       /\ stored[tree[t].root] # Blank
       /\ Live(tree[t]) \subseteq Live(stored[tree[t].root])
       /\ tree[t].root \notin Due =>
            IsButFor(stored[tree[t].root], Restored(tree[t]), overtaken)

\* Each snapshot has its tree, unless a command will remove it.
Accounted ==
  \A n \in StoredRoots : n \in Removing \/ \E t \in Published : tree[t].root = n

\* Nothing waits in t or is reported to it.
Halted(t) ==
  /\ WithStates(t, Runnable) = {} /\ t.queue = <<>>
  /\ t.active # NoClaim => t.cancelled

\* What a command has read of a tree is the tree but for the reports that its save will
\* overtake. After a command that stops everything there are none, and one that clears
\* the chat reads nothing.
Reading ==
  Busy =>
    /\ command.kind \in {"reply", "all", "clear"} /\ command.unread \subseteq Published
    /\ command.read \in [Nodes -> TreeRecord]
    /\ \A n \in Nodes : command.read[n] # Blank =>
         /\ Whole(command.read[n], n) /\ n \notin command.gone
         /\ \E t \in Published :
              tree[t].root = n /\ IsButFor(command.read[n], Restored(tree[t]), overtaken)
    /\ \A t \in command.unread : tree[t].root \notin command.gone
    /\ command.kind = "all" => \A t \in Published : Halted(tree[t])
    /\ command.kind = "clear" => command.unread = {} /\ \A n \in Nodes : command.read[n] = Blank
    /\ DOMAIN command = {"kind", "unread", "read", "gone"}

\* The invariant of the trees with their snapshots.
SInv ==
  /\ TInv /\ Store /\ Foreign /\ Covered /\ Accounted /\ Reading
  /\ ~Busy => command = NoCommand

\* A published tree is the only one with its root.
Apart ==
  /\ \A t \in Published : /\ t \in TreeIds /\ Sound(tree[t]) /\ Hangs(tree[t])
                         /\ tree[t].root \in Nodes
  /\ \A t, u \in Published : tree[t].root = tree[u].root => t = u
  /\ \A t, u \in Published : t # u => Live(tree[t]) \cap Live(tree[u]) = {}
  /\ \A t, u \in Published : t # u => Members(tree[t]) \cap Members(tree[u]) = {}

\* The index keeps the trees apart.
LEMMA RootsApart == TInv => Apart
<1> SUFFICES ASSUME TInv PROVE Apart
  OBVIOUS
<1>1. \A t \in Published : t \in TreeIds /\ Sound(tree[t]) /\ Hangs(tree[t])
  BY PublishedTrees DEF TInv, Bodies, Places
<1>2. \A t \in Published : tree[t].root \in Nodes /\ Prompt(tree[t].root) \in Live(tree[t])
  BY <1>1, LiveReferences DEF Hangs, Members
<1>3. \A t \in Published : index[Prompt(tree[t].root)] = t
  BY <1>1, <1>2, References DEF TInv, Places, IndexMatches
<1>4. ASSUME NEW t \in Published, NEW u \in Published, t # u
      PROVE  /\ Live(tree[t]) \cap Live(tree[u]) = {}
             /\ Members(tree[t]) \cap Members(tree[u]) = {}
  <2>1. \A r \in Live(tree[t]) : r \in Refs /\ index[r] = t
    BY <1>1, LiveReferences DEF TInv, Places, IndexMatches
  <2>2. \A r \in Live(tree[u]) : r \in Refs /\ index[r] = u
    BY <1>1, LiveReferences DEF TInv, Places, IndexMatches
  <2>3. \A n \in Members(tree[t]) \cap Members(tree[u]) :
          Prompt(n) \in Live(tree[t]) \cap Live(tree[u])
    BY LiveReferences DEF Members
  <2> QED
    BY <1>4, <2>1, <2>2, <2>3
<1> QED
  BY <1>1, <1>2, <1>3, <1>4 DEF Apart

\* There are as many trees as their line is long.
LEMMA FewTrees ==
  ASSUME TInv
  PROVE  IsFiniteSet({tree[t].root : t \in Published})
<1> DEFINE k == Len(trees)
           roots == {tree[t].root : t \in Published}
           f == [i \in 1 .. k |-> tree[trees[i]].root]
<1>1. k \in Nat /\ DOMAIN trees = 1 .. k
  BY DEF TInv, Places
<1>2. IsFiniteSet(1 .. k)
  BY <1>1, FS_Interval
<1>3. f \in Surjection(1 .. k, roots)
  <2>1. \A i \in 1 .. k : trees[i] \in Published
    BY <1>1, PublishedTrees
  <2>2. \A n \in roots : \E i \in 1 .. k : f[i] = n
    BY <1>1 DEF Published, ToSet
  <2> QED
    BY <2>1, <2>2 DEF Surjection
<1> HIDE DEF f, k, roots
<1>4. IsFiniteSet(roots)
  BY <1>2, <1>3, FS_Surjection
<1> QED
  BY <1>4 DEF roots

\* The tree of a root is the one that is published with it.
LEMMA TreeOfRoot ==
  ASSUME TInv
  PROVE  \A n : \A t \in Published : tree[t].root = n => TreeOf(n) = tree[t]
<1>1. \A t, u \in Published : tree[t].root = tree[u].root => t = u
  BY RootsApart DEF Apart
<1> QED
  BY <1>1 DEF TreeOf

\* What a save makes of the store.
LEMMA SavedValue ==
  ASSUME TInv', NEW S, Saves(S), stored \in [Nodes -> TreeRecord],
         \A n \in S : \E t \in Published' : tree'[t].root = n
  PROVE  /\ stored' \in [Nodes -> TreeRecord]
         /\ \A n \in Nodes \ S : stored'[n] = stored[n]
         /\ \A t \in Published' : tree'[t].root \in S =>
              stored'[tree'[t].root] = Restored(tree'[t])
         /\ wiped' = wiped \ S
<1>1. Apart'
  BY RootsApart, PTL
<1>2. (\A n : \A t \in Published : tree[t].root = n => TreeOf(n) = tree[t])'
  BY TreeOfRoot, PTL
<1>3. \A t \in Published' : tree'[t].root \in Nodes /\ Restored(tree'[t]) \in TreeRecord
  BY <1>1, RestoredTree DEF Apart, Sound
<1>4. \A n \in S : Restored(TreeOf(n)') \in TreeRecord
  BY <1>2, <1>3
<1>5. /\ stored' = [n \in Nodes |-> IF n \in S THEN Restored(TreeOf(n)') ELSE stored[n]]
      /\ wiped' = wiped \ S
  BY DEF Saves
<1>6. stored' \in [Nodes -> TreeRecord]
  BY <1>4, <1>5
<1>7. \A n \in Nodes \ S : stored'[n] = stored[n]
  BY <1>5
<1>8. ASSUME NEW t \in Published', tree'[t].root \in S
      PROVE  stored'[tree'[t].root] = Restored(tree'[t])
  BY <1>2, <1>3, <1>5, <1>8
<1> QED
  BY <1>5, <1>6, <1>7, <1>8

\* What a save leaves of the reports that were lost.
LEMMA HealedValue ==
  ASSUME TInv', NEW S, Heals(S), \A n \in S : \E t \in Published' : tree'[t].root = n
  PROVE  /\ overtaken' \subseteq overtaken
         /\ \A t \in Published' : tree'[t].root \notin S =>
              overtaken \cap Members(tree'[t]) \subseteq overtaken'
<1>1. overtaken' = overtaken \ UNION {Members(TreeOf(n)') : n \in S}
  BY DEF Heals
<1>2. Apart'
  BY RootsApart, PTL
<1>3. (\A n : \A t \in Published : tree[t].root = n => TreeOf(n) = tree[t])'
  BY TreeOfRoot, PTL
<1>4. \A n \in S : \E t \in Published' : tree'[t].root = n /\ TreeOf(n)' = tree'[t]
  BY <1>3
<1>5. ASSUME NEW t \in Published', tree'[t].root \notin S, NEW n \in S
      PROVE  Members(tree'[t]) \cap Members(TreeOf(n)') = {}
  <2>1. PICK u \in Published' : tree'[u].root = n /\ TreeOf(n)' = tree'[u]
    BY <1>4
  <2>2. u # t
    BY <1>5, <2>1
  <2> QED
    BY <1>2, <2>1, <2>2 DEF Apart
<1> QED
  BY <1>1, <1>5

\* Snapshots that are removed, or become trees that are published, are still apart.
LEMMA StoreFollows ==
  ASSUME Store, Foreign, TInv, stored' \in [Nodes -> TreeRecord],
         \A n \in Nodes : \/ stored'[n] = stored[n] \/ stored'[n] = Blank
                         \/ /\ Whole(stored'[n], n)
                            /\ \E t \in Published : tree[t].root = n /\ Live(stored'[n]) = Live(tree[t])
  PROVE  Store' /\ \A t \in Published, n \in Nodes :
                      tree[t].root # n => Live(tree[t]) \cap Live(stored'[n]) = {}
<1>1. Apart
  BY RootsApart
<1>2. IsFiniteSet(StoredRoots')
  <2>1. StoredRoots' \subseteq StoredRoots \cup {tree[t].root : t \in Published}
    BY DEF StoredRoots
  <2>2. IsFiniteSet(StoredRoots \cup {tree[t].root : t \in Published})
    BY FewTrees, FS_Union DEF Store
  <2> QED
    BY <2>1, <2>2, FS_Subset
<1>3. \A n \in StoredRoots' : Whole(stored'[n], n)
  BY DEF Store, StoredRoots
<1>4. ASSUME NEW t \in Published, NEW n \in Nodes, tree[t].root # n
      PROVE  Live(tree[t]) \cap Live(stored'[n]) = {}
  <2>1. CASE stored'[n] = stored[n]
    BY <1>4, <2>1 DEF Foreign
  <2>2. CASE stored'[n] = Blank
    BY <2>2, BlankIsSound
  <2>3. CASE \E u \in Published : tree[u].root = n /\ Live(stored'[n]) = Live(tree[u])
    BY <1>1, <1>4, <2>3 DEF Apart
  <2> QED
    BY <2>1, <2>2, <2>3
<1>5. ASSUME NEW m \in Nodes, NEW n \in Nodes, m # n
      PROVE  Live(stored'[m]) \cap Live(stored'[n]) = {}
  <2>1. ASSUME NEW k \in Nodes
        PROVE  \/ stored'[k] = stored[k] \/ Live(stored'[k]) = {}
               \/ \E t \in Published : tree[t].root = k /\ Live(stored'[k]) = Live(tree[t])
    BY BlankIsSound
  <2>2. CASE \E t \in Published : tree[t].root = m /\ Live(stored'[m]) = Live(tree[t])
    BY <1>4, <1>5, <2>2
  <2>3. CASE \E t \in Published : tree[t].root = n /\ Live(stored'[n]) = Live(tree[t])
    BY <1>4, <1>5, <2>3
  <2>4. CASE stored'[m] = stored[m] /\ stored'[n] = stored[n]
    BY <1>5, <2>4 DEF Store
  <2> QED
    BY <2>1, <2>2, <2>3, <2>4
<1>6. Store'
  BY <1>2, <1>3, <1>5 DEF Store
<1> QED
  BY <1>4, <1>6

\* A snapshot may grow into what no other holds.
LEMMA StoreGrows ==
  ASSUME Store, stored' \in [Nodes -> TreeRecord], NEW m \in Nodes,
         \A n \in Nodes \ {m} : stored'[n] = stored[n],
         Whole(stored'[m], m),
         \A n \in Nodes \ {m} : Live(stored'[m]) \cap Live(stored[n]) = {}
  PROVE  Store'
<1>1. StoredRoots' \subseteq StoredRoots \cup {m}
  BY DEF StoredRoots
<1>2. IsFiniteSet(StoredRoots \cup {m})
  BY FS_AddElement DEF Store
<1>3. IsFiniteSet(StoredRoots')
  BY <1>1, <1>2, FS_Subset
<1>4. \A n \in StoredRoots' : Whole(stored'[n], n)
  BY DEF Store, StoredRoots
<1>5. ASSUME NEW k \in Nodes, NEW n \in Nodes, k # n
      PROVE  Live(stored'[k]) \cap Live(stored'[n]) = {}
  <2>1. CASE k # m /\ n # m
    BY <1>5, <2>1 DEF Store
  <2>2. CASE k = m
    BY <1>5, <2>2
  <2>3. CASE n = m
    BY <1>5, <2>3
  <2> QED
    BY <2>1, <2>2, <2>3
<1> QED
  BY <1>3, <1>4, <1>5 DEF Store

\* Steps that leave the messages of the trees at their places, and save what they
\* change: reports, what processors do, and commands that raise. What a command has read
\* may be overtaken.
LEMMA SavedInPlace ==
  ASSUME SInv, TInv', UNCHANGED <<trees, command>>, NEW S, Saves(S),
         S \subseteq {tree[t].root : t \in Published},
         \A t \in Published : SameTree(tree[t], tree'[t]),
         \A t \in Published : tree[t].root \notin S =>
           /\ Restored(tree'[t]) = Restored(tree[t])
           /\ overtaken \cap Members(tree[t]) \subseteq overtaken',
         \A t \in Published : Busy /\ command.read[tree[t].root] # Blank =>
           /\ overtaken \cap Members(tree[t]) \subseteq overtaken'
           /\ IsButFor(Restored(tree[t]), Restored(tree'[t]), overtaken'),
         Busy => \A t \in Published : Halted(tree[t]) => Halted(tree'[t])
  PROVE  SInv'
<1>0. Busy => command.unread \subseteq Published
  BY DEF SInv, Reading
<1>1. Apart /\ Apart'
  BY RootsApart, PTL DEF SInv
<1>2. Published' = Published /\ \A t \in Published : tree'[t].root = tree[t].root
  BY DEF Published, SameTree
<1>3. /\ stored' \in [Nodes -> TreeRecord]
      /\ \A n \in Nodes \ S : stored'[n] = stored[n]
      /\ \A t \in Published : tree[t].root \in S => stored'[tree[t].root] = Restored(tree'[t])
      /\ wiped' = wiped \ S
  <2>1. \A n \in S : \E t \in Published' : tree'[t].root = n
    BY <1>2
  <2>2. stored \in [Nodes -> TreeRecord]
    BY DEF SInv, Store
  <2> QED
    BY <1>2, <2>1, <2>2, SavedValue
<1>4. \A t \in Published : /\ Live(tree'[t]) = Live(tree[t]) /\ Members(tree'[t]) = Members(tree[t])
                           /\ tree[t] \in TreeRecord /\ tree'[t] \in TreeRecord
                           /\ Whole(Restored(tree'[t]), tree[t].root) /\ Restored(tree'[t]) # Blank
                           /\ Live(Restored(tree'[t])) = Live(tree[t])
  <2>1. \A t \in Published : Sound(tree[t]) /\ Sound(tree'[t]) /\ Hangs(tree'[t])
    BY <1>1, <1>2 DEF Apart
  <2>2. \A t \in Published : Live(tree'[t]) = Live(tree[t]) /\ Members(tree'[t]) = Members(tree[t])
    BY SameReferences DEF SameTree
  <2>3. \A t \in Published : /\ Whole(Restored(tree'[t]), tree[t].root) /\ Restored(tree'[t]) # Blank
                             /\ Live(Restored(tree'[t])) = Live(tree'[t])
    BY <1>2, <2>1, SnapshotIsWhole DEF SameMessages
  <2> QED
    BY <2>1, <2>2, <2>3 DEF Sound
<1>5. Store' /\ Foreign'
  <2>1. ASSUME NEW n \in S
        PROVE  /\ Whole(stored'[n], n)
               /\ \E t \in Published : tree[t].root = n /\ Live(stored'[n]) = Live(tree[t])
    <3>1. PICK t \in Published : tree[t].root = n
      OBVIOUS
    <3> QED
      BY <1>3, <1>4, <3>1
  <2>2. Store' /\ \A t \in Published, n \in Nodes :
                    tree[t].root # n => Live(tree[t]) \cap Live(stored'[n]) = {}
    BY <1>3, <2>1, StoreFollows DEF SInv
  <2>3. Foreign'
    BY <1>2, <1>4, <2>2 DEF Foreign
  <2> QED
    BY <2>2, <2>3
<1>6. Busy' = Busy /\ Removing' = Removing /\ Due' = Due
  <2>1. Busy' = Busy
    BY DEF Busy
  <2> QED
    BY <1>0, <1>2, <2>1 DEF Removing, Due
<1>7. Covered'
  <2>1. \A n \in wiped' : n \in Nodes /\ stored'[n] = Blank
    BY <1>3 DEF SInv, Covered
  <2>2. ASSUME NEW t \in Published, tree[t].root \notin wiped'
        PROVE  /\ stored'[tree[t].root] # Blank
               /\ Live(tree'[t]) \subseteq Live(stored'[tree[t].root])
               /\ tree[t].root \notin Due =>
                    IsButFor(stored'[tree[t].root], Restored(tree'[t]), overtaken')
    <3>1. CASE tree[t].root \in S
      BY <1>3, <1>4, <3>1, ButForNone
    <3>2. CASE tree[t].root \notin S
      <4>1. /\ stored'[tree[t].root] = stored[tree[t].root] /\ Restored(tree'[t]) = Restored(tree[t])
            /\ overtaken \cap Members(tree[t]) \subseteq overtaken' /\ tree[t].root \notin wiped
        BY <1>1, <1>3, <2>2, <3>2 DEF Apart
      <4>2. /\ stored[tree[t].root] # Blank
            /\ Live(tree[t]) \subseteq Live(stored[tree[t].root])
            /\ tree[t].root \notin Due =>
                 IsButFor(stored[tree[t].root], Restored(tree[t]), overtaken)
        BY <4>1 DEF SInv, Covered
      <4>3. tree[t].root \notin Due =>
              IsButFor(stored[tree[t].root], Restored(tree[t]), overtaken')
        BY <1>4, <4>1, <4>2, ButForWidens
      <4> QED
        BY <1>4, <4>1, <4>2, <4>3
    <3> QED
      BY <3>1, <3>2
  <2> QED
    BY <1>2, <1>6, <2>1, <2>2 DEF Covered
<1>8. Accounted'
  <2> SUFFICES ASSUME NEW n \in Nodes, stored'[n] # Blank
               PROVE  n \in Removing \/ \E t \in Published : tree[t].root = n
    BY <1>2, <1>6 DEF Accounted, StoredRoots
  <2>1. CASE n \in S
    BY <2>1
  <2>2. CASE n \notin S
    BY <1>3, <2>2 DEF SInv, Accounted, StoredRoots
  <2> QED
    BY <2>1, <2>2
<1>9. Reading'
  <2> SUFFICES ASSUME Busy
               PROVE  /\ \A n \in Nodes : command.read[n] # Blank =>
                           \E t \in Published :
                             /\ tree'[t].root = n
                             /\ IsButFor(command.read[n], Restored(tree'[t]), overtaken')
                      /\ command.kind = "all" => \A t \in Published : Halted(tree'[t])
    <3>1. Busy => \A t \in command.unread : tree'[t].root = tree[t].root
      BY <1>0, <1>2
    <3> QED
      BY <1>2, <1>6, <3>1 DEF SInv, Reading
  <2>1. command.kind = "all" => \A t \in Published : Halted(tree'[t])
    BY DEF SInv, Reading
  <2>2. ASSUME NEW n \in Nodes, command.read[n] # Blank
        PROVE  \E t \in Published :
                 tree'[t].root = n /\ IsButFor(command.read[n], Restored(tree'[t]), overtaken')
    <3>1. PICK t \in Published :
            tree[t].root = n /\ IsButFor(command.read[n], Restored(tree[t]), overtaken)
      BY <2>2 DEF SInv, Reading
    <3>2. /\ overtaken \cap Members(tree[t]) \subseteq overtaken'
          /\ IsButFor(Restored(tree[t]), Restored(tree'[t]), overtaken')
      BY <2>2, <3>1
    <3>3. IsButFor(command.read[n], Restored(tree[t]), overtaken')
      BY <1>4, <3>1, <3>2, ButForWidens
    <3>4. IsButFor(command.read[n], Restored(tree'[t]), overtaken')
      BY <3>2, <3>3, ButForTrans
    <3> QED
      BY <1>2, <3>1, <3>4
  <2> QED
    BY <2>1, <2>2
<1> QED
  BY <1>5, <1>6, <1>7, <1>8, <1>9 DEF SInv

\* Steps that save nothing, and leave every snapshot as good as it was.
LEMMA NothingSaved ==
  ASSUME SInv, TInv', UNCHANGED <<trees, stored, command, histories>>,
         \A t \in Published : SameTree(tree[t], tree'[t]) /\ Restored(tree'[t]) = Restored(tree[t]),
         Busy => \A t \in Published : Halted(tree[t]) => Halted(tree'[t])
  PROVE  SInv'
<1>1. UNCHANGED <<stored, overtaken, wiped>>
  BY DEF histories
<1>2. Saves({})
  <2>1. stored = [n \in Nodes |-> stored[n]] /\ wiped \ {} = wiped
    BY DEF SInv, Store
  <2> QED
    BY <1>1, <2>1 DEF Saves
<1>3. \A t \in Published : IsButFor(Restored(tree[t]), Restored(tree'[t]), overtaken')
  BY ButForNone
<1> QED
  BY <1>1, <1>2, <1>3, SavedInPlace

--------------------------------------------------------------------------------
(* Reports and processors *)

\* A tree where nothing waits and the claim is cancelled takes no report.
LEMMA HaltedIsDeaf ==
  ASSUME NEW t, Halted(t), NEW c \in Claims
  PROVE  ~Owns(t, c)
BY TreesAssumption DEF Halted, Owns

\* A report changes the trees it is saved of, and no others.
LEMMA ReportInPlace ==
  ASSUME SInv, TInv', NEW c \in Claims, UNCHANGED <<trees, command>>, NEW F,
         tree' = [t \in TreeIds |-> IF t \in Addressed(c) THEN F[t] ELSE tree[t]],
         NEW states, Reports(Told(c, states)),
         \A t \in TreeIds : SameTree(tree[t], F[t]),
         \A t \in TreeIds : IsButFor(Restored(tree[t]), Restored(F[t]), {tree[t].work}),
         \A t \in TreeIds : ~(Owns(tree[t], c) /\ tree[t].state[tree[t].work] \in states)
                            => F[t] = tree[t]
  PROVE  SInv'
<1> DEFINE S == Told(c, states)
<1>1. Apart /\ Apart'
  BY RootsApart, PTL DEF SInv
<1>2. S \subseteq {tree[t].root : t \in Published}
  BY DEF Told, Addressed
<1>3. \A t \in Published : SameTree(tree[t], tree'[t])
  BY <1>1 DEF Apart, SameTree
<1>4. ASSUME NEW t \in Published, tree[t].root \notin S \/ Halted(tree[t])
      PROVE  tree'[t] = tree[t] /\ tree[t].root \notin S
  <2>1. t \in TreeIds /\ tree'[t] = IF t \in Addressed(c) THEN F[t] ELSE tree[t]
    BY <1>1 DEF Apart
  <2>2. CASE tree[t].root \notin S
    BY <2>1, <2>2 DEF Told
  <2>3. CASE Halted(tree[t])
    <3>1. ~Owns(tree[t], c)
      BY <2>3, HaltedIsDeaf
    <3>2. \A u \in Published : tree[u].root = tree[t].root => u = t
      BY <1>1 DEF Apart
    <3>3. tree[t].root \notin S
      BY <3>1, <3>2 DEF Told, Addressed
    <3> QED
      BY <2>1, <3>1, <3>3
  <2> QED
    BY <1>4, <2>2, <2>3
<1>5. Saves(S) /\ (IF \E n \in S : Overwrites(n) THEN overtaken' = overtaken \cup {TreeOf(n).work : n \in S}
                  ELSE Heals(S))
  BY DEF Reports
<1>6. /\ Published' = Published /\ \A t \in Published : tree'[t].root = tree[t].root
      /\ \A t \in Published : Members(tree'[t]) = Members(tree[t])
  BY <1>3 DEF Published, SameTree
<1>7. \A t \in Published : IsButFor(Restored(tree[t]), Restored(tree'[t]), {tree[t].work})
  BY <1>1, ButForNone DEF Apart
<1>8. \A t \in Published : tree[t] \in TreeRecord /\ tree'[t] \in TreeRecord
  BY <1>1, <1>6 DEF Apart, Sound
<1>9. \A t \in Published : TreeOf(tree[t].root) = tree[t]
  BY TreeOfRoot DEF SInv
<1>10. \A t \in Published : tree[t].root \notin S =>
         overtaken \cap Members(tree[t]) \subseteq overtaken'
  <2>1. CASE \E n \in S : Overwrites(n)
    BY <1>5, <2>1
  <2>2. CASE ~\E n \in S : Overwrites(n)
    <3>1. Heals(S) /\ \A n \in S : \E t \in Published' : tree'[t].root = n
      BY <1>2, <1>5, <1>6, <2>2
    <3> HIDE DEF S
    <3> QED
      BY <1>6, <3>1, HealedValue
  <2> QED
    BY <2>1, <2>2
<1>11. ASSUME NEW t \in Published, Busy, command.read[tree[t].root] # Blank
       PROVE  /\ overtaken \cap Members(tree[t]) \subseteq overtaken'
              /\ IsButFor(Restored(tree[t]), Restored(tree'[t]), overtaken')
  <2>1. CASE tree[t].root \notin S
    BY <1>4, <1>10, <2>1, ButForNone
  <2>2. CASE tree[t].root \in S
    <3>1. command.kind = "reply" /\ command # NoCommand
      <4>1. tree[t].root \in Nodes
        BY <1>1 DEF Apart
      <4>2. command.kind # "clear"
        BY <1>11, <4>1 DEF SInv, Reading
      <4>3. command.kind # "all"
        BY <1>4, <1>11, <2>2 DEF SInv, Reading
      <4> QED
        BY <1>11, <4>2, <4>3 DEF SInv, Reading, Busy, NoCommand
    <3>2. Overwrites(tree[t].root)
      BY <1>11, <3>1 DEF Overwrites
    <3> HIDE DEF S
    <3>3. overtaken' = overtaken \cup {TreeOf(n).work : n \in S}
      BY <1>5, <2>2, <3>2
    <3>4. overtaken \subseteq overtaken' /\ tree[t].work \in overtaken'
      BY <1>9, <2>2, <3>3
    <3>5. IsButFor(Restored(tree[t]), Restored(tree'[t]), overtaken')
      <4>1. tree'[t] \in TreeRecord /\ {tree[t].work} \cap Members(tree'[t]) \subseteq overtaken'
        BY <1>8, <3>4
      <4> QED
        BY <1>7, <4>1, ButForWidens
    <3> QED
      BY <3>4, <3>5
  <2> QED
    BY <2>1, <2>2
<1>12. \A t \in Published : tree[t].root \notin S => Restored(tree'[t]) = Restored(tree[t])
  BY <1>4
<1>13. \A t \in Published : Halted(tree[t]) => Halted(tree'[t])
  BY <1>4
<1> HIDE DEF S
<1> QED
  BY <1>2, <1>3, <1>5, <1>10, <1>11, <1>12, <1>13, SavedInPlace

\* What a runner reports is saved as it is told.
LEMMA ReportsSaved ==
  ASSUME SInv, NEW c \in Claims, ReportSaved(c)
  PROVE  SInv'
<1>1. Runner(c) /\ UNCHANGED <<trees, command>>
  BY DEF ReportSaved, Runner, RecordSession, CompleteClaim, FailClaim, RunnerRaises
<1>2. TInv'
  BY <1>1, RunnersReport DEF SInv
<1>3. \A t \in TreeIds : Sound(tree[t])
  BY DEF SInv, TInv, Bodies
<1>4. CASE RecordSession(c) /\ Reports(Told(c, {"progress"}))
  <2> DEFINE F == [t \in TreeIds |-> Recorded(tree[t], c)]
  <2>1. /\ tree' = [t \in TreeIds |-> IF t \in Addressed(c) THEN F[t] ELSE tree[t]]
        /\ \A t \in TreeIds : F[t] = Recorded(tree[t], c)
    BY <1>4 DEF RecordSession
  <2> HIDE DEF F
  <2>2. \A t \in TreeIds : SameTree(tree[t], F[t])
    BY <1>3, <2>1, RecordedTree
  <2>4. \A t \in TreeIds : IsButFor(Restored(tree[t]), Restored(F[t]), {tree[t].work})
    BY <1>3, <2>1, ReportedRestores
  <2>3. \A t \in TreeIds : ~(Owns(tree[t], c) /\ tree[t].state[tree[t].work] \in {"progress"})
                           => F[t] = tree[t]
    BY <2>1 DEF Recorded
  <2> QED
    BY <1>1, <1>2, <1>4, <2>1, <2>2, <2>3, <2>4, ReportInPlace
<1>5. CASE CompleteClaim(c) /\ Reports(Told(c, {"progress", "error"}))
  <2>1. PICK captured \in BOOLEAN :
          tree' = [t \in TreeIds |->
                     IF t \in Addressed(c) THEN Completed(tree[t], c, captured) ELSE tree[t]]
    BY <1>5 DEF CompleteClaim
  <2> DEFINE F == [t \in TreeIds |-> Completed(tree[t], c, captured)]
  <2>2. /\ tree' = [t \in TreeIds |-> IF t \in Addressed(c) THEN F[t] ELSE tree[t]]
        /\ \A t \in TreeIds : F[t] = Completed(tree[t], c, captured)
    BY <2>1
  <2> HIDE DEF F
  <2>3. \A t \in TreeIds : SameTree(tree[t], F[t])
    BY <1>3, <2>2, CompletedTree
  <2>5. \A t \in TreeIds : IsButFor(Restored(tree[t]), Restored(F[t]), {tree[t].work})
    BY <1>3, <2>2, ReportedRestores
  <2>4. \A t \in TreeIds : ~(Owns(tree[t], c) /\ tree[t].state[tree[t].work] \in {"progress", "error"})
                           => F[t] = tree[t]
    BY <2>2 DEF Completed
  <2> QED
    BY <1>1, <1>2, <1>5, <2>2, <2>3, <2>4, <2>5, ReportInPlace
<1>6. CASE (FailClaim(c) \/ RunnerRaises(c)) /\ Reports(Told(c, States \ {"none"}))
  <2>1. PICK propagate \in BOOLEAN :
          tree' = [t \in TreeIds |->
                     IF t \in Addressed(c) THEN Failed(tree[t], c, propagate) ELSE tree[t]]
    BY <1>6 DEF FailClaim, RunnerRaises
  <2> DEFINE F == [t \in TreeIds |-> Failed(tree[t], c, propagate)]
  <2>2. /\ tree' = [t \in TreeIds |-> IF t \in Addressed(c) THEN F[t] ELSE tree[t]]
        /\ \A t \in TreeIds : F[t] = Failed(tree[t], c, propagate)
    BY <2>1
  <2> HIDE DEF F
  <2>3. \A t \in TreeIds : SameTree(tree[t], F[t])
    BY <1>3, <2>2, FailedTree
  <2>5. \A t \in TreeIds : IsButFor(Restored(tree[t]), Restored(F[t]), {tree[t].work})
    BY <1>3, <2>2, ReportedRestores
  <2>4. ASSUME NEW t \in TreeIds,
               ~(Owns(tree[t], c) /\ tree[t].state[tree[t].work] \in States \ {"none"})
        PROVE  F[t] = tree[t]
    <3>1. Owns(tree[t], c) => tree[t].state[tree[t].work] \in States
      BY <1>3, TreesAssumption DEF Sound, ClaimIsWhole, TreeRecord, Owns
    <3>2. ~(Owns(tree[t], c) /\ tree[t].state[tree[t].work] \notin {"none", "completed"})
      BY <2>4, <3>1
    <3> QED
      BY <2>2, <3>2 DEF Failed
  <2> QED
    BY <1>1, <1>2, <1>6, <2>2, <2>3, <2>4, <2>5, ReportInPlace
<1> QED
  BY <1>4, <1>5, <1>6 DEF ReportSaved

\* The end of a claim leaves the restoration of its tree as it was: who waited or ran
\* was not over before, nor is it now.
LEMMA FinishedRestores ==
  ASSUME NEW t, Sound(t), t.active # NoClaim, NEW next \in Claims,
         \A n \in Nodes : t.state[n] # "progress"
  PROVE  LET u == Finished(t, t.active, next) IN
         /\ SameTree(t, u) /\ Restored(u) = Restored(t)
         /\ Halted(t) => Halted(u)
<1> DEFINE u == Finished(t, t.active, next)
           ready == {i \in DOMAIN t.queue : t.state[t.queue[i]] = "pending"}
           first == Min(ready)
           n == t.queue[first]
<1>1. Sound(u) /\ SameTree(t, u) /\ Advanced(t, u, next)
  BY FinishedTree
<1>2. t \in TreeRecord /\ u \in TreeRecord /\ t.queue \in Seq(Nodes) /\ t.queue \in [DOMAIN t.queue -> Nodes]
  BY <1>1 DEF Sound, TreeRecord
<1>3. CASE ready = {}
  <2>1. u = [Released(t) EXCEPT !.queue = <<>>]
    BY <1>3 DEF Finished
  <2>2. u.state = t.state /\ u.session = t.session /\ u.active = NoClaim /\ u.queue = <<>>
    BY <1>2, <2>1 DEF Released, TreeRecord
  <2> HIDE DEF u
  <2>3. Restored(u) = Restored(t)
    BY <1>1, <1>2, <2>2, SameRestoration DEF SameTree
  <2> QED
    BY <1>1, <2>2, <2>3 DEF Halted, WithStates, u
<1>4. CASE ready # {}
  <2>1. u = Claimed([t EXCEPT !.queue = SubSeq(@, first + 1, Len(@))], n, next)
    BY <1>4 DEF Finished
  <2>2. t.queue # <<>>
    BY <1>4
  <2> HIDE DEF n, first, ready
  <2>3. /\ u.session = t.session /\ u.state = [t.state EXCEPT ![n] = "progress"]
        /\ u.work = n /\ u.root = t.root /\ u.parent = t.parent /\ u.status = t.status
    BY <1>2, <2>1 DEF Claimed, TreeRecord
  <2> HIDE DEF u
  <2>4. n = Head(t.queue) /\ Head(t.queue) \in Nodes /\ Head(t.queue) \in ToSet(t.queue)
    BY <1>1, <1>2, <2>2, <2>3, TailOfLine DEF Advanced, Sound, QueueIsPending
  <2>5. t.state[n] = "pending"
    BY <2>4 DEF Sound, QueueIsPending, WithStates
  <2>6. \A m \in Nodes : u.state[m] = t.state[m] \/ (u.state[m] \in Runnable /\ t.state[m] \in Runnable)
    BY <1>2, <2>3, <2>4, <2>5 DEF Runnable, TreeRecord
  <2>7. Restored(u) = Restored(t)
    BY <1>2, <2>3, <2>6, SameRestoration
  <2> QED
    BY <1>1, <2>2, <2>7 DEF Halted, u
<1> QED
  BY <1>3, <1>4

\* What processors do leaves every snapshot as good as it was.
LEMMA ProcessorsMove ==
  ASSUME SInv, NEW c \in Claims, ProcessorMoves(c)
  PROVE  SInv'
<1>1. UNCHANGED <<trees, stored, command, histories>>
  BY DEF ProcessorMoves, Drop, Enter, Announced, End, Finish
<1>2. TInv /\ \A t \in TreeIds : Sound(tree[t])
  BY DEF SInv, TInv, Bodies
<1>3. Published \subseteq TreeIds
  BY <1>2, PublishedTrees
<1>4. CASE Drop(c) \/ Enter(c) \/ Announced(c)
  <2>1. UNCHANGED tree
    BY <1>4 DEF Drop, Enter, Announced
  <2>2. TInv'
    BY <1>2, <1>4, TasksMove
  <2>3. \A t \in Published : SameTree(tree[t], tree'[t]) /\ tree'[t] = tree[t]
    BY <2>1 DEF SameTree
  <2> QED
    BY <1>1, <2>2, <2>3, NothingSaved
<1>5. CASE End(c)
  <2> DEFINE t == slot[c].tree
  <2>1. TInv'
    BY <1>2, <1>5, TaskEnded
  <2>2. t \in TreeIds /\ tree[t].active = c /\ c # NoClaim /\ tree \in [TreeIds -> TreeRecord]
    <3>1. slot[c].phase # "none"
      BY <1>5 DEF End, Ends
    <3> QED
      BY <1>2, <3>1, TreesAssumption DEF TInv, Bodies, Slots, ClaimsAreExecuted
  <2>3. \A n \in Nodes : tree[t].state[n] # "progress"
    <3> SUFFICES ASSUME NEW n \in Nodes, tree[t].state[n] = "progress" PROVE FALSE
      OBVIOUS
    <3>1. ~tree[t].cancelled /\ slot[c].requested = tree[t].cancelled /\ slot[c].phase \in Unreported
      BY <1>2, <2>2 DEF Sound, ProgressIsClaimed, TInv, Slots, ClaimsAreExecuted, Turns
    <3> QED
      BY <1>5, <3>1 DEF End, Ends, Unreported
  <2>4. PICK next \in FreeClaims \cup {c} :
          tree' = [tree EXCEPT ![t] = IF t \in Published THEN Finished(@, c, next) ELSE Blank]
    BY <1>5 DEF End, Finish
  <2> HIDE DEF t
  <2>5. next \in Claims
    BY <2>4, FreeClaim
  <2>6. ASSUME NEW x \in Published
        PROVE  /\ SameTree(tree[x], tree'[x]) /\ Restored(tree'[x]) = Restored(tree[x])
               /\ Halted(tree[x]) => Halted(tree'[x])
    <3>1. CASE x = t
      <4>1. tree'[x] = Finished(tree[x], tree[x].active, next)
        BY <2>2, <2>4, <3>1
      <4> QED
        BY <1>2, <2>2, <2>3, <2>5, <3>1, <4>1, FinishedRestores
    <3>2. CASE x # t
      <4>1. tree'[x] = tree[x]
        BY <1>3, <2>2, <2>4, <3>2
      <4> QED
        BY <4>1 DEF SameTree
    <3> QED
      BY <3>1, <3>2
  <2> QED
    BY <1>1, <2>1, <2>6, NothingSaved
<1> QED
  BY <1>4, <1>5 DEF ProcessorMoves

--------------------------------------------------------------------------------
(* Admissions *)

\* While no command is under way, nothing is due or to be removed.
LEMMA Idle ==
  ASSUME ~Busy
  PROVE  Due = {} /\ Removing = {}
BY DEF Due, Removing

\* An admission saves the tree that it makes or that grows.
LEMMA TreeAdmitted ==
  ASSUME SInv, TInv', ~Busy, UNCHANGED command, NEW t \in Published',
         Saves({tree'[t].root}), Heals({tree'[t].root}),
         Published \subseteq Published',
         \A x \in Published' \ {t} : x \in Published /\ tree'[x] = tree[x],
         t \in Published => tree'[t].root = tree[t].root
  PROVE  SInv'
<1> DEFINE m == tree'[t].root
<1>1. Apart
  BY RootsApart DEF SInv
<1>2. Apart'
  BY RootsApart, PTL
<1>3. ~Busy' /\ command' = NoCommand /\ Due' = {} /\ Removing' = {} /\ Due = {} /\ Removing = {}
  BY Idle DEF SInv, Busy, Due, Removing
<1>4. /\ stored' \in [Nodes -> TreeRecord] /\ \A n \in Nodes \ {m} : stored'[n] = stored[n]
      /\ stored'[m] = Restored(tree'[t]) /\ wiped' = wiped \ {m}
  <2>1. \A n \in {m} : \E x \in Published' : tree'[x].root = n
    OBVIOUS
  <2>2. stored \in [Nodes -> TreeRecord]
    BY DEF SInv, Store
  <2> HIDE DEF m
  <2>3. /\ stored' \in [Nodes -> TreeRecord] /\ \A n \in Nodes \ {m} : stored'[n] = stored[n]
        /\ \A x \in Published' : tree'[x].root \in {m} => stored'[tree'[x].root] = Restored(tree'[x])
        /\ wiped' = wiped \ {m}
    BY <2>1, <2>2, SavedValue DEF m
  <2> QED
    BY <2>3 DEF m
<1>5. /\ m \in Nodes /\ Whole(stored'[m], m) /\ stored'[m] # Blank
      /\ SameMessages(stored'[m], tree'[t])
  <2>1. Sound(tree'[t]) /\ Hangs(tree'[t])
    BY <1>2 DEF Apart
  <2> QED
    BY <1>4, <2>1, SnapshotIsWhole
<1> HIDE DEF m
<1>6. \A x \in Published' \ {t} : /\ tree'[x].root \in Nodes \ {m}
                                  /\ stored'[tree'[x].root] = stored[tree[x].root]
                                  /\ tree[x].root # m /\ tree[x] \in TreeRecord
                                  /\ overtaken \cap Members(tree[x]) \subseteq overtaken'
  <2>1. \A x \in Published' \ {t} : tree'[x].root \in Nodes /\ tree'[x].root # m
    BY <1>2 DEF Apart, m
  <2>2. \A x \in Published' : tree'[x].root # m => overtaken \cap Members(tree'[x]) \subseteq overtaken'
    <3>1. \A n \in {m} : \E x \in Published' : tree'[x].root = n
      BY DEF m
    <3>2. Heals({m})
      BY DEF m
    <3> QED
      BY <3>1, <3>2, HealedValue
  <2>3. \A x \in Published' \ {t} : tree[x] \in TreeRecord
    BY <1>1 DEF Apart, Sound
  <2> QED
    BY <1>4, <2>1, <2>2, <2>3
<1>7. \A x \in Published : tree[x].root \notin wiped =>
        /\ stored[tree[x].root] # Blank
        /\ IsButFor(stored[tree[x].root], Restored(tree[x]), overtaken)
  BY <1>3 DEF SInv, Covered
<1>8. Store' /\ Foreign'
  <2>1. ASSUME NEW n \in Nodes \ {m} PROVE Live(stored'[m]) \cap Live(stored[n]) = {}
    <3>1. CASE stored[n] = Blank
      BY <3>1, BlankIsSound
    <3>2. CASE stored[n] # Blank
      <4>1. PICK x \in Published : tree[x].root = n
        BY <1>3, <3>2 DEF SInv, Accounted, StoredRoots
      <4>2. x # t
        BY <4>1 DEF m
      <4>3. x \in Published' \ {t} /\ tree'[x] = tree[x] /\ n \notin wiped
        BY <3>2, <4>2 DEF SInv, Covered
      <4>4. Live(stored[n]) = Live(tree'[x])
        BY <1>6, <1>7, <4>1, <4>3, ButForMessages
      <4>5. Live(stored'[m]) = Live(tree'[t])
        BY <1>5 DEF SameMessages
      <4> QED
        BY <1>2, <4>3, <4>4, <4>5 DEF Apart
    <3> QED
      BY <3>1, <3>2
  <2>2. Store'
    BY <1>4, <1>5, <2>1, StoreGrows DEF SInv
  <2>3. ASSUME NEW x \in Published', NEW n \in Nodes, tree'[x].root # n
        PROVE  Live(tree'[x]) \cap Live(stored'[n]) = {}
    <3>1. CASE n = m
      <4>1. x # t /\ Live(stored'[n]) = Live(tree'[t])
        BY <1>5, <2>3, <3>1 DEF SameMessages, m
      <4> QED
        BY <1>2, <4>1 DEF Apart
    <3>2. CASE n # m /\ x = t
      BY <1>4, <1>5, <2>1, <3>2 DEF SameMessages
    <3>3. CASE n # m /\ x # t
      <4>1. x \in Published /\ tree'[x] = tree[x] /\ stored'[n] = stored[n]
        BY <1>4, <3>3
      <4> QED
        BY <2>3, <4>1 DEF SInv, Foreign
    <3> QED
      BY <3>1, <3>2, <3>3
  <2> QED
    BY <2>2, <2>3 DEF Foreign
<1>9. Covered'
  <2>1. \A n \in wiped' : n \in Nodes /\ stored'[n] = Blank
    BY <1>4 DEF SInv, Covered
  <2>2. ASSUME NEW x \in Published', tree'[x].root \notin wiped'
        PROVE  /\ stored'[tree'[x].root] # Blank
               /\ Live(tree'[x]) \subseteq Live(stored'[tree'[x].root])
               /\ IsButFor(stored'[tree'[x].root], Restored(tree'[x]), overtaken')
    <3>1. CASE x = t
      BY <1>4, <1>5, <3>1, ButForNone DEF SameMessages, m
    <3>2. CASE x # t
      <4>1. /\ x \in Published /\ tree'[x] = tree[x] /\ stored'[tree'[x].root] = stored[tree[x].root]
            /\ tree[x].root \notin wiped /\ tree[x] \in TreeRecord
            /\ overtaken \cap Members(tree[x]) \subseteq overtaken'
        BY <1>4, <1>6, <2>2, <3>2
      <4>2. stored[tree[x].root] # Blank /\ IsButFor(stored[tree[x].root], Restored(tree[x]), overtaken)
        BY <1>7, <4>1
      <4>3. /\ IsButFor(stored[tree[x].root], Restored(tree[x]), overtaken')
            /\ Live(stored[tree[x].root]) = Live(tree[x])
        BY <4>1, <4>2, ButForWidens, ButForMessages
      <4> QED
        BY <4>1, <4>2, <4>3
    <3> QED
      BY <3>1, <3>2
  <2> QED
    BY <1>3, <2>1, <2>2 DEF Covered
<1>10. Accounted'
  <2> SUFFICES ASSUME NEW n \in Nodes, stored'[n] # Blank
               PROVE  \E x \in Published' : tree'[x].root = n
    BY DEF Accounted, StoredRoots
  <2>1. CASE n = m
    BY <2>1 DEF m
  <2>2. CASE n # m
    <3>1. PICK x \in Published : tree[x].root = n
      BY <1>3, <1>4, <2>2 DEF SInv, Accounted, StoredRoots
    <3>2. x # t
      BY <2>2, <3>1 DEF m
    <3> QED
      BY <3>1, <3>2
  <2> QED
    BY <2>1, <2>2
<1>11. Reading'
  BY <1>3 DEF Reading
<1> QED
  BY <1>3, <1>8, <1>9, <1>10, <1>11 DEF SInv

\* Each kind of admission is one.
LEMMA AdmissionsSaved ==
  ASSUME SInv, NEW n \in Nodes, AdmitSaved(n)
  PROVE  SInv'
<1>1. ~Busy /\ UNCHANGED command /\ TInv
  BY DEF AdmitSaved, Unlocked, Busy, NoCommand, SInv
<1>2. /\ tree \in [TreeIds -> TreeRecord] /\ trees \in Seq(TreeIds)
      /\ index \in [Refs -> TreeIds \cup {NoTree}] /\ Prompt(n) \in Refs /\ Status(n) \in Refs
  BY <1>1, References DEF TInv, Bodies, Places
<1>3. CASE /\ AdmitRoot(n) /\ Saves({tree'[index'[Prompt(n)]].root})
           /\ Heals({tree'[index'[Prompt(n)]].root})
  <2>1. PICK t \in FreeTrees, c \in FreeClaims :
          /\ tree' = [tree EXCEPT ![t] = Admitted(Seedling(n), n, c)]
          /\ trees' = Append(trees, t)
          /\ index' = [index EXCEPT ![Prompt(n)] = t, ![Status(n)] = t]
    BY <1>3 DEF AdmitRoot
  <2>2. t \in TreeIds /\ t \notin Published /\ index'[Prompt(n)] = t
    BY <1>2, <2>1 DEF FreeTrees
  <2>3. Published' = Published \cup {t}
    BY <1>2, <2>1, <2>2, AppendedLine DEF Published
  <2>4. TInv'
    BY <1>1, <1>3, RootAdmitted
  <2>5. \A x \in Published' \ {t} : x \in Published /\ tree'[x] = tree[x]
    BY <1>1, <2>1, <2>3, PublishedTrees
  <2> QED
    BY <1>1, <1>3, <2>2, <2>3, <2>4, <2>5, TreeAdmitted
<1>4. ASSUME NEW r \in Refs, AdmitReply(n, r), Saves({tree'[index'[Prompt(n)]].root}),
             Heals({tree'[index'[Prompt(n)]].root})
      PROVE  SInv'
  <2>1. PICK t \in Published : \E c \in Offered(t) :
          /\ tree' = [tree EXCEPT ![t] = Grown(@, n, r, c)]
          /\ index' = [index EXCEPT ![Prompt(n)] = t, ![Status(n)] = t]
    BY <1>4 DEF AdmitReply
  <2>2. PICK c \in Offered(t) :
          /\ tree' = [tree EXCEPT ![t] = Grown(@, n, r, c)]
          /\ index' = [index EXCEPT ![Prompt(n)] = t, ![Status(n)] = t]
    BY <2>1
  <2>3. t \in TreeIds /\ index'[Prompt(n)] = t /\ Published' = Published
    BY <1>1, <1>2, <1>4, <2>2, PublishedTrees DEF AdmitReply, Published
  <2>4. TInv'
    BY <1>1, <1>4, ReplyAdmitted
  <2>5. \A x \in Published' \ {t} : x \in Published /\ tree'[x] = tree[x]
    BY <1>1, <2>2, <2>3, PublishedTrees
  <2>6. tree'[t].root = tree[t].root
    <3>1. tree[t] \in TreeRecord /\ tree'[t] = Grown(tree[t], n, r, c)
      BY <1>2, <2>2, <2>3
    <3> QED
      BY <3>1 DEF Grown, Admitted, Claimed, TreeRecord
  <2> QED
    BY <1>1, <1>4, <2>3, <2>4, <2>5, <2>6, TreeAdmitted
<1>5. CASE AdmitAgain(n) /\ UNCHANGED <<stored, histories>>
  <2>1. UNCHANGED vars
    BY <1>1, <1>5, AdmittedAgain
  <2>2. TInv'
    BY <1>1, <2>1, TInvStutters
  <2>3. UNCHANGED <<tree, trees>> /\ \A t \in Published : SameTree(tree[t], tree'[t])
    BY <2>1 DEF vars, SameTree
  <2> QED
    BY <1>1, <1>5, <2>2, <2>3, NothingSaved
<1> QED
  BY <1>3, <1>4, <1>5 DEF AdmitSaved

--------------------------------------------------------------------------------
(* Commands *)

\* A command takes messages away from the trees it will read, trees away whose snapshots
\* it will remove, and leaves the others alone.
LEMMA CommandBegins ==
  ASSUME SInv, TInv', ~Busy, NEW kind \in {"reply", "all", "clear"}, NEW S, NEW gone,
         Begins(kind, S, gone), Published' \subseteq Published, S \subseteq Published',
         \A t \in Published' : tree'[t].root = tree[t].root /\ Live(tree'[t]) \subseteq Live(tree[t]),
         \A t \in Published' \ S : tree'[t] = tree[t],
         \A t \in Published \ Published' : tree[t].root \in gone,
         \A t \in S : tree[t].root \notin gone,
         kind = "all" => \A t \in Published' : Halted(tree'[t]),
         kind = "clear" => S = {}
  PROVE  SInv'
<1>1. /\ command' = [kind |-> kind, unread |-> S, read |-> [n \in Nodes |-> Blank], gone |-> gone]
      /\ UNCHANGED <<stored, overtaken, wiped>> /\ Busy' /\ Due = {} /\ Removing = {}
  BY Idle DEF Begins, Busy, histories
<1>2. /\ Removing' = Nodes \cap gone
      /\ Due' = {n \in Nodes : \E t \in S : tree'[t].root = n}
  BY <1>1 DEF Removing, Due
<1>3. Apart /\ Apart'
  BY RootsApart, PTL DEF SInv
<1>4. Store'
  BY <1>1 DEF SInv, Store, StoredRoots
<1>5. Covered'
  <2>1. ASSUME NEW t \in Published', tree[t].root \notin wiped
        PROVE  /\ stored[tree[t].root] # Blank
               /\ Live(tree'[t]) \subseteq Live(stored[tree[t].root])
               /\ t \notin S => IsButFor(stored[tree[t].root], Restored(tree'[t]), overtaken)
    <3>1. t \in Published /\ tree[t].root \notin Due
      BY <1>1
    <3>2. /\ stored[tree[t].root] # Blank
          /\ Live(tree[t]) \subseteq Live(stored[tree[t].root])
          /\ IsButFor(stored[tree[t].root], Restored(tree[t]), overtaken)
      BY <2>1, <3>1 DEF SInv, Covered
    <3>3. Live(tree'[t]) \subseteq Live(tree[t]) /\ (t \notin S => tree'[t] = tree[t])
      OBVIOUS
    <3> QED
      BY <3>2, <3>3
  <2>2. \A t \in Published' : t \in S => tree'[t].root \in Due'
    BY <1>2, <1>3 DEF Apart
  <2>3. \A n \in wiped' : n \in Nodes /\ stored'[n] = Blank
    BY <1>1 DEF SInv, Covered
  <2> QED
    BY <1>1, <2>1, <2>2, <2>3 DEF Covered
<1>6. Accounted'
  <2> SUFFICES ASSUME NEW n \in Nodes, stored[n] # Blank, n \notin gone
               PROVE  \E t \in Published' : tree'[t].root = n
    BY <1>1, <1>2 DEF Accounted, StoredRoots
  <2>1. PICK t \in Published : tree[t].root = n
    BY <1>1 DEF SInv, Accounted, StoredRoots
  <2> QED
    BY <2>1
<1>7. Reading'
  <2>1. \A t \in S : tree'[t].root \notin gone
    OBVIOUS
  <2> QED
    BY <1>1, <2>1, BlankIsSound DEF Reading, Sound
<1>8. Foreign'
  <2> SUFFICES ASSUME NEW t \in Published', NEW n \in Nodes, tree'[t].root # n
               PROVE  Live(tree'[t]) \cap Live(stored[n]) = {}
    BY <1>1 DEF Foreign
  <2>1. Live(tree[t]) \cap Live(stored[n]) = {}
    BY DEF SInv, Foreign
  <2> QED
    BY <2>1
<1> QED
  BY <1>1, <1>4, <1>5, <1>6, <1>7, <1>8 DEF SInv

\* A stop that reaches every tree leaves nothing that waits and nobody who reports.
LEMMA AllReached ==
  ASSUME TInv, Reached = Published
  PROVE  \A t \in Published : Halted(Stopped[t]) /\ SameTree(tree[t], Stopped[t])
<1>1. Published \subseteq TreeIds
  BY PublishedTrees
<1> SUFFICES ASSUME NEW t \in Published
             PROVE  Halted(Stopped[t]) /\ SameTree(tree[t], Stopped[t])
  OBVIOUS
<1>2. /\ SameTree(tree[t], Stopped[t]) /\ Stopped[t].active = tree[t].active
      /\ Stopped[t].queue = <<>> /\ WithStates(Stopped[t], Runnable) = {}
      /\ Stopped[t].cancelled <=> tree[t].active # NoClaim
  BY <1>1, TreesStopped
<1> QED
  BY <1>2 DEF Halted

\* What a command changes before it raises, a restart would not see.
LEMMA CommandRaises ==
  ASSUME SInv, TInv', ~Busy, UNCHANGED trees, SavesNothing,
         \A t \in Published : SameTree(tree[t], tree'[t]) /\ Restored(tree'[t]) = Restored(tree[t])
  PROVE  SInv'
BY NothingSaved DEF SavesNothing

\* A stop of one reply strikes a node of its tree, and may raise then.
LEMMA ReplyStopped ==
  ASSUME SInv, ~Busy, NEW r \in Refs, StopReplySaved(r)
  PROVE  SInv'
<1>1. /\ TInv /\ Published \subseteq TreeIds /\ tree \in [TreeIds -> TreeRecord]
      /\ \A t \in Published : Sound(tree[t])
  BY PublishedTrees, RootsApart DEF SInv, TInv, Bodies, Apart
<1> DEFINE t == index[r]
           n == Owner(r)
<1>2. /\ CancelNode(r) /\ t \in Published /\ n \in Nodes /\ UNCHANGED trees
      /\ tree' = [tree EXCEPT ![t] = Struck(Asked(@, {n}), {n})]
      /\ SavesNothing \/ Begins("reply", {t}, {})
  BY <1>1, Located, References DEF StopReplySaved, CancelNode, CancelledNode
<1> HIDE DEF t, n
<1>3. TInv'
  BY <1>1, <1>2, NodeCancelled
<1>4. Published' = Published
  BY <1>2 DEF Published
<1>5. /\ SameTree(tree[t], Struck(Asked(tree[t], {n}), {n}))
      /\ Restored(Struck(Asked(tree[t], {n}), {n})) = Restored(tree[t])
  <2>1. Sound(tree[t]) /\ {n} \in SUBSET Nodes /\ {n} \in SUBSET {n}
    BY <1>1, <1>2
  <2> QED
    BY <2>1, StruckTree, StoppedRestores
<1>6. tree'[t] = Struck(Asked(tree[t], {n}), {n}) /\ \A x \in Published \ {t} : tree'[x] = tree[x]
  BY <1>1, <1>2
<1>7. CASE SavesNothing
  <2>1. \A x \in Published : SameTree(tree[x], tree'[x]) /\ Restored(tree'[x]) = Restored(tree[x])
    BY <1>5, <1>6 DEF SameTree
  <2> QED
    BY <1>2, <1>3, <1>7, <2>1, CommandRaises
<1>8. CASE Begins("reply", {t}, {})
  <2>1. \A x \in Published : tree'[x].root = tree[x].root /\ Live(tree'[x]) \subseteq Live(tree[x])
    <3>1. tree'[t].root = tree[t].root /\ Live(tree'[t]) = Live(tree[t])
      BY <1>5, <1>6, SameReferences DEF SameTree
    <3> QED
      BY <1>6, <3>1
  <2>2. /\ Published' \subseteq Published /\ {t} \subseteq Published'
        /\ \A x \in Published' \ {t} : tree'[x] = tree[x]
        /\ \A x \in Published' : tree'[x].root = tree[x].root /\ Live(tree'[x]) \subseteq Live(tree[x])
        /\ Published \ Published' = {}
    BY <1>2, <1>4, <1>6, <2>1
  <2> QED
    BY <1>3, <1>8, <2>2, CommandBegins
<1> QED
  BY <1>2, <1>7, <1>8

\* A stop of everything reaches every tree, or raises.
LEMMA EverythingStopped ==
  ASSUME SInv, ~Busy, StopAllSaved
  PROVE  SInv'
<1>1. /\ TInv /\ CancelAll /\ Published \subseteq TreeIds
      /\ IF Reached = Published THEN Begins("all", Published, {}) ELSE SavesNothing
  BY PublishedTrees DEF SInv, StopAllSaved
<1>2. TInv' /\ tree' = Stopped /\ Published' = Published /\ UNCHANGED trees
  BY <1>1, AllCancelled DEF CancelAll, Published
<1>3. CASE Reached = Published
  <2>1. \A t \in Published : Halted(tree'[t]) /\ SameTree(tree[t], tree'[t])
    BY <1>1, <1>2, <1>3, AllReached
  <2>2. \A t \in Published : tree'[t].root = tree[t].root /\ Live(tree'[t]) = Live(tree[t])
    BY <2>1, SameReferences DEF SameTree
  <2> QED
    BY <1>1, <1>2, <1>3, <2>1, <2>2, CommandBegins
<1>4. CASE Reached # Published
  <2>1. ASSUME NEW t \in Published
        PROVE  SameTree(tree[t], tree'[t]) /\ Restored(tree'[t]) = Restored(tree[t])
    <3>1. SameTree(tree[t], tree'[t]) /\ Sound(tree[t])
      BY <1>1, <1>2, TreesStopped DEF TInv, Bodies
    <3>2. tree'[t] = CancelledAll(tree[t]) \/ tree'[t] = tree[t]
      BY <1>1, <1>2 DEF Stopped
    <3> QED
      BY <3>1, <3>2, StoppedRestores
  <2> QED
    BY <1>1, <1>2, <1>4, <2>1, CommandRaises
<1> QED
  BY <1>3, <1>4

\* A clear of the chat removes the trees that it reaches, and the snapshots of all.
LEMMA ChatCleared ==
  ASSUME SInv, ~Busy, ClearChatSaved
  PROVE  SInv'
<1>1. TInv /\ ClearScope /\ Begins("clear", {}, Nodes) /\ trees \in Seq(TreeIds)
  BY DEF SInv, ClearChatSaved, TInv, Places
<1>2. TInv' /\ trees' = Without(trees, Reached)
  BY <1>1, ScopeCleared DEF ClearScope
<1>3. Published' = Published \ Reached
  BY <1>1, <1>2, WithoutIsThinned DEF Published
<1>4. /\ \A t \in Published' : tree'[t] = tree[t]
      /\ \A t \in Published : tree[t].root \in Nodes
  BY <1>1, <1>3, PublishedTrees, RootsApart DEF ClearScope, Apart
<1> QED
  BY <1>1, <1>2, <1>3, <1>4, CommandBegins

\* A clear of one reply removes messages of a tree, or all of it; or it raises, and some
\* of them are struck and none is removed.
LEMMA ReplyCleared ==
  ASSUME SInv, ~Busy, NEW r \in Refs, ClearReplySaved(r)
  PROVE  SInv'
<1>1. /\ TInv /\ Published \subseteq TreeIds /\ tree \in [TreeIds -> TreeRecord]
      /\ trees \in Seq(TreeIds) /\ \A t \in Published : Sound(tree[t]) /\ tree[t].root \in Nodes
  BY PublishedTrees, RootsApart DEF SInv, TInv, Bodies, Places, Apart
<1>2. CASE RemoveRaises(r) /\ SavesNothing
  <2> DEFINE t == index[r]
             A == Affected(tree[t], r)
  <2>1. t \in Published /\ UNCHANGED trees /\ A \in SUBSET Nodes /\ tree[t].work \in A
    BY <1>1, <1>2, Located, References DEF RemoveRaises, PruneRaises, Affected, RemovedNodes
  <2>2. PICK N \in SUBSET A : /\ tree[t].work \in N
                              /\ tree' = [tree EXCEPT ![t] = Struck(Asked(@, A), N)]
    BY <1>2 DEF RemoveRaises, PrunedUpTo
  <2>3. TInv'
    BY <1>1, <1>2, RemovalRaised
  <2> HIDE DEF t, A
  <2>4. /\ SameTree(tree[t], Struck(Asked(tree[t], A), N))
        /\ Restored(Struck(Asked(tree[t], A), N)) = Restored(tree[t])
    BY <1>1, <2>1, <2>2, StruckTree, StoppedRestores
  <2>5. \A x \in Published : tree'[x] = IF x = t THEN Struck(Asked(tree[t], A), N) ELSE tree[x]
    BY <1>1, <2>1, <2>2
  <2>6. \A x \in Published : SameTree(tree[x], tree'[x]) /\ Restored(tree'[x]) = Restored(tree[x])
    BY <2>4, <2>5 DEF SameTree
  <2> QED
    BY <1>2, <2>1, <2>3, <2>6, CommandRaises
<1>3. CASE /\ RemoveSubtree(r)
           /\ \/ index[r] \in ToSet(trees') /\ Begins("reply", {index[r]}, {})
              \/ index[r] \notin ToSet(trees') /\ Begins("reply", {}, {tree[index[r]].root})
  <2> DEFINE t == index[r]
             gone == ReplySubtree(tree[t], r)
             whole == Prompt(tree[t].root) \in gone
             after == Pruned(tree[t], r)
  <2>1. /\ t \in Published /\ t \in TreeIds /\ r \in Live(tree[t])
        /\ tree' = [tree EXCEPT ![t] = IF whole THEN Kept(after) ELSE after]
        /\ trees' = IF whole THEN Without(trees, {t}) ELSE trees
        /\ \/ t \in Published' /\ Begins("reply", {t}, {})
           \/ t \notin Published' /\ Begins("reply", {}, {tree[t].root})
    BY <1>1, <1>3, Located DEF RemoveSubtree, Published
  <2>2. TInv'
    BY <1>1, <1>3, SubtreeRemoved
  <2>3. Live(after) \subseteq Live(tree[t]) /\ after.root = tree[t].root
    <3>1. Sound(tree[t]) /\ r \in Live(tree[t])
      BY <1>1, <2>1
    <3>2. Live(after) = Live(tree[t]) \ gone /\ after.root = tree[t].root
      BY <3>1, PrunedTree
    <3> QED
      BY <3>2
  <2>4. Published' = IF whole THEN Published \ {t} ELSE Published
    BY <1>1, <2>1, WithoutIsThinned DEF Published
  <2> HIDE DEF t, gone, after
  <2>5. \A x \in Published \ {t} : tree'[x] = tree[x]
    BY <1>1, <2>1
  <2>6. CASE whole
    <3>1. Begins("reply", {}, {tree[t].root}) /\ Published' = Published \ {t}
      BY <2>1, <2>4, <2>6
    <3> HIDE DEF whole
    <3> QED
      BY <1>1, <2>1, <2>2, <2>5, <3>1, CommandBegins
  <2>7. CASE ~whole
    <3>1. Begins("reply", {t}, {}) /\ Published' = Published /\ tree'[t] = after
      BY <1>1, <2>1, <2>4, <2>7
    <3> HIDE DEF whole
    <3>2. \A x \in Published : tree'[x].root = tree[x].root /\ Live(tree'[x]) \subseteq Live(tree[x])
      BY <2>3, <2>5, <3>1
    <3> QED
      BY <2>1, <2>2, <2>5, <3>1, <3>2, CommandBegins
  <2> QED
    BY <2>6, <2>7
<1> QED
  BY <1>2, <1>3 DEF ClearReplySaved

\* Each command begins when none is under way.
LEMMA CommandsBegin ==
  ASSUME SInv,
         \/ \E r \in Refs : StopReplySaved(r) \/ ClearReplySaved(r)
         \/ StopAllSaved \/ ClearChatSaved
  PROVE  SInv'
<1>1. ~Busy
  <2>1. Unlocked
    BY DEF StopReplySaved, ClearReplySaved, StopAllSaved, ClearChatSaved, Begins, SavesNothing
  <2> QED
    BY <2>1 DEF Unlocked, Busy, NoCommand
<1> QED
  BY <1>1, ReplyStopped, EverythingStopped, ChatCleared, ReplyCleared

\* What a command reads of a tree is due to be saved before and after; the reports that
\* came before have not been overtaken.
LEMMA TreeRead ==
  ASSUME SInv, NEW t, ReadsTree(t)
  PROVE  SInv'
<1> DEFINE m == tree[t].root
<1>1. /\ Busy /\ t \in command.unread /\ t \in Published /\ command.unread \subseteq Published
      /\ command.read \in [Nodes -> TreeRecord] /\ UNCHANGED <<vars, stored, wiped>>
      /\ DOMAIN command = {"kind", "unread", "read", "gone"} /\ command.kind # "clear"
      /\ m \notin command.gone /\ TInv /\ Apart
  <2>1. Busy
    BY DEF ReadsTree, SInv
  <2> QED
    BY <2>1, RootsApart DEF ReadsTree, SInv, Reading
<1>2. /\ command' = [command EXCEPT !.unread = @ \ {t}, !.read = [@ EXCEPT ![m] = Restored(tree[t])]]
      /\ overtaken' = overtaken \ Members(tree[t])
  BY <1>1 DEF ReadsTree, Snapshot
<1>3. /\ Sound(tree[t]) /\ Hangs(tree[t]) /\ m \in Nodes
      /\ Whole(Restored(tree[t]), m) /\ Restored(tree[t]) # Blank
      /\ Restored(tree[t]) \in TreeRecord
  <2>1. Sound(tree[t]) /\ Hangs(tree[t])
    BY <1>1 DEF Apart
  <2> QED
    BY <2>1, SnapshotIsWhole, RestoredTree DEF Sound
<1> HIDE DEF m
<1>4. /\ command'.kind = command.kind /\ command'.unread = command.unread \ {t}
      /\ command'.gone = command.gone /\ DOMAIN command' = {"kind", "unread", "read", "gone"}
      /\ command'.read = [command.read EXCEPT ![m] = Restored(tree[t])]
  BY <1>1, <1>2
<1>5. \A n \in Nodes : command'.read[n] = IF n = m THEN Restored(tree[t]) ELSE command.read[n]
  BY <1>1, <1>3, <1>4
<1>6. UNCHANGED <<tree, trees, stored, wiped>> /\ Published' = Published
  BY <1>1 DEF vars, Published
<1>7. Busy' /\ Removing' = Removing /\ Due' = Due
  <2>1. Busy' /\ Removing' = Removing
    BY <1>1, <1>4 DEF Busy, Removing
  <2>2. ASSUME NEW n \in Nodes
        PROVE  (command'.read[n] # Blank \/ \E u \in command'.unread : tree[u].root = n)
               <=> (command.read[n] # Blank \/ \E u \in command.unread : tree[u].root = n)
    <3>1. CASE n = m
      BY <1>1, <1>3, <1>5, <3>1 DEF m
    <3>2. CASE n # m
      BY <1>1, <1>4, <1>5, <3>2 DEF m
    <3> QED
      BY <3>1, <3>2
  <2> QED
    BY <1>1, <1>6, <2>1, <2>2 DEF Due
<1>8. \A x \in Published : /\ tree[x] \in TreeRecord
                           /\ tree[x].root # m => overtaken \cap Members(tree[x]) \subseteq overtaken'
  BY <1>1, <1>2 DEF Apart, Sound, m
<1>9. Reading'
  <2>1. command'.read \in [Nodes -> TreeRecord]
    BY <1>1, <1>3, <1>4
  <2>2. ASSUME NEW n \in Nodes, command'.read[n] # Blank
        PROVE  /\ Whole(command'.read[n], n) /\ n \notin command.gone
               /\ \E u \in Published :
                    tree[u].root = n /\ IsButFor(command'.read[n], Restored(tree[u]), overtaken')
    <3>1. CASE n = m
      <4>1. command'.read[n] = Restored(tree[t]) /\ tree[t].root = n
        BY <1>5, <3>1 DEF m
      <4> QED
        BY <1>1, <1>3, <3>1, <4>1, ButForNone
    <3>2. CASE n # m
      <4>1. command'.read[n] = command.read[n]
        BY <1>5, <3>2
      <4>2. PICK u \in Published :
              tree[u].root = n /\ IsButFor(command.read[n], Restored(tree[u]), overtaken)
        BY <1>1, <2>2, <4>1 DEF SInv, Reading
      <4>3. IsButFor(command.read[n], Restored(tree[u]), overtaken')
        BY <1>8, <3>2, <4>2, ButForWidens
      <4> QED
        BY <1>1, <2>2, <4>1, <4>2, <4>3 DEF SInv, Reading
    <3> QED
      BY <3>1, <3>2
  <2>3. /\ command.kind \in {"reply", "all", "clear"}
        /\ command.kind = "all" => \A u \in Published : Halted(tree[u])
        /\ \A u \in command.unread : tree[u].root \notin command.gone
    BY <1>1 DEF SInv, Reading
  <2> QED
    BY <1>1, <1>4, <1>6, <2>1, <2>2, <2>3 DEF Reading
<1>10. Covered'
  <2>1. ASSUME NEW x \in Published, tree[x].root \notin wiped
        PROVE  /\ stored[tree[x].root] # Blank
               /\ Live(tree[x]) \subseteq Live(stored[tree[x].root])
               /\ tree[x].root \notin Due =>
                    IsButFor(stored[tree[x].root], Restored(tree[x]), overtaken')
    <3>1. /\ stored[tree[x].root] # Blank
          /\ Live(tree[x]) \subseteq Live(stored[tree[x].root])
          /\ tree[x].root \notin Due =>
               IsButFor(stored[tree[x].root], Restored(tree[x]), overtaken)
      BY <2>1 DEF SInv, Covered
    <3>2. m \in Due
      BY <1>1, <1>3 DEF Due, m
    <3>3. tree[x].root \notin Due =>
            IsButFor(stored[tree[x].root], Restored(tree[x]), overtaken')
      BY <1>8, <3>1, <3>2, ButForWidens
    <3> QED
      BY <3>1, <3>3
  <2> QED
    BY <1>6, <1>7, <2>1 DEF SInv, Covered
<1>11. Store' /\ Foreign' /\ Accounted'
  BY <1>6, <1>7 DEF SInv, Store, StoredRoots, Foreign, Accounted
<1>12. TInv'
  BY <1>1, TInvStutters
<1> QED
  BY <1>7, <1>9, <1>10, <1>11, <1>12 DEF SInv

\* A save gives the trees that were read their snapshots, and takes those away whose
\* trees are gone or are to be cleared.
LEMMA CommandSaved ==
  ASSUME SInv, SavesCommand
  PROVE  SInv'
<1>1. /\ Busy /\ command.unread = {} /\ UNCHANGED vars /\ command' = NoCommand
      /\ command.read \in [Nodes -> TreeRecord] /\ stored \in [Nodes -> TreeRecord]
      /\ overtaken' = overtaken /\ TInv /\ Apart
  <2>1. Busy
    BY DEF SavesCommand, SInv
  <2> QED
    BY <2>1, RootsApart DEF SavesCommand, SInv, Reading, Store
<1>2. /\ UNCHANGED <<tree, trees>> /\ Published' = Published /\ ~Busy'
      /\ Due' = {} /\ Removing' = {}
  <2>1. ~Busy'
    BY <1>1 DEF Busy, NoCommand
  <2> QED
    BY <1>1, <2>1 DEF vars, Published, Due, Removing
<1>3. /\ stored' = [n \in Nodes |-> CASE n \in command.gone -> Blank
                                      [] command.read[n] # Blank -> command.read[n]
                                      [] OTHER -> stored[n]]
      /\ wiped' = {n \in Nodes : IF n \in command.gone THEN \E t \in Published : tree[t].root = n
                                 ELSE n \in wiped /\ command.read[n] = Blank}
  BY DEF SavesCommand
<1>4. ASSUME NEW n \in Nodes, command.read[n] # Blank
      PROVE  /\ Whole(command.read[n], n) /\ n \notin command.gone
             /\ \E t \in Published :
                  tree[t].root = n /\ IsButFor(command.read[n], Restored(tree[t]), overtaken)
  BY <1>1, <1>4 DEF SInv, Reading
<1>5. \A t \in Published : tree[t].root \in Nodes /\ tree[t] \in TreeRecord
  BY <1>1 DEF Apart, Sound
<1>6. \A n \in Nodes : \/ n \in command.gone /\ stored'[n] = Blank
                       \/ n \notin command.gone /\ command.read[n] # Blank /\ stored'[n] = command.read[n]
                       \/ n \notin command.gone /\ command.read[n] = Blank /\ stored'[n] = stored[n]
  <2> SUFFICES ASSUME NEW n \in Nodes
               PROVE  \/ n \in command.gone /\ stored'[n] = Blank
                      \/ n \notin command.gone /\ command.read[n] # Blank /\ stored'[n] = command.read[n]
                      \/ n \notin command.gone /\ command.read[n] = Blank /\ stored'[n] = stored[n]
    OBVIOUS
  <2>1. stored'[n] = CASE n \in command.gone -> Blank
                       [] command.read[n] # Blank -> command.read[n]
                       [] OTHER -> stored[n]
    BY <1>3
  <2>2. n \in command.gone => command.read[n] = Blank
    BY <1>4
  <2> QED
    BY <2>1, <2>2
<1>7. Store' /\ Foreign'
  <2>1. stored' \in [Nodes -> TreeRecord]
    <3>1. \A n \in Nodes : stored'[n] \in TreeRecord
      BY <1>1, <1>6, BlankIsSound DEF Sound
    <3>2. stored' = [n \in Nodes |-> stored'[n]]
      BY <1>3
    <3> QED
      BY <3>1, <3>2
  <2>2. ASSUME NEW n \in Nodes, command.read[n] # Blank
        PROVE  /\ Whole(command.read[n], n)
               /\ \E t \in Published : tree[t].root = n /\ Live(command.read[n]) = Live(tree[t])
    BY <1>4, <1>5, <2>2, ButForMessages
  <2>3. \A n \in Nodes : \/ stored'[n] = stored[n] \/ stored'[n] = Blank
                         \/ /\ Whole(stored'[n], n)
                            /\ \E t \in Published : tree[t].root = n /\ Live(stored'[n]) = Live(tree[t])
    BY <1>6, <2>2
  <2>4. Store' /\ \A t \in Published, n \in Nodes :
                    tree[t].root # n => Live(tree[t]) \cap Live(stored'[n]) = {}
    BY <1>1, <2>1, <2>3, StoreFollows DEF SInv
  <2> QED
    BY <1>2, <2>4 DEF Foreign
<1>8. Covered'
  <2>1. ASSUME NEW n \in wiped' PROVE n \in Nodes /\ stored'[n] = Blank
    <3>1. n \in Nodes /\ (n \in command.gone \/ (n \in wiped /\ command.read[n] = Blank))
      BY <1>3
    <3> QED
      BY <1>6, <3>1 DEF SInv, Covered
  <2>2. ASSUME NEW t \in Published, tree[t].root \notin wiped'
        PROVE  /\ stored'[tree[t].root] # Blank
               /\ Live(tree[t]) \subseteq Live(stored'[tree[t].root])
               /\ IsButFor(stored'[tree[t].root], Restored(tree[t]), overtaken)
    <3> DEFINE n == tree[t].root
    <3>1. n \in Nodes /\ n \notin command.gone /\ (n \in wiped => command.read[n] # Blank)
      BY <1>3, <1>5, <2>2
    <3>2. CASE command.read[n] # Blank
      <4>1. PICK x \in Published :
              tree[x].root = n /\ IsButFor(command.read[n], Restored(tree[x]), overtaken)
        BY <1>4, <3>1, <3>2
      <4>2. x = t
        BY <1>1, <4>1 DEF Apart
      <4> HIDE DEF n
      <4>3. stored'[n] = command.read[n]
        BY <1>6, <3>1, <3>2
      <4>4. Live(command.read[n]) = Live(tree[t])
        BY <1>5, <4>1, <4>2, ButForMessages
      <4> QED
        BY <3>2, <4>1, <4>2, <4>3, <4>4 DEF n
    <3>3. CASE command.read[n] = Blank
      <4> HIDE DEF n
      <4>1. stored'[n] = stored[n] /\ n \notin wiped
        BY <1>6, <3>1, <3>3
      <4>2. n \notin Due
        BY <1>1, <3>1, <3>3 DEF Due
      <4> QED
        BY <4>1, <4>2 DEF SInv, Covered, n
    <3> QED
      BY <3>2, <3>3
  <2> QED
    BY <1>1, <1>2, <2>1, <2>2 DEF Covered
<1>9. Accounted'
  <2> SUFFICES ASSUME NEW n \in Nodes, stored'[n] # Blank
               PROVE  \E t \in Published : tree[t].root = n
    BY <1>2 DEF Accounted, StoredRoots
  <2>1. CASE command.read[n] # Blank
    BY <1>4, <2>1
  <2>2. CASE command.read[n] = Blank
    BY <1>6, <2>2 DEF SInv, Accounted, StoredRoots, Removing
  <2> QED
    BY <2>1, <2>2
<1>10. TInv'
  BY <1>1, TInvStutters
<1> QED
  BY <1>1, <1>2, <1>7, <1>8, <1>9, <1>10 DEF SInv, Reading

--------------------------------------------------------------------------------
(* Restarts *)

\* An order of a finite set is a line of its members.
LEMMA SomeOrder ==
  ASSUME NEW S, IsFiniteSet(S), NEW s \in SetToSeqs(S)
  PROVE  s \in Seq(S) /\ ToSet(s) = S
<1> DEFINE k == Cardinality(S)
<1>1. k \in Nat
  BY FS_CardinalityType
<1>2. s \in [1 .. k -> S] /\ \A i, j \in 1 .. k : i # j => s[i] # s[j]
  BY DEF SetToSeqs
<1>3. s \in Injection(1 .. k, S)
  BY <1>2 DEF Injection, IsInjective
<1>4. IsFiniteSet(1 .. k) /\ Cardinality(1 .. k) = k
  <2>1. IsFiniteSet(1 .. k) /\ Cardinality(1 .. k) = IF 1 > k THEN 0 ELSE k - 1 + 1
    BY <1>1, FS_Interval
  <2> QED
    BY <1>1, <2>1
<1>5. s \in Surjection(1 .. k, S)
  BY <1>3, <1>4, FS_Injection
<1> HIDE DEF k
<1>6. \A x \in S : \E i \in 1 .. k : s[i] = x
  BY <1>5 DEF Surjection
<1>7. s \in Seq(S) /\ DOMAIN s = 1 .. k
  BY <1>1, <1>2
<1> QED
  BY <1>2, <1>6, <1>7 DEF ToSet

\* A snapshot has no claim, and nothing of it waits or runs.
LEMMA WholeIsOver ==
  ASSUME NEW s, NEW n, Whole(s, n)
  PROVE  s.active = NoClaim /\ \A m \in Nodes : s.state[m] \notin Runnable
<1>1. s \in TreeRecord /\ Restored(s) = s
  BY DEF Whole, Sound
<1>2. /\ Restored(s).active = NoClaim
      /\ Restored(s).state = [m \in Nodes |-> IF s.state[m] \in Runnable THEN "error" ELSE s.state[m]]
  BY <1>1, RestoredValue
<1> QED
  BY <1>1, <1>2 DEF Runnable

\* The trees of the snapshots are sound, apart and indexed, and are what is stored.
LEMMA RestartedSaved ==
  ASSUME SInv, RestartSaved
  PROVE  SInv'
<1> DEFINE roots == StoredRoots
<1>1. PICK home \in [roots -> TreeIds] :
        /\ IsInjective(home)
        /\ tree' = [t \in TreeIds |->
             IF \E n \in roots : home[n] = t THEN stored[CHOOSE n \in roots : home[n] = t] ELSE Blank]
        /\ trees' \in SetToSeqs({home[n] : n \in roots})
  BY DEF RestartSaved, StoredRoots
<1>2. /\ index' = [r \in Refs |->
           IF \E t \in TreeIds : r \in Live(tree'[t]) THEN CHOOSE t \in TreeIds : r \in Live(tree'[t]) ELSE NoTree]
      /\ slot' = [c \in Claims |-> NoSlot]
      /\ command' = NoCommand /\ wiped' = {} /\ stored' = stored
  BY DEF RestartSaved
<1>3. /\ IsFiniteSet(roots) /\ roots \subseteq Nodes /\ stored \in [Nodes -> TreeRecord]
      /\ \A n \in roots : Whole(stored[n], n) /\ stored[n] # Blank
      /\ \A n \in Nodes \ roots : stored[n] = Blank
      /\ \A m, n \in Nodes : m # n => Live(stored[m]) \cap Live(stored[n]) = {}
  BY DEF SInv, Store, StoredRoots
<1> HIDE DEF roots
<1> DEFINE homes == {home[n] : n \in roots}
<1>4. /\ homes \subseteq TreeIds
      /\ \A m, n \in roots : home[m] = home[n] => m = n
  BY <1>1 DEF IsInjective
<1>5. IsFiniteSet(homes)
  <2>1. home \in Surjection(roots, homes)
    BY <1>1 DEF Surjection
  <2> HIDE DEF homes
  <2> QED
    BY <1>3, <2>1, FS_Surjection
<1>6. trees' \in Seq(TreeIds) /\ Published' = homes
  <2>1. trees' \in SetToSeqs(homes)
    BY <1>1
  <2> HIDE DEF homes
  <2>2. trees' \in Seq(homes) /\ ToSet(trees') = homes
    BY <1>5, <2>1, SomeOrder
  <2> QED
    BY <1>4, <2>2 DEF Published
<1>7. \A n \in roots : home[n] \in TreeIds /\ tree'[home[n]] = stored[n]
  <2> SUFFICES ASSUME NEW n \in roots PROVE home[n] \in TreeIds /\ tree'[home[n]] = stored[n]
    OBVIOUS
  <2>1. home[n] \in TreeIds /\ (CHOOSE m \in roots : home[m] = home[n]) = n
    BY <1>4
  <2> QED
    BY <1>1, <2>1
<1>8. \A t \in TreeIds \ homes : tree'[t] = Blank
  BY <1>1
<1>9. \A t \in homes : \E n \in roots : home[n] = t
  OBVIOUS
<1>10. tree' = [t \in TreeIds |-> tree'[t]]
  BY <1>1
<1> HIDE DEF homes
<1>11. ASSUME NEW t \in homes
       PROVE  \E n \in roots : /\ home[n] = t /\ tree'[t] = stored[n] /\ Whole(tree'[t], n)
                               /\ tree'[t].root = n /\ n \in Nodes
  BY <1>3, <1>7, <1>9 DEF Whole
<1>12. \A t \in TreeIds : /\ Sound(tree'[t]) /\ tree'[t].active = NoClaim
                          /\ \A n \in Nodes : tree'[t].state[n] \notin Runnable
  <2> SUFFICES ASSUME NEW t \in TreeIds
               PROVE  /\ Sound(tree'[t]) /\ tree'[t].active = NoClaim
                      /\ \A n \in Nodes : tree'[t].state[n] \notin Runnable
    OBVIOUS
  <2>1. CASE t \in homes
    BY <1>11, <2>1, WholeIsOver DEF Whole
  <2>2. CASE t \notin homes
    BY <1>8, <2>2, BlankIsSound DEF Blank, Runnable
  <2> QED
    BY <2>1, <2>2
<1>13. \A t, u \in TreeIds : t # u => Live(tree'[t]) \cap Live(tree'[u]) = {}
  <2> SUFFICES ASSUME NEW t \in TreeIds, NEW u \in TreeIds, t # u
               PROVE  Live(tree'[t]) \cap Live(tree'[u]) = {}
    OBVIOUS
  <2>1. CASE t \in homes /\ u \in homes
    <3>1. PICK m \in roots : home[m] = t /\ tree'[t] = stored[m] /\ m \in Nodes
      BY <1>11, <2>1
    <3>2. PICK n \in roots : home[n] = u /\ tree'[u] = stored[n] /\ n \in Nodes
      BY <1>11, <2>1
    <3> QED
      BY <1>3, <3>1, <3>2
  <2>2. CASE t \notin homes \/ u \notin homes
    BY <1>8, <2>2, BlankIsSound
  <2> QED
    BY <2>1, <2>2
<1>14. Bodies'
  <2>1. \A t \in TreeIds : tree'[t] \in TreeRecord
    BY <1>12 DEF Sound
  <2>2. tree' \in [TreeIds -> TreeRecord]
    BY <1>10, <2>1
  <2>3. Drained(Blank)
    BY DEF Drained, Blank, WithStates, Runnable
  <2> QED
    BY <1>6, <1>8, <1>12, <2>2, <2>3 DEF Bodies
<1>15. Places'
  <2>1. index' \in [Refs -> TreeIds \cup {NoTree}]
    BY <1>2
  <2>2. ASSUME NEW r \in Refs, NEW t \in TreeIds
        PROVE  index'[r] = t <=> t \in Published' /\ r \in Live(tree'[t])
    <3>1. r \in Live(tree'[t]) => t \in homes
      BY <1>8, BlankIsSound
    <3>2. CASE \E u \in TreeIds : r \in Live(tree'[u])
      <4>1. PICK u \in TreeIds : r \in Live(tree'[u])
        BY <3>2
      <4>2. \A x \in TreeIds : r \in Live(tree'[x]) <=> x = u
        BY <1>13, <4>1
      <4>3. index'[r] = CHOOSE x \in TreeIds : r \in Live(tree'[x])
        BY <1>2, <3>2
      <4>4. index'[r] = u
        BY <4>2, <4>3
      <4> QED
        BY <1>6, <3>1, <4>2, <4>4
    <3>3. CASE ~\E u \in TreeIds : r \in Live(tree'[u])
      <4>1. index'[r] = NoTree
        BY <1>2, <3>3
      <4> QED
        BY <3>3, <4>1, TreesAssumption
    <3> QED
      BY <3>2, <3>3
  <2>3. \A t \in Published' : Hangs(tree'[t])
    BY <1>6, <1>11 DEF Whole
  <2> QED
    BY <1>6, <2>1, <2>2, <2>3 DEF Places, IndexMatches
<1>16. Slots' /\ Turns'
  <2>1. slot' \in [Claims -> SlotRecord] /\ \A c \in Claims : slot'[c].phase = "none"
    BY <1>2 DEF NoSlot, SlotRecord, Phases
  <2>2. ClaimsAreExecuted'
    BY <1>12, <2>1 DEF ClaimsAreExecuted
  <2>3. \A t \in TreeIds, n \in Nodes : tree'[t].state[n] # "progress"
    BY <1>12 DEF Runnable
  <2> QED
    BY <2>1, <2>2, <2>3 DEF Slots, Turns
<1>17. ~Busy' /\ Due' = {} /\ Removing' = {}
  BY <1>2 DEF Busy, NoCommand, Due, Removing
<1>18. Store'
  BY <1>2 DEF SInv, Store, StoredRoots
<1>19. Covered'
  <2>1. ASSUME NEW t \in homes
        PROVE  /\ stored[tree'[t].root] # Blank
               /\ Live(tree'[t]) \subseteq Live(stored[tree'[t].root])
               /\ IsButFor(stored[tree'[t].root], Restored(tree'[t]), overtaken')
    <3>1. /\ stored[tree'[t].root] = tree'[t] /\ Restored(tree'[t]) = tree'[t]
          /\ stored[tree'[t].root] # Blank
      BY <1>3, <1>11 DEF Whole
    <3> QED
      BY <3>1, ButForNone
  <2> QED
    BY <1>2, <1>6, <1>17, <2>1 DEF Covered
<1>20. Accounted'
  <2> SUFFICES ASSUME NEW n \in roots PROVE \E t \in homes : tree'[t].root = n
    BY <1>2, <1>6 DEF Accounted, StoredRoots, roots
  <2>1. home[n] \in homes /\ tree'[home[n]] = stored[n] /\ stored[n].root = n
    BY <1>3, <1>7 DEF Whole, homes
  <2> QED
    BY <2>1
<1>21. Foreign'
  <2> SUFFICES ASSUME NEW t \in homes, NEW m \in Nodes, tree'[t].root # m
               PROVE  Live(tree'[t]) \cap Live(stored[m]) = {}
    BY <1>2, <1>6 DEF Foreign
  <2>1. PICK n \in roots : tree'[t] = stored[n] /\ tree'[t].root = n /\ n \in Nodes
    BY <1>11
  <2> QED
    BY <1>3, <2>1
<1> QED
  BY <1>2, <1>14, <1>15, <1>16, <1>17, <1>18, <1>19, <1>20, <1>21 DEF SInv, TInv, Reading

--------------------------------------------------------------------------------
(* Safety of the snapshots *)

\* The invariant holds at the start.
LEMMA SInvAtFirst == SavedInit => SInv
<1> SUFFICES ASSUME SavedInit PROVE SInv
  OBVIOUS
<1>1. TInv /\ Published = {}
  BY TInvAtFirst, NobodyWaits DEF SavedInit, Init, Published
<1>2. /\ ~Busy /\ command = NoCommand /\ \A n \in Nodes : stored[n] = Blank
      /\ stored \in [Nodes -> TreeRecord]
  BY BlankIsSound DEF SavedInit, Busy, NoCommand, Sound
<1>3. StoredRoots = {}
  BY <1>2 DEF StoredRoots
<1>4. Store
  BY <1>2, <1>3, FS_EmptySet, BlankIsSound DEF Store
<1>5. wiped = {}
  BY DEF SavedInit
<1> QED
  BY <1>1, <1>2, <1>3, <1>4, <1>5 DEF SInv, Foreign, Covered, Accounted, Reading

\* Every step keeps it.
LEMMA SInvStep == SInv /\ [SavedNext]_savedVars => SInv'
<1> SUFFICES ASSUME SInv, [SavedNext]_savedVars PROVE SInv'
  OBVIOUS
<1>1. CASE UNCHANGED savedVars
  <2>1. UNCHANGED <<vars, stored, command, overtaken, wiped>> /\ UNCHANGED <<tree, trees>>
    BY <1>1 DEF savedVars, vars, histories
  <2>2. TInv'
    BY <2>1, TInvStutters DEF SInv
  <2> QED
    BY <2>1, <2>2 DEF SInv, Store, StoredRoots, Foreign, Covered, Accounted, Reading, Busy, Due, Removing,
                      Published
<1>2. CASE SavedNext
  BY <1>2, AdmissionsSaved, ReportsSaved, ProcessorsMove, CommandsBegin, TreeRead, CommandSaved,
     RestartedSaved DEF SavedNext
<1> QED
  BY <1>1, <1>2

\* What is stored is sound and follows the trees, whatever a command still has to save,
\* whichever commands raise and whatever a clear that raises has wiped.
THEOREM SnapshotsInvariant == SavedSpec => []SInv
BY SInvAtFirst, SInvStep, PTL DEF SavedSpec

\* Whenever the process ends, it has stored trees that hang together and share no
\* message; between commands they are all the trees there are but those that a raising
\* clear of the chat has wiped without having come to them, with the same messages, and
\* every node as it is but for the last reports that the save of a stop or clear of
\* another reply has overtaken, which the next save of the tree makes good.
THEOREM RestartsFindTheTrees == SavedSpec => []RestartFindsTheTrees
<1>1. SInv => RestartFindsTheTrees
  <2> SUFFICES ASSUME SInv PROVE RestartFindsTheTrees
    OBVIOUS
  <2>1. StoredTreesAreTrees
    <3>1. \A n \in Nodes : stored[n] # Blank => Whole(stored[n], n)
      BY DEF SInv, Store, StoredRoots
    <3> QED
      BY <3>1 DEF StoredTreesAreTrees, Whole, Hangs, SInv, Store
  <2>2. ASSUME command = NoCommand
        PROVE  /\ {n \in Nodes : stored[n] # Blank} = {tree[t].root : t \in Published} \ wiped
               /\ \A t \in Published : tree[t].root \notin wiped =>
                    IsButFor(stored[tree[t].root], Restored(tree[t]), overtaken)
    <3>1. Due = {} /\ Removing = {} /\ Apart
      BY <2>2, Idle, RootsApart DEF SInv, Busy, NoCommand
    <3>2. \A t \in Published : tree[t].root \in Nodes
      BY <3>1 DEF Apart
    <3>3. \A n \in Nodes : stored[n] # Blank =>
            n \notin wiped /\ \E t \in Published : tree[t].root = n
      BY <3>1 DEF SInv, Accounted, StoredRoots, Covered
    <3>4. \A t \in Published : tree[t].root \notin wiped =>
            /\ stored[tree[t].root] # Blank
            /\ IsButFor(stored[tree[t].root], Restored(tree[t]), overtaken)
      BY <3>1 DEF SInv, Covered
    <3> QED
      BY <3>2, <3>3, <3>4
  <2> QED
    BY <2>1, <2>2 DEF RestartFindsTheTrees, Snapshot
<1> QED
  BY <1>1, SnapshotsInvariant, PTL
================================================================================
