---------------------------- MODULE ConversationTrees ----------------------------
(* Conversation trees at work: the manager that locates aggregates, the repository *)
(* that indexes them and the processor that attaches one task to each claim. The   *)
(* manager's lock and the trees' locks are never held across a suspension, so a    *)
(* critical section is one step. What suspends is a task between the steps of its  *)
(* life: scheduled, announcing itself, running the node, recovering.               *)
EXTENDS MessageTree

CONSTANTS TreeIds, NoTree   \* bound: so many aggregates are alive at once

ASSUME TreesAssumption ==
  /\ NoNode \notin Nodes /\ NoRef \notin Refs
  /\ NoClaim \notin Claims /\ NoTree \notin TreeIds

VARIABLES
  tree,                     \* the aggregates, published or not
  trees,                    \* TreeRepository._trees, in insertion order
  index,                    \* TreeRepository._reference_to_tree
  slot                      \* TreeQueueProcessor._tasks

vars == <<tree, trees, index, slot>>

\* where a claim's task is
Phases == {"none",          \* no task slot
           "scheduled",     \* created by an admission, its body not entered
           "successor",     \* created by the end of another claim, likewise
           "announcing",    \* in the callbacks before the runner
           "running",       \* in the node runner, nothing terminal reported yet
           "settled",       \* in the node runner, after a terminal report
           "ending"}        \* only the failure callback or a recovery task remains

NoSlot == [tree |-> NoTree, phase |-> "none", requested |-> FALSE]

Init ==
  /\ tree = [t \in TreeIds |-> Blank]
  /\ trees = <<>>
  /\ index = [r \in Refs |-> NoTree]
  /\ slot = [c \in Claims |-> NoSlot]

Published == ToSet(trees)

\* fresh ids: nothing refers to the id of a claim once its task has ended
FreeClaims == {c \in Claims : slot[c].phase = "none" /\ \A t \in TreeIds : tree[t].active # c}
FreeTrees == {t \in TreeIds \ Published : tree[t] = Blank}

\* an unpublished aggregate that no task works on is unreachable
Kept(after) == IF after.active = NoClaim THEN Blank ELSE after

-----------------------------------------------------------------------------
(* Admission *)

\* a task for claim c, if the operation that led to tree "after" has made one
Launched(slots, t, after, c, phase) ==
  IF after.active = c
    THEN [slots EXCEPT ![c] = [tree |-> t, phase |-> phase, requested |-> FALSE]]
    ELSE slots

\* a busy tree gives out no claim
Offered(t) == IF tree[t].active = NoClaim THEN FreeClaims ELSE {NoClaim}

AdmitRoot(n) ==
  /\ index[Prompt(n)] = NoTree /\ index[Status(n)] = NoTree
  /\ \E t \in FreeTrees, c \in FreeClaims :
       /\ tree' = [tree EXCEPT ![t] = Admitted(Seedling(n), n, c)]
       /\ trees' = Append(trees, t)
       /\ index' = [index EXCEPT ![Prompt(n)] = t, ![Status(n)] = t]
       /\ slot' = Launched(slot, t, tree'[t], c, "scheduled")

\* a reply to a reference that is gone is rejected and changes nothing
AdmitReply(n, r) ==
  /\ index[Prompt(n)] = NoTree /\ index[Status(n)] = NoTree
  /\ \E t \in Published : \E c \in Offered(t) :
       /\ index[r] = t /\ r \in Live(tree[t])
       /\ tree' = [tree EXCEPT ![t] = Grown(@, n, r, c)]
       /\ index' = [index EXCEPT ![Prompt(n)] = t, ![Status(n)] = t]
       /\ slot' = Launched(slot, t, tree'[t], c, "scheduled")
  /\ UNCHANGED trees

\* the message is delivered again: whatever its tree decides, nothing is launched
AdmitAgain(n) ==
  /\ index[Prompt(n)] # NoTree
  /\ LET t == index[Prompt(n)]
     IN  \E c \in Offered(t) : tree' = [tree EXCEPT ![t] = Admitted(@, n, c)]
  /\ UNCHANGED <<trees, index, slot>>

Admit(n) == AdmitRoot(n) \/ (\E r \in Refs : AdmitReply(n, r)) \/ AdmitAgain(n)

-----------------------------------------------------------------------------
(* The life of a claim's task *)

Moves(c, from, to) ==
  /\ slot[c].phase \in from
  /\ slot' = [slot EXCEPT ![c].phase = to]

\* A task cancelled before its first step never enters its body.
Drop(c) ==
  /\ slot[c].requested /\ Moves(c, {"scheduled", "successor"}, "ending")
  /\ UNCHANGED <<tree, trees, index>>

Enter(c) ==
  /\ ~slot[c].requested
  /\ \/ Moves(c, {"scheduled"}, "running")
     \/ Moves(c, {"successor"}, "announcing")
  /\ UNCHANGED <<tree, trees, index>>

\* A cancellation the callbacks absorbed is noticed before the runner starts.
Announced(c) ==
  /\ ~slot[c].requested /\ Moves(c, {"announcing"}, "running")
  /\ UNCHANGED <<tree, trees, index>>

\* Mutant of Finish: the successor is not launched.
FinishAlone(c) ==
  LET t == slot[c].tree
  IN  /\ \E next \in FreeClaims \cup {c} : tree' = [tree EXCEPT ![t] =
           IF t \in Published THEN Finished(@, c, next) ELSE Blank]
      /\ slot' = [slot EXCEPT ![c] = NoSlot]
      /\ UNCHANGED <<trees, index>>

\* _finish_claim, then the slot is popped; a tree that is no longer published gets
\* no successor task, and nobody refers to it any more
Finish(c) ==
  LET t == slot[c].tree
  IN  /\ \E next \in FreeClaims \cup {c} :
           /\ tree' = [tree EXCEPT ![t] =
                         IF t \in Published THEN Finished(@, c, next) ELSE Blank]
           /\ slot' = Launched([slot EXCEPT ![c] = NoSlot], t, tree'[t], next, "successor")
      /\ UNCHANGED <<trees, index>>

\* the tree published under the identity in the claim: a later one, perhaps
Addressed(c) ==
  {t \in Published : tree[t].root = tree[slot[c].tree].root}

RecordSession(c) ==
  /\ slot[c].phase \in {"running", "settled"}
  /\ tree' = [t \in TreeIds |-> IF t \in Addressed(c) THEN Recorded(tree[t], c) ELSE tree[t]]
  /\ UNCHANGED <<trees, index, slot>>

CompleteClaim(c) ==
  /\ Moves(c, {"running", "settled"}, "settled")
  /\ \E captured \in BOOLEAN :
       tree' = [t \in TreeIds |->
                  IF t \in Addressed(c) THEN Completed(tree[t], c, captured) ELSE tree[t]]
  /\ UNCHANGED <<trees, index>>

\* A failure the client may still recover from, or the terminal one.
FailClaim(c) ==
  /\ \E to \in {"running", "settled"} :
       /\ slot[c].phase = "settled" => to = "settled"
       /\ Moves(c, {"running", "settled"}, to)
  /\ \E propagate \in BOOLEAN :
       tree' = [t \in TreeIds |->
                  IF t \in Addressed(c) THEN Failed(tree[t], c, propagate) ELSE tree[t]]
  /\ UNCHANGED <<trees, index>>

\* process_node let an exception escape
RunnerRaises(c) ==
  /\ Moves(c, {"running", "settled"}, "ending")
  /\ tree' = [t \in TreeIds |->
                IF t \in Addressed(c) THEN Failed(tree[t], c, TRUE) ELSE tree[t]]
  /\ UNCHANGED <<trees, index>>

\* The task ends: the runner returned after a terminal report, a cancellation came
\* through, or its failure has been handled; or the recovery task stands in for it.
Ends(c) ==
  \/ slot[c].phase \in {"settled", "ending"}
  \/ slot[c].phase \in {"announcing", "running"} /\ slot[c].requested

End(c) == Ends(c) /\ Finish(c)

-----------------------------------------------------------------------------
(* Commands *)

\* TreeQueueProcessor.cancel
CancelTask(slots, c) ==
  IF c # NoClaim /\ slots[c].phase # "none" THEN [slots EXCEPT ![c].requested = TRUE]
  ELSE slots

CancelNode(r) ==
  /\ index[r] # NoTree /\ r \in Live(tree[index[r]])
  /\ LET t == index[r]
         n == Owner(r)
         mine == tree[t].active # NoClaim /\ tree[t].work = n
     IN  /\ tree' = [tree EXCEPT ![t] = CancelledNode(@, n)]
         /\ slot' = IF mine /\ ~Faceless(tree[t]) THEN CancelTask(slot, tree[t].active) ELSE slot
  /\ UNCHANGED <<trees, index>>

\* the trees a command that stops everything reaches, in their order, before the
\* first one that raises
Reached ==
  {trees[i] : i \in {j \in DOMAIN trees : \A k \in 1 .. j : ~Faceless(tree[trees[k]])}}

CancelTasks(slots, S) ==
  [c \in Claims |-> IF \E t \in S : tree[t].active = c THEN CancelTask(slots, c)[c] ELSE slots[c]]

\* what a stop makes of the trees
Stopped == [t \in TreeIds |-> IF t \in Reached THEN CancelledAll(tree[t]) ELSE tree[t]]

CancelAll ==
  /\ tree' = Stopped
  /\ slot' = CancelTasks(slot, Reached)
  /\ UNCHANGED <<trees, index>>

ClearScope ==
  /\ tree' = [t \in TreeIds |-> IF t \in Reached THEN Kept(Stopped[t]) ELSE tree[t]]
  /\ slot' = CancelTasks(slot, Reached)
  /\ trees' = Without(trees, Reached)
  /\ index' = [r \in Refs |-> IF index[r] \in Reached THEN NoTree ELSE index[r]]

\* Mutant of Unregistered: the statuses stay registered.
PromptsUnregistered(t, gone) ==
  [r \in Refs |-> IF index[r] = t /\ r \in gone /\ r[2] = "prompt" THEN NoTree ELSE index[r]]

\* unregister_references
Unregistered(t, gone) ==
  [r \in Refs |-> IF index[r] = t /\ r \in gone THEN NoTree ELSE index[r]]

RemoveSubtree(r) ==
  /\ index[r] # NoTree /\ r \in Live(tree[index[r]])
  /\ LET t == index[r]
         gone == ReplySubtree(tree[t], r)
         whole == Prompt(tree[t].root) \in gone
         after == Pruned(tree[t], r)
         mine == tree[t].active # NoClaim /\ tree[t].work \in Affected(tree[t], r)
     IN  /\ ~PruneRaises(tree[t], r)
         /\ tree' = [tree EXCEPT ![t] = IF whole THEN Kept(after) ELSE after]
         /\ trees' = IF whole THEN Without(trees, {t}) ELSE trees
         /\ index' = Unregistered(t, IF whole THEN Refs ELSE gone)
         /\ slot' = IF mine THEN CancelTask(slot, tree[t].active) ELSE slot

\* The removal raises midway; nothing is removed.
RemoveRaises(r) ==
  /\ index[r] # NoTree /\ r \in Live(tree[index[r]])
  /\ LET t == index[r]
     IN  /\ PruneRaises(tree[t], r)
         /\ \E N \in SUBSET Affected(tree[t], r) :
              /\ tree[t].work \in N
              /\ tree' = [tree EXCEPT ![t] = PrunedUpTo(@, r, N)]
  /\ UNCHANGED <<trees, index, slot>>

\* The process ends in order and starts again from the snapshots it has saved.
Restart ==
  /\ tree' = [t \in TreeIds |-> IF t \in Published THEN Restored(tree[t]) ELSE Blank]
  /\ slot' = [c \in Claims |-> NoSlot]
  /\ UNCHANGED <<trees, index>>

-----------------------------------------------------------------------------
Runner(c) == RecordSession(c) \/ CompleteClaim(c) \/ FailClaim(c) \/ RunnerRaises(c)

Task(c) == Drop(c) \/ Enter(c) \/ Announced(c) \/ Runner(c) \/ End(c)

Command ==
  \/ \E r \in Refs : CancelNode(r) \/ RemoveSubtree(r) \/ RemoveRaises(r)
  \/ CancelAll \/ ClearScope \/ Restart

Next ==
  \/ \E n \in Nodes : Admit(n)
  \/ \E c \in Claims : Task(c)
  \/ Command

Spec == Init /\ [][Next]_vars

\* Scheduled tasks run, callbacks and runners end, recovery tasks run: the event
\* loop's part, and the managed CLI's. No message and no command has to arrive.
FairSpec ==
  /\ Spec
  /\ \A c \in Claims : /\ WF_vars(Drop(c) \/ Enter(c) \/ Announced(c))
                       /\ WF_vars(CompleteClaim(c) /\ slot[c].phase = "running")
                       /\ WF_vars(End(c))

-----------------------------------------------------------------------------
(* Properties *)

TreeRecord ==
  [root : Nodes \cup {NoNode}, state : [Nodes -> States], parent : [Nodes -> Refs \cup {NoRef}],
   status : SUBSET Nodes, session : SUBSET Nodes, queue : Seq(Nodes),
   active : Claims \cup {NoClaim}, work : Nodes \cup {NoNode}, cancelled : BOOLEAN]

\* Aggregates, index and slots are well formed; no message queues twice, however
\* often it is delivered.
TypeOK ==
  /\ tree \in [TreeIds -> TreeRecord]
  /\ \A t \in TreeIds : IsInjective(tree[t].queue)
  /\ trees \in Seq(TreeIds)
  /\ index \in [Refs -> TreeIds \cup {NoTree}]
  /\ slot \in [Claims -> [tree : TreeIds \cup {NoTree}, phase : Phases, requested : BOOLEAN]]

\* Each claim an aggregate has given out is executed by exactly one task, which
\* knows whether it has been asked to stop; no task works for a claim that is over.
\* Claims are given out and attached to tasks in three places, by two owners.
ClaimsAreExecuted ==
  /\ \A t \in TreeIds : tree[t].active # NoClaim =>
       LET s == slot[tree[t].active]
       IN  s.phase # "none" /\ s.tree = t /\ s.requested = tree[t].cancelled
  /\ \A c \in Claims : slot[c].phase # "none" => tree[slot[c].tree].active = c

\* Nobody is stranded: a node that waits is in its tree's queue behind a claim that
\* is being executed, a node in progress is that claim's and its runner has not
\* reported yet, and nothing in the queue has lost its turn.
NobodyStranded ==
  \A t \in TreeIds :
    /\ WithStates(tree[t], {"pending"}) = ToSet(tree[t].queue)
    /\ tree[t].queue # <<>> => tree[t].active # NoClaim
    /\ \A n \in WithStates(tree[t], {"progress"}) :
         /\ tree[t].active # NoClaim /\ tree[t].work = n /\ ~tree[t].cancelled
         /\ slot[tree[t].active].phase \in {"scheduled", "successor", "announcing", "running"}

\* The repository and the aggregates agree about every message reference, so that a
\* reply or a command finds the one tree that holds it, and only while it does.
IndexMatches ==
  \A r \in Refs, t \in TreeIds :
    index[r] = t <=> t \in Published /\ r \in Live(tree[t])

\* The trees are well formed and found by exactly the messages they hold.
WellIndexed == TypeOK /\ IndexMatches

\* Every tree can be restored from its snapshot: replies hang on references that are
\* still there, down from the root. from_snapshot rejects any other tree as a whole.
Restorable ==
  \A t \in Published :
    /\ tree[t].root \in Members(tree[t]) /\ tree[t].parent[tree[t].root] = NoRef
    /\ \A n \in Members(tree[t]) \ {tree[t].root} : tree[t].parent[n] \in Live(tree[t])
    /\ Live(tree[t]) = ReplySubtree(tree[t], Prompt(tree[t].root))

\* "Removing a status preserves its prompt while invalidating that prompt's session":
\* no late report of the task that was answering gives it a session or a result.
StatuslessIsOver ==
  \A t \in TreeIds : \A n \in Members(tree[t]) \ tree[t].status :
    tree[t].state[n] = "error" /\ n \notin tree[t].session

\* "Atomically cancel every runnable node present at the transition" (cancel_all):
\* a global stop, whenever it comes, leaves nothing that waits, runs or will run.
StopReachesAll ==
  \A t \in Published :
    /\ WithStates(Stopped[t], Runnable) = {} /\ Stopped[t].queue = <<>>
    /\ tree[t].active # NoClaim => CancelTasks(slot, Reached)[tree[t].active].requested

\* The same, unless some tree's cancelled claim has lost its status meanwhile.
StopReachesFaces == (\A t \in Published : ~Faceless(tree[t])) => StopReachesAll

\* What a removal or a stop has reached stays over, and a stop reaches everything.
StoppedIsOver == StatuslessIsOver /\ StopReachesFaces

\* Each tree is a line that runs one node at a time, first come first served.
Line == INSTANCE SerialQueue WITH
  Lines <- TreeIds, Jobs <- Nodes, NoJob <- NoNode,
  waiting <- [t \in TreeIds |-> tree[t].queue], running <- [t \in TreeIds |-> tree[t].work]

SerialExecution == Line!Spec

\* Every admitted node gets a terminal state or is removed, and every task ends.
NodesSettle ==
  \A t \in TreeIds, n \in Nodes :
    (tree[t].state[n] \in Runnable) ~> (tree[t].state[n] \notin Runnable)

Began == {"announcing", "running", "settled", "ending"}
Waits == {"scheduled", "successor"}

TasksEnd ==
  \A c \in Claims : /\ (slot[c].phase \in Waits) ~> (slot[c].phase \notin Waits)
                    /\ (slot[c].phase \in Began) ~> (slot[c].phase \notin Began)

\* Nodes and the tasks that run them both come to an end.
WorkEnds == NodesSettle /\ TasksEnd

=============================================================================
