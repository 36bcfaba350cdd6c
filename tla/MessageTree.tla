------------------------------- MODULE MessageTree -------------------------------
(* One conversation tree as a value, and the complete operations of its aggregate *)
(* as operators from a tree to a tree. Each runs under the tree's lock and never  *)
(* suspends, so an operation is one step of whoever calls it. A node is in the    *)
(* tree when it has a state; it is a prompt, with the status message that answers *)
(* it for as long as that message has not been removed.                           *)
EXTENDS OrderedLines, SequencesExt

CONSTANTS
  Nodes,                    \* platform message ids of prompts
  Claims,                   \* claim ids
  NoNode, NoClaim, NoRef    \* None

States == {"none", "pending", "progress", "completed", "error"}
Runnable == {"pending", "progress"}

\* message references of a scope: prompts and the statuses that answer them
Refs == Nodes \X {"prompt", "status"}
Prompt(n) == <<n, "prompt">>
Status(n) == <<n, "status">>
Owner(r) == r[1]

\* no aggregate at all
Blank ==
  [root |-> NoNode, state |-> [n \in Nodes |-> "none"], parent |-> [n \in Nodes |-> NoRef],
   status |-> {}, session |-> {}, queue |-> <<>>,
   active |-> NoClaim, work |-> NoNode, cancelled |-> FALSE]

\* a new root that waits for its first operation
Seedling(n) ==
  [Blank EXCEPT !.root = n, !.state[n] = "pending", !.status = {n}]

-----------------------------------------------------------------------------
(* The graph *)

Members(t) == {n \in Nodes : t.state[n] # "none"}
WithStates(t, S) == {n \in Nodes : t.state[n] \in S}

\* resolve_reference
Live(t) ==
  LET here == Members(t)
  IN  {r \in Refs : Owner(r) \in here /\ (r[2] = "status" => Owner(r) \in t.status)}

\* the logical descendants of n without n, along children_ids
Heirs(t, n) ==
  LET replies == {m \in Members(t) : t.parent[m] # NoRef}
      closed == {S \in SUBSET Nodes :
                   n \in S /\ \A m \in replies \ S : Owner(t.parent[m]) \notin S}
  IN  {m \in replies \ {n} : \A S \in closed : m \in S}

\* the reference that the live reference r hangs on
Above(t, r) == IF r[2] = "status" THEN Prompt(Owner(r)) ELSE t.parent[Owner(r)]

\* Mutant of ReplySubtree: only the direct replies.
DirectReplies(t, r) ==
  {r} \cup {s \in Live(t) : Above(t, s) = r}

\* get_reference_descendants: the literal reply subtree of a live reference
ReplySubtree(t, r) ==
  LET live == Live(t)
      closed == {S \in SUBSET live : r \in S /\ \A s \in live \ S : Above(t, s) \notin S}
  IN  {s \in live : \A S \in closed : s \in S}

-----------------------------------------------------------------------------
(* Admission and completion *)

Claimed(t, n, c) ==
  [t EXCEPT !.state[n] = "progress", !.active = c, !.work = n, !.cancelled = FALSE]

\* Mutant of Admitted: the queue forgets the order.
AdmittedFirst(t, n, c) ==
  CASE t.state[n] # "pending" -> t
    [] t.state[n] = "pending" /\ t.active = NoClaim -> Claimed(t, n, c)
    [] OTHER -> [t EXCEPT !.queue = IF n \in ToSet(@) THEN @ ELSE <<n>> \o @]

\* enqueue_or_claim: claim for c, queue, or reject as a duplicate
Admitted(t, n, c) ==
  CASE t.state[n] # "pending" -> t
    [] t.state[n] = "pending" /\ t.active = NoClaim -> Claimed(t, n, c)
    [] OTHER -> [t EXCEPT !.queue = IF n \in ToSet(@) THEN @ ELSE Append(@, n)]

\* add_and_enqueue below the live reference r
Grown(t, n, r, c) ==
  Admitted([t EXCEPT !.state[n] = "pending", !.parent[n] = r, !.status = @ \cup {n}], n, c)

Released(t) == [t EXCEPT !.active = NoClaim, !.work = NoNode, !.cancelled = FALSE]

\* finish_and_claim_next: release c and claim the first pending entry for next; what
\* is not pending any more is popped on the way
Finished(t, c, next) ==
  LET ready == {i \in DOMAIN t.queue : t.state[t.queue[i]] = "pending"}
      first == Min(ready)
  IN  CASE t.active # c -> t
        [] t.active = c /\ ready = {} -> [Released(t) EXCEPT !.queue = <<>>]
        [] OTHER -> Claimed([t EXCEPT !.queue = SubSeq(@, first + 1, Len(@))],
                            t.queue[first], next)

\* the guard of every write of a runner
Owns(t, c) == t.active = c /\ ~t.cancelled

\* record_session
Recorded(t, c) ==
  IF Owns(t, c) /\ t.state[t.work] = "progress"
    THEN [t EXCEPT !.session = @ \cup {t.work}] ELSE t

\* complete_claim, with the runner's session if it captured one
Completed(t, c, captured) ==
  IF Owns(t, c) /\ t.state[t.work] \in {"progress", "error"}
    THEN [t EXCEPT !.state[t.work] = "completed",
                   !.session = IF captured THEN @ \cup {t.work} ELSE @]
    ELSE t

Erred(t, S) == [t EXCEPT !.state = [n \in Nodes |-> IF n \in S THEN "error" ELSE @[n]]]

\* Mutant of Failed: the failed heirs keep their places in the queue.
FailedInQueue(t, c, propagate) ==
  LET heirs == IF propagate THEN Heirs(t, t.work) \cap WithStates(t, {"pending"}) ELSE {}
  IN  IF Owns(t, c) /\ t.state[t.work] \notin {"none", "completed"}
        THEN Erred(t, {t.work} \cup heirs) ELSE t

\* fail_claim
Failed(t, c, propagate) ==
  LET heirs == IF propagate THEN Heirs(t, t.work) \cap WithStates(t, {"pending"}) ELSE {}
  IN  IF Owns(t, c) /\ t.state[t.work] \notin {"none", "completed"}
        THEN [Erred(t, {t.work} \cup heirs) EXCEPT
                !.queue = Without(@, heirs)]
        ELSE t

-----------------------------------------------------------------------------
(* Cancellation and removal *)

\* A claim whose status was removed while its task winds down has no message to
\* show: asking for its UI target raises ValueError.
Faceless(t) ==
  t.active # NoClaim /\ t.state[t.work] = "error" /\ t.work \notin t.status

\* the active claim is asked to stop if it works on one of N
Asked(t, N) == [t EXCEPT !.cancelled = @ \/ (t.active # NoClaim /\ t.work \in N)]

\* N is dequeued whatever its states, and fails where it was runnable
Struck(t, N) ==
  [Erred(t, N \cap WithStates(t, Runnable)) EXCEPT
     !.queue = Without(@, N)]

\* cancel_node
CancelledNode(t, n) == Struck(Asked(t, {n}), {n})

\* cancel_all, where it does not raise: every runnable node, queued or not
CancelledAll(t) ==
  [Erred(t, WithStates(t, Runnable)) EXCEPT !.queue = <<>>, !.cancelled = t.active # NoClaim]

\* remove_nodes
Detached(t, N) ==
  [t EXCEPT !.state = [n \in Nodes |-> IF n \in N THEN "none" ELSE @[n]],
            !.parent = [n \in Nodes |-> IF n \in N THEN NoRef ELSE @[n]],
            !.status = @ \ N, !.session = @ \ N]

\* Mutant of StatusCleared: the prompt stays resumable.
StatusClearedResumable(t, n) == [t EXCEPT !.state[n] = "error", !.status = @ \ {n}]

\* clear_status
StatusCleared(t, n) ==
  [t EXCEPT !.state[n] = "error", !.status = @ \ {n}, !.session = @ \ {n}]

\* the nodes a removal of the live reference r takes with it
RemovedNodes(t, r) ==
  LET gone == ReplySubtree(t, r) IN {n \in Nodes : Prompt(n) \in gone}

\* what a removal of the live reference r cancels
Affected(t, r) == RemovedNodes(t, r) \cup {Owner(r)}

\* remove_message_subtree
Pruned(t, r) ==
  LET removed == RemovedNodes(t, r)
      affected == removed \cup {Owner(r)}
      struck == Struck(Asked(t, affected), affected)
      cleared == IF r[2] = "status" THEN StatusCleared(struck, Owner(r)) ELSE struck
  IN  Detached(cleared, removed)

\* It raises when it comes to a faceless claim's node, after those in N.
PruneRaises(t, r) == Faceless(t) /\ t.work \in Affected(t, r)
PrunedUpTo(t, r, N) == Struck(Asked(t, Affected(t, r)), N)

\* from_snapshot: what was running or waiting was interrupted
Restored(t) ==
  [Released(Erred(t, WithStates(t, Runnable))) EXCEPT !.queue = <<>>]

=============================================================================
