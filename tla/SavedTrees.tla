-------------------------------- MODULE SavedTrees --------------------------------
(* Conversation trees and the session store's snapshots of them: what a restart     *)
(* would make of the trees. The workflow's state lock is held by an admission, for  *)
(* one step, and by a command from its transition to its save; the reports of a     *)
(* runner are saved under no lock, in the step that makes them. A command reads the *)
(* trees it has changed after it has drained their tasks, but its result comes back *)
(* by way of a task of its own, so that others may run between the reading and the  *)
(* save. How the store reaches the disk is SessionPersistence.                      *)
EXTENDS ConversationTrees

VARIABLES
  stored,                   \* the snapshot of the tree of each root, Blank if there is none
  command,                  \* the command that holds the state lock
  overtaken,                \* history: the nodes whose last report a save overwrites
  wiped                     \* history: the roots of trees whose snapshots a clear has wiped
                            \* though it has not come to the trees

histories == <<overtaken, wiped>>
savedVars == <<vars, stored, command, histories>>

NoCommand == [kind |-> "none"]

SavedInit ==
  /\ Init
  /\ stored = [n \in Nodes |-> Blank]
  /\ command = NoCommand
  /\ overtaken = {} /\ wiped = {}

\* Mutant of Unlocked: nobody waits for the state lock.
UnlockedAnyway == TRUE

Unlocked == command = NoCommand

\* A snapshot is kept as what its restoration is.
Snapshot(t) == Restored(tree[t])

\* The tree of a root.
TreeOf(n) == tree[CHOOSE t \in Published : tree[t].root = n]

\* The roots in S get their snapshots, which are their trees' last states.
Saves(S) ==
  /\ stored' = [n \in Nodes |-> IF n \in S THEN Restored(TreeOf(n)') ELSE stored[n]]
  /\ wiped' = wiped \ S

\* What was lost of their nodes is stored again.
Heals(S) == overtaken' = overtaken \ UNION {Members(TreeOf(n)') : n \in S}

-----------------------------------------------------------------------------------
(* Admissions and reports *)

\* Admission and the save of its snapshot are one section.
AdmitSaved(n) ==
  /\ Unlocked
  /\ \/ /\ AdmitRoot(n) \/ \E r \in Refs : AdmitReply(n, r)
        /\ LET root == tree'[index'[Prompt(n)]].root IN Saves({root}) /\ Heals({root})
     \/ AdmitAgain(n) /\ UNCHANGED <<stored, histories>>
  /\ UNCHANGED command

\* The root whose snapshot a report returns, if its claim is still the tree's and its
\* node in one of the states.
Told(c, states) ==
  {tree[t].root : t \in {u \in Addressed(c) : Owns(tree[u], c) /\ tree[u].state[tree[u].work] \in states}}

\* The save of a command for one reply will overwrite that of the roots it has read.
Overwrites(n) == command # NoCommand /\ command.kind = "reply" /\ command.read[n] # Blank

Reports(S) ==
  /\ Saves(S)
  /\ IF \E n \in S : Overwrites(n) THEN overtaken' = overtaken \cup {TreeOf(n).work : n \in S} ELSE Heals(S)

ReportSaved(c) ==
  /\ \/ RecordSession(c) /\ Reports(Told(c, {"progress"}))
     \/ CompleteClaim(c) /\ Reports(Told(c, {"progress", "error"}))
     \/ (FailClaim(c) \/ RunnerRaises(c)) /\ Reports(Told(c, States \ {"none"}))
  /\ UNCHANGED command

\* What the processor does is not saved: the next node is running now and not waiting.
ProcessorMoves(c) ==
  /\ Drop(c) \/ Enter(c) \/ Announced(c) \/ End(c)
  /\ UNCHANGED <<stored, command, histories>>

-----------------------------------------------------------------------------------
(* Commands *)

\* A command of a kind reads the trees in S, and has the snapshots of the roots in gone removed.
Begins(kind, S, gone) ==
  /\ Unlocked
  /\ command' = [kind |-> kind, unread |-> S, read |-> [n \in Nodes |-> Blank], gone |-> gone]
  /\ UNCHANGED <<stored, histories>>

\* A stop, or a clear of one reply, that raises saves nothing of what it has changed.
SavesNothing == Unlocked /\ UNCHANGED <<stored, command, histories>>

StopReplySaved(r) ==
  /\ CancelNode(r)
  /\ LET t == tree[index[r]]
     IN  IF Faceless(t) /\ t.work = Owner(r) THEN SavesNothing ELSE Begins("reply", {index[r]}, {})

StopAllSaved ==
  CancelAll /\ IF Reached = Published THEN Begins("all", Published, {}) ELSE SavesNothing

ClearReplySaved(r) ==
  \/ RemoveRaises(r) /\ SavesNothing
  \/ /\ RemoveSubtree(r)
     /\ \/ index[r] \in ToSet(trees') /\ Begins("reply", {index[r]}, {})
        \/ index[r] \notin ToSet(trees') /\ Begins("reply", {}, {tree[index[r]].root})

\* The store is cleared of the whole chat even when the trees' clear raises midway.
ClearChatSaved == ClearScope /\ Begins("clear", {}, Nodes)

\* The tasks are drained, or have taken too long; a tree is read under the manager's
\* lock, if it is still there. From here on its nodes are saved as they are now.
ReadsTree(t) ==
  /\ command # NoCommand /\ t \in command.unread
  /\ command' = [command EXCEPT !.unread = @ \ {t},
                   !.read = IF t \in Published THEN [@ EXCEPT ![tree[t].root] = Snapshot(t)] ELSE @]
  /\ overtaken' = IF t \in Published THEN overtaken \ Members(tree[t]) ELSE overtaken
  /\ UNCHANGED <<vars, stored, wiped>>

SavesCommand ==
  /\ command # NoCommand /\ command.unread = {}
  /\ stored' = [n \in Nodes |-> CASE n \in command.gone -> Blank
                                  [] command.read[n] # Blank -> command.read[n]
                                  [] OTHER -> stored[n]]
  /\ wiped' = {n \in Nodes : IF n \in command.gone THEN \E t \in Published : tree[t].root = n
                             ELSE n \in wiped /\ command.read[n] = Blank}
  /\ command' = NoCommand
  /\ UNCHANGED <<vars, overtaken>>

\* The process starts again from the store, whatever it was doing.
RestartSaved ==
  LET roots == {n \in Nodes : stored[n] # Blank}
  IN  /\ \E home \in [roots -> TreeIds] :
           /\ IsInjective(home)
           /\ tree' = [t \in TreeIds |->
                IF \E n \in roots : home[n] = t THEN stored[CHOOSE n \in roots : home[n] = t] ELSE Blank]
           /\ trees' \in SetToSeqs({home[n] : n \in roots})
      /\ index' = [r \in Refs |->
           IF \E t \in TreeIds : r \in Live(tree'[t]) THEN CHOOSE t \in TreeIds : r \in Live(tree'[t]) ELSE NoTree]
      /\ slot' = [c \in Claims |-> NoSlot]
      /\ command' = NoCommand /\ overtaken' = {} /\ wiped' = {}
      /\ UNCHANGED stored

SavedNext ==
  \/ \E n \in Nodes : AdmitSaved(n)
  \/ \E c \in Claims : ReportSaved(c) \/ ProcessorMoves(c)
  \/ \E r \in Refs : StopReplySaved(r) \/ ClearReplySaved(r)
  \/ StopAllSaved \/ ClearChatSaved
  \/ \E t \in TreeIds : ReadsTree(t)
  \/ SavesCommand \/ RestartSaved

SavedSpec == SavedInit /\ [][SavedNext]_savedVars

-----------------------------------------------------------------------------------
(* Properties *)

\* Whenever the process ends, what it restores are trees: each hangs together and no
\* message is in two of them.
StoredTreesAreTrees ==
  \A n \in Nodes : stored[n] # Blank =>
    /\ stored[n].root = n
    /\ Live(stored[n]) = ReplySubtree(stored[n], Prompt(n))
    /\ \A m \in Nodes \ {n} : Live(stored[m]) \cap Live(stored[n]) = {}

\* What is stored is the tree as it is now, but for the last reports of the nodes in N:
\* those are as good as interrupted.
IsButFor(s, now, N) ==
  /\ s.root = now.root /\ s.parent = now.parent /\ s.status = now.status
  /\ Members(s) = Members(now) /\ s.session \subseteq now.session
  /\ \A n \in Members(now) :
       /\ \/ s.state[n] = now.state[n]
          \/ n \in N /\ s.state[n] = "error" /\ now.state[n] = "completed"
       /\ n \in now.session => n \in s.session \cup N

\* While no command is under way a restart would find the trees there are, of the
\* same messages, so that nothing that was cleared comes back and nothing that was
\* admitted is lost; and every node as it is, but for those that have reported between
\* the reading and the save of a stop or clear of another reply. Only of the trees that
\* a raising clear of the chat has not come to it finds nothing until they are saved.
RestartFindsTheTrees ==
  /\ StoredTreesAreTrees
  /\ command = NoCommand =>
       /\ {n \in Nodes : stored[n] # Blank} = {tree[t].root : t \in Published} \ wiped
       /\ \A t \in Published : tree[t].root \notin wiped =>
            IsButFor(stored[tree[t].root], Snapshot(t), overtaken)
=============================================================================
