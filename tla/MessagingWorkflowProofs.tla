-------------------------- MODULE MessagingWorkflowProofs --------------------------
(***************************************************************************)
(* Proofs about MessagingWorkflow, for every set of prompts and commands,  *)
(* every assignment of them to chats and every bound.                      *)
(*                                                                         *)
(* IInv says of a prompt what holds even inside a critical section: it has *)
(* a node only when its task is over, so that nothing reads its token      *)
(* again, and a live node is of the present generations unless a command   *)
(* that raised has missed it.                                              *)
(*                                                                         *)
(* MInv follows the messages: what is tracked at each place of a task, that*)
(* a clear in its critical section has taken all of the log that the lock  *)
(* protects, and that what is then older than the last clear is deleted.   *)
(***************************************************************************)
EXTENDS MessagingWorkflow, TLAPS

Messages == {"in", "out"} \X Actors
Tokens == Nat \X Nat
Places ==
  {"unsent", "absent", "arrived", "resolving", "voices", "sending", "sent", "admitting",
   "locking", "draining", "collected", "detached", "torn", "failing", "deleting", "deleted",
   "keeping", "done"}

Typed ==
  /\ stateLock \in Actors \cup {Nobody} /\ stopGen \in Nat /\ clearGen \in [Chats -> Nat]
  /\ node \in [Turns -> {"none", "live", "over", "faceless", "bare", "removed"}]
  /\ visible \subseteq Messages /\ logged \subseteq Messages /\ lost \subseteq Messages
  /\ at \in [Actors -> Places] /\ token \in [Actors -> Tokens]
  /\ taken \in [Actors -> SUBSET Messages] /\ missed \subseteq Turns

\* A node is what the task of its prompt leaves behind.
AdmittedIsDone == \A t \in Turns : node[t] # "none" => at[t] = "done"

\* A live node is of the present generations, locked or not, or one that a stop or a
\* clear that raised did not come to.
LiveIsCurrent == \A t \in Turns : node[t] = "live" => token[t] = Current(t) \/ t \in missed

\* Who holds the lock is at a step of its critical section.
HolderIsInside ==
  \A a \in Actors : stateLock = a => at[a] \in {"draining", "collected", "detached", "torn"}

IInv == Typed /\ AdmittedIsDone /\ LiveIsCurrent /\ HolderIsInside

USE DEF Step, Releases, Unlocked, flows, messages, history

--------------------------------------------------------------------------------
(* Messages and chats *)

LEMMA ActorsHaveChats ==
  ASSUME NEW a \in Actors
  PROVE  /\ ChatOf[a] \in Chats /\ a # Nobody /\ In(a) \in Messages /\ Out(a) \in Messages
  BY WorkflowAssumption DEF In, Out, Messages

LEMMA ReferencedAreMessages ==
  Referenced \subseteq Messages
  BY DEF Referenced, In, Out, Messages, Actors

LEMMA CurrentIsToken ==
  ASSUME Typed, NEW a \in Actors
  PROVE  Current(a) \in Tokens
  BY ActorsHaveChats DEF Typed, Current, Tokens

\* A task that goes on changes no node: what it is about to be has no node yet.
LEMMA TaskGoesOn ==
  ASSUME IInv, NEW a \in Actors, at[a] # "done", UNCHANGED <<stopGen, clearGen, node, missed>>,
         \A b \in Actors : b # a => at'[b] = at[b] /\ token'[b] = token[b]
  PROVE  AdmittedIsDone' /\ LiveIsCurrent'
<1>1. \A t \in Turns : node[t] # "none" => t # a /\ t \in Actors
  BY DEF IInv, AdmittedIsDone, Actors
<1> QED
  BY <1>1 DEF IInv, AdmittedIsDone, LiveIsCurrent, Current

--------------------------------------------------------------------------------
(* The steps of the tasks *)

LEMMA ArrivesStep ==
  ASSUME IInv, NEW a \in Actors, Arrives(a)
  PROVE  IInv'
<1> USE DEF Arrives
<1>0. /\ ChatOf[a] \in Chats /\ a # Nobody /\ In(a) \in Messages /\ Out(a) \in Messages
      /\ Current(a) \in Tokens /\ Nobody \notin Actors
  BY ActorsHaveChats, CurrentIsToken, WorkflowAssumption DEF IInv
<1>1. Typed'
  BY <1>0 DEF IInv, Typed, Places, Refused, OfChat
<1>2. AdmittedIsDone' /\ LiveIsCurrent'
  <2>1. /\ at[a] # "done" /\ UNCHANGED <<stopGen, clearGen, node, missed>>
        /\ \A b \in Actors : b # a => at'[b] = at[b] /\ token'[b] = token[b]
    BY DEF IInv, Typed
  <2> QED
    BY <2>1, TaskGoesOn
<1>3. HolderIsInside'
  BY <1>0 DEF IInv, Typed, HolderIsInside
<1> QED
  BY <1>1, <1>2, <1>3 DEF IInv

LEMMA ReceivedStep ==
  ASSUME IInv, NEW a \in Actors, Received(a)
  PROVE  IInv'
<1> USE DEF Received
<1>0. /\ ChatOf[a] \in Chats /\ a # Nobody /\ In(a) \in Messages /\ Out(a) \in Messages
      /\ Current(a) \in Tokens /\ Nobody \notin Actors
  BY ActorsHaveChats, CurrentIsToken, WorkflowAssumption DEF IInv
<1>1. Typed'
  BY <1>0 DEF IInv, Typed, Places, Refused, OfChat
<1>2. AdmittedIsDone' /\ LiveIsCurrent'
  <2>1. /\ at[a] # "done" /\ UNCHANGED <<stopGen, clearGen, node, missed>>
        /\ \A b \in Actors : b # a => at'[b] = at[b] /\ token'[b] = token[b]
    BY DEF IInv, Typed
  <2> QED
    BY <2>1, TaskGoesOn
<1>3. HolderIsInside'
  BY <1>0 DEF IInv, Typed, HolderIsInside
<1> QED
  BY <1>1, <1>2, <1>3 DEF IInv

LEMMA ReplyResolvedStep ==
  ASSUME IInv, NEW a \in Actors, ReplyResolved(a)
  PROVE  IInv'
<1> USE DEF ReplyResolved
<1>0. /\ ChatOf[a] \in Chats /\ a # Nobody /\ In(a) \in Messages /\ Out(a) \in Messages
      /\ Current(a) \in Tokens /\ Nobody \notin Actors
  BY ActorsHaveChats, CurrentIsToken, WorkflowAssumption DEF IInv
<1>1. Typed'
  BY <1>0 DEF IInv, Typed, Places, Refused, OfChat
<1>2. AdmittedIsDone' /\ LiveIsCurrent'
  <2>1. /\ at[a] # "done" /\ UNCHANGED <<stopGen, clearGen, node, missed>>
        /\ \A b \in Actors : b # a => at'[b] = at[b] /\ token'[b] = token[b]
    BY DEF IInv, Typed
  <2> QED
    BY <2>1, TaskGoesOn
<1>3. HolderIsInside'
  BY <1>0 DEF IInv, Typed, HolderIsInside
<1> QED
  BY <1>1, <1>2, <1>3 DEF IInv

LEMMA DeliveredStep ==
  ASSUME IInv, NEW a \in Actors, Delivered(a)
  PROVE  IInv'
<1> USE DEF Delivered
<1>0. /\ ChatOf[a] \in Chats /\ a # Nobody /\ In(a) \in Messages /\ Out(a) \in Messages
      /\ Current(a) \in Tokens /\ Nobody \notin Actors
  BY ActorsHaveChats, CurrentIsToken, WorkflowAssumption DEF IInv
<1>1. Typed'
  BY <1>0 DEF IInv, Typed, Places, Refused, OfChat
<1>2. AdmittedIsDone' /\ LiveIsCurrent'
  <2>1. /\ at[a] # "done" /\ UNCHANGED <<stopGen, clearGen, node, missed>>
        /\ \A b \in Actors : b # a => at'[b] = at[b] /\ token'[b] = token[b]
    BY DEF IInv, Typed
  <2> QED
    BY <2>1, TaskGoesOn
<1>3. HolderIsInside'
  BY <1>0 DEF IInv, Typed, HolderIsInside
<1> QED
  BY <1>1, <1>2, <1>3 DEF IInv

LEMMA DeliveryFailsStep ==
  ASSUME IInv, NEW a \in Actors, DeliveryFails(a)
  PROVE  IInv'
<1> USE DEF DeliveryFails
<1>0. /\ ChatOf[a] \in Chats /\ a # Nobody /\ In(a) \in Messages /\ Out(a) \in Messages
      /\ Current(a) \in Tokens /\ Nobody \notin Actors
  BY ActorsHaveChats, CurrentIsToken, WorkflowAssumption DEF IInv
<1>1. Typed'
  BY <1>0 DEF IInv, Typed, Places, Refused, OfChat
<1>2. AdmittedIsDone' /\ LiveIsCurrent'
  <2>1. /\ at[a] # "done" /\ UNCHANGED <<stopGen, clearGen, node, missed>>
        /\ \A b \in Actors : b # a => at'[b] = at[b] /\ token'[b] = token[b]
    BY DEF IInv, Typed
  <2> QED
    BY <2>1, TaskGoesOn
<1>3. HolderIsInside'
  BY <1>0 DEF IInv, Typed, HolderIsInside
<1> QED
  BY <1>1, <1>2, <1>3 DEF IInv

LEMMA RecordedStep ==
  ASSUME IInv, NEW a \in Actors, Recorded(a)
  PROVE  IInv'
<1> USE DEF Recorded
<1>0. /\ ChatOf[a] \in Chats /\ a # Nobody /\ In(a) \in Messages /\ Out(a) \in Messages
      /\ Current(a) \in Tokens /\ Nobody \notin Actors
  BY ActorsHaveChats, CurrentIsToken, WorkflowAssumption DEF IInv
<1>1. Typed'
  BY <1>0 DEF IInv, Typed, Places, Refused, OfChat
<1>2. AdmittedIsDone' /\ LiveIsCurrent'
  <2>1. /\ at[a] # "done" /\ UNCHANGED <<stopGen, clearGen, node, missed>>
        /\ \A b \in Actors : b # a => at'[b] = at[b] /\ token'[b] = token[b]
    BY DEF IInv, Typed
  <2> QED
    BY <2>1, TaskGoesOn
<1>3. HolderIsInside'
  BY <1>0 DEF IInv, Typed, HolderIsInside
<1> QED
  BY <1>1, <1>2, <1>3 DEF IInv

LEMMA AdmitStep ==
  ASSUME IInv, NEW a \in Actors, Admit(a)
  PROVE  IInv'
<1> USE DEF Admit
<1>0. /\ ChatOf[a] \in Chats /\ a # Nobody /\ In(a) \in Messages /\ Out(a) \in Messages
      /\ Current(a) \in Tokens /\ Nobody \notin Actors
  BY ActorsHaveChats, CurrentIsToken, WorkflowAssumption DEF IInv
<1>1. Typed'
  BY <1>0 DEF IInv, Typed, Places, Refused, OfChat
<1>2. AdmittedIsDone' /\ LiveIsCurrent'
  BY <1>0 DEF IInv, Typed, AdmittedIsDone, LiveIsCurrent, Current, Actors, InTree
<1>3. HolderIsInside'
  BY <1>0 DEF IInv, Typed, HolderIsInside
<1> QED
  BY <1>1, <1>2, <1>3 DEF IInv

LEMMA VoicesJoinedStep ==
  ASSUME IInv, NEW a \in Actors, VoicesJoined(a)
  PROVE  IInv'
<1> USE DEF VoicesJoined
<1>0. /\ ChatOf[a] \in Chats /\ a # Nobody /\ In(a) \in Messages /\ Out(a) \in Messages
      /\ Current(a) \in Tokens /\ Nobody \notin Actors
  BY ActorsHaveChats, CurrentIsToken, WorkflowAssumption DEF IInv
<1>1. Typed'
  BY <1>0 DEF IInv, Typed, Places, Refused, OfChat
<1>2. AdmittedIsDone' /\ LiveIsCurrent'
  <2>1. /\ at[a] # "done" /\ UNCHANGED <<stopGen, clearGen, node, missed>>
        /\ \A b \in Actors : b # a => at'[b] = at[b] /\ token'[b] = token[b]
    BY DEF IInv, Typed
  <2> QED
    BY <2>1, TaskGoesOn
<1>3. HolderIsInside'
  BY <1>0 DEF IInv, Typed, HolderIsInside
<1> QED
  BY <1>1, <1>2, <1>3 DEF IInv

LEMMA StopEverythingStep ==
  ASSUME IInv, NEW a \in Actors, StopEverything(a)
  PROVE  IInv'
<1> USE DEF StopEverything
<1>0. /\ ChatOf[a] \in Chats /\ a # Nobody /\ In(a) \in Messages /\ Out(a) \in Messages
      /\ Current(a) \in Tokens /\ Nobody \notin Actors
  BY ActorsHaveChats, CurrentIsToken, WorkflowAssumption DEF IInv
<1>1. Typed'
  BY <1>0 DEF IInv, Typed, Places, Refused, OfChat
<1>2. AdmittedIsDone' /\ LiveIsCurrent'
  BY <1>0 DEF IInv, Typed, AdmittedIsDone, LiveIsCurrent, Current, Actors, InTree
<1>3. HolderIsInside'
  BY <1>0 DEF IInv, Typed, HolderIsInside
<1> QED
  BY <1>1, <1>2, <1>3 DEF IInv

LEMMA StopRaisesStep ==
  ASSUME IInv, NEW a \in Actors, StopRaises(a)
  PROVE  IInv'
<1> USE DEF StopRaises
<1>0. /\ ChatOf[a] \in Chats /\ a # Nobody /\ In(a) \in Messages /\ Out(a) \in Messages
      /\ Current(a) \in Tokens /\ Nobody \notin Actors
  BY ActorsHaveChats, CurrentIsToken, WorkflowAssumption DEF IInv
<1>1. Typed'
  BY <1>0 DEF IInv, Typed, Places, Refused, OfChat
<1>2. AdmittedIsDone' /\ LiveIsCurrent'
  BY <1>0 DEF IInv, Typed, AdmittedIsDone, LiveIsCurrent, Current, Actors, InTree
<1>3. HolderIsInside'
  BY <1>0 DEF IInv, Typed, HolderIsInside
<1> QED
  BY <1>1, <1>2, <1>3 DEF IInv

LEMMA StopReplyStep ==
  ASSUME IInv, NEW a \in Actors, StopReply(a)
  PROVE  IInv'
<1> USE DEF StopReply
<1>0. /\ ChatOf[a] \in Chats /\ a # Nobody /\ In(a) \in Messages /\ Out(a) \in Messages
      /\ Current(a) \in Tokens /\ Nobody \notin Actors
  BY ActorsHaveChats, CurrentIsToken, WorkflowAssumption DEF IInv
<1>1. Typed'
  BY <1>0 DEF IInv, Typed, Places, Refused, OfChat
<1>2. AdmittedIsDone' /\ LiveIsCurrent'
  BY <1>0 DEF IInv, Typed, AdmittedIsDone, LiveIsCurrent, Current, Actors, InTree
<1>3. HolderIsInside'
  BY <1>0 DEF IInv, Typed, HolderIsInside
<1> QED
  BY <1>1, <1>2, <1>3 DEF IInv

LEMMA StopReplyRaisesStep ==
  ASSUME IInv, NEW a \in Actors, StopReplyRaises(a)
  PROVE  IInv'
<1> USE DEF StopReplyRaises
<1>0. /\ ChatOf[a] \in Chats /\ a # Nobody /\ In(a) \in Messages /\ Out(a) \in Messages
      /\ Current(a) \in Tokens /\ Nobody \notin Actors
  BY ActorsHaveChats, CurrentIsToken, WorkflowAssumption DEF IInv
<1>1. Typed'
  BY <1>0 DEF IInv, Typed, Places, Refused, OfChat
<1>2. AdmittedIsDone' /\ LiveIsCurrent'
  <2>1. /\ at[a] # "done" /\ UNCHANGED <<stopGen, clearGen, node, missed>>
        /\ \A b \in Actors : b # a => at'[b] = at[b] /\ token'[b] = token[b]
    BY DEF IInv, Typed
  <2> QED
    BY <2>1, TaskGoesOn
<1>3. HolderIsInside'
  BY <1>0 DEF IInv, Typed, HolderIsInside
<1> QED
  BY <1>1, <1>2, <1>3 DEF IInv

LEMMA StopDrainedStep ==
  ASSUME IInv, NEW a \in Actors, StopDrained(a)
  PROVE  IInv'
<1> USE DEF StopDrained
<1>0. /\ ChatOf[a] \in Chats /\ a # Nobody /\ In(a) \in Messages /\ Out(a) \in Messages
      /\ Current(a) \in Tokens /\ Nobody \notin Actors
  BY ActorsHaveChats, CurrentIsToken, WorkflowAssumption DEF IInv
<1>1. Typed'
  BY <1>0 DEF IInv, Typed, Places, Refused, OfChat
<1>2. AdmittedIsDone' /\ LiveIsCurrent'
  <2>1. /\ at[a] # "done" /\ UNCHANGED <<stopGen, clearGen, node, missed>>
        /\ \A b \in Actors : b # a => at'[b] = at[b] /\ token'[b] = token[b]
    BY DEF IInv, Typed
  <2> QED
    BY <2>1, TaskGoesOn
<1>3. HolderIsInside'
  BY <1>0 DEF IInv, Typed, HolderIsInside
<1> QED
  BY <1>1, <1>2, <1>3 DEF IInv

LEMMA CollectStep ==
  ASSUME IInv, NEW a \in Actors, Collect(a)
  PROVE  IInv'
<1> USE DEF Collect
<1>0. /\ ChatOf[a] \in Chats /\ a # Nobody /\ In(a) \in Messages /\ Out(a) \in Messages
      /\ Current(a) \in Tokens /\ Nobody \notin Actors
  BY ActorsHaveChats, CurrentIsToken, WorkflowAssumption DEF IInv
<1>1. Typed'
  <2>1. Referenced \subseteq Messages
    BY ReferencedAreMessages
  <2> QED
    BY <1>0, <2>1 DEF IInv, Typed, Places, OfChat
<1>2. AdmittedIsDone' /\ LiveIsCurrent'
  <2>1. /\ at[a] # "done" /\ UNCHANGED <<stopGen, clearGen, node, missed>>
        /\ \A b \in Actors : b # a => at'[b] = at[b] /\ token'[b] = token[b]
    BY DEF IInv, Typed
  <2> QED
    BY <2>1, TaskGoesOn
<1>3. HolderIsInside'
  BY <1>0 DEF IInv, Typed, HolderIsInside
<1> QED
  BY <1>1, <1>2, <1>3 DEF IInv

LEMMA DetachStep ==
  ASSUME IInv, NEW a \in Actors, Detach(a)
  PROVE  IInv'
<1> USE DEF Detach
<1>0. /\ ChatOf[a] \in Chats /\ a # Nobody /\ In(a) \in Messages /\ Out(a) \in Messages
      /\ Current(a) \in Tokens /\ Nobody \notin Actors
  BY ActorsHaveChats, CurrentIsToken, WorkflowAssumption DEF IInv
<1>1. Typed'
  BY <1>0 DEF IInv, Typed, Places, Refused, OfChat
<1>2. AdmittedIsDone' /\ LiveIsCurrent'
  BY <1>0 DEF IInv, Typed, AdmittedIsDone, LiveIsCurrent, Current, Actors, InTree
<1>3. HolderIsInside'
  BY <1>0 DEF IInv, Typed, HolderIsInside
<1> QED
  BY <1>1, <1>2, <1>3 DEF IInv

LEMMA DetachRaisesStep ==
  ASSUME IInv, NEW a \in Actors, DetachRaises(a)
  PROVE  IInv'
<1> USE DEF DetachRaises
<1>0. /\ ChatOf[a] \in Chats /\ a # Nobody /\ In(a) \in Messages /\ Out(a) \in Messages
      /\ Current(a) \in Tokens /\ Nobody \notin Actors
  BY ActorsHaveChats, CurrentIsToken, WorkflowAssumption DEF IInv
<1>1. Typed'
  BY <1>0 DEF IInv, Typed, Places, Refused, OfChat
<1>2. AdmittedIsDone' /\ LiveIsCurrent'
  BY <1>0 DEF IInv, Typed, AdmittedIsDone, LiveIsCurrent, Current, Actors, InTree
<1>3. HolderIsInside'
  BY <1>0 DEF IInv, Typed, HolderIsInside
<1> QED
  BY <1>1, <1>2, <1>3 DEF IInv

LEMMA StoreClearedStep ==
  ASSUME IInv, NEW a \in Actors, StoreCleared(a)
  PROVE  IInv'
<1> USE DEF StoreCleared
<1>0. /\ ChatOf[a] \in Chats /\ a # Nobody /\ In(a) \in Messages /\ Out(a) \in Messages
      /\ Current(a) \in Tokens /\ Nobody \notin Actors
  BY ActorsHaveChats, CurrentIsToken, WorkflowAssumption DEF IInv
<1>1. Typed'
  BY <1>0 DEF IInv, Typed, Places, Refused, OfChat
<1>2. AdmittedIsDone' /\ LiveIsCurrent'
  <2>1. /\ at[a] # "done" /\ UNCHANGED <<stopGen, clearGen, node, missed>>
        /\ \A b \in Actors : b # a => at'[b] = at[b] /\ token'[b] = token[b]
    BY DEF IInv, Typed
  <2> QED
    BY <2>1, TaskGoesOn
<1>3. HolderIsInside'
  BY <1>0 DEF IInv, Typed, HolderIsInside
<1> QED
  BY <1>1, <1>2, <1>3 DEF IInv

LEMMA StoreFailsStep ==
  ASSUME IInv, NEW a \in Actors, StoreFails(a)
  PROVE  IInv'
<1> USE DEF StoreFails
<1>0. /\ ChatOf[a] \in Chats /\ a # Nobody /\ In(a) \in Messages /\ Out(a) \in Messages
      /\ Current(a) \in Tokens /\ Nobody \notin Actors
  BY ActorsHaveChats, CurrentIsToken, WorkflowAssumption DEF IInv
<1>1. Typed'
  BY <1>0 DEF IInv, Typed, Places, Refused, OfChat
<1>2. AdmittedIsDone' /\ LiveIsCurrent'
  <2>1. /\ at[a] # "done" /\ UNCHANGED <<stopGen, clearGen, node, missed>>
        /\ \A b \in Actors : b # a => at'[b] = at[b] /\ token'[b] = token[b]
    BY DEF IInv, Typed
  <2> QED
    BY <2>1, TaskGoesOn
<1>3. HolderIsInside'
  BY <1>0 DEF IInv, Typed, HolderIsInside
<1> QED
  BY <1>1, <1>2, <1>3 DEF IInv

LEMMA StoreTornStep ==
  ASSUME IInv, NEW a \in Actors, StoreTorn(a)
  PROVE  IInv'
<1> USE DEF StoreTorn
<1>0. /\ ChatOf[a] \in Chats /\ a # Nobody /\ In(a) \in Messages /\ Out(a) \in Messages
      /\ Current(a) \in Tokens /\ Nobody \notin Actors
  BY ActorsHaveChats, CurrentIsToken, WorkflowAssumption DEF IInv
<1>1. Typed'
  BY <1>0 DEF IInv, Typed, Places, Refused, OfChat
<1>2. AdmittedIsDone' /\ LiveIsCurrent'
  <2>1. /\ at[a] # "done" /\ UNCHANGED <<stopGen, clearGen, node, missed>>
        /\ \A b \in Actors : b # a => at'[b] = at[b] /\ token'[b] = token[b]
    BY DEF IInv, Typed
  <2> QED
    BY <2>1, TaskGoesOn
<1>3. HolderIsInside'
  BY <1>0 DEF IInv, Typed, HolderIsInside
<1> QED
  BY <1>1, <1>2, <1>3 DEF IInv

LEMMA ClearFailedStep ==
  ASSUME IInv, NEW a \in Actors, ClearFailed(a)
  PROVE  IInv'
<1> USE DEF ClearFailed
<1>0. /\ ChatOf[a] \in Chats /\ a # Nobody /\ In(a) \in Messages /\ Out(a) \in Messages
      /\ Current(a) \in Tokens /\ Nobody \notin Actors
  BY ActorsHaveChats, CurrentIsToken, WorkflowAssumption DEF IInv
<1>1. Typed'
  BY <1>0 DEF IInv, Typed, Places, Refused, OfChat
<1>2. AdmittedIsDone' /\ LiveIsCurrent'
  <2>1. /\ at[a] # "done" /\ UNCHANGED <<stopGen, clearGen, node, missed>>
        /\ \A b \in Actors : b # a => at'[b] = at[b] /\ token'[b] = token[b]
    BY DEF IInv, Typed
  <2> QED
    BY <2>1, TaskGoesOn
<1>3. HolderIsInside'
  BY <1>0 DEF IInv, Typed, HolderIsInside
<1> QED
  BY <1>1, <1>2, <1>3 DEF IInv

LEMMA ClearReplyStep ==
  ASSUME IInv, NEW a \in Actors, ClearReply(a)
  PROVE  IInv'
<1> USE DEF ClearReply
<1>0. /\ ChatOf[a] \in Chats /\ a # Nobody /\ In(a) \in Messages /\ Out(a) \in Messages
      /\ Current(a) \in Tokens /\ Nobody \notin Actors
  BY ActorsHaveChats, CurrentIsToken, WorkflowAssumption DEF IInv
<1>1. CASE Step(a, "locking", "sending") /\ UNCHANGED <<node, taken>>
  <2>1. Typed'
    BY <1>1, <1>0 DEF IInv, Typed, Places
  <2>2. AdmittedIsDone' /\ LiveIsCurrent'
    BY <1>1, TaskGoesOn DEF IInv, Typed
  <2>3. HolderIsInside'
    BY <1>1, <1>0 DEF IInv, Typed, HolderIsInside
  <2> QED
    BY <2>1, <2>2, <2>3 DEF IInv
<1>2. ASSUME NEW gone \in SUBSET Referenced, NEW face \in {"faceless", "bare"},
             Step(a, "locking", "deleting"),
             node' = [t \in Turns |-> IF In(t) \in gone THEN "removed"
                                     ELSE IF Out(t) \in gone THEN face ELSE node[t]],
             taken' = [taken EXCEPT ![a] = gone \cup {In(a)}]
      PROVE  IInv'
  <2>1. Typed'
    <3>1. gone \subseteq Messages
      BY ReferencedAreMessages
    <3> QED
      BY <1>2, <1>0, <3>1 DEF IInv, Typed, Places
  <2>2. AdmittedIsDone'
    <3>1. \A t \in Turns : In(t) \in gone \/ Out(t) \in gone => InTree(t)
      BY DEF Referenced, In, Out, InTree, HasStatus
    <3> QED
      BY <1>2, <3>1 DEF IInv, Typed, AdmittedIsDone, InTree
  <2>3. LiveIsCurrent'
    BY <1>2 DEF IInv, LiveIsCurrent, Current
  <2>4. HolderIsInside'
    BY <1>2, <1>0 DEF IInv, Typed, HolderIsInside
  <2> QED
    BY <2>1, <2>2, <2>3, <2>4 DEF IInv
<1>3. \A m : Subtree(m) \subseteq Referenced
  BY DEF Subtree
<1> QED
  BY <1>1, <1>2, <1>3

LEMMA ClearReplyRaisesStep ==
  ASSUME IInv, NEW a \in Actors, ClearReplyRaises(a)
  PROVE  IInv'
<1> USE DEF ClearReplyRaises
<1>0. /\ ChatOf[a] \in Chats /\ a # Nobody /\ In(a) \in Messages /\ Out(a) \in Messages
      /\ Current(a) \in Tokens /\ Nobody \notin Actors
  BY ActorsHaveChats, CurrentIsToken, WorkflowAssumption DEF IInv
<1>1. Typed'
  BY <1>0 DEF IInv, Typed, Places, Refused, OfChat
<1>2. AdmittedIsDone' /\ LiveIsCurrent'
  BY <1>0 DEF IInv, Typed, AdmittedIsDone, LiveIsCurrent, Current, Actors, InTree
<1>3. HolderIsInside'
  BY <1>0 DEF IInv, Typed, HolderIsInside
<1> QED
  BY <1>1, <1>2, <1>3 DEF IInv

LEMMA DeleteTakenStep ==
  ASSUME IInv, NEW a \in Actors, DeleteTaken(a)
  PROVE  IInv'
<1> USE DEF DeleteTaken
<1>0. /\ ChatOf[a] \in Chats /\ a # Nobody /\ In(a) \in Messages /\ Out(a) \in Messages
      /\ Current(a) \in Tokens /\ Nobody \notin Actors
  BY ActorsHaveChats, CurrentIsToken, WorkflowAssumption DEF IInv
<1>1. Typed'
  BY <1>0 DEF IInv, Typed, Places, Refused, OfChat
<1>2. AdmittedIsDone' /\ LiveIsCurrent'
  <2>1. /\ at[a] # "done" /\ UNCHANGED <<stopGen, clearGen, node, missed>>
        /\ \A b \in Actors : b # a => at'[b] = at[b] /\ token'[b] = token[b]
    BY DEF IInv, Typed
  <2> QED
    BY <2>1, TaskGoesOn
<1>3. HolderIsInside'
  BY <1>0 DEF IInv, Typed, HolderIsInside
<1> QED
  BY <1>1, <1>2, <1>3 DEF IInv

LEMMA ForgetTrackedStep ==
  ASSUME IInv, NEW a \in Actors, ForgetTracked(a)
  PROVE  IInv'
<1> USE DEF ForgetTracked
<1>0. /\ ChatOf[a] \in Chats /\ a # Nobody /\ In(a) \in Messages /\ Out(a) \in Messages
      /\ Current(a) \in Tokens /\ Nobody \notin Actors
  BY ActorsHaveChats, CurrentIsToken, WorkflowAssumption DEF IInv
<1>1. Typed'
  BY <1>0 DEF IInv, Typed, Places, Refused, OfChat
<1>2. AdmittedIsDone' /\ LiveIsCurrent'
  <2>1. /\ at[a] # "done" /\ UNCHANGED <<stopGen, clearGen, node, missed>>
        /\ \A b \in Actors : b # a => at'[b] = at[b] /\ token'[b] = token[b]
    BY DEF IInv, Typed
  <2> QED
    BY <2>1, TaskGoesOn
<1>3. HolderIsInside'
  BY <1>0 DEF IInv, Typed, HolderIsInside
<1> QED
  BY <1>1, <1>2, <1>3 DEF IInv

LEMMA NoticeBeginsStep ==
  ASSUME IInv, NEW a \in Actors, NoticeBegins(a)
  PROVE  IInv'
<1> USE DEF NoticeBegins
<1>0. /\ ChatOf[a] \in Chats /\ a # Nobody /\ In(a) \in Messages /\ Out(a) \in Messages
      /\ Current(a) \in Tokens /\ Nobody \notin Actors
  BY ActorsHaveChats, CurrentIsToken, WorkflowAssumption DEF IInv
<1>1. Typed'
  BY <1>0 DEF IInv, Typed, Places, Refused, OfChat
<1>2. AdmittedIsDone' /\ LiveIsCurrent'
  <2>1. /\ at[a] # "done" /\ UNCHANGED <<stopGen, clearGen, node, missed>>
        /\ \A b \in Actors : b # a => at'[b] = at[b] /\ token'[b] = token[b]
    BY DEF IInv, Typed
  <2> QED
    BY <2>1, TaskGoesOn
<1>3. HolderIsInside'
  BY <1>0 DEF IInv, Typed, HolderIsInside
<1> QED
  BY <1>1, <1>2, <1>3 DEF IInv

LEMMA NoticeFinalizedStep ==
  ASSUME IInv, NEW a \in Actors, NoticeFinalized(a)
  PROVE  IInv'
<1> USE DEF NoticeFinalized
<1>0. /\ ChatOf[a] \in Chats /\ a # Nobody /\ In(a) \in Messages /\ Out(a) \in Messages
      /\ Current(a) \in Tokens /\ Nobody \notin Actors
  BY ActorsHaveChats, CurrentIsToken, WorkflowAssumption DEF IInv
<1>1. Typed'
  BY <1>0 DEF IInv, Typed, Places, Refused, OfChat
<1>2. AdmittedIsDone' /\ LiveIsCurrent'
  <2>1. /\ at[a] # "done" /\ UNCHANGED <<stopGen, clearGen, node, missed>>
        /\ \A b \in Actors : b # a => at'[b] = at[b] /\ token'[b] = token[b]
    BY DEF IInv, Typed
  <2> QED
    BY <2>1, TaskGoesOn
<1>3. HolderIsInside'
  BY <1>0 DEF IInv, Typed, HolderIsInside
<1> QED
  BY <1>1, <1>2, <1>3 DEF IInv

LEMMA NoticeDiscardedStep ==
  ASSUME IInv, NEW a \in Actors, NoticeDiscarded(a)
  PROVE  IInv'
<1> USE DEF NoticeDiscarded
<1>0. /\ ChatOf[a] \in Chats /\ a # Nobody /\ In(a) \in Messages /\ Out(a) \in Messages
      /\ Current(a) \in Tokens /\ Nobody \notin Actors
  BY ActorsHaveChats, CurrentIsToken, WorkflowAssumption DEF IInv
<1>1. Typed'
  BY <1>0 DEF IInv, Typed, Places, Refused, OfChat
<1>2. AdmittedIsDone' /\ LiveIsCurrent'
  <2>1. /\ at[a] # "done" /\ UNCHANGED <<stopGen, clearGen, node, missed>>
        /\ \A b \in Actors : b # a => at'[b] = at[b] /\ token'[b] = token[b]
    BY DEF IInv, Typed
  <2> QED
    BY <2>1, TaskGoesOn
<1>3. HolderIsInside'
  BY <1>0 DEF IInv, Typed, HolderIsInside
<1> QED
  BY <1>1, <1>2, <1>3 DEF IInv

LEMMA NoticeKeptStep ==
  ASSUME IInv, NEW a \in Actors, NoticeKept(a)
  PROVE  IInv'
<1> USE DEF NoticeKept
<1>0. /\ ChatOf[a] \in Chats /\ a # Nobody /\ In(a) \in Messages /\ Out(a) \in Messages
      /\ Current(a) \in Tokens /\ Nobody \notin Actors
  BY ActorsHaveChats, CurrentIsToken, WorkflowAssumption DEF IInv
<1>1. Typed'
  BY <1>0 DEF IInv, Typed, Places, Refused, OfChat
<1>2. AdmittedIsDone' /\ LiveIsCurrent'
  <2>1. /\ at[a] # "done" /\ UNCHANGED <<stopGen, clearGen, node, missed>>
        /\ \A b \in Actors : b # a => at'[b] = at[b] /\ token'[b] = token[b]
    BY DEF IInv, Typed
  <2> QED
    BY <2>1, TaskGoesOn
<1>3. HolderIsInside'
  BY <1>0 DEF IInv, Typed, HolderIsInside
<1> QED
  BY <1>1, <1>2, <1>3 DEF IInv

LEMMA NodeEndsStep ==
  ASSUME IInv, NEW t \in Turns, NodeEnds(t)
  PROVE  IInv'
  BY DEF NodeEnds, IInv, Typed, AdmittedIsDone, LiveIsCurrent, HolderIsInside, Current

--------------------------------------------------------------------------------
(* The theorems *)

THEOREM Inductive == WorkflowSpec => []IInv
<1>1. WorkflowInit => IInv
  <2> SUFFICES ASSUME WorkflowInit PROVE IInv
    OBVIOUS
  <2>1. Typed
    BY DEF WorkflowInit, Typed, Places, Tokens
  <2>2. HolderIsInside
    BY ActorsHaveChats DEF WorkflowInit, HolderIsInside
  <2> QED
    BY <2>1, <2>2 DEF WorkflowInit, IInv, AdmittedIsDone, LiveIsCurrent
<1>2. IInv /\ [WorkflowNext]_workflowVars => IInv'
  <2> SUFFICES ASSUME IInv, [WorkflowNext]_workflowVars
               PROVE  IInv'
    OBVIOUS
  <2>1. CASE UNCHANGED workflowVars
    BY <2>1 DEF workflowVars, IInv, Typed, AdmittedIsDone, LiveIsCurrent, HolderIsInside,
                Current
  <2>2. ASSUME NEW t \in Turns, NodeEnds(t) PROVE IInv'
    BY <2>2, NodeEndsStep
  <2>3. ASSUME NEW a \in Actors, Arrives(a) \/ NoticeBegins(a) PROVE IInv'
    BY <2>3, ArrivesStep, NoticeBeginsStep
  <2>4. ASSUME NEW a \in Actors, ActorSteps(a) PROVE IInv'
    BY <2>4, ReceivedStep, ReplyResolvedStep, DeliveredStep, DeliveryFailsStep, RecordedStep,
       AdmitStep, VoicesJoinedStep, StopEverythingStep, StopRaisesStep, StopReplyStep,
       StopReplyRaisesStep, StopDrainedStep, CollectStep, DetachStep, DetachRaisesStep,
       StoreClearedStep, StoreFailsStep, StoreTornStep, ClearFailedStep,
       ClearReplyStep, ClearReplyRaisesStep, DeleteTakenStep, ForgetTrackedStep, NoticeFinalizedStep,
       NoticeDiscardedStep, NoticeKeptStep
       DEF ActorSteps
  <2> QED
    BY <2>1, <2>2, <2>3, <2>4 DEF WorkflowNext
<1> QED
  BY <1>1, <1>2, PTL DEF WorkflowSpec

\* The lock, the generations, the nodes and the messages keep their types.
THEOREM TypeCorrect == WorkflowSpec => []WorkflowTypeOK
<1>1. IInv => WorkflowTypeOK
  BY DEF IInv, Typed, WorkflowTypeOK, Messages
<1> QED
  BY Inductive, <1>1, PTL

\* Stops and clears are boundaries, however many prompts and commands meet in however
\* many chats and however long their messages take: a live turn is of the present, or one
\* of those a stop or a clear did not come to when a faceless node made it raise.
THEOREM StopsAndClearsAreBoundaries == WorkflowSpec => []Boundaries
<1>1. IInv => Boundaries
  BY DEF IInv, LiveIsCurrent, Boundaries
<1> QED
  BY Inductive, <1>1, PTL

--------------------------------------------------------------------------------
(* What becomes of messages *)

\* The command or prompt has been received, and its generations read.
Heard(a) == at[a] \notin {"unsent", "absent", "arrived"}

Known(m) == m \in visible \/ m \in logged \/ \E a \in Actors : m \in taken[a]

\* Nothing is tracked, or taken, that is still to come into the chat.
NothingAhead ==
  \A a \in Actors :
    /\ Known(In(a)) => at[a] \notin {"unsent", "absent"}
    /\ Known(Out(a)) => at[a] \in {"sent", "admitting", "deleting", "deleted", "keeping", "done"}

\* What each kind of task takes, and that it is gone, or lost, when it has been deleted.
TakenByKind ==
  \A a \in Actors :
    /\ a \in Turns /\ at[a] \in {"deleting", "deleted"} =>
         Out(a) \in taken[a] /\ taken[a] \subseteq {In(a), Out(a)}
    /\ a \in Notices /\ at[a] \in {"deleting", "keeping", "deleted"} => taken[a] = {Out(a)}
    /\ a \in Clears /\ at[a] = "deleting" => In(a) \in taken[a]
    /\ a \in Stops => taken[a] = {}
    /\ a \in ReplyClears /\ at[a] \in {"deleting", "deleted"} =>
         \A t \in Turns : (In(t) \in taken[a] => node[t] = "removed")
           /\ (Out(t) \in taken[a] => node[t] \in {"removed", "faceless", "bare"})
    /\ at[a] = "deleted" => a \notin Clears /\ taken[a] \cap visible \subseteq lost

\* A standalone clear sends nothing, and only it has a store to write; a notice comes
\* from nobody, and only one that cannot be deleted is kept.
Roles ==
  \A a \in Actors :
    /\ a \in Clears => at[a] \notin {"sending", "sent", "draining", "deleted"}
    /\ at[a] = "failing" => a \in Clears
    /\ at[a] = "keeping" => a \in Notices
    /\ (In(a) \in visible => a \notin Notices) /\ (Out(a) \in visible => a \notin Clears)

\* A stop that is draining holds the lock.
DrainingHolds == \A a \in Actors : at[a] = "draining" => stateLock = a

\* Tokens are of the past, the trees of a chat are of its present clear generation but for
\* turns that a clear did not come to, and a clear that has advanced the generation has
\* made every token it finds old.
Epochs ==
  /\ \A a \in Actors : token[a][2] <= clearGen[ChatOf[a]]
  /\ \A t \in Turns : InTree(t) => token[t][2] = clearGen[ChatOf[t]] \/ t \in missed
  /\ \A c \in Clears : at[c] \in {"detached", "torn"} =>
       \A a \in Actors : ChatOf[a] = ChatOf[c] /\ Heard(a) => token[a][2] < clearGen[ChatOf[c]]

\* The messages of a prompt of the present clear generation are in the log until it is
\* given up, or until its status is cleared.
FreshIsLogged ==
  \A t \in Turns :
    /\ token[t][2] = clearGen[ChatOf[t]]
    /\ at[t] \in {"resolving", "sending", "sent", "admitting"} \/ InTree(t)
    => In(t) \in logged /\ (at[t] = "admitting" \/ HasStatus(t) => Out(t) \in logged)

\* A clear that is collecting holds the lock, and has what the trees refer to and all of
\* the log but what comes in without the lock: feedback, and the status of prompts that
\* are still to be admitted.
LogIsTaken ==
  \A c \in Clears : at[c] \in {"collected", "detached", "torn"} =>
    /\ stateLock = c
    /\ \A a \in Actors : ChatOf[a] = ChatOf[c] =>
         /\ In(a) \in logged => In(a) \in taken[c]
         /\ Out(a) \in logged =>
              \/ Out(a) \in taken[c]
              \/ a \in Stops \cup ReplyClears \/ (a \in Turns /\ at[a] = "admitting")
    /\ \A t \in Turns : ChatOf[t] = ChatOf[c] =>
         (InTree(t) => In(t) \in taken[c]) /\ (HasStatus(t) => Out(t) \in taken[c])

\* m is in the hands of a clear that will delete it, or lose it.
InHand(m) ==
  \E c \in Clears : /\ ChatOf[c] = ChatOf[Owner(m)] /\ m \in taken[c]
                    /\ at[c] \in {"detached", "torn", "deleting"}

\* m, of a turn that a clear did not come to, is about to be deleted by a clear of a reply.
InReplyHand(m) ==
  Owner(m) \in missed /\ \E r \in ReplyClears : m \in taken[r] /\ at[r] = "deleting"

\* Once its task has recorded it, a message that is neither gone nor lost is in the log
\* or in a tree, or a clear deletes it; and what the log has that is older than the last
\* clear is in the hands of one.
Tracked ==
  \A a \in Actors :
    /\ (a \notin Notices /\ Heard(a) /\ (a \in Clears => at[a] = "done")
          /\ In(a) \in visible /\ In(a) \notin lost)
         => \/ In(a) \in logged \/ InHand(In(a)) \/ InReplyHand(In(a))
            \/ a \in Turns /\ InTree(a)
    /\ (a \in Turns \cup Notices /\ at[a] = "done" /\ Out(a) \in visible /\ Out(a) \notin lost)
         => \/ Out(a) \in logged \/ InHand(Out(a)) \/ InReplyHand(Out(a))
            \/ a \in Turns /\ HasStatus(a)

OldIsInHand ==
  \A a \in Turns \cup Stops \cup ReplyClears : token[a][2] < clearGen[ChatOf[a]] =>
    /\ Heard(a) /\ In(a) \in logged /\ In(a) \in visible /\ In(a) \notin lost => InHand(In(a))
    /\ (a \in Turns /\ at[a] = "done" /\ Out(a) \in logged
          /\ Out(a) \in visible /\ Out(a) \notin lost)
         => InHand(Out(a))

MInv ==
  /\ NothingAhead /\ TakenByKind /\ Roles /\ Epochs
  /\ FreshIsLogged /\ LogIsTaken /\ Tracked /\ OldIsInHand


\* Two messages are the same only when they are of the same actor and way.
LEMMA MessageFacts ==
  /\ \A a, b : (In(a) = In(b) => a = b) /\ (Out(a) = Out(b) => a = b) /\ In(a) # Out(b)
  /\ \A a : Owner(In(a)) = a /\ Owner(Out(a)) = a
  /\ \A a : /\ In(a) \in Referenced <=> a \in Turns /\ InTree(a)
            /\ Out(a) \in Referenced <=> a \in Turns /\ HasStatus(a)
  /\ \A S, c : \A m : m \in OfChat(S, c) <=> m \in S /\ ChatOf[Owner(m)] = c
<1>1. \A a, b : (In(a) = In(b) => a = b) /\ (Out(a) = Out(b) => a = b) /\ In(a) # Out(b)
  BY DEF In, Out
<1>2. \A a : Owner(In(a)) = a /\ Owner(Out(a)) = a
  BY DEF In, Out, Owner
<1>3. \A a : /\ In(a) \in Referenced <=> a \in Turns /\ InTree(a)
             /\ Out(a) \in Referenced <=> a \in Turns /\ HasStatus(a)
  BY <1>1 DEF Referenced
<1>4. \A S, c : \A m : m \in OfChat(S, c) <=> m \in S /\ ChatOf[Owner(m)] = c
  BY DEF OfChat
<1> QED
  BY <1>1, <1>2, <1>3, <1>4

\* The kinds of tasks are apart.
LEMMA Kinds ==
  /\ Turns \subseteq Actors /\ Stops \subseteq Actors /\ Clears \subseteq Actors
  /\ ReplyClears \subseteq Actors /\ Notices \subseteq Actors
  /\ \A a \in Turns : a \notin Stops /\ a \notin Clears /\ a \notin ReplyClears /\ a \notin Notices
  /\ \A a \in Stops : a \notin Clears /\ a \notin ReplyClears /\ a \notin Notices
  /\ \A a \in Clears : a \notin ReplyClears /\ a \notin Notices
  /\ \A a \in ReplyClears : a \notin Notices
  /\ \A a \in Actors : /\ ChatOf[a] \in Chats /\ a # Nobody
                       /\ \/ a \in Turns \/ a \in Stops \/ a \in Clears
                          \/ a \in ReplyClears \/ a \in Notices
BY WorkflowAssumption DEF Actors

\* A task goes on without a message.
LEMMA MoveKeeps ==
  ASSUME IInv, MInv, NEW a \in Actors, NEW to,
         at[a] \in {"resolving", "voices", "locking", "draining", "sending"},
         to \in {"sending", "locking", "draining", "done"},
         \A b \in Actors : at'[b] = IF b = a THEN to ELSE at[b],
         a \in Clears => at[a] = "voices" /\ to = "locking",
         a \in Turns /\ to = "sending" => at[a] = "resolving",
         token' = token, taken' = taken, logged' = logged, visible' = visible,
         lost' = lost, clearGen' = clearGen, missed \subseteq missed',
         \A t \in Turns : /\ InTree(t)' <=> InTree(t)
                          /\ HasStatus(t)' <=> HasStatus(t)
                          /\ node[t] = "removed" => node'[t] = "removed",
         \A c \in Clears : stateLock = c => stateLock' = c
  PROVE  MInv'
<1>0. IInv /\ Typed /\ AdmittedIsDone /\ HolderIsInside /\ MInv
  BY DEF IInv
<1> USE <1>0, MessageFacts, Kinds DEF MInv, Known, Heard, InTree, HasStatus, InHand, InReplyHand
<1>2. NothingAhead'
  BY DEF NothingAhead
<1>3. TakenByKind'
  BY DEF TakenByKind, NothingAhead, AdmittedIsDone
<1>4. Roles'
  BY DEF Roles
<1>5. Epochs'
  BY DEF Epochs, AdmittedIsDone, LogIsTaken
<1>6. FreshIsLogged'
  BY DEF FreshIsLogged, Epochs, TakenByKind, AdmittedIsDone
<1>7. LogIsTaken'
  BY DEF LogIsTaken, Roles
<1>8. Tracked'
  BY DEF Tracked, LogIsTaken, TakenByKind, FreshIsLogged, NothingAhead, Roles
<1>9. OldIsInHand'
  BY DEF OldIsInHand, Roles, Tracked, Epochs, LogIsTaken, TakenByKind, FreshIsLogged, NothingAhead
<1> QED
  BY <1>2, <1>3, <1>4, <1>5, <1>6, <1>7, <1>8, <1>9

\* A message comes in.
LEMMA ArrivesMessages ==
  ASSUME IInv, MInv, NEW a \in Actors, Arrives(a)
  PROVE  MInv'
<1>0. IInv /\ Typed /\ AdmittedIsDone /\ HolderIsInside /\ MInv
  BY DEF IInv
<1>1. /\ at[a] = "unsent" /\ a \notin Notices
      /\ \A b \in Actors : at'[b] = IF b = a THEN "arrived" ELSE at[b]
      /\ visible' = visible \cup {In(a)}
      /\ UNCHANGED <<token, taken, logged, lost, clearGen, node, stateLock, missed>>
  BY <1>0, Kinds DEF Arrives, Typed, IInv
<1> USE <1>0, <1>1, MessageFacts, Kinds DEF MInv, Known, Heard, InTree, HasStatus, InHand, InReplyHand
<1>2. NothingAhead'
  BY DEF NothingAhead
<1>3. TakenByKind'
  BY DEF TakenByKind, NothingAhead, AdmittedIsDone
<1>4. Roles'
  BY DEF Roles
<1>5. Epochs'
  BY DEF Epochs, AdmittedIsDone, LogIsTaken
<1>6. FreshIsLogged'
  BY DEF FreshIsLogged, Epochs, TakenByKind, AdmittedIsDone
<1>7. LogIsTaken'
  BY DEF LogIsTaken, Roles
<1>8. Tracked'
  BY DEF Tracked, LogIsTaken, TakenByKind, FreshIsLogged, NothingAhead, Roles
<1>9. OldIsInHand'
  BY DEF OldIsInHand, Roles, Tracked, Epochs, LogIsTaken, TakenByKind, FreshIsLogged, NothingAhead
<1> QED
  BY <1>2, <1>3, <1>4, <1>5, <1>6, <1>7, <1>8, <1>9

\* It is received.
LEMMA ReceivedMessages ==
  ASSUME IInv, MInv, NEW a \in Actors, Received(a)
  PROVE  MInv'
<1>0. IInv /\ Typed /\ AdmittedIsDone /\ HolderIsInside /\ MInv
  BY DEF IInv
<1>1. /\ at[a] = "arrived" /\ stateLock = Nobody
      /\ \A b \in Actors :
           at'[b] = IF b = a THEN IF a \in Turns THEN "resolving" ELSE "voices" ELSE at[b]
      /\ \A b \in Actors : token'[b] = IF b = a THEN Current(a) ELSE token[b]
      /\ Current(a)[2] = clearGen[ChatOf[a]] /\ clearGen[ChatOf[a]] \in Nat
      /\ logged' = IF a \in Clears THEN logged ELSE logged \cup {In(a)}
      /\ UNCHANGED <<visible, taken, lost, clearGen, node, stateLock, missed>>
  BY <1>0, Kinds DEF Received, Current, Typed, IInv
<1> USE <1>0, <1>1, MessageFacts, Kinds DEF MInv, Known, Heard, InTree, HasStatus, InHand, InReplyHand
<1>2. NothingAhead'
  BY DEF NothingAhead
<1>3. TakenByKind'
  BY DEF TakenByKind, NothingAhead, AdmittedIsDone
<1>4. Roles'
  BY DEF Roles
<1>5. Epochs'
  BY DEF Epochs, AdmittedIsDone, LogIsTaken
<1>6. FreshIsLogged'
  BY DEF FreshIsLogged, Epochs, TakenByKind, AdmittedIsDone
<1>7. LogIsTaken'
  BY DEF LogIsTaken, Roles
<1>8. Tracked'
  BY DEF Tracked, LogIsTaken, TakenByKind, FreshIsLogged, NothingAhead, Roles
<1>9. OldIsInHand'
  BY DEF OldIsInHand, Roles, Tracked, Epochs, LogIsTaken, TakenByKind, FreshIsLogged, NothingAhead
<1> QED
  BY <1>2, <1>3, <1>4, <1>5, <1>6, <1>7, <1>8, <1>9

\* A message is delivered.
LEMMA DeliveredMessages ==
  ASSUME IInv, MInv, NEW a \in Actors, Delivered(a)
  PROVE  MInv'
<1>0. IInv /\ Typed /\ AdmittedIsDone /\ HolderIsInside /\ MInv
  BY DEF IInv
<1>1. /\ at[a] = "sending"
      /\ \A b \in Actors : at'[b] = IF b = a THEN "sent" ELSE at[b]
      /\ visible' = visible \cup {Out(a)}
      /\ UNCHANGED <<token, taken, logged, lost, clearGen, node, stateLock, missed>>
  BY <1>0, Kinds DEF Delivered, Typed, IInv
<1> USE <1>0, <1>1, MessageFacts, Kinds DEF MInv, Known, Heard, InTree, HasStatus, InHand, InReplyHand
<1>2. NothingAhead'
  BY DEF NothingAhead
<1>3. TakenByKind'
  BY DEF TakenByKind, NothingAhead, AdmittedIsDone
<1>4. Roles'
  BY DEF Roles
<1>5. Epochs'
  BY DEF Epochs, AdmittedIsDone, LogIsTaken
<1>6. FreshIsLogged'
  BY DEF FreshIsLogged, Epochs, TakenByKind, AdmittedIsDone
<1>7. LogIsTaken'
  BY DEF LogIsTaken, Roles
<1>8. Tracked'
  BY DEF Tracked, LogIsTaken, TakenByKind, FreshIsLogged, NothingAhead, Roles
<1>9. OldIsInHand'
  BY DEF OldIsInHand, Roles, Tracked, Epochs, LogIsTaken, TakenByKind, FreshIsLogged, NothingAhead
<1> QED
  BY <1>2, <1>3, <1>4, <1>5, <1>6, <1>7, <1>8, <1>9

\* It is recorded, without the lock.
LEMMA RecordedMessages ==
  ASSUME IInv, MInv, NEW a \in Actors, Recorded(a)
  PROVE  MInv'
<1>0. IInv /\ Typed /\ AdmittedIsDone /\ HolderIsInside /\ MInv
  BY DEF IInv
<1>1. /\ at[a] = "sent" /\ a \notin Notices
      /\ \A b \in Actors :
           at'[b] = IF b = a THEN IF a \in Turns THEN "admitting" ELSE "done" ELSE at[b]
      /\ logged' = logged \cup {Out(a)}
      /\ UNCHANGED <<token, taken, visible, lost, clearGen, node, stateLock, missed>>
  BY <1>0, Kinds DEF Recorded, Typed, IInv
<1> USE <1>0, <1>1, MessageFacts, Kinds DEF MInv, Known, Heard, InTree, HasStatus, InHand, InReplyHand
<1>2. NothingAhead'
  BY DEF NothingAhead
<1>3. TakenByKind'
  BY DEF TakenByKind, NothingAhead, AdmittedIsDone
<1>4. Roles'
  BY DEF Roles
<1>5. Epochs'
  BY DEF Epochs, AdmittedIsDone, LogIsTaken
<1>6. FreshIsLogged'
  BY DEF FreshIsLogged, Epochs, TakenByKind, AdmittedIsDone
<1>7. LogIsTaken'
  BY DEF LogIsTaken, Roles
<1>8. Tracked'
  BY DEF Tracked, LogIsTaken, TakenByKind, FreshIsLogged, NothingAhead, Roles
<1>9. OldIsInHand'
  BY DEF OldIsInHand, Roles, Tracked, Epochs, LogIsTaken, TakenByKind, FreshIsLogged, NothingAhead
<1> QED
  BY <1>2, <1>3, <1>4, <1>5, <1>6, <1>7, <1>8, <1>9

\* A prompt that is too old is given up.
LEMMA GivenUpMessages ==
  ASSUME IInv, MInv, NEW a \in Actors, Admit(a), at'[a] = "deleting"
  PROVE  MInv'
<1>0. IInv /\ Typed /\ AdmittedIsDone /\ HolderIsInside /\ MInv
  BY DEF IInv
<1>1. /\ at[a] = "admitting" /\ a \in Turns /\ stateLock = Nobody
      /\ \A b \in Actors : at'[b] = IF b = a THEN "deleting" ELSE at[b]
      /\ \A b \in Actors : b # a => taken'[b] = taken[b]
      /\ Out(a) \in taken'[a] /\ taken'[a] \subseteq {In(a), Out(a)}
      /\ UNCHANGED <<token, logged, visible, lost, clearGen, node, stateLock, missed>>
  BY <1>0, Kinds DEF Admit, Typed, IInv
<1> USE <1>0, <1>1, MessageFacts, Kinds DEF MInv, Known, Heard, InTree, HasStatus, InHand, InReplyHand
<1>2. NothingAhead'
  BY DEF NothingAhead
<1>3. TakenByKind'
  BY DEF TakenByKind, NothingAhead, AdmittedIsDone
<1>4. Roles'
  BY DEF Roles
<1>5. Epochs'
  BY DEF Epochs, AdmittedIsDone, LogIsTaken
<1>6. FreshIsLogged'
  BY DEF FreshIsLogged, Epochs, TakenByKind, AdmittedIsDone
<1>7. LogIsTaken'
  BY DEF LogIsTaken, Roles
<1>8. Tracked'
  BY DEF Tracked, LogIsTaken, TakenByKind, FreshIsLogged, NothingAhead, Roles
<1>9. OldIsInHand'
  BY DEF OldIsInHand, Roles, Tracked, Epochs, LogIsTaken, TakenByKind, FreshIsLogged, NothingAhead
<1> QED
  BY <1>2, <1>3, <1>4, <1>5, <1>6, <1>7, <1>8, <1>9

\* A prompt is admitted.
LEMMA AdmittedMessages ==
  ASSUME IInv, MInv, NEW a \in Actors, Admit(a), at'[a] # "deleting"
  PROVE  MInv'
<1>0. IInv /\ Typed /\ AdmittedIsDone /\ HolderIsInside /\ MInv
  BY DEF IInv
<1>1. /\ at[a] = "admitting" /\ a \in Turns /\ stateLock = Nobody
      /\ \A b \in Actors : at'[b] = IF b = a THEN "done" ELSE at[b]
      /\ token[a][2] = clearGen[ChatOf[a]] /\ clearGen[ChatOf[a]] \in Nat
      /\ \A t \in Turns : node'[t] = IF t = a THEN "live" ELSE node[t]
      /\ UNCHANGED <<token, taken, logged, visible, lost, clearGen, stateLock, missed>>
  BY <1>0, Kinds DEF Admit, Current, Typed, IInv
<1> USE <1>0, <1>1, MessageFacts, Kinds DEF MInv, Known, Heard, InTree, HasStatus, InHand, InReplyHand
<1>2. NothingAhead'
  BY DEF NothingAhead
<1>3. TakenByKind'
  BY DEF TakenByKind, NothingAhead, AdmittedIsDone
<1>4. Roles'
  BY DEF Roles
<1>5. Epochs'
  BY DEF Epochs, AdmittedIsDone, LogIsTaken
<1>6. FreshIsLogged'
  BY DEF FreshIsLogged, Epochs, TakenByKind, AdmittedIsDone
<1>7. LogIsTaken'
  BY DEF LogIsTaken, Roles
<1>8. Tracked'
  BY DEF Tracked, LogIsTaken, TakenByKind, FreshIsLogged, NothingAhead, Roles
<1>9. OldIsInHand'
  BY DEF OldIsInHand, Roles, Tracked, Epochs, LogIsTaken, TakenByKind, FreshIsLogged, NothingAhead
<1> QED
  BY <1>2, <1>3, <1>4, <1>5, <1>6, <1>7, <1>8, <1>9

\* A clear collects what is tracked.
LEMMA CollectMessages ==
  ASSUME IInv, MInv, NEW a \in Actors, Collect(a)
  PROVE  MInv'
<1>0. IInv /\ Typed /\ AdmittedIsDone /\ HolderIsInside /\ MInv
  BY DEF IInv
<1>1. /\ at[a] = "locking" /\ a \in Clears /\ stateLock = Nobody /\ stateLock' = a
      /\ \A b \in Actors : at'[b] = IF b = a THEN "collected" ELSE at[b]
      /\ \A b \in Actors : b # a => taken'[b] = taken[b]
      /\ \A b \in Actors :
           In(b) \in taken'[a] <=>
             ChatOf[b] = ChatOf[a] /\ (In(b) \in logged \/ (b \in Turns /\ InTree(b)))
      /\ \A b \in Actors :
           Out(b) \in taken'[a] <=>
             ChatOf[b] = ChatOf[a] /\ (Out(b) \in logged \/ (b \in Turns /\ HasStatus(b)))
      /\ UNCHANGED <<token, logged, visible, lost, clearGen, node, missed>>
  <2> DEFINE all == logged \cup Referenced
  <2>1. /\ at[a] = "locking" /\ a \in Clears /\ stateLock = Nobody /\ stateLock' = a
        /\ at' = [at EXCEPT ![a] = "collected"]
        /\ taken' = [taken EXCEPT ![a] = OfChat(all, ChatOf[a])]
        /\ UNCHANGED <<token, logged, visible, lost, clearGen, node, missed>>
    BY DEF Collect
  <2>2. /\ \A b \in Actors : at'[b] = IF b = a THEN "collected" ELSE at[b]
        /\ \A b \in Actors : b # a => taken'[b] = taken[b]
        /\ taken'[a] = OfChat(all, ChatOf[a])
    BY <1>0, <2>1 DEF Typed
  <2>3. \A b \in Actors :
          /\ In(b) \in all <=> In(b) \in logged \/ (b \in Turns /\ InTree(b))
          /\ Out(b) \in all <=> Out(b) \in logged \/ (b \in Turns /\ HasStatus(b))
    BY MessageFacts
  <2> HIDE DEF all
  <2> QED
    BY <2>1, <2>2, <2>3, MessageFacts
<1> USE <1>0, <1>1, MessageFacts, Kinds DEF MInv, Known, Heard, InTree, HasStatus, InHand, InReplyHand
<1>2. NothingAhead'
  BY DEF NothingAhead, AdmittedIsDone
<1>3. TakenByKind'
  BY DEF TakenByKind, NothingAhead, AdmittedIsDone
<1>4. Roles'
  BY DEF Roles
<1>5. Epochs'
  BY DEF Epochs, AdmittedIsDone, LogIsTaken
<1>6. FreshIsLogged'
  BY DEF FreshIsLogged, Epochs, TakenByKind, AdmittedIsDone
<1>7. LogIsTaken'
  BY DEF LogIsTaken, Roles
<1>8. Tracked'
  BY DEF Tracked, LogIsTaken, TakenByKind, FreshIsLogged, NothingAhead, Roles
<1>9. OldIsInHand'
  BY DEF OldIsInHand, Roles, Tracked, Epochs, LogIsTaken, TakenByKind, FreshIsLogged, NothingAhead
<1> QED
  BY <1>2, <1>3, <1>4, <1>5, <1>6, <1>7, <1>8, <1>9

\* It makes every token of its chat old.
LEMMA DetachMessages ==
  ASSUME IInv, MInv, NEW a \in Actors, Detach(a)
  PROVE  MInv'
<1>0. IInv /\ Typed /\ AdmittedIsDone /\ HolderIsInside /\ MInv
  BY DEF IInv
<1>1. /\ at[a] = "collected" /\ a \in Clears
      /\ \A b \in Actors : at'[b] = IF b = a THEN "detached" ELSE at[b]
      /\ \A c \in Chats :
           /\ clearGen[c] \in Nat
           /\ clearGen'[c] = IF c = ChatOf[a] THEN clearGen[c] + 1 ELSE clearGen[c]
      /\ \A b \in Actors : token[b][2] \in Nat
      /\ \A t \in Turns :
           node'[t] = IF InTree(t) /\ ChatOf[t] = ChatOf[a] THEN "removed" ELSE node[t]
      /\ UNCHANGED <<token, taken, logged, visible, lost, stateLock, missed>>
  BY <1>0, Kinds DEF Detach, Tokens, Typed, IInv
<1> USE <1>0, <1>1, MessageFacts, Kinds DEF MInv, Known, Heard, InTree, HasStatus, InHand, InReplyHand
<1>2. NothingAhead'
  BY DEF NothingAhead
<1>3. TakenByKind'
  BY DEF TakenByKind, NothingAhead, AdmittedIsDone
<1>4. Roles'
  BY DEF Roles
<1>5. Epochs'
  BY DEF Epochs, AdmittedIsDone, LogIsTaken
<1>6. FreshIsLogged'
  BY DEF FreshIsLogged, Epochs, TakenByKind, AdmittedIsDone
<1>7. LogIsTaken'
  BY DEF LogIsTaken, Roles
<1>8. Tracked'
  BY DEF Tracked, LogIsTaken, TakenByKind, FreshIsLogged, NothingAhead, Roles
<1>9. OldIsInHand'
  BY DEF OldIsInHand, Roles, Tracked, Epochs, LogIsTaken, TakenByKind, FreshIsLogged, NothingAhead
<1> QED
  BY <1>2, <1>3, <1>4, <1>5, <1>6, <1>7, <1>8, <1>9

\* Or it raises when it has done so, and some trees stay.
LEMMA DetachRaisesMessages ==
  ASSUME IInv, MInv, NEW a \in Actors, DetachRaises(a)
  PROVE  MInv'
<1>0. IInv /\ Typed /\ AdmittedIsDone /\ HolderIsInside /\ MInv
  BY DEF IInv
<1>1. /\ at[a] = "collected" /\ a \in Clears
      /\ \A b \in Actors : at'[b] = IF b = a THEN "torn" ELSE at[b]
      /\ \A c \in Chats :
           /\ clearGen[c] \in Nat
           /\ clearGen'[c] = IF c = ChatOf[a] THEN clearGen[c] + 1 ELSE clearGen[c]
      /\ \A b \in Actors : token[b][2] \in Nat
      /\ \A t \in Turns :
           \/ node'[t] = node[t] /\ (InTree(t) /\ ChatOf[t] = ChatOf[a] => t \in missed')
           \/ node'[t] = "removed" /\ InTree(t) /\ ChatOf[t] = ChatOf[a]
      /\ missed \subseteq missed'
      /\ UNCHANGED <<token, taken, logged, visible, lost, stateLock>>
  BY <1>0, Kinds DEF DetachRaises, Tokens, Typed, IInv
<1> USE <1>0, <1>1, MessageFacts, Kinds DEF MInv, Known, Heard, InTree, HasStatus, InHand, InReplyHand
<1>2. NothingAhead'
  BY DEF NothingAhead
<1>3. TakenByKind'
  BY DEF TakenByKind, NothingAhead, AdmittedIsDone
<1>4. Roles'
  BY DEF Roles
<1>5. Epochs'
  BY DEF Epochs, AdmittedIsDone, LogIsTaken
<1>6. FreshIsLogged'
  BY DEF FreshIsLogged, Epochs, TakenByKind, AdmittedIsDone
<1>7. LogIsTaken'
  BY DEF LogIsTaken, Roles
<1>8. Tracked'
  BY DEF Tracked, LogIsTaken, TakenByKind, FreshIsLogged, NothingAhead, Roles
<1>9. OldIsInHand'
  BY DEF OldIsInHand, Roles, Tracked, Epochs, LogIsTaken, TakenByKind, FreshIsLogged, NothingAhead
<1> QED
  BY <1>2, <1>3, <1>4, <1>5, <1>6, <1>7, <1>8, <1>9

\* The store forgets the chat.
LEMMA StoreClearedMessages ==
  ASSUME IInv, MInv, NEW a \in Actors, StoreCleared(a)
  PROVE  MInv'
<1>0. IInv /\ Typed /\ AdmittedIsDone /\ HolderIsInside /\ MInv
  BY DEF IInv
<1>1. /\ at[a] = "detached" /\ a \in Clears
      /\ \A b \in Actors : at'[b] = IF b = a THEN "deleting" ELSE at[b]
      /\ \A b \in Actors : taken'[b] = IF b = a THEN taken[a] \cup {In(a)} ELSE taken[b]
      /\ logged' = logged \ OfChat(logged, ChatOf[a])
      /\ UNCHANGED <<token, visible, lost, clearGen, node, missed>>
      /\ \A c \in Chats : clearGen[c] \in Nat
  BY <1>0, Kinds DEF StoreCleared, Typed, IInv
<1> USE <1>0, <1>1, MessageFacts, Kinds DEF MInv, Known, Heard, InTree, HasStatus, InHand, InReplyHand
<1>2. NothingAhead'
  BY DEF NothingAhead
<1>3. TakenByKind'
  BY DEF TakenByKind, NothingAhead, AdmittedIsDone
<1>4. Roles'
  BY DEF Roles
<1>5. Epochs'
  BY DEF Epochs, AdmittedIsDone, LogIsTaken
<1>6. FreshIsLogged'
  BY DEF FreshIsLogged, Epochs, TakenByKind, AdmittedIsDone
<1>7. LogIsTaken'
  BY DEF LogIsTaken, Roles
<1>8. Tracked'
  BY DEF Tracked, LogIsTaken, TakenByKind, FreshIsLogged, NothingAhead, Roles
<1>9. OldIsInHand'
  BY DEF OldIsInHand, Roles, Tracked, Epochs, LogIsTaken, TakenByKind, FreshIsLogged, NothingAhead
<1> QED
  BY <1>2, <1>3, <1>4, <1>5, <1>6, <1>7, <1>8, <1>9

\* Or its write fails.
LEMMA StoreFailsMessages ==
  ASSUME IInv, MInv, NEW a \in Actors, StoreFails(a)
  PROVE  MInv'
<1>0. IInv /\ Typed /\ AdmittedIsDone /\ HolderIsInside /\ MInv
  BY DEF IInv
<1>1. /\ at[a] = "detached" /\ a \in Clears
      /\ \A b \in Actors : at'[b] = IF b = a THEN "failing" ELSE at[b]
      /\ \A b \in Actors : taken'[b] = IF b = a THEN {} ELSE taken[b]
      /\ logged' = logged \ OfChat(logged, ChatOf[a]) /\ lost' = lost \cup taken[a]
      /\ UNCHANGED <<token, visible, clearGen, node, missed>>
      /\ \A c \in Chats : clearGen[c] \in Nat
  BY <1>0, Kinds DEF StoreFails, Typed, IInv
<1> USE <1>0, <1>1, MessageFacts, Kinds DEF MInv, Known, Heard, InTree, HasStatus, InHand, InReplyHand
<1>2. NothingAhead'
  BY DEF NothingAhead
<1>3. TakenByKind'
  BY DEF TakenByKind, NothingAhead, AdmittedIsDone
<1>4. Roles'
  BY DEF Roles
<1>5. Epochs'
  BY DEF Epochs, AdmittedIsDone, LogIsTaken
<1>6. FreshIsLogged'
  BY DEF FreshIsLogged, Epochs, TakenByKind, AdmittedIsDone
<1>7. LogIsTaken'
  BY DEF LogIsTaken, Roles
<1>8. Tracked'
  BY DEF Tracked, LogIsTaken, TakenByKind, FreshIsLogged, NothingAhead, Roles
<1>9. OldIsInHand'
  BY DEF OldIsInHand, Roles, Tracked, Epochs, LogIsTaken, TakenByKind, FreshIsLogged, NothingAhead
<1> QED
  BY <1>2, <1>3, <1>4, <1>5, <1>6, <1>7, <1>8, <1>9

\* After a clear that has raised it forgets the chat all the same.
LEMMA StoreTornMessages ==
  ASSUME IInv, MInv, NEW a \in Actors, StoreTorn(a)
  PROVE  MInv'
<1>0. IInv /\ Typed /\ AdmittedIsDone /\ HolderIsInside /\ MInv
  BY DEF IInv
<1>1. /\ at[a] = "torn" /\ a \in Clears
      /\ \A b \in Actors : at'[b] = IF b = a THEN "failing" ELSE at[b]
      /\ \A b \in Actors : taken'[b] = IF b = a THEN {} ELSE taken[b]
      /\ logged' = logged \ OfChat(logged, ChatOf[a])
      /\ lost' = lost \cup (taken[a] \ Referenced)
      /\ UNCHANGED <<token, visible, clearGen, node, missed>>
      /\ \A c \in Chats : clearGen[c] \in Nat
  BY <1>0, Kinds DEF StoreTorn, Typed, IInv
<1> USE <1>0, <1>1, MessageFacts, Kinds DEF MInv, Known, Heard, InTree, HasStatus, InHand, InReplyHand
<1>2. NothingAhead'
  BY DEF NothingAhead
<1>3. TakenByKind'
  BY DEF TakenByKind, NothingAhead, AdmittedIsDone
<1>4. Roles'
  BY DEF Roles
<1>5. Epochs'
  BY DEF Epochs, AdmittedIsDone, LogIsTaken
<1>6. FreshIsLogged'
  BY DEF FreshIsLogged, Epochs, TakenByKind, AdmittedIsDone
<1>7. LogIsTaken'
  BY DEF LogIsTaken, Roles
<1>8. Tracked'
  BY DEF Tracked, LogIsTaken, TakenByKind, FreshIsLogged, NothingAhead, Roles
<1>9. OldIsInHand'
  BY DEF OldIsInHand, Roles, Tracked, Epochs, LogIsTaken, TakenByKind, FreshIsLogged, NothingAhead
<1> QED
  BY <1>2, <1>3, <1>4, <1>5, <1>6, <1>7, <1>8, <1>9

\* A clear that failed is recorded.
LEMMA ClearFailedMessages ==
  ASSUME IInv, MInv, NEW a \in Actors, ClearFailed(a)
  PROVE  MInv'
<1>0. IInv /\ Typed /\ AdmittedIsDone /\ HolderIsInside /\ MInv
  BY DEF IInv
<1>1. /\ at[a] = "failing" /\ stateLock = Nobody
      /\ \A b \in Actors : at'[b] = IF b = a THEN "done" ELSE at[b]
      /\ logged' = logged \cup {In(a)}
      /\ UNCHANGED <<token, taken, visible, lost, clearGen, node, stateLock, missed>>
  BY <1>0, Kinds DEF ClearFailed, Typed, IInv
<1> USE <1>0, <1>1, MessageFacts, Kinds DEF MInv, Known, Heard, InTree, HasStatus, InHand, InReplyHand
<1>2. NothingAhead'
  BY DEF NothingAhead
<1>3. TakenByKind'
  BY DEF TakenByKind, NothingAhead, AdmittedIsDone
<1>4. Roles'
  BY DEF Roles
<1>5. Epochs'
  BY DEF Epochs, AdmittedIsDone, LogIsTaken
<1>6. FreshIsLogged'
  BY DEF FreshIsLogged, Epochs, TakenByKind, AdmittedIsDone
<1>7. LogIsTaken'
  BY DEF LogIsTaken, Roles
<1>8. Tracked'
  BY DEF Tracked, LogIsTaken, TakenByKind, FreshIsLogged, NothingAhead, Roles
<1>9. OldIsInHand'
  BY DEF OldIsInHand, Roles, Tracked, Epochs, LogIsTaken, TakenByKind, FreshIsLogged, NothingAhead
<1> QED
  BY <1>2, <1>3, <1>4, <1>5, <1>6, <1>7, <1>8, <1>9

\* A clear of a reply takes a subtree.
LEMMA ClearReplyMessages ==
  ASSUME IInv, MInv, NEW a \in Actors, ClearReply(a), at'[a] = "deleting"
  PROVE  MInv'
<1>0. IInv /\ Typed /\ AdmittedIsDone /\ HolderIsInside /\ MInv
  BY DEF IInv
<1>1. /\ at[a] = "locking" /\ a \in ReplyClears /\ stateLock = Nobody
      /\ \A b \in Actors : at'[b] = IF b = a THEN "deleting" ELSE at[b]
      /\ In(a) \in taken'[a]
      /\ \A b \in Actors : /\ In(b) \in taken'[a] => b = a \/ (b \in Turns /\ InTree(b))
                           /\ Out(b) \in taken'[a] => b \in Turns /\ HasStatus(b)
      /\ \A t \in Turns :
           \/ node'[t] = "removed" /\ InTree(t) /\ In(t) \in taken'[a]
                /\ (HasStatus(t) => Out(t) \in taken'[a])
           \/ node'[t] \in {"faceless", "bare"} /\ HasStatus(t)
                /\ Out(t) \in taken'[a] /\ In(t) \notin taken'[a]
           \/ node'[t] = node[t] /\ In(t) \notin taken'[a] /\ Out(t) \notin taken'[a]
      /\ \A b \in Actors : b # a => taken'[b] = taken[b]
      /\ UNCHANGED <<token, logged, visible, lost, clearGen, stateLock, missed>>
  <2>1. PICK m \in Referenced, face \in {"faceless", "bare"} :
          /\ Step(a, "locking", "deleting")
          /\ taken' = [taken EXCEPT ![a] = Subtree(m) \cup {In(a)}]
          /\ node' = [t \in Turns |-> IF In(t) \in Subtree(m) THEN "removed"
                                     ELSE IF Out(t) \in Subtree(m) THEN face ELSE node[t]]
    BY <1>0 DEF ClearReply, Typed, OfChat
  <2> DEFINE gone == Subtree(m)
  <2>2. /\ \A t \in Turns : /\ In(t) \in gone => InTree(t)
                            /\ Out(t) \in gone => HasStatus(t)
        /\ \A t \in Turns : HasStatus(t) /\ In(t) \in gone => Out(t) \in gone
        /\ \A b : (In(b) \in gone => b \in Turns) /\ (Out(b) \in gone => b \in Turns)
    <3>1. gone \subseteq Referenced
      BY DEF Subtree
    <3>2. ASSUME NEW t \in Turns, HasStatus(t), In(t) \in gone
          PROVE  Out(t) \in gone
      <4>1. Out(t) \in Referenced /\ Above(Out(t)) = In(t)
        BY <3>2, MessageFacts DEF Above, Out, Owner, In
      <4> QED
        BY <3>2, <4>1 DEF Subtree
    <3> QED
      BY <3>1, <3>2, MessageFacts
  <2> HIDE DEF gone
  <2>3. /\ at[a] = "locking" /\ \A b \in Actors : at'[b] = IF b = a THEN "deleting" ELSE at[b]
        /\ taken'[a] = gone \cup {In(a)}
        /\ \A b \in Actors : b # a => taken'[b] = taken[b]
        /\ \A t \in Turns : node'[t] = IF In(t) \in gone THEN "removed"
                                      ELSE IF Out(t) \in gone THEN face ELSE node[t]
    BY <1>0, <2>1 DEF Typed, gone
  <2>4. \A b \in Actors : /\ In(b) \in taken'[a] <=> In(b) \in gone \/ b = a
                          /\ Out(b) \in taken'[a] <=> Out(b) \in gone
    BY <2>3, MessageFacts
  <2>5. /\ a \in ReplyClears /\ stateLock = Nobody
        /\ UNCHANGED <<token, logged, visible, lost, clearGen, stateLock, missed>>
    BY DEF ClearReply
  <2> QED
    BY <2>2, <2>3, <2>4, <2>5, Kinds
<1> USE <1>0, <1>1, MessageFacts, Kinds DEF MInv, Known, Heard, InTree, HasStatus, InHand, InReplyHand
<1>2. NothingAhead'
  BY DEF NothingAhead, AdmittedIsDone
<1>3. TakenByKind'
  BY DEF TakenByKind, NothingAhead, AdmittedIsDone
<1>4. Roles'
  BY DEF Roles
<1>5. Epochs'
  BY DEF Epochs, AdmittedIsDone, LogIsTaken
<1>6. FreshIsLogged'
  BY DEF FreshIsLogged, Epochs, TakenByKind, AdmittedIsDone
<1>7. LogIsTaken'
  BY DEF LogIsTaken, Roles
<1>8. Tracked'
  BY DEF Tracked, Epochs, LogIsTaken, TakenByKind, FreshIsLogged, NothingAhead, Roles
<1>9. OldIsInHand'
  BY DEF OldIsInHand, Roles, Tracked, Epochs, LogIsTaken, TakenByKind, FreshIsLogged, NothingAhead
<1> QED
  BY <1>2, <1>3, <1>4, <1>5, <1>6, <1>7, <1>8, <1>9

\* What was taken is deleted, or lost.
LEMMA DeleteTakenMessages ==
  ASSUME IInv, MInv, NEW a \in Actors, DeleteTaken(a)
  PROVE  MInv'
<1>0. IInv /\ Typed /\ AdmittedIsDone /\ HolderIsInside /\ MInv
  BY DEF IInv
<1>1. /\ at[a] = "deleting" /\ a \notin Notices
      /\ \A b \in Actors :
           at'[b] = IF b = a THEN IF a \in Clears THEN "done" ELSE "deleted" ELSE at[b]
      /\ visible' \subseteq visible /\ lost \subseteq lost'
      /\ \A m \in visible' \ lost' : m \in visible \ lost /\ m \notin taken[a]
      /\ UNCHANGED <<token, taken, logged, clearGen, node, stateLock, missed>>
  BY <1>0, Kinds DEF DeleteTaken, Typed, IInv
<1> USE <1>0, <1>1, MessageFacts, Kinds DEF MInv, Known, Heard, InTree, HasStatus, InHand, InReplyHand
<1>2. NothingAhead'
  BY DEF NothingAhead
<1>3. TakenByKind'
  BY DEF TakenByKind, NothingAhead, AdmittedIsDone
<1>4. Roles'
  BY DEF Roles
<1>5. Epochs'
  BY DEF Epochs, AdmittedIsDone, LogIsTaken
<1>6. FreshIsLogged'
  BY DEF FreshIsLogged, Epochs, TakenByKind, AdmittedIsDone
<1>7. LogIsTaken'
  BY DEF LogIsTaken, Roles
<1>8. Tracked'
  BY DEF Tracked, LogIsTaken, TakenByKind, FreshIsLogged, NothingAhead, Roles
<1>9. OldIsInHand'
  BY DEF OldIsInHand, Roles, Tracked, Epochs, LogIsTaken, TakenByKind, FreshIsLogged, NothingAhead
<1> QED
  BY <1>2, <1>3, <1>4, <1>5, <1>6, <1>7, <1>8, <1>9

\* And forgotten.
LEMMA ForgetTrackedMessages ==
  ASSUME IInv, MInv, NEW a \in Actors, ForgetTracked(a)
  PROVE  MInv'
<1>0. IInv /\ Typed /\ AdmittedIsDone /\ HolderIsInside /\ MInv
  BY DEF IInv
<1>1. /\ at[a] = "deleted"
      /\ \A b \in Actors : at'[b] = IF b = a THEN "done" ELSE at[b]
      /\ logged' = logged \ taken[a]
      /\ UNCHANGED <<token, taken, visible, lost, clearGen, node, stateLock, missed>>
  BY <1>0, Kinds DEF ForgetTracked, Typed, IInv
<1> USE <1>0, <1>1, MessageFacts, Kinds DEF MInv, Known, Heard, InTree, HasStatus, InHand, InReplyHand
<1>2. NothingAhead'
  BY DEF NothingAhead
<1>3. TakenByKind'
  BY DEF TakenByKind, NothingAhead, AdmittedIsDone
<1>4. Roles'
  BY DEF Roles
<1>5. Epochs'
  BY DEF Epochs, AdmittedIsDone, LogIsTaken
<1>6. FreshIsLogged'
  BY DEF FreshIsLogged, Epochs, TakenByKind, AdmittedIsDone
<1>7. LogIsTaken'
  BY DEF LogIsTaken, Roles
<1>8. Tracked'
  BY DEF Tracked, LogIsTaken, TakenByKind, FreshIsLogged, NothingAhead, Roles
<1>9. OldIsInHand'
  BY DEF OldIsInHand, Roles, Tracked, Epochs, LogIsTaken, TakenByKind, FreshIsLogged, NothingAhead
<1> QED
  BY <1>2, <1>3, <1>4, <1>5, <1>6, <1>7, <1>8, <1>9

\* A notice is about to be sent.
LEMMA NoticeBeginsMessages ==
  ASSUME IInv, MInv, NEW a \in Actors, NoticeBegins(a)
  PROVE  MInv'
<1>0. IInv /\ Typed /\ AdmittedIsDone /\ HolderIsInside /\ MInv
  BY DEF IInv
<1>1. /\ at[a] = "unsent" /\ a \in Notices /\ stateLock = Nobody
      /\ \A b \in Actors : at'[b] = IF b = a THEN "sending" ELSE at[b]
      /\ \A b \in Actors : token'[b] = IF b = a THEN Current(a) ELSE token[b]
      /\ Current(a)[2] = clearGen[ChatOf[a]] /\ clearGen[ChatOf[a]] \in Nat
      /\ UNCHANGED <<taken, logged, visible, lost, clearGen, node, stateLock, missed>>
  BY <1>0, Kinds DEF NoticeBegins, Current, Typed, IInv
<1> USE <1>0, <1>1, MessageFacts, Kinds DEF MInv, Known, Heard, InTree, HasStatus, InHand, InReplyHand
<1>2. NothingAhead'
  BY DEF NothingAhead
<1>3. TakenByKind'
  BY DEF TakenByKind, NothingAhead, AdmittedIsDone
<1>4. Roles'
  BY DEF Roles
<1>5. Epochs'
  BY DEF Epochs, AdmittedIsDone, LogIsTaken
<1>6. FreshIsLogged'
  BY DEF FreshIsLogged, Epochs, TakenByKind, AdmittedIsDone
<1>7. LogIsTaken'
  BY DEF LogIsTaken, Roles
<1>8. Tracked'
  BY DEF Tracked, LogIsTaken, TakenByKind, FreshIsLogged, NothingAhead, Roles
<1>9. OldIsInHand'
  BY DEF OldIsInHand, Roles, Tracked, Epochs, LogIsTaken, TakenByKind, FreshIsLogged, NothingAhead
<1> QED
  BY <1>2, <1>3, <1>4, <1>5, <1>6, <1>7, <1>8, <1>9

\* A notice is of the present.
LEMMA NoticeKeptAtOnceMessages ==
  ASSUME IInv, MInv, NEW a \in Actors, NoticeFinalized(a), at'[a] = "done"
  PROVE  MInv'
<1>0. IInv /\ Typed /\ AdmittedIsDone /\ HolderIsInside /\ MInv
  BY DEF IInv
<1>1. /\ at[a] = "sent" /\ a \in Notices /\ stateLock = Nobody
      /\ \A b \in Actors : at'[b] = IF b = a THEN "done" ELSE at[b]
      /\ logged' = logged \cup {Out(a)}
      /\ UNCHANGED <<taken, token, visible, lost, clearGen, node, stateLock, missed>>
  BY <1>0, Kinds DEF NoticeFinalized, Typed, IInv
<1> USE <1>0, <1>1, MessageFacts, Kinds DEF MInv, Known, Heard, InTree, HasStatus, InHand, InReplyHand
<1>2. NothingAhead'
  BY DEF NothingAhead
<1>3. TakenByKind'
  BY DEF TakenByKind, NothingAhead, AdmittedIsDone
<1>4. Roles'
  BY DEF Roles
<1>5. Epochs'
  BY DEF Epochs, AdmittedIsDone, LogIsTaken
<1>6. FreshIsLogged'
  BY DEF FreshIsLogged, Epochs, TakenByKind, AdmittedIsDone
<1>7. LogIsTaken'
  BY DEF LogIsTaken, Roles
<1>8. Tracked'
  BY DEF Tracked, LogIsTaken, TakenByKind, FreshIsLogged, NothingAhead, Roles
<1>9. OldIsInHand'
  BY DEF OldIsInHand, Roles, Tracked, Epochs, LogIsTaken, TakenByKind, FreshIsLogged, NothingAhead
<1> QED
  BY <1>2, <1>3, <1>4, <1>5, <1>6, <1>7, <1>8, <1>9

\* Or it is too old.
LEMMA NoticeDroppedMessages ==
  ASSUME IInv, MInv, NEW a \in Actors, NoticeFinalized(a), at'[a] = "deleting"
  PROVE  MInv'
<1>0. IInv /\ Typed /\ AdmittedIsDone /\ HolderIsInside /\ MInv
  BY DEF IInv
<1>1. /\ at[a] = "sent" /\ a \in Notices /\ stateLock = Nobody
      /\ \A b \in Actors : at'[b] = IF b = a THEN "deleting" ELSE at[b]
      /\ \A b \in Actors : taken'[b] = IF b = a THEN {Out(a)} ELSE taken[b]
      /\ UNCHANGED <<logged, token, visible, lost, clearGen, node, stateLock, missed>>
  BY <1>0, Kinds DEF NoticeFinalized, Typed, IInv
<1> USE <1>0, <1>1, MessageFacts, Kinds DEF MInv, Known, Heard, InTree, HasStatus, InHand, InReplyHand
<1>2. NothingAhead'
  BY DEF NothingAhead
<1>3. TakenByKind'
  BY DEF TakenByKind, NothingAhead, AdmittedIsDone
<1>4. Roles'
  BY DEF Roles
<1>5. Epochs'
  BY DEF Epochs, AdmittedIsDone, LogIsTaken
<1>6. FreshIsLogged'
  BY DEF FreshIsLogged, Epochs, TakenByKind, AdmittedIsDone
<1>7. LogIsTaken'
  BY DEF LogIsTaken, Roles
<1>8. Tracked'
  BY DEF Tracked, LogIsTaken, TakenByKind, FreshIsLogged, NothingAhead, Roles
<1>9. OldIsInHand'
  BY DEF OldIsInHand, Roles, Tracked, Epochs, LogIsTaken, TakenByKind, FreshIsLogged, NothingAhead
<1> QED
  BY <1>2, <1>3, <1>4, <1>5, <1>6, <1>7, <1>8, <1>9

\* It is deleted, or that fails.
LEMMA NoticeDiscardedMessages ==
  ASSUME IInv, MInv, NEW a \in Actors, NoticeDiscarded(a)
  PROVE  MInv'
<1>0. IInv /\ Typed /\ AdmittedIsDone /\ HolderIsInside /\ MInv
  BY DEF IInv
<1>1. /\ at[a] = "deleting" /\ a \in Notices
      /\ at'[a] \in {"deleted", "keeping"} /\ \A b \in Actors : b # a => at'[b] = at[b]
      /\ visible' \subseteq visible
      /\ at'[a] = "deleted" => visible' = visible \ taken[a]
      /\ UNCHANGED <<logged, token, taken, lost, clearGen, node, stateLock, missed>>
  BY <1>0, Kinds DEF NoticeDiscarded, Typed, IInv
<1> USE <1>0, <1>1, MessageFacts, Kinds DEF MInv, Known, Heard, InTree, HasStatus, InHand, InReplyHand
<1>2. NothingAhead'
  BY DEF NothingAhead
<1>3. TakenByKind'
  BY DEF TakenByKind, NothingAhead, AdmittedIsDone
<1>4. Roles'
  BY DEF Roles
<1>5. Epochs'
  BY DEF Epochs, AdmittedIsDone, LogIsTaken
<1>6. FreshIsLogged'
  BY DEF FreshIsLogged, Epochs, TakenByKind, AdmittedIsDone
<1>7. LogIsTaken'
  BY DEF LogIsTaken, Roles
<1>8. Tracked'
  BY DEF Tracked, LogIsTaken, TakenByKind, FreshIsLogged, NothingAhead, Roles
<1>9. OldIsInHand'
  BY DEF OldIsInHand, Roles, Tracked, Epochs, LogIsTaken, TakenByKind, FreshIsLogged, NothingAhead
<1> QED
  BY <1>2, <1>3, <1>4, <1>5, <1>6, <1>7, <1>8, <1>9

\* Then it is recorded after all.
LEMMA NoticeKeptMessages ==
  ASSUME IInv, MInv, NEW a \in Actors, NoticeKept(a)
  PROVE  MInv'
<1>0. IInv /\ Typed /\ AdmittedIsDone /\ HolderIsInside /\ MInv
  BY DEF IInv
<1>1. /\ at[a] = "keeping" /\ stateLock = Nobody
      /\ \A b \in Actors : at'[b] = IF b = a THEN "done" ELSE at[b]
      /\ logged' = logged \cup {Out(a)}
      /\ UNCHANGED <<visible, token, taken, lost, clearGen, node, stateLock, missed>>
  BY <1>0, Kinds DEF NoticeKept, Typed, IInv
<1> USE <1>0, <1>1, MessageFacts, Kinds DEF MInv, Known, Heard, InTree, HasStatus, InHand, InReplyHand
<1>2. NothingAhead'
  BY DEF NothingAhead
<1>3. TakenByKind'
  BY DEF TakenByKind, NothingAhead, AdmittedIsDone
<1>4. Roles'
  BY DEF Roles
<1>5. Epochs'
  BY DEF Epochs, AdmittedIsDone, LogIsTaken
<1>6. FreshIsLogged'
  BY DEF FreshIsLogged, Epochs, TakenByKind, AdmittedIsDone
<1>7. LogIsTaken'
  BY DEF LogIsTaken, Roles
<1>8. Tracked'
  BY DEF Tracked, LogIsTaken, TakenByKind, FreshIsLogged, NothingAhead, Roles
<1>9. OldIsInHand'
  BY DEF OldIsInHand, Roles, Tracked, Epochs, LogIsTaken, TakenByKind, FreshIsLogged, NothingAhead
<1> QED
  BY <1>2, <1>3, <1>4, <1>5, <1>6, <1>7, <1>8, <1>9


\* The steps that only move a task, end turns or take and give the lock.
LEMMA MovesMessages ==
  ASSUME IInv, MInv, DrainingHolds, NEW a \in Actors,
         \/ ReplyResolved(a) \/ DeliveryFails(a) \/ VoicesJoined(a) \/ StopEverything(a)
         \/ StopReply(a) \/ StopDrained(a) \/ (ClearReply(a) /\ at'[a] = "sending")
         \/ StopRaises(a) \/ StopReplyRaises(a) \/ ClearReplyRaises(a)
  PROVE  MInv'
<1>0. Typed /\ HolderIsInside /\ Roles
  BY DEF IInv, MInv
<1>1. CASE ReplyResolved(a) \/ DeliveryFails(a) \/ VoicesJoined(a)
  <2>1. \E to \in {"sending", "done", "locking"} :
          /\ \A b \in Actors : at'[b] = IF b = a THEN to ELSE at[b]
          /\ to = "sending" => at[a] = "resolving" /\ a \in Turns
          /\ to = "done" => at[a] = "sending"
          /\ to = "locking" => at[a] = "voices"
    BY <1>0, <1>1 DEF ReplyResolved, DeliveryFails, VoicesJoined, Typed
  <2>2. UNCHANGED <<token, taken, logged, visible, lost, clearGen, node, stateLock, missed>>
    BY <1>1 DEF ReplyResolved, DeliveryFails, VoicesJoined
  <2> QED
    BY <1>0, <2>1, <2>2, Kinds, MoveKeeps DEF Roles, InTree, HasStatus
<1>2. CASE StopEverything(a) \/ StopReply(a)
  <2>1. \A b \in Actors : at'[b] = IF b = a THEN "draining" ELSE at[b]
    BY <1>0, <1>2 DEF StopEverything, StopReply, Typed
  <2>2. UNCHANGED <<token, taken, logged, visible, lost, clearGen, missed>> /\ stateLock = Nobody
        /\ at[a] = "locking" /\ a \in Stops
    BY <1>2 DEF StopEverything, StopReply
  <2>3. \A t \in Turns : \/ node'[t] = node[t]
                         \/ node[t] = "live" /\ node'[t] = "over"
    <3>1. CASE StopEverything(a)
      BY <1>0, <3>1 DEF StopEverything, Typed
    <3>2. CASE StopReply(a)
      BY <1>0, <3>2 DEF StopReply, Typed
    <3> QED
      BY <1>2, <3>1, <3>2
  <2> QED
    BY <2>1, <2>2, <2>3, Kinds, MoveKeeps DEF InTree, HasStatus
<1>3. CASE StopDrained(a)
  <2>1. \E to \in {"sending", "done"} : \A b \in Actors : at'[b] = IF b = a THEN to ELSE at[b]
    BY <1>0, <1>3 DEF StopDrained, Typed
  <2>2. UNCHANGED <<token, taken, logged, visible, lost, clearGen, node, missed>>
        /\ at[a] = "draining" /\ a \in Stops
    BY <1>3 DEF StopDrained
  <2>3. \A c \in Clears : stateLock # c
    BY <2>2, Kinds DEF DrainingHolds
  <2> QED
    BY <2>1, <2>2, <2>3, Kinds, MoveKeeps DEF InTree, HasStatus
<1>4. CASE ClearReply(a) /\ at'[a] = "sending"
  <2>1. /\ \A b \in Actors : at'[b] = IF b = a THEN "sending" ELSE at[b]
        /\ at[a] = "locking" /\ a \in ReplyClears
        /\ UNCHANGED <<token, taken, logged, visible, lost, clearGen, node, stateLock, missed>>
    BY <1>0, <1>4 DEF ClearReply, Typed
  <2> QED
    BY <2>1, Kinds, MoveKeeps DEF InTree, HasStatus
<1>5. CASE StopRaises(a) \/ StopReplyRaises(a) \/ ClearReplyRaises(a)
  <2>1. /\ \A b \in Actors : at'[b] = IF b = a THEN "done" ELSE at[b]
        /\ at[a] = "locking" /\ a \in Stops \cup ReplyClears
    BY <1>0, <1>5 DEF StopRaises, StopReplyRaises, ClearReplyRaises, Typed
  <2>2. UNCHANGED <<token, taken, logged, visible, lost, clearGen, stateLock>>
        /\ missed \subseteq missed'
    BY <1>5 DEF StopRaises, StopReplyRaises, ClearReplyRaises
  <2>3. \A t \in Turns : \/ node'[t] = node[t]
                         \/ node[t] = "live" /\ node'[t] = "over"
    <3>1. CASE StopRaises(a)
      BY <1>0, <3>1 DEF StopRaises, Typed
    <3>2. CASE ClearReplyRaises(a)
      BY <1>0, <3>2 DEF ClearReplyRaises, Typed
    <3> QED
      BY <1>5, <3>1, <3>2 DEF StopReplyRaises
  <2> QED
    BY <2>1, <2>2, <2>3, Kinds, MoveKeeps DEF InTree, HasStatus
<1> QED
  BY <1>1, <1>2, <1>3, <1>4, <1>5

\* Every step keeps the lock with the stop that drains.
LEMMA DrainingStep ==
  IInv /\ MInv /\ DrainingHolds /\ [WorkflowNext]_workflowVars => DrainingHolds'
<1> SUFFICES ASSUME IInv, MInv, DrainingHolds, [WorkflowNext]_workflowVars PROVE DrainingHolds'
  OBVIOUS
<1> USE DEF DrainingHolds
<1>0. Typed /\ LogIsTaken
  BY DEF IInv, MInv
<1>1. CASE UNCHANGED workflowVars
  BY <1>1 DEF workflowVars
<1>2. ASSUME NEW t \in Turns, NodeEnds(t) PROVE DrainingHolds'
  BY <1>2 DEF NodeEnds
<1>3. ASSUME NEW a \in Actors, Arrives(a) \/ NoticeBegins(a) PROVE DrainingHolds'
  BY <1>0, <1>3 DEF Arrives, NoticeBegins, Typed
<1>4. ASSUME NEW a \in Actors, ActorSteps(a) PROVE DrainingHolds'
  <2>1. CASE \/ Received(a) \/ ReplyResolved(a) \/ Delivered(a) \/ DeliveryFails(a)
             \/ Recorded(a) \/ Admit(a) \/ VoicesJoined(a) \/ ClearFailed(a)
    BY <1>0, <2>1 DEF Received, ReplyResolved, Delivered, DeliveryFails, Recorded, Admit,
       VoicesJoined, ClearFailed, Typed
  <2>2. CASE \/ ClearReply(a) \/ ClearReplyRaises(a) \/ StopRaises(a) \/ StopReplyRaises(a)
             \/ DeleteTaken(a) \/ ForgetTracked(a) \/ NoticeFinalized(a) \/ NoticeDiscarded(a) \/ NoticeKept(a)
    <3>1. stateLock' = stateLock /\ \A b \in Actors : at'[b] = "draining" => at[b] = "draining"
      BY <1>0, <2>2 DEF ClearReply, ClearReplyRaises, StopRaises, StopReplyRaises, DeleteTaken, ForgetTracked, NoticeFinalized,
         NoticeDiscarded, NoticeKept, Typed
    <3> QED
      BY <3>1
  <2>3. CASE StopEverything(a) \/ StopReply(a) \/ StopDrained(a)
    BY <1>0, <2>3, Kinds DEF StopEverything, StopReply, StopDrained, Typed
  <2>4. CASE \/ Collect(a) \/ Detach(a) \/ DetachRaises(a)
             \/ StoreCleared(a) \/ StoreFails(a) \/ StoreTorn(a)
    <3>1. \A b \in Actors : at'[b] = "draining" => at[b] = "draining"
      BY <1>0, <2>4 DEF Collect, Detach, DetachRaises, StoreCleared, StoreFails, StoreTorn, Typed
    <3>2. Collect(a) \/ Detach(a) \/ DetachRaises(a) => DrainingHolds'
      BY <1>0, <3>1, Kinds DEF Collect, Detach, DetachRaises
    <3>3. ASSUME StoreCleared(a) \/ StoreFails(a) \/ StoreTorn(a),
                 NEW b \in Actors, at[b] = "draining"
          PROVE  FALSE
      BY <3>3, <1>0, Kinds DEF StoreCleared, StoreFails, StoreTorn, LogIsTaken
    <3> QED
      BY <2>4, <3>1, <3>2, <3>3
  <2> QED
    BY <1>4, <2>1, <2>2, <2>3, <2>4 DEF ActorSteps
<1> QED
  BY <1>1, <1>2, <1>3, <1>4 DEF WorkflowNext

\* Every step keeps what the messages rest on.
LEMMA MessagesStep ==
  IInv /\ MInv /\ DrainingHolds /\ [WorkflowNext]_workflowVars => MInv'
<1> SUFFICES ASSUME IInv, MInv, DrainingHolds, [WorkflowNext]_workflowVars PROVE MInv'
  OBVIOUS
<1>0. Typed
  BY DEF IInv
<1>1. CASE UNCHANGED workflowVars
  BY <1>1 DEF workflowVars, MInv, NothingAhead, TakenByKind, Roles, Epochs, FreshIsLogged,
     LogIsTaken, Tracked, OldIsInHand, Known, Heard, InTree, HasStatus, InHand, InReplyHand
<1>2. ASSUME NEW t \in Turns, NodeEnds(t) PROVE MInv'
  <2>1. \A u \in Turns : /\ InTree(u)' <=> InTree(u)
                         /\ HasStatus(u)' <=> HasStatus(u)
                         /\ node[u] = "removed" <=> node'[u] = "removed"
                         /\ node[u] \in {"faceless", "bare"} <=> node'[u] \in {"faceless", "bare"}
    BY <1>0, <1>2 DEF NodeEnds, Typed, InTree, HasStatus
  <2>2. UNCHANGED <<at, token, taken, logged, visible, lost, clearGen, stateLock, missed>>
    BY <1>2 DEF NodeEnds
  <2> QED
    BY <2>1, <2>2 DEF MInv, NothingAhead, TakenByKind, Roles, Epochs, FreshIsLogged,
       LogIsTaken, Tracked, OldIsInHand, Known, Heard, InHand, InReplyHand
<1>3. ASSUME NEW a \in Actors, Arrives(a) \/ NoticeBegins(a) PROVE MInv'
  BY <1>3, ArrivesMessages, NoticeBeginsMessages
<1>4. ASSUME NEW a \in Actors, ActorSteps(a) PROVE MInv'
  <2>1. CASE Received(a) \/ Delivered(a) \/ Recorded(a) \/ Admit(a)
    BY <2>1, ReceivedMessages, DeliveredMessages, RecordedMessages, GivenUpMessages,
       AdmittedMessages
  <2>2. CASE \/ Collect(a) \/ Detach(a) \/ DetachRaises(a) \/ StoreCleared(a)
             \/ StoreFails(a) \/ StoreTorn(a) \/ ClearFailed(a)
    BY <2>2, CollectMessages, DetachMessages, DetachRaisesMessages, StoreClearedMessages,
       StoreFailsMessages, StoreTornMessages, ClearFailedMessages
  <2>3. CASE ClearReply(a)
    <3>1. at'[a] \in {"sending", "deleting"}
      BY <1>0, <2>3 DEF ClearReply, Typed
    <3> QED
      BY <2>3, <3>1, ClearReplyMessages, MovesMessages
  <2>4. CASE NoticeFinalized(a)
    <3>1. at'[a] \in {"done", "deleting"}
      BY <1>0, <2>4 DEF NoticeFinalized, Typed
    <3> QED
      BY <2>4, <3>1, NoticeKeptAtOnceMessages, NoticeDroppedMessages
  <2>5. CASE DeleteTaken(a) \/ ForgetTracked(a) \/ NoticeDiscarded(a) \/ NoticeKept(a)
    BY <2>5, DeleteTakenMessages, ForgetTrackedMessages, NoticeDiscardedMessages,
       NoticeKeptMessages
  <2>6. CASE \/ ReplyResolved(a) \/ DeliveryFails(a) \/ VoicesJoined(a)
             \/ StopEverything(a) \/ StopRaises(a) \/ StopReply(a) \/ StopReplyRaises(a)
             \/ StopDrained(a) \/ ClearReplyRaises(a)
    BY <2>6, MovesMessages
  <2> QED
    BY <1>4, <2>1, <2>2, <2>3, <2>4, <2>5, <2>6 DEF ActorSteps
<1> QED
  BY <1>1, <1>2, <1>3, <1>4 DEF WorkflowNext

\* Clears are thorough, however many prompts, commands and notices meet, whatever is refused
\* and wherever a clear raises: whatever is in a chat is tracked, in the hands of its task or
\* of a clear, or named as lost; and nothing older than the last clear stays but the turns
\* that a raising clear did not come to, which are named as missed, and only as long as they
\* are in their trees or in the hands of a clear of a reply.
THEOREM ClearsReachAll == WorkflowSpec => []ClearsAreThorough
<1>1. WorkflowInit => MInv /\ DrainingHolds
  <2> SUFFICES ASSUME WorkflowInit PROVE MInv /\ DrainingHolds
    OBVIOUS
  <2>1. /\ visible = {} /\ logged = {} /\ \A a \in Actors : taken[a] = {} /\ token[a][2] = 0
        /\ \A c \in Chats : clearGen[c] = 0
        /\ \A a \in Actors : at[a] \in {"unsent", "absent"}
        /\ \A t \in Turns : node[t] = "none"
    BY DEF WorkflowInit
  <2> QED
    BY <2>1, Kinds DEF MInv, NothingAhead, TakenByKind, Roles, Epochs, FreshIsLogged,
       LogIsTaken, Tracked, OldIsInHand, Known, Heard, InTree, HasStatus, DrainingHolds
<1>2. ASSUME IInv, MInv, NEW m \in visible \ lost
      PROVE  /\ \/ m \in logged \cup Referenced \/ at[Owner(m)] # "done"
                \/ \E c \in Actors : m \in taken[c] /\ at[c] \notin {"deleted", "done"}
                \/ m[1] = "out" /\ Owner(m) \in Stops \cup ReplyClears
             /\ /\ Owner(m) \in Turns \/ (Owner(m) \in Stops /\ m[1] = "in")
                /\ at[Owner(m)] = "done" /\ token[Owner(m)][2] < clearGen[ChatOf[Owner(m)]]
                => \/ \E c \in Clears : /\ ChatOf[c] = ChatOf[Owner(m)]
                                        /\ at[c] \in {"detached", "torn", "deleting"}
                   \/ /\ Owner(m) \in missed
                      /\ \/ InTree(Owner(m))
                         \/ (\E r \in ReplyClears : m \in taken[r] /\ at[r] = "deleting")
  <2>1. PICK a \in Actors : m = In(a) \/ m = Out(a)
    BY <1>2 DEF IInv, Typed, Messages, In, Out
  <2>2. Owner(m) = a /\ (m = In(a) => m[1] = "in") /\ (m = Out(a) => m[1] = "out")
    BY <2>1 DEF In, Out, Owner
  <2>3. CASE at[a] = "done"
    <3>1. Heard(a) /\ (m = In(a) => a \notin Notices) /\ (m = Out(a) => a \notin Clears)
      BY <1>2, <2>3 DEF MInv, Roles, Heard
    <3>2. \/ m \in logged \/ InHand(m) \/ InReplyHand(m)
          \/ m \in Referenced /\ a \in Turns /\ InTree(a)
          \/ m[1] = "out" /\ Owner(m) \in Stops \cup ReplyClears
      BY <1>2, <2>1, <2>2, <2>3, <3>1, MessageFacts, Kinds
         DEF MInv, Tracked, Actors, InTree, HasStatus
    <3>3. a \in Turns \/ (a \in Stops /\ m[1] = "in") =>
             (token[a][2] < clearGen[ChatOf[a]] /\ m \in logged => InHand(m))
      BY <1>2, <2>1, <2>2, <2>3, <3>1, Kinds DEF MInv, OldIsInHand
    <3>4. a \in Turns /\ InTree(a) /\ token[a][2] < clearGen[ChatOf[a]] => a \in missed
      <4>1. token[a][2] \in Nat /\ clearGen[ChatOf[a]] \in Nat
        BY <1>2, Kinds DEF IInv, Typed, Tokens
      <4> QED
        BY <1>2, <4>1 DEF MInv, Epochs
    <3> QED
      BY <2>2, <3>2, <3>3, <3>4, Kinds DEF InHand, InReplyHand
  <2> QED
    BY <2>2, <2>3
<1>3. IInv /\ MInv => ClearsAreThorough
  BY <1>2 DEF ClearsAreThorough, NothingLeftBehind, ClearedIsGone
<1> QED
  BY Inductive, <1>1, <1>3, MessagesStep, DrainingStep, PTL DEF WorkflowSpec
================================================================================
