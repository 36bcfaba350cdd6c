---------------------------- MODULE MessagingWorkflow ----------------------------
(* The messages and commands of the messaging bridge, from their arrival to the     *)
(* message they leave in the chat: prompts that are admitted as turns, standalone   *)
(* stops and clears, clears of a reply, and the startup notice. Each is a task that *)
(* sends and deletes outside the workflow's state lock and decides under it. The    *)
(* trees are here only the state of each turn's node; ConversationTrees has them.   *)
EXTENDS Naturals, FiniteSets

CONSTANTS
  Turns, Stops, Clears,     \* prompts, "/stop" (of all or of a reply) and "/clear"
  ReplyClears,              \* "/clear" in reply to a message
  Notices,                  \* startup notices
  Chats, ChatOf,            \* chats, and the chat of each of the above
  Nobody,
  Crowd,                    \* bound: how many of them come
  MaxRefusals               \* bound: platform calls and writes that fail

Actors == Turns \cup Stops \cup Clears \cup ReplyClears \cup Notices

ASSUME WorkflowAssumption ==
  /\ ChatOf \in [Actors -> Chats] /\ Nobody \notin Actors
  /\ Crowd \in Nat /\ MaxRefusals \in Nat
  /\ Turns \cap (Stops \cup Clears \cup ReplyClears \cup Notices) = {}
  /\ Stops \cap (Clears \cup ReplyClears \cup Notices) = {}
  /\ Clears \cap (ReplyClears \cup Notices) = {} /\ ReplyClears \cap Notices = {}

VARIABLES
  stateLock,                \* who holds _state_lock across an await
  stopGen, clearGen,        \* _stop_generation, _clear_generations
  at,                       \* where each actor is
  token,                    \* the generations an actor has read
  reply,                    \* the message a turn replies to
  node,                     \* the node of each turn in the trees
  logged,                   \* the managed message log
  visible,                  \* the messages in the chats
  taken,                    \* the messages an actor is about to delete
  refusals, lost, missed    \* history: failures, the messages they have cost, and the
                            \* turns that a stop or a clear did not come to

flows == <<at, token, reply, taken>>
messages == <<logged, visible>>
history == <<refusals, lost, missed>>
workflowVars == <<stateLock, stopGen, clearGen, flows, node, messages, history>>

In(a) == <<"in", a>>
Out(a) == <<"out", a>>
Owner(m) == m[2]
OfChat(S, c) == {m \in S : ChatOf[Owner(m)] = c}
Current(a) == <<stopGen, clearGen[ChatOf[a]]>>

\* A node whose status has been cleared is over: faceless while the task of its claim is
\* still there, when the drain of the clear has timed out, and bare then.
InTree(t) == node[t] \in {"live", "over", "faceless", "bare"}
HasStatus(t) == node[t] \in {"live", "over"}
Faceless == {t \in Turns : node[t] = "faceless"}

\* What the trees refer to, and the literal reply subtree of such a message.
Referenced ==
  {In(t) : t \in {u \in Turns : InTree(u)}} \cup {Out(t) : t \in {u \in Turns : HasStatus(u)}}
Above(m) == IF m[1] = "in" THEN reply[Owner(m)] ELSE In(Owner(m))

Subtree(m) ==
  LET Closed(S) == m \in S /\ \A r \in Referenced : Above(r) \in S => r \in S
  IN  {r \in Referenced : \A S \in SUBSET Referenced : Closed(S) => r \in S}

\* T is made of whole trees, none of them with a faceless node.
Sound(T) ==
  /\ T \cap Faceless = {}
  /\ \A t \in Turns : InTree(t) /\ reply[t] # Nobody => (t \in T <=> Owner(reply[t]) \in T)

WorkflowInit ==
  /\ stateLock = Nobody /\ stopGen = 0 /\ clearGen = [c \in Chats |-> 0]
  /\ at \in [Actors -> {"unsent", "absent"}]
  /\ Cardinality({a \in Actors : at[a] = "unsent"}) <= Crowd
  /\ token = [a \in Actors |-> <<0, 0>>]
  /\ reply = [t \in Turns |-> Nobody]
  /\ node = [t \in Turns |-> "none"] /\ logged = {} /\ visible = {}
  /\ taken = [a \in Actors |-> {}] /\ refusals = 0 /\ lost = {}
  /\ missed = {}

Step(a, from, to) == at[a] = from /\ at' = [at EXCEPT ![a] = to]
Refused == refusals < MaxRefusals /\ refusals' = refusals + 1
Unlocked == stateLock = Nobody
Releases == stateLock' = Nobody

--------------------------------------------------------------------------------
\* A message is in the chat before the bridge receives it.
Arrives(a) ==
  /\ a \notin Notices /\ Step(a, "unsent", "arrived") /\ visible' = visible \cup {In(a)}
  /\ UNCHANGED <<stateLock, stopGen, clearGen, token, reply, taken, node, logged, history>>

\* handle_message: the generations are read and the message is recorded, except a
\* standalone clear, whose command deletes its own message.
Received(a) ==
  /\ Unlocked
  /\ Step(a, "arrived", IF a \in Turns THEN "resolving" ELSE "voices")
  /\ token' = [token EXCEPT ![a] = Current(a)]
  /\ logged' = IF a \in Clears THEN logged ELSE logged \cup {In(a)}
  /\ UNCHANGED <<stateLock, stopGen, clearGen, reply, taken, node, visible, history>>

\* The reply is resolved: an unknown message starts a tree of its own.
ReplyResolved(t) ==
  /\ t \in Turns /\ Step(t, "resolving", "sending")
  /\ \E m \in {Nobody} \cup OfChat(Referenced, ChatOf[t]) : reply' = [reply EXCEPT ![t] = m]
  /\ UNCHANGED <<stateLock, stopGen, clearGen, token, taken, node, messages, history>>

\* A message is delivered, or its delivery fails and the task with it.
Delivered(a) ==
  /\ Step(a, "sending", "sent") /\ visible' = visible \cup {Out(a)}
  /\ UNCHANGED <<stateLock, stopGen, clearGen, token, reply, taken, node, logged, history>>

DeliveryFails(a) ==
  /\ Step(a, "sending", "done") /\ Refused
  /\ UNCHANGED <<stateLock, stopGen, clearGen, token, reply, taken, node, messages, lost, missed>>

\* The task resumes after its delivery and records the message without the lock: the
\* status of a turn, or the feedback of a command.
Recorded(a) ==
  /\ a \notin Notices /\ Step(a, "sent", IF a \in Turns THEN "admitting" ELSE "done")
  /\ logged' = logged \cup {Out(a)}
  /\ UNCHANGED <<stateLock, stopGen, clearGen, token, reply, taken, node, visible, history>>

\* Mutant of Admit: the generations are not looked at again.
AdmitUnchecked(t) ==
  /\ t \in Turns /\ Unlocked
  /\ Step(t, "admitting", "done") /\ node' = [node EXCEPT ![t] = "live"]
  /\ UNCHANGED <<stateLock, stopGen, clearGen, token, reply, taken, messages, history>>

\* _admit_if_current: the generations are checked, and the parent is looked up again.
Admit(t) ==
  /\ t \in Turns /\ Unlocked
  /\ IF token[t] # Current(t) \/ reply[t] \notin Referenced \cup {Nobody}
     THEN /\ Step(t, "admitting", "deleting")
          /\ taken' = [taken EXCEPT ![t] =
                         {Out(t)} \cup IF token[t] = Current(t) THEN {In(t)} ELSE {}]
          /\ UNCHANGED node
     ELSE /\ Step(t, "admitting", "done") /\ node' = [node EXCEPT ![t] = "live"]
          /\ UNCHANGED taken
  /\ UNCHANGED <<stateLock, stopGen, clearGen, token, reply, messages, history>>

\* The turn of a node ends by itself; so does the task of a faceless one.
NodeEnds(t) ==
  /\ \/ node[t] = "live" /\ node' = [node EXCEPT ![t] = "over"]
     \/ node[t] = "faceless" /\ node' = [node EXCEPT ![t] = "bare"]
  /\ UNCHANGED <<stateLock, stopGen, clearGen, flows, messages, history>>

--------------------------------------------------------------------------------
\* A command has joined the voice notes it stops, before it takes the lock.
VoicesJoined(a) ==
  /\ Step(a, "voices", "locking")
  /\ UNCHANGED <<stateLock, stopGen, clearGen, token, reply, taken, node, messages, history>>

\* _stop_all_tasks: every node ends with the generation, and the lock is kept while
\* the tasks drain and the CLI sessions stop.
StopEverything(a) ==
  /\ a \in Stops /\ Unlocked /\ Faceless = {} /\ Step(a, "locking", "draining")
  /\ stateLock' = a /\ stopGen' = stopGen + 1
  /\ node' = [t \in Turns |-> IF node[t] = "live" THEN "over" ELSE node[t]]
  /\ UNCHANGED <<clearGen, token, reply, taken, messages, history>>

\* A faceless node makes cancel_all raise when the generation has advanced: the trees
\* that come before it are stopped, its own and the rest are not, and the command ends
\* without the lock, the drain, the CLI sessions' stop and an answer.
StopRaises(a) ==
  /\ a \in Stops /\ Unlocked /\ Faceless # {} /\ Step(a, "locking", "done")
  /\ stopGen' = stopGen + 1
  /\ \E T \in SUBSET Turns : LET ended == {t \in T : node[t] = "live"} IN
       /\ Sound(T)
       /\ node' = [t \in Turns |-> IF t \in ended THEN "over" ELSE node[t]]
       /\ missed' = missed \cup {t \in Turns \ T : node[t] = "live"}
  /\ UNCHANGED <<stateLock, clearGen, token, reply, taken, messages, refusals, lost>>

\* _stop_reply: the node replied to ends, if it has not ended; there may be none. The
\* generation is left alone, and the lock is kept while the node's task drains.
StopReply(a) ==
  /\ a \in Stops /\ Unlocked /\ Step(a, "locking", "draining") /\ stateLock' = a
  /\ \/ UNCHANGED node
     \/ \E t \in Turns : /\ ChatOf[t] = ChatOf[a] /\ node[t] = "live"
                        /\ node' = [node EXCEPT ![t] = "over"]
  /\ UNCHANGED <<stopGen, clearGen, token, reply, taken, messages, history>>

\* A stop in reply to the prompt of a faceless node raises before it does anything.
StopReplyRaises(a) ==
  /\ a \in Stops /\ Unlocked /\ Step(a, "locking", "done")
  /\ \E t \in Faceless : ChatOf[t] = ChatOf[a]
  /\ UNCHANGED <<stateLock, stopGen, clearGen, token, reply, taken, node, messages, history>>

\* Mutant of StopDrained: the lock is not given back.
StopDrainedLocked(a) ==
  /\ a \in Stops /\ (Step(a, "draining", "sending") \/ Step(a, "draining", "done"))
  /\ UNCHANGED stateLock
  /\ UNCHANGED <<stopGen, clearGen, token, reply, taken, node, messages, history>>

\* The stop is over; it answers when no status message can show it.
StopDrained(a) ==
  /\ a \in Stops /\ (Step(a, "draining", "sending") \/ Step(a, "draining", "done"))
  /\ Releases
  /\ UNCHANGED <<stopGen, clearGen, token, reply, taken, node, messages, history>>

--------------------------------------------------------------------------------
\* _clear_chat: all that is tracked is collected,
Collect(a) ==
  /\ a \in Clears /\ Unlocked /\ Step(a, "locking", "collected") /\ stateLock' = a
  /\ taken' = [taken EXCEPT ![a] =
                 OfChat(logged \cup Referenced, ChatOf[a])]
  /\ UNCHANGED <<stopGen, clearGen, token, reply, node, messages, history>>

\* the generation advances and the trees of the chat are detached and drained,
Detach(a) ==
  /\ a \in Clears /\ Step(a, "collected", "detached")
  /\ \A t \in Faceless : ChatOf[t] # ChatOf[a]
  /\ clearGen' = [clearGen EXCEPT ![ChatOf[a]] = @ + 1]
  /\ node' = [t \in Turns |-> IF InTree(t) /\ ChatOf[t] = ChatOf[a] THEN "removed" ELSE node[t]]
  /\ UNCHANGED <<stateLock, stopGen, token, reply, taken, messages, history>>

\* or clear_scope raises at a faceless node: the trees that come before it are detached,
\* its own and the rest stay,
DetachRaises(a) ==
  /\ a \in Clears /\ Step(a, "collected", "torn")
  /\ \E t \in Faceless : ChatOf[t] = ChatOf[a]
  /\ clearGen' = [clearGen EXCEPT ![ChatOf[a]] = @ + 1]
  /\ \E T \in SUBSET Turns :
       LET ofChat == {t \in Turns : InTree(t) /\ ChatOf[t] = ChatOf[a]} IN
       /\ Sound(T)
       /\ node' = [t \in Turns |-> IF t \in ofChat \cap T THEN "removed" ELSE node[t]]
       /\ missed' = missed \cup (ofChat \ T)
  /\ UNCHANGED <<stateLock, stopGen, token, reply, taken, messages, refusals, lost>>

\* and the store forgets the chat and writes itself.
StoreCleared(a) ==
  /\ a \in Clears /\ Step(a, "detached", "deleting") /\ Releases
  /\ logged' = logged \ OfChat(logged, ChatOf[a])
  /\ taken' = [taken EXCEPT ![a] = @ \cup {In(a)}]
  /\ UNCHANGED <<stopGen, clearGen, token, reply, node, visible, history>>

\* A write that fails has already cost the store its list: the deletions are not made.
StoreFails(a) ==
  /\ a \in Clears /\ Step(a, "detached", "failing") /\ Releases /\ Refused
  /\ logged' = logged \ OfChat(logged, ChatOf[a])
  /\ lost' = lost \cup taken[a] /\ taken' = [taken EXCEPT ![a] = {}]
  /\ UNCHANGED <<stopGen, clearGen, token, reply, node, visible, missed>>

\* The store forgets the chat all the same, and what was collected is not deleted, whether
\* the write succeeds or not: all but what trees still refer to is out of reach.
StoreTorn(a) ==
  /\ a \in Clears /\ Step(a, "torn", "failing") /\ Releases
  /\ logged' = logged \ OfChat(logged, ChatOf[a])
  /\ lost' = lost \cup (taken[a] \ Referenced) /\ taken' = [taken EXCEPT ![a] = {}]
  /\ UNCHANGED <<stopGen, clearGen, token, reply, node, visible, refusals, missed>>

\* Mutant of ClearFailed: the command is not recorded.
ClearFailedSilently(a) ==
  /\ Unlocked /\ Step(a, "failing", "done")
  /\ UNCHANGED <<stateLock, stopGen, clearGen, token, reply, taken, node, messages, history>>

\* A clear that fails is recorded, so that a later one deletes it.
ClearFailed(a) ==
  /\ Unlocked /\ Step(a, "failing", "done") /\ logged' = logged \cup {In(a)}
  /\ UNCHANGED <<stateLock, stopGen, clearGen, token, reply, taken, node, visible, history>>

\* _clear_reply: the subtree is detached, or there is nothing to clear and it says so. A
\* clear of a status ends its node and takes the status off it.
ClearReply(a) ==
  /\ a \in ReplyClears /\ Unlocked
  /\ \/ /\ Step(a, "locking", "sending") /\ UNCHANGED <<node, taken>>
     \/ \E m \in OfChat(Referenced, ChatOf[a]) : LET gone == Subtree(m) IN
          /\ \A t \in Faceless : In(t) \notin gone
          /\ Step(a, "locking", "deleting")
          /\ taken' = [taken EXCEPT ![a] = gone \cup {In(a)}]
          /\ \E face \in {"faceless", "bare"} :
               /\ face = "faceless" => (\E T \in SUBSET Turns : Sound(T) /\ Owner(m) \in T)
               /\ node' = [t \in Turns |-> IF In(t) \in gone THEN "removed"
                                          ELSE IF Out(t) \in gone THEN face ELSE node[t]]
  /\ UNCHANGED <<stateLock, stopGen, clearGen, token, reply, messages, history>>

\* A faceless node in the subtree makes it raise: some of the subtree's nodes have ended.
ClearReplyRaises(a) ==
  /\ a \in ReplyClears /\ Unlocked /\ Step(a, "locking", "done")
  /\ \E m \in OfChat(Referenced, ChatOf[a]) :
       LET nodes == {t \in Turns : In(t) \in Subtree(m)} IN
       /\ nodes \cap Faceless # {}
       /\ \E T \in SUBSET {t \in nodes : node[t] = "live"} :
            node' = [t \in Turns |-> IF t \in T THEN "over" ELSE node[t]]
  /\ UNCHANGED <<stateLock, stopGen, clearGen, token, reply, taken, messages, history>>

\* The taken messages are deleted, best effort, and then forgotten.
DeleteTaken(a) ==
  /\ a \notin Notices /\ Step(a, "deleting", IF a \in Clears THEN "done" ELSE "deleted")
  /\ \/ visible' = visible \ taken[a] /\ UNCHANGED <<refusals, lost>>
     \/ Refused /\ lost' = lost \cup taken[a] /\ UNCHANGED visible
  /\ UNCHANGED <<stateLock, stopGen, clearGen, token, reply, taken, node, logged, missed>>

ForgetTracked(a) ==
  /\ Step(a, "deleted", "done") /\ (a \in Notices => Unlocked)
  /\ logged' = logged \ taken[a]
  /\ UNCHANGED <<stateLock, stopGen, clearGen, token, reply, taken, node, visible, history>>

--------------------------------------------------------------------------------
\* publish_startup_notice: the generation is read before the notice is sent,
NoticeBegins(a) ==
  /\ a \in Notices /\ Unlocked /\ Step(a, "unsent", "sending")
  /\ token' = [token EXCEPT ![a] = Current(a)]
  /\ UNCHANGED <<stateLock, stopGen, clearGen, reply, taken, node, messages, history>>

\* and decides, when it has come back, whether the notice is kept; so does a startup
\* that has been cancelled meanwhile.
NoticeFinalized(a) ==
  /\ a \in Notices /\ Unlocked
  /\ \/ /\ token[a][2] = clearGen[ChatOf[a]] /\ Step(a, "sent", "done")
        /\ logged' = logged \cup {Out(a)} /\ UNCHANGED taken
     \/ /\ Step(a, "sent", "deleting") /\ taken' = [taken EXCEPT ![a] = {Out(a)}]
        /\ UNCHANGED logged
  /\ UNCHANGED <<stateLock, stopGen, clearGen, token, reply, node, visible, history>>

\* A notice that cannot be deleted is recorded instead.
NoticeDiscarded(a) ==
  /\ a \in Notices
  /\ \/ Step(a, "deleting", "deleted") /\ visible' = visible \ taken[a] /\ UNCHANGED refusals
     \/ Step(a, "deleting", "keeping") /\ Refused /\ UNCHANGED visible
  /\ UNCHANGED <<stateLock, stopGen, clearGen, token, reply, taken, node, logged, lost, missed>>

NoticeKept(a) ==
  /\ Unlocked /\ Step(a, "keeping", "done") /\ logged' = logged \cup {Out(a)}
  /\ UNCHANGED <<stateLock, stopGen, clearGen, token, reply, taken, node, visible, history>>

--------------------------------------------------------------------------------
ActorSteps(a) ==
  \/ Received(a) \/ ReplyResolved(a) \/ Delivered(a) \/ DeliveryFails(a) \/ Recorded(a)
  \/ Admit(a) \/ VoicesJoined(a) \/ StopEverything(a) \/ StopRaises(a) \/ StopReply(a)
  \/ StopReplyRaises(a) \/ StopDrained(a)
  \/ Collect(a) \/ Detach(a) \/ DetachRaises(a) \/ StoreCleared(a) \/ StoreFails(a)
  \/ StoreTorn(a) \/ ClearFailed(a)
  \/ ClearReply(a) \/ ClearReplyRaises(a) \/ DeleteTaken(a) \/ ForgetTracked(a)
  \/ NoticeFinalized(a) \/ NoticeDiscarded(a) \/ NoticeKept(a)

WorkflowNext ==
  \/ \E a \in Actors : Arrives(a) \/ NoticeBegins(a) \/ ActorSteps(a)
  \/ \E t \in Turns : NodeEnds(t)

\* Whoever holds the state lock goes on: what it waits for, the trees' drain and the
\* CLI sessions' stop, ends. That a message arrives or a turn ends is not promised.
HolderSteps == \E a \in Actors : stateLock = a /\ ActorSteps(a)

WorkflowSpec ==
  /\ WorkflowInit /\ [][WorkflowNext]_workflowVars /\ WF_workflowVars(HolderSteps)

--------------------------------------------------------------------------------
WorkflowTypeOK ==
  /\ stateLock \in Actors \cup {Nobody} /\ stopGen \in Nat /\ clearGen \in [Chats -> Nat]
  /\ node \in [Turns -> {"none", "live", "over", "faceless", "bare", "removed"}]
  /\ visible \cup logged \cup lost \subseteq {"in", "out"} \X Actors /\ missed \subseteq Turns

\* Stops and clears are boundaries: with no command in its critical section, every
\* turn that is live was written after the last stop and after the last clear of its
\* chat, however long its status message took to be delivered. Excepted by name are the
\* turns a stop or a clear did not come to when a faceless node made it raise: its
\* generation has advanced, but they run on.
Boundaries ==
  Unlocked => \A t \in Turns : node[t] = "live" => token[t] = Current(t) \/ t \in missed

\* No message is left behind: whatever is in a chat is in the log or in a tree, so that
\* a clear will delete it, or its task or a clear has yet to deal with it, or a
\* failure that the history names has cost it. The feedback of a command is excepted:
\* it is recorded without the lock, and a clear may be past its collection by then.
NothingLeftBehind ==
  \A m \in visible \ lost :
    \/ m \in logged \cup Referenced \/ at[Owner(m)] # "done"
    \/ \E a \in Actors : m \in taken[a] /\ at[a] \notin {"deleted", "done"}
    \/ m[1] = "out" /\ Owner(m) \in Stops \cup ReplyClears

\* A clear is thorough: when the clears of a chat are over, no prompt or command older
\* than the last of them is left, nor the status message of such a prompt, whether its
\* turn was admitted before the clear or was still to be. A turn that a clear did not
\* come to is left only as long as it is in its tree or a clear of a reply deletes it.
ClearedIsGone ==
  \A m \in visible \ lost : LET a == Owner(m) IN
    /\ a \in Turns \/ (a \in Stops /\ m[1] = "in")
    /\ at[a] = "done" /\ token[a][2] < clearGen[ChatOf[a]]
    => \/ \E c \in Clears : ChatOf[c] = ChatOf[a] /\ at[c] \in {"detached", "torn", "deleting"}
       \/ /\ a \in missed
          /\ InTree(a) \/ (\E r \in ReplyClears : m \in taken[r] /\ at[r] = "deleting")

\* Clears are thorough: nothing they should delete stays, and nothing is left untracked.
ClearsAreThorough == NothingLeftBehind /\ ClearedIsGone

\* The state lock is given back, whatever fails while it is held.
LockGivenBack == stateLock # Nobody ~> stateLock = Nobody

\* "Standalone clear deletes every tracked user and FCC message in its chat": what the
\* log forgets, of a task that is over, has been deleted or is about to be.
TrackedIsDeleted ==
  [][\A m \in logged \ logged' :
       at[Owner(m)] = "done" /\ m \in visible' =>
         m \in lost' \cup Referenced' \/ \E a \in Actors : m \in taken'[a]]_workflowVars
================================================================================
