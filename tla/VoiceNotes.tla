-------------------------------- MODULE VoiceNotes --------------------------------
(* The pending voice notes of one chat: the flow that shows a status message, has    *)
(* the note transcribed and hands the text to messaging in a child task, and the     *)
(* stops and clears that cancel notes. A transcribed note may itself be such a       *)
(* command, so that the children wait for each other. The registry's lock is never   *)
(* held across an await: a section under it is one step.                             *)
EXTENDS Naturals, FiniteSets

CONSTANTS
  Notes,                    \* voice notes, each with its claim
  Commands                  \* stops and clears that are typed

ASSUME VoiceAssumption == Notes \cap Commands = {}

VARIABLES
  voicePending,             \* _pending: the claims that are published
  bound,                    \* the claims with a status_message_id
  flow,                     \* where the flow of each note is
  child,                    \* the handoff_task of each note
  doomed,                   \* the children that have been cancelled
  quit,                     \* the flows that their caller has cancelled
  handed,                   \* handed_off: the callback has begun
  status,                   \* the status message of each note
  cancelling, joins,        \* where each canceller is, and the claims it has taken
  owners                    \* history: who has taken each claim off the registry

noteVars == <<voicePending, bound, flow, child, doomed, quit, handed, status>>
cancelVars == <<cancelling, joins>>
voiceVars == <<noteVars, cancelVars, owners>>

Cancellers == Notes \cup Commands

VoiceInit ==
  /\ voicePending = {} /\ bound = {} /\ flow = [n \in Notes |-> "none"]
  /\ child = [n \in Notes |-> "none"] /\ doomed = {} /\ quit = {} /\ handed = {}
  /\ status = [n \in Notes |-> "none"]
  /\ cancelling = [k \in Cancellers |-> "idle"] /\ joins = [k \in Cancellers |-> {}]
  /\ owners = [n \in Notes |-> {}]

Flows(n, from, to) == flow[n] = from /\ flow' = [flow EXCEPT ![n] = to]
Takes(S, who) ==
  /\ voicePending' = voicePending \ S
  /\ owners' = [n \in Notes |-> IF n \in S THEN owners[n] \cup {who} ELSE owners[n]]
Keeps == UNCHANGED <<voicePending, owners>>
Ended(n) == child[n] \in {"returned", "raised"}

--------------------------------------------------------------------------------
\* handle: the note is claimed before its status message is sent.
Reserve(n) ==
  /\ Flows(n, "none", "sending") /\ voicePending' = voicePending \cup {n}
  /\ UNCHANGED <<bound, child, doomed, quit, handed, status, cancelVars, owners>>

StatusSent(n) ==
  /\ \/ Flows(n, "sending", "binding") /\ status' = [status EXCEPT ![n] = "shown"]
     \/ Flows(n, "sending", "failing") /\ UNCHANGED status
  /\ Keeps /\ UNCHANGED <<bound, child, doomed, quit, handed, cancelVars>>

\* The claim may have been cancelled while its status message was under way.
BindStatus(n) ==
  /\ IF n \in voicePending
     THEN Flows(n, "binding", "transcribing") /\ bound' = bound \cup {n}
     ELSE Flows(n, "binding", "failing") /\ UNCHANGED bound
  /\ Keeps /\ UNCHANGED <<child, doomed, quit, handed, status, cancelVars>>

Transcribed(n) ==
  /\ Flows(n, "transcribing", "ready") \/ Flows(n, "transcribing", "failing")
  /\ Keeps /\ UNCHANGED <<bound, child, doomed, quit, handed, status, cancelVars>>

\* handoff: the child is published with its claim, or the claim is gone.
HandOff(n) ==
  /\ IF n \in voicePending
     THEN Flows(n, "ready", "waiting") /\ child' = [child EXCEPT ![n] = "created"]
     ELSE Flows(n, "ready", "failing") /\ UNCHANGED child
  /\ Keeps /\ UNCHANGED <<bound, doomed, quit, handed, status, cancelVars>>

\* The child has ended, and the flow takes the claim unless a canceller has. A failure
\* goes to the handler of the flow, and so does the cancellation of the flow.
HandOffEnds(n) ==
  /\ Ended(n)
  /\ Flows(n, "waiting", IF n \in quit \/ (child[n] = "raised" /\ n \in voicePending)
                         THEN "failing" ELSE "done")
  /\ Takes({n} \cap voicePending, n)
  /\ UNCHANGED <<bound, child, doomed, quit, handed, status, cancelVars>>

\* _clear_failed_pending_voice, which runs to its end whatever is cancelled: the claim
\* is discarded, and a status message that nobody else has is deleted.
CleanUp(n) ==
  /\ Flows(n, "failing", "done") /\ Takes({n} \cap voicePending, n)
  /\ status' = IF n \notin handed /\ status[n] = "shown"
                  /\ (n \in voicePending \/ n \notin bound)
               THEN [status EXCEPT ![n] = "deleted"] ELSE status
  /\ UNCHANGED <<bound, child, doomed, quit, handed, cancelVars>>

\* The platform cancels the task of the flow. A status message that is under way may
\* still appear, with an id that nobody learns; a child is cancelled and waited for.
FlowCancelled(n) ==
  /\ n \notin quit /\ quit' = quit \cup {n}
  /\ \/ flow[n] \in {"binding", "transcribing", "ready"} /\ flow' = [flow EXCEPT ![n] = "failing"]
        /\ UNCHANGED <<doomed, status>>
     \/ /\ Flows(n, "sending", "failing") /\ UNCHANGED doomed
        /\ \/ UNCHANGED status
           \/ status' = [status EXCEPT ![n] = "strayed"]
     \/ flow[n] = "waiting" /\ doomed' = doomed \cup {n} /\ UNCHANGED <<flow, status>>
  /\ Keeps /\ UNCHANGED <<bound, child, handed, cancelVars>>

--------------------------------------------------------------------------------
\* The child: it runs the callback, which may be a command that cancels other notes.
ChildStarts(n) ==
  /\ child[n] = "created" /\ n \notin doomed
  /\ child' = [child EXCEPT ![n] = "running"] /\ handed' = handed \cup {n}
  /\ Keeps /\ UNCHANGED <<bound, flow, doomed, quit, status, cancelVars>>

\* A child that is cancelled ends at its next await, but not while an operation that it
\* owns, such as a cancellation of others, is under way.
ChildEnds(n) ==
  /\ \/ child[n] = "running" /\ cancelling[n] \in {"idle", "ended"}
     \/ child[n] = "created" /\ n \in doomed
  /\ \E how \in (IF n \in doomed THEN {"raised"} ELSE {"returned", "raised"}) :
       child' = [child EXCEPT ![n] = how]
  /\ Keeps /\ UNCHANGED <<bound, flow, doomed, quit, handed, status, cancelVars>>

--------------------------------------------------------------------------------
\* A canceller that is a child protects its own claim before it waits for the lock.
CancelBegins(k) ==
  /\ cancelling[k] = "idle" /\ (k \in Notes => child[k] = "running")
  /\ cancelling' = [cancelling EXCEPT ![k] = "begun"]
  /\ Keeps /\ UNCHANGED <<noteVars, joins>>

Protected == {n \in Notes : cancelling[n] \in {"begun", "joining"}}

\* Mutant of Excluded: other hand-offs that cancel are waited for.
ExcludedSelf(k) == {k}

\* _is_excluded: the canceller's own claim and those of the children that cancel.
Excluded(k) == {k} \cup Protected

\* cancel, cancel_all, cancel_scope: the claim replied to, or every claim, is taken off
\* the registry in one section, and its child is cancelled.
CancelTakes(k) ==
  /\ cancelling[k] = "begun"
  /\ \E S \in {voicePending \ Excluded(k)} \cup {{n} : n \in voicePending \ Excluded(k)} :
       /\ Takes(S, k) /\ joins' = [joins EXCEPT ![k] = S]
       /\ doomed' = doomed \cup {n \in S : child[n] # "none"}
  /\ cancelling' = [cancelling EXCEPT ![k] = "joining"]
  /\ UNCHANGED <<bound, flow, child, quit, handed, status>>

\* The children have ended: the command deletes or edits the status messages.
CancelEnds(k) ==
  /\ cancelling[k] = "joining" /\ \A n \in joins[k] : child[n] = "none" \/ Ended(n)
  /\ cancelling' = [cancelling EXCEPT ![k] = "ended"]
  /\ status' = [n \in Notes |-> IF n \in joins[k] \cap bound THEN "answered" ELSE status[n]]
  /\ Keeps /\ UNCHANGED <<bound, flow, child, doomed, quit, handed, joins>>

--------------------------------------------------------------------------------
FlowSteps(n) ==
  \/ StatusSent(n) \/ BindStatus(n) \/ Transcribed(n) \/ HandOff(n) \/ HandOffEnds(n)
  \/ CleanUp(n)

VoiceNext ==
  \/ \E n \in Notes : \/ Reserve(n) \/ FlowSteps(n) \/ FlowCancelled(n)
                      \/ ChildStarts(n) \/ ChildEnds(n)
  \/ \E k \in Cancellers : CancelBegins(k) \/ CancelTakes(k) \/ CancelEnds(k)

\* The flows, the children and the cancellers run; the tasks of a flow end.
VoiceSpec ==
  /\ VoiceInit /\ [][VoiceNext]_voiceVars
  /\ \A n \in Notes : WF_voiceVars(FlowSteps(n)) /\ WF_voiceVars(ChildStarts(n) \/ ChildEnds(n))
  /\ \A k \in Cancellers : WF_voiceVars(CancelTakes(k) \/ CancelEnds(k))

--------------------------------------------------------------------------------
VoiceTypeOK ==
  /\ voicePending \subseteq Notes /\ bound \cup doomed \cup quit \cup handed \subseteq Notes
  /\ status \in [Notes -> {"none", "shown", "strayed", "deleted", "answered"}]
  /\ joins \in [Cancellers -> SUBSET Notes] /\ owners \in [Notes -> SUBSET Cancellers]

\* Each note has one owner in the end: its flow, or the one command that cancelled it.
OneOwner ==
  \A n \in Notes : /\ Cardinality(owners[n]) <= 1
                   /\ flow[n] = "done" => owners[n] # {}

\* Children that cancel notes never wait for each other in a circle, nor for themselves.
NoCircle ==
  \A S \in (SUBSET Notes) \ {{}} :
    \E k \in S : cancelling[k] # "joining" \/ \A n \in S : n \notin joins[k] \/ Ended(n)

\* A status message does not stay "Transcribing": when the flow is over it has been
\* handed to the turn, deleted, or belongs to the command that cancelled the note. The
\* one exception is a flow that is cancelled before its child has begun.
StatusSettled ==
  \A n \in Notes :
    flow[n] = "done" /\ status[n] = "shown" =>
      \/ n \in handed \/ (n \in quit /\ child[n] = "raised")
      \/ \E k \in Cancellers : n \in joins[k] /\ cancelling[k] = "joining"

NotesOwned == OneOwner /\ NoCircle /\ StatusSettled

\* A command that cancels notes gets its answer, and each flow ends.
VoicesEnd ==
  /\ \A k \in Cancellers : cancelling[k] = "joining" ~> cancelling[k] = "ended"
  /\ \A n \in Notes : flow[n] = "waiting" ~> flow[n] = "done"
================================================================================
