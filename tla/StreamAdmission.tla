-------------------------- MODULE StreamAdmission --------------------------
(***************************************************************************)
(* Streaming executions on top of the admission controller:                *)
(* _create_stream and _OpenAIChatStreamRunner (providers/openai_chat/      *)
(* provider.py) with the attempt and slot each of them holds.              *)
(*                                                                         *)
(* Differences from run_with_retry: the attempt is kept while the stream   *)
(* is read; a failed stream is closed, which suspends, before its attempt  *)
(* is; and mid-stream recovery opens further attempts while the attempt of *)
(* the interrupted stream is still held ("outer").                         *)
(*                                                                         *)
(* What the stream carried is abstracted: whether output was generated or  *)
(* committed, and whether a tool call can be salvaged, is a free choice.   *)
(***************************************************************************)
EXTENDS Admission

VARIABLES
    outer,   \* executions in mid-stream recovery: the interrupted attempt is still held
    after,   \* where an execution continues once its stream is closed
    settled  \* executions whose attempt being closed is already resolved

streamVars == <<outer, after, settled>>
allVars == <<vars, streamVars>>

StreamPCs == PCs \cup {"opened", "streaming", "closing"}

StreamInit ==
    /\ Init
    /\ outer = {}
    /\ after = [s \in Sessions |-> "gate"]
    /\ settled = {}

\* Leave the stream: close it, then its attempt, then go on at next.
Leave(s, next, resolved) ==
    /\ after' = [after EXCEPT ![s] = next]
    /\ settled' = IF resolved THEN settled \cup {s} ELSE settled \ {s}

-----------------------------------------------------------------------------
(* _create_stream: opening the upstream stream *)

StreamBegin(s) == Begin(s) /\ UNCHANGED streamVars

StreamAdmit(s) == Admit(s) /\ UNCHANGED streamVars

\* retry_immediately: a request-shape correction keeps the probe's lead.
Correct(s) ==
    /\ pc[s] = "running"
    /\ CanAttempt(s)
    /\ IF MatchingProbe(s)
       THEN /\ episode' = [episode EXCEPT !.probe = FALSE, !.ready = TRUE]
            /\ pc' = [NotifyAll EXCEPT ![s] = "gate"]
       ELSE /\ episode' = episode
            /\ pc' = [pc EXCEPT ![s] = "gate"]
    /\ Release
    /\ UNCHANGED <<attempts, failed, permit, nextGen, streamVars>>

OpenFails(s) == (Reject(s) \/ Fail(s)) /\ UNCHANGED streamVars

OpenSucceeds(s) ==
    /\ pc[s] = "running"
    /\ pc' = [pc EXCEPT ![s] = "opened"]
    /\ UNCHANGED <<attempts, failed, permit, episode, nextGen, free, streamVars>>

-----------------------------------------------------------------------------
(* run and _collect_recovery_text: reading the stream *)

\* The first chunk resolves the attempt as accepted; its slot stays held.
FirstChunk(s) ==
    /\ pc[s] = "opened"
    /\ Answered(s, "streaming")
    /\ UNCHANGED <<free, streamVars>>

\* The stream broke before its first chunk.  A retryable failure is retried:
\* nothing was committed, so the decision is EARLY_RETRY.
FailsUnaccepted(s) ==
    /\ pc[s] = "opened"
    /\ \/ FailRetryable(s, "closing") /\ Leave(s, "gate", TRUE)
       \/ FailExhausted(s, "closing") /\ Leave(s, "failed", TRUE)
       \/ Answered(s, "closing") /\ Leave(s, "failed", TRUE)
    /\ UNCHANGED <<attempts, permit, free, outer>>

\* An accepted stream ended, well or badly, and its execution is over, or
\* (EARLY_RETRY, a further recovery or repair attempt) tries again.
StreamEnds(s) ==
    /\ pc[s] = "streaming"
    /\ pc' = [pc EXCEPT ![s] = "closing"]
    /\ \E next \in {"done", "failed"} \cup (IF CanAttempt(s) THEN {"gate"} ELSE {}) :
          Leave(s, next, TRUE)
    /\ UNCHANGED <<attempts, failed, permit, episode, nextGen, free, outer>>

\* Mutant of MidstreamRecovery: the slot is released early and the attempt kept.
MidstreamReleases(s) ==
    /\ pc[s] = "streaming"
    /\ s \notin outer
    /\ CanAttempt(s)
    /\ outer' = outer \cup {s}
    /\ pc' = [pc EXCEPT ![s] = "gate"]
    /\ Release
    /\ UNCHANGED <<attempts, failed, permit, episode, nextGen, after, settled>>

\* MIDSTREAM_RECOVERY: _recovery_events runs inside the except clause, before
\* the finally clause that closes the interrupted stream and its attempt.
MidstreamRecovery(s) ==
    /\ pc[s] = "streaming"
    /\ s \notin outer
    /\ CanAttempt(s)
    /\ outer' = outer \cup {s}
    /\ pc' = [pc EXCEPT ![s] = "gate"]
    /\ UNCHANGED <<attempts, failed, permit, episode, nextGen, free, after, settled>>

-----------------------------------------------------------------------------
(* The finally clauses *)

\* The stream is closed, then ProviderAttempt.aclose: an unresolved probe is
\* abandoned and the slot given back.
CloseDone(s) ==
    /\ pc[s] = "closing"
    /\ IF s \in settled
       THEN /\ episode' = episode
            /\ pc' = [pc EXCEPT ![s] = after[s]]
       ELSE Abandon(s, after[s])
    /\ Release
    /\ UNCHANGED <<attempts, failed, permit, nextGen, streamVars>>

\* Cancelled while closing the stream: attempt.aclose is skipped.
CloseCancelled(s) ==
    /\ pc[s] = "closing"
    /\ pc' = [pc EXCEPT ![s] = "cancelled"]
    /\ UNCHANGED <<attempts, failed, permit, episode, nextGen, free, streamVars>>

\* _collect_recovery_text closes with maybe_await_aclose, whose errors are not
\* suppressed: again attempt.aclose is skipped.
CloseRaises(s) ==
    /\ pc[s] = "closing"
    /\ s \in outer
    /\ pc' = [pc EXCEPT ![s] = "failed"]
    /\ UNCHANGED <<attempts, failed, permit, episode, nextGen, free, streamVars>>

\* Recovery is over, with events, without, or by cancellation: run's own
\* finally clause closes the interrupted stream and its accepted attempt.
Recovered(s) == pc[s] \in Ended /\ s \in outer

CloseOuter(s) ==
    /\ Recovered(s)
    /\ outer' = outer \ {s}
    /\ Release
    /\ UNCHANGED <<pc, attempts, failed, permit, episode, nextGen, after, settled>>

CloseOuterCancelled(s) ==
    /\ Recovered(s)
    /\ outer' = outer \ {s}
    /\ pc' = [pc EXCEPT ![s] = "cancelled"]
    /\ UNCHANGED <<attempts, failed, permit, episode, nextGen, free, after, settled>>

-----------------------------------------------------------------------------
(* Cancellation *)

\* The client went away: the task is cancelled or the generator closed.
Interrupt(s) ==
    /\ pc[s] \in {"opened", "streaming"}
    /\ pc' = [pc EXCEPT ![s] = "closing"]
    /\ Leave(s, "cancelled", pc[s] = "streaming")
    /\ UNCHANGED <<attempts, failed, permit, episode, nextGen, free, outer>>

StreamCancel(s) ==
    \/ Cancel(s) /\ UNCHANGED streamVars
    \/ Interrupt(s)
    \/ CloseCancelled(s)
    \/ CloseOuterCancelled(s)

-----------------------------------------------------------------------------

Upstream(s) ==
    \/ Correct(s) \/ OpenFails(s) \/ OpenSucceeds(s) \/ FirstChunk(s)
    \/ FailsUnaccepted(s) \/ StreamEnds(s) \/ MidstreamRecovery(s)

Close(s) == CloseDone(s) \/ CloseOuter(s)

Execute(s) == StreamBegin(s) \/ StreamAdmit(s) \/ Upstream(s) \/ Close(s)

StreamTime == Time /\ UNCHANGED streamVars

StreamsEnded ==
    /\ AllEnded
    /\ outer = {}
    /\ UNCHANGED allVars

StreamNext ==
    \/ \E s \in Sessions : Execute(s) \/ StreamCancel(s) \/ CloseRaises(s)
    \/ StreamTime
    \/ StreamsEnded

StreamSpec == StreamInit /\ [][StreamNext]_allVars

\* Executions nobody cancels, over streams that close without error.
CalmNext == (\E s \in Sessions : Execute(s)) \/ StreamTime \/ StreamsEnded

StreamFairness ==
    /\ \A s \in Sessions :
          /\ WF_allVars(StreamAdmit(s) /\ pc[s] # "slot")
          /\ SF_allVars(StreamAdmit(s) /\ pc[s] = "slot")
          /\ WF_allVars(Upstream(s))
          /\ WF_allVars(Close(s))
    /\ WF_allVars(StreamTime)

CalmSpec == StreamInit /\ [][CalmNext]_allVars /\ StreamFairness

-----------------------------------------------------------------------------
(* Properties *)

\* Types.  No mix of recovery, cancellation and failing cleanup gives a slot
\* back twice: the bulkhead never admits more than its size.
StreamTypeOK ==
    /\ pc \in [Sessions -> StreamPCs]
    /\ attempts \in [Sessions -> 0..MaxAttempts]
    /\ outer \in SUBSET Sessions
    /\ after \in [Sessions -> {"gate", "done", "failed", "cancelled"}]
    /\ settled \in SUBSET Sessions
    /\ free \in 0..MaxConcurrency
    /\ episode \in Episode

Holding(s) == pc[s] \in {"running", "opened", "streaming", "closing"}

\* The bulkhead admits no more upstream work than its size: attempts that are
\* held, in recovery or not, never outnumber the slots taken.
BulkheadBoundsStreams ==
    Cardinality({s \in Sessions : Holding(s)}) + Cardinality(outer)
        <= MaxConcurrency - free

\* The admission is well formed and never exceeds its bulkhead.
StreamsAreBounded == StreamTypeOK /\ BulkheadBoundsStreams

\* As StaleResultIsInert, for streams: an attempt that is not the current probe
\* neither closes nor extends an open episode when it is accepted, fails or is
\* closed.
StaleStreamIsInert ==
    [][\A s \in Sessions :
          (Holding(s) /\ pc'[s] # pc[s] /\ Open
             /\ ~(episode.probe /\ episode.leader = s /\ episode.gen = permit[s]))
          => episode' \in {[episode EXCEPT !.waiters = w] : w \in SUBSET Sessions}]_allVars

\* "The bulkhead is held only while an upstream operation or stream is active,
\* never during retry backoff" (ARCHITECTURE.md): the slot of an interrupted stream
\* is eventually released, since that stream is no longer active.
InterruptedSlotReleased ==
    \A s \in Sessions : (s \in outer) ~> (s \notin outer)

\* ProviderAttempt.aclose releases "its concurrency slot exactly once": a slot
\* that is taken belongs to an attempt some execution still holds.
TakenSlotsAreHeld ==
    free + Cardinality({s \in Sessions : Holding(s)}) + Cardinality(outer)
        = MaxConcurrency

=============================================================================
