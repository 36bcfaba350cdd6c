----------------------------- MODULE ResponseStreams -----------------------------
(* Model requests of the HTTP API: the lease on a provider generation that each      *)
(* holds, the stream it reads from that generation's providers, and the ways the    *)
(* two end. Of the provider manager it takes what LeasedGenerations promises.       *)
(*                                                                                  *)
(* A request reads its stream into one answer, or hands it to a response that is    *)
(* sent while it is read. The client may go away, or the server cancel the request, *)
(* whenever it waits, and again while it cleans up.                                 *)
EXTENDS LeasedGenerations

CONSTANTS Callers           \* requests that are served at the same time

VARIABLES
  step,                     \* where each request is
  leased,                   \* the generation it has leased
  body,                     \* its stream
  cleaner,                  \* the task that closes the stream and, of a response, the lease
  cut,                      \* whether it was cancelled
  reply                     \* what the client got

responseVars == <<step, leased, body, cleaner, cut, reply>>
servingVars == <<responseVars, absVars>>

NoLease == 0

ResponsesInit ==
  /\ AbsInit
  /\ step = [c \in Callers |-> "idle"]
  /\ leased = [c \in Callers |-> NoLease]
  /\ body = [c \in Callers |-> "none"]
  /\ cleaner = [c \in Callers |-> "none"]
  /\ cut = [c \in Callers |-> FALSE]
  /\ reply = [c \in Callers |-> "none"]

Goes(c, to) == step' = [step EXCEPT ![c] = to]

Replies(c, what) == reply' = [reply EXCEPT ![c] = what]

AcquireLease(c, g) ==
  /\ step[c] = "idle"
  /\ Grant(g)
  /\ leased' = [leased EXCEPT ![c] = g]
  /\ Goes(c, "handling")
  /\ UNCHANGED <<body, cleaner, cut, reply>>

\* The provider runtime is shutting down.
Refused(c) ==
  /\ step[c] = "idle" /\ \A g \in Ids : phase[g] # "serving"
  /\ Goes(c, "over") /\ Replies(c, "error")
  /\ UNCHANGED <<leased, body, cleaner, cut, absVars>>

\* release: the lease counts no more; waiting for the generation it may have been the
\* last one of changes nothing of the request.
GivesBack(c) ==
  /\ Return(leased[c])
  /\ leased' = [leased EXCEPT ![c] = NoLease]

\* The request ends without a response that owns the lease.
Ends(c, what) == GivesBack(c) /\ Goes(c, "over") /\ Replies(c, what)

\* It is refused before it has a stream, or answered without one.
AnsweredAtOnce(c) ==
  /\ step[c] = "handling"
  /\ \E what \in {"error", "answer"} : Ends(c, what)
  /\ UNCHANGED <<body, cleaner, cut>>

OpensBody(c) ==
  /\ step[c] = "handling"
  /\ body' = [body EXCEPT ![c] = "open"]
  /\ \E how \in {"aggregating", "prefetching"} : Goes(c, how)
  /\ UNCHANGED <<leased, cleaner, cut, reply, absVars>>

-----------------------------------------------------------------------------------
(* A stream read into one answer *)

\* Whatever ended it, the stream unwinds through the owners of each other's inputs.
AggregationStops(c) ==
  /\ step[c] = "aggregating"
  /\ Goes(c, "unwinding")
  /\ body' = [body EXCEPT ![c] = "closing"]
  /\ cut' \in {cut, [cut EXCEPT ![c] = TRUE]}
  /\ UNCHANGED <<leased, cleaner, reply, absVars>>

Aggregated(c) ==
  /\ step[c] = "unwinding"
  /\ body' = [body EXCEPT ![c] = "closed"]
  /\ \E what \in {"error", "answer"} : Ends(c, IF cut[c] THEN "none" ELSE what)
  /\ UNCHANGED <<cleaner, cut>>

-----------------------------------------------------------------------------------
(* A stream that is sent while it is read *)

\* The first chunk decides: the response is made and the lease is bound to it.
FirstChunkRead(c) ==
  /\ step[c] = "prefetching"
  /\ Goes(c, "responding")
  /\ UNCHANGED <<leased, body, cleaner, cut, reply, absVars>>

StartsCleaner(c) ==
  /\ cleaner' = [cleaner EXCEPT ![c] = "closing"]
  /\ body' = [body EXCEPT ![c] = "closing"]

\* The stream is empty, or failed, or the request was cancelled before the first chunk.
PrefetchStops(c) ==
  /\ step[c] = "prefetching"
  /\ Goes(c, "abandoning") /\ StartsCleaner(c)
  /\ cut' \in {cut, [cut EXCEPT ![c] = TRUE]}
  /\ UNCHANGED <<leased, reply, absVars>>

\* Closing may fail; that is observed, not raised.
BodyCloses(c) ==
  /\ cleaner[c] = "closing"
  /\ body' = [body EXCEPT ![c] = "closed"]
  /\ cleaner' = [cleaner EXCEPT ![c] = IF step[c] = "finalizing" THEN "releasing" ELSE "done"]
  /\ UNCHANGED <<step, leased, cut, reply, absVars>>

\* Mutant of CleanupDone: a cancellation ends the wait for the cleanup.
CleanupDoneOrCut(c) == cleaner[c] = "done" \/ cut[c]

\* Mutant of CleanupDone: a cancellation is passed on to the cleanup.
CleanupDoneUncut(c) == cleaner[c] = "done" /\ ~cut[c]

\* _wait_for_cleanup waits through every cancellation.
CleanupDone(c) == cleaner[c] = "done"

PrefetchAbandoned(c) ==
  /\ step[c] = "abandoning" /\ CleanupDone(c)
  /\ Ends(c, IF cut[c] THEN "none" ELSE "error")
  /\ UNCHANGED <<body, cleaner, cut>>

\* The status is committed with the first chunk.
Sends(c) ==
  /\ step[c] = "responding" /\ reply[c] = "none"
  /\ Replies(c, "stream")
  /\ UNCHANGED <<step, leased, body, cleaner, cut, absVars>>

\* The stream is over; or it failed, and the error is the last frame; or sending
\* failed, or the client went away, or the request was cancelled.
SendingStops(c) ==
  /\ step[c] = "responding"
  /\ Goes(c, "finalizing") /\ StartsCleaner(c)
  /\ reply' \in {reply, [reply EXCEPT ![c] = IF @ = "stream" THEN "broken_stream" ELSE @]}
  /\ cut' \in {cut, [cut EXCEPT ![c] = TRUE]}
  /\ UNCHANGED <<leased, absVars>>

\* The finalization task goes on to the lease.
LeaseReturns(c) ==
  /\ cleaner[c] = "releasing"
  /\ GivesBack(c)
  /\ cleaner' = [cleaner EXCEPT ![c] = "done"]
  /\ UNCHANGED <<step, body, cut, reply>>

Finalized(c) ==
  /\ step[c] = "finalizing" /\ CleanupDone(c)
  /\ Goes(c, "over")
  /\ UNCHANGED <<leased, body, cleaner, cut, reply, absVars>>

CancelledAgain(c) ==
  /\ step[c] \in {"abandoning", "finalizing"} /\ ~cut[c]
  /\ cut' = [cut EXCEPT ![c] = TRUE]
  /\ UNCHANGED <<step, leased, body, cleaner, reply, absVars>>

-----------------------------------------------------------------------------------
(* The provider manager *)

ManagerActs ==
  /\ \E g \in Ids : TakeOver(g) \/ Retire(g) \/ Close(g)
  /\ UNCHANGED responseVars

ServesRequest(c) ==
  \/ \E g \in Ids : AcquireLease(c, g)
  \/ Refused(c) \/ AnsweredAtOnce(c) \/ OpensBody(c)
  \/ AggregationStops(c) \/ Aggregated(c)
  \/ FirstChunkRead(c) \/ PrefetchStops(c) \/ BodyCloses(c) \/ PrefetchAbandoned(c)
  \/ SendingStops(c) \/ LeaseReturns(c) \/ Finalized(c)

ResponsesNext ==
  \/ \E c \in Callers : ServesRequest(c) \/ Sends(c) \/ CancelledAgain(c)
  \/ ManagerActs

ResponsesSpec == ResponsesInit /\ [][ResponsesNext]_servingVars

-----------------------------------------------------------------------------------
(* Properties *)

\* "A generation lease is released only after the body chain has finished closing",
\* and it is released: a stream that is not closed belongs to a request that holds a
\* lease on a generation that is not closed, and a request that is over holds none.
LeasesOutliveBodies ==
  \A c \in Callers :
    /\ body[c] \in {"open", "closing"} => leased[c] # NoLease /\ phase[leased[c]] # "closed"
    /\ step[c] = "over" => leased[c] = NoLease /\ body[c] \in {"none", "closed"}

===================================================================================
