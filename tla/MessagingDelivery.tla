---------------------------- MODULE MessagingDelivery ----------------------------
(* Delivery to one chat platform: the outbox, and behind it the compacting queue   *)
(* of MessagingRateLimiter with its single worker. A caller enqueues an operation  *)
(* under a key and waits for a future; an operation queued under a key that is     *)
(* already queued replaces the queued one and answers both callers. Calls are      *)
(* numbered in the order they are made, so the greater of two calls for one key is *)
(* the newer text. The condition's lock is never held across another await: a      *)
(* critical section is one step. The sliding window is a delay here.               *)
EXTENDS OrderedLines, SequencesExt

CONSTANTS
  MaxCalls,                 \* bound: how many calls are made
  Keys, NoKey,              \* dedup keys, and none
  Modes,                    \* the ways of calling that are used, a part of AllModes
  MaxTries                  \* max_retries + 1

\* "awaited" calls enqueue(); "direct" is fire_and_forget(), a task of the limiter;
\* "owned" is the outbox's fire_and_forget() of a coroutine that does the latter.
AllModes == {"awaited", "direct", "owned"}

ASSUME DeliveryAssumption ==
  /\ MaxCalls \in Nat /\ MaxTries \in Nat \ {0} /\ NoKey \notin Keys
  /\ Modes \subseteq AllModes

Calls == 1 .. MaxCalls
NoCall == 0

VARIABLES
  made,                     \* how many calls were made
  call,                     \* where each call is
  callKey, mode,            \* what it is for and how it was made
  tries,                    \* how often it was enqueued
  ready,                    \* tasks created and not started yet, in order
  line,                     \* _queue_list
  entry,                    \* _queue_map: the operation and the futures of each key
  worker,                   \* where _worker is
  work,                     \* the operation it took and _active_futures
  flooded,                  \* _paused_until lies in the future
  closing,                  \* the platform's close(): outbox, then limiter
  shown                     \* history: the last operation carried out for each key

deliveryVars == <<made, call, callKey, mode, tries, ready, line, entry, worker, work,
                  flooded, closing, shown>>

Idle == [key |-> NoKey, func |-> NoCall, futures |-> {}]
Absent == [func |-> NoCall, futures |-> {}]

CallEnded == {"answered", "failed", "cancelled"}
Busy == {"pacing", "running"}

DeliveryInit ==
  /\ made = 0
  /\ call = [c \in Calls |-> "unmade"]
  /\ callKey = [c \in Calls |-> NoKey] /\ mode = [c \in Calls |-> "none"]
  /\ tries = [c \in Calls |-> 0]
  /\ ready = <<>> /\ line = <<>>
  /\ entry = [k \in Keys |-> Absent]
  /\ worker = "waiting" /\ work = Idle
  /\ flooded = FALSE /\ closing = "open"
  /\ shown = [k \in Keys |-> NoCall]

LimiterOpen == closing \in {"open", "outbox"}       \* not _closed
OutboxOpen == closing = "open"

-----------------------------------------------------------------------------
(* The callers *)

\* Mutant of Compacted: the queued operation is kept.
CompactedOlder(c, k) ==
  [func |-> IF entry[k] = Absent THEN c ELSE entry[k].func,
   futures |-> entry[k].futures \cup {c}]

\* Mutant of Compacted: the futures of the replaced operation are dropped.
CompactedAlone(c, k) == [func |-> c, futures |-> {c}]

\* The newer operation takes the place, and the futures, of the queued one.
Compacted(c, k) == [func |-> c, futures |-> entry[k].futures \cup {c}]

\* _enqueue_internal_multi by call c under key k: refused, or queued.
Enqueue(c, k) ==
  IF LimiterOpen
  THEN /\ entry' = [entry EXCEPT ![k] = Compacted(c, k)]
       /\ line' = IF entry[k] = Absent THEN Append(line, k) ELSE line
       /\ call' = [call EXCEPT ![c] = "waiting"]
       /\ tries' = [tries EXCEPT ![c] = @ + 1]
  ELSE /\ call' = [call EXCEPT ![c] = "failed"]
       /\ UNCHANGED <<entry, line, tries>>

\* A caller waits in enqueue() for its answer.
CallAwaited(c, k) ==
  /\ c = made + 1 /\ "awaited" \in Modes /\ OutboxOpen
  /\ made' = c
  /\ callKey' = [callKey EXCEPT ![c] = k] /\ mode' = [mode EXCEPT ![c] = "awaited"]
  /\ Enqueue(c, k)
  /\ UNCHANGED <<ready, worker, work, flooded, closing, shown>>

\* A call that makes a task: the limiter's, or the outbox's first.
CallForgotten(c, k, m) ==
  /\ c = made + 1 /\ OutboxOpen
  /\ made' = c
  /\ callKey' = [callKey EXCEPT ![c] = k] /\ mode' = [mode EXCEPT ![c] = m]
  /\ call' = [call EXCEPT ![c] = IF m = "owned" THEN "owned" ELSE "spawned"]
  /\ ready' = Append(ready, c)
  /\ UNCHANGED <<tries, line, entry, worker, work, flooded, closing, shown>>

\* The outbox's task runs and the limiter makes a task of its own, later in line.
OwnedStarts(c) ==
  /\ ready # <<>> /\ c = Head(ready) /\ call[c] = "owned" /\ OutboxOpen
  /\ call' = [call EXCEPT ![c] = "spawned"]
  /\ ready' = Append(Tail(ready), c)
  /\ UNCHANGED <<made, callKey, mode, tries, line, entry, worker, work, flooded, closing,
                 shown>>

SpawnedStarts(c) ==
  /\ ready # <<>> /\ c = Head(ready) /\ call[c] = "spawned"
  /\ ready' = Tail(ready) /\ Enqueue(c, callKey[c])
  /\ UNCHANGED <<made, callKey, mode, worker, work, flooded, closing, shown>>

\* A task retries after a transient failure, with the operation it had.
Retry(c) ==
  /\ call[c] = "backoff" /\ Enqueue(c, callKey[c])
  /\ UNCHANGED <<made, callKey, mode, ready, worker, work, flooded, closing, shown>>

\* Whoever awaits the answer is cancelled, and with it the future; the operation stays.
CallerCancelled(c) ==
  /\ call[c] = "waiting" /\ mode[c] = "awaited"
  /\ call' = [call EXCEPT ![c] = "cancelled"]
  /\ UNCHANGED <<made, callKey, mode, tries, ready, line, entry, worker, work, flooded,
                 closing, shown>>

-----------------------------------------------------------------------------
(* The worker *)

\* The first key of the line is taken.
Take ==
  /\ worker = "waiting" /\ line # <<>>
  /\ LET k == Head(line) IN
       /\ work' = [key |-> k, func |-> entry[k].func, futures |-> entry[k].futures]
       /\ entry' = [entry EXCEPT ![k] = Absent]
  /\ line' = Tail(line)
  /\ worker' = "pacing"
  /\ UNCHANGED <<made, call, callKey, mode, tries, ready, flooded, closing, shown>>

\* Time has passed beyond _paused_until.
FloodOver ==
  /\ flooded /\ flooded' = FALSE
  /\ UNCHANGED <<made, call, callKey, mode, tries, ready, line, entry, worker, work,
                 closing, shown>>

\* A flood is over, the sliding window admits the operation and it is called.
Paced ==
  /\ worker = "pacing" /\ ~flooded /\ worker' = "running"
  /\ UNCHANGED <<made, call, callKey, mode, tries, ready, line, entry, work, flooded,
                 closing, shown>>

\* The futures not done yet are resolved; their callers end, or retry on a transient
\* failure if they are tasks with a try left.
Resolved(outcome) ==
  [c \in Calls |->
     IF c \notin work.futures \/ call[c] # "waiting" THEN call[c]
     ELSE IF outcome = "transient"
     THEN IF mode[c] # "awaited" /\ tries[c] < MaxTries THEN "backoff" ELSE "failed"
     ELSE outcome]

\* The operation ends: a result, an error of its own, a flood answer, a transient
\* error, or a cancellation from inside that leaves the worker at work.
OperationEnds(outcome) ==
  /\ worker = "running"
  /\ call' = Resolved(IF outcome = "flood" THEN "failed" ELSE outcome)
  /\ flooded' = (flooded \/ outcome = "flood")
  /\ shown' = IF outcome = "answered" THEN [shown EXCEPT ![work.key] = work.func] ELSE shown
  /\ worker' = "waiting" /\ work' = Idle
  /\ UNCHANGED <<made, callKey, mode, tries, ready, line, entry, closing>>

-----------------------------------------------------------------------------
(* Closing the platform *)

\* The outbox refuses new calls, and cancels its tasks: they never start.
OutboxCloses ==
  /\ closing = "open" /\ closing' = "outbox"
  /\ call' = [c \in Calls |-> IF call[c] = "owned" THEN "cancelled" ELSE call[c]]
  /\ ready' = Without(ready, {c \in Calls : call[c] = "owned"})
  /\ UNCHANGED <<made, callKey, mode, tries, line, entry, worker, work, flooded, shown>>

\* shutdown(): every queued and active future is cancelled and so is the worker; only
\* an operation that is running has to be waited for.
ShutdownBegins ==
  /\ closing = "outbox" /\ closing' = "draining"
  /\ call' = [c \in Calls |->
                IF call[c] = "waiting" /\ \/ c \in work.futures
                                          \/ \E k \in Keys : c \in entry[k].futures
                THEN "cancelled" ELSE call[c]]
  /\ line' = <<>> /\ entry' = [k \in Keys |-> Absent]
  /\ IF worker = "running"
     THEN worker' = "stopping" /\ work' = [work EXCEPT !.futures = {}]
     ELSE worker' = "over" /\ work' = Idle
  /\ UNCHANGED <<made, callKey, mode, tries, ready, flooded, shown>>

\* The operation is gone, carried out or not.
OperationStops ==
  /\ worker = "stopping" /\ worker' = "over" /\ work' = Idle
  /\ shown' \in {shown, [shown EXCEPT ![work.key] = work.func]}
  /\ UNCHANGED <<made, call, callKey, mode, tries, ready, line, entry, flooded, closing>>

\* The worker is over: the limiter's tasks are cancelled wherever they are.
ShutdownEnds ==
  /\ closing = "draining" /\ worker = "over" /\ closing' = "closed"
  /\ call' = [c \in Calls |->
                IF call[c] \in {"spawned", "backoff"} THEN "cancelled" ELSE call[c]]
  /\ ready' = <<>>
  /\ UNCHANGED <<made, callKey, mode, tries, line, entry, worker, work, flooded, shown>>

\* Nothing is left to do.
Quiet ==
  /\ \A c \in Calls : call[c] \in CallEnded \cup {"unmade"}
  /\ made = MaxCalls \/ closing = "closed"
  /\ UNCHANGED deliveryVars

TaskSteps(c) == OwnedStarts(c) \/ SpawnedStarts(c) \/ Retry(c)
WorkerSteps ==
  \/ Take \/ Paced
  \/ \E o \in {"answered", "failed", "cancelled", "flood", "transient"} : OperationEnds(o)
Closes == OutboxCloses \/ ShutdownBegins \/ OperationStops \/ ShutdownEnds

DeliveryNext ==
  \/ \E c \in Calls, k \in Keys :
       CallAwaited(c, k) \/ \E m \in Modes \ {"awaited"} : CallForgotten(c, k, m)
  \/ \E c \in Calls : CallerCancelled(c) \/ TaskSteps(c)
  \/ WorkerSteps \/ FloodOver \/ Closes \/ Quiet

(* Tasks that are ready run, sleeps and floods end, the window admits, a call of   *)
(* the platform ends, and a close that has begun goes on. Nobody has to call.      *)
CloseProceeds == ShutdownBegins \/ OperationStops \/ ShutdownEnds

DeliverySpec ==
  /\ DeliveryInit /\ [][DeliveryNext]_deliveryVars
  /\ \A c \in Calls : WF_deliveryVars(TaskSteps(c))
  /\ WF_deliveryVars(WorkerSteps) /\ WF_deliveryVars(FloodOver)
  /\ WF_deliveryVars(CloseProceeds)

-----------------------------------------------------------------------------
(* Properties *)

DeliveryTypeOK ==
  /\ made \in 0 .. MaxCalls
  /\ call \in [Calls -> {"unmade", "owned", "spawned", "waiting", "backoff"} \cup CallEnded]
  /\ callKey \in [Calls -> Keys \cup {NoKey}] /\ mode \in [Calls -> AllModes \cup {"none"}]
  /\ tries \in [Calls -> 0 .. MaxTries]
  /\ ready \in Seq(Calls) /\ line \in Seq(Keys)
  /\ entry \in [Keys -> [func : 0 .. MaxCalls, futures : SUBSET Calls]]
  /\ worker \in Busy \cup {"waiting", "stopping", "over"}
  /\ work \in [key : Keys \cup {NoKey}, func : 0 .. MaxCalls, futures : SUBSET Calls]
  /\ flooded \in BOOLEAN
  /\ closing \in {"open", "outbox", "draining", "closed"}
  /\ shown \in [Keys -> 0 .. MaxCalls]

\* Whoever waits is waited on: a pending future belongs to the entry queued under its
\* key, which is in line, or to the operation the worker has in hand, whatever was
\* compacted, failed, was cancelled or shut down; and a closed platform has no task.
NoFutureForgotten ==
  /\ \A c \in Calls : call[c] = "waiting" =>
       \/ c \in entry[callKey[c]].futures /\ Contains(line, callKey[c])
       \/ c \in work.futures /\ worker \in Busy
  /\ closing = "closed" =>
       worker = "over" /\ \A c \in Calls : call[c] \in CallEnded \cup {"unmade"}

Hops(c) == CASE mode[c] = "awaited" -> 0 [] mode[c] = "direct" -> 1 [] OTHER -> 2

\* "Only the latest version of a message update is processed": a text that is shown,
\* or reported as delivered in this step, is hidden by an older one only when that
\* one is the retry of a failed call or took a longer way to the queue.
EditsInOrder ==
  [][\A c \in 1 .. made :
       LET f == shown'[callKey[c]] IN
       /\ shown[callKey[c]] = c \/ (call[c] # "answered" /\ call'[c] = "answered")
       /\ f < c
       => tries[f] > 1 \/ Hops(f) > Hops(c)]_deliveryVars

\* Every call ends, by an answer, an error, or a cancellation.
EveryCallEnds ==
  \A c \in Calls : call[c] # "unmade" ~> call[c] \in CallEnded

=============================================================================
