----------------------------- MODULE StreamRecovery -----------------------------
(* One execution of the OpenAI-chat stream runner: the upstream stream it reads,    *)
(* the events it holds back so that an early failure can be retried unseen, the     *)
(* commit after which it cannot, and the recovery of a stream that breaks later.    *)
(*                                                                                  *)
(* The admission of an attempt is the subject of StreamAdmission; here an attempt   *)
(* is opened or the session is spent. The clock and the size of what is held back   *)
(* decide when it is committed: that is a choice of every push but the first.       *)
EXTENDS StreamLedger

CONSTANTS
  Attempts,              \* of the retry session
  MaxChunks                 \* bound: chunks of one upstream stream

ASSUME RecoveryAssumption == Attempts \in Nat \ {0} /\ MaxChunks \in Nat

VARIABLES
  stage,                    \* where the runner is
  used,                     \* attempts_started
  ledger,                   \* of the current attempt
  kept,                     \* the held-back events
  committed,                \* whether holding back is over
  finished,                 \* finish_reason was seen
  parked,                   \* what the parsers of tags and textual tools keep back
  chunks,                   \* read from this upstream stream
  todo,                     \* tool calls the repair has not come to
  repairs,                  \* its events so far
  seen                      \* what the reader of the stream makes of the events it got

recoveryVars == <<stage, used, ledger, kept, committed, finished, parked, chunks,
                  todo, repairs, seen>>

readingVars == <<finished, parked, chunks>>
repairVars == <<todo, repairs>>

Over == {"completed", "recovered", "raised", "gone"}

-----------------------------------------------------------------------------------
(* The reader: the contract of an Anthropic stream *)

NothingSeen == [started |-> FALSE, stopped |-> FALSE, open |-> {}, blocks |-> {},
                broken |-> FALSE]

Kept(reader, e) ==
  /\ ~reader.stopped
  /\ CASE e.kind = "message_start" -> ~reader.started
       [] e.kind = "start" -> e.block \notin reader.blocks
       [] e.kind \in {"delta", "stop"} -> e.block \in reader.open
       [] OTHER -> TRUE
  /\ e.kind # "message_start" => reader.started

Reads(reader, e) ==
  [started |-> TRUE,
   stopped |-> e.kind = "message_stop",
   open |-> CASE e.kind = "start" -> reader.open \cup {e.block}
              [] e.kind = "stop" -> reader.open \ {e.block}
              [] OTHER -> reader.open,
   blocks |-> IF e.kind = "start" THEN reader.blocks \cup {e.block} ELSE reader.blocks,
   broken |-> reader.broken \/ ~Kept(reader, e)]

ReadsAll(reader, events) ==
  LET after[n \in 0..Len(events)] ==
        IF n = 0 THEN reader ELSE Reads(after[n - 1], events[n])
  IN  after[Len(events)]

-----------------------------------------------------------------------------------
(* Holding back *)

MessageStarted == <<Message("message_start")>>

RecoveryInit ==
  /\ stage = "opening" /\ used = 0
  /\ ledger = EmptyLedger
  /\ kept = MessageStarted /\ committed = FALSE
  /\ finished = FALSE /\ parked = "none" /\ chunks = 0
  /\ todo = {} /\ repairs = <<>>
  /\ seen = NothingSeen

\* push, for the events of an emission and any events after them
Push(e, events) ==
  /\ ledger' = e.ledger
  /\ \/ committed /\ seen' = ReadsAll(seen, e.out \o events) /\ UNCHANGED <<kept, committed>>
     \/ ~committed /\ kept' = kept \o e.out \o events /\ UNCHANGED <<seen, committed>>
     \/ /\ ~committed /\ e.out # <<>>
        /\ seen' = ReadsAll(seen, kept \o e.out \o events)
        /\ kept' = <<>> /\ committed' = TRUE

\* flush, and then events that are not held back
Flush(events) ==
  /\ seen' = ReadsAll(seen, kept \o events)
  /\ kept' = <<>> /\ committed' = TRUE

-----------------------------------------------------------------------------------
(* Reading the upstream stream *)

\* A request that is refused for its shape or fails before the stream is open is
\* tried again within _create_stream.
OpenStream ==
  /\ stage = "opening"
  /\ stage' = "reading" /\ used' \in used + 1 .. Attempts
  /\ UNCHANGED <<ledger, kept, committed, readingVars, repairVars, seen>>

\* Nothing was generated: what is held back is dropped and the failure raised.
OpeningFails ==
  /\ stage = "opening"
  /\ stage' = "raised" /\ used' \in used .. Attempts
  /\ kept' = <<>>
  /\ UNCHANGED <<ledger, committed, readingVars, repairVars, seen>>

Chunk(e) ==
  /\ stage = "reading" /\ chunks < MaxChunks
  /\ chunks' = chunks + 1
  /\ Push(e, <<>>)
  /\ UNCHANGED <<stage, used, repairVars>>

\* A usage or role chunk, or reasoning the request does not want.
Silence == Chunk(From(ledger)) /\ UNCHANGED <<finished, parked>>

Finish == Chunk(From(ledger)) /\ finished' = TRUE /\ UNCHANGED parked

\* Empty reasoning starts a block of which nothing is written.
Reasoning ==
  /\ \E e \in {EnsureThinking(From(ledger)), WriteThinking(From(ledger))} : Chunk(e)
  /\ UNCHANGED <<finished, parked>>

ParkedKinds == {"none", "text", "thinking", "tool", "bad_tool"}

Unparked(e, what) ==
  CASE what = "none" -> e
    [] what = "text" -> WriteText(e)
    [] what = "thinking" -> WriteThinking(e)
    [] what = "tool" -> TextualTool(e, "full")
    [] what = "bad_tool" -> TextualTool(e, "junk")

\* The parsers give out what they kept, or else content of this chunk, and keep what
\* may yet turn out to be a tag or a tool call.
Content ==
  \E now, later \in ParkedKinds :
    /\ parked \in {"none", now} \/ (now = "none" /\ later = parked)
    /\ Chunk(Unparked(From(ledger), now))
    /\ parked' = later
    /\ UNCHANGED finished

ToolCall(t) ==
  /\ \E named \in BOOLEAN, content \in Fragments \cup {"none"} :
       Chunk(CallTool(From(ledger), t, named, content))
  /\ UNCHANGED <<finished, parked>>

Blank(l) ==
  \/ l.blocks = <<>>
  \/ ToolBlocks(l) = {} /\ ~Wrote(l, "text") /\ Wrote(l, "thinking")

MessageEnd == <<Message("message_delta"), Message("message_stop")>>

\* The stream ends with the reason it finished: what was kept back is written, a
\* message of no content or of reasoning alone gets a blank, and all is closed.
EndOfStream ==
  /\ stage = "reading" /\ finished
  /\ LET flushed == Unparked(From(ledger), parked)
         worded == IF Blank(flushed.ledger) THEN WriteText(flushed) ELSE flushed
         closed == CloseAll(FlushArguments(worded))
     IN  ledger' = closed.ledger /\ Flush(closed.out \o MessageEnd)
  /\ stage' = "completed" /\ parked' = "none"
  /\ UNCHANGED <<used, finished, chunks, repairVars>>

-----------------------------------------------------------------------------------
(* A failure of the upstream stream, its end without a reason included *)

\* Mutant of MayRetry: what the reader has already got is not thought of.
MayRetryCommitted ==
  /\ used < Attempts /\ ~AllComplete(ledger)
  /\ ~(Generated(ledger) /\ Attempts - used = 1)

\* The last attempt is left for the recovery of what was generated; complete tool
\* calls are salvaged without any.
MayRetry ==
  /\ used < Attempts /\ ~committed /\ ~AllComplete(ledger)
  /\ ~(Generated(ledger) /\ Attempts - used = 1)

MayRecover == Generated(ledger) /\ (used < Attempts \/ AllComplete(ledger))

\* The reader who got something has its blocks closed before the error; a repair
\* that fails leaves some call incomplete, so it does not change what can be salvaged.
GiveUp ==
  /\ stage' = "raised"
  /\ IF committed \/ AllComplete(ledger)
       THEN LET closed == CloseUnclosed(From(ledger))
            IN  ledger' = closed.ledger /\ Flush(closed.out)
       ELSE kept' = <<>> /\ UNCHANGED <<ledger, committed, seen>>

RetriesEarly ==
  /\ stage = "reading" /\ MayRetry
  /\ stage' = "opening"
  /\ ledger' = EmptyLedger /\ kept' = MessageStarted
  /\ finished' = FALSE /\ parked' = "none" /\ chunks' = 0
  /\ UNCHANGED <<used, committed, repairVars, seen>>

RecoveryBegins ==
  /\ stage = "reading" /\ ~MayRetry /\ MayRecover
  /\ stage' = "recovering"
  /\ todo' = IF AllComplete(ledger) THEN {} ELSE StartedTools(ledger)
  /\ UNCHANGED <<used, ledger, kept, committed, readingVars, repairs, seen>>

\* The failure is not retryable, or there is nothing to recover or to recover it with.
StreamRaises ==
  /\ stage = "reading"
  /\ GiveUp
  /\ UNCHANGED <<used, readingVars, repairVars>>

-----------------------------------------------------------------------------------
(* Recovery *)

Repairing == [ledger |-> ledger, out |-> repairs]

Recovers(e) ==
  LET closed == CloseAll(e)
  IN  /\ ledger' = closed.ledger /\ Flush(closed.out \o MessageEnd)
      /\ stage' = "recovered"
      /\ UNCHANGED <<readingVars, repairVars>>

\* _collect_recovery_text opens streams until one is complete.
Collects == used' \in used + 1 .. Attempts

\* What there is of a call's arguments: what was written, or else what is withheld.
Prefix(t) ==
  LET tool == ledger.tools[t]
      written == ledger.blocks[tool.block].content
  IN  IF written # "none" THEN written ELSE tool.withheld

RepairUnneeded(t) ==
  /\ stage = "recovering" /\ t \in todo /\ Prefix(t) = "full"
  /\ todo' = todo \ {t}
  /\ UNCHANGED <<stage, used, ledger, kept, committed, readingVars, repairs, seen>>

\* The text completes the object: with what was written of it, or with what was not.
RepairAccepted(t) ==
  /\ stage = "recovering" /\ t \in todo /\ Prefix(t) \in {"none", "part"}
  /\ Collects
  /\ todo' = todo \ {t}
  /\ LET unwritten == ledger.blocks[ledger.tools[t].block].content = "none"
         e == ToolDelta(Repairing, t, IF unwritten THEN "full" ELSE "rest")
     IN  ledger' = e.ledger /\ repairs' = e.out
  /\ UNCHANGED <<stage, kept, committed, readingVars, seen>>

RepairRefused(t) ==
  /\ stage = "recovering" /\ t \in todo /\ Prefix(t) # "full"
  /\ Collects
  /\ UNCHANGED <<stage, ledger, kept, committed, readingVars, repairVars, seen>>

ToolsSalvaged ==
  /\ stage = "recovering" /\ todo = {} /\ AllComplete(ledger)
  /\ Recovers(Repairing)
  /\ UNCHANGED used

\* A message without a tool call is continued where it broke.
TextContinued ==
  /\ stage = "recovering" /\ ToolBlocks(ledger) = {}
  /\ Wrote(ledger, "text") \/ Wrote(ledger, "thinking")
  /\ Collects
  /\ LET thought == WriteThinking(From(ledger))
     IN  \E e \in {thought, WriteText(From(ledger)), WriteText(thought)} : Recovers(e)

\* No text was usable, no attempt is left, or the attempt failed for good.
RecoveryFails ==
  /\ stage = "recovering" /\ ~AllComplete(ledger)
  /\ used' \in used .. Attempts
  /\ GiveUp
  /\ UNCHANGED <<readingVars, repairVars>>

\* The reader goes away, or the execution is cancelled.
Abandoned ==
  /\ stage \notin Over /\ stage' = "gone"
  /\ UNCHANGED <<used, ledger, kept, committed, readingVars, repairVars, seen>>

-----------------------------------------------------------------------------------
ReadsChunk == Silence \/ Finish \/ Reasoning \/ Content \/ (\E t \in Tools : ToolCall(t))

Runs ==
  \/ OpenStream \/ OpeningFails
  \/ ReadsChunk \/ EndOfStream
  \/ RetriesEarly \/ RecoveryBegins \/ StreamRaises
  \/ \E t \in Tools : RepairUnneeded(t) \/ RepairAccepted(t) \/ RepairRefused(t)
  \/ ToolsSalvaged \/ TextContinued \/ RecoveryFails

RecoveryNext == Runs \/ Abandoned

-----------------------------------------------------------------------------------
(* Properties *)

\* However often the upstream stream breaks and whenever it does, the client reads one
\* well-formed stream: no second start, nothing after the stop, no event of a block
\* that is not open, nothing of an attempt that was given up. A message that is
\* complete or recovered stops once, with all that was generated and every block
\* closed; one that is raised has its blocks closed for the error that follows.
ClientStreamIsWhole ==
  /\ ~seen.broken
  /\ stage \in {"completed", "recovered"} =>
       /\ seen.stopped /\ seen.open = {}
       /\ seen.blocks = DOMAIN ledger.blocks /\ seen.blocks # {}
  /\ stage = "raised" => ~seen.stopped /\ seen.open = {}

\* Arguments that are withheld until they are complete reach the client: none is left
\* when the message completes, in a recovered message every call has a whole object,
\* and until then the calls that must be rewritten show no part of theirs.
ToolsArriveWhole ==
  /\ stage = "completed" => \A t \in StartedTools(ledger) : ledger.tools[t].withheld = "none"
  /\ stage = "recovered" => ToolBlocks(ledger) = {} \/ AllComplete(ledger)
  /\ stage # "completed" =>
       \A t \in StartedTools(ledger) :
         KindOf[t] = "plain" \/ ledger.blocks[ledger.tools[t].block].content \notin {"part", "rest"}

\* What the client reads is whole, the arguments of its tools too.
ClientGetsItWhole == ClientStreamIsWhole /\ ToolsArriveWhole

RecoverySpec == RecoveryInit /\ [][RecoveryNext]_recoveryVars
===================================================================================
