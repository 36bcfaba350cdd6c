---------------------------- MODULE ResponsesAssembly ----------------------------
(* The Responses stream that is assembled from an Anthropic stream: content blocks  *)
(* of the upstream, found by their index, become output items, numbered in the      *)
(* order in which they are opened. The client is a reader of the Responses protocol *)
(* that remembers what it was told, and whether the protocol allowed it.            *)
(*                                                                                  *)
(* The content of a block is the sequence of the fragments it was given: "text", or *)
(* "part", "rest" and "object" of the JSON of a tool's arguments. Token counts,     *)
(* identifiers and names are left out; the events that tell the end of an item's    *)
(* parts stand with the one that tells its own.                                     *)
EXTENDS Integers, Sequences

CONSTANTS
  BlockIndexes,             \* the indexes of upstream content blocks
  NoIndex,                  \* an event that names none
  MaxItems,                 \* bound: the items of a response
  MaxWritten                \* bound: the fragments of text and of arguments an upstream sends, together

ASSUME AssemblyAssumption == BlockIndexes \subseteq Nat /\ NoIndex \notin BlockIndexes

VARIABLES
  assembly,                 \* the ledger and the flags of the assembler
  reader,                   \* what the client has read
  outcome,                  \* "open", "over", "raised" to the caller, or "left" by the client
  wire                      \* history: the fragments sent of text and of arguments, and
                            \* whether the upstream reported or raised a failure

assemblyVars == <<assembly, reader, outcome, wire>>

TextKinds == {"message", "reasoning", "sealed"}

ToolKinds == {"function", "custom"}

NoItem == [kind |-> "none", content |-> <<>>]

Texts == {<<>>, <<"text">>}

-----------------------------------------------------------------------------------
(* The client *)

\* A list of output items, in the order of the slots that have one, is a function of these.
DoneItems(items) ==
  LET done == {n \in DOMAIN items : items[n].done}
  IN  [n \in done |-> [kind |-> items[n].kind, content |-> items[n].content]]

IsOpen(c, at) == at \in DOMAIN c.items /\ ~c.items[at].done

\* What the protocol allows next. The text of an encrypted item is not part of it.
MayTell(c, event) ==
  /\ c.end = "none"
  /\ c.begun <=> event.type # "created"
  /\ event.type = "added" => event.at = Len(c.items) + 1
  /\ event.type \in {"delta", "done"} => IsOpen(c, event.at)
  /\ event.type = "done" =>
       \/ c.items[event.at].kind = "sealed"
       \/ event.content = c.items[event.at].content
  /\ event.type \in {"completed", "incomplete", "failed"} =>
       event.output = DoneItems(c.items)

Heard(c, event) ==
  CASE event.type = "created" -> [c EXCEPT !.begun = TRUE]
    [] event.type = "added" ->
         [c EXCEPT !.items = Append(@, [kind |-> event.kind, content |-> <<>>, done |-> FALSE])]
    [] event.type = "delta" ->
         [c EXCEPT !.items[event.at].content = @ \o event.content,
                   !.texts = IF c.items[event.at].kind \in TextKinds THEN @ + Len(event.content) ELSE @]
    [] event.type = "done" -> [c EXCEPT !.items[event.at] = [@ EXCEPT !.done = TRUE, !.content = event.content]]
    [] OTHER -> [c EXCEPT !.end = event.type]

NewReader == [begun |-> FALSE, items |-> <<>>, texts |-> 0, end |-> "none", sound |-> TRUE]

\* An emission is the assembler's state with that of the client it has spoken to.
Say(e, event) ==
  [e EXCEPT !.reader = IF @.sound /\ MayTell(@, event)
                         THEN Heard(@, event)
                         ELSE [@ EXCEPT !.sound = FALSE]]

-----------------------------------------------------------------------------------
(* The assembler *)

NewAssembly ==
  [active |-> {},           \* _active_blocks, one at most of an index
   slots |-> <<>>,          \* _output_slots
   fallback |-> -1,         \* _fallback_text_index
   doubtful |-> FALSE,      \* _provisional_error
   truncated |-> FALSE,     \* _stop_reason is max_tokens
   started |-> FALSE, terminal |-> FALSE]

Now == [assembly |-> assembly, reader |-> reader]

EnsureStarted(e) ==
  IF e.assembly.started THEN e
  ELSE Say([e EXCEPT !.assembly.started = TRUE], [type |-> "created"])

ActiveAt(e, index) == {b \in e.assembly.active : b.index = index}

\* A block that has become an item of the output.
Done(e, block, content) ==
  Say([e EXCEPT !.assembly.slots[block.at] = [kind |-> block.kind, content |-> content]],
      [type |-> "done", at |-> block.at, content |-> content])

\* The item of a tool call is told its arguments at once, when they are complete.
DoneTool(e, block, arguments) ==
  Done(IF arguments = <<>> THEN e
       ELSE Say(e, [type |-> "delta", at |-> block.at, content |-> arguments]), block, arguments)

\* No arguments at all are an empty object.
IsObject(arguments) == arguments \in {<<>>, <<"object">>, <<"part", "rest">>}

\* Arguments of a function that are no object are kept from the client, and put the
\* whole response in doubt; a custom tool takes any input.
CompleteBlock(e, block) ==
  CASE block.kind = "function" ->
         IF IsObject(block.content) THEN DoneTool(e, block, <<"object">>)
         ELSE [e EXCEPT !.assembly.doubtful = TRUE]
    [] block.kind = "custom" -> DoneTool(e, block, block.content)
    [] OTHER -> Done(e, block, IF block.kind = "sealed" THEN <<>> ELSE block.content)

\* Mutant of CompleteExisting: a block whose index is used again is forgotten.
ForgetExisting(e, index) == [e EXCEPT !.assembly.active = @ \ ActiveAt(e, index)]

CompleteExisting(e, index) ==
  IF ActiveAt(e, index) = {} THEN e
  ELSE LET block == CHOOSE b \in ActiveAt(e, index) : TRUE
       IN  CompleteBlock([e EXCEPT !.assembly.active = @ \ {block}], block)

\* An item is opened in the next slot, on top of what its index stood for.
OpenBlock(e, index, kind, content) ==
  LET free == CompleteExisting(e, index)
      at == Len(free.assembly.slots) + 1
      block == [index |-> index, at |-> at, kind |-> kind, content |-> content]
  IN  Say([free EXCEPT !.assembly.slots = Append(@, NoItem), !.assembly.active = @ \cup {block}],
          [type |-> "added", at |-> at, kind |-> kind])

Grow(e, block, content) ==
  [e EXCEPT !.assembly.active = (@ \ {block}) \cup {[block EXCEPT !.content = @ \o content]}]

\* Text of the block that is active at an index; nothing is told of empty text.
EmitText(e, index, text) ==
  IF text = <<>> THEN e
  ELSE LET block == CHOOSE b \in ActiveAt(e, index) : TRUE
       IN  Say(Grow(e, block, text), [type |-> "delta", at |-> block.at, content |-> text])

\* The block that is to fill the slot, if one does.
CompleteSlot(e, active, slot) ==
  LET there == {b \in active : b.at = slot}
  IN  IF there = {} THEN e ELSE CompleteBlock(e, CHOOSE b \in there : TRUE)

\* All blocks, in the order of their slots.
FlushActive(e) ==
  LET upTo[n \in 0..Len(e.assembly.slots)] ==
        IF n = 0 THEN [e EXCEPT !.assembly.active = {}]
        ELSE CompleteSlot(upTo[n - 1], e.assembly.active, n)
  IN  upTo[Len(e.assembly.slots)]

Output(e) ==
  LET filled == {n \in DOMAIN e.assembly.slots : e.assembly.slots[n] # NoItem}
  IN  [n \in filled |-> e.assembly.slots[n]]

EndWith(e, status) ==
  Say([e EXCEPT !.assembly.terminal = TRUE], [type |-> status, output |-> Output(e)])

FinishResponse(e) ==
  LET flushed == FlushActive(e)
  IN  EndWith(flushed, IF flushed.assembly.doubtful THEN "failed"
                       ELSE IF flushed.assembly.truncated THEN "incomplete" ELSE "completed")

FailResponse(e) == EndWith(FlushActive(e), "failed")

-----------------------------------------------------------------------------------
(* The stream *)

AssemblyInit ==
  /\ assembly = NewAssembly
  /\ reader = NewReader
  /\ outcome = "open"
  /\ wire = [text |-> 0, arguments |-> 0, failure |-> FALSE]

Deliver(e) ==
  /\ assembly' = e.assembly
  /\ reader' = e.reader
  /\ outcome' = IF e.assembly.terminal THEN "over" ELSE "open"

HasSlot == Len(assembly.slots) < MaxItems

Send(fragments, part) ==
  /\ wire.text + wire.arguments + Len(fragments) =< MaxWritten
  /\ wire' = [wire EXCEPT ![part] = @ + Len(fragments)]

SendText(text) == Send(text, "text")

SendArguments(arguments) == Send(arguments, "arguments")

\* Text that comes without an index gets one nobody else has, below zero.
SafeIndex(index) == IF index = NoIndex THEN assembly.fallback ELSE index

Indexed(index) ==
  LET e == EnsureStarted(Now)
  IN  IF index = NoIndex THEN [e EXCEPT !.assembly.fallback = @ - 1] ELSE e

\* A block starts, with its first words or its first input.
TextStart(index, text) ==
  /\ HasSlot /\ SendText(text)
  /\ Deliver(EmitText(OpenBlock(Indexed(index), SafeIndex(index), "message", <<>>), SafeIndex(index), text))

ThinkingStart(index, text) ==
  /\ HasSlot /\ SendText(text)
  /\ Deliver(EmitText(OpenBlock(EnsureStarted(Now), index, "reasoning", <<>>), index, text))

RedactedStart(index) ==
  /\ HasSlot
  /\ Deliver(OpenBlock(EnsureStarted(Now), index, "sealed", <<>>))
  /\ UNCHANGED wire

ToolStart(index, kind, input) ==
  /\ HasSlot /\ SendArguments(input)
  /\ Deliver(OpenBlock(EnsureStarted(Now), index, kind, input))

\* Text for a block that is of another type, or not there, opens one for it.
WriteAt(e, index, kinds, text) ==
  LET fits == \E b \in ActiveAt(e, index) : b.kind \in kinds
      kind == IF "message" \in kinds THEN "message" ELSE "reasoning"
  IN  EmitText(IF fits THEN e ELSE OpenBlock(e, index, kind, <<>>), index, text)

TextDelta(index, text) ==
  /\ HasSlot /\ SendText(text)
  /\ Deliver(WriteAt(Indexed(index), SafeIndex(index), {"message"}, text))

ThinkingDelta(index, text) ==
  /\ HasSlot /\ SendText(text)
  /\ Deliver(WriteAt(EnsureStarted(Now), index, {"reasoning", "sealed"}, text))

\* Arguments go to an active tool; without one they are dropped.
ArgumentsDelta(index, fragment) ==
  LET e == EnsureStarted(Now)
  IN  /\ SendArguments(<<fragment>>)
      /\ \/ \E b \in ActiveAt(e, index) : b.kind \in ToolKinds /\ Deliver(Grow(e, b, <<fragment>>))
         \/ ~(\E b \in ActiveAt(e, index) : b.kind \in ToolKinds) /\ Deliver(e)

BlockStop(index) ==
  /\ Deliver(CompleteExisting(EnsureStarted(Now), index))
  /\ UNCHANGED wire

MessageDelta(truncated) ==
  /\ Deliver([EnsureStarted(Now) EXCEPT !.assembly.truncated = truncated])
  /\ UNCHANGED wire

\* The message stops, or the upstream ends without saying so.
MessageStop ==
  /\ Deliver(FinishResponse(EnsureStarted(Now)))
  /\ UNCHANGED wire

Fails == wire' = [wire EXCEPT !.failure = TRUE]

ErrorEvent ==
  /\ Deliver(FailResponse(EnsureStarted(Now)))
  /\ Fails

\* Any other event, and a block or a delta without the index it needs, only starts
\* the response.
OtherEvent == Deliver(EnsureStarted(Now)) /\ UNCHANGED wire

\* Before anything was told, a failure is the caller's to answer.
UpstreamRaises ==
  /\ Fails
  /\ \/ assembly.started /\ Deliver(FailResponse(Now))
     \/ ~assembly.started /\ outcome' = "raised" /\ UNCHANGED <<assembly, reader>>

ClientLeaves == outcome' = "left" /\ UNCHANGED <<assembly, reader, wire>>

AssemblyNext ==
  /\ outcome = "open"
  /\ \/ \E i \in BlockIndexes \cup {NoIndex}, text \in Texts : TextStart(i, text) \/ TextDelta(i, text)
     \/ \E i \in BlockIndexes, text \in Texts : ThinkingStart(i, text) \/ ThinkingDelta(i, text)
     \/ \E i \in BlockIndexes : RedactedStart(i) \/ BlockStop(i)
     \/ \E i \in BlockIndexes, k \in ToolKinds, input \in {<<>>, <<"object">>} : ToolStart(i, k, input)
     \/ \E i \in BlockIndexes, f \in {"part", "rest", "object"} : ArgumentsDelta(i, f)
     \/ \E truncated \in BOOLEAN : MessageDelta(truncated)
     \/ MessageStop \/ ErrorEvent \/ OtherEvent \/ UpstreamRaises \/ ClientLeaves

-----------------------------------------------------------------------------------
(* Properties *)

AllDone(c) == \A n \in DOMAIN c.items : c.items[n].done

\* An item the client waits for is either still active or a call that was refused.
NoItemIsForgotten ==
  \A n \in DOMAIN reader.items :
    \/ reader.items[n].done
    \/ \E b \in assembly.active : b.at = n
    \/ reader.items[n].kind = "function" /\ (assembly.doubtful \/ reader.end = "failed")

\* However the blocks of the upstream are ordered, cut, repeated or left open, the
\* client reads one response: created first, items added in order, told nothing once
\* they are done, done with what it was told of them, and a last event that repeats
\* them; and it is told every fragment of text. A response that is not failed has no
\* item left open, one that is failed has a reason to be, and a stream that is over
\* has told its end.
ResponseIsWhole ==
  /\ reader.sound
  /\ outcome = "over" => reader.end # "none"
  /\ outcome = "raised" => ~reader.begun
  /\ reader.end \in {"completed", "incomplete"} => AllDone(reader)
  /\ reader.end = "failed" => wire.failure \/ ~AllDone(reader)
  /\ NoItemIsForgotten
  /\ reader.texts = wire.text

AssemblySpec == AssemblyInit /\ [][AssemblyNext]_assemblyVars
=============================================================================
