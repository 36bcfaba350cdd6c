------------------------------ MODULE StreamLedger ------------------------------
(* The Anthropic stream ledger of one upstream attempt: which content blocks have   *)
(* been started, which are open, and what is withheld of the arguments of a tool    *)
(* call. Its operators take an emission, a ledger with the events produced so far,  *)
(* and return the emission after one more operation.                                *)
(*                                                                                  *)
(* The content of a block is what a reader of its JSON could tell: nothing, a part  *)
(* of an object, the rest of one, a complete valid object, or junk. Text is "full". *)
EXTENDS Naturals, SequencesExt

CONSTANTS
  Tools,                    \* the indexes of upstream tool calls
  KindOf                    \* KindOf[t]: whether its arguments are "plain", "task" or "aliased"

ASSUME LedgerAssumption == KindOf \in [Tools -> {"plain", "task", "aliased"}]

NoBlock == 0

Fragments == {"part", "rest", "full"}

Contents == Fragments \cup {"none", "junk"}

\* What two adjoining fragments of an argument string amount to.
Joined(first, second) ==
  IF first = "none" THEN second
  ELSE IF second = "none" THEN first
  ELSE IF first = "part" /\ second = "part" THEN "part"
  ELSE IF first = "part" /\ second = "rest" THEN "full"
  ELSE "junk"

NewTool == [block |-> NoBlock, named |-> FALSE, early |-> "none", withheld |-> "none", sent |-> FALSE]

EmptyLedger ==
  [blocks |-> <<>>,         \* _content_blocks: what was started, by index
   open |-> {},             \* _open_stack; blocks are pushed in the order of their indexes
   thinking |-> NoBlock, text |-> NoBlock,
   tools |-> [t \in Tools |-> NewTool]]

Event(kind, block, type) == [kind |-> kind, block |-> block, type |-> type]

Message(kind) == Event(kind, NoBlock, "message")

From(ledger) == [ledger |-> ledger, out |-> <<>>]

-----------------------------------------------------------------------------------
(* Blocks *)

StartBlock(e, type) ==
  LET block == Len(e.ledger.blocks) + 1
  IN  [ledger |-> [e.ledger EXCEPT !.blocks = Append(@, [type |-> type, content |-> "none"]),
                                   !.open = @ \cup {block},
                                   !.thinking = IF type = "thinking" THEN block ELSE @,
                                   !.text = IF type = "text" THEN block ELSE @],
       out |-> Append(e.out, Event("start", block, type))]

Delta(e, block, content) ==
  [ledger |-> [e.ledger EXCEPT !.blocks[block].content = Joined(@, content)],
   out |-> Append(e.out, Event("delta", block, e.ledger.blocks[block].type))]

StopBlock(e, block) ==
  [ledger |-> [e.ledger EXCEPT !.open = @ \ {block}],
   out |-> Append(e.out, Event("stop", block, e.ledger.blocks[block].type))]

\* thinking_started and text_started: the latest block of its type is open
StopOpen(e, block) == IF block \in e.ledger.open THEN StopBlock(e, block) ELSE e

EnsureThinking(e) ==
  LET alone == StopOpen(e, e.ledger.text)
  IN  IF e.ledger.thinking \in e.ledger.open THEN alone ELSE StartBlock(alone, "thinking")

EnsureText(e) ==
  LET alone == StopOpen(e, e.ledger.thinking)
  IN  IF e.ledger.text \in e.ledger.open THEN alone ELSE StartBlock(alone, "text")

WriteThinking(e) == LET s == EnsureThinking(e) IN Delta(s, s.ledger.thinking, "full")

WriteText(e) == LET s == EnsureText(e) IN Delta(s, s.ledger.text, "full")

CloseContent(e) == StopOpen(StopOpen(e, e.ledger.thinking), e.ledger.text)

-----------------------------------------------------------------------------------
(* Tool calls *)

StartedTools(ledger) == {t \in Tools : ledger.tools[t].block # NoBlock}

ToolDelta(e, t, content) == Delta(e, e.ledger.tools[t].block, content)

Withhold(e, t, content) == [e EXCEPT !.ledger.tools[t].withheld = content]

\* Task calls and calls with aliased parameters are rewritten, so their arguments
\* wait until they are a whole object; what follows a Task's object is dropped.
WriteArguments(e, t, content) ==
  LET tool == e.ledger.tools[t]
      whole == Joined(tool.withheld, content)
  IN  IF content = "none" \/ tool.sent THEN e
      ELSE IF KindOf[t] = "plain" THEN ToolDelta(e, t, content)
      ELSE IF whole # "full" THEN Withhold(e, t, whole)
      ELSE [ToolDelta(Withhold(e, t, "none"), t, "full")
              EXCEPT !.ledger.tools[t].sent = KindOf[t] = "task"]

\* The block of a call starts with its name; arguments that came before wait for it.
StartTool(e, t) ==
  LET early == e.ledger.tools[t].early
      started == StartBlock(e, "tool_use")
      bound == [started EXCEPT !.ledger.tools[t] =
                  [@ EXCEPT !.block = Len(started.ledger.blocks), !.named = TRUE, !.early = "none"]]
  IN  WriteArguments(bound, t, early)

CallTool(e, t, named, content) ==
  LET closed == CloseContent(e)
      known == IF named /\ ~e.ledger.tools[t].named THEN StartTool(closed, t) ELSE closed
  IN  IF known.ledger.tools[t].named
        THEN WriteArguments(known, t, content)
        ELSE [known EXCEPT !.ledger.tools[t].early = Joined(@, content)]

\* A tool call found in the text has its block started, written and stopped at once.
TextualTool(e, content) ==
  LET started == StartBlock(CloseContent(e), "tool_use")
      block == Len(started.ledger.blocks)
  IN  StopBlock(Delta(started, block, content), block)

\* The events of one kind for each of some blocks; their order means nothing to a reader.
Each(kind, ledger, blocks) ==
  LET list == SetToSeq(blocks)
  IN  [n \in DOMAIN list |-> Event(kind, list[n], ledger.blocks[list[n]].type)]

BlocksOf(ledger, tools) == {ledger.tools[t].block : t \in tools}

\* At the end of the stream: aliased arguments go out as they are, and a Task whose
\* arguments are no object gets an empty one.
FlushArguments(e) ==
  LET l == e.ledger
      waiting == {t \in StartedTools(l) : l.tools[t].withheld # "none"}
      written == BlocksOf(l, waiting)
      given(b) == LET t == CHOOSE t \in waiting : l.tools[t].block = b
                  IN  IF KindOf[t] = "task" THEN "full" ELSE l.tools[t].withheld
      blocks == [b \in DOMAIN l.blocks |->
                   IF b \in written THEN [l.blocks[b] EXCEPT !.content = Joined(@, given(b))]
                   ELSE l.blocks[b]]
      tools == [t \in Tools |->
                  IF t \in waiting THEN [l.tools[t] EXCEPT !.withheld = "none", !.sent = KindOf[t] = "task"]
                  ELSE l.tools[t]]
  IN  [ledger |-> [l EXCEPT !.blocks = blocks, !.tools = tools],
       out |-> e.out \o Each("delta", l, written)]

Stopped(e, blocks) ==
  [ledger |-> [e.ledger EXCEPT !.open = @ \ blocks],
   out |-> e.out \o Each("stop", e.ledger, blocks)]

CloseAll(e) ==
  LET closed == CloseContent(e)
  IN  Stopped(closed, BlocksOf(closed.ledger, StartedTools(closed.ledger)))

CloseUnclosed(e) == Stopped(e, e.ledger.open)

-----------------------------------------------------------------------------------
(* What the recovery asks of the ledger *)

ToolBlocks(ledger) == {b \in DOMAIN ledger.blocks : ledger.blocks[b].type = "tool_use"}

Generated(ledger) ==
  ledger.text # NoBlock \/ ledger.thinking # NoBlock \/ ToolBlocks(ledger) # {}

AllComplete(ledger) ==
  /\ ToolBlocks(ledger) # {}
  /\ \A b \in ToolBlocks(ledger) : ledger.blocks[b].content = "full"

Wrote(ledger, type) ==
  \E b \in DOMAIN ledger.blocks : ledger.blocks[b].type = type /\ ledger.blocks[b].content # "none"

===================================================================================
