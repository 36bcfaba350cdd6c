# A verification project for Free Claude Code

Free Claude Code is a local proxy for agent clients: it accepts Anthropic Messages, OpenAI
Responses and Chat Completions requests, executes them on a configured upstream provider, and
optionally bridges Telegram or Discord chats to managed Claude Code sessions. Everything runs
on one asyncio event loop in one process. What is hard about it is therefore not parallelism
but *suspension*: what happens between two awaits is atomic, anything can happen at an await,
and any awaiting task can be cancelled there.

The TLA+ modules beside this file model the components whose correctness depends on that, TLC
checks them on small instances and TLAPS proves the most important facts for all instances.
Paths below are relative to `src/free_claude_code/` unless they name a file of the repository's
root.

## 1. The system's parts

| Component | Code | State | Operations | Talks to |
| --- | --- | --- | --- | --- |
| Provider admission | `providers/admission.py` | recovery episode, semaphore, condition, per-session budgets | `open_attempt`, `succeeded`, `retry`, `aclose`, `run_with_retry` | sliding window, providers |
| Streaming execution | `providers/openai_chat/provider.py` | attempt, upstream stream, hold-back buffer | open, first chunk, early retry, mid-stream recovery, tool repair, close | admission, ledger, key pool |
| Sliding window | `core/rate_limit.py` | deque of admission times | `acquire`, `acquire_if`, `count_in_window`, `record_dispatch` | admission, key pool, messaging limiter |
| Key pool | `providers/key_pool.py` | ring pointer, cooldowns, per-key windows, task-scoped key | `create_with_rotation`, `__call__` | OpenAI SDK client |
| Provider generations | `runtime/provider_manager.py` | current and retired generations, leases, refresh task, candidates | `acquire`, `release`, `replace`, `refresh_model_list_cache`, `close` | routes, admin, application |
| Stream recovery | `providers/stream_recovery.py` | hold-back buffer, commit flag, early retries | `push`, `flush`, `advance_failure` | streaming execution |
| Failure policy | `providers/failure_policy.py` | none | classification of SDK and HTTP errors | admission, streaming execution |
| Response streams | `api/response_streams.py` | first event, commit, disconnect | commit, relay, close | HTTP clients, executor |
| Conversation trees | `messaging/trees/` | per-tree queue, active claim, node states, task slots | admit, claim, finish, cancel, remove, restore | workflow, node runner |
| Messaging workflow | `messaging/workflow.py`, `turn_intake.py`, `node_runner.py` | stop and clear generations, admission tokens | turn, stop, clear, restore | trees, sessions, outbox |
| Messaging limiter | `messaging/limiter.py` | per-chat queue, compacted edits, futures | enqueue, compact, worker, shutdown | platforms |
| Outbox | `messaging/platforms/outbox.py` | tracked background tasks | queue, fire and forget, close | limiter, platforms |
| Managed sessions | `cli/managed/manager.py`, `session.py` | session registry, pending ids, processes | get or create, register, stop, run | node runner |
| Session persistence | `messaging/session/` | in-memory snapshot, dirty flag, debounce timer | record, flush, clear, close | trees, workflow |
| Voice notes | `messaging/voice.py`, `platforms/voice_flow.py` | pending and claimed voice messages | reserve, claim, cancel, complete | transcription, workflow |
| Application life cycle | `runtime/application.py`, `asgi.py` | started, messaging runtime, config lock | start, apply config, close | all of the above |
| Protocol assemblers | `core/openai_responses/streaming/`, `core/anthropic/streaming/`, `core/anthropic/thinking.py` | open blocks, output items, parked text, terminal flag | events in, events out | response streams |
| Routing and execution | `application/` | none | resolve, execute, aggregate | generations, providers |
| Model catalog | `providers/runtime/discovery.py`, `model_cache.py` | models per provider, scope | warm up, discover, cache, prune | generations, admin |
| Configuration and admin | `config/`, `api/admin_routes.py` | env files on disk | load, validate, write | application |
| Launchers, desktop, web tools, conversion | `cli/`, `api/web_tools/`, `core/anthropic/` | processes, none | launch, fetch, convert | the operating system |

How they interact. A route takes a *lease* on the current provider generation, the executor
resolves a provider of that generation and asks it for a stream, the streaming execution asks
the *admission controller* for an attempt (recovery gate, then sliding window, then semaphore),
the upstream client may rotate *keys*, and the response stream relays the events; the lease is
returned when the response ends. Admin changes build a new generation and retire the old one.
The messaging bridge puts chat messages into *conversation trees*; each tree runs one node at a
time as a managed CLI process, which itself sends requests to the proxy.

### What is hard, and what makes each component correct

- **Admission.** Failures of concurrent attempts, timers, cancellations and results of older
  generations all meet in one episode. Correct means: one probe at a time while the provider is
  down, a lead is always held by somebody alive, no result of the past closes the present
  episode, no slot and no attempt is lost or used twice, everybody ends.
- **Streaming execution.** Owns an attempt across many awaits, opens further attempts for
  recovery while it still holds the first, and closes both in a `finally` that awaits.
- **Sliding window and key pool.** Promises about every interval of time, with sleepers that
  wake together and selections that are used later than they were made.
- **Provider generations.** A generation is closed by whoever happens to be last: a release, a
  replacement or the shutdown; each of them can be cancelled while it waits for the cleanup.
- **Conversation trees.** Claim, completion, cancellation, removal and restore race for the same
  node; a claim must become a task exactly once, and the queue must never stall.
- **Messaging workflow.** `/stop` and `/clear` overtake turns that are still being admitted.
- **Limiter, outbox, sessions, persistence, voice.** Shutdown against work in flight: no future
  is left unresolved, no process unowned, no snapshot lost, no voice message answered twice.
- **Admin updates and catalog.** What the file says, what is served and what the administrator is
  told are three places; discoveries and tests write the catalog long after they have begun.
- **Response streams, assemblers.** A response commits once; after that errors become events, and
  every opened block is closed exactly once before the terminal event.

## 2. Modules

| Module | Models | Kind |
| --- | --- | --- |
| `Admission` | `ProviderAdmissionController`, `ProviderAttempt`, `run_with_retry` | component |
| `StreamAdmission` | streaming executions: attempts, slots and cleanup over `Admission` | composition |
| `StreamLedger` | `AnthropicStreamLedger` and the tool-call assembler | operators, from an emission to an emission |
| `StreamRecovery` | what one streaming execution emits, holds back, retries, continues and repairs | component over `StreamLedger` |
| `ThinkTags` | `ThinkTagParser` | pure algorithm against its reference |
| `ResponsesAssembly` | the assembler of the Responses stream, and what a reader makes of its events | component |
| `SlidingWindow` | `StrictSlidingWindowLimiter` | component |
| `KeyPool` | `KeyPool`, with the per-key use of the limiter | component |
| `LeasedGenerations` | what the generations promise | abstract specification |
| `ProviderGenerations` | `ProviderRuntimeManager` | component, refines `LeasedGenerations` |
| `ResponseStreams` | requests of the HTTP API, their leases and streams | composition over `LeasedGenerations` |
| `AppLifecycle` | `ApplicationRuntime`: start, the gates of close, the turns that run meanwhile | component |
| `AdminConfig` | `apply_admin_config`, the catalog of models, discoveries and tests of a provider | component |
| `ServerSupervisor` | `ServerSupervisor` and the desktop controller, one runtime after another | composition over `AppLifecycle` |
| `OrderedLines` | taking something out of a queue: `Without`, `Thinned` | operators on sequences, of trees, `SerialQueue` and delivery |
| `MessageTree` | the aggregate of one conversation: graph, queue, live claim | operators, from a tree to a tree |
| `SerialQueue` | what the trees promise about execution | abstract specification |
| `ConversationTrees` | manager, repository and processor over `MessageTree` | composition, refines `SerialQueue` |
| `SavedTrees` | the snapshots of the trees that admissions, reports and commands save | composition over `ConversationTrees` |
| `MessagingWorkflow` | prompts, `/stop`, `/clear` and the startup notice | component |
| `MessagingDelivery` | `PlatformOutbox` over `MessagingRateLimiter` | composition |
| `ManagedSessions` | the CLI session manager, its sessions and the node runners that use them | composition |
| `SessionPersistence` | `SessionStore` over `DebouncedJsonPersistence` | component |
| `VoiceNotes` | `PendingVoiceRegistry` and `VoiceNoteFlow` | composition |
| `*Proofs` | theorems about the module they extend | TLAPS |
| `MC*` | small instances | TLC |

Conventions. One action is what one task does from one await to the next, including everything
its callees change on the way. Delays are either "elapsed or not" (admission) or ticks of a
clock. Cancellation is an action of its own wherever the code suspends. Bounds are constants
with "bound" in their comment; histories, which the code does not keep, say "history".
Definitions that start with "Mutant of" are deliberately wrong variants of the definition they
name; no specification uses them. `MCPacing`, `MCStreams`, `MCServing` and `MCMessaging` put several
models that share no state into one run: the initial state chooses the model that moves, the
others rest in theirs, so the states of the run are the sum of the models' states.

### Admission

`pc[s]` is where an execution is: at the gate, sleeping out a backoff, waiting on the condition,
woken, waiting for the rate limit or the semaphore, running, between attempts, ended. `episode`
is `_RecoveryEpisode` with `gen = 0` for `None`; `permit[s]` is the `_GatePermit` (0 for a normal
one); `failed` are the executions recorded in `failed_sessions`. `Admit` is one turn of
`_wait_for_gate`, `RateAdmitted`/`SlotGranted` the rest of `open_attempt`, `Succeed`, `Reject`,
`Fail` the three ways an attempt resolves and `Cancel*` what cancellation does at each await. The
sliding window is a suspension here; its own promise is `SlidingWindow`'s.

### StreamAdmission

A streaming execution holds an outer attempt and, in mid-stream recovery or tool repair, an
inner one. Its steps are those of `run`, `_create_stream`, `_collect_recovery_text` and
`_repair_tool_args` that touch attempts, slots and the order of cleanup; what the stream says is
abstracted to which of these steps comes next.

### StreamLedger and StreamRecovery

The other half of the same execution: what it says. An emission is a ledger together with the
events produced so far, and each operation of the ledger or of the tool-call assembler takes one
emission to the next. Content is what a reader of its JSON could tell: a part of an object, the
rest of it, a whole one, or junk; so "the arguments of every tool arrive whole" is a formula.
Tools are of three kinds, because `Task` calls and calls with aliased parameters are withheld until
they parse. `stage` in `StreamRecovery` is where `run` is: opening, reading, repairing, over. `kept`
is the hold-back buffer, `seen` what the client has read, as the automaton of
`assert_anthropic_stream_contract` would read it. A chunk is any of reasoning, text (which the parsers may
park), a tool-call delta, a finish reason or nothing. A failure at any point leads through
`advance_failure`'s order: early retry with a fresh ledger, salvage of complete tools, repair of
the incomplete ones, continuation of the text, or an error frame.

### ThinkTags and ResponsesAssembly

`ThinkTags` feeds the parser a text of tags, broken tags and plain characters, cut into chunks in
every way (what may still become a tag waits in the buffer) and compares the parts it answers with
those of the text read at once. `ResponsesAssembly` takes the events of an Anthropic stream (blocks
opened, written and closed in any order the relay lets through, explicit indexes or none, an error,
an end without a terminal event) through the assembler to Responses events; `reader` is the state of a
client that builds the response from the events alone, and at the terminal event it must have what
the terminal response lists.

### SlidingWindow and KeyPool

The limiter's deque is the log of all admissions without the `dropped` first ones, so the promise
is a formula about the log. The key pool's limiters are logs too. A lap of
`create_with_rotation` is `Start`, then one step per answer: the code does not await between an
error and the next dispatch except for the escalation backoff, which is the state `beat`.

### ProviderGenerations, LeasedGenerations and ResponseStreams

`gens[g]` is a `_ProviderGeneration` (leases, retired, closed, cleanup task present), `admin`,
`fetch` and `closer` are the program counters of `replace()`, `refresh_model_list_cache()` and
`close()`; the lock order of the code is their guards. `LeasedGenerations` knows only the phase of
each generation and its number of leases; `ProviderGenerations` maps to it by `PhaseOf`.
`ResponseStreams` stands on that abstraction: a request leases a generation, reads a stream of its
providers and either aggregates it, or prefetches its first chunk and hands lease and stream to a
response. `cleaner[c]` is the shielded cleanup task of `_wait_for_cleanup`, which goes on however
often the request is cancelled.

### AppLifecycle and ServerSupervisor

`owned` are the references an `ApplicationRuntime` holds, `part` the state of what they refer to, `gate`
the `best_effort` step of `_close_owned_resources` and `_cleanup_messaging` that the close waits at.
A gate that fails or is cancelled ends that try. `ServerSupervisor` runs one such runtime after
another on the worker thread (`worker` is its program counter from `run` through `_run_once`), while
`tray` is a click in progress on the main thread. Every field is guarded by the supervisor's lock;
the races are between two acquisitions of it.

### AdminConfig

`file` is the managed settings file, `published` the settings of each generation, `reported` whether
`_pending_fields` is not empty, `catalog` the providers `ProviderModelCache` has models of. Settings are
the providers and a `port`, which stands for all that needs a restart: providers are in use when the
generation that serves has them, a port when the process has started with it (`published[1]`), whatever
was published since. `forgotten` is a history of reports that were cleared though still due. An
update is one step when it is only written and otherwise a wait for the replace lock, a preparation,
a publication and the close of the generation before. A test keeps its answer after its lease is
returned, a discovery when all its providers have answered: both may be late. Leases and cleanup are
those of `ProviderGenerations`.

### MessageTree, ConversationTrees and SerialQueue

An operation of `MessageTree` runs under its lock without suspending, so each is an operator
from a tree record to a tree record: a node is in the tree when it has a state, `status` is the
set of prompts whose status message is still there, `active`/`work`/`cancelled` are the live claim.
References (prompts and statuses) are pairs, so that a reply knows literally what it answers.
In `ConversationTrees`, `trees` and `index` are the repository's two dictionaries and `slot[c]` is
the processor's `_TaskSlot` of claim `c` with the phase of its task: scheduled, announcing itself,
in the node runner (before or after a terminal report), or over but for its failure callback or
recovery task. The manager's lock is held for a whole critical section and contended locks are
waited for before anything changes, so admission, each report of a runner, each command and the
end of a claim are one action each. Draining a cancelled task is not an action: the command's
changes are made before it, and the drain gives up after five seconds. A tree detached while its
task winds down stays in `tree` until that task ends; the same prompt can meanwhile be admitted to
another tree. Claim ids are reused once nothing refers to them.

### SavedTrees

`stored` is the store's snapshot of each tree, `command` the command that holds the workflow's state
lock: its transition, the reading of the trees it has changed (`_current_snapshot`, after the
drain) and the save are three steps, because `_finish_transition` returns by way of a task. A report
of a runner is saved in the step that makes it. A restart, at any moment, makes the trees of what is stored.
A stop, or a clear of a reply, that raises (section 6, `trees_stop`) has changed trees and saves nothing;
a clear of the chat that raises wipes the snapshots of the whole chat, those of the trees it has not come to
too. Two histories name what this costs. `wiped` are the roots of such trees, until they are saved again.
`overtaken` are the nodes that have reported between the reading and the save of a command for one
reply, whose older snapshot overwrites their report, until a save or a reading of their tree mends it.

### MessagingWorkflow

Every prompt, command and notice is an actor; `at[a]` is where its task is, `token[a]` the stop and
clear generations it has read, `taken[a]` the messages it is about to delete. `visible` are the
messages in the chats and `logged` the managed message log. Sending and deleting are steps outside
the state lock; `stateLock` is held across the drain of a stop and the store write of a clear, and
`HolderSteps` is what `_finish_owned_operation` finishes whoever is cancelled. Of the trees it keeps
the state of each turn's node and what each prompt replies to. A node whose status a reply's clear has
taken is `faceless` while the task of its claim winds down (the drain of the clear gives up after five
seconds) and `bare` after that. Every command that meets a faceless node raises in `_ui_target`:
`StopRaises` after the stop generation has advanced, with the trees before that of the node stopped and the
rest untouched; `DetachRaises` after the clear generation has advanced, with the trees before it
detached, and `StoreTorn` forgets the log of the chat all the same; `StopReplyRaises` and
`ClearReplyRaises` within one tree. Which trees come before is the order of the repository, here any
union of whole trees without a faceless node (`Sound`). `missed` is a history of the turns that a
stop or clear has not come to, `lost` of the messages that a failure has cost.

### MessagingDelivery

A call is numbered in the order it is made. `ready` is the event loop's queue of tasks that have
not started, `line` and `entry` are `_queue_list` and `_queue_map`, `work` what the worker has in hand with
its futures. `mode` distinguishes a caller that waits, a task of the limiter, and a task of the
outbox that makes one (two hops). `shown` is a history of what was carried out last per key.

### ManagedSessions

The five maps of the manager, and per session its process, `_closed`, the lifecycle lock and the
`_cli_lock`; `runner[r]` is where `_process_node_impl` is in its use of one session. A runner that
leaves the event generator between two events leaves it suspended with the lock
(`Abandons`, `Finalized`); one cancelled inside it starts the shielded stop (`rescue`). Kills
happen under the lifecycle lock and may fail.

### SessionPersistence

Contents are versions. Every timer is a thread that may still be writing when the next is armed.
`saver[t]` is where a thread is between claiming, the snapshot under the store's lock, the
generation check under the writer's lock, the replacement of the file and the callback that
marks the store clean or dirty. A crash may come at any step and restarts from the file.

### VoiceNotes

Per note: the claim in the registry, the flow that owns the status message and the transcription,
and the child task in which the hand-off runs. A child may itself be a `/stop` or `/clear` that
cancels other notes and waits for their children; `Excluded` are the protected claims. `owners` is a
history of who took each claim off the registry.

## 3. Runs

| Run | Instance | Shows |
| --- | --- | --- |
| `pacing` | 3 executions of 3 attempts on 2 slots; 4 callers of a window of 2; 3 calls under 2 keys | recovery, rate and delivery: safety, and everyone who asks is answered |
| `streams` | 3 streaming executions of 2 attempts on 2 slots; a stream of 3 chunks and 3 attempts with a tool of each kind; 2 laps on 3 keys; 6 characters of tagged text; a Responses stream of 3 items | one upstream request: bounded, whole for the client in either protocol, paced |
| `stream_bulkhead`, `stream_slots` | 2 executions | two disagreements, section 6 |
| `key_pool_flat` | 2 keys, 2 laps | a disagreement, section 6 |
| `serving` | 2 lease holders, 3 generations, 3 faults; 2 HTTP requests on 2 generations; updates, tests and discoveries of 2 providers over 2 generations; a server with 2 restarts, 2 mishaps, 2 turns | nothing in use is closed, nothing is lost, the administrator sees the truth, orders are followed; what has begun ends; refinement of `LeasedGenerations` |
| `pending_restart` | the administration alone | a disagreement, section 6 |
| `trees` | 2 prompts, 2 aggregates, 2 claims; the same with snapshots, 1 task at a time | claims and tasks, index, terminal states, reach of a stop; a restart finds the trees, whatever raises |
| `tree_line` | 3 prompts in one tree | order (refinement of `SerialQueue`), nobody stranded, restorability; nodes and tasks end |
| `trees_stop` | 2 prompts in one tree | a disagreement, section 6 |
| `messaging` | 3 of 8 messages in 2 chats, or a scene of 4, 1 refusal; 2 notes and a typed command; 3 versions and a fault; 2 runners at a session or 1 runner with 2 | boundaries and thorough clears, raising commands included; processes, notes and versions owned; what has begun ends |
| `clear_feedback` | the same instance | a disagreement, section 6 |

Why the bounds are enough. Three executions allow a leader, a waiter and one whose result is stale
or that was admitted before the episode, which is every role the controller distinguishes; three
attempts allow a failure before, in and after a probe. Three chunks are enough for a text and a
reasoning block before a tool, for two interleaved tools, or for one whose arguments come in two
parts; three attempts allow an early retry, a failure after the commit, and one repair after
another. With two admissions per window four callers let sleepers of one entry wake together while
another arrives; the clock stops after windows have been filled, emptied and filled again. Three
calls under two keys are two that compact and one that stands between. Three keys are the fewest
that reach the escalation backoff (it needs two 429 answers before a third key). Three generations
allow a retired one, the one being replaced and a candidate; three faults allow a failed cleanup,
its failed retry and a cancellation. Six characters, of which the word of the tags is one, hold any
tag with text around it, or an opening one and all but the end of a closing one; three items are two
open at once and one that follows, two indexes one that is reused. Two providers, one of them local
and not referred to, distinguish what is configured, listed and cached; a second generation makes a
test, a discovery and an update of the first one late. Two mishaps let a gate fail in startup's own
cleanup and again in the close, two restarts let one arrive while another is served. Two aggregates
and two claims let a detached tree drain beside its successor of the same identity; three prompts in
one tree are a running one and two that wait, or a chain whose middle is removed. Of three messages
one can stand before, one in and one after a clear, and each choice of three among two prompts, a
stop, two clears, two clears of a reply and a notice is an initial state. A command that raises needs a
prompt and a clear of its status; what it does to others needs a fourth message, so three scenes of
four come as well: a second prompt beside a stop or beside a clear, and a second clear of a reply beside a clear. Two voice notes and a command
are the smallest circle of hand-offs that could wait for each other, with a third canceller. Three
versions are an old snapshot, a clear and a change after it. Two runners suffice to share one
session; sessions and real ids are reused by one runner after another in the instance with two. A
prompt that is removed can be admitted again, so the tree runs are unbounded in time although their
state is not.

`CHECK_DEADLOCK FALSE` stands where the system really may stop: streams that end or (finding) block,
a manager that is closed, a process that has ended, a chat in which nobody writes.

### Fairness

Every fairness condition is on steps the event loop, a thread or a timer takes by itself: a ready
task runs, a timer fires, an upstream call, a platform call or a managed CLI process ends, a callback
returns. Fairness is weak but for grants of an asyncio lock or semaphore, which is FIFO:
`CloseBegins` in `ProviderGenerations`, the grant of a slot in `Admission` and `StreamAdmission`, and
the runners' and `stop_all`'s steps in `ManagedSessions` are strong. Nobody has to send a request,
a message or a command, replace a generation, cancel anything or shut down, and nothing has
to fail. `SlidingWindow` has a clock that stops, so its fair specification lets time pass only
when no task is ready. `HolderSteps` in `MessagingWorkflow` is only about the holder of the state lock:
the drain of a stop gives up after five seconds, so that it ends is the code's own doing. That a stop of all
CLI sessions ends rests on `RunnersLeave`-style fairness of `ManagedSessions`, where kills have a timeout.

A liveness property of a combined run follows one asker of each model (`Followed`), for requests, callers, notes and
runners that are interchangeable; its comment names the components' properties it stands for.

## 4. Proofs

All theorems are proved by TLAPS from the named assumptions on the constants only; none bounds
the number of executions, requests, callers, generations or faults.

- `UpstreamProofs`, the admission: `TypeCorrect`, `BulkheadCorrect` (the slots taken are the running
  attempts'), `RecoveryCorrect` (who leads is alive, probes, sleepers and waiters are registered, budgets
  are left), and the action properties `RecoveryIsExclusive` and `StaleResultsAreInert`. The inductive
  invariant adds that generations only grow, that an exhausted episode is empty and that those recorded
  as waiting or failed are at the gate. The streams: `StreamsBounded` (`StreamsAreBounded`) and
  `StaleStreamsAreInert` (`StaleStreamIsInert`). Slots can be lost here (section 6), so nothing is conserved;
  instead each step accounts for what it takes and gives back no more than its execution held. The keys:
  `LapsArePaced` (`LapsKeepPace`) and `CooldownsAreKept` (`CooldownsDecide`). The bound on a window counts
  a lap that sits out its backoff in advance, when it selects the key and the key is below its ceiling.
  What the client gets of a stream: `ClientsGetItWhole` (`ClientGetsItWhole`), for any attempts, chunks and
  tool calls. The invariant (`StreamUnderway`, while the execution runs) says that a reader of the events
  sent, and of those held back after them, is in step with the ledger (`Shown`), or that nothing was sent
  and the ledger may be dropped with what is held back. The ledger adds `Rooted` (each open block is the
  thinking, the text or a tool call's, so `close_all_blocks` leaves none open) and `Hidden` (a call that is to
  be rewritten has shown no part of its arguments). Each operation of the ledger keeps these three, and
  each step of `run` is made of such operations. That reading two runs of events is reading one after
  the other is proved by induction over the length, from the well-foundedness in `OrderedLinesProofs`.
- `PacingProofs`, the window: `WindowTypeCorrect`, `StrictWindow` (the rate bound) and `NoIdleSleep`.
  The invariant adds that the log is sorted, that what was dropped has expired, and which entry a
  sleeper waits for. The delivery: `DeliveryTypeCorrect`, `FuturesAreKept` (`NoFutureForgotten`) and
  `EditsStayInOrder` (`EditsInOrder`). The invariant ties each caller to the entry, the piece of work
  or the closing that will answer it; for the order it adds that first tries of one key
  become ready in the order they were made (`ReadyInTurn`), hence reach the queue in that order
  (`FirstTries`), hence what is shown is not older than anything a first try has delivered (`Newest`).
- `ProviderGenerationsProofs`: `TypeCorrect`, `UsesAreSafe` (no generation is cleaned in use, no refresh
  wakes up on a retired one), `CloseIsComplete`, `LeasesAreCounted` (`NothingLost`) and `Refinement` (the
  manager implements `LeasedGenerations`). The invariant adds the order of generations in time, who
  can be inside the replace lock, which refresh the handle names and what a shutdown in progress still
  owns. Each action has a lemma; the refinement has one lemma per kind of abstract step.
- `ServingProofs`: of the administration `AdministratorSeesTruth` (from its publication to its answer an
  update keeps the file as it was published, and as long as the port of that file is not run it is
  reported, half done or forgotten), of the HTTP requests `LeasesOutlast`
  (`LeasesOutliveBodies`), of the server `ServersInOrder` (`ServerInOrder`), each after the type
  correctness of its module; and of the Responses stream `ResponsesAreWhole` (`ResponseIsWhole`), for
  any stream of events. Its invariant, `AssemblyInv`, puts the reader in step with the assembler: an
  item the reader has not seen done belongs to one active block and holds what that block was given,
  or it is a call that was refused and the response is in doubt; each slot is empty or lists its item
  as the reader has it; and no event was out of order. What `flush_active` completes is a recursive
  function on the number of blocks left, so its lemma is an induction over that number. Last the tags:
  `ChunksNeverMatter` (`ChunksDoNotMatter`), for content of any length. `Meaning` reads the content from
  the left, and `TagsInv` says that the parser is where this reading is, whatever should follow
  (`InStep`), with the beginning of one tag at most in its buffer (`AtRest`). One parse keeps `InStep`
  because only the first character of a tag is a bracket, so that what is given in front of the last one
  can never become a tag; and it takes a character at least or comes to rest, so `feed` ends at rest.
- `MessagingWorkflowProofs`: `TypeCorrect`, `StopsAndClearsAreBoundaries` and `ClearsReachAll`
  (`ClearsAreThorough`). The invariant adds that a prompt has a node only when its task is over, so that
  its token is never read again, that a live node is of the present generations or one of those missed even
  inside a critical section, and at which steps the state lock is held. Both hold with commands that raise
  anywhere and leave any part of the trees untouched.
- `MessagingServicesProofs`, three components beside the workflow, each with its type correctness.
  `NotesAreOwned`: the invariant ties the flow of a note to its child and its claim, says who may
  have taken a claim and when, and what becomes of a status message that was never bound; that the
  waits have no circle is inductive by itself, because a canceller takes only notes that are not
  cancelling, so the edges it adds lead out of any circle. `DiskIsKept`: memory changes only
  with the generation, so a snapshot of the present generation is the present state, and who has
  passed the check keeps the writer's lock until the file is replaced. `ProcessesAreOwned`: a session
  not yet made is nowhere, a session has one key in both maps together, a temporary id in use has no
  alias, and the holder of a lifecycle lock launches or kills a session that is closed.
- `OrderedLinesProofs`: lemmas about lines, that is sequences without repetitions. `Without` is a
  recursive function, so that it removes one member and keeps the order of the others is proved by
  induction over the length, stated with the set of the lengths that fail (a well-founded order has no
  smallest one). The proofs of the trees and of the delivery queue rest on these.
- `ConversationTreesProofs`: `TreesWellIndexed` (`WellIndexed`), `ClaimsExecuted` (`ClaimsAreExecuted`),
  `NobodyIsStranded` (`NobodyStranded`), `TreesRestorable` (`Restorable`), `StoppedMeansOver`
  (`StoppedIsOver`) and `TreesAreLines` (the trees implement `SerialQueue`), all from `TreesInvariant`.
  The inductive invariant `TInv` says of each aggregate that its graph is a forest, its queue a line of
  pending nodes and its claim of a running one (`Bodies`), of the repository that a node is in one
  tree under its key (`Places`), of the processor that a claim of an aggregate is the task in its slot or
  a launch on its way (`Slots`), and of commands in progress what they still hold (`Turns`). There
  is a lemma for each operation of the aggregate and one for each action; the refinement has three
  more, for a step after which jobs have left, one was submitted, or the running one has ended.
  The snapshots: `RestartsFindTheTrees` (`RestartFindsTheTrees`), of `SavedSpec` with any number of tasks.
  It is not inductive, because a command changes trees before it saves them. `SInv` adds to `TInv` what a command in
  progress owes: each tree that no raising clear has wiped has a snapshot of at least its messages
  (`Covered`); unless the command will save it (`Due`) it is the last one, but for the reports that
  `overtaken` names; a snapshot without a tree is about to be removed (`Removing`); what the command has read is
  the tree but for reports made since, and after a command that stops everything there are none,
  since nothing can be reported to a tree that is over (`Halted`).
  The step that restarts is the one that needs the snapshots to be sound, apart and finitely many.

Only model-checked are all liveness properties, which are beyond the prover (`EveryoneAnswered`,
`GenerationsEnd`, `ServingEnds`, `WorkEnds`, `MessagingEnds` and what they stand for). Every safety
property of the passing runs is a theorem (of `TypesOK`, which joins the type invariants of the three
models in `MCPacing`, each part is one).

## 5. Plan

Done: every stateful component of section 1 has a module. What is left, most valuable first:

1. The composition of `MessagingWorkflow` with `ConversationTrees` and `VoiceNotes`, which meet it only in
   the state of each turn's node and in a step that joins the notes.
2. The parser of tool calls in text (`core/anthropic/tools.py`) beside `ThinkTags`, and the Chat
   Completions stream.

## 6. Where code and documents disagree

Each of these is a run that TLC finishes with a counterexample.

| Run | What |
| --- | --- |
| `stream_bulkhead` | mid-stream recovery waits for a second slot while it holds the first; two recovering streams on two slots wait for ever (ARCHITECTURE.md: the bulkhead is held only while an upstream operation is active, never during backoff) |
| `stream_slots` | a cancellation during the stream's close skips the attempt's `aclose` and its slot is lost; if the execution leads a recovery, nobody takes the lead from it |
| `pending_restart` | an update is compared with the file and not with what the process runs: after a change that needs a restart was written, the next update publishes a generation with it, and the restart is no longer reported (ARCHITECTURE.md: such changes do not publish an in-process generation first) |
| `key_pool_flat` | an overload answer shortens a cooldown a 429 has set (the comment in `providers/key_pool.py` calls it flat) |
| `trees_stop` | after `/clear` on a status, a stop that meets the prompt's task still winding down raises before it drains the queue (`cancel_all`: atomically cancel every runnable node present) |
| `clear_feedback` | the feedback of a command, recorded outside the lock, is wiped from the log by a concurrent `/clear` that does not delete it (ARCHITECTURE.md: standalone clear deletes every tracked message) |

The cause of `trees_stop` reaches further: while such a task winds down, every command that comes
across its node raises. The run `messaging` shows what follows and the properties bound it.

- A stop of everything has advanced the generation, so that prompts still to be admitted are refused;
  but of the trees behind the raising one nothing is stopped, the CLI sessions are not, and
  nobody is answered. `Boundaries` excepts exactly the turns it has not come to (`missed`).
- A clear of the chat has advanced the generation, too. It wipes the log and the snapshots of the whole
  chat, deletes nothing, and is recorded itself. The messages of detached trees and all other tracked ones are
  out of reach (`lost`); the trees it has not come to live on, and a later clear still finds their
  messages there (`ClearsAreThorough` excepts these two). A restart finds none of these trees until a report, a
  command or an admission saves them: prompts admitted to them are lost (`RestartFindsTheTrees`, `wiped`).
- A stop or clear of a reply raises within its tree, and saves nothing of what it has changed there.

Properties that hold name the exceptions the code makes. `EditsInOrder`: the retry of a failed edit,
or a call that took more hops, may hide a newer text. `RestartFindsTheTrees`: a report that falls
between the reading and the save of a reply's stop or clear is overwritten in the store, until the
next save of that tree; the property allows only that the very nodes that reported then count as interrupted,
or lack their session, and no difference in messages, structure or other nodes. `StatusSettled`: a
voice flow cancelled before its child has begun leaves its status message. `NothingLeftBehind` and
`ClearedIsGone`: a failed store write of a clear, or a refused deletion, costs the ids it was about to
delete. `FileIsInUse`: an update answered with an error after the file was replaced leaves the file
ahead until the next one; and the disagreement of `pending_restart` leaves a port in the file that the
process does not run and nobody is told of (`forgotten`), never a provider. `CooldownsDecide`: an
overload answer cools a key as a 429 does, where the comment in `providers/key_pool.py` (31-33) speaks of
429 alone. The list of a test may be kept for a provider that was removed and configured anew
meanwhile; the next discovery replaces it. `ServersFollowRequests`: a restart that arrives after the
server has been judged, while its thread leaves, is accepted and has no effect; one that is accepted while
the server is still starting is lost, too, when uvicorn returns from the startup without a shutdown,
because the supervisor runs again only after a runtime that is closed.

## 7. What is not modelled

Wire conversion, schemas, rendering, token counting, routing and reasoning options are functions of
their input without state of their own; the failure policy is one, too, and its outcomes are inputs
of the models. Configuration manifests, client launchers and the admin pages are straight-line I/O.
Platform SDKs, the OpenAI SDK, uvicorn and the managed CLI are external: the models take of them
what the code relies on. Of modelled components the following is left out: trace events and log
lines; the contents of prompts, replies and snapshots; the trimming of the managed message log;
queue-position updates; the executor between route and provider; the parser of tool calls in text,
whose finds are inputs of `StreamLedger` (what it finds depends on how the text is cut into chunks: a chunk of
whitespace between a call's name and its parameters ends the call without them, so no
reading of the whole text exists to check it against); of a catalog's entry all but its provider. Aliased
arguments that parse as JSON but are no object are emitted at once by the code and only at the end
of the stream in `StreamLedger`: the client reads the same.
