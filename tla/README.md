# A TLA+ development of SNACA

SNACA is a server that lets people in chat rooms talk to an LLM agent. A chat
platform is attached through a *plugin*, a child process that speaks JSON-RPC
over its standard input and output. This directory holds TLA+ models of the
server's concurrent core, of the turn engine and of the Lark plugin, TLC
configurations that check them on small instances, and proofs, for every
instance, of what matters most: reliable delivery, the order and the
at-most-once of inbound messages, the plugin's RPC and life cycle, cards and
questions, approvals, the scheduler, the MCP pool, the plugin's dedup, the memory
tree, the tool calls of a response, the reply in the chat, shell commands, and edits
of shared files. Paths below are relative to `src/crates/` unless they begin
with `docs/`.

## 1. Inventory

    platform <-> plugin process (session, dedup, cards)
                   |  pipes (JSON-RPC)
            plugin host RPC ----------------------- plugin registry
              |  inbound channel         ^                 ^
              v                          | RPCs            | inject_inbound
          dispatcher --> chat worker --> turn engine    scheduler
              |               |            |  |  \
        state database     outbox <--------+  |   background tasks
                                              +-- LLM stream, tools, gates, MCP pool, memory

| component | state | operations | what is hard | correct when |
|---|---|---|---|---|
| **outbox** (`snaca-server/src/outbox.rs`) | table `outbox`; one actor, with a mailbox, per active chat | enqueue + inline first try, poll tick, route, dispatch a row, update-to-send fallback, purge, operator retry | the claim marks nothing, so a row can be in flight several times; RPC answers after the sender gave up; several SQL statements that belong together; crashes | delivered rows were seen; nothing is given up early; a settled row is not queued again; every pending row is settled; a failed update is replaced |
| **dispatcher** (`snaca-server/src/dispatch.rs`) | burst buffers and their timers, worker map, mailboxes, exit notices, table `inbound_dedup` | receive, acknowledge, dedup, assemble, flush, route, run a turn, recall, cancel | timers of old generations, idle workers that leave as a bundle arrives, full mailboxes, replays after a restart | a message runs once, in order, one turn per chat at a time, and none is lost track of |
| **plugin host RPC** (`snaca-channel-host/src/supervisor.rs`, `approval.rs`, `question.rs`) | request map, approval and question registries, writer and reader tasks, three bounded channels | spawn + handshake, `call_raw`, approval and question requests, callbacks, tool advertisement, shutdown | timeout, late answer and click race; every channel and pipe is bounded, so tasks wait in a ring; a plugin that hangs or dies | no slot leaks, no answer reaches the wrong call, calls and shutdown end |
| **plugin registry** (`snaca-server/src/plugin_registry.rs`) | slot map, `shutdown_requested` and `reload_count` per instance, respawn channel | insert, reload, supervisor, respawn worker, `shutdown_all` | a reload, a crash and a respawn of one plugin at the same time; nothing is locked across the awaits | one process per plugin; a crash is repaired; after shutdown nothing comes back, unless it raced with it |
| **scheduler** (`snaca-server/src/scheduler.rs`, `admin/schedules.rs`) | table `scheduled_tasks`, the tick's copy of the due rows | create, pause, resume, delete; tick, fire, reschedule | the tick works on a copy while operators edit; crash between fire and reschedule; slots missed in an outage | one fire per slot, no backlog, phase kept, nothing pinned |
| **background tasks** (`snaca-tools/src/task_registry.rs`) and commands in the foreground (`bash.rs`) | child behind an async mutex, status, ring buffers; two readers with a cap | spawn, pump, reap, stop; execute, read, time out | who holds the mutex across which await; status written by two tasks; pipes outlive the shell | the end is reported, the output is the tail, a stop stops; a call ends with the whole output |
| **turn engine** (`snaca-engine/src/engine.rs`) | a thread's rows, the request in flight, retry counters, tool calls and their results, early executions | turn loop, retries, localisation of a filtered message, early execution, segments, approval, cancel | calls that ran while the response streamed; retries that rebuild the request; cancellation drops futures at any await | every tool call is paired with one result; calls return what they would return in order; only a filtered message is redacted |
| **fences** (`snaca-engine/src/memory_fence.rs`) | what is held back of a content block, the block it is in | push a delta, flush, sanitize a transcript | two programs for one function, deltas cut anywhere | stream and transcript lose the same text |
| **history and compaction** (`engine.rs`) | `messages`, the thread's summary and its bounds | load, window, byte cap, collapse, pair, summarise in the turn or in the background | two compactions overlap one LLM call; a tail behind the summary that outgrows the limit; a band that outgrows the summariser's budget | history stays well formed, nothing is missing between summary and live rows, nor from the summary unless it was over the budget |
| **approval and question gates** (`gate.rs`, `question_gate.rs`, `text_question.rs`) | the pending question of a chat, stored decisions | ask, answer by card, answer by text, time out | release by key after a newer question took it | an answer goes to the question it was given to, nobody is forgotten |
| **MCP client pool** (`snaca-mcp/src/pool.rs`, `manager.rs`) | clients by tenant and project, backoff slots | get, connect, sweep, probe, evict, shut down | evict by key after an await; racing connects | a connection is evicted for a cause |
| **LLM client and retry** (`snaca-llm`) | attempt counter, blocks of the stream | stream, retry, accumulate | retry only before the first event | no event twice |
| **memory store and approval** (`snaca-memory`, extraction in `engine.rs`) | files, `MEMORY.md`, last-known contents, staged writes | write, force, read, regenerate the index, stage, approve, reject, extract, import | no lock covers the tree; several stores | nothing unknown is overwritten, the index is complete, staged writes are kept |
| **Lark plugin** (`snaca-plugin-lark/src/main.rs`) | session and backoff, dedup window, card registries, pump | reconnect, watchdog, dedup, forward messages and recalls, post, settle and cancel cards | redelivery after a reconnect; click, cancel and registration race | a message is passed on once and before its recall; a card tells the truth; the plugin is never deaf for good |
| **typing indicator** (`typing.rs`) | text so far, text pushed, id of the card | push a delta, forget on a retry of the stream, hand over | what was pushed is recorded before the push; a dropped push goes on in the plugin | the chat ends on the reply the engine returned |
| **file tools** (`snaca-tools/src/read.rs`, `edit.rs`, `multi_edit.rs`, `write.rs`, `snaca-tools-api/src/context.rs`) | the workspace's files; per thread, what was read with which mtime and size | Read, Edit, MultiEdit, Write, staging of attachments | the chats of a project share the files; gate, read, write and record are four steps; a cancelled write goes on | an edit changes only what its thread was shown |
| **state database, approvals** (`snaca-state/src/db.rs`, `gate.rs`, `gate_check` in `engine.rs`) | the shape of the tables, the search index and its marker, table `approval_decisions` | open and upgrade, append, remember, find, forget, ask | every program that opens the database upgrades it, statement by statement | no message is missing from the index, no approval covers more than it was given for |
| **search tools, workspace, protocol, SDK, skills, CLI, admin UI** | little or none | | | text, I/O and wiring |

`PROJECT.json` lists the same components with what is modelled of each, and
under `hazards` the places where this code is hard to test, each with the
property that watches it or the reason why none does.

How the components interact: the plugin host's reader task hands events to the
dispatcher over a bounded channel; the dispatcher answers through an RPC that
only the same reader can complete (modelled *inside* `PluginRpc`, because that
ring is its main hazard). The scheduler injects its prompts into the same
inbound channel, so in `Dispatcher` they are ordinary `inbox` events. Replies
go to the outbox, which reaches the plugin through the registry's current
handle: `Outbox` has the registry's slot as a variable `slot`, which a reload
takes (`SlotTaken`) and fills (`SlotFilled`). What `PluginHandle::spawn` and
`shutdown` do inside is in `PluginRpc`; `PluginRegistry` sees the two awaits.
A turn is one action pair (`TurnStarts`, `TurnEnds`) of `Dispatcher`; inside it
is `Conversation`, and one LLM response with its calls is `ToolBatch`. Cards
cross the host and the plugin, so `LarkCards` has both ends.

## 2. Plan

| module | about | state |
|---|---|---|
| `Outbox`, `OutboxProofs` | reliable delivery | done, proved |
| `Delivery` | what the outbox promises | done, that it keeps it is proved in `OutboxProofs` |
| `Dispatcher`, `DispatcherProofs` | inbound path | done, proved |
| `PluginRpc`, `PluginRpcProofs` | host side of one plugin process | done, proved |
| `PluginRegistry`, `PluginRegistryProofs` | life cycle of the processes | done, proved |
| `Scheduler` | prompts by time | done, proved in `PartsProofs` |
| `TaskRegistry` | background commands | done, proved in `ServicesProofs` |
| `History`, `Conversation`, `ConversationProofs` | a thread: turn loop, history, compaction, redaction | done, proved |
| `ToolBatch` | one response and its tool calls | done, proved in `PartsProofs` |
| `Questions` | text questions and the dispatcher's intercept | done, proved in `PartsProofs` |
| `McpPool` | connections to an MCP server | done, proved in `PartsProofs` |
| `Memory` | memory tree, index, staged writes | done, proved in `PartsProofs` |
| `LarkInbound`, `LarkCards` | events and cards of the Lark plugin | done, proved in `PartsProofs` |
| `Reply`, `ReplyProofs` | from the streamed deltas to the messages in the chat | done, proved |
| `Files` | a file that several chats of a project edit | done, proved in `PartsProofs` |
| `Decisions` | opening and upgrading the database; remembered approvals | done, proved in `PartsProofs` |
| `Fence` | removal of quoted prompt blocks from a stream | done, proved in `ReplyProofs` |
| `Shell` | a command in the foreground | done, proved in `ServicesProofs` |

Still worth stating: *Inbox*, an at-most-once queue per chat, implemented by
`Dispatcher`. Theorem to prove next: the types of the parts as a whole.

## 3. The modules and the code

Everything between two awaits of one task is one atomic step; every SQL
statement is one step (SQLite serialises them); an RPC is at least two, the
request and the reading of its answer. `PROJECT.json` maps every definition to
its lines.

**Outbox.** A row is a number; ids are handed out in creation order. The
columns the code decides with are functions on rows (`status`, `attempts`,
`nextAttempt`, `kind`, `chat`); `origin` links a replacement to the update it
replaces. `inline[r]` is the phase of the caller's first try
(`handle_first_attempt`), `work[c]` the row an actor dispatches (`dispatch_row`).
`Tick` and `Route` are the worker: a claim reads, it marks nothing, so a job
carries the `attempts` value it read. An actor that goes idle (`ActorIdle`)
may find a job already sent to it, which is then lost with the channel. A
sender that gives up leaves its request with the plugin (`limbo`), which may
still show the message. `Crash` forgets everything but the table.

**Delivery** is what the outbox promises, without queues, actors or retries:
an item is accepted, shown, recorded delivered once it was shown, or given up
because it was refused or its tries are used up. Tries begin for queued items
only, and only a try under way records anything: a recorded outcome is final
once no try begun before it goes on, until an operator asks again. Until then
such a try may turn delivered into failed or back (no statement looks at the
status), never queue the item again. `Outbox` maps onto it by `Promise`:
`status` becomes `outcome`, `shown` becomes `seen`, `UnderWay` (first tries,
claimed rows, mailboxes, the row an actor dispatches) `underway`.

**Dispatcher.** `held` is the event in hand and how far it is: `Receive`,
then `Prelude` (acknowledge, dedup), then `Ingest` or `RouteAtOnce`. Between
these steps workers and timers run, the other select arms do not. `buffer`
and `timers` are `InputAssembler`; a timer carries the generation and the
first arrival it was set for. `entry` is `WorkerMap`; a worker's `life`
separates the moment its exit notice is sent ("leaving") from the moment its
receiver is dropped ("gone"), because `route_to_chat_worker` behaves
differently in each. `Restart` drops what a dispatcher's end drops, and keeps
`recorded`, the dedup table.

**PluginRpc.** A call is a model value, used once as a request id is; `kind`
says what it is for. Its `phase` follows `call_raw` and, for cards,
`request_approval` and `request_question`, including the second request a
timed-out question makes (`leg = "cancel"`). The writer's channel, both pipes
and the inbound channel are bounded; a task that cannot deliver is blocked with
what it holds (`holding`). The dispatcher is in it as far as the ring needs:
it takes a line and acknowledges a message with the next unused call
(`NextAck`; the assumption gives it one for each message). `Drop` is a turn that is cancelled: its future goes
away at any await and releases nothing. The plugin reads, answers in any order,
hangs or dies.

**PluginRegistry.** One plugin name. An instance is a process with its
dispatcher task and its supervisor. The jobs that insert or remove slots
(start-up, each operator's reload, the respawn worker, shutdown) have a
program counter, one step per await. The other plugins are there in one place:
`shutdown_all` drains all slots in one step (`ShutdownAll`), and sets this
plugin's `shutdown_requested` (`FlagsDrained`) only when its loop gets there,
with any number of steps in between. `late` says that the supervisor woke in
that time.

**Scheduler.** `Tick` reads the due rows, `Fire` and `Reschedule` are the
loop's two awaits per row; operators act in between. `Advance` is the closed
form of the loop of `advance_next_fire`, with its cap. Operators' `interval`
is positive or absent (0), as `admin/schedules.rs` checks.

**TaskRegistry.** `lock` and `held` are the handle's async mutex and the
`Option<Child>` in it. Output bytes are numbered, so `TailIsKept` can say
which of them the buffer must hold.

**History** has the pure functions between a thread's rows and a request:
window, byte cap, clamp and collapse of tool results, repair of the pairing,
and the part of a band that a summary is made from (`RenderForSummary`).
A message says which row it stands for, so that properties can ask what became
of a row. **Conversation** is a thread around them: the turn loop of
`handle_turn_full` with each of its retries and limits, the rows it stores, the
compaction in the turn (`CompactInTurn`, forced after "context too long") and
the one spawned beside it (`jobs`), each of which stands for its whole band but
holds only the rows that fitted the summariser's budget (`holds`), and the search for the message that trips the
provider's filter (`Bisect`, whose halvings, at most as many as there are
messages, are a recursive function, with a cap on the probes).

**ToolBatch** is one response: the wire's blocks (`open` is the parser's
`current`), calls started while the stream runs (`preruns`, which a retry of
the stream leaves behind), then the segments of `run_tool_calls` with gate and
loop guard. Writes leave `marks` in a workspace and reads return the marks they
saw, so that "as if one after the other" can be stated.

**Questions** has the slot per chat of `TextQuestionRegistry`, the gate that
fills it and waits, and the dispatcher's intercept. **McpPool** steps from lock
section to lock section of `client_for`, the sweep and the health check.
**Memory** steps from one access to the disk to the next; `seen` is what the
shared store remembers, `known` (a history variable) what any tool of this
server has read or written. A turn may drop its call at any of these steps
(`Cancel`), and an access may fail (`Fail`); a write that the runtime's pool
already has lands later (`LandLate`, or `WriteIndex` at `late_index`). `raced`
holds what the index may miss: it grows when an entry is created beside another
regeneration or its writer does not come to the index, and shrinks when an
index that lists the entry is written and no other that misses it is still to
come.

**LarkInbound** keeps times as ages that stop at the bound they are compared
with. **LarkCards** has a card from the host's request to its last patch, with
the plugin's request tasks and its pump as separate actors.

**Reply** follows the answer to one message to the chat. `turn` is where
`process_message` stands; `acc`, `pushed` and `card` are the `TypingState`. A
text is the sequence of its chunks, a chunk the number of the LLM response it
came with, so "the reply" is the part of the last response. `rows` are the
rows this message can create: the reply's, the replacement of a failed edit,
and a file's. `requests` are the calls the plugin works on, each in a task of
its own (`stdin_loop`): the platform carries one out (`TakesEffect`) before its
caller hears of it, if it still listens (`heard`). `Outbox` is about the same
rows seen from the table, with crashes and duplicates; `Reply` is about what
the user sees of them.

**Files** is one file and the chats whose project it belongs to. `record` is a
thread's `ReadRecord`; a text never comes back, so of it only matters whether
mtime and size still agree with the file (`matches`). `shown` says whether the
text the file has is one a whole Read gave the thread, or one its own tools
made of such a one; "whole" means without offset and limit, as Read renders
it. Each await of a tool is a step (`op`); a write is one step, the moment in
which the file is truncated and not yet written is left out. `crossed` marks
the two cases the gate cannot notice: a write that keeps the size within one
tick of the clock, and one that comes between the gate of an Edit and its
write. `Stage` and `Command` write at any time; `Cancel` may leave a write that
lands later (`AbandonedLands`), since tokio does not recall it.

**Decisions.** `step[p]` is where program `p` is in `run_migrations`; each
statement is a step, so that the server and a command of the CLI overlap and a
kill leaves any prefix. `shape` says per table whether it has the columns of
this version; `index` is the set of messages `messages_fts` finds, `marked` the
row of `schema_migrations`. `rules` is `approval_decisions` for one tool: per
input, and under `CatchAll` for the signature `''`. `use[c]` follows
`gate_check`: two lookups, then the gate, whose behaviour (`GateOf`) is what the
two environment variables and the plugin's manifest make of it. `given` has the
rules as users and operators left them; `crossed` marks that two programs
rebuilt the table, of which the later one turns new rules into rules for
every input, or fails when they clash.

**Fence.** `Sanitize` is `sanitize_context`, `Scrub` the loop of
`StreamingScrubber::push`, whose state is `held` and `inside`; `text` has what
the provider sent in all. A symbol stands for a byte the two programs tell
apart; here the property is about a conversion, so that it is modelled by what
it does. `Round` is one round of the loop of `push`, inside a block (`SkipBlock`)
or looking for the next tag (`NextTag`); `Scrub` goes round once more often than
the text is long, since every round but the last takes something off it. The
names of the run differ in length by two, as those of the code do by three: only
then is there room for a whole short tag behind a `<` that may still become a long one.

**Shell.** A call of Bash without `run_in_background`: the shell and a process
it leaves behind (`heir`) write, the two readers keep up to the cap and then
close the pipe, the call waits for the shell and then for the readers. Timer,
cancel, exit, end of file and SIGPIPE come in any order.

**MCServices** and **MCParts** put modules that share nothing into one run. A
behaviour is one of one part (variables `service` and `part`), the others stay
in their initial states, so the run explores the sum of the state spaces, and
the properties of all are checked in it.

## 4. The runs

| run | asks | result |
|---|---|---|
| `outbox_safety` | Is what the table records true of the chat? Does the outbox keep the promise of `Delivery`? | holds; one update row and its replacement, one fault or operator's retry |
| `reply_stale` | Does the chat end on the reply the engine returned? | violated, section 5 |
| `dispatcher` | Does a message run once, in order, alone in its chat, and does each one's end come? | holds |
| `dispatcher_stale_exit` | Is the worker an exit notice names the one that sent it? | violated, section 5 |
| `plugin_rpc` | Are slots released and answers real; do the rings of full channels resolve, sent calls end, shutdown complete? | holds, the last two unless the plugin hangs |
| `plugin_registry` | Reloads, crashes, a panic, failed spawns and shutdown in every order. | holds outside the two races of section 5 |
| `plugin_registry_double` | Is there one process at most? | violated, section 5 |
| `services` | What must go on, does: due tasks, pending rows, dead commands, commands in the foreground, the Lark session. | holds |
| `task_stop` | Does a stop terminate the command? | violated, section 5 |
| `parts` | The safety of thirteen parts: thread (with and without caps), response, memory, pool, questions, cards, Lark events, scheduler, the reply of a message, a shared file, the database, the text of a content block. | holds |
| `thread_latest` | Does a request contain the message it is to answer? | violated, section 5 |
| `question_replaced` | Is only the question that was replaced cancelled? | violated, section 5 |

**Bounds, and why they suffice.** `outbox_safety`: one chat (rows of different
chats share only the table, and each statement touches one row), three
attempts (first, middle, last), two copies of a row (the second is the stale
one), one fault or retry (a second repeats the first from a state already
reached); `services` has a row with both.
`dispatcher`: one user sends a message of each kind, with one free delivery
bound of three, so all pairs of kinds meet and one of them can be a replay;
mailbox capacity one makes "full" reachable; three workers allow a worker to
be replaced twice; one restart and one failed dedup probe. `plugin_rpc`: all
channels have capacity one, the smallest at which each can be full; three
messages fill inbound channel, reader and pipe at once; the cards are in
behaviours of their own (`Workloads`), two calls each. `plugin_registry`:
two reloads and two crashes, so that any two of the jobs overlap while a third
instance starts. `services`: two tasks and a batch of one (a full batch),
intervals none and 2, a clock to 3 and `MAX_HOPS` = 2, so that a walk takes one
hop or two (`parts` has `MAX_HOPS` = 1, so that there it can end on its cap);
streams of eight bytes through a buffer of three with chunks of up
to four (fits, overflows, exceeds the buffer). A second background task would
share nothing with the first. A command prints up to three units on each
stream, with a pipe and a cap of one: below, at and beyond the cap.
`parts`: a thread of up to five rows when a turn begins, with a limit of two
and a tail of two, the smallest at which a compaction, a second one beside it
and a cut through a tool call all happen; a budget of four units for the text of
a summary, so that some bands fit it and others do not; one flagged row; each retry counter
allows one retry. A response of two calls of three kinds (free read, gated
read, write) whose arguments come in two parts. Two memory entries, two turns,
an extraction and a command, four operations, or three and one kill, restart,
cancelled call or failed access: the operations after it can heal the index. Two MCP keys with a cache of one
connection each and one dead server. Three questions, two messages. An
approval and a form with three clicks. Two Lark messages with a dedup of one
entry, so that the cap bites; the reconnect backoff stays at its minimum here and
doubles in `services`. A reply in two chunks or two responses (an
interrupted stream or a tool call lies between them), two attempts for a row
(the first, and a last one by the actor) and one call that times out, which is
enough for a request that outlives its caller and is overtaken by the next.
Two chats share a file, with one write on its way that outlived its turn; every
other writer is like the second chat or like a command. Two programs open any
mixture of old and new tables, with one kill or failed statement (a second
kill finds what the first one may leave); two inputs, so that a rule can be
applied to the wrong one. Texts of up to eleven symbols in pieces that cut every
tag in two, with a name of three symbols and one of one: an opened and closed
block of the long one takes eleven, of the short one seven.

**Deadlock** is checked in the outbox runs. The other systems really stop: a
finite number of messages, calls, reloads or commands, then nothing to do.

**Fairness.** Weak fairness of the server's own tasks: tokio runs a ready
task, and each loop polls again. For the outbox also of the plugin slot being
filled again and time passing; not of the plugin answering, since every RPC
has a timeout. For `PluginRpc` also of the plugin reading its pipe while it is
up; a plugin that hangs is a separate state in which nothing is assumed of it.
`TimerFires` is fair because `tokio::time::sleep` ends. Nothing is assumed of
users, operators, crashes, or a command ending by itself. The dispatcher's
select is one weakly fair choice: no arm is promised to win against another.
In `services` only one part moves in a behaviour, so a fairness condition on
an action of each of two parts is written as one condition on their
disjunction; it says the same as the two.

## 5. Where code and comments disagree

Each is a run that violates a property quoting the comment.

* `CanonicalIsShown`: the typing listener records a text as pushed before it
  asks the plugin to push it, and only logs a failure (`typing.rs:171`, 211).
  If the push that fails carried the whole reply, `process_message` finds that
  the reply is what was streamed and skips the final update: the user keeps
  the beginning of the reply. `ReplyIsShownOnce` holds with this case excluded.
* `ExitNoticeIsCurrent`: an exit notice holds only the chat id; read late, it
  aborts the worker that has replaced its sender, with that worker's bundle.
* `OneProcess`: a reload that takes the slot of a dead plugin while its
  respawn is already queued leaves two processes, one of which no slot knows.
* `StopTerminates`: the reaper holds the child's mutex while it waits for the
  command's exit, so `stop` waits for the exit it is asked to cause. The
  status says "killed" meanwhile.
* `LatestIsSeen`: behind a summary the live rows are read oldest first, up to
  the history limit. A tail longer than that loses its newest rows, among them
  the message the turn answers.
* `OnlyReplacedIsCancelled`: a question that was replaced releases the slot by
  its key, which is the newer question's by then; the newer waiter is
  cancelled though nobody replaced it.

Noted without a run of its own:

* *Shutdown.* `shutdown_all` drains the slots of all plugins, but tells a
  supervisor only when its loop reaches that plugin, after awaiting the shutdown
  of those before it (up to 5 s each). A plugin that has died and whose backoff
  (5 s) ends in between is restarted and registered after the drain, and nobody
  shuts it down; the comment at `plugin_registry.rs:324-325` wants the flag to
  prevent this. `StoppedStaysStopped` is false for it, so the property that is
  checked and proved, `OneProcessUntilStopped`, excepts the supervisor that
  wakes in between (`late`).
* *Given up.* Marking a row failed does not call its copies back. One that was
  claimed while the row was pending is dispatched all the same, though
  `snaca-state/src/db.rs:1201` says of the row that it "will not be retried": it
  may deliver a row recorded as failed, or an update beside its replacement.
  `Delivery` allows this as long as such a duplicate is under way.
* *Summaries.* The text for a summary is filled from the newest row of the band
  to the oldest up to 256 KiB, the summary is stored for the whole band. The
  comment at `engine.rs:3987-3988` says the head of the band "overlaps" the rows
  that are kept; the band starts right behind them (`engine.rs:1877`), so what
  was omitted is neither summarised nor sent. `HistoryIsKept` therefore excepts
  these rows (`Omitted`), and only these: the band must have been over the budget
  with the newest of them (`OverBudget`).
* *Outbox, scheduler, tasks.* The comments at `scheduler.rs:228-231` and
  `snaca-state/src/db.rs:1098-1101` say the next fire is `now + interval`, the
  code keeps the phase (`SlotsAdvance` states what it does);
  `outbox.rs:487-490` promises order within a chat, a rescheduled row is
  overtaken; `task_stop.rs:26` calls stopping a finished task idempotent, it
  overwrites the exit status; the `try_lock` in `Drop for TaskRegistry` meets
  the mutex the reaper holds, what ends running children is `kill_on_drop`;
  `docs/im-plugin-protocol.md:77-80` speaks of exponential backoff, the
  supervisor waits a fixed time.
* *Outbox.* A terminal failure of `message.update` is written in two
  statements, the status and then the replacement row; a crash or a failed
  insert in between loses the reply that the comment at `outbox.rs:188-192`
  says "still reaches the user" (`UpdateIsReplacedUnlessFault` excepts it).
* *Reply.* A turn cancelled during a push drops the call, not the plugin's
  request: a late edit may come after the final text (`overtaken`). Every
  failure on the way to Lark, a lost connection included, is a `PlatformError`,
  which `is_retryable` takes for final: an outbox row is retried only when the
  plugin process itself is silent or gone. A card whose answer was lost is
  sent again by the next delta.
* *Plugin RPC.* The timeout of an RPC starts only after its line is in the
  writer's channel (`supervisor.rs:305`): with a plugin that stopped reading,
  calls and the shutdown request wait before it.
* *Engine.* When a thread outgrows the pool of rows that a compaction reads,
  rows slide out of it that are neither in the head nor summarised. The
  bisection probes without summary and head although the comment near
  `engine.rs:1429` says its first probe "mirrors the real failing request".
  The comment near `engine.rs:1171` says the cancel arm wins a tie, the work is
  polled first. The doc of `gate_check` says a failing gate fails the turn,
  its caller turns it into a tool error. If the wire ever mixed the parts of
  two calls, the parser would run one of them with half its input
  (`INTERLEAVED`).
* *Approvals.* With `SNACA_APPROVAL_MODE=deny` "every gated tool is rejected"
  (`gate.rs:42-43`), but `gate_check` looks up remembered rules before it asks
  the gate: a call with a remembered rule runs. Its comment names a command
  `/approve`, which does not exist; nothing writes a rule for every input.
  The two lookups are not one transaction. The comment at `db.rs:70-71` says
  an upgrade is a no-op the second time; run by two programs at once on an old
  `approval_decisions`, the second rebuild widens the rules made in between.
* *Bash.* The description promises a "30 s default timeout" (`bash.rs:215`); it
  covers the wait for the shell. A command that leaves a process with its pipes
  (`server &`) returns when that process ends or closes them (`CallEnds`
  excepts it). A command that prints more than the cap may be killed by SIGPIPE
  and then returns an error instead of truncated output.
* *Fences.* When the text ends within the opening tag of a fence,
  `sanitize_context` drops the tag and `flush` passes it on, although its comment
  (`memory_fence.rs:247`) says that nothing confirmed is held. So it does with a
  whole tag that follows another `<` within the length of the longest name
  (`<<attachments>` at the end of a text): `classify_open` waits until a long name
  no longer fits, and what it waits with is not looked at again
  (`EndsUndecided` excepts both). A closing tag with
  something between name and `>` ends the block for the one, not for the other
  (`HasOddClose` excepts it).
* *Recalls.* A recall finds neither a message waiting in a worker's mailbox nor
  a turn that is just starting (`dispatch.rs:343`), and does nothing.
* *Questions.* A cancelled turn leaves its question's slot, and the chat's next
  message is swallowed as its answer.
* *MCP.* The health check evicts by key after its probes; with more than two
  racers there is more than "one extra subprocess"; a client may be inserted
  after the shutdown drained the pool.
* *Memory.* `store.rs:211-216` calls a sibling turn's write a drift; turns of a
  project share one store, so it is not. Check and write are two steps. An index
  listed before a concurrent write lands stays without it; so does the index
  after a write whose turn was cancelled, recalled or timed out between
  `fs::write` and `regenerate_index` (`engine.rs:1176`, `store.rs:280-282`), or
  whose regeneration failed. No second writer is needed, and nothing repairs it
  but the next write to the project.
* *Files.* The comment at `context.rs:235` says a cancel rolls back "file writes
  that hadn't flushed": a write already given to the pool lands. Read records
  a whole view although it cut long lines, showed a placeholder for a binary
  file or failed to parse one: the doc at `context.rs:36-40` names offset and
  limit only. Two attachments of one name in a message
  overwrite each other, and the prompt lists both. Edit is not serialised
  between the chats of a project: the later of two crossing edits undoes the
  earlier one (`crossed` excepts it).
* *Lark.* Message ids are recorded for dedup before they are processed; a form
  submitted before its registration, or after a restart, is dropped; the host
  gives up on a card after 10 s although the plugin may take 35 s to post it,
  and a timed-out approval is never marked cancelled.

## 6. What is proved

The theorems hold for every value of the constants under the assumption the
module states, which TLC evaluates in the runs. None of them assumes fairness.

| module | theorems (and what each states) |
|---|---|
| `OutboxProofs` | `TypeCorrect` (`TypeOK`), `DeliveredIsShown` (`DeliveredWasShown`), `FailedIsJustified` (`FailedWasJustified`), `FailedUpdateIsReplaced` (`UpdateIsReplacedUnlessFault`), `OutboxImplementsDelivery` (`ImplementsDelivery`) |
| `DispatcherProofs` | `TypeCorrect` (`TypeOK`), `OneTurnPerChat` (`SerialPerChat`), `ExecutedOnce` (`RunsOnce`), `NothingIsLost` (`Accounted`), `ExecutedInOrder` (`KeyFifo`) |
| `PluginRpcProofs` | `TypeCorrect` (`TypeOK`), `EndedCallsHoldNothing` (`SlotsReleased`), `ResultsAreCaused` (`ResultsAreReal`) |
| `PluginRegistryProofs` | `TypeCorrect` (`TypeOK`), `OneProcessAtATime` (`OneProcessUntilStopped`) |
| `PartsProofs` | `NobodyForgotten` (`NobodyIsForgotten`), `CardsAreTrue` (`CardsTellTheTruth`), `DatabaseIsKept` (`StoredIsKept`), `FiresOncePerSlot` (`FiresAreDue`), `EvictionsHaveCause` (`EvictedForCause`), `PassedOnOnce` (`ForwardedOnceInOrder`), `MemoryKept` (`MemoryIsKept`), `KnownIsOverwritten` (`OnlyKnownIsOverwritten`), `ReadsAreInOrder` (`AsIfInOrder`, where the wire does not mix the parts of two calls), `RequestPaired` (`RequestIsPaired`), `HistoryKept` (`HistoryIsKept`), the last two by the step of a thread that `ConversationProofs` proves |
| `ReplyProofs` | `ReplyShownOnce` (`ReplyIsShownOnce`), `StreamOneShot` (`StreamIsOneShot`) |
| `ServicesProofs` | `EndReported` (`EndIsReported`), `ServicesTyped` (`ServicesTypeOK`) |

**Outbox.** `OutboxProofs` proves, with TLAPS, for every set of chats, every `MAX_ATTEMPTS` and `BATCH`, and every value of the bounds:

* `TypeCorrect`: `Spec => []TypeOK`
* `DeliveredIsShown`: `Spec => []DeliveredWasShown`
* `FailedIsJustified`: `Spec => []FailedWasJustified`
* `OutboxImplementsDelivery`: `Spec => Promise!Spec`, the outbox implements
  `Delivery`

The only assumption is `OutboxAssumption` (some chat exists, the numbers are
naturals, attempts and batch are positive), which TLC evaluates in every
outbox run.

The properties are not inductive: that a sender writes "delivered" only for
a row the user saw depends on what it holds in memory. `IInv` adds

* `AnswersAreReal`: an answer a sender has in hand, as first try or as actor,
  is backed by what the plugin did (`shown`, `refused`);
* `JobsAreBehind`: a job in the tick's batch, in a mailbox or in an actor's
  hands is for a row that exists, with an `attempts` value at most the
  table's. This is why a stale copy can make a row live longer but never fail
  it early: an actor gives up when its copy plus one reaches `MAX_ATTEMPTS`,
  and then so does the column.

The argument: `TypeStep` shows types are preserved, one step per action.
`TableGrows` says what a step does to the table seen from memory (rows that
exist stay, `attempts` never falls); under it `JobsKept` carries
`JobsAreBehind` over every write. `SettledSafely` covers the writes that settle
a row. `SafeStep` goes through the actions of `Next`, and
`InductiveInvariant` combines the steps; the theorems follow.
`FailedUpdateIsReplaced` rests on `OriginsExist`, that a replacement names a row
that exists, so that a row is never taken for the replacement of a later one.

The refinement uses `IInv` and goes through the same actions: what a sender
records is a step of `Delivery` (`MarksImplement`), because the row was shown
or refused, or its tries are used up, when it does, and because the sender's
own try was under way and may end with it (`InlineTryEnds`, `ActorTryEnds`:
another copy may go on); a replacement row is accepted (`InsertsImplement`); a
claim, a dropped mailbox or a crash begins tries of pending rows or drops some
(`QuietTries`, `TryImplements`); the plugin shows or refuses a row whose try
goes on (`PeerStep`, `PeerImplements`).

**Dispatcher.** `DispatcherAssumption`: finitely many messages and at least one
(a step of the model has to name one), each with a key and a kind, each key with
a chat, and a positive mailbox capacity; any number of workers, restarts and
failed probes. `Shape` joins to the types what makes one worker per chat: a
worker that exists is the one its chat's entry names (`EntryIsWorker`), so that
two workers with a turn in one chat are the same; the mailbox and the turn of a
worker hold messages of its own chat only (`WorkerShape`), a burst those of its
own key (`BufferShape`). An exit notice removes whichever worker the entry names
by then (section 5), but it also aborts it, and a router replaces a worker only
once its receiver is dropped: so no entry loses a worker that still runs.

The theorems about copies, place and order build on it. *Once*: a message has as many copies as it has
passed the dedup probe, one of them by being recorded and the others by probes
that failed (`CopiesBounded`); a turn is started with a copy, and copies are
never multiplied. So `RunsOnce` allows one turn more than there were failed
probes, and exactly one when there were none. *Nothing lost*: what has arrived
and has no recorded end is somewhere (`OpenIsSomewhere`), and a burst in the
buffer has a timer of its own generation on its way (`BufferHasTimer`); that it
is in one place only needs that no probe failed. *Order*: arrivals are counted
(`ArrivalsCount`) and what arrived is recorded, so that it does not arrive again
(`ArrivedIsRecorded`); of two messages of one key the later one is in no place
behind which the earlier one still is (`OrderKept`: event in hand, buffer,
flush, mailbox by position, turn).

**PluginRpc.** `PluginRpcAssumption`: capacities are positive and there is a
call for each acknowledge. `SlotsReleased` (of calls whose future was not
dropped) follows from what the map and the token set hold while the call is
under way: a pending entry belongs to a call that is still busy with that leg
and has not been answered (`PendingIsUnanswered`), a token to a card that is not
decided (`TokenIsUndecided`). `ResultsAreReal` says two things: a call succeeds
only with what the plugin answered, and a card is decided only by a click; it is
carried through pipe and channels by `WireIsReal` and `RepliesAreReal`, where an
answer to a question is never taken for one to its cancel.

**PluginRegistry.** `RegistryAssumption`: finitely many reloads, their names
distinct from the fixed jobs. `Shape` holds always; `Order` holds as long as no
slot was taken while a respawn was under way and no dispatcher panicked, which
is where `OneProcessUntilStopped` stops as well (section 5). Its core is
`JobsExclude`: while start-up, a reload or the shutdown is at work the slot is
empty and no respawn is on its way, and while a restart is requested the slot
is empty or still holds the dead instance it replaces (`RespawnReplaces`). A live
process is then in the slot or in the hands of the one job at work
(`LiveIsHeld`). A supervisor that may still ask for a restart is that of the
instance in the slot, or of the one that was drained and not yet flagged
(`SupervisorIsCurrent`). If that one wakes in time the shutdown goes on beside
the restart, but what it has to stop is dead (`LateIsDead`): so there is still
one process at most, and only that none is left when the shutdown is done needs
`~late`.

**PartsProofs** speaks of the parts that `MCParts` puts side by side; since a
behaviour moves one of them, an invariant of a part is proved for the
behaviours of that part and holds trivially in the others. `PartsAssumption`
says that "none" is not among the values it is none of, that an operator's
command is no turn, that intervals, ages, counts and the hop limit are numbers,
and what the constants of the Lark plugin are:
a dedup that remembers for at least as long as a message may be delivered
(`EXPIRY <= DEDUP_TTL`; `main.rs` has 30 min and 12 h), with room for one.

* *Questions*: who is in a chat's slot still listens, or its turn was cut off
  (`SlotIsOpen`). A replaced waiter loses slot and sender in one step, so no
  message is taken as an answer that nobody hears.
* *Cards*: of registry entry, cancel and pump at most one may bring a card
  into its last form, and only while it is open (`OneMaySettle`); an entry left
  the registry by a cancel or by a click whose answer was sent
  (`EntryLeftForCause`), and a cancel was sent by an asker that gave up
  (`CancelledGaveUp`). No order of click, registration, cancel and lapse is
  assumed.
* *Database*: where a program stands tells what is done (`DoneBefore`), for any
  number of programs that upgrade at once and are killed between any two
  statements; where the marker is set or about to be, the index is whole
  (`MarkerIsTrue`): this needs that the triggers exist before the rows are
  counted. A table of the old shape has no rule of one input
  (`OldRulesAreBroad`), so the rebuild cannot narrow one; a call decides by the
  narrowest rule that was there (`CallsLookUp`). Both except a second program's
  rebuild (section 5).
* *Scheduler*: what the tick holds is due and has not moved (`CopyIsDue`), and a
  task that may be fired next has a fire to spare (`FireToSpare`,
  `LateFireToCome`). `WalkEnds` gives the arithmetic of `advance_next_fire`:
  the first slot after now, or one interval after now at the cap.
* *MCP pool*: a connection in the map, in a turn's hands or in the reaper's
  snapshot is for the key it is found under (`OwnersMatch`), and a key is marked
  only for a dead connection of its own (`MarkedForCause`). So an eviction by
  key, after awaits, never hits a key without cause.
* *Lark events*: what the pump took is in the dedup or has expired, or is one
  the dedup makes no promise about (`Handled`), and this is stable: an entry is
  no older than its message (`EntryIsYounger`), so that what is swept by age has
  expired. The channel keeps a message before its recall (`MessageComesFirst`),
  and the pump holds only what the host has not seen (`SeenOnce`).
* *Memory*: a file that the index does not have was created beside another
  regeneration, by a writer that died, was cancelled or failed, or its writer is
  still on the way to the index; and every index still to be written lists
  whatever is not `raced`, which is why `WriteIndex` may heal only what the
  others list too (`IndexIsOnItsWay`); an approval removes the staged write only after the
  file is there (`LandedBeforeRemoved`); and a write that passed the drift check
  found on the disk what the store remembers, which some tool has seen
  (`BaseIsKnown`). Nothing locks the
  tree, so every lemma takes any number of actors at any of their steps.
* *Files*: the property speaks of an Edit about to write; to keep it one must
  know that whatever the gate may let pass later is known too. `FilesInv` says
  it of the record (`RecordIsTrue`), of the Edit between its steps, whose record
  will vouch for what it has written (`EditIsTrue`), and of a Read whose record
  is still to be made (`ReadIsTrue`): here it matters that Read records the
  metadata from before it read the bytes. `OthersStayInformed` covers every
  write from the point of view of a chat that did not make it, `WriterSees` that
  of the one that did; one lemma per tool goes through the steps.
  `KnownIsOverwritten` states both halves of `OnlyKnownIsOverwritten`.
* *A thread*: the step is the work of `ConversationProofs` (below). `MCParts`
  has two instances of `Conversation`, one whose history is cut by bytes; `Talk`
  and `Tight` are the instances of the proofs, and the `Same...` and `Capped...`
  lemmas say that both instances of each pair mean the same.
* *Tool calls*: only the call that was opened last still gets parts
  (`ClosedInOrder`); an execution while the response streams has its whole
  input, only reads before it, and is over before anything is written
  (`EarlyIsInOrder`); of the other calls one starts when those before it are
  done, reads of its own segment excepted (`StartedInOrder`), and what a read can
  see are writes that are done (`MarksAreOfWrites`). The hypothesis `~INTERLEAVED` is what the run
  sets and what the providers send: one tool call after the other. Without it
  the property fails, as section 5 says.

**ConversationProofs.** For a thread of any length and every window, pool,
byte cap and probe cap (`Sizes`: they are numbers, as `ThreadAssumption` says;
nothing is assumed of calls or of their number per message). What the modules
compute by recursion over the messages or over the rounds of a search is
reasoned about with an induction in the form of a set (`Induction`), which
follows from the least element of a set of naturals (`WFMin` of the library),
so that no theorem with an operator as parameter is needed. Three facts about the operators carry the rest:

* *The repair pass* makes of any messages a request in which calls and results
  pair up, whatever was cut before it (`RepairPairs`): after each message, all calls but those of
  the last assistant message have their result, none has two, and results follow
  their calls (`Paired`). It loses no user or assistant message
  (`RepairCopies`), and messages that differ in redacted text only stay in step
  (`RepairFollows`).
* *The load* puts head, summary and tail together in the order of the rows, and
  under the window leaves out only the summary's band (`SplicedIsProper`,
  `SplicedIsWhole`). What is rendered of a band is its end, and all of it unless
  it was over the budget with one row more (`RenderedIsEnd`).
* *The search* keeps that what it has set aside does not explain the rejection
  while the suspects still do (`SearchInv`, `HalveKeeps`), so that the message
  it ends at is flagged (`CulpritIsBad`); a message that is not flagged never
  makes the difference (`InnocentClearsNothing`).

`HistoryIsKept` is not inductive: that the next load will miss nothing depends on
what a compaction holds while it waits for the LLM. `IInv` joins the shape of the
rows (a row has its own place, results only in tool rows, `RowShape`), the
summary as a band of rows, and the end of it that it was made from
(`SummaryShape`, `IsBand`; `BandStays` while rows are added or redacted), the same
for each compaction under way, in the turn or beside it (`JobShape`), the turn's count and
history (`TurnShape`), the last request (`RequestShape`) and the redactions
(`RedactionShape`). There is one lemma per group of actions; `NextInv` combines
them.

**ReplyProofs.** For the reply no assumption is made of the constants. The
invariant follows it from the listener's buffer to the chat:

* a row has its place in the turn (`RowsAreOfTurn`), each request its row, and
  per sender one request at most is waited for (`RequestsAreOfRows`); a message
  in the chat is the listener's or that of one row (`MessagesAreOfRows`);
* what the listener pushed and heard of is shown, unless an edit overtook it
  (`PushedIsShown`); a card it does not know of means an answer was lost
  (`CardIsKnown`);
* whatever the listener shows or is still sending is of an older response or a
  shorter piece of this one (`TextsAreBehind`). So the edit that the end of the
  turn makes is the first to show the reply, and when it fails the replacement
  shows it a second time only if the answer was what got lost (`ReplyIsNew`);
* a first try that delivered the text ended before any file was sent
  (`ReplyIsFirst`).

`LeavesBothWays` says what accepting, refusing, timing out and ending have in
common, `RowsMove` what an outcome makes of its row; with them there is one lemma
per action.

For the *fences* `FenceAssumption` says that texts and names are of the symbols
of the model, that no name is empty and none has a symbol of the tags (`<`, `/`,
`>`, white space) in it. That the scrubbed stream is the sanitized text is not
inductive: between two deltas the scrubber may be in a block whose end nobody
has seen, and hold what is not decided. `FenceInv` therefore speaks of every
text that the present one may become: for each, what was passed on, followed by
what `sanitize_context` makes of the text from where the scrubber stands, is
what it makes of the whole (`Agrees`). Where it stands in a block, this is said of
the place where the block was opened, and no closing tag has gone by since
(`Within`). The lemmas give what this needs:

* `Sanitize` is computed from right to left, and so defined at every position of
  a text (`After`, by the induction in the form of a set, from `WFMin`): it keeps
  what is in front of the next tag, and skips a block from its opening to its end;
* what `classify_open` has decided stays so however the text goes on; a tag that
  may be decided either way is still held;
* each round of the loop keeps `Agrees`, and all but the last take something off
  what is held, so that the rounds of the model are enough (`Settled` at the end);
* at the end of the text what is held is either no part of a fence, and
  both programs keep it, or one of the two exceptions of section 5.

**ServicesProofs.** `ServicesAssumption`: the sizes of the buffer and of a read
are numbers. The two halves of `EndIsReported` belong to behaviours of two
modules and are proved one after the other.

* *Background commands*: a process that was reaped is dead, and a mark that is
  not the reaped status was written by somebody who asked for a stop
  (`EndsAreTrue`); the buffer is a tail of what the pumps have read, of its full
  length or whole (`BufferIsTail`). `RingKeepsTail` shows this of the three
  branches of the ring: a chunk larger than the buffer, one that displaces old
  bytes, one that fits.
* *A command in the foreground*: what was printed is in a reader's hands or
  still in the pipe, unless it was cut at the limit (`NothingLeaks`), and the shell runs only while the tool
  waits for it (`ShellIsWaitedFor`).

`ServicesTyped` has `TypesAssumption` too: the tasks of the scheduler are some
and finitely many, sizes, counts and ages are numbers, the dedup of the Lark
plugin has room for one message, its shortest backoff is no longer than the
longest, and `OutboxAssumption`. Each service has an invariant of its own: the row in
hand is not in the batch and was due (`SchedShape`), a reaper is that of a child
(`TasksShape`), the dedup holds no message twice and what waits in the channel
is about a message (`LarkShape`, with `SweptIsDistinct` and
`RememberKeepsDistinct`: sweeping and the cap leave it so, hence its two halves
have the same size); the shell needs nothing but its types, and those of the
outbox are taken from `OutboxProofs` by instantiation (`OutboxTypes`).

## 7. Only model-checked, and not modelled

Only checked by TLC:

* all liveness (fairness and ENABLED are outside the prover), and the
  properties of `plugin_rpc`, `services` and `dispatcher` that say what must
  happen in the end;
* `PartsTypeOK` as a whole (the proofs establish the types of the thirteen parts
  as far as they need them);
* `AsIfInOrder` for a wire that mixes the parts of two calls, where it is false
  (section 5).

Left out of the modules: message text and payloads; empty message ids; the
throttle notice; the effects of slash commands and binding switches; malformed
lines and token checks (such a line is dropped); `file.read` and its cache; the
stderr task; the order of the steps of `Runtime::shutdown`; the lost wake-up of
`kill_signal.notify_waiters()`; strict mode of Bash and the sandbox; in `Reply` several files of one
turn, the plugin's downloads and reactions; the system prompt; nested agents;
the wording of summaries and the cap on a single block in their input; the wire
formats of the LLM providers; a disk that tears a file. Components not modelled at all are in the table of section 1 and,
with the reason, in `PROJECT.json`.

What the modules take for granted, beside their bounds:

* *A replay comes within a day.* The worker purges `inbound_dedup` of records
  older than one day (`outbox.rs:81-84`); in `Dispatcher` `recorded` never
  shrinks. `RunsOnce`, and so `ExecutedOnce`, hold for replays inside that day,
  which the code's comment calls comfortably past the realistic window. A
  message that is delivered again after it runs again.
* *A slow MCP server is a dead one.* `McpPool` has one kind of server that does
  not answer. A probe that times out on a server which is merely slow evicts
  the connection like that of a dead one, as the code does
  (`health_check` evicts on any error); `EvictedForCause` counts it as a cause.
