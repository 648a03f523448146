------------------------------ MODULE MCParts ------------------------------
(***************************************************************************)
(* Model-checking instance of the parts of the server and of the Lark      *)
(* plugin that are checked for safety each by itself: a thread             *)
(* (Conversation, with room for its history and, as "capped", without),    *)
(* one response and its tool calls (ToolBatch), the memory tree (Memory),  *)
(* the MCP connections (McpPool), the text questions (Questions), the      *)
(* cards (LarkCards), the inbound events of Lark (LarkInbound), the        *)
(* scheduler (Scheduler), the reply of one message (Reply), a file of the  *)
(* workspace (Files), the database and the approvals in it (Decisions),    *)
(* and the text of one content block (Fence).  A behaviour is one of one   *)
(* part, the others stay in their initial states: one run explores the sum *)
(* of the state spaces, not their product.                                 *)
(***************************************************************************)
EXTENDS Integers, Sequences, FiniteSets, TLC

CONSTANTS
  Parts,           \* the parts this run explores
  LIMIT, KEEP, FIRST, MAX_POOL, MAX_ITERATIONS, COMPACT_RETRIES, MALFORMED_RETRIES,
  FILTER_RETRIES, ESCALATIONS, PROBE_CAP, MaxUses, MaxRows, MaxBad, MaxJobs,
  SUMMARY_TOTAL, CAP_BYTES, CAP_RESULT, CAP_COLLAPSE, CAP_ROWS,  \* CAP_: of the capped thread
  MAX_CONNECTS, MAX_RETRIES, TOOL_LIMIT, Kinds, INTERLEAVED, MaxCalls, MaxParts,
  Entry, Turn, Task, Cli, None, Version, Bad, Id, MaxOps, MaxCrashes,
  Key, PoolTurn, IDLE_TTL, BACKOFF_BASE, BACKOFF_MAX, MaxClock, MaxClients, MaxFailures, MaxDeaths,
  Ask, Message,
  Card, Approval, Form, MaxClicks,
  Undated, EXPIRY, DEDUP_TTL, DEDUP_SWEEP_INTERVAL, DEDUP_MAX_ENTRIES,
  RECONNECT_BACKOFF_MIN, RECONNECT_BACKOFF_MAX, RECONNECT_GOOD_SESSION, WS_WATCHDOG_SILENCE,
  MaxQueue,
  a, b, Tasks, Intervals, BATCH, MAX_HOPS, MaxTime, MaxStops, MaxEdits,
  MAX_ATTEMPTS, MaxResponses, MaxChunks, MaxTimeouts,
  Chat, MaxAbandoned,
  Opener, Host, Input, CatchAll, Msg, Use, MaxKills,
  PROTECTED_FENCES, Chunk, MaxText

(* What the proofs need of the constants: "none" is no value of its kind,  *)
(* an operator's command is no turn, a rule for every input is no rule of  *)
(* one input, the server opens the database, intervals and times are       *)
(* numbers, and the dedup of the Lark plugin keeps a message for as long   *)
(* as an unexpired one may be delivered (12 h and 30 min there); and the   *)
(* sizes that bound a thread's requests are numbers.                       *)
ASSUME PartsAssumption ==
  /\ None \notin Ask \cup Message \cup Key /\ None \notin Int
  /\ Turn \cap Cli = {} /\ CatchAll \notin Input /\ Host \in Opener
  /\ Intervals \subseteq Nat /\ {MAX_HOPS, IDLE_TTL, MaxCalls, MaxParts} \subseteq Nat
  /\ {EXPIRY, DEDUP_TTL, DEDUP_SWEEP_INTERVAL} \subseteq Nat /\ EXPIRY <= DEDUP_TTL
  /\ DEDUP_MAX_ENTRIES \in Nat \ {0}

ASSUME ThreadAssumption ==
  {LIMIT, KEEP, FIRST, MAX_POOL, PROBE_CAP, SUMMARY_TOTAL, CAP_BYTES, CAP_RESULT, CAP_COLLAPSE}
    \subseteq Nat

VARIABLES part,
  rows, summary, jobs, turn, request, strayed,
  phase, connects, attempt, calls, arrived, open, ended, barrier, stop, preruns, status, result,
  marks, remembered,
  approval, file, index, seen, pending, lock, job, ops, crashes, known, raced, staged, landed,
  rejected,
  clock, clients, lastUsed, failures, retryAfter, poolTurn, owner, dead, reaper, snapshot, failed,
  ask, slot, closed, answer, after, message, lapsed,
  cardAsk, tokens, present, cancel, shown, registered, clicks, cardPump, callbacks, sent, dropped,
  cardClicks,
  alive, session, uptime, backoff, wait, silence, age, delivered, queue, pump, dedup, order, sweep,
  evicted, forwarded, recalled,
  now, row, interval, nextFire, tick, tickNow, batch, current, fires, lateFires, resumed, stops,
  edits,
  editable, listening, response, acc, pushed, card, acked, reply, files, outbox, requests, chat,
  overtaken, unanswered, timeouts,
  there, record, read, tool, abandoned, crossed,
  shape, triggers, messages, found, marked, rules, step, gate, use, given, rebuilt, kills,
  block, text, held, inside, said

threadState == <<rows, summary, jobs, turn, request, strayed>>
batchState  == <<phase, connects, attempt, calls, arrived, open, ended, barrier, stop, preruns,
                 status, result, marks, remembered>>
memoryState == <<approval, file, index, seen, pending, lock, job, ops, crashes, known, raced,
                 staged, landed, rejected>>
poolState   == <<clock, clients, lastUsed, failures, retryAfter, poolTurn, owner, dead, reaper,
                 snapshot, failed>>
askState    == <<ask, slot, closed, answer, after, message, lapsed>>
cardState   == <<cardAsk, tokens, present, cancel, shown, registered, clicks, cardPump, callbacks,
                 sent, dropped, cardClicks>>
larkState   == <<alive, session, uptime, backoff, wait, silence, age, delivered, queue, pump,
                 dedup, order, sweep, evicted, forwarded, recalled>>
schedulerState == <<now, row, interval, nextFire, tick, tickNow, batch, current, fires, lateFires,
                    resumed, stops, edits>>
replyState  == <<editable, listening, response, acc, pushed, card, acked, reply, files, outbox,
                 requests, chat, overtaken, unanswered, timeouts>>

fileState   == <<there, record, read, tool, abandoned, crossed>>
fenceState  == <<block, text, held, inside, said>>
dbState     == <<shape, triggers, messages, found, marked, rules, step, gate, use, given, rebuilt,
                 kills>>

turnState   == <<threadState, batchState, memoryState, poolState, askState>>
pluginState == <<cardState, larkState>>
serverState == <<schedulerState, replyState, fileState, dbState, fenceState>>
vars == <<part, turnState, pluginState, serverState>>

Thread == INSTANCE Conversation WITH MAX_BYTES <- 0, MAX_RESULT <- 0, COLLAPSE <- 0
Capped == INSTANCE Conversation
            WITH MAX_BYTES <- CAP_BYTES, MAX_RESULT <- CAP_RESULT, COLLAPSE <- CAP_COLLAPSE,
                 MaxRows <- CAP_ROWS
Batch  == INSTANCE ToolBatch
Mem    == INSTANCE Memory
Pool   == INSTANCE McpPool WITH Turn <- PoolTurn, turn <- poolTurn, now <- clock, MaxTime <- MaxClock
Text   == INSTANCE Questions
Cards  == INSTANCE LarkCards WITH ask <- cardAsk, request <- present, pump <- cardPump,
                                  clicked <- cardClicks
Lark   == INSTANCE LarkInbound WITH seen <- dedup
Sched  == INSTANCE Scheduler
Said   == INSTANCE Reply WITH turn <- listening, rows <- outbox
Shared == INSTANCE Files WITH exists <- there, shown <- read, op <- tool
Db     == INSTANCE Decisions WITH index <- found, crossed <- rebuilt
Quoted == INSTANCE Fence

(* Names that differ in length by two symbols: after a "<" that begins no  *)
(* tag, the short one has room in what a long one could still begin.       *)
Names  == {<<"m", "n", "o">>, <<"a">>}
Deltas == {<<"<", "m", "n">>, <<"o", ">">>, <<"x", "<">>, <<"m", "n", "o">>, <<"<", "a">>,
           <<">">>, <<"/", "m">>, <<"/", "a", ">">>, <<"/", ">", " ">>}

(* Names and texts are of the symbols of both, no name is empty, and none  *)
(* has a symbol of the tags in it.                                         *)
ASSUME FenceAssumption ==
  /\ Chunk \subseteq Seq(Quoted!Symbol) /\ PROTECTED_FENCES \subseteq Seq(Quoted!Symbol) \ {<<>>}
  /\ \A n \in PROTECTED_FENCES : \A i \in DOMAIN n : n[i] \notin {"<", ">", " ", "/"}

Init ==
  /\ part \in Parts
  /\ Thread!Init /\ Batch!Init /\ Mem!Init /\ Pool!Init /\ Text!Init
  /\ Cards!Init /\ Lark!Init /\ Sched!Init /\ Said!Init /\ Shared!Init
  /\ part # "memory" => approval
  /\ part # "reply" => editable
  /\ part # "files" => there
  /\ Db!Init /\ Quoted!Init
  /\ part # "database" => Db!Fresh /\ triggers = FALSE /\ gate = "allow"

OnlyTurn   == UNCHANGED <<part, pluginState, serverState>>
OnlyPlugin == UNCHANGED <<part, turnState, serverState>>

OnlyThread == OnlyTurn /\ UNCHANGED <<batchState, memoryState, poolState, askState>>
OnlyBatch  == OnlyTurn /\ UNCHANGED <<threadState, memoryState, poolState, askState>>
OnlyMemory == OnlyTurn /\ UNCHANGED <<threadState, batchState, poolState, askState>>
OnlyPool   == OnlyTurn /\ UNCHANGED <<threadState, batchState, memoryState, askState>>
OnlyText   == OnlyTurn /\ UNCHANGED <<threadState, batchState, memoryState, poolState>>
OnlyCards  == OnlyPlugin /\ UNCHANGED larkState
OnlyLark   == OnlyPlugin /\ UNCHANGED cardState
OnlyServer == UNCHANGED <<part, turnState, pluginState>>
OnlySched  == OnlyServer /\ UNCHANGED <<replyState, fileState, dbState, fenceState>>
OnlyReply  == OnlyServer /\ UNCHANGED <<schedulerState, fileState, dbState, fenceState>>
OnlyFiles  == OnlyServer /\ UNCHANGED <<schedulerState, replyState, dbState, fenceState>>
OnlyDb     == OnlyServer /\ UNCHANGED <<schedulerState, replyState, fileState, fenceState>>
OnlyFence  == OnlyServer /\ UNCHANGED <<schedulerState, replyState, fileState, dbState>>

Next ==
  \/ part = "thread" /\ OnlyThread /\ Thread!Next
  \/ part = "capped" /\ OnlyThread /\ Capped!Next
  \/ part = "batch"  /\ OnlyBatch  /\ Batch!Next
  \/ part = "memory" /\ OnlyMemory /\ Mem!Next
  \/ part = "pool"   /\ OnlyPool   /\ Pool!Next
  \/ part = "text"   /\ OnlyText   /\ Text!Next
  \/ part = "cards"  /\ OnlyCards  /\ Cards!Next
  \/ part = "lark"   /\ OnlyLark   /\ Lark!Next
  \/ part = "scheduler" /\ OnlySched /\ Sched!Next
  \/ part = "reply"  /\ OnlyReply  /\ Said!Next
  \/ part = "files"  /\ OnlyFiles  /\ Shared!Next
  \/ part = "database" /\ OnlyDb   /\ Db!Next
  \/ part = "fence"  /\ OnlyFence  /\ Quoted!Next

Spec == Init /\ [][Next]_vars

-----------------------------------------------------------------------------
(* The properties of the modules, which state and comment them.  Every     *)
(* variable stays in its declared range.                                   *)
PartsTypeOK ==
  \/ part = "thread" /\ Thread!TypeOK
  \/ part = "capped" /\ Capped!TypeOK
  \/ part = "batch"  /\ Batch!TypeOK
  \/ part = "memory" /\ Mem!TypeOK
  \/ part = "pool"   /\ Pool!TypeOK
  \/ part = "text"   /\ Text!TypeOK
  \/ part = "cards"  /\ Cards!TypeOK
  \/ part = "lark"   /\ Lark!TypeOK
  \/ part = "scheduler" /\ Sched!TypeOK
  \/ part = "reply"  /\ Said!TypeOK
  \/ part = "files"  /\ Shared!TypeOK
  \/ part = "database" /\ Db!TypeOK
  \/ part = "fence"  /\ Quoted!TypeOK

(* engine.rs: each request pairs every tool call with one answer, also     *)
(* when the byte cap has cut the history; ...                              *)
RequestIsPaired == part \in {"thread", "capped"} => Thread!RequestIsPaired

(* ... with a summary, nothing is missing between the summary and the      *)
(* live rows, and the search for a filtered message ends at one that is    *)
(* filtered; ...                                                           *)
HistoryIsKept == part = "thread" => Thread!HistoryIsWhole /\ Thread!RedactedWasBad

(* ... and the tool calls of a response return what they would return one  *)
(* after the other (call_llm_and_prerun, run_tool_calls).                  *)
AsIfInOrder == part = "batch" => Batch!AsIfInOrder

(* store.rs: a tool overwrites no memory that no tool of this server has   *)
(* seen; edit.rs: an Edit changes no file that its thread was not shown.   *)
OnlyKnownIsOverwritten ==
  /\ Mem!OnlyKnownIsOverwritten
  /\ [](part = "files" => Shared!EditsAreInformed)

(* store.rs and approval.rs: an entry is in the index, a staged write on   *)
(* disk until somebody decided about it.                                   *)
MemoryIsKept == part = "memory" => Mem!IndexMissesOnlyRaced /\ Mem!StagedIsNotLost

(* pool.rs: a connection is evicted for a cause.                           *)
EvictedForCause == Pool!EvictedForCause

(* text_question.rs, question_gate.rs, dispatch.rs: no message and no      *)
(* waiter is forgotten.                                                    *)
NobodyIsForgotten == part = "text" => Text!MessagesAreHeard /\ Text!WaitersAreReachable

(* snaca-plugin-lark: a card is brought into its final form once, is never *)
(* marked cancelled when its answer was taken, and no submit on it is      *)
(* dropped while somebody waits for it.                                    *)
CardsTellTheTruth ==
  /\ Cards!CardSettlesOnce
  /\ [](part = "cards" => Cards!CancelledWasNotHeard /\ Cards!SubmitsAreHeard)

(* handle_lark_payload passes a message on once, and its recall after it.  *)
ForwardedOnceInOrder == part = "lark" => Lark!ForwardedOnce /\ Lark!RecallFollowsMessage

(* scheduler.rs fires a slot once, a task that was switched off at most    *)
(* once more, and moves a task to its next slot.                           *)
FiresAreDue ==
  /\ [](part = "scheduler" => Sched!OncePerSlot /\ Sched!OffFiresOnceMore)
  /\ Sched!SlotsAdvance

(* process_message and the outbox: in the end the user sees the reply,     *)
(* with the exceptions Reply names, not twice, and a file after it.        *)
ReplyIsShownOnce ==
  part = "reply" => Said!ReplyIsShown /\ Said!ShownOnce /\ Said!FileFollowsReply

(* memory_fence.rs: the stream and the transcript lose the same text.      *)
StreamIsOneShot == part = "fence" => Quoted!StreamIsOneShot

(* db.rs and gate_check: an upgrade leaves no message out of the search    *)
(* index and widens no approval, and the narrowest rule decides a call.    *)
StoredIsKept == part = "database" => Db!OpenIsUpgraded /\ Db!RulesAreKept

-----------------------------------------------------------------------------
(* What comments in the code say, and the code does not do.                *)

(* The comment in maybe_compact_thread: "so the model never loses the user *)
(* message it's currently responding to".                                  *)
LatestIsSeen == part = "thread" => Thread!LatestIsSeen

(* The doc of TextQuestionRegistry: the older waiter sees Cancelled when a *)
(* second ask replaces it.                                                 *)
OnlyReplacedIsCancelled == part = "text" => Text!OnlyReplacedIsCancelled

(* The comment in process_message: the final update is pushed "so the      *)
(* rendered message ends up on the canonical reply".                       *)
CanonicalIsShown == part = "reply" => Said!CanonicalIsShown
=============================================================================
