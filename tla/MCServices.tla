----------------------------- MODULE MCServices -----------------------------
(***************************************************************************)
(* Model-checking instance of services that run by themselves and share    *)
(* nothing: Scheduler, TaskRegistry, Outbox with an operator who retries   *)
(* rows, the session of the Lark plugin, LarkInbound, and a command in the *)
(* foreground, Shell.  A behaviour is one of one service, the others stay  *)
(* in their initial states, so one run explores the sum of the state       *)
(* spaces, not their product.                                              *)
(***************************************************************************)
EXTENDS Integers, Sequences, FiniteSets

CONSTANTS
  Services,        \* the services this run explores
  a, b, s1, s2, c1,
  Tasks, Intervals, BATCH, MAX_HOPS, MaxTime, MaxStops, MaxEdits,
  Task, Stopper, STREAM_CAP_BYTES, MaxChunk, MaxBytes,
  Chats, InputKinds, MAX_ATTEMPTS, OUTBOX_BATCH, MaxRow, MaxMessages, MaxCopies, MaxFaults,
  MaxForced, MaxMishaps,
  Message, None, Undated, EXPIRY, DEDUP_TTL, DEDUP_SWEEP_INTERVAL,
  DEDUP_MAX_ENTRIES, RECONNECT_BACKOFF_MIN, RECONNECT_BACKOFF_MAX, RECONNECT_GOOD_SESSION,
  WS_WATCHDOG_SILENCE, MaxQueue,
  Stream, MAX_OUTPUT_BYTES, PIPE_BYTES, MaxOutput

(* The size of a buffer and of what is read at once are numbers.           *)
ASSUME ServicesAssumption == {STREAM_CAP_BYTES, MaxChunk} \subseteq Nat

VARIABLES service,
  now, row, interval, nextFire, tick, tickNow, batch, current, fires, lateFires, resumed,
  stops, edits,
  child, held, lock, reaper, status, stop, target, stopped, written, data, truncated,
  rowStatus, attempts, nextAttempt, kind, chat, origin, inline, claimed, actor, mailbox, work,
  limbo, shown, refused, slot, faults, forced,
  alive, session, uptime, backoff, wait, silence, age, delivered, queue, pump, seen, order,
  sweep, evicted, forwarded, recalled,
  call, sh, heir, reader, pipe, out, printed, result

schedulerState == <<now, row, interval, nextFire, tick, tickNow, batch, current, fires,
                    lateFires, resumed, stops, edits>>
tasksState     == <<child, held, lock, reaper, status, stop, target, stopped, written, data,
                    truncated>>
outboxState    == <<rowStatus, attempts, nextAttempt, kind, chat, origin, inline, claimed, actor,
                    mailbox, work, limbo, shown, refused, slot, faults, forced>>
larkState      == <<alive, session, uptime, backoff, wait, silence, age, delivered, queue, pump,
                    seen, order, sweep, evicted, forwarded, recalled>>
shellState     == <<call, sh, heir, reader, pipe, out, printed, result>>
vars == <<service, schedulerState, tasksState, outboxState, larkState, shellState>>

Sched == INSTANCE Scheduler
Bg    == INSTANCE TaskRegistry
Out   == INSTANCE Outbox WITH status <- rowStatus, batch <- claimed, BATCH <- OUTBOX_BATCH
Lark  == INSTANCE LarkInbound
Fg    == INSTANCE Shell

(* What the types rest on: a task can be named, the task table is finite,  *)
(* sizes, counts and ages are numbers, the dedup of the Lark plugin has    *)
(* room for one message, and the shortest reconnect backoff is no longer   *)
(* than the longest.                                                       *)
ASSUME TypesAssumption ==
  /\ Services \subseteq {"scheduler", "tasks", "outbox", "lark", "shell"}
  /\ Tasks # {} /\ IsFiniteSet(Tasks) /\ Task # {} /\ Intervals \subseteq Nat
  /\ {BATCH, MaxTime, MaxBytes, PIPE_BYTES, MAX_OUTPUT_BYTES, MaxOutput} \subseteq Nat
  /\ {EXPIRY, DEDUP_TTL, RECONNECT_GOOD_SESSION, WS_WATCHDOG_SILENCE} \subseteq Nat
  /\ {RECONNECT_BACKOFF_MIN, RECONNECT_BACKOFF_MAX} \subseteq Nat
  /\ RECONNECT_BACKOFF_MIN <= RECONNECT_BACKOFF_MAX /\ DEDUP_MAX_ENTRIES \in Nat \ {0}
  /\ Out!OutboxAssumption

Init == service \in Services /\ Sched!Init /\ Bg!Init /\ Out!Init /\ Lark!Init /\ Fg!Init

OnlyScheduler == /\ service = "scheduler"
                 /\ UNCHANGED <<service, tasksState, outboxState, larkState, shellState>>
OnlyTasks     == /\ service = "tasks"
                 /\ UNCHANGED <<service, schedulerState, outboxState, larkState, shellState>>
OnlyOutbox    == /\ service = "outbox"
                 /\ UNCHANGED <<service, schedulerState, tasksState, larkState, shellState>>
OnlyLark      == /\ service = "lark"
                 /\ UNCHANGED <<service, schedulerState, tasksState, outboxState, shellState>>
OnlyShell     == /\ service = "shell"
                 /\ UNCHANGED <<service, schedulerState, tasksState, outboxState, larkState>>

Next ==
  \/ OnlyScheduler /\ Sched!Next
  \/ OnlyTasks /\ Bg!Next
  \/ OnlyOutbox /\ Out!Next
  \/ OnlyLark /\ Lark!Next
  \/ OnlyShell /\ Fg!Next

(* The fairness of the five specifications.  Only one of them moves in a   *)
(* behaviour, so a condition on an action of each is one condition on      *)
(* their disjunction.                                                      *)
Fairness ==
  /\ \A r \in 1 .. MaxRow :
       WF_vars((OnlyOutbox /\ Out!InlineStep(r)) \/ (OnlyLark /\ (Lark!Forward \/ Lark!Drop)))
  /\ \A r \in 1 .. MaxRow :
       WF_vars((OnlyOutbox /\ Out!TimePasses(r)) \/ (OnlyLark /\ Lark!Watchdog))
  /\ \A c \in Chats :
       WF_vars((OnlyOutbox /\ Out!ActorStep(c)) \/ (OnlyLark /\ Lark!TakeOther))
  /\ WF_vars((OnlyScheduler /\ Sched!SchedulerStep) \/ (OnlyOutbox /\ Out!Tick)
                \/ (OnlyLark /\ Lark!Tick))
  /\ WF_vars((OnlyOutbox /\ Out!Route) \/ (OnlyLark /\ Lark!Reconnect)
                \/ (OnlyShell /\ Fg!CallStep))
  /\ WF_vars((OnlyOutbox /\ Out!SlotFilled) \/ (OnlyLark /\ Lark!TakeMessage)
                \/ (OnlyShell /\ Fg!TimesOut))
  /\ \A t \in Task : WF_vars(OnlyTasks /\ Bg!ReaperStep(t))
  /\ \A s \in Stopper : WF_vars(OnlyTasks /\ Bg!StopKills(s))
  /\ \A s \in Stream : WF_vars(OnlyShell /\ Fg!ReaderStep(s))

Spec == Init /\ [][Next]_vars /\ Fairness

-----------------------------------------------------------------------------
(* The properties of the modules, which state and comment them.  Every     *)
(* variable stays in its declared range.                                   *)
ServicesTypeOK ==
  \/ service = "scheduler" /\ Sched!TypeOK
  \/ service = "tasks"     /\ Bg!TypeOK
  \/ service = "outbox"    /\ Out!TypeOK
  \/ service = "lark"      /\ Lark!TypeOK
  \/ service = "shell"     /\ Fg!TypeOK

(* The poll loop of scheduler.rs serves what is due.                       *)
DueIsServed == Sched!DueIsServed

(* task_registry.rs reports how a task ended and keeps the tail of its     *)
(* output, bash.rs returns the whole of it, ...                            *)
EndIsReported ==
  /\ service = "tasks" => Bg!EndIsReported /\ Bg!TailIsKept
  /\ service = "shell" => Fg!OutputIsWhole
(* ... both reap what died (the reaper, execute), ...                      *)
DeadIsReaped ==
  /\ Bg!DeadIsReaped
  /\ service = "shell" => Fg!CallEnds
(* ... and a task is said to terminate when it is asked to stop.           *)
StopTerminates == Bg!StopTerminates

(* The outbox settles every row, also one an operator brought back.        *)
PendingIsSettled == Out!PendingIsSettled

(* run_lark_ws keeps trying for a session.                                 *)
NeverDeaf == service = "lark" => Lark!NeverDeaf
=============================================================================
