------------------------------ MODULE Scheduler ------------------------------
(***************************************************************************)
(* Scheduled prompts: the poll loop of crates/snaca-server/src/scheduler.rs *)
(* and the admin routes that create, pause, resume and delete tasks while  *)
(* a tick is under way, over the statements of crates/snaca-state/src/     *)
(* db.rs.                                                                  *)
(*                                                                         *)
(* A tick reads the due rows once and works on that copy.  Only the tick   *)
(* itself writes next_fire_at and nothing writes interval_secs, so of the  *)
(* copy only the enabled flag, and the row's existence, can be stale.      *)
(***************************************************************************)
EXTENDS Naturals, FiniteSets

CONSTANTS
  Tasks,
  Intervals,   \* interval_secs values; 0 stands for NULL, a one-shot task
  BATCH,       \* batch_size
  MAX_HOPS,    \* hops of advance_next_fire before it gives up the phase
  MaxTime,     \* bound: clock
  MaxStops,    \* bound: crashes and failed reschedule statements
  MaxEdits     \* bound: pauses, resumes and deletions

VARIABLES
  now,
  row,                \* "absent", "enabled", "disabled", "deleted"
  interval, nextFire, \* interval_secs, next_fire_at
  tick,               \* "asleep", "firing", "advancing"
  tickNow, batch, current, \* the tick's now, its rows not handled yet, the row in hand
  fires,              \* fires of a task since its next_fire_at was set
  lateFires,          \* fires of a task since an operator switched it off
  resumed,            \* times an operator switched it on again
  stops, edits

tasks   == <<row, interval, nextFire>>
ticking == <<tick, tickNow, batch, current>>
counts  == <<fires, lateFires, resumed>>
schedVars == <<now, tasks, ticking, counts, stops, edits>>

AnyTask == CHOOSE t \in Tasks : TRUE

Init ==
  /\ now = 0
  /\ row = [t \in Tasks |-> "absent"]
  /\ interval = [t \in Tasks |-> 0] /\ nextFire = [t \in Tasks |-> 0]
  /\ tick = "asleep" /\ tickNow = 0 /\ batch = {} /\ current = AnyTask
  /\ fires = [t \in Tasks |-> 0] /\ lateFires = [t \in Tasks |-> 0]
  /\ resumed = [t \in Tasks |-> 0]
  /\ stops = 0 /\ edits = 0

IsDue(t, at) == row[t] = "enabled" /\ nextFire[t] <= at

-----------------------------------------------------------------------------
(* The operators.  A first fire may lie in the past.                       *)

Create(t, i, at) ==
  /\ row[t] = "absent"
  /\ row' = [row EXCEPT ![t] = "enabled"]
  /\ interval' = [interval EXCEPT ![t] = i]
  /\ nextFire' = [nextFire EXCEPT ![t] = at]
  /\ UNCHANGED <<now, ticking, counts, stops, edits>>

Pause(t) ==
  /\ row[t] = "enabled" /\ edits < MaxEdits
  /\ row' = [row EXCEPT ![t] = "disabled"]
  /\ lateFires' = [lateFires EXCEPT ![t] = 0]
  /\ edits' = edits + 1
  /\ UNCHANGED <<now, interval, nextFire, ticking, fires, resumed, stops>>

Resume(t) ==
  /\ row[t] = "disabled" /\ edits < MaxEdits
  /\ row' = [row EXCEPT ![t] = "enabled"]
  /\ resumed' = [resumed EXCEPT ![t] = @ + 1]
  /\ edits' = edits + 1
  /\ UNCHANGED <<now, interval, nextFire, ticking, fires, lateFires, stops>>

Delete(t) ==
  /\ row[t] \in {"enabled", "disabled"} /\ edits < MaxEdits
  /\ edits' = edits + 1
  /\ row' = [row EXCEPT ![t] = "deleted"]
  /\ lateFires' = IF row[t] = "enabled" THEN [lateFires EXCEPT ![t] = 0] ELSE lateFires
  /\ UNCHANGED <<now, interval, nextFire, ticking, fires, resumed, stops>>

-----------------------------------------------------------------------------
(* run_tick.                                                               *)

(* Mutant: paused rows are listed too.                                     *)
MutDue(at) == {t \in Tasks : row[t] \in {"enabled", "disabled"} /\ nextFire[t] <= at}

Due(at) == {t \in Tasks : IsDue(t, at)}

(* ORDER BY next_fire_at LIMIT batch_size: rows of one time in any order.  *)
Tick ==
  /\ tick = "asleep" /\ Due(now) # {}
  /\ \E B \in SUBSET Due(now) :
       /\ Cardinality(B) = IF Cardinality(Due(now)) < BATCH THEN Cardinality(Due(now)) ELSE BATCH
       /\ \A t \in B, u \in Due(now) \ B : nextFire[t] <= nextFire[u]
       /\ batch' = B
  /\ tick' = "firing" /\ tickNow' = now
  /\ UNCHANGED <<now, tasks, current, counts, stops, edits>>

(* Whether the handler succeeds makes no difference to the task.           *)
Fire ==
  /\ tick = "firing"
  /\ \E t \in batch :
       /\ \A u \in batch : nextFire[t] <= nextFire[u]
       /\ current' = t /\ batch' = batch \ {t}
       /\ fires' = [fires EXCEPT ![t] = @ + 1]
       /\ lateFires' = IF row[t] = "enabled" THEN lateFires ELSE [lateFires EXCEPT ![t] = @ + 1]
  /\ tick' = "advancing"
  /\ UNCHANGED <<now, tasks, tickNow, resumed, stops, edits>>

(* Mutant: the walk stops at a slot that is now.                           *)
MutAdvance(first, i, at) ==
  LET hops == IF first = at THEN 0 ELSE (at - first + i - 1) \div i IN
  IF hops <= MAX_HOPS THEN first + hops * i ELSE at + i

(* advance_next_fire: hop from the due slot to the first one after now; if *)
(* that takes too many hops, start a new phase at now.                     *)
Advance(first, i, at) ==
  LET hops == (at - first) \div i + 1 IN
  IF hops <= MAX_HOPS THEN first + hops * i ELSE at + i

(* reschedule_task: a recurring row gets its next slot, a one-shot row is  *)
(* disabled, a deleted one is not there to be updated.                     *)
Update(t) ==
  \/ /\ row[t] = "deleted"
     /\ UNCHANGED <<row, nextFire, fires>>
  \/ /\ row[t] # "deleted" /\ interval[t] = 0
     /\ row' = [row EXCEPT ![t] = "disabled"]
     /\ UNCHANGED <<nextFire, fires>>
  \/ /\ row[t] # "deleted" /\ interval[t] > 0
     /\ nextFire' = [nextFire EXCEPT ![t] = Advance(@, interval[t], tickNow)]
     /\ fires' = [fires EXCEPT ![t] = 0]
     /\ UNCHANGED row

Sleep == tick' = "asleep" /\ tickNow' = 0 /\ current' = AnyTask

(* A failed statement is logged, and the tick goes on.                     *)
Reschedule ==
  /\ tick = "advancing"
  /\ IF batch = {} THEN Sleep ELSE tick' = "firing" /\ UNCHANGED <<tickNow, current>>
  /\ \/ Update(current) /\ UNCHANGED stops
     \/ stops < MaxStops /\ stops' = stops + 1 /\ UNCHANGED <<row, nextFire, fires>>
  /\ UNCHANGED <<now, interval, batch, lateFires, resumed, edits>>

SchedulerStep == Tick \/ Fire \/ Reschedule

-----------------------------------------------------------------------------
(* The environment.                                                        *)

TimePasses == now < MaxTime /\ now' = now + 1 /\ UNCHANGED <<tasks, ticking, counts, stops, edits>>

(* Shutdown waits for a tick at most five seconds; a crash does not.       *)
Crash ==
  /\ tick # "asleep" /\ stops < MaxStops
  /\ stops' = stops + 1
  /\ Sleep /\ batch' = {}
  /\ UNCHANGED <<now, tasks, counts, edits>>

Next ==
  \/ \E t \in Tasks : Pause(t) \/ Resume(t) \/ Delete(t)
  \/ \E t \in Tasks, i \in Intervals, at \in 0 .. MaxTime : Create(t, i, at)
  \/ SchedulerStep \/ TimePasses \/ Crash

Spec == Init /\ [][Next]_schedVars

(* The poll loop keeps ticking.                                            *)
FairSpec == Spec /\ WF_schedVars(SchedulerStep)

-----------------------------------------------------------------------------
(* Properties.                                                             *)

(* Every variable stays in its declared range; a tick in progress has rows *)
(* that exist or existed.                                                  *)
TypeOK ==
  /\ now \in 0 .. MaxTime /\ tickNow \in 0 .. now
  /\ row \in [Tasks -> {"absent", "enabled", "disabled", "deleted"}]
  /\ interval \in [Tasks -> Nat] /\ nextFire \in [Tasks -> Nat]
  /\ tick \in {"asleep", "firing", "advancing"}
  /\ batch \subseteq Tasks /\ Cardinality(batch) <= BATCH /\ current \in Tasks
  /\ \A t \in batch : row[t] # "absent" /\ nextFire[t] <= tickNow
  /\ {stops, edits} \subseteq Nat
  /\ fires \in [Tasks -> Nat] /\ lateFires \in [Tasks -> Nat] /\ resumed \in [Tasks -> Nat]

(* A slot of a task fires once; again only after a crash or a failed       *)
(* statement between fire and reschedule, or when an operator resumed it.  *)
OncePerSlot == \A t \in Tasks : fires[t] <= 1 + stops + resumed[t]

(* The tick works on a copy, so a task fires at most once more after an    *)
(* operator paused or deleted it.                                          *)
OffFiresOnceMore == \A t \in Tasks : lateFires[t] <= 1

(* A recurring task moves to its first slot after the tick's now: no       *)
(* backlog is replayed and no future slot is skipped, and its phase is     *)
(* kept unless it is MAX_HOPS slots behind.                                *)
SlotsAdvance ==
  [][\A t \in Tasks : row[t] # "absent" /\ nextFire'[t] # nextFire[t] =>
       /\ nextFire[t] <= tickNow /\ tickNow < nextFire'[t]
       /\ nextFire'[t] <= tickNow + interval[t]
       /\ \/ (nextFire'[t] - nextFire[t]) % interval[t] = 0
          \/ tickNow - nextFire[t] >= MAX_HOPS * interval[t]]_schedVars

(* A task that is due is fired and moved on, or switched off: neither a    *)
(* failing statement nor a full batch pins it.                             *)
DueIsServed == \A t \in Tasks : IsDue(t, now) ~> ~IsDue(t, now)
=============================================================================
