----------------------------- MODULE LarkInbound -----------------------------
(***************************************************************************)
(* The inbound half of snaca-plugin-lark/src/main.rs: the WebSocket        *)
(* session and its reconnect loop, the watchdog, the single pump that      *)
(* handles one payload after the other, the expiry and dedup of messages,  *)
(* and what is passed on to the host, in one life of the process.          *)
(*                                                                         *)
(* Times are ages that stop at the bound they are compared with, so that   *)
(* the model needs no last moment.  Card clicks are PluginRpc's and only   *)
(* keep the pump busy; reactions are left out.                             *)
(***************************************************************************)
EXTENDS Naturals, Sequences, FiniteSets

CONSTANTS
  Message, None,
  Undated,           \* those whose create_time cannot be read
  EXPIRY, DEDUP_TTL, DEDUP_SWEEP_INTERVAL, DEDUP_MAX_ENTRIES,
  RECONNECT_BACKOFF_MIN, RECONNECT_BACKOFF_MAX, RECONNECT_GOOD_SESSION,
  WS_WATCHDOG_SILENCE,
  MaxQueue           \* bound: payloads that wait for the pump

VARIABLES
  alive,             \* the plugin process
  session,           \* opening, open, or backoff
  uptime, backoff, wait, silence,
  age,               \* of each message since Lark created it, or None
  delivered,         \* messages Lark delivered at least once
  queue,             \* the payload channel
  pump,              \* the message being resolved, or None
  seen, order, sweep,       \* MessageDedup
  evicted,           \* messages the cap pushed out of the dedup
  forwarded,         \* how often the process passed each message on
  recalled           \* the messages whose recall it passed on

ws     == <<session, uptime, backoff, wait, silence>>
dedup  == <<seen, order, sweep, evicted>>
output == <<forwarded, recalled>>
vars == <<alive, ws, age, delivered, queue, pump, dedup, output>>

Low(a, b) == IF a < b THEN a ELSE b
Older(a, bound) == Low(a + 1, bound + 1)

Init ==
  /\ alive = TRUE /\ session = "opening" /\ uptime = 0 /\ wait = 0 /\ silence = 0
  /\ backoff = RECONNECT_BACKOFF_MIN
  /\ age = [m \in Message |-> None] /\ delivered = {} /\ queue = <<>> /\ pump = None
  /\ seen = [m \in {} |-> 0] /\ order = <<>> /\ sweep = DEDUP_SWEEP_INTERVAL + 1
  /\ evicted = {} /\ forwarded = [m \in Message |-> 0] /\ recalled = {}

-----------------------------------------------------------------------------
(* Time, and Lark.                                                         *)

Tick ==
  /\ uptime' = IF session = "backoff" THEN 0 ELSE Low(uptime + 1, RECONNECT_GOOD_SESSION)
  /\ wait' = IF wait = 0 THEN 0 ELSE wait - 1
  /\ silence' = Older(silence, WS_WATCHDOG_SILENCE)
  /\ age' = [m \in Message |-> IF age[m] = None THEN None ELSE Older(age[m], EXPIRY)]
  /\ seen' = [m \in DOMAIN seen |-> Older(seen[m], DEDUP_TTL)]
  /\ sweep' = Older(sweep, DEDUP_SWEEP_INTERVAL)
  /\ UNCHANGED <<alive, session, backoff, delivered, queue, pump, order, evicted, output>>

(* Lark delivers a message at least once, again after a reconnect, and its *)
(* recall after it.                                                        *)
Push(event) ==
  /\ alive /\ session = "open" /\ Len(queue) < MaxQueue
  /\ queue' = Append(queue, event)
  /\ UNCHANGED <<alive, ws, pump, dedup, output>>

DeliverMessage(m) ==
  /\ Push([type |-> "message", msg |-> m])
  /\ age' = IF age[m] = None THEN [age EXCEPT ![m] = 0] ELSE age
  /\ delivered' = delivered \cup {m}

DeliverRecall(m) ==
  /\ m \in delivered
  /\ Push([type |-> "recall", msg |-> m])
  /\ UNCHANGED <<age, delivered>>

DeliverOther ==
  /\ Push([type |-> "other", msg |-> None])
  /\ UNCHANGED <<age, delivered>>

-----------------------------------------------------------------------------
(* run_lark_ws: LarkWsClient::open is one session; it may also never       *)
(* return.                                                                 *)

OpenSession ==
  /\ alive /\ session = "opening"
  /\ session' = "open"
  /\ UNCHANGED <<alive, uptime, backoff, wait, silence, age, delivered, queue, pump, dedup,
                 output>>

EndSession ==
  /\ alive /\ session \in {"opening", "open"}
  /\ session' = "backoff"
  /\ silence' = 0 /\ uptime' = 0
  /\ backoff' = IF uptime >= RECONNECT_GOOD_SESSION THEN RECONNECT_BACKOFF_MIN ELSE backoff
  /\ wait' = backoff'
  /\ UNCHANGED <<alive, age, delivered, queue, pump, dedup, output>>

Reconnect ==
  /\ alive /\ session = "backoff" /\ wait = 0
  /\ session' = "opening"
  /\ backoff' = Low(2 * backoff, RECONNECT_BACKOFF_MAX)
  /\ UNCHANGED <<alive, uptime, wait, silence, age, delivered, queue, pump, dedup, output>>

(* Mutant: the watchdog watches only a session that is open.               *)
MutWatchdog ==
  /\ alive /\ silence > WS_WATCHDOG_SILENCE /\ session = "open"
  /\ alive' = FALSE
  /\ UNCHANGED <<ws, age, delivered, queue, pump, dedup, output>>

(* The watchdog exits the process; the registry starts another one.        *)
Watchdog ==
  /\ alive /\ silence > WS_WATCHDOG_SILENCE
  /\ alive' = FALSE
  /\ UNCHANGED <<ws, age, delivered, queue, pump, dedup, output>>

-----------------------------------------------------------------------------
(* MessageDedup.                                                           *)

Stale(m) == seen[m] > DEDUP_TTL

(* sweep_expired stops at the first entry that is not stale.               *)
Swept ==
  LET keep == {i \in 1..Len(order) : ~Stale(order[i])}
      from == IF keep = {} THEN Len(order) + 1 ELSE CHOOSE i \in keep : \A j \in keep : i <= j
  IN IF sweep > DEDUP_SWEEP_INTERVAL THEN SubSeq(order, from, Len(order)) ELSE order

Duplicate(m) == \E i \in 1..Len(Swept) : Swept[i] = m

(* check_and_record.                                                       *)
Remember(m) ==
  LET full == Len(Swept) >= DEDUP_MAX_ENTRIES
      kept == IF full THEN Tail(Swept) ELSE Swept
      next == IF Duplicate(m) THEN Swept ELSE Append(kept, m)
  IN /\ order' = next
     /\ seen' = [x \in {next[i] : i \in 1..Len(next)} |->
                   IF x = m /\ ~Duplicate(m) THEN 0 ELSE seen[x]]
     /\ evicted' = IF full /\ ~Duplicate(m) THEN evicted \cup {Head(Swept)} ELSE evicted
     /\ sweep' = IF sweep > DEDUP_SWEEP_INTERVAL THEN 0 ELSE sweep

-----------------------------------------------------------------------------
(* handle_lark_payload.                                                    *)

Expired(m) == m \notin Undated /\ age[m] > EXPIRY

(* Mutant: the next payload is taken while a message is being resolved.    *)
MutMayTake == pump = None \/ (queue # <<>> /\ Head(queue).type # "message")

MayTake == pump = None

TakeMessage ==
  /\ alive /\ MayTake /\ queue # <<>> /\ Head(queue).type = "message"
  /\ queue' = Tail(queue) /\ silence' = 0
  /\ LET m == Head(queue).msg IN
     IF Expired(m) THEN UNCHANGED <<pump, dedup>>
     ELSE Remember(m) /\ pump' = IF Duplicate(m) THEN None ELSE m
  /\ UNCHANGED <<alive, session, uptime, backoff, wait, age, delivered, output>>

(* The quoted message was fetched, or could not be.                        *)
Forward ==
  /\ alive /\ pump # None
  /\ forwarded' = [forwarded EXCEPT ![pump] = Low(@ + 1, 2)]
  /\ pump' = None
  /\ UNCHANGED <<alive, ws, age, delivered, queue, dedup, recalled>>

(* A body that is empty, unsupported or without a chat is dropped, after   *)
(* the dedup has recorded it.                                              *)
Drop ==
  /\ alive /\ pump # None /\ pump' = None
  /\ UNCHANGED <<alive, ws, age, delivered, queue, dedup, output>>

(* handle_recall_event, handle_card_action.                                *)
TakeOther ==
  /\ alive /\ MayTake /\ queue # <<>> /\ Head(queue).type # "message"
  /\ queue' = Tail(queue) /\ silence' = 0
  /\ recalled' = IF Head(queue).type = "recall" THEN recalled \cup {Head(queue).msg}
                 ELSE recalled
  /\ UNCHANGED <<alive, session, uptime, backoff, wait, age, delivered, pump, dedup, forwarded>>

Next ==
  \/ Tick \/ OpenSession \/ EndSession \/ Reconnect \/ Watchdog
  \/ TakeMessage \/ Forward \/ Drop \/ TakeOther
  \/ DeliverOther \/ \E m \in Message : DeliverMessage(m) \/ DeliverRecall(m)

(* The process's own tasks run; Lark owes nothing.                         *)
Fairness ==
  /\ WF_vars(Tick) /\ WF_vars(Reconnect) /\ WF_vars(Watchdog)
  /\ WF_vars(TakeMessage) /\ WF_vars(TakeOther) /\ WF_vars(Forward \/ Drop)

Spec == Init /\ [][Next]_vars /\ Fairness

-----------------------------------------------------------------------------
(* Every variable stays in its declared range; the two halves of the dedup *)
(* hold the same messages, none twice, never more than the cap.            *)
TypeOK ==
  /\ alive \in BOOLEAN /\ session \in {"opening", "open", "backoff"}
  /\ backoff \in RECONNECT_BACKOFF_MIN..RECONNECT_BACKOFF_MAX
  /\ wait \in 0..RECONNECT_BACKOFF_MAX /\ uptime \in 0..RECONNECT_GOOD_SESSION
  /\ silence \in 0..(WS_WATCHDOG_SILENCE + 1)
  /\ age \in [Message -> {None} \cup 0..(EXPIRY + 1)]
  /\ delivered \cup evicted \cup recalled \subseteq Message /\ pump \in Message \cup {None}
  /\ forwarded \in [Message -> 0..2]
  /\ DOMAIN seen = {order[i] : i \in 1..Len(order)}
  /\ Len(order) = Cardinality(DOMAIN seen) /\ Len(order) <= DEDUP_MAX_ENTRIES

(* Lark replays messages after a reconnect: expiry and dedup together let  *)
(* one process pass a message on at most once, also when the dedup has     *)
(* forgotten it, for by then it has expired.  Exempt are messages without  *)
(* a readable date and those the cap pushed out while they were fresh.     *)
ForwardedOnce ==
  \A m \in Message : forwarded[m] > 1 => m \in Undated \cup evicted

(* A recall never reaches the host before the message that it recalls,     *)
(* although resolving the message's quote takes a round trip: the host     *)
(* would have nothing to retract, and would then run the message.  (Of a   *)
(* replay that the dedup no longer knows, it may.)                         *)
RecallFollowsMessage ==
  \A m \in recalled : forwarded[m] = 0 => pump # m \/ m \in Undated \cup evicted

(* The reconnect loop and the watchdog: a process that stays without a     *)
(* session keeps trying for one; it does not go deaf, not even when an     *)
(* attempt to open a session hangs.                                        *)
NeverDeaf == <>[](alive /\ session # "open") => []<><<Reconnect>>_vars
=============================================================================
