----------------------------- MODULE Dispatcher -----------------------------
(***************************************************************************)
(* The dispatcher task of one plugin and its per-chat workers              *)
(* (crates/snaca-server/src/dispatch.rs): receive, acknowledge, record for *)
(* dedup, assemble bursts, route to the chat's worker, run turns, recall.  *)
(*                                                                         *)
(* The dispatcher handles one event at a time; workers and timers run in   *)
(* parallel with it, so an event takes a step per await or channel it      *)
(* touches (acknowledge RPC, dedup statement, routing).  A worker takes    *)
(* one bundle at a time.  Message content is reduced to its kind; the      *)
(* text-question intercept is left out; notices and replies go through     *)
(* module Outbox.                                                          *)
(***************************************************************************)
EXTENDS Naturals, Sequences, FiniteSets

CONSTANTS
  Msgs,            \* message ids of the platform
  Keys,            \* assembly keys: a user in a chat (and a reply target)
  Chats,
  KeyOf, ChatOf,   \* the key of a message, the chat of a key
  KindOf,          \* "text", "file", "command" or "cancel"
  CAP,             \* mailbox capacity of a chat worker
  MaxWorkers,      \* bound: workers ever spawned
  MaxDeliveries,   \* bound: inbound events
  MaxLapses,       \* bound: failed dedup probes
  MaxDeaths        \* bound: dispatcher restarts and worker panics

MsgKind == {"text", "file", "command", "cancel"}

ASSUME DispatcherAssumption ==
  /\ IsFiniteSet(Msgs) /\ Msgs # {}
  /\ KeyOf  \in [Msgs -> Keys]
  /\ ChatOf \in [Keys -> Chats]
  /\ KindOf \in [Msgs -> MsgKind]
  /\ CAP \in Nat \ {0}
  /\ {MaxWorkers, MaxDeliveries, MaxLapses, MaxDeaths} \subseteq Nat

Event  == [type : {"message", "recall"}, msg : Msgs]
Timer  == [key : Keys, gen : Nat, first : Nat]
Bundle == [ids : SUBSET Msgs, base : Msgs]     \* one combined turn
Worker == 1 .. MaxWorkers                      \* 0: no worker

(* "leaving": the idle worker has sent its exit notice, its receiver still *)
(* exists.  "gone": the receiver is dropped.                               *)
Life == {"unborn", "idle", "starting", "running", "aborting", "replying", "leaving", "gone"}

VARIABLES
  inbox,               \* inbound events the dispatcher has not received
  held,                \* the event being handled, and how far it is
  recorded,            \* inbound_dedup, which survives a restart
  buffer,              \* pending bursts: fragments, base id, generation, first arrival
  timers,              \* sleeping flush timers
  fired,               \* the timeout channel
  entry,               \* WorkerMap: the worker of a chat
  life, home, box, turn, \* workers: their state, chat, mailbox and bundle in hand
  exits,               \* the exit-notice channel
  fate,                \* what became of a recorded message
  arrival,             \* the order in which messages were recorded
  runs,                \* turns started with a message
  delivered, lapses, deaths

assembly == <<buffer, timers, fired>>
pool     == <<entry, life, home, box, turn>>
history  == <<fate, arrival, runs>>
bounds   == <<delivered, lapses, deaths>>
vars == <<inbox, held, recorded, assembly, pool, exits, history, bounds>>

Fate == {"open", "done", "recalled", "cancelled", "throttled", "lost"}

AnyMsg == CHOOSE m \in Msgs : TRUE
Idle   == [step |-> "none", msg |-> AnyMsg, ids |-> {}]
NoWork == [ids |-> {}, base |-> AnyMsg]
Empty  == [ids |-> {}, base |-> AnyMsg, gen |-> 0, first |-> 0]

Busy(w)  == life[w] \in {"starting", "running", "aborting", "replying"}
Alive(w) == life[w] = "idle" \/ Busy(w)
InBox(w) == UNION {box[w][i].ids : i \in DOMAIN box[w]}
Held(w)  == turn[w].ids \cup InBox(w)

Init ==
  /\ inbox = <<>> /\ held = Idle /\ recorded = {}
  /\ buffer = [k \in Keys |-> Empty] /\ timers = {} /\ fired = <<>>
  /\ entry = [c \in Chats |-> 0]
  /\ life  = [w \in Worker |-> "unborn"]
  /\ home  = [w \in Worker |-> CHOOSE c \in Chats : TRUE]
  /\ box   = [w \in Worker |-> <<>>]
  /\ turn  = [w \in Worker |-> NoWork]
  /\ exits = <<>>
  /\ fate  = [m \in Msgs |-> "open"]
  /\ arrival = [m \in Msgs |-> 0]
  /\ runs  = [m \in Msgs |-> 0]
  /\ delivered = 0 /\ lapses = 0 /\ deaths = 0

Settle(S, f) == fate' = [m \in Msgs |-> IF m \in S /\ fate[m] = "open" THEN f ELSE fate[m]]

-----------------------------------------------------------------------------
(* The plugin: it delivers, redelivers (a reconnect replays the backlog)   *)
(* and recalls messages.  Only what was delivered can be recalled.         *)

Deliver(m) ==
  /\ delivered < MaxDeliveries
  /\ delivered' = delivered + 1
  /\ inbox' = Append(inbox, [type |-> "message", msg |-> m])
  /\ UNCHANGED <<held, recorded, assembly, pool, exits, history, lapses, deaths>>

Recall(m) ==
  /\ delivered < MaxDeliveries /\ arrival[m] # 0
  /\ delivered' = delivered + 1
  /\ inbox' = Append(inbox, [type |-> "recall", msg |-> m])
  /\ UNCHANGED <<held, recorded, assembly, pool, exits, history, lapses, deaths>>

-----------------------------------------------------------------------------
(* Routing.  A first bundle, or one that finds the channel closed, gets a  *)
(* fresh worker; a full mailbox drops the bundle (with a throttle notice). *)

Unborn == {w \in Worker : life[w] = "unborn"}
Fresh  == CHOOSE w \in Unborn : \A v \in Unborn : w <= v

Open(c) == entry[c] # 0 /\ life[entry[c]] # "gone"

(* Mutant: the map entry is written but the worker never starts.           *)
MutRouteToChatWorker(c, b) ==
  /\ Unborn # {}
  /\ entry' = [entry EXCEPT ![c] = Fresh]
  /\ UNCHANGED <<life, home, box, turn, fate>>

RouteToChatWorker(c, b) ==
  LET w == entry[c] IN
  \/ /\ Open(c) /\ Len(box[w]) < CAP
     /\ box' = [box EXCEPT ![w] = Append(@, b)]
     /\ UNCHANGED <<entry, life, home, turn, fate>>
  \/ /\ Open(c) /\ Len(box[w]) >= CAP
     /\ Settle(b.ids, "throttled")
     /\ UNCHANGED pool
  \/ /\ ~Open(c)
     /\ Unborn # {}
     /\ entry' = [entry EXCEPT ![c] = Fresh]
     /\ life'  = [life  EXCEPT ![Fresh] = "idle"]
     /\ home'  = [home  EXCEPT ![Fresh] = c]
     /\ box'   = [box   EXCEPT ![Fresh] = <<b>>]
     /\ UNCHANGED <<turn, fate>>

-----------------------------------------------------------------------------
(* The dispatcher's select is biased: exit notices, then timeouts, then    *)
(* inbound events.                                                         *)

Selecting == held.step = "none"

(* Mutant: the reaper only forgets the worker.                             *)
MutReapExit ==
  /\ Selecting /\ exits # <<>>
  /\ exits' = Tail(exits)
  /\ entry' = [entry EXCEPT ![Head(exits)] = 0]
  /\ UNCHANGED <<inbox, held, recorded, assembly, life, home, box, turn, history, bounds>>

(* The entry of the chat is removed and aborted, whichever worker it holds.*)
ReapExit ==
  /\ Selecting /\ exits # <<>>
  /\ exits' = Tail(exits)
  /\ LET c == Head(exits) w == entry[c] IN
       /\ entry' = [entry EXCEPT ![c] = 0]
       /\ IF w = 0 THEN UNCHANGED <<life, box, turn, fate>>
          ELSE /\ life' = [life EXCEPT ![w] = "gone"]
               /\ box'  = [box  EXCEPT ![w] = <<>>]
               /\ turn' = [turn EXCEPT ![w] = NoWork]
               /\ Settle(Held(w), "lost")
  /\ UNCHANGED <<inbox, held, recorded, assembly, home, arrival, runs, bounds>>

(* Mutant: the entry is removed before its generation is compared.         *)
MutOnTimeout ==
  /\ Selecting /\ exits = <<>> /\ fired # <<>>
  /\ fired' = Tail(fired)
  /\ LET k == Head(fired).key p == buffer[k] IN
       /\ buffer' = [buffer EXCEPT ![k] = Empty]
       /\ held' = IF p.gen # 0 /\ p.gen = Head(fired).gen
                  THEN [step |-> "route", msg |-> p.base, ids |-> p.ids] ELSE held
  /\ UNCHANGED <<inbox, recorded, timers, pool, exits, history, bounds>>

OnTimeout ==
  /\ Selecting /\ exits = <<>> /\ fired # <<>>
  /\ fired' = Tail(fired)
  /\ LET k == Head(fired).key p == buffer[k] IN
       IF p.gen # 0 /\ p.gen = Head(fired).gen
       THEN /\ buffer' = [buffer EXCEPT ![k] = Empty]
            /\ held'   = [step |-> "route", msg |-> p.base, ids |-> p.ids]
       ELSE UNCHANGED <<buffer, held>>
  /\ UNCHANGED <<inbox, recorded, timers, pool, exits, history, bounds>>

Flush ==
  /\ held.step = "route"
  /\ held' = Idle
  /\ RouteToChatWorker(ChatOf[KeyOf[held.msg]], [ids |-> held.ids, base |-> held.msg])
  /\ UNCHANGED <<inbox, recorded, assembly, exits, arrival, runs, bounds>>

Receive ==
  /\ Selecting /\ exits = <<>> /\ fired = <<>> /\ inbox # <<>>
  /\ Head(inbox).type = "message"
  /\ inbox' = Tail(inbox)
  /\ held'  = [step |-> "acknowledge", msg |-> Head(inbox).msg, ids |-> {Head(inbox).msg}]
  /\ UNCHANGED <<recorded, assembly, pool, exits, history, bounds>>

Arrives(m) ==
  arrival' = IF arrival[m] # 0 THEN arrival
             ELSE [arrival EXCEPT ![m] = Cardinality({n \in Msgs : arrival[n] # 0}) + 1]

(* Mutant: the id is looked up but not recorded.                           *)
MutPrelude ==
  /\ held.step = "acknowledge" /\ held.msg \notin recorded
  /\ Arrives(held.msg)
  /\ held' = [held EXCEPT !.step = "assemble"]
  /\ UNCHANGED <<inbox, recorded, assembly, pool, exits, fate, runs, bounds>>

(* prelude: the acknowledgement comes back (or fails, which is only        *)
(* logged), then one statement checks and records the message id; when it  *)
(* fails the message goes on.                                              *)
Prelude ==
  /\ held.step = "acknowledge"
  /\ LET m == held.msg IN
     \/ /\ m \in recorded
        /\ held' = Idle
        /\ UNCHANGED <<recorded, arrival, lapses>>
     \/ /\ m \notin recorded
        /\ recorded' = recorded \cup {m}
        /\ Arrives(m)
        /\ held' = [held EXCEPT !.step = "assemble"]
        /\ UNCHANGED lapses
     \/ /\ lapses < MaxLapses
        /\ lapses' = lapses + 1
        /\ Arrives(m)
        /\ held' = [held EXCEPT !.step = "assemble"]
        /\ UNCHANGED recorded
  /\ UNCHANGED <<inbox, assembly, pool, exits, fate, runs, delivered, deaths>>

First(m) == IF buffer[KeyOf[m]].gen = 0 THEN arrival[m] ELSE buffer[KeyOf[m]].first

(* Mutant: only the first fragment of a burst schedules a flush.           *)
MutMerge(m) ==
  LET k == KeyOf[m] p == buffer[k] IN
  /\ buffer' = [buffer EXCEPT ![k] =
       [ids |-> p.ids \cup {m}, base |-> m, gen |-> p.gen + 1, first |-> First(m)]]
  /\ timers' = IF p.gen = 0 THEN timers \cup {[key |-> k, gen |-> 1, first |-> First(m)]}
               ELSE timers
  /\ UNCHANGED <<fired, pool, fate>>

(* InputAssembler::ingest for text and files: merge, next generation, new  *)
(* timer.  The base id is the latest text, else the first fragment.        *)
Merge(m) ==
  LET k == KeyOf[m] p == buffer[k] IN
  /\ buffer' = [buffer EXCEPT ![k] =
       [ids   |-> p.ids \cup {m},
        base  |-> IF p.gen = 0 \/ KindOf[m] = "text" THEN m ELSE p.base,
        gen   |-> p.gen + 1,
        first |-> First(m)]]
  /\ timers' = timers \cup {[key |-> k, gen |-> p.gen + 1, first |-> First(m)]}
  /\ UNCHANGED <<fired, pool, fate>>

CancelBuffer(m) ==
  LET k == KeyOf[m] IN
  /\ buffer' = [buffer EXCEPT ![k] = Empty]
  /\ fate' = [n \in Msgs |-> IF n = m THEN "done"
                             ELSE IF n \in buffer[k].ids THEN "cancelled" ELSE fate[n]]
  /\ UNCHANGED <<timers, fired, pool>>

RouteAtOnce(m) ==
  /\ RouteToChatWorker(ChatOf[KeyOf[m]], [ids |-> {m}, base |-> m])
  /\ UNCHANGED assembly

(* Mutant: a file is routed at once, without waiting for its instruction.  *)
MutIngest ==
  /\ held.step = "assemble"
  /\ held' = Idle
  /\ IF KindOf[held.msg] = "text" THEN Merge(held.msg) ELSE RouteAtOnce(held.msg)
  /\ UNCHANGED <<inbox, recorded, exits, arrival, runs, bounds>>

Ingest ==
  /\ held.step = "assemble"
  /\ held' = Idle
  /\ LET m == held.msg IN
     \/ KindOf[m] \in {"text", "file"} /\ Merge(m)
     \/ KindOf[m] = "command" /\ RouteAtOnce(m)
     \/ KindOf[m] = "cancel" /\ buffer[KeyOf[m]].gen # 0 /\ CancelBuffer(m)
     \/ KindOf[m] = "cancel" /\ buffer[KeyOf[m]].gen = 0 /\ RouteAtOnce(m)
  /\ UNCHANGED <<inbox, recorded, exits, arrival, runs, bounds>>

(* A recall removes the pending burst the message is part of, all of it;   *)
(* otherwise it cancels the running turn that carries the message's id.    *)
HandleRecall ==
  /\ Selecting /\ exits = <<>> /\ fired = <<>> /\ inbox # <<>>
  /\ Head(inbox).type = "recall"
  /\ inbox' = Tail(inbox)
  /\ LET m == Head(inbox).msg k == KeyOf[m] IN
     \/ /\ m \in buffer[k].ids
        /\ buffer' = [buffer EXCEPT ![k] = Empty]
        /\ Settle(buffer[k].ids, "recalled")
        /\ UNCHANGED life
     \/ /\ m \notin buffer[k].ids
        /\ life' = [w \in Worker |->
             IF life[w] = "running" /\ turn[w].base = m THEN "aborting" ELSE life[w]]
        /\ UNCHANGED <<buffer, fate>>
  /\ UNCHANGED <<held, recorded, timers, fired, entry, home, box, turn, exits, arrival, runs, bounds>>

TimerFires(t) ==
  /\ t \in timers
  /\ timers' = timers \ {t}
  /\ fired'  = Append(fired, t)
  /\ UNCHANGED <<inbox, held, recorded, buffer, pool, exits, history, bounds>>

-----------------------------------------------------------------------------
(* A worker.                                                               *)

WorkerTakes(w) ==
  /\ life[w] = "idle" /\ box[w] # <<>>
  /\ life' = [life EXCEPT ![w] = "starting"]
  /\ turn' = [turn EXCEPT ![w] = Head(box[w])]
  /\ box'  = [box  EXCEPT ![w] = Tail(@)]
  /\ runs' = [m \in Msgs |-> IF m \in Head(box[w]).ids THEN runs[m] + 1 ELSE runs[m]]
  /\ UNCHANGED <<inbox, held, recorded, assembly, entry, home, exits, fate, arrival, bounds>>

(* Slash commands are answered without the engine; any other turn is in    *)
(* the engine's inflight map while it runs.                                *)
TurnStarts(w) ==
  /\ life[w] = "starting"
  /\ life' = [life EXCEPT ![w] = IF KindOf[turn[w].base] = "command" THEN "replying"
                                                                     ELSE "running"]
  /\ UNCHANGED <<inbox, held, recorded, assembly, entry, home, box, turn, exits, history, bounds>>

(* An aborted turn either notices its token or had just ended.             *)
TurnEnds(w) ==
  /\ life[w] \in {"running", "aborting"}
  /\ life' = [life EXCEPT ![w] = "replying"]
  /\ \/ Settle(turn[w].ids, "done")
     \/ life[w] = "aborting" /\ Settle(turn[w].ids, "recalled")
  /\ UNCHANGED <<inbox, held, recorded, assembly, entry, home, box, turn, exits, arrival, runs, bounds>>

Replied(w) ==
  /\ life[w] = "replying"
  /\ life' = [life EXCEPT ![w] = "idle"]
  /\ turn' = [turn EXCEPT ![w] = NoWork]
  /\ fate' = [m \in Msgs |-> IF m \in turn[w].ids /\ fate[m] = "open" THEN "done" ELSE fate[m]]
  /\ UNCHANGED <<inbox, held, recorded, assembly, entry, home, box, exits, arrival, runs, bounds>>

(* IDLE_TTL: the sleep may win the select although a bundle is waiting.    *)
WorkerIdles(w) ==
  /\ life[w] = "idle"
  /\ life'  = [life EXCEPT ![w] = "leaving"]
  /\ exits' = Append(exits, home[w])
  /\ UNCHANGED <<inbox, held, recorded, assembly, entry, home, box, turn, history, bounds>>

DropWorker(w) ==
  /\ life' = [life EXCEPT ![w] = "gone"]
  /\ box'  = [box  EXCEPT ![w] = <<>>]
  /\ turn' = [turn EXCEPT ![w] = NoWork]
  /\ Settle(Held(w), "lost")
  /\ UNCHANGED <<inbox, held, recorded, assembly, entry, home, exits, arrival, runs, delivered, lapses>>

WorkerLeaves(w) == life[w] = "leaving" /\ DropWorker(w) /\ UNCHANGED deaths

WorkerPanics(w) ==
  /\ Busy(w) /\ deaths < MaxDeaths
  /\ deaths' = deaths + 1
  /\ DropWorker(w)

(* The plugin exits, is reloaded, or the server restarts: WorkerMap::drop  *)
(* aborts the workers; only the dedup table survives.                      *)
Restart ==
  /\ deaths < MaxDeaths
  /\ deaths' = deaths + 1
  /\ inbox' = <<>> /\ held' = Idle /\ exits' = <<>> /\ timers' = {} /\ fired' = <<>>
  /\ buffer' = [k \in Keys |-> Empty]
  /\ entry' = [c \in Chats |-> 0]
  /\ life' = [w \in Worker |-> IF life[w] = "unborn" THEN "unborn" ELSE "gone"]
  /\ box'  = [w \in Worker |-> <<>>]
  /\ turn' = [w \in Worker |-> NoWork]
  /\ fate' = [m \in Msgs |-> IF arrival[m] # 0 /\ fate[m] = "open" THEN "lost" ELSE fate[m]]
  /\ UNCHANGED <<recorded, home, arrival, runs, delivered, lapses>>

DispatcherStep ==
  ReapExit \/ OnTimeout \/ Flush \/ Receive \/ Prelude \/ Ingest \/ HandleRecall

WorkerStep(w) ==
  WorkerTakes(w) \/ TurnStarts(w) \/ TurnEnds(w) \/ Replied(w) \/ WorkerLeaves(w)

Next ==
  \/ \E m \in Msgs : Deliver(m) \/ Recall(m)
  \/ DispatcherStep
  \/ \E t \in timers : TimerFires(t)
  \/ \E w \in Worker : WorkerStep(w) \/ WorkerIdles(w) \/ WorkerPanics(w)
  \/ Restart

Spec == Init /\ [][Next]_vars

(* The dispatcher and the workers keep running, sleeping timers fire, and  *)
(* every turn ends (each of its RPCs and LLM calls has a timeout).         *)
Fairness ==
  /\ WF_vars(DispatcherStep)
  /\ WF_vars(\E t \in timers : TimerFires(t))
  /\ \A w \in Worker : WF_vars(WorkerStep(w))

FairSpec == Spec /\ Fairness

-----------------------------------------------------------------------------
(* Properties.                                                             *)

(* Every variable stays in its declared range, and a map entry names a     *)
(* worker of its own chat.                                                 *)
TypeOK ==
  /\ inbox \in Seq(Event) /\ exits \in Seq(Chats)
  /\ held \in [step : {"none", "acknowledge", "assemble", "route"}, msg : Msgs, ids : SUBSET Msgs]
  /\ recorded \subseteq Msgs
  /\ buffer \in [Keys -> [ids : SUBSET Msgs, base : Msgs, gen : Nat, first : Nat]]
  /\ timers \subseteq Timer /\ fired \in Seq(Timer)
  /\ entry \in [Chats -> 0 .. MaxWorkers]
  /\ life \in [Worker -> Life] /\ home \in [Worker -> Chats]
  /\ box \in [Worker -> Seq(Bundle)] /\ turn \in [Worker -> Bundle]
  /\ fate \in [Msgs -> Fate] /\ arrival \in [Msgs -> Nat] /\ runs \in [Msgs -> Nat]
  /\ {delivered, lapses, deaths} \subseteq Nat
  /\ \A c \in Chats : entry[c] # 0 => home[entry[c]] = c /\ life[entry[c]] # "unborn"

(* A replayed message is not executed again, across restarts and worker    *)
(* deaths: it starts at most one turn per failed dedup probe plus one.     *)
RunsOnce == \A m \in Msgs : runs[m] <= 1 + lapses

(* Two events of one chat are executed one after the other, although a     *)
(* chat has several workers over time and their ends are seen late.        *)
SerialPerChat ==
  \A v, w \in Worker : Busy(v) /\ Busy(w) /\ home[v] = home[w] => v = w

(* The messages of one user in one chat are executed in arrival order:     *)
(* none is further along than an earlier one.  (Commands and cancel words  *)
(* skip the burst buffer by design.)                                       *)
Ordered == {m \in Msgs : KindOf[m] \in {"text", "file"} /\ fate[m] = "open" /\ arrival[m] # 0}

Flushing == IF held.step = "route" THEN held.ids ELSE {}

Stage(m) ==
  CASE m \in buffer[KeyOf[m]].ids -> 1
    [] m \in Flushing -> 2
    [] \E w \in Worker : m \in InBox(w) -> 3
    [] \E w \in Worker : m \in turn[w].ids -> 4
    [] OTHER -> 0

KeyFifo ==
  lapses = 0 =>
    \A m, n \in Ordered : KeyOf[m] = KeyOf[n] /\ arrival[m] < arrival[n] =>
      /\ Stage(n) <= Stage(m)
      /\ \A w \in Worker : \A i, j \in DOMAIN box[w] :
           m \in box[w][i].ids /\ n \in box[w][j].ids => i <= j

(* A pending burst always has a timer of its own generation on its way, so *)
(* a chat cannot wedge on input that never settles.                        *)
BufferHasTimer ==
  \A k \in Keys : buffer[k].gen # 0 =>
    LET own == [key |-> k, gen |-> buffer[k].gen, first |-> buffer[k].first] IN
    own \in timers \/ \E i \in DOMAIN fired : fired[i] = own

(* The places a message can be in: with the dispatcher, in the buffer, in  *)
(* a mailbox, in a turn.                                                   *)
InHand(m)  == held.step \in {"assemble", "route"} /\ m \in held.ids
Turning(m) == {w \in Worker : m \in turn[w].ids}
Mailed(m)  == {p \in Worker \X (1 .. CAP) : p[2] <= Len(box[p[1]]) /\ m \in box[p[1]][p[2]].ids}

Waiting(m) ==
  (IF InHand(m) THEN 1 ELSE 0) + (IF m \in buffer[KeyOf[m]].ids THEN 1 ELSE 0)
    + Cardinality(Mailed(m))

Places(m) == Waiting(m) + Cardinality(Turning(m))

(* An open message is in exactly one place: it is neither duplicated nor   *)
(* dropped between prelude, buffer, mailbox and turn, and does not wait in *)
(* a buffer nobody will flush.                                             *)
Accounted ==
  /\ lapses = 0 => \A m \in Msgs : arrival[m] # 0 /\ fate[m] = "open" => Places(m) = 1
  /\ BufferHasTimer

(* Every message the dispatcher recorded is eventually executed, or its    *)
(* end is known.                                                           *)
EveryMessageSettles == \A m \in Msgs : arrival[m] # 0 ~> fate[m] # "open"

(* dispatch.rs says of a reaped worker that it "has already broken its     *)
(* loop; abort is a no-op in steady state".                                *)
ExitNoticeIsCurrent ==
  Selecting /\ exits # <<>> /\ entry[Head(exits)] # 0 =>
    ~Alive(entry[Head(exits)])
=============================================================================
