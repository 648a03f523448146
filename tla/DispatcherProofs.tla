--------------------------- MODULE DispatcherProofs ---------------------------
(***************************************************************************)
(* Theorems about Dispatcher, for every finite set of messages, every      *)
(* assignment of keys and chats, every mailbox capacity and every value of *)
(* the bounds.                                                             *)
(***************************************************************************)
EXTENDS Dispatcher, TLAPS, FiniteSetTheorems, FunctionTheorems, WellFoundedInduction

(* The event in hand is one message, or a burst of one key.                *)
HeldShape ==
  /\ held.step \in {"acknowledge", "assemble"} => held.ids = {held.msg}
  /\ held.step = "route" => \A m \in held.ids : KeyOf[m] = KeyOf[held.msg]

(* A burst holds messages of its own key only, and none before its first   *)
(* generation.                                                             *)
BufferShape ==
  \A k \in Keys :
    /\ buffer[k].gen = 0 => buffer[k].ids = {}
    /\ buffer[k].gen # 0 => KeyOf[buffer[k].base] = k
    /\ \A m \in buffer[k].ids : KeyOf[m] = k

(* A worker's mailbox is bounded; one that does not exist has nothing in   *)
(* it, one without a turn no bundle in hand; and all it has is of its own  *)
(* chat.                                                                   *)
WorkerShape ==
  \A w \in Worker :
    /\ Len(box[w]) <= CAP
    /\ life[w] \in {"unborn", "gone"} => box[w] = <<>>
    /\ ~Busy(w) => turn[w].ids = {}
    /\ \A m \in Held(w) : ChatOf[KeyOf[m]] = home[w]

(* A worker that exists is the one its chat's entry names: an entry is     *)
(* only replaced when its worker is gone.                                  *)
EntryIsWorker ==
  \A w \in Worker : life[w] \notin {"unborn", "gone"} => entry[home[w]] = w

Shape == TypeOK /\ HeldShape /\ BufferShape /\ WorkerShape /\ EntryIsWorker

-----------------------------------------------------------------------------
(* Constants and the first unborn worker.                                  *)

LEMMA Constants ==
  /\ AnyMsg \in Msgs /\ NoWork \in Bundle /\ NoWork.ids = {}
  /\ Empty \in [ids : SUBSET Msgs, base : Msgs, gen : Nat, first : Nat]
  /\ Idle \in [step : {"none", "acknowledge", "assemble", "route"}, msg : Msgs, ids : SUBSET Msgs]
  /\ Idle.step = "none" /\ Empty.ids = {} /\ Empty.gen = 0
  /\ CAP \in Nat \ {0} /\ MaxWorkers \in Nat /\ 0 \notin Worker
  /\ \A m \in Msgs : KeyOf[m] \in Keys /\ KindOf[m] \in MsgKind
  /\ \A k \in Keys : ChatOf[k] \in Chats
  /\ (CHOOSE c \in Chats : TRUE) \in Chats
<1>1. AnyMsg \in Msgs
  BY DispatcherAssumption DEF AnyMsg
<1>2. KeyOf[AnyMsg] \in Keys /\ ChatOf[KeyOf[AnyMsg]] \in Chats
  BY <1>1, DispatcherAssumption
<1>3. QED
  BY <1>1, <1>2, DispatcherAssumption DEF NoWork, Bundle, Empty, Idle, Worker

LEMMA FreshIsUnborn ==
  ASSUME Unborn # {} PROVE Fresh \in Worker /\ life[Fresh] = "unborn"
<1>1. Unborn \subseteq Nat
  BY Constants DEF Unborn, Worker
<1>2. PICK w \in Unborn : \A v \in Unborn : <<v, w>> \notin OpToRel(<, Nat)
  BY <1>1, NatLessThanWellFounded, WFMin
<1>3. \A v \in Unborn : w <= v
  <2>1. \A x, y \in Nat : x < y => <<x, y>> \in OpToRel(<, Nat)
    BY DEF OpToRel
  <2>2. \A v \in Unborn : ~(v < w)
    BY <1>1, <1>2, <2>1
  <2>3. QED
    BY <1>1, <2>2
<1>4. Fresh \in Unborn
  BY <1>2, <1>3 DEF Fresh
<1>5. QED
  BY <1>4 DEF Unborn

-----------------------------------------------------------------------------
(* Types.  TypeOK and the shape of the state in four parts: the event      *)
(* channels and the event in hand, the buffer, the workers, the history.   *)

EventsOK ==
  /\ inbox \in Seq(Event) /\ exits \in Seq(Chats)
  /\ held \in [step : {"none", "acknowledge", "assemble", "route"}, msg : Msgs, ids : SUBSET Msgs]
  /\ recorded \subseteq Msgs
  /\ HeldShape

BufferOK ==
  /\ buffer \in [Keys -> [ids : SUBSET Msgs, base : Msgs, gen : Nat, first : Nat]]
  /\ timers \subseteq Timer /\ fired \in Seq(Timer)
  /\ BufferShape

EntryTyped == \A c \in Chats : entry[c] # 0 => home[entry[c]] = c /\ life[entry[c]] # "unborn"

PoolOK ==
  /\ entry \in [Chats -> 0 .. MaxWorkers]
  /\ life \in [Worker -> Life] /\ home \in [Worker -> Chats]
  /\ box \in [Worker -> Seq(Bundle)] /\ turn \in [Worker -> Bundle]
  /\ EntryTyped /\ WorkerShape /\ EntryIsWorker

HistoryOK ==
  /\ fate \in [Msgs -> Fate] /\ arrival \in [Msgs -> Nat] /\ runs \in [Msgs -> Nat]
  /\ {delivered, lapses, deaths} \subseteq Nat

LEMMA ShapeParts == Shape <=> EventsOK /\ BufferOK /\ PoolOK /\ HistoryOK
BY DEF Shape, TypeOK, EventsOK, BufferOK, EntryTyped, PoolOK, HistoryOK

LEMMA ShapeInit == Init => Shape
<1> SUFFICES ASSUME Init PROVE Shape
  OBVIOUS
<1> USE Constants
<1>1. EventsOK
  BY DEF Init, EventsOK, HeldShape
<1>2. BufferOK
  BY DEF Init, BufferOK, BufferShape
<1>3. PoolOK
  <2>1. /\ entry \in [Chats -> 0 .. MaxWorkers] /\ life \in [Worker -> Life]
        /\ home \in [Worker -> Chats] /\ box \in [Worker -> Seq(Bundle)]
        /\ turn \in [Worker -> Bundle]
    BY DEF Init, Life
  <2>2. WorkerShape
    BY DEF Init, WorkerShape, Held, InBox
  <2>3. EntryTyped /\ EntryIsWorker
    BY DEF Init, EntryTyped, EntryIsWorker
  <2>4. QED
    BY <2>1, <2>2, <2>3 DEF PoolOK
<1>4. HistoryOK
  <2>1. fate \in [Msgs -> Fate] /\ arrival \in [Msgs -> Nat] /\ runs \in [Msgs -> Nat]
    BY DEF Init, Fate
  <2>2. {delivered, lapses, deaths} \subseteq Nat
    BY DEF Init
  <2>3. QED
    BY <2>1, <2>2 DEF HistoryOK
<1>5. QED
  BY <1>1, <1>2, <1>3, <1>4, ShapeParts

(* The events and the event in hand.                                       *)
LEMMA EventsStep == Shape /\ [Next]_vars => EventsOK'
<1> SUFFICES ASSUME Shape, [Next]_vars PROVE EventsOK'
  OBVIOUS
<1> USE Constants
<1>0. EventsOK /\ BufferOK /\ PoolOK
  BY ShapeParts
<1>1. ASSUME NEW m \in Msgs, Deliver(m) \/ Recall(m) PROVE EventsOK'
  <2>1. PICK e \in Event : inbox' = Append(inbox, e)
    BY <1>1 DEF Deliver, Recall, Event
  <2>2. UNCHANGED <<held, recorded, exits>>
    BY <1>1 DEF Deliver, Recall
  <2>3. QED
    BY <1>0, <2>1, <2>2 DEF EventsOK, HeldShape
<1>2. CASE ReapExit
  BY <1>0, <1>2 DEF ReapExit, EventsOK, HeldShape
<1>3. CASE OnTimeout
  <2> DEFINE k == Head(fired).key
  <2>1. k \in Keys /\ UNCHANGED <<inbox, recorded, exits>>
    <3>1. Head(fired) \in Timer
      BY <1>0, <1>3 DEF OnTimeout, BufferOK
    <3>2. QED
      BY <1>3, <3>1 DEF OnTimeout, Timer
  <2>2. CASE held' = [step |-> "route", msg |-> buffer[k].base, ids |-> buffer[k].ids]
             /\ buffer[k].gen # 0
    <3>1. buffer[k] \in [ids : SUBSET Msgs, base : Msgs, gen : Nat, first : Nat]
      BY <1>0, <2>1 DEF BufferOK
    <3>2. \A m \in buffer[k].ids : KeyOf[m] = KeyOf[buffer[k].base]
      BY <1>0, <2>1, <2>2 DEF BufferOK, BufferShape
    <3>3. QED
      BY <1>0, <2>1, <2>2, <3>1, <3>2 DEF EventsOK, HeldShape
  <2>3. CASE UNCHANGED held
    BY <1>0, <2>1, <2>3 DEF EventsOK, HeldShape
  <2>4. QED
    BY <1>3, <2>2, <2>3 DEF OnTimeout
<1>4. CASE Flush
  BY <1>0, <1>4 DEF Flush, EventsOK, HeldShape
<1>5. CASE Receive
  <2>1. Head(inbox) \in Event /\ Tail(inbox) \in Seq(Event)
    BY <1>0, <1>5 DEF Receive, EventsOK
  <2>2. QED
    BY <1>0, <1>5, <2>1 DEF Receive, EventsOK, HeldShape, Event
<1>6. CASE Prelude
  <2>1. held' = Idle \/ held' = [held EXCEPT !.step = "assemble"]
    BY <1>6 DEF Prelude
  <2>2. recorded' \subseteq Msgs /\ UNCHANGED <<inbox, exits>> /\ held.step = "acknowledge"
    BY <1>0, <1>6 DEF Prelude, EventsOK
  <2>3. QED
    BY <1>0, <2>1, <2>2 DEF EventsOK, HeldShape
<1>7. CASE Ingest
  BY <1>0, <1>7 DEF Ingest, EventsOK, HeldShape
<1>8. CASE HandleRecall
  BY <1>0, <1>8 DEF HandleRecall, EventsOK, HeldShape
<1>9. ASSUME NEW w \in Worker, WorkerIdles(w) PROVE EventsOK'
  BY <1>0, <1>9 DEF WorkerIdles, EventsOK, PoolOK, HeldShape
<1>10. CASE Restart
  BY <1>0, <1>10 DEF Restart, EventsOK, HeldShape
<1>11. CASE UNCHANGED <<inbox, held, recorded, exits>>
  BY <1>0, <1>11 DEF EventsOK, HeldShape
<1>12. QED
  BY <1>1, <1>2, <1>3, <1>4, <1>5, <1>6, <1>7, <1>8, <1>9, <1>10, <1>11
     DEF Next, DispatcherStep, WorkerStep, TimerFires, WorkerTakes, TurnStarts, TurnEnds, Replied,
         WorkerLeaves, WorkerPanics, DropWorker, vars

(* The burst buffer and its timers.                                        *)
LEMMA MergeBuffer ==
  ASSUME Shape, NEW m \in Msgs, Merge(m)
  PROVE  BufferOK'
<1> DEFINE k == KeyOf[m]
           g == buffer[k].gen + 1
           new == [ids |-> buffer[k].ids \cup {m},
                   base |-> IF buffer[k].gen = 0 \/ KindOf[m] = "text" THEN m ELSE buffer[k].base,
                   gen |-> g, first |-> First(m)]
<1>0. BufferOK /\ HistoryOK /\ k \in Keys
  BY ShapeParts, Constants
<1>1. buffer[k] \in [ids : SUBSET Msgs, base : Msgs, gen : Nat, first : Nat] /\ arrival[m] \in Nat
  BY <1>0 DEF BufferOK, HistoryOK
<1>2. First(m) \in Nat /\ g \in Nat \ {0}
  BY <1>1 DEF First
<1>3. new \in [ids : SUBSET Msgs, base : Msgs, gen : Nat, first : Nat]
  BY <1>1, <1>2
<1>4. buffer' = [buffer EXCEPT ![k] = new]
      /\ timers' = timers \cup {[key |-> k, gen |-> g, first |-> First(m)]} /\ UNCHANGED fired
  BY DEF Merge
<1>5. [key |-> k, gen |-> g, first |-> First(m)] \in Timer
  BY <1>0, <1>2 DEF Timer
<1>6. BufferShape'
  <2>1. KeyOf[new.base] = k /\ (\A n \in new.ids : KeyOf[n] = k) /\ new.gen # 0
    BY <1>0, <1>1, <1>2 DEF BufferOK, BufferShape
  <2>2. \A j \in Keys : buffer'[j] = IF j = k THEN new ELSE buffer[j]
    BY <1>0, <1>4 DEF BufferOK
  <2> HIDE DEF new
  <2>3. QED
    BY <1>0, <2>1, <2>2 DEF BufferOK, BufferShape
<1> HIDE DEF new
<1>7. QED
  BY <1>0, <1>3, <1>4, <1>5, <1>6 DEF BufferOK

LEMMA BufferEmptied ==
  ASSUME Shape, NEW k \in Keys, buffer' = [buffer EXCEPT ![k] = Empty],
         timers' \subseteq timers, fired' \in Seq(Timer)
  PROVE  BufferOK'
BY ShapeParts, Constants DEF BufferOK, BufferShape

LEMMA BufferStep == Shape /\ [Next]_vars => BufferOK'
<1> SUFFICES ASSUME Shape, [Next]_vars PROVE BufferOK'
  OBVIOUS
<1> USE Constants
<1>0. EventsOK /\ BufferOK
  BY ShapeParts
<1>1. CASE OnTimeout
  <2>1. Head(fired) \in Timer /\ Tail(fired) \in Seq(Timer)
    BY <1>0, <1>1 DEF OnTimeout, BufferOK
  <2>2. CASE UNCHANGED buffer
    BY <1>0, <1>1, <2>1, <2>2 DEF OnTimeout, BufferOK, BufferShape
  <2>3. CASE buffer' = [buffer EXCEPT ![Head(fired).key] = Empty]
    BY <1>1, <2>1, <2>3, BufferEmptied DEF OnTimeout, Timer
  <2>4. QED
    BY <1>1, <2>2, <2>3 DEF OnTimeout
<1>2. CASE Ingest
  <2>1. held.msg \in Msgs /\ KeyOf[held.msg] \in Keys
    BY <1>0 DEF EventsOK
  <2>2. CASE Merge(held.msg)
    BY <2>1, <2>2, MergeBuffer
  <2>3. CASE CancelBuffer(held.msg)
    BY <1>0, <2>1, <2>3, BufferEmptied DEF CancelBuffer, BufferOK
  <2>4. CASE RouteAtOnce(held.msg)
    BY <1>0, <2>4 DEF RouteAtOnce, assembly, BufferOK, BufferShape
  <2>5. QED
    BY <1>2, <2>2, <2>3, <2>4 DEF Ingest
<1>3. CASE HandleRecall
  <2>1. Head(inbox).msg \in Msgs
    <3>1. Head(inbox) \in Event
      BY <1>0, <1>3 DEF HandleRecall, EventsOK
    <3>2. QED
      BY <3>1 DEF Event
  <2>2. CASE UNCHANGED buffer
    BY <1>0, <1>3, <2>2 DEF HandleRecall, BufferOK, BufferShape
  <2>3. CASE buffer' = [buffer EXCEPT ![KeyOf[Head(inbox).msg]] = Empty]
    BY <1>0, <1>3, <2>1, <2>3, BufferEmptied DEF HandleRecall, BufferOK
  <2>4. QED
    BY <1>3, <2>2, <2>3 DEF HandleRecall
<1>4. ASSUME NEW t \in timers, TimerFires(t) PROVE BufferOK'
  BY <1>0, <1>4 DEF TimerFires, BufferOK, BufferShape
<1>5. CASE Restart
  BY <1>5 DEF Restart, BufferOK, BufferShape
<1>6. CASE UNCHANGED assembly
  BY <1>0, <1>6 DEF assembly, BufferOK, BufferShape
<1>7. QED
  BY <1>1, <1>2, <1>3, <1>4, <1>5, <1>6
     DEF Next, DispatcherStep, WorkerStep, Deliver, Recall, ReapExit, Flush, Receive, Prelude,
         WorkerTakes, TurnStarts, TurnEnds, Replied, WorkerLeaves, WorkerPanics, WorkerIdles,
         DropWorker, vars

(* The fates and the counters.                                             *)
LEMMA SettleType ==
  ASSUME HistoryOK, NEW S, NEW f \in Fate, Settle(S, f)
  PROVE  fate' \in [Msgs -> Fate]
BY DEF HistoryOK, Settle

LEMMA ArrivesType ==
  ASSUME HistoryOK, NEW m \in Msgs, Arrives(m)
  PROVE  arrival' \in [Msgs -> Nat]
<1>1. IsFiniteSet({n \in Msgs : arrival[n] # 0})
  BY DispatcherAssumption, FS_Subset
<1>2. Cardinality({n \in Msgs : arrival[n] # 0}) \in Nat
  BY <1>1, FS_CardinalityType
<1>3. QED
  BY <1>2 DEF Arrives, HistoryOK

LEMMA RouteFate ==
  ASSUME HistoryOK, NEW c, NEW b, RouteToChatWorker(c, b)
  PROVE  fate' \in [Msgs -> Fate]
BY SettleType DEF RouteToChatWorker, HistoryOK, Fate

LEMMA HistoryStep == Shape /\ [Next]_vars => HistoryOK'
<1> SUFFICES ASSUME Shape, [Next]_vars PROVE HistoryOK'
  OBVIOUS
<1>0. EventsOK /\ BufferOK /\ PoolOK /\ HistoryOK
  BY ShapeParts
<1>1. ASSUME NEW m \in Msgs, Deliver(m) \/ Recall(m) PROVE HistoryOK'
  BY <1>0, <1>1 DEF Deliver, Recall, HistoryOK, history
<1>2. CASE ReapExit
  <2>1. fate' \in [Msgs -> Fate]
    BY <1>0, <1>2, SettleType DEF ReapExit, HistoryOK, Fate
  <2>2. QED
    BY <1>0, <1>2, <2>1 DEF ReapExit, HistoryOK, bounds
<1>3. CASE Flush
  <2>1. fate' \in [Msgs -> Fate]
    BY <1>0, <1>3, RouteFate DEF Flush
  <2>2. QED
    BY <1>0, <1>3, <2>1 DEF Flush, HistoryOK, bounds
<1>4. CASE Prelude
  <2>1. held.msg \in Msgs
    BY <1>0 DEF EventsOK
  <2>2. arrival' \in [Msgs -> Nat]
    BY <1>0, <1>4, <2>1, ArrivesType DEF Prelude, HistoryOK
  <2>3. lapses' \in Nat /\ UNCHANGED <<fate, runs, delivered, deaths>>
    BY <1>0, <1>4 DEF Prelude, HistoryOK
  <2>4. QED
    BY <1>0, <2>2, <2>3 DEF HistoryOK
<1>5. CASE Ingest
  <2>1. fate' \in [Msgs -> Fate]
    <3>1. CASE Merge(held.msg)
      BY <1>0, <3>1 DEF Merge, HistoryOK
    <3>2. CASE CancelBuffer(held.msg)
      BY <1>0, <3>2 DEF CancelBuffer, HistoryOK, Fate
    <3>3. CASE RouteAtOnce(held.msg)
      BY <1>0, <3>3, RouteFate DEF RouteAtOnce
    <3>4. QED
      BY <1>5, <3>1, <3>2, <3>3 DEF Ingest
  <2>2. QED
    BY <1>0, <1>5, <2>1 DEF Ingest, HistoryOK, bounds
<1>6. CASE HandleRecall
  <2>1. fate' \in [Msgs -> Fate]
    BY <1>0, <1>6, SettleType DEF HandleRecall, HistoryOK, Fate
  <2>2. QED
    BY <1>0, <1>6, <2>1 DEF HandleRecall, HistoryOK, bounds
<1>7. ASSUME NEW w \in Worker, WorkerTakes(w) PROVE HistoryOK'
  BY <1>0, <1>7 DEF WorkerTakes, HistoryOK, bounds
<1>8. ASSUME NEW w \in Worker, TurnEnds(w) PROVE HistoryOK'
  <2>1. fate' \in [Msgs -> Fate]
    BY <1>0, <1>8, SettleType DEF TurnEnds, Fate
  <2>2. QED
    BY <1>0, <1>8, <2>1 DEF TurnEnds, HistoryOK, bounds
<1>9. ASSUME NEW w \in Worker, Replied(w) PROVE HistoryOK'
  BY <1>0, <1>9 DEF Replied, HistoryOK, bounds, Fate
<1>10. ASSUME NEW w \in Worker, WorkerLeaves(w) \/ WorkerPanics(w) PROVE HistoryOK'
  <2>1. fate' \in [Msgs -> Fate]
    BY <1>0, <1>10, SettleType DEF WorkerLeaves, WorkerPanics, DropWorker, Fate
  <2>2. UNCHANGED <<arrival, runs, delivered, lapses>> /\ deaths' \in Nat
    BY <1>0, <1>10 DEF WorkerLeaves, WorkerPanics, DropWorker, HistoryOK
  <2>3. QED
    BY <1>0, <2>1, <2>2 DEF HistoryOK
<1>11. CASE Restart
  <2>1. fate' \in [Msgs -> Fate]
    BY <1>0, <1>11 DEF Restart, HistoryOK, Fate
  <2>2. QED
    BY <1>0, <1>11, <2>1 DEF Restart, HistoryOK
<1>12. CASE UNCHANGED <<history, bounds>>
  BY <1>0, <1>12 DEF history, bounds, HistoryOK
<1>13. QED
  BY <1>1, <1>2, <1>3, <1>4, <1>5, <1>6, <1>7, <1>8, <1>9, <1>10, <1>11, <1>12
     DEF Next, DispatcherStep, WorkerStep, OnTimeout, Receive, TimerFires, TurnStarts,
         WorkerIdles, vars

(* The workers.  What a mailbox holds, and how it changes.                 *)
Ids(s) == UNION {s[i].ids : i \in DOMAIN s}

LEMMA IdsAppend ==
  ASSUME NEW s \in Seq(Bundle), NEW b \in Bundle
  PROVE  /\ Append(s, b) \in Seq(Bundle) /\ Len(Append(s, b)) = Len(s) + 1
         /\ Ids(Append(s, b)) = Ids(s) \cup b.ids
<1> DEFINE t == Append(s, b)
<1>1. t \in Seq(Bundle) /\ Len(t) = Len(s) + 1 /\ DOMAIN t = 1 .. (Len(s) + 1)
  OBVIOUS
<1>2. t[Len(s) + 1] = b /\ \A i \in 1 .. Len(s) : t[i] = s[i]
  OBVIOUS
<1>3. DOMAIN s = 1 .. Len(s) /\ Len(s) \in Nat
  OBVIOUS
<1> HIDE DEF t
<1>4. \A m : m \in Ids(t) <=> \E i \in 1 .. (Len(s) + 1) : m \in t[i].ids
  BY <1>1 DEF Ids
<1>5. \A m : m \in Ids(s) <=> \E i \in 1 .. Len(s) : m \in s[i].ids
  BY <1>3 DEF Ids
<1>6. \A i : i \in 1 .. (Len(s) + 1) <=> i \in 1 .. Len(s) \/ i = Len(s) + 1
  BY <1>3
<1>7. \A m : m \in Ids(t) <=> m \in Ids(s) \/ m \in b.ids
  BY <1>2, <1>4, <1>5, <1>6
<1>8. QED
  BY <1>1, <1>7 DEF t

LEMMA IdsTail ==
  ASSUME NEW s \in Seq(Bundle), s # <<>>
  PROVE  /\ Tail(s) \in Seq(Bundle) /\ Head(s) \in Bundle /\ Len(Tail(s)) = Len(s) - 1
         /\ Ids(s) = Head(s).ids \cup Ids(Tail(s))
<1> DEFINE t == Tail(s)
<1>1. t \in Seq(Bundle) /\ Head(s) = s[1] /\ Len(t) = Len(s) - 1 /\ Len(s) \in Nat \ {0}
  OBVIOUS
<1>2. \A i \in 1 .. Len(t) : t[i] = s[i + 1]
  OBVIOUS
<1>3. DOMAIN s = 1 .. Len(s) /\ DOMAIN t = 1 .. Len(t) /\ Head(s) \in Bundle
  BY <1>1
<1> HIDE DEF t
<1>4. \A m : m \in Ids(t) <=> \E i \in 1 .. Len(t) : m \in s[i + 1].ids
  BY <1>2, <1>3 DEF Ids
<1>5. \A m : m \in Ids(s) <=> \E i \in 1 .. Len(s) : m \in s[i].ids
  BY <1>3 DEF Ids
<1>6. \A i : i \in 1 .. Len(s) <=> i = 1 \/ \E j \in 1 .. Len(t) : i = j + 1
  <2>1. ASSUME NEW i \in 1 .. Len(s), i # 1 PROVE i - 1 \in 1 .. Len(t) /\ i = (i - 1) + 1
    BY <1>1, <2>1
  <2>2. QED
    BY <1>1, <2>1
<1>7. \A m : m \in Ids(s) <=> m \in Head(s).ids \/ m \in Ids(t)
  BY <1>1, <1>4, <1>5, <1>6
<1>8. QED
  BY <1>1, <1>3, <1>7 DEF t

LEMMA IdsEmpty == Ids(<<>>) = {}
BY DEF Ids

LEMMA InBoxIds == \A w : InBox(w) = Ids(box[w]) /\ Held(w) = turn[w].ids \cup Ids(box[w])
BY DEF InBox, Held, Ids

(* One worker goes on with part of what it had.                            *)
LEMMA PoolWorker ==
  ASSUME PoolOK, NEW w \in Worker, NEW l \in Life, NEW s \in Seq(Bundle), NEW t \in Bundle,
         life' = [life EXCEPT ![w] = l], box' = [box EXCEPT ![w] = s],
         turn' = [turn EXCEPT ![w] = t], UNCHANGED <<entry, home>>,
         life[w] \notin {"unborn", "gone"}, l # "unborn", Len(s) <= CAP,
         l = "gone" => s = <<>>,
         l \notin {"starting", "running", "aborting", "replying"} => t.ids = {},
         t.ids \cup Ids(s) \subseteq Held(w)
  PROVE  PoolOK'
<1>1. /\ entry' \in [Chats -> 0 .. MaxWorkers] /\ life' \in [Worker -> Life]
      /\ home' \in [Worker -> Chats] /\ box' \in [Worker -> Seq(Bundle)]
      /\ turn' \in [Worker -> Bundle]
  BY DEF PoolOK
<1>2. WorkerShape'
  <2> SUFFICES ASSUME NEW v \in Worker
               PROVE  /\ Len(box'[v]) <= CAP
                      /\ life'[v] \in {"unborn", "gone"} => box'[v] = <<>>
                      /\ ~Busy(v)' => turn'[v].ids = {}
                      /\ \A m \in Held(v)' : ChatOf[KeyOf[m]] = home'[v]
    BY DEF WorkerShape
  <2>1. CASE v = w
    <3>1. box'[v] = s /\ turn'[v] = t /\ life'[v] = l
      BY <2>1 DEF PoolOK
    <3>2. Held(v)' = t.ids \cup Ids(s)
      BY <3>1 DEF Held, InBox, Ids
    <3>3. QED
      BY <2>1, <3>1, <3>2 DEF PoolOK, WorkerShape, Busy
  <2>2. CASE v # w
    <3>1. box'[v] = box[v] /\ turn'[v] = turn[v] /\ life'[v] = life[v] /\ home'[v] = home[v]
      BY <2>2 DEF PoolOK
    <3>2. Held(v)' = Held(v)
      BY <3>1 DEF Held, InBox
    <3>3. QED
      BY <3>1, <3>2 DEF PoolOK, WorkerShape, Busy
  <2>3. QED
    BY <2>1, <2>2
<1>3. EntryTyped' /\ EntryIsWorker'
  BY DEF PoolOK, EntryTyped, EntryIsWorker
<1>4. QED
  BY <1>1, <1>2, <1>3 DEF PoolOK

(* Routing puts the bundle into the mailbox of the entry's worker, new or  *)
(* not, or settles it.                                                     *)
Adds(w, c, b) ==
  /\ box' = [box EXCEPT ![w] = Append(box[w], b)] /\ Len(box[w]) < CAP
  /\ home'[w] = c /\ UNCHANGED <<turn, fate>>

LEMMA RouteCases ==
  ASSUME PoolOK, NEW c \in Chats, NEW b \in Bundle, RouteToChatWorker(c, b)
  PROVE  \/ \E w \in Worker :
              /\ Adds(w, c, b)
              /\ \/ entry[c] = w /\ life[w] \notin {"unborn", "gone"} /\ UNCHANGED <<entry, life, home>>
                 \/ /\ life[w] = "unborn" /\ box[w] = <<>>
                    /\ entry[c] = 0 \/ life[entry[c]] = "gone"
                    /\ entry' = [entry EXCEPT ![c] = w]
                    /\ life'  = [life EXCEPT ![w] = "idle"]
                    /\ home'  = [home EXCEPT ![w] = c]
         \/ Settle(b.ids, "throttled") /\ UNCHANGED pool
<1>1. CASE Open(c) /\ Len(box[entry[c]]) < CAP
  <2>1. entry[c] \in Worker /\ home[entry[c]] = c /\ life[entry[c]] \notin {"unborn", "gone"}
    BY <1>1 DEF Open, PoolOK, EntryTyped, Worker
  <2>2. ~(Len(box[entry[c]]) >= CAP)
    <3>1. Len(box[entry[c]]) \in Nat
      BY <2>1 DEF PoolOK
    <3>2. QED
      BY <1>1, <3>1, Constants
  <2>3. PICK w \in Worker : w = entry[c]
    BY <2>1
  <2>4. box' = [box EXCEPT ![w] = Append(box[w], b)] /\ UNCHANGED <<entry, life, home, turn, fate>>
    BY <1>1, <2>2, <2>3 DEF RouteToChatWorker, PoolOK
  <2>5. QED
    BY <1>1, <2>1, <2>3, <2>4 DEF Adds
<1>2. CASE Open(c) /\ Len(box[entry[c]]) >= CAP
  <2>1. ~(Len(box[entry[c]]) < CAP)
    <3>1. entry[c] \in Worker
      BY <1>2 DEF Open, PoolOK, Worker
    <3>2. QED
      BY <1>2, <3>1, Constants DEF PoolOK
  <2>2. QED
    BY <1>2, <2>1 DEF RouteToChatWorker
<1>3. CASE ~Open(c)
  <2>1. /\ Unborn # {} /\ entry' = [entry EXCEPT ![c] = Fresh] /\ life' = [life EXCEPT ![Fresh] = "idle"]
        /\ home' = [home EXCEPT ![Fresh] = c] /\ box' = [box EXCEPT ![Fresh] = <<b>>]
        /\ UNCHANGED <<turn, fate>>
    BY <1>3 DEF RouteToChatWorker
  <2>2. PICK w \in Worker : w = Fresh /\ life[w] = "unborn"
    BY <2>1, FreshIsUnborn
  <2>3. box[w] = <<>> /\ <<b>> = Append(box[w], b) /\ Len(box[w]) < CAP /\ home'[w] = c
    BY <2>1, <2>2, Constants DEF PoolOK, WorkerShape
  <2>4. entry[c] = 0 \/ life[entry[c]] = "gone"
    BY <1>3 DEF Open
  <2>5. QED
    BY <2>1, <2>2, <2>3, <2>4 DEF Adds
<1>4. QED
  BY <1>1, <1>2, <1>3 DEF RouteToChatWorker

LEMMA PoolRoute ==
  ASSUME PoolOK, NEW c \in Chats, NEW b \in Bundle, RouteToChatWorker(c, b),
         \A m \in b.ids : ChatOf[KeyOf[m]] = c
  PROVE  PoolOK'
<1>1. ASSUME NEW w \in Worker, Adds(w, c, b), NEW e, e = entry', NEW l, l = life',
             life' \in [Worker -> Life], home' \in [Worker -> Chats],
             \A v \in Worker \ {w} : life'[v] = life[v] /\ home'[v] = home[v],
             life'[w] \notin {"unborn", "gone"},
             life[w] = "unborn" => life'[w] = "idle",
             life[w] # "unborn" => life'[w] = life[w] /\ home'[w] = home[w]
      PROVE  WorkerShape' /\ box' \in [Worker -> Seq(Bundle)] /\ turn' \in [Worker -> Bundle]
  <2>1. /\ Append(box[w], b) \in Seq(Bundle) /\ Len(Append(box[w], b)) <= CAP
        /\ Ids(Append(box[w], b)) = Ids(box[w]) \cup b.ids
    BY <1>1, IdsAppend, Constants DEF PoolOK, Adds
  <2>2. box' \in [Worker -> Seq(Bundle)] /\ turn' = turn /\ box'[w] = Append(box[w], b)
        /\ \A v \in Worker \ {w} : box'[v] = box[v]
    BY <1>1, <2>1 DEF Adds, PoolOK
  <2>3. Ids(box'[w]) = Ids(box[w]) \cup b.ids /\ home'[w] = c
    BY <1>1, <2>1, <2>2 DEF Adds
  <2>4. ASSUME NEW v \in Worker
        PROVE  /\ Len(box'[v]) <= CAP
               /\ life'[v] \in {"unborn", "gone"} => box'[v] = <<>>
               /\ ~Busy(v)' => turn'[v].ids = {}
               /\ \A m \in Held(v)' : ChatOf[KeyOf[m]] = home'[v]
    <3>1. Held(v) = turn[v].ids \cup Ids(box[v]) /\ Held(v)' = turn'[v].ids \cup Ids(box'[v])
      BY DEF Held, InBox, Ids
    <3>2. CASE v # w
      BY <1>1, <2>2, <3>1, <3>2 DEF PoolOK, WorkerShape, Busy
    <3>3. CASE v = w
      <4>1. life[w] = "unborn" => Ids(box[w]) = {} /\ turn[w].ids = {}
        BY IdsEmpty DEF PoolOK, WorkerShape, Busy
      <4>2. \A m \in Held(v)' : m \in b.ids \/ (m \in Held(w) /\ life[w] # "unborn")
        BY <2>2, <2>3, <3>1, <3>3, <4>1
      <4>3. \A m \in Held(v)' : ChatOf[KeyOf[m]] = home'[v]
        BY <1>1, <2>3, <3>3, <4>2 DEF PoolOK, WorkerShape
      <4>4. ~Busy(w)' => turn'[w].ids = {}
        BY <1>1, <2>2, <4>1 DEF PoolOK, WorkerShape, Busy
      <4>5. QED
        BY <1>1, <2>1, <2>2, <3>3, <4>3, <4>4
    <3>4. QED
      BY <3>2, <3>3
  <2>5. QED
    BY <2>2, <2>4 DEF WorkerShape, PoolOK
<1>2. CASE UNCHANGED pool
  BY <1>2 DEF pool, PoolOK, WorkerShape, EntryTyped, EntryIsWorker, Held, InBox, Busy
<1>3. ASSUME NEW w \in Worker, Adds(w, c, b), entry[c] = w, life[w] \notin {"unborn", "gone"},
             UNCHANGED <<entry, life, home>>
      PROVE  PoolOK'
  <2>1. WorkerShape' /\ box' \in [Worker -> Seq(Bundle)] /\ turn' \in [Worker -> Bundle]
    BY <1>1, <1>3 DEF PoolOK
  <2>2. QED
    BY <1>3, <2>1 DEF PoolOK, EntryTyped, EntryIsWorker
<1>4. ASSUME NEW w \in Worker, Adds(w, c, b), life[w] = "unborn",
             entry[c] = 0 \/ life[entry[c]] = "gone",
             entry' = [entry EXCEPT ![c] = w], life' = [life EXCEPT ![w] = "idle"],
             home' = [home EXCEPT ![w] = c]
      PROVE  PoolOK'
  <2>1. life' \in [Worker -> Life] /\ home' \in [Worker -> Chats] /\ entry' \in [Chats -> 0 .. MaxWorkers]
    BY <1>4 DEF PoolOK, Life, Worker
  <2>2. WorkerShape' /\ box' \in [Worker -> Seq(Bundle)] /\ turn' \in [Worker -> Bundle]
    BY <1>1, <1>4, <2>1 DEF PoolOK
  <2>3. EntryTyped'
    BY <1>4, <2>1 DEF PoolOK, EntryTyped, Worker
  <2>4. EntryIsWorker'
    <3> SUFFICES ASSUME NEW v \in Worker, life'[v] \notin {"unborn", "gone"}
                 PROVE  entry'[home'[v]] = v
      BY DEF EntryIsWorker
    <3>1. CASE v = w
      BY <1>4, <3>1 DEF PoolOK
    <3>2. CASE v # w
      <4>1. life[v] \notin {"unborn", "gone"} /\ home'[v] = home[v] /\ entry[home[v]] = v
        BY <1>4, <3>2 DEF PoolOK, EntryIsWorker
      <4>2. home[v] # c
        BY <1>4, <4>1, Constants DEF PoolOK
      <4>3. QED
        BY <1>4, <4>1, <4>2 DEF PoolOK
    <3>3. QED
      BY <3>1, <3>2
  <2>5. QED
    BY <2>1, <2>2, <2>3, <2>4 DEF PoolOK
<1>5. QED
  BY <1>2, <1>3, <1>4, RouteCases

(* The end of a worker, by the reaper or on its own; its entry may already *)
(* be cleared.                                                             *)
LEMMA PoolDrop ==
  ASSUME PoolOK, NEW w \in Worker, life[w] # "unborn", life' = [life EXCEPT ![w] = "gone"],
         box' = [box EXCEPT ![w] = <<>>], turn' = [turn EXCEPT ![w] = NoWork], UNCHANGED home,
         entry' = entry \/ (entry' = [entry EXCEPT ![home[w]] = 0] /\ entry[home[w]] = w)
  PROVE  PoolOK'
<1> USE Constants
<1>1. /\ entry' \in [Chats -> 0 .. MaxWorkers] /\ life' \in [Worker -> Life]
      /\ home' \in [Worker -> Chats] /\ box' \in [Worker -> Seq(Bundle)]
      /\ turn' \in [Worker -> Bundle]
  <2>1. entry' \in [Chats -> 0 .. MaxWorkers]
    <3>1. CASE entry' = entry
      BY <3>1 DEF PoolOK
    <3>2. CASE entry' = [entry EXCEPT ![home[w]] = 0]
      BY <3>2 DEF PoolOK
    <3>3. QED
      BY <3>1, <3>2
  <2>2. life' \in [Worker -> Life] /\ home' \in [Worker -> Chats]
    BY DEF PoolOK, Life
  <2>3. box' \in [Worker -> Seq(Bundle)] /\ turn' \in [Worker -> Bundle]
    BY DEF PoolOK
  <2>4. QED
    BY <2>1, <2>2, <2>3
<1>2. WorkerShape'
  <2>1. /\ box'[w] = <<>> /\ turn'[w].ids = {} /\ life'[w] = "gone"
        /\ Held(w)' = {}
    BY DEF PoolOK, Held, InBox
  <2>2. \A v \in Worker \ {w} : /\ box'[v] = box[v] /\ turn'[v] = turn[v] /\ life'[v] = life[v]
                                /\ Held(v)' = Held(v)
    BY DEF PoolOK, Held, InBox
  <2>3. Len(box'[w]) <= CAP
    BY <2>1
  <2>4. QED
    BY <2>1, <2>2, <2>3 DEF PoolOK, WorkerShape, Busy
<1>3. \A c \in Chats : entry'[c] = entry[c] \/ (entry'[c] = 0 /\ c = home[w] /\ entry[c] = w)
  BY DEF PoolOK
<1>4. \A v \in Worker : life'[v] = IF v = w THEN "gone" ELSE life[v]
  BY DEF PoolOK
<1>5. EntryTyped'
  <2> SUFFICES ASSUME NEW c \in Chats, entry'[c] # 0
               PROVE  home'[entry'[c]] = c /\ life'[entry'[c]] # "unborn"
    BY DEF EntryTyped
  <2>1. entry'[c] = entry[c] /\ entry[c] \in Worker
    BY <1>3 DEF PoolOK, Worker
  <2>2. QED
    BY <1>4, <2>1 DEF PoolOK, EntryTyped
<1>6. EntryIsWorker'
  BY <1>3, <1>4 DEF PoolOK, EntryIsWorker
<1>7. QED
  BY <1>1, <1>2, <1>5, <1>6 DEF PoolOK

LEMMA PoolStep == Shape /\ [Next]_vars => PoolOK'
<1> SUFFICES ASSUME Shape, [Next]_vars PROVE PoolOK'
  OBVIOUS
<1>0. EventsOK /\ BufferOK /\ PoolOK
  BY ShapeParts
<1> USE Constants
<1>1. CASE ReapExit
  <2>1. PICK c \in Chats : c = Head(exits)
    BY <1>0, <1>1 DEF ReapExit, EventsOK
  <2>2. entry' = [entry EXCEPT ![c] = 0] /\ UNCHANGED home
    BY <1>1, <2>1 DEF ReapExit
  <2>3. CASE entry[c] = 0
    <3>1. UNCHANGED <<life, box, turn>> /\ entry' = entry
      BY <1>0, <1>1, <2>1, <2>2, <2>3 DEF ReapExit, PoolOK
    <3>2. QED
      BY <1>0, <2>2, <3>1 DEF PoolOK, WorkerShape, EntryTyped, EntryIsWorker, Held, InBox, Busy
  <2>4. CASE entry[c] # 0
    <3>1. PICK w \in Worker : w = entry[c]
      BY <1>0, <2>4 DEF PoolOK, Worker
    <3>2. /\ life' = [life EXCEPT ![w] = "gone"] /\ box' = [box EXCEPT ![w] = <<>>]
          /\ turn' = [turn EXCEPT ![w] = NoWork]
      BY <1>1, <2>1, <2>4, <3>1 DEF ReapExit
    <3>3. home[w] = c /\ life[w] # "unborn"
      BY <1>0, <2>4, <3>1 DEF PoolOK, EntryTyped
    <3>4. QED
      BY <1>0, <2>2, <3>1, <3>2, <3>3, PoolDrop
  <2>5. QED
    BY <2>3, <2>4
<1>2. CASE Flush
  <2>1. /\ held.msg \in Msgs /\ held.ids \subseteq Msgs
        /\ \A m \in held.ids : KeyOf[m] = KeyOf[held.msg]
    BY <1>0, <1>2 DEF Flush, EventsOK, HeldShape
  <2> DEFINE b == [ids |-> held.ids, base |-> held.msg]
             c == ChatOf[KeyOf[held.msg]]
  <2>2. b \in Bundle /\ b.ids = held.ids /\ c \in Chats
    BY <2>1 DEF Bundle
  <2>3. RouteToChatWorker(c, b)
    BY <1>2 DEF Flush
  <2>4. \A m \in b.ids : ChatOf[KeyOf[m]] = c
    BY <2>1
  <2> HIDE DEF b, c
  <2>5. QED
    BY <1>0, <2>2, <2>3, <2>4, PoolRoute
<1>3. CASE Ingest
  <2>1. held.msg \in Msgs
    BY <1>0 DEF EventsOK
  <2>2. CASE RouteAtOnce(held.msg)
    <3> DEFINE b == [ids |-> {held.msg}, base |-> held.msg]
               c == ChatOf[KeyOf[held.msg]]
    <3>1. b \in Bundle /\ b.ids = {held.msg} /\ c \in Chats
      BY <2>1 DEF Bundle
    <3>2. RouteToChatWorker(c, b)
      BY <2>2 DEF RouteAtOnce
    <3>3. \A m \in b.ids : ChatOf[KeyOf[m]] = c
      BY <3>1
    <3> HIDE DEF b, c
    <3>4. QED
      BY <1>0, <3>1, <3>2, <3>3, PoolRoute
  <2>3. CASE UNCHANGED pool
    BY <1>0, <2>3 DEF pool, PoolOK, WorkerShape, EntryTyped, EntryIsWorker, Held, InBox, Busy
  <2>4. QED
    BY <1>3, <2>2, <2>3 DEF Ingest, Merge, CancelBuffer
<1>4. CASE HandleRecall
  <2>1. UNCHANGED <<entry, home, box, turn>>
    BY <1>4 DEF HandleRecall
  <2>2. /\ life' \in [Worker -> Life]
        /\ \A w \in Worker : life'[w] = life[w] \/ (life[w] = "running" /\ life'[w] = "aborting")
    <3> DEFINE m == Head(inbox).msg
    <3>1. CASE UNCHANGED life
      BY <1>0, <3>1 DEF PoolOK
    <3>2. CASE life' = [w \in Worker |->
                 IF life[w] = "running" /\ turn[w].base = m THEN "aborting" ELSE life[w]]
      BY <1>0, <3>2 DEF PoolOK, Life
    <3>3. QED
      BY <1>4, <3>1, <3>2 DEF HandleRecall
  <2>3. \A w \in Worker : Held(w)' = Held(w) /\ Busy(w)' = Busy(w)
    BY <2>1, <2>2 DEF Held, InBox, Busy
  <2>4. WorkerShape'
    BY <1>0, <2>1, <2>2, <2>3 DEF PoolOK, WorkerShape
  <2>5. EntryIsWorker'
    BY <1>0, <2>1, <2>2 DEF PoolOK, EntryIsWorker
  <2>6. EntryTyped'
    <3>1. \A c \in Chats : entry[c] # 0 => entry[c] \in Worker
      BY <1>0 DEF PoolOK, Worker
    <3>2. QED
      BY <1>0, <2>1, <2>2, <3>1 DEF PoolOK, EntryTyped
  <2>7. QED
    BY <1>0, <2>1, <2>2, <2>4, <2>5, <2>6 DEF PoolOK
<1>5. ASSUME NEW w \in Worker, WorkerTakes(w) PROVE PoolOK'
  <2>1. box[w] \in Seq(Bundle) /\ box[w] # <<>> /\ Len(box[w]) <= CAP /\ Len(box[w]) \in Nat
    BY <1>0, <1>5 DEF WorkerTakes, PoolOK, WorkerShape
  <2>2. PICK s, t : s = Tail(box[w]) /\ t = Head(box[w])
    OBVIOUS
  <2>3. /\ s \in Seq(Bundle) /\ t \in Bundle /\ Len(s) <= CAP /\ t.ids \cup Ids(s) \subseteq Held(w)
    <3>1. Len(s) = Len(box[w]) - 1 /\ s \in Seq(Bundle) /\ t \in Bundle
          /\ t.ids \cup Ids(s) = Ids(box[w])
      BY <2>1, <2>2, IdsTail
    <3>2. QED
      BY <2>1, <3>1, InBoxIds
  <2>4. /\ life' = [life EXCEPT ![w] = "starting"] /\ box' = [box EXCEPT ![w] = s]
        /\ turn' = [turn EXCEPT ![w] = t] /\ UNCHANGED <<entry, home>> /\ life[w] = "idle"
    BY <1>5, <2>2 DEF WorkerTakes
  <2>5. QED
    BY <1>0, <2>3, <2>4, PoolWorker DEF Life
<1>6. ASSUME NEW w \in Worker, NEW l \in Life \ {"unborn", "gone"}, NEW t \in {turn[w], NoWork},
             life' = [life EXCEPT ![w] = l], turn' = [turn EXCEPT ![w] = t],
             UNCHANGED <<entry, home, box>>, life[w] \notin {"unborn", "gone"},
             Busy(w) => l \in {"starting", "running", "aborting", "replying"} \/ t = NoWork
      PROVE  PoolOK'
  <2>1. /\ box[w] \in Seq(Bundle) /\ Len(box[w]) <= CAP /\ turn[w] \in Bundle
        /\ box' = [box EXCEPT ![w] = box[w]]
    BY <1>0, <1>6 DEF PoolOK, WorkerShape
  <2>2. t \in Bundle /\ t.ids \cup Ids(box[w]) \subseteq Held(w)
    BY <1>6, <2>1, InBoxIds
  <2>3. l \notin {"starting", "running", "aborting", "replying"} => t.ids = {}
    BY <1>0, <1>6 DEF PoolOK, WorkerShape
  <2>4. QED
    BY <1>0, <1>6, <2>1, <2>2, <2>3, PoolWorker
<1>7. ASSUME NEW w \in Worker, TurnStarts(w) \/ TurnEnds(w) PROVE PoolOK'
  <2>1. PICK l \in {"running", "replying"} : life' = [life EXCEPT ![w] = l]
    BY <1>7 DEF TurnStarts, TurnEnds
  <2>2. UNCHANGED <<entry, home, box, turn>> /\ life[w] \notin {"unborn", "gone"}
    BY <1>7 DEF TurnStarts, TurnEnds
  <2>3. turn' = [turn EXCEPT ![w] = turn[w]]
    BY <1>0, <2>2 DEF PoolOK
  <2>4. QED
    BY <1>6, <2>1, <2>2, <2>3 DEF Life
<1>8. ASSUME NEW w \in Worker, Replied(w) PROVE PoolOK'
  BY <1>6, <1>8 DEF Replied, Life
<1>9. ASSUME NEW w \in Worker, WorkerIdles(w) PROVE PoolOK'
  <2>1. turn' = [turn EXCEPT ![w] = turn[w]]
    BY <1>0, <1>9 DEF PoolOK, WorkerIdles
  <2>2. QED
    BY <1>6, <1>9, <2>1 DEF WorkerIdles, Life, Busy
<1>10. ASSUME NEW w \in Worker, WorkerLeaves(w) \/ WorkerPanics(w) PROVE PoolOK'
  <2>1. life[w] # "unborn"
    BY <1>10 DEF WorkerLeaves, WorkerPanics, Busy
  <2>2. QED
    <3>1. DropWorker(w)
      BY <1>10 DEF WorkerLeaves, WorkerPanics
    <3>2. QED
      BY <1>0, <2>1, <3>1, PoolDrop DEF DropWorker
<1>11. CASE Restart
  <2>1. /\ entry' \in [Chats -> 0 .. MaxWorkers] /\ life' \in [Worker -> Life]
        /\ home' \in [Worker -> Chats] /\ box' \in [Worker -> Seq(Bundle)]
        /\ turn' \in [Worker -> Bundle]
    BY <1>0, <1>11 DEF Restart, PoolOK, Life
  <2>2. EntryTyped' /\ EntryIsWorker'
    BY <1>11 DEF Restart, EntryTyped, EntryIsWorker
  <2>3. WorkerShape'
    <3>1. \A w \in Worker : box'[w] = <<>> /\ turn'[w].ids = {} /\ Held(w)' = {}
      BY <1>11 DEF Restart, Held, InBox
    <3>2. QED
      BY <3>1 DEF WorkerShape
  <2>4. QED
    BY <2>1, <2>2, <2>3 DEF PoolOK
<1>12. CASE UNCHANGED pool
  BY <1>0, <1>12 DEF pool, PoolOK, WorkerShape, EntryTyped, EntryIsWorker, Held, InBox, Busy
<1>13. QED
  BY <1>1, <1>2, <1>3, <1>4, <1>5, <1>7, <1>8, <1>9, <1>10, <1>11, <1>12
     DEF Next, DispatcherStep, WorkerStep, Deliver, Recall, OnTimeout, Receive, Prelude,
         TimerFires, vars

LEMMA ShapeStep == Shape /\ [Next]_vars => Shape'
BY EventsStep, BufferStep, PoolStep, HistoryStep, ShapeParts, PTL

(* The dispatcher's state stays in its declared ranges and a map entry     *)
(* names a worker of its own chat, through every interleaving of routing,  *)
(* reaping, recall, panic and restart.                                     *)
THEOREM ShapeHolds == Spec => []Shape
<1>1. Init => Shape
  BY ShapeInit
<1>2. Shape /\ [Next]_vars => Shape'
  BY ShapeStep
<1>3. QED
  BY <1>1, <1>2, PTL DEF Spec

THEOREM TypeCorrect == Spec => []TypeOK
<1>1. Shape => TypeOK
  BY DEF Shape
<1>2. QED
  BY <1>1, ShapeHolds, PTL

(* Two turns of one chat never overlap (dispatch.rs: one worker per chat), *)
(* although a chat has several workers over time: a worker that is not     *)
(* gone is the one the chat's entry names.                                 *)
THEOREM OneTurnPerChat == Spec => []SerialPerChat
<1>1. Shape => SerialPerChat
  BY DEF Shape, EntryIsWorker, SerialPerChat, Busy
<1>2. QED
  BY <1>1, ShapeHolds, PTL

-----------------------------------------------------------------------------
(* The copies of a message, the place it is in and the order of execution, *)
(* on top of the shape of the state.                                       *)

(* A copy of a message is made when it passes the dedup probe: once by     *)
(* recording it, and once more for every probe that fails.  Copies are     *)
(* merged or lost, never multiplied, until a turn starts with them.        *)
Copies(m) ==
  /\ runs[m] + Waiting(m) <= lapses + (IF m \in recorded THEN 1 ELSE 0)
  /\ Cardinality(Turning(m)) <= runs[m]

CopiesBounded == \A m \in Msgs : Copies(m)

(* An open message is somewhere.                                           *)
Somewhere(m) ==
  \/ InHand(m) \/ m \in buffer[KeyOf[m]].ids
  \/ \E w \in Worker : m \in Held(w)

OpenIsSomewhere == \A m \in Msgs : arrival[m] # 0 /\ fate[m] = "open" => Somewhere(m)

(* Arrivals are numbered as they come; while no probe has failed, what has *)
(* arrived is recorded, so that no message arrives twice.                  *)
Arrived == {m \in Msgs : arrival[m] # 0}
ArrivalsCount == \A m \in Msgs : arrival[m] <= Cardinality(Arrived)

ArrivedIsRecorded == lapses = 0 => \A m \in Msgs : arrival[m] # 0 => m \in recorded

(* KeyFifo without stage numbers: of two messages of one key, the later    *)
(* one is in no place behind which the earlier one still is.               *)
Assembling(m) == held.step = "assemble" /\ m = held.msg
Buffered(m)   == m \in buffer[KeyOf[m]].ids
At(m, w, i)   == i \in DOMAIN box[w] /\ m \in box[w][i].ids
Boxed(m)      == \E w \in Worker : \E i \in Nat : At(m, w, i)
InTurn(m)     == \E w \in Worker : m \in turn[w].ids

Follows(m, n) ==
  m \in Ordered /\ n \in Ordered /\ KeyOf[m] = KeyOf[n] /\ arrival[m] < arrival[n]

NotOvertaken(m, n) ==
  /\ ~Assembling(m)
  /\ Buffered(m) => n \notin Flushing /\ ~Boxed(n) /\ ~InTurn(n)
  /\ m \in Flushing => ~Boxed(n) /\ ~InTurn(n)
  /\ Boxed(m) => ~InTurn(n)
  /\ \A w \in Worker : \A i, j \in Nat : At(m, w, i) /\ At(n, w, j) => i <= j

OrderKept == lapses = 0 => \A m, n \in Msgs : Follows(m, n) => NotOvertaken(m, n)

IInv ==
  /\ Shape /\ CopiesBounded /\ BufferHasTimer /\ OpenIsSomewhere
  /\ ArrivalsCount /\ ArrivedIsRecorded /\ OrderKept

-----------------------------------------------------------------------------
(* Counting mailbox entries that hold a message.                           *)

LEMMA MailedFinite ==
  ASSUME NEW m
  PROVE  /\ IsFiniteSet(Mailed(m)) /\ Cardinality(Mailed(m)) \in Nat
         /\ IsFiniteSet(Mailed(m)') /\ Cardinality(Mailed(m)') \in Nat
<1>1. IsFiniteSet(Worker) /\ IsFiniteSet(1 .. CAP)
  <2>1. \A n \in Nat : IsFiniteSet(1 .. n)
    BY FS_Interval
  <2>2. QED
    BY <2>1, Constants DEF Worker
<1>2. IsFiniteSet(Worker \X (1 .. CAP))
  BY <1>1, FS_Product
<1>3. /\ Mailed(m) \in SUBSET (Worker \X (1 .. CAP))
      /\ Mailed(m)' \in SUBSET (Worker \X (1 .. CAP))
  BY DEF Mailed
<1>4. IsFiniteSet(Mailed(m)) /\ IsFiniteSet(Mailed(m)')
  BY <1>2, <1>3, FS_Subset
<1>5. QED
  BY <1>4, FS_CardinalityType

LEMMA MailedFrame ==
  ASSUME UNCHANGED box, NEW m PROVE Mailed(m)' = Mailed(m)
BY DEF Mailed

LEMMA MailedLess ==
  ASSUME PoolOK, NEW m, \A w \in Worker : box'[w] = box[w] \/ box'[w] = <<>>
  PROVE  Mailed(m)' \subseteq Mailed(m) /\ Cardinality(Mailed(m)') <= Cardinality(Mailed(m))
<1>1. Mailed(m)' \subseteq Mailed(m)
  <2> SUFFICES ASSUME NEW p \in Worker \X (1 .. CAP), p[2] <= Len(box'[p[1]]),
                      m \in box'[p[1]][p[2]].ids
               PROVE  p[2] <= Len(box[p[1]]) /\ m \in box[p[1]][p[2]].ids
    BY DEF Mailed
  <2>1. p[1] \in Worker /\ p[2] \in 1 .. CAP
    OBVIOUS
  <2>2. box'[p[1]] # <<>>
    BY <2>1, Constants
  <2>3. QED
    BY <2>1, <2>2
<1>2. QED
  BY <1>1, MailedFinite, FS_Subset

LEMMA MailedAdd ==
  ASSUME PoolOK, NEW m, NEW w \in Worker, NEW b \in Bundle, Len(box[w]) < CAP,
         box' = [box EXCEPT ![w] = Append(box[w], b)]
  PROVE  Cardinality(Mailed(m)') <= Cardinality(Mailed(m)) + (IF m \in b.ids THEN 1 ELSE 0)
<1> DEFINE last == <<w, Len(box[w]) + 1>>
<1>1. box[w] \in Seq(Bundle) /\ Len(box[w]) \in Nat
  BY DEF PoolOK
<1>2. /\ box'[w] = Append(box[w], b) /\ Len(box'[w]) = Len(box[w]) + 1
      /\ box'[w][Len(box[w]) + 1] = b /\ \A i \in 1 .. Len(box[w]) : box'[w][i] = box[w][i]
      /\ \A v \in Worker \ {w} : box'[v] = box[v]
  BY <1>1 DEF PoolOK
<1>3. ASSUME NEW p \in Mailed(m)' PROVE p \in Mailed(m) \/ (p = last /\ m \in b.ids)
  <2>1. /\ p \in Worker \X (1 .. CAP) /\ p[2] <= Len(box'[p[1]])
        /\ m \in box'[p[1]][p[2]].ids
    BY <1>3 DEF Mailed
  <2>2. p[1] \in Worker /\ p[2] \in 1 .. CAP /\ p = <<p[1], p[2]>> /\ p[2] \in Nat
    BY <2>1, Constants
  <2>3. CASE p[1] # w
    BY <1>2, <2>1, <2>2, <2>3 DEF Mailed
  <2>4. CASE p[1] = w /\ p[2] # Len(box[w]) + 1
    <3>1. p[2] \in 1 .. Len(box[w])
      BY <1>1, <1>2, <2>1, <2>2, <2>4
    <3>2. QED
      BY <1>2, <2>1, <2>2, <2>4, <3>1 DEF Mailed
  <2>5. CASE p[1] = w /\ p[2] = Len(box[w]) + 1
    BY <1>2, <2>1, <2>2, <2>5
  <2>6. QED
    BY <2>3, <2>4, <2>5
<1> HIDE DEF last
<1>4. CASE m \in b.ids
  <2>1. Mailed(m)' \in SUBSET (Mailed(m) \cup {last})
    BY <1>3
  <2>2. /\ IsFiniteSet(Mailed(m) \cup {last})
        /\ Cardinality(Mailed(m) \cup {last}) <= Cardinality(Mailed(m)) + 1
    <3>1. PICK S : S = Mailed(m) /\ IsFiniteSet(S) /\ Cardinality(S) \in Nat
      BY MailedFinite
    <3>2. PICK n : n = Cardinality(S \cup {last})
      OBVIOUS
    <3>3. /\ IsFiniteSet(S \cup {last})
          /\ n = IF last \in S THEN Cardinality(S) ELSE Cardinality(S) + 1
      BY <3>1, <3>2, FS_AddElement, Zenon
    <3>4. n <= Cardinality(S) + 1
      BY <3>1, <3>3
    <3>5. QED
      BY <3>1, <3>2, <3>3, <3>4
  <2>3. Cardinality(Mailed(m)') <= Cardinality(Mailed(m) \cup {last})
        /\ Cardinality(Mailed(m)') \in Nat
    BY <2>1, <2>2, FS_Subset, FS_CardinalityType
  <2>4. Cardinality(Mailed(m) \cup {last}) \in Nat
    BY <2>2, FS_CardinalityType
  <2>5. QED
    BY <1>4, <2>2, <2>3, <2>4, MailedFinite
<1>5. CASE m \notin b.ids
  <2>1. Mailed(m)' \in SUBSET Mailed(m)
    BY <1>3, <1>5
  <2>2. QED
    BY <1>5, <2>1, MailedFinite, FS_Subset
<1>6. QED
  BY <1>4, <1>5

LEMMA MailedTake ==
  ASSUME PoolOK, NEW m, NEW w \in Worker, box[w] # <<>>, box' = [box EXCEPT ![w] = Tail(box[w])]
  PROVE  Cardinality(Mailed(m)') + (IF m \in Head(box[w]).ids THEN 1 ELSE 0)
           <= Cardinality(Mailed(m))
<1> DEFINE T == Mailed(m) \ {<<w, 1>>}
           f == [p \in Mailed(m)' |-> IF p[1] = w THEN <<w, p[2] + 1>> ELSE p]
<1>1. /\ box[w] \in Seq(Bundle) /\ Len(box[w]) \in Nat \ {0} /\ Len(box[w]) <= CAP
      /\ Head(box[w]) = box[w][1]
  BY DEF PoolOK, WorkerShape
<1>2. /\ box'[w] = Tail(box[w]) /\ Len(box'[w]) = Len(box[w]) - 1
      /\ \A i \in 1 .. (Len(box[w]) - 1) : box'[w][i] = box[w][i + 1]
      /\ \A v \in Worker \ {w} : box'[v] = box[v]
  BY <1>1 DEF PoolOK
<1>3. ASSUME NEW p \in Mailed(m)'
      PROVE  /\ p[1] \in Worker /\ p[2] \in Nat \ {0} /\ p = <<p[1], p[2]>>
             /\ f[p] \in T
  <2>1. /\ p \in Worker \X (1 .. CAP) /\ p[2] <= Len(box'[p[1]])
        /\ m \in box'[p[1]][p[2]].ids
    BY <1>3 DEF Mailed
  <2>2. p[1] \in Worker /\ p[2] \in 1 .. CAP /\ p = <<p[1], p[2]>> /\ p[2] \in Nat \ {0}
    BY <2>1, Constants
  <2>3. CASE p[1] = w
    <3>1. p[2] \in 1 .. (Len(box[w]) - 1) /\ p[2] + 1 \in 1 .. CAP /\ p[2] + 1 <= Len(box[w])
      BY <1>1, <1>2, <2>1, <2>2, <2>3, Constants
    <3>2. m \in box[w][p[2] + 1].ids
      BY <1>2, <2>1, <2>3, <3>1
    <3>3. <<w, p[2] + 1>> \in Mailed(m)
      BY <3>1, <3>2 DEF Mailed
    <3>4. <<w, p[2] + 1>> # <<w, 1>>
      BY <2>2
    <3>5. f[p] = <<w, p[2] + 1>>
      BY <1>3, <2>3
    <3>6. QED
      BY <2>2, <3>3, <3>4, <3>5
  <2>4. CASE p[1] # w
    <3>1. f[p] = p
      BY <1>3, <2>4
    <3>2. p \in Mailed(m)
      BY <1>2, <2>1, <2>2, <2>4 DEF Mailed
    <3>3. QED
      BY <2>2, <2>4, <3>1, <3>2
  <2>5. QED
    BY <2>3, <2>4
<1>4. ASSUME NEW p \in Mailed(m)', NEW q \in Mailed(m)', f[p] = f[q] PROVE p = q
  <2>1. /\ p[1] \in Worker /\ p[2] \in Nat \ {0} /\ p = <<p[1], p[2]>>
        /\ q[1] \in Worker /\ q[2] \in Nat \ {0} /\ q = <<q[1], q[2]>>
    BY <1>3
  <2>2. /\ f[p] = IF p[1] = w THEN <<w, p[2] + 1>> ELSE p
        /\ f[q] = IF q[1] = w THEN <<w, q[2] + 1>> ELSE q
    OBVIOUS
  <2> HIDE DEF f
  <2>3. p[1] = f[p][1] /\ q[1] = f[q][1]
    BY <2>1, <2>2
  <2>4. CASE p[1] = w
    <3>1. <<w, p[2] + 1>> = <<w, q[2] + 1>>
      BY <1>4, <2>2, <2>3, <2>4
    <3>2. p[2] = q[2]
      BY <2>1, <3>1
    <3>3. QED
      BY <1>4, <2>1, <2>3, <3>2
  <2>5. CASE p[1] # w
    BY <1>4, <2>2, <2>3, <2>5
  <2>6. QED
    BY <2>4, <2>5
<1>5. f \in Injection(Mailed(m)', T)
  <2>1. f \in [Mailed(m)' -> T]
    BY <1>3
  <2>2. \A p, q \in Mailed(m)' : f[p] = f[q] => p = q
    BY <1>4
  <2> HIDE DEF f, T
  <2>3. QED
    BY <2>1, <2>2, Fun_IsInj
<1>6. /\ IsFiniteSet(T)
      /\ Cardinality(T) = IF <<w, 1>> \in Mailed(m) THEN Cardinality(Mailed(m)) - 1
                                                    ELSE Cardinality(Mailed(m))
  BY MailedFinite, FS_RemoveElement
<1>7. <<w, 1>> \in Mailed(m) <=> m \in Head(box[w]).ids
  BY <1>1, Constants DEF Mailed
<1> HIDE DEF f, T
<1>8. Cardinality(Mailed(m)') <= Cardinality(T) /\ Cardinality(Mailed(m)') \in Nat
  BY <1>5, <1>6, FS_Injection, FS_CardinalityType
<1>9. QED
  BY <1>6, <1>7, <1>8, MailedFinite

LEMMA MailedRoute ==
  ASSUME PoolOK, NEW m, NEW c \in Chats, NEW b \in Bundle, RouteToChatWorker(c, b)
  PROVE  Cardinality(Mailed(m)') <= Cardinality(Mailed(m)) + (IF m \in b.ids THEN 1 ELSE 0)
<1>1. CASE UNCHANGED pool
  BY <1>1, MailedFrame, MailedFinite DEF pool
<1>2. ASSUME NEW w \in Worker, Adds(w, c, b)
      PROVE  Cardinality(Mailed(m)') <= Cardinality(Mailed(m)) + (IF m \in b.ids THEN 1 ELSE 0)
  BY <1>2, MailedAdd DEF Adds
<1>3. QED
  BY <1>1, <1>2, RouteCases

LEMMA TurningFinite ==
  ASSUME NEW m
  PROVE  /\ IsFiniteSet(Turning(m)) /\ Cardinality(Turning(m)) \in Nat
         /\ IsFiniteSet(Turning(m)') /\ Cardinality(Turning(m)') \in Nat
<1>1. IsFiniteSet(Worker)
  <2>1. \A n \in Nat : IsFiniteSet(1 .. n)
    BY FS_Interval
  <2>2. QED
    BY <2>1, Constants DEF Worker
<1>2. Turning(m) \in SUBSET Worker /\ Turning(m)' \in SUBSET Worker
  BY DEF Turning
<1>3. IsFiniteSet(Turning(m)) /\ IsFiniteSet(Turning(m)')
  BY <1>1, <1>2, FS_Subset
<1>4. QED
  BY <1>3, FS_CardinalityType

LEMMA TurningLess ==
  ASSUME NEW m, \A w \in Worker : turn'[w] = turn[w] \/ turn'[w].ids = {}
  PROVE  Cardinality(Turning(m)') <= Cardinality(Turning(m))
<1>1. Turning(m)' \in SUBSET Turning(m)
  BY DEF Turning
<1>2. QED
  BY <1>1, TurningFinite, FS_Subset

LEMMA TurningTake ==
  ASSUME NEW m, NEW w \in Worker, NEW b, turn' = [turn EXCEPT ![w] = b], turn \in [Worker -> Bundle]
  PROVE  Cardinality(Turning(m)') <= Cardinality(Turning(m)) + (IF m \in b.ids THEN 1 ELSE 0)
<1>0. PICK S : S = Turning(m) /\ IsFiniteSet(S) /\ Cardinality(S) \in Nat
  BY TurningFinite
<1>1. CASE m \notin b.ids
  <2>1. Turning(m)' \in SUBSET S
    BY <1>0, <1>1 DEF Turning
  <2>2. QED
    BY <1>0, <1>1, <2>1, FS_Subset
<1>2. CASE m \in b.ids
  <2>1. PICK n : n = Cardinality(S \cup {w})
    OBVIOUS
  <2>2. /\ IsFiniteSet(S \cup {w})
        /\ n = IF w \in S THEN Cardinality(S) ELSE Cardinality(S) + 1
    BY <1>0, <2>1, FS_AddElement, Zenon
  <2>3. n <= Cardinality(S) + 1 /\ n \in Nat
    BY <1>0, <2>2
  <2>4. Turning(m)' \in SUBSET (S \cup {w})
    BY <1>0 DEF Turning
  <2>5. Cardinality(Turning(m)') <= n /\ Cardinality(Turning(m)') \in Nat
    BY <2>1, <2>2, <2>4, FS_Subset, FS_CardinalityType
  <2>6. QED
    BY <1>0, <1>2, <2>3, <2>5
<1>3. QED
  BY <1>1, <1>2

-----------------------------------------------------------------------------
(* Copies: only the dedup probe makes one, only a turn uses one up.        *)

LEMMA WaitingType == ASSUME NEW m PROVE Waiting(m) \in Nat /\ Waiting(m)' \in Nat
<1>1. Cardinality(Mailed(m)) \in Nat /\ Cardinality(Mailed(m)') \in Nat
  BY MailedFinite
<1>2. QED
  BY <1>1 DEF Waiting

LEMMA CopiesKept ==
  ASSUME Shape, Shape', NEW m \in Msgs, Copies(m), runs'[m] = runs[m],
         Waiting(m)' <= Waiting(m), Cardinality(Turning(m)') <= Cardinality(Turning(m)),
         lapses' = lapses, recorded' = recorded
  PROVE  Copies(m)'
<1>1. /\ runs[m] \in Nat /\ lapses \in Nat
      /\ Cardinality(Turning(m)) \in Nat /\ Cardinality(Turning(m)') \in Nat
  <2>1. HistoryOK
    BY ShapeParts
  <2>2. QED
    BY <2>1, TurningFinite DEF HistoryOK
<1>2. Waiting(m) \in Nat /\ Waiting(m)' \in Nat
  BY WaitingType
<1>3. QED
  BY <1>1, <1>2 DEF Copies

(* Where the event in hand goes.                                           *)
LEMMA TimeoutMoves ==
  ASSUME Shape, NEW m \in Msgs, OnTimeout
  PROVE  /\ ~InHand(m)
         /\ InHand(m)' => m \in buffer[KeyOf[m]].ids /\ m \notin buffer'[KeyOf[m]].ids
         /\ m \in buffer'[KeyOf[m]].ids => m \in buffer[KeyOf[m]].ids
         /\ m \in buffer[KeyOf[m]].ids => InHand(m)' \/ m \in buffer'[KeyOf[m]].ids
<1> USE Constants
<1>0. BufferOK
  BY ShapeParts
<1>1. ~InHand(m)
  BY DEF OnTimeout, Selecting, InHand
<1>2. PICK k \in Keys : k = Head(fired).key
  <2>1. Head(fired) \in Timer
    BY <1>0 DEF OnTimeout, BufferOK
  <2>2. QED
    BY <2>1 DEF Timer
<1>3. CASE UNCHANGED <<buffer, held>>
  BY <1>1, <1>3 DEF InHand
<1>4. CASE /\ buffer' = [buffer EXCEPT ![k] = Empty]
           /\ held' = [step |-> "route", msg |-> buffer[k].base, ids |-> buffer[k].ids]
  <2>1. buffer'[KeyOf[m]] = IF KeyOf[m] = k THEN Empty ELSE buffer[KeyOf[m]]
    BY <1>0, <1>4 DEF BufferOK
  <2>2. m \in buffer[k].ids => KeyOf[m] = k
    BY <1>0, <1>2 DEF BufferOK, BufferShape
  <2>3. InHand(m)' <=> m \in buffer[k].ids
    BY <1>4 DEF InHand
  <2>4. QED
    BY <1>1, <2>1, <2>2, <2>3
<1>5. QED
  BY <1>2, <1>3, <1>4 DEF OnTimeout

LEMMA MergeIds ==
  ASSUME Shape, NEW m \in Msgs, NEW n \in Msgs, Merge(n)
  PROVE  m \in buffer'[KeyOf[m]].ids <=> m = n \/ m \in buffer[KeyOf[m]].ids
<1>0. BufferOK /\ KeyOf[n] \in Keys
  BY ShapeParts, Constants
<1> DEFINE p == buffer[KeyOf[n]]
           new == [ids   |-> p.ids \cup {n},
                   base  |-> IF p.gen = 0 \/ KindOf[n] = "text" THEN n ELSE p.base,
                   gen   |-> p.gen + 1,
                   first |-> First(n)]
<1>1. buffer' = [buffer EXCEPT ![KeyOf[n]] = new]
  BY DEF Merge
<1>2. new.ids = buffer[KeyOf[n]].ids \cup {n}
  OBVIOUS
<1> HIDE DEF new
<1>3. buffer'[KeyOf[m]] = IF KeyOf[m] = KeyOf[n] THEN new ELSE buffer[KeyOf[m]]
  BY <1>0, <1>1, Constants DEF BufferOK
<1>4. QED
  BY <1>2, <1>3

LEMMA IngestMoves ==
  ASSUME Shape, NEW m \in Msgs, Ingest
  PROVE  /\ ~InHand(m)' /\ (InHand(m) <=> m = held.msg)
         /\ \/ /\ Merge(held.msg) /\ UNCHANGED <<pool, fate>>
               /\ m \in buffer'[KeyOf[m]].ids <=> m = held.msg \/ m \in buffer[KeyOf[m]].ids
            \/ /\ CancelBuffer(held.msg) /\ UNCHANGED pool
               /\ m \in buffer'[KeyOf[m]].ids => m \in buffer[KeyOf[m]].ids
            \/ RouteAtOnce(held.msg) /\ UNCHANGED buffer
<1> USE Constants
<1>0. EventsOK /\ BufferOK /\ held.msg \in Msgs /\ KeyOf[held.msg] \in Keys
  BY ShapeParts DEF EventsOK
<1>1. ~InHand(m)'
  BY DEF Ingest, InHand
<1>2. InHand(m) <=> m = held.msg
  BY <1>0 DEF Ingest, InHand, EventsOK, HeldShape
<1>3. CASE Merge(held.msg)
  BY <1>0, <1>1, <1>2, <1>3, MergeIds DEF Merge
<1>4. CASE CancelBuffer(held.msg)
  <2>1. buffer'[KeyOf[m]] = IF KeyOf[m] = KeyOf[held.msg] THEN Empty ELSE buffer[KeyOf[m]]
    BY <1>0, <1>4 DEF CancelBuffer, BufferOK
  <2>2. m \in buffer'[KeyOf[m]].ids => m \in buffer[KeyOf[m]].ids
    BY <2>1
  <2>3. UNCHANGED pool
    BY <1>4 DEF CancelBuffer
  <2>4. QED
    BY <1>1, <1>2, <1>4, <2>2, <2>3
<1>5. CASE RouteAtOnce(held.msg)
  BY <1>1, <1>2, <1>5 DEF RouteAtOnce, assembly
<1>6. QED
  BY <1>3, <1>4, <1>5 DEF Ingest

(* What ends a worker only takes away.                                     *)
Shrinks ==
  \A w \in Worker : /\ box'[w] = box[w] \/ box'[w] = <<>>
                    /\ turn'[w] = turn[w] \/ turn'[w].ids = {}

LEMMA EndsShrink ==
  ASSUME Shape, ReapExit \/ Restart \/ \E w \in Worker : WorkerLeaves(w) \/ WorkerPanics(w)
  PROVE  Shrinks
<1> USE Constants
<1>0. EventsOK /\ PoolOK
  BY ShapeParts
<1>1. ASSUME NEW w \in Worker, box' = [box EXCEPT ![w] = <<>>], turn' = [turn EXCEPT ![w] = NoWork]
      PROVE  Shrinks
  BY <1>0, <1>1 DEF PoolOK, Shrinks
<1>2. CASE ReapExit
  <2>1. PICK c \in Chats : c = Head(exits)
    BY <1>0, <1>2 DEF ReapExit, EventsOK
  <2>2. CASE entry[c] = 0
    BY <1>2, <2>1, <2>2 DEF ReapExit, Shrinks
  <2>3. CASE entry[c] # 0
    <3>1. PICK w \in Worker : w = entry[c]
      BY <1>0, <2>3 DEF PoolOK, Worker
    <3>2. box' = [box EXCEPT ![w] = <<>>] /\ turn' = [turn EXCEPT ![w] = NoWork]
      BY <1>2, <2>1, <2>3, <3>1 DEF ReapExit
    <3>3. QED
      BY <1>1, <3>2
  <2>4. QED
    BY <2>2, <2>3
<1>3. CASE Restart
  BY <1>3 DEF Restart, Shrinks
<1>4. ASSUME NEW w \in Worker, WorkerLeaves(w) \/ WorkerPanics(w) PROVE Shrinks
  BY <1>1, <1>4 DEF WorkerLeaves, WorkerPanics, DropWorker
<1>5. QED
  BY <1>2, <1>3, <1>4

LEMMA CopiesStep == Shape /\ CopiesBounded /\ [Next]_vars => CopiesBounded'
<1> SUFFICES ASSUME Shape, CopiesBounded, [Next]_vars, NEW m \in Msgs PROVE Copies(m)'
  BY DEF CopiesBounded
<1>0. Shape' /\ Copies(m)
  BY ShapeStep DEF CopiesBounded
<1>a. EventsOK /\ BufferOK /\ PoolOK /\ HistoryOK
  BY ShapeParts
<1>b. /\ Cardinality(Mailed(m)) \in Nat /\ Cardinality(Mailed(m)') \in Nat
      /\ Cardinality(Turning(m)) \in Nat /\ Cardinality(Turning(m)') \in Nat
      /\ runs[m] \in Nat /\ lapses \in Nat
  BY <1>a, MailedFinite, TurningFinite DEF HistoryOK
<1>c. ASSUME UNCHANGED box PROVE Cardinality(Mailed(m)') = Cardinality(Mailed(m))
  BY <1>c, MailedFrame
<1>d. ASSUME UNCHANGED turn PROVE Cardinality(Turning(m)') = Cardinality(Turning(m))
  BY <1>d DEF Turning
<1>e. ASSUME UNCHANGED <<runs, lapses, recorded>>, Waiting(m)' <= Waiting(m),
             Cardinality(Turning(m)') <= Cardinality(Turning(m))
      PROVE  Copies(m)'
  BY <1>0, <1>e, CopiesKept
<1>f. ASSUME UNCHANGED <<runs, lapses, recorded, held, buffer>>, Shrinks PROVE Copies(m)'
  <2>1. Cardinality(Mailed(m)') <= Cardinality(Mailed(m))
        /\ Cardinality(Turning(m)') <= Cardinality(Turning(m))
    BY <1>a, <1>f, MailedLess, TurningLess DEF Shrinks
  <2>2. Waiting(m)' <= Waiting(m)
    BY <1>b, <1>f, <2>1 DEF Waiting, InHand
  <2>3. QED
    BY <1>e, <1>f, <2>1, <2>2
<1>1. CASE ReapExit
  BY <1>1, <1>f, EndsShrink DEF ReapExit, bounds, assembly
<1>2. CASE OnTimeout
  <2>1. UNCHANGED <<runs, lapses, recorded, box, turn>>
    BY <1>2 DEF OnTimeout, pool, history, bounds
  <2>2. Waiting(m)' <= Waiting(m)
    BY <1>2, <1>b, <1>c, <2>1, TimeoutMoves DEF Waiting
  <2>3. QED
    BY <1>b, <1>d, <1>e, <2>1, <2>2
<1>3. CASE Flush
  <2>1. UNCHANGED <<runs, lapses, recorded, buffer>>
    BY <1>3 DEF Flush, bounds, assembly
  <2> DEFINE b == [ids |-> held.ids, base |-> held.msg]
             c == ChatOf[KeyOf[held.msg]]
  <2>2. b \in Bundle /\ c \in Chats /\ RouteToChatWorker(c, b) /\ b.ids = held.ids
    BY <1>3, <1>a, Constants DEF Flush, EventsOK, Bundle
  <2> HIDE DEF b, c
  <2>3. Cardinality(Mailed(m)') <= Cardinality(Mailed(m)) + (IF m \in held.ids THEN 1 ELSE 0)
    BY <1>a, <2>2, MailedRoute
  <2>4. UNCHANGED turn
    BY <1>a, <2>2, RouteCases DEF Adds, pool
  <2>5. (InHand(m) <=> m \in held.ids) /\ ~InHand(m)'
    BY <1>3, Constants DEF Flush, InHand
  <2>6. Waiting(m)' <= Waiting(m)
    BY <1>b, <2>1, <2>3, <2>5 DEF Waiting
  <2>7. QED
    BY <1>b, <1>d, <1>e, <2>1, <2>4, <2>6
<1>4. CASE Prelude
  <2>1. UNCHANGED <<runs, buffer, box, turn>>
    BY <1>4 DEF Prelude, assembly, pool
  <2>2. ~InHand(m)
    BY <1>4 DEF Prelude, InHand
  <2>3. CASE held' = Idle /\ UNCHANGED <<recorded, lapses>>
    <3>1. ~InHand(m)'
      BY <2>3, Constants DEF InHand
    <3>2. Waiting(m)' <= Waiting(m)
      BY <1>b, <1>c, <2>1, <2>2, <3>1 DEF Waiting
    <3>3. QED
      BY <1>b, <1>d, <1>e, <2>1, <2>3, <3>2
  <2>4. CASE /\ held' = [held EXCEPT !.step = "assemble"]
             /\ \/ held.msg \notin recorded /\ recorded' = recorded \cup {held.msg} /\ lapses' = lapses
                \/ lapses' = lapses + 1 /\ recorded' = recorded
    <3>1. InHand(m)' <=> m = held.msg
      BY <1>4, <1>a, <2>4 DEF Prelude, InHand, EventsOK, HeldShape
    <3>2. Waiting(m)' = Waiting(m) + (IF m = held.msg THEN 1 ELSE 0)
      BY <1>b, <1>c, <2>1, <2>2, <3>1 DEF Waiting
    <3>3. /\ m = held.msg => lapses' + (IF m \in recorded' THEN 1 ELSE 0)
                               >= lapses + (IF m \in recorded THEN 1 ELSE 0) + 1
          /\ lapses' + (IF m \in recorded' THEN 1 ELSE 0) >= lapses + (IF m \in recorded THEN 1 ELSE 0)
          /\ lapses' \in Nat
      BY <1>b, <2>4
    <3>4. PICK x, y : /\ x = lapses + (IF m \in recorded THEN 1 ELSE 0)
                      /\ y = lapses' + (IF m \in recorded' THEN 1 ELSE 0)
      OBVIOUS
    <3>5. x \in Nat /\ y \in Nat /\ y >= x + (IF m = held.msg THEN 1 ELSE 0)
      BY <1>b, <3>3, <3>4
    <3>6. runs[m] + Waiting(m) <= x /\ Cardinality(Turning(m)) <= runs[m]
      BY <1>0, <3>4 DEF Copies
    <3>7. runs'[m] + Waiting(m)' <= y
      BY <1>b, <2>1, <3>2, <3>5, <3>6, WaitingType
    <3>8. QED
      BY <1>d, <2>1, <3>4, <3>6, <3>7 DEF Copies
  <2>5. QED
    BY <1>4, <2>3, <2>4 DEF Prelude
<1>5. CASE Ingest
  <2>1. UNCHANGED <<runs, lapses, recorded>> /\ held.msg \in Msgs
    BY <1>5, <1>a DEF Ingest, bounds, EventsOK
  <2>2. CASE RouteAtOnce(held.msg) /\ UNCHANGED buffer
    <3> DEFINE b == [ids |-> {held.msg}, base |-> held.msg]
               c == ChatOf[KeyOf[held.msg]]
    <3>1. b \in Bundle /\ c \in Chats /\ RouteToChatWorker(c, b) /\ b.ids = {held.msg}
      BY <2>1, <2>2, Constants DEF RouteAtOnce, Bundle
    <3> HIDE DEF b, c
    <3>2. Cardinality(Mailed(m)') <= Cardinality(Mailed(m)) + (IF m = held.msg THEN 1 ELSE 0)
      BY <1>a, <3>1, MailedRoute
    <3>3. UNCHANGED turn
      BY <1>a, <3>1, RouteCases DEF Adds, pool
    <3>4. Waiting(m)' <= Waiting(m)
      BY <1>5, <1>b, <2>2, <3>2, IngestMoves DEF Waiting
    <3>5. QED
      BY <1>b, <1>d, <1>e, <2>1, <3>3, <3>4
  <2>3. CASE UNCHANGED pool
    <3>1. UNCHANGED <<box, turn>>
      BY <2>3 DEF pool
    <3>2. Waiting(m)' <= Waiting(m)
      <4>1. CASE m = held.msg
        BY <1>5, <1>b, <1>c, <3>1, <4>1, IngestMoves DEF Waiting
      <4>2. CASE m # held.msg
        BY <1>5, <1>b, <1>c, <3>1, <4>2, IngestMoves DEF Waiting
      <4>3. QED
        BY <4>1, <4>2
    <3>3. QED
      BY <1>b, <1>d, <1>e, <2>1, <3>1, <3>2
  <2>4. QED
    BY <1>5, <2>2, <2>3, IngestMoves
<1>6. CASE HandleRecall
  <2>1. UNCHANGED <<runs, lapses, recorded, held, box, turn>>
    BY <1>6 DEF HandleRecall, bounds
  <2>2. m \in buffer'[KeyOf[m]].ids => m \in buffer[KeyOf[m]].ids
    <3>1. PICK n : n = Head(inbox).msg
      OBVIOUS
    <3>2. CASE UNCHANGED buffer
      BY <3>2
    <3>3. CASE buffer' = [buffer EXCEPT ![KeyOf[n]] = Empty]
      BY <1>a, <3>3, Constants DEF BufferOK
    <3>4. QED
      BY <1>6, <3>1, <3>2, <3>3 DEF HandleRecall
  <2>3. Waiting(m)' <= Waiting(m)
    BY <1>b, <1>c, <2>1, <2>2 DEF Waiting, InHand
  <2>4. QED
    BY <1>b, <1>d, <1>e, <2>1, <2>3
<1>7. ASSUME NEW w \in Worker, WorkerTakes(w) PROVE Copies(m)'
  <2>1. PICK s, b : s = Tail(box[w]) /\ b = Head(box[w])
    OBVIOUS
  <2>2. /\ UNCHANGED <<lapses, recorded, held, buffer>> /\ box[w] # <<>>
        /\ box' = [box EXCEPT ![w] = s] /\ turn' = [turn EXCEPT ![w] = b]
        /\ runs' = [n \in Msgs |-> IF n \in b.ids THEN runs[n] + 1 ELSE runs[n]]
    BY <1>7, <2>1 DEF WorkerTakes, assembly, bounds
  <2>3. Cardinality(Mailed(m)') + (IF m \in b.ids THEN 1 ELSE 0) <= Cardinality(Mailed(m))
    BY <1>a, <2>1, <2>2, MailedTake
  <2>4. Cardinality(Turning(m)') <= Cardinality(Turning(m)) + (IF m \in b.ids THEN 1 ELSE 0)
    BY <1>a, <2>2, TurningTake DEF PoolOK
  <2>5. runs'[m] = runs[m] + (IF m \in b.ids THEN 1 ELSE 0)
    BY <1>b, <2>2
  <2>6. Waiting(m)' + (IF m \in b.ids THEN 1 ELSE 0) <= Waiting(m)
    BY <1>b, <2>2, <2>3 DEF Waiting, InHand
  <2>7. QED
    BY <1>0, <1>b, <2>2, <2>4, <2>5, <2>6, WaitingType, SMTT(60) DEF Copies
<1>8. ASSUME NEW w \in Worker, Replied(w) PROVE Copies(m)'
  <2>1. UNCHANGED <<runs, lapses, recorded, held, buffer, box>> /\ turn' = [turn EXCEPT ![w] = NoWork]
    BY <1>8 DEF Replied, bounds, assembly
  <2>2. Shrinks
    BY <1>a, <2>1, Constants DEF Shrinks, PoolOK
  <2>3. QED
    BY <1>f, <2>1, <2>2
<1>9. ASSUME NEW w \in Worker, WorkerLeaves(w) \/ WorkerPanics(w) PROVE Copies(m)'
  <2>1. UNCHANGED <<runs, lapses, recorded, held, buffer>>
    BY <1>9 DEF WorkerLeaves, WorkerPanics, DropWorker, assembly
  <2>2. QED
    BY <1>9, <1>f, <2>1, EndsShrink
<1>10. CASE Restart
  <2>1. UNCHANGED <<runs, lapses, recorded>> /\ Shrinks
    BY <1>10, EndsShrink DEF Restart
  <2>2. Cardinality(Mailed(m)') <= Cardinality(Mailed(m))
        /\ Cardinality(Turning(m)') <= Cardinality(Turning(m))
    BY <1>a, <2>1, MailedLess, TurningLess DEF Shrinks
  <2>3. ~InHand(m)' /\ m \notin buffer'[KeyOf[m]].ids
    BY <1>10, Constants DEF Restart, InHand
  <2>4. Waiting(m)' <= Waiting(m)
    BY <1>b, <2>2, <2>3 DEF Waiting
  <2>5. QED
    BY <1>e, <2>1, <2>2, <2>4
<1>11. CASE Receive
  <2>1. UNCHANGED <<runs, lapses, recorded, buffer, box, turn>> /\ ~InHand(m) /\ ~InHand(m)'
    BY <1>11 DEF Receive, Selecting, InHand, assembly, pool, history, bounds
  <2>2. Waiting(m)' <= Waiting(m)
    BY <1>b, <1>c, <2>1 DEF Waiting
  <2>3. QED
    BY <1>b, <1>d, <1>e, <2>1, <2>2
<1>12. CASE UNCHANGED <<runs, lapses, recorded, held, buffer, box, turn>>
  <2>1. Shrinks
    BY <1>12 DEF Shrinks
  <2>2. QED
    BY <1>f, <1>12, <2>1
<1>13. QED
  BY <1>1, <1>2, <1>3, <1>4, <1>5, <1>6, <1>7, <1>8, <1>9, <1>10, <1>11, <1>12
     DEF Next, DispatcherStep, WorkerStep, Deliver, Recall, TimerFires, TurnStarts, TurnEnds,
         WorkerIdles, assembly, pool, history, bounds, vars

LEMMA CopiesInit == Init => CopiesBounded
<1> SUFFICES ASSUME Init, NEW m \in Msgs PROVE Copies(m)
  BY DEF CopiesBounded
<1>1. ~InHand(m) /\ m \notin buffer[KeyOf[m]].ids
  BY Constants DEF Init, InHand
<1>2. Mailed(m) = {} /\ Turning(m) = {}
  <2>1. \A w \in Worker : Len(box[w]) = 0 /\ turn[w].ids = {}
    BY Constants DEF Init
  <2>2. \A p \in Worker \X (1 .. CAP) : ~(p[2] <= Len(box[p[1]]))
    BY <2>1, Constants
  <2>3. QED
    BY <2>1, <2>2 DEF Mailed, Turning
<1>3. runs[m] = 0 /\ lapses = 0 /\ recorded = {}
  BY DEF Init
<1>4. Cardinality(Mailed(m)) = 0 /\ Cardinality(Turning(m)) = 0
  BY <1>2, FS_EmptySet
<1>5. QED
  BY <1>1, <1>3, <1>4 DEF Copies, Waiting

(* A replayed message is not executed again (the dedup table survives a    *)
(* restart and a worker's death): every turn uses up a copy, and only the  *)
(* dedup probe makes copies, one per message and one per failed probe.     *)
THEOREM ExecutedOnce == Spec => []RunsOnce
<1>1. Init => Shape /\ CopiesBounded
  BY ShapeInit, CopiesInit
<1>2. Shape /\ CopiesBounded /\ [Next]_vars => (Shape /\ CopiesBounded)'
  BY ShapeStep, CopiesStep
<1>3. Shape /\ CopiesBounded => RunsOnce
  <2> SUFFICES ASSUME Shape, CopiesBounded, NEW m \in Msgs PROVE runs[m] <= 1 + lapses
    BY DEF RunsOnce
  <2>1. HistoryOK
    BY ShapeParts
  <2>2. Waiting(m) \in Nat /\ runs[m] \in Nat /\ lapses \in Nat
    BY <2>1, WaitingType DEF HistoryOK
  <2>3. QED
    BY <2>2 DEF CopiesBounded, Copies
<1>4. QED
  BY <1>1, <1>2, <1>3, PTL DEF Spec

-----------------------------------------------------------------------------
(* Every pending burst has a timer on its way: a merge starts one, and the *)
(* only timeout that is consumed without a flush is one of another         *)
(* generation.                                                             *)

Own(k) == [key |-> k, gen |-> buffer[k].gen, first |-> buffer[k].first]
OnItsWay(t) == t \in timers \/ \E i \in DOMAIN fired : fired[i] = t

LEMMA HasTimer == BufferHasTimer <=> \A k \in Keys : buffer[k].gen # 0 => OnItsWay(Own(k))
BY DEF BufferHasTimer, OnItsWay, Own

LEMMA TimerKept ==
  ASSUME BufferHasTimer,
         \A k \in Keys : \/ buffer'[k].gen = 0
                         \/ buffer'[k] = buffer[k] /\ (OnItsWay(Own(k)) => OnItsWay(Own(k))')
  PROVE  BufferHasTimer'
BY HasTimer DEF BufferHasTimer, OnItsWay, Own

LEMMA EmptiedBuffer ==
  ASSUME BufferOK, BufferHasTimer, NEW k \in Keys, buffer' = [buffer EXCEPT ![k] = Empty],
         UNCHANGED <<timers, fired>>
  PROVE  BufferHasTimer'
<1>1. \A j \in Keys : buffer'[j] = IF j = k THEN Empty ELSE buffer[j]
  BY DEF BufferOK
<1>2. QED
  BY <1>1, Constants, TimerKept DEF OnItsWay, Own

LEMMA TimerStep == Shape /\ BufferHasTimer /\ [Next]_vars => BufferHasTimer'
<1> SUFFICES ASSUME Shape, BufferHasTimer, [Next]_vars PROVE BufferHasTimer'
  OBVIOUS
<1>0. BufferOK /\ EventsOK
  BY ShapeParts
<1>1. CASE OnTimeout
  <2>1. PICK t \in Timer : t = Head(fired) /\ t.key \in Keys
    <3>1. Head(fired) \in Timer
      BY <1>0, <1>1 DEF OnTimeout, BufferOK
    <3>2. QED
      BY <3>1 DEF Timer
  <2>2. \A u : u # t /\ OnItsWay(u) => OnItsWay(u)'
    <3> SUFFICES ASSUME NEW u, u # t, NEW i \in DOMAIN fired, fired[i] = u
                 PROVE  \E j \in DOMAIN fired' : fired'[j] = u
      BY <1>1 DEF OnTimeout, OnItsWay
    <3>1. fired \in Seq(Timer) /\ fired # <<>> /\ fired' = Tail(fired) /\ t = fired[1]
      BY <1>0, <1>1, <2>1 DEF OnTimeout, BufferOK
    <3>2. i \in 1 .. Len(fired) /\ i # 1 /\ Len(fired) \in Nat
      BY <3>1
    <3>3. i - 1 \in 1 .. (Len(fired) - 1) /\ (i - 1) + 1 = i
      BY <3>2
    <3>4. /\ DOMAIN Tail(fired) = 1 .. (Len(fired) - 1)
          /\ \A j \in 1 .. (Len(fired) - 1) : Tail(fired)[j] = fired[j + 1]
      BY <3>1
    <3>5. QED
      BY <3>1, <3>3, <3>4
  <2>3. CASE /\ buffer[t.key].gen # 0 /\ buffer[t.key].gen = t.gen
             /\ buffer' = [buffer EXCEPT ![t.key] = Empty]
    <3>1. \A k \in Keys : buffer'[k] = IF k = t.key THEN Empty ELSE buffer[k]
      BY <1>0, <2>3 DEF BufferOK
    <3>2. \A k \in Keys : k # t.key => Own(k) # t
      BY DEF Own
    <3>3. \A k \in Keys : k # t.key => Own(k)' = Own(k)
      BY <3>1 DEF Own
    <3>4. QED
      BY <2>2, <3>1, <3>2, <3>3, Constants, TimerKept
  <2>4. CASE /\ ~(buffer[t.key].gen # 0 /\ buffer[t.key].gen = t.gen)
             /\ UNCHANGED buffer
    <3>1. \A k \in Keys : buffer[k].gen # 0 => Own(k) # t
      BY <2>4 DEF Own
    <3>2. \A k \in Keys : Own(k)' = Own(k)
      BY <2>4 DEF Own
    <3>3. QED
      BY <2>2, <2>4, <3>1, <3>2, TimerKept
  <2>5. QED
    BY <1>1, <2>1, <2>3, <2>4 DEF OnTimeout
<1>2. CASE Ingest
  <2>1. PICK m \in Msgs, k \in Keys : m = held.msg /\ k = KeyOf[m]
    BY <1>0, Constants DEF EventsOK
  <2> DEFINE p == buffer[k]
             new == [ids   |-> p.ids \cup {m},
                     base  |-> IF p.gen = 0 \/ KindOf[m] = "text" THEN m ELSE p.base,
                     gen   |-> p.gen + 1,
                     first |-> First(m)]
  <2>2. CASE Merge(m)
    <3>1. /\ buffer' = [buffer EXCEPT ![k] = new] /\ UNCHANGED fired
          /\ timers' = timers \cup {[key |-> k, gen |-> p.gen + 1, first |-> First(m)]}
      BY <2>1, <2>2 DEF Merge
    <3>2. new.gen = p.gen + 1 /\ new.first = First(m)
      OBVIOUS
    <3> HIDE DEF new
    <3>3. \A j \in Keys : buffer'[j] = IF j = k THEN new ELSE buffer[j]
      BY <1>0, <2>1, <3>1 DEF BufferOK
    <3>4. OnItsWay(Own(k))'
      <4>1. Own(k)' = [key |-> k, gen |-> p.gen + 1, first |-> First(m)]
        BY <2>1, <3>2, <3>3 DEF Own
      <4>2. QED
        BY <3>1, <4>1 DEF OnItsWay
    <3>5. \A j \in Keys : j # k /\ OnItsWay(Own(j)) => OnItsWay(Own(j))'
      BY <3>1, <3>3 DEF OnItsWay, Own
    <3>6. \A j \in Keys : buffer'[j].gen # 0 => OnItsWay(Own(j))'
      BY <3>3, <3>4, <3>5, HasTimer
    <3>7. QED
      BY <3>6 DEF BufferHasTimer, OnItsWay, Own
  <2>3. CASE CancelBuffer(m)
    BY <1>0, <2>1, <2>3, EmptiedBuffer DEF CancelBuffer
  <2>4. CASE RouteAtOnce(m)
    BY <2>4 DEF RouteAtOnce, assembly, BufferHasTimer
  <2>5. QED
    BY <1>2, <2>1, <2>2, <2>3, <2>4 DEF Ingest
<1>3. CASE HandleRecall
  <2>1. PICK m \in Msgs : m = Head(inbox).msg
    <3>1. Head(inbox) \in Event
      BY <1>0, <1>3 DEF HandleRecall, EventsOK
    <3>2. QED
      BY <3>1 DEF Event
  <2>2. CASE buffer' = [buffer EXCEPT ![KeyOf[m]] = Empty]
    BY <1>0, <1>3, <2>2, Constants, EmptiedBuffer DEF HandleRecall
  <2>3. CASE UNCHANGED buffer
    BY <1>3, <2>3 DEF HandleRecall, BufferHasTimer
  <2>4. QED
    BY <1>3, <2>1, <2>2, <2>3 DEF HandleRecall
<1>4. ASSUME NEW t \in timers, TimerFires(t) PROVE BufferHasTimer'
  <2>1. /\ fired \in Seq(Timer) /\ t \in Timer /\ timers' = timers \ {t}
        /\ fired' = Append(fired, t) /\ UNCHANGED buffer
    BY <1>0, <1>4 DEF TimerFires, BufferOK
  <2>2. /\ Len(fired) + 1 \in DOMAIN fired' /\ fired'[Len(fired) + 1] = t
        /\ \A i \in DOMAIN fired : i \in DOMAIN fired' /\ fired'[i] = fired[i]
    BY <2>1
  <2>3. \A u : OnItsWay(u) => OnItsWay(u)'
    BY <2>1, <2>2 DEF OnItsWay
  <2>4. \A k \in Keys : Own(k)' = Own(k)
    BY <2>1 DEF Own
  <2>5. QED
    BY <2>1, <2>3, <2>4, TimerKept
<1>5. CASE Restart
  BY <1>5, Constants DEF Restart, BufferHasTimer
<1>6. CASE UNCHANGED assembly
  BY <1>6 DEF assembly, BufferHasTimer
<1>7. QED
  BY <1>1, <1>2, <1>3, <1>4, <1>5, <1>6
     DEF Next, DispatcherStep, WorkerStep, Deliver, Recall, ReapExit, Flush, Receive, Prelude,
         WorkerTakes, TurnStarts, TurnEnds, Replied, WorkerLeaves, WorkerPanics, WorkerIdles,
         DropWorker, vars

-----------------------------------------------------------------------------
(* Nothing open gets lost: what takes a message from a place puts it into  *)
(* another or settles it.                                                  *)

LEMMA HeldFrame ==
  ASSUME UNCHANGED <<box, turn>>, NEW w
  PROVE  Held(w)' = Held(w)
BY DEF Held, InBox

LEMMA RouteKeeps ==
  ASSUME PoolOK, HistoryOK, NEW c \in Chats, NEW b \in Bundle, RouteToChatWorker(c, b), NEW m \in Msgs,
         fate'[m] = "open"
  PROVE  /\ fate[m] = "open"
         /\ m \in b.ids => \E w \in Worker : m \in Held(w)'
         /\ \A w \in Worker : m \in Held(w) => m \in Held(w)'
<1>1. CASE Settle(b.ids, "throttled") /\ UNCHANGED pool
  BY <1>1, HeldFrame DEF Settle, HistoryOK, pool
<1>2. ASSUME NEW w \in Worker, Adds(w, c, b)
      PROVE  /\ fate[m] = "open"
             /\ m \in b.ids => m \in Held(w)'
             /\ \A v \in Worker : m \in Held(v) => m \in Held(v)'
  <2>1. box[w] \in Seq(Bundle)
    BY DEF PoolOK
  <2>2. \A v \in Worker : box'[v] = IF v = w THEN Append(box[w], b) ELSE box[v]
    BY <1>2 DEF Adds, PoolOK
  <2>3. Ids(box'[w]) = Ids(box[w]) \cup b.ids
    BY <2>1, <2>2, IdsAppend
  <2>4. \A v \in Worker : Held(v) = turn[v].ids \cup Ids(box[v])
    BY InBoxIds
  <2>5. \A v \in Worker : Held(v)' = turn'[v].ids \cup Ids(box'[v])
    BY DEF Held, InBox, Ids
  <2>6. UNCHANGED <<turn, fate>>
    BY <1>2 DEF Adds
  <2>7. QED
    BY <2>2, <2>3, <2>4, <2>5, <2>6
<1>3. QED
  BY <1>1, <1>2, RouteCases

LEMMA SomewhereStep == Shape /\ OpenIsSomewhere /\ [Next]_vars => OpenIsSomewhere'
<1> SUFFICES ASSUME Shape, OpenIsSomewhere, [Next]_vars, NEW m \in Msgs,
                    arrival'[m] # 0, fate'[m] = "open"
             PROVE  Somewhere(m)'
  BY DEF OpenIsSomewhere
<1>0. EventsOK /\ BufferOK /\ PoolOK /\ HistoryOK
  BY ShapeParts
<1>a. arrival[m] # 0 /\ fate[m] = "open" => Somewhere(m)
  BY DEF OpenIsSomewhere
<1>b. ASSUME UNCHANGED <<held, buffer, arrival>>, fate[m] = "open",
             \A w \in Worker : m \in Held(w) => m \in Held(w)'
      PROVE  Somewhere(m)'
  BY <1>a, <1>b DEF Somewhere, InHand
<1>c. ASSUME NEW w \in Worker, life' = [life EXCEPT ![w] = "gone"],
             box' = [box EXCEPT ![w] = <<>>], turn' = [turn EXCEPT ![w] = NoWork],
             Settle(Held(w), "lost"), UNCHANGED <<held, buffer, arrival>>
      PROVE  Somewhere(m)'
  <2>1. fate[m] = "open" /\ m \notin Held(w)
    BY <1>0, <1>c DEF Settle, HistoryOK
  <2>2. \A v \in Worker \ {w} : Held(v)' = Held(v)
    BY <1>0, <1>c DEF PoolOK, Held, InBox
  <2>3. QED
    BY <1>b, <1>c, <2>1, <2>2
<1>1. CASE ReapExit
  <2>1. PICK c \in Chats : c = Head(exits)
    BY <1>0, <1>1 DEF ReapExit, EventsOK
  <2>2. UNCHANGED <<held, buffer, arrival>>
    BY <1>1 DEF ReapExit, assembly
  <2>3. CASE entry[c] = 0
    BY <1>1, <1>b, <2>1, <2>2, <2>3, HeldFrame DEF ReapExit
  <2>4. CASE entry[c] # 0
    <3>1. PICK w \in Worker : w = entry[c]
      BY <1>0, <2>4 DEF PoolOK, Worker
    <3>2. /\ life' = [life EXCEPT ![w] = "gone"] /\ box' = [box EXCEPT ![w] = <<>>]
          /\ turn' = [turn EXCEPT ![w] = NoWork] /\ Settle(Held(w), "lost")
      BY <1>1, <2>1, <2>4, <3>1 DEF ReapExit
    <3>3. QED
      BY <1>c, <2>2, <3>2
  <2>5. QED
    BY <2>3, <2>4
<1>2. CASE OnTimeout
  <2>1. UNCHANGED <<box, turn, fate, arrival>>
    BY <1>2 DEF OnTimeout, pool, history
  <2>2. QED
    BY <1>2, <1>a, <2>1, TimeoutMoves, HeldFrame DEF Somewhere
<1>3. CASE Flush
  <2>1. UNCHANGED <<buffer, arrival>>
    BY <1>3 DEF Flush, assembly
  <2> DEFINE b == [ids |-> held.ids, base |-> held.msg]
             c == ChatOf[KeyOf[held.msg]]
  <2>2. b \in Bundle /\ c \in Chats /\ RouteToChatWorker(c, b) /\ b.ids = held.ids
    BY <1>3, <1>0, Constants DEF Flush, EventsOK, Bundle
  <2> HIDE DEF b, c
  <2>3. /\ fate[m] = "open" /\ (m \in held.ids => \E w \in Worker : m \in Held(w)')
        /\ \A w \in Worker : m \in Held(w) => m \in Held(w)'
    BY <1>0, <2>2, RouteKeeps
  <2>4. QED
    BY <1>a, <2>1, <2>3 DEF Somewhere, InHand
<1>4. CASE Prelude
  <2>1. UNCHANGED <<buffer, box, turn, fate>> /\ ~InHand(m)
    BY <1>4 DEF Prelude, assembly, pool, InHand
  <2>2. CASE arrival[m] = 0
    <3>1. Arrives(held.msg) /\ held' = [held EXCEPT !.step = "assemble"]
      BY <1>4, <2>2 DEF Prelude
    <3>2. m = held.msg
      BY <1>0, <2>2, <3>1 DEF Arrives, HistoryOK
    <3>3. InHand(m)'
      BY <1>4, <1>0, <3>1, <3>2 DEF Prelude, InHand, EventsOK, HeldShape
    <3>4. QED
      BY <3>3 DEF Somewhere
  <2>3. CASE arrival[m] # 0
    BY <1>a, <2>1, <2>3, HeldFrame DEF Somewhere
  <2>4. QED
    BY <2>2, <2>3
<1>5. CASE Ingest
  <2>1. UNCHANGED arrival /\ held.msg \in Msgs
    BY <1>5, <1>0 DEF Ingest, EventsOK
  <2>2. CASE RouteAtOnce(held.msg) /\ UNCHANGED buffer
    <3> DEFINE b == [ids |-> {held.msg}, base |-> held.msg]
               c == ChatOf[KeyOf[held.msg]]
    <3>1. b \in Bundle /\ c \in Chats /\ RouteToChatWorker(c, b) /\ b.ids = {held.msg}
      BY <2>1, <2>2, Constants DEF RouteAtOnce, Bundle
    <3> HIDE DEF b, c
    <3>2. /\ fate[m] = "open" /\ (m = held.msg => \E w \in Worker : m \in Held(w)')
          /\ \A w \in Worker : m \in Held(w) => m \in Held(w)'
      BY <1>0, <3>1, RouteKeeps
    <3>3. QED
      BY <1>5, <1>a, <2>1, <2>2, <3>2, IngestMoves DEF Somewhere
  <2>3. CASE Merge(held.msg)
    <3>1. UNCHANGED <<box, turn, fate>>
      BY <2>3 DEF Merge, pool
    <3>2. QED
      BY <1>5, <1>a, <2>1, <2>3, <3>1, HeldFrame, IngestMoves, MergeIds DEF Somewhere
  <2>4. CASE CancelBuffer(held.msg)
    <3>1. UNCHANGED <<box, turn>> /\ KeyOf[held.msg] \in Keys
      BY <2>1, <2>4, Constants DEF CancelBuffer, pool
    <3>2. m # held.msg /\ m \notin buffer[KeyOf[held.msg]].ids /\ fate[m] = "open"
      BY <2>4 DEF CancelBuffer
    <3>3. m \in buffer[KeyOf[m]].ids => m \in buffer'[KeyOf[m]].ids
      BY <1>0, <2>4, <3>1, <3>2 DEF CancelBuffer, BufferOK
    <3>4. QED
      BY <1>5, <1>a, <2>1, <3>1, <3>2, <3>3, HeldFrame, IngestMoves DEF Somewhere
  <2>5. QED
    BY <1>5, <2>2, <2>3, <2>4, IngestMoves
<1>6. CASE HandleRecall
  <2>1. UNCHANGED <<arrival, held, box, turn>>
    BY <1>6 DEF HandleRecall
  <2>2. PICK n : n = Head(inbox).msg /\ n \in Msgs
    <3>1. Head(inbox) \in Event
      BY <1>0, <1>6 DEF HandleRecall, EventsOK
    <3>2. QED
      BY <3>1 DEF Event
  <2>3. CASE UNCHANGED <<buffer, fate>>
    BY <1>b, <2>1, <2>3, HeldFrame
  <2>4. CASE buffer' = [buffer EXCEPT ![KeyOf[n]] = Empty] /\ Settle(buffer[KeyOf[n]].ids, "recalled")
    <3>1. fate[m] = "open" /\ m \notin buffer[KeyOf[n]].ids
      BY <1>0, <2>4 DEF Settle, HistoryOK
    <3>2. m \in buffer[KeyOf[m]].ids => m \in buffer'[KeyOf[m]].ids
      BY <1>0, <2>2, <2>4, <3>1, Constants DEF BufferOK
    <3>3. QED
      BY <1>a, <2>1, <3>1, <3>2, HeldFrame DEF Somewhere, InHand
  <2>5. QED
    BY <1>6, <2>2, <2>3, <2>4 DEF HandleRecall
<1>7. ASSUME NEW w \in Worker, WorkerTakes(w) PROVE Somewhere(m)'
  <2>1. PICK s, b : s = Tail(box[w]) /\ b = Head(box[w])
    OBVIOUS
  <2>2. /\ UNCHANGED <<held, buffer, arrival, fate>> /\ box[w] # <<>> /\ life[w] = "idle"
        /\ box' = [box EXCEPT ![w] = s] /\ turn' = [turn EXCEPT ![w] = b]
    BY <1>7, <2>1 DEF WorkerTakes, assembly
  <2>3. \A v \in Worker \ {w} : Held(v)' = Held(v)
    BY <1>0, <2>2 DEF PoolOK, Held, InBox
  <2>4. box'[w] = s /\ turn'[w] = b /\ box[w] \in Seq(Bundle) /\ turn[w].ids = {}
    BY <1>0, <2>2 DEF PoolOK, WorkerShape, Busy
  <2>5. Ids(box[w]) = b.ids \cup Ids(s)
    BY <2>1, <2>2, <2>4, IdsTail
  <2>6. Held(w)' = b.ids \cup Ids(s) /\ Held(w) = Ids(box[w])
    BY <2>4 DEF Held, InBox, Ids
  <2>7. QED
    BY <1>b, <2>2, <2>3, <2>5, <2>6
<1>8. ASSUME NEW w \in Worker, TurnEnds(w) PROVE Somewhere(m)'
  BY <1>8, <1>b, <1>0, HeldFrame DEF TurnEnds, assembly, Settle, HistoryOK
<1>9. ASSUME NEW w \in Worker, Replied(w) PROVE Somewhere(m)'
  <2>1. /\ UNCHANGED <<held, buffer, arrival, box>> /\ turn' = [turn EXCEPT ![w] = NoWork]
        /\ fate[m] = "open" /\ m \notin turn[w].ids
    BY <1>9, <1>0 DEF Replied, assembly, HistoryOK
  <2>2. \A v \in Worker : v # w => Held(v)' = Held(v)
    BY <1>0, <2>1 DEF PoolOK, Held, InBox
  <2>3. m \in Held(w) => m \in Held(w)'
    BY <2>1 DEF Held, InBox
  <2>4. QED
    BY <1>b, <2>1, <2>2, <2>3
<1>10. ASSUME NEW w \in Worker, WorkerLeaves(w) \/ WorkerPanics(w) PROVE Somewhere(m)'
  BY <1>10, <1>c DEF WorkerLeaves, WorkerPanics, DropWorker, assembly
<1>11. CASE Restart
  BY <1>11, <1>0 DEF Restart, HistoryOK
<1>12. CASE Receive
  BY <1>12, <1>a, HeldFrame DEF Receive, Selecting, InHand, Somewhere, assembly, pool, history
<1>13. CASE UNCHANGED <<held, buffer, arrival, fate, box, turn>>
  BY <1>13, <1>b, HeldFrame
<1>14. QED
  BY <1>1, <1>2, <1>3, <1>4, <1>5, <1>6, <1>7, <1>8, <1>9, <1>10, <1>11, <1>12, <1>13
     DEF Next, DispatcherStep, WorkerStep, Deliver, Recall, TimerFires, TurnStarts,
         WorkerIdles, assembly, pool, history, bounds, vars

(* An open message is somewhere, in one place only while no dedup probe    *)
(* failed, and a pending burst has a timer on its way: nothing is dropped, *)
(* or left in a buffer nobody will flush, between the dedup probe and the  *)
(* end of the turn.                                                        *)
THEOREM NothingIsLost == Spec => []Accounted
<1> DEFINE I == Shape /\ CopiesBounded /\ BufferHasTimer /\ OpenIsSomewhere
<1>1. Init => I
  <2>1. Init => BufferHasTimer
    BY Constants DEF Init, BufferHasTimer
  <2>2. Init => OpenIsSomewhere
    BY DEF Init, OpenIsSomewhere
  <2>3. QED
    BY <2>1, <2>2, ShapeInit, CopiesInit
<1>2. I /\ [Next]_vars => I'
  BY ShapeStep, CopiesStep, TimerStep, SomewhereStep
<1>3. I => Accounted
  <2> SUFFICES ASSUME I, lapses = 0, NEW m \in Msgs, arrival[m] # 0, fate[m] = "open"
               PROVE  Places(m) = 1
    BY DEF Accounted
  <2>1. /\ Cardinality(Mailed(m)) \in Nat /\ Cardinality(Turning(m)) \in Nat /\ runs[m] \in Nat
        /\ Waiting(m) \in Nat
    BY MailedFinite, TurningFinite, WaitingType, ShapeParts DEF HistoryOK
  <2>2. Places(m) <= 1
    BY <2>1 DEF CopiesBounded, Copies, Places
  <2>3. Places(m) >= 1
    <3>1. CASE InHand(m) \/ m \in buffer[KeyOf[m]].ids
      BY <2>1, <3>1 DEF Places, Waiting
    <3>2. ASSUME NEW w \in Worker, m \in turn[w].ids PROVE Places(m) >= 1
      <4>1. Turning(m) # {}
        BY <3>2 DEF Turning
      <4>2. Cardinality(Turning(m)) # 0
        BY <4>1, TurningFinite, FS_EmptySet
      <4>3. QED
        BY <2>1, <4>2 DEF Places
    <3>3. ASSUME NEW w \in Worker, m \in InBox(w) PROVE Places(m) >= 1
      <4>1. PICK i \in DOMAIN box[w] : m \in box[w][i].ids
        BY <3>3 DEF InBox
      <4>2. box[w] \in Seq(Bundle) /\ Len(box[w]) <= CAP
        BY ShapeParts DEF PoolOK, WorkerShape
      <4>3. i \in 1 .. CAP /\ i <= Len(box[w])
        BY <4>1, <4>2, Constants
      <4>4. <<w, i>> \in Mailed(m)
        BY <4>1, <4>3 DEF Mailed
      <4>5. Cardinality(Mailed(m)) # 0
        BY <4>4, MailedFinite, FS_EmptySet
      <4>6. QED
        BY <2>1, <4>5 DEF Places, Waiting
    <3>4. QED
      BY <3>1, <3>2, <3>3 DEF OpenIsSomewhere, Somewhere, Held
  <2>4. QED
    BY <2>1, <2>2, <2>3 DEF Places
<1>4. QED
  BY <1>1, <1>2, <1>3, PTL DEF Spec

-----------------------------------------------------------------------------
(* Arrival order.                                                          *)

LEMMA ArrivedFinite ==
  /\ IsFiniteSet(Arrived) /\ Cardinality(Arrived) \in Nat
  /\ Arrived = {n \in Msgs : arrival[n] # 0}
<1>1. Arrived \in SUBSET Msgs
  BY DEF Arrived
<1>2. QED
  BY <1>1, DispatcherAssumption, FS_Subset, FS_CardinalityType DEF Arrived

(* A new arrival is numbered after all others.                             *)
LEMMA NewArrival ==
  ASSUME HistoryOK, ArrivalsCount, NEW x \in Msgs, arrival[x] = 0, Arrives(x)
  PROVE  /\ arrival'[x] = Cardinality(Arrived) + 1 /\ Cardinality(Arrived') = Cardinality(Arrived) + 1
         /\ \A n \in Msgs \ {x} : arrival'[n] = arrival[n] /\ arrival[n] < arrival'[x]
         /\ arrival'[x] # 0
<1>1. PICK C : C = Arrived /\ Cardinality(C) \in Nat /\ IsFiniteSet(C)
  BY ArrivedFinite
<1>2. arrival' = [arrival EXCEPT ![x] = Cardinality(C) + 1]
  BY <1>1 DEF Arrives, Arrived
<1>3. arrival'[x] = Cardinality(C) + 1 /\ \A n \in Msgs \ {x} : arrival'[n] = arrival[n]
  BY <1>2 DEF HistoryOK
<1>4. Arrived' = C \cup {x} /\ x \notin C
  BY <1>1, <1>3 DEF Arrived
<1>5. Cardinality(Arrived') = Cardinality(C) + 1
  BY <1>1, <1>4, FS_AddElement
<1>6. \A n \in Msgs \ {x} : arrival[n] < arrival'[x]
  <2> SUFFICES ASSUME NEW n \in Msgs \ {x} PROVE arrival[n] < arrival'[x]
    OBVIOUS
  <2>1. arrival[n] \in Nat /\ arrival[n] <= Cardinality(C)
    BY <1>1 DEF HistoryOK, ArrivalsCount
  <2>2. QED
    BY <1>1, <1>3, <2>1
<1>7. QED
  BY <1>1, <1>3, <1>5, <1>6

LEMMA ArrivalStep ==
  Shape /\ ArrivalsCount /\ ArrivedIsRecorded /\ [Next]_vars => (ArrivalsCount /\ ArrivedIsRecorded)'
<1> SUFFICES ASSUME Shape, ArrivalsCount, ArrivedIsRecorded, [Next]_vars
             PROVE  (ArrivalsCount /\ ArrivedIsRecorded)'
  OBVIOUS
<1>0. EventsOK /\ HistoryOK
  BY ShapeParts
<1>1. CASE Prelude
  <2>1. PICK x \in Msgs : x = held.msg
    BY <1>0 DEF EventsOK
  <2>2. CASE UNCHANGED arrival
    BY <1>0, <1>1, <2>2 DEF Prelude, ArrivalsCount, Arrived, ArrivedIsRecorded, HistoryOK
  <2>3. CASE arrival[x] = 0 /\ Arrives(x)
    <3>1. ArrivalsCount'
      <4>1. /\ arrival'[x] = Cardinality(Arrived) + 1
            /\ Cardinality(Arrived') = Cardinality(Arrived) + 1
            /\ \A n \in Msgs \ {x} : arrival'[n] = arrival[n]
        BY <1>0, <2>3, NewArrival
      <4>2. \A n \in Msgs : arrival[n] \in Nat /\ arrival[n] <= Cardinality(Arrived)
        BY <1>0 DEF HistoryOK, ArrivalsCount
      <4>3. QED
        BY <4>1, <4>2, ArrivedFinite DEF ArrivalsCount
    <3>2. ASSUME lapses' = 0 PROVE lapses = 0 /\ recorded' = recorded \cup {x}
      BY <1>0, <1>1, <2>1, <2>3, <3>2 DEF Prelude, HistoryOK, Arrives
    <3>3. ArrivedIsRecorded'
      BY <1>0, <2>3, <3>2, NewArrival DEF ArrivedIsRecorded
    <3>4. QED
      BY <3>1, <3>3
  <2>4. QED
    BY <1>1, <2>1, <2>2, <2>3 DEF Prelude, Arrives
<1>2. CASE UNCHANGED <<arrival, recorded, lapses>>
  BY <1>2 DEF ArrivalsCount, Arrived, ArrivedIsRecorded
<1>3. QED
  BY <1>1, <1>2
     DEF Next, DispatcherStep, WorkerStep, Deliver, Recall, ReapExit, OnTimeout, Flush, Receive,
         Ingest, HandleRecall, TimerFires, WorkerTakes, TurnStarts, TurnEnds, Replied, WorkerLeaves,
         WorkerPanics, WorkerIdles, DropWorker, Restart, history, bounds, vars

(* A settled message stays settled.                                        *)
LEMMA FateStays ==
  ASSUME Shape, [Next]_vars, NEW m \in Msgs, fate'[m] = "open"
  PROVE  fate[m] = "open"
<1>0. PoolOK /\ HistoryOK /\ EventsOK
  BY ShapeParts
<1>1. ASSUME NEW S, NEW f \in Fate, Settle(S, f) PROVE fate[m] = "open"
  BY <1>0, <1>1 DEF Settle, HistoryOK
<1>2. ASSUME NEW c, NEW b, RouteToChatWorker(c, b) PROVE fate[m] = "open"
  BY <1>1, <1>2 DEF RouteToChatWorker, Fate
<1>3. CASE UNCHANGED fate
  BY <1>3
<1>4. CASE ReapExit
  BY <1>1, <1>4 DEF ReapExit, Fate
<1>5. CASE Flush
  BY <1>2, <1>5 DEF Flush
<1>6. CASE Ingest
  <2>1. CASE Merge(held.msg)
    BY <2>1 DEF Merge
  <2>2. CASE CancelBuffer(held.msg)
    BY <2>2 DEF CancelBuffer
  <2>3. CASE RouteAtOnce(held.msg)
    BY <1>2, <2>3 DEF RouteAtOnce
  <2>4. QED
    BY <1>6, <2>1, <2>2, <2>3 DEF Ingest
<1>7. CASE HandleRecall
  BY <1>1, <1>7 DEF HandleRecall, Fate
<1>8. ASSUME NEW w \in Worker, TurnEnds(w) PROVE fate[m] = "open"
  BY <1>1, <1>8 DEF TurnEnds, Fate
<1>9. ASSUME NEW w \in Worker, Replied(w) PROVE fate[m] = "open"
  BY <1>9 DEF Replied
<1>10. ASSUME NEW w \in Worker, WorkerLeaves(w) \/ WorkerPanics(w) PROVE fate[m] = "open"
  BY <1>1, <1>10 DEF WorkerLeaves, WorkerPanics, DropWorker, Fate
<1>11. CASE Restart
  BY <1>11 DEF Restart
<1>12. QED
  BY <1>3, <1>4, <1>5, <1>6, <1>7, <1>8, <1>9, <1>10, <1>11
     DEF Next, DispatcherStep, WorkerStep, Deliver, Recall, OnTimeout, Receive, Prelude,
         TimerFires, WorkerTakes, TurnStarts, WorkerIdles, history, vars

(* While no probe has failed a message is in one place only.               *)
OnePlace(m) ==
  /\ InHand(m)   => ~Buffered(m) /\ ~Boxed(m) /\ ~InTurn(m)
  /\ Buffered(m) => ~Boxed(m) /\ ~InTurn(m)
  /\ Boxed(m)    => ~InTurn(m)

LEMMA BoxedIsMailed ==
  ASSUME PoolOK, NEW m, Boxed(m)
  PROVE  Cardinality(Mailed(m)) >= 1
<1>1. PICK w \in Worker, i \in Nat : i \in DOMAIN box[w] /\ m \in box[w][i].ids
  BY DEF Boxed, At
<1>2. box[w] \in Seq(Bundle) /\ Len(box[w]) <= CAP
  BY DEF PoolOK, WorkerShape
<1>3. i \in 1 .. CAP /\ i <= Len(box[w])
  BY <1>1, <1>2, Constants
<1>4. <<w, i>> \in Mailed(m)
  BY <1>1, <1>3 DEF Mailed
<1>5. Cardinality(Mailed(m)) # 0
  BY <1>4, MailedFinite, FS_EmptySet
<1>6. QED
  BY <1>5, MailedFinite

LEMMA InTurnIsTurning ==
  ASSUME NEW m, InTurn(m)
  PROVE  Cardinality(Turning(m)) >= 1
<1>1. Turning(m) # {}
  BY DEF InTurn, Turning
<1>2. Cardinality(Turning(m)) # 0
  BY <1>1, TurningFinite, FS_EmptySet
<1>3. QED
  BY <1>2, TurningFinite

PlacesExclusive == lapses = 0 => \A m \in Msgs : OnePlace(m)

LEMMA PlacesExclude == Shape /\ CopiesBounded => PlacesExclusive
<1> SUFFICES ASSUME Shape, CopiesBounded, lapses = 0, NEW m \in Msgs PROVE OnePlace(m)
  BY DEF PlacesExclusive
<1>0. PoolOK /\ HistoryOK
  BY ShapeParts
<1>1. PICK h, b, x, y : /\ h = (IF InHand(m) THEN 1 ELSE 0) /\ b = (IF Buffered(m) THEN 1 ELSE 0)
                        /\ x = Cardinality(Mailed(m)) /\ y = Cardinality(Turning(m))
  OBVIOUS
<1>2. x \in Nat /\ y \in Nat /\ runs[m] \in Nat
  BY <1>0, <1>1, MailedFinite, TurningFinite DEF HistoryOK
<1>3. h + b + x + y <= 1
  <2>1. runs[m] + Waiting(m) <= 1 /\ y <= runs[m]
    BY <1>1, <1>2, WaitingType DEF CopiesBounded, Copies
  <2>2. Waiting(m) = h + b + x
    BY <1>1 DEF Waiting, Buffered
  <2>3. QED
    BY <1>1, <1>2, <2>1, <2>2
<1>4. (Boxed(m) => x >= 1) /\ (InTurn(m) => y >= 1)
  BY <1>0, <1>1, BoxedIsMailed, InTurnIsTurning
<1>5. QED
  BY <1>1, <1>2, <1>3, <1>4 DEF OnePlace

-----------------------------------------------------------------------------
(* Execution order.                                                        *)

LEMMA AtShrinks ==
  ASSUME NEW m, NEW w \in Worker, NEW i, box'[w] = box[w] \/ box'[w] = <<>>, At(m, w, i)'
  PROVE  At(m, w, i)
BY DEF At

LEMMA AtRange ==
  ASSUME PoolOK, NEW m, NEW w \in Worker, NEW i, At(m, w, i)
  PROVE  i \in 1 .. Len(box[w]) /\ Len(box[w]) \in Nat
<1>1. box[w] \in Seq(Bundle)
  BY DEF PoolOK
<1>2. QED
  BY <1>1 DEF At

LEMMA AtAdds ==
  ASSUME PoolOK, NEW c \in Chats, NEW b \in Bundle, RouteToChatWorker(c, b),
         NEW m, NEW v \in Worker, NEW i, At(m, v, i)'
  PROVE  At(m, v, i) \/ (m \in b.ids /\ i = Len(box[v]) + 1)
<1>1. CASE UNCHANGED pool
  BY <1>1 DEF pool, At
<1>2. ASSUME NEW w \in Worker, Adds(w, c, b)
      PROVE  At(m, v, i) \/ (m \in b.ids /\ i = Len(box[v]) + 1)
  <2>1. CASE v # w
    BY <1>2, <2>1 DEF Adds, PoolOK, At
  <2>2. CASE v = w
    <3>1. box[v] \in Seq(Bundle) /\ Len(box[v]) \in Nat /\ box'[v] = Append(box[v], b)
      BY <1>2, <2>2 DEF Adds, PoolOK
    <3>2. /\ DOMAIN box'[v] = 1 .. (Len(box[v]) + 1) /\ DOMAIN box[v] = 1 .. Len(box[v])
          /\ box'[v][Len(box[v]) + 1] = b /\ \A j \in 1 .. Len(box[v]) : box'[v][j] = box[v][j]
      BY <3>1
    <3>3. i \in 1 .. (Len(box[v]) + 1) /\ m \in box'[v][i].ids
      BY <3>2 DEF At
    <3>4. CASE i = Len(box[v]) + 1
      BY <3>2, <3>3, <3>4
    <3>5. CASE i # Len(box[v]) + 1
      <4>1. i \in 1 .. Len(box[v])
        BY <3>1, <3>3, <3>5
      <4>2. QED
        BY <3>2, <3>3, <4>1 DEF At
    <3>6. QED
      BY <3>4, <3>5
  <2>3. QED
    BY <2>1, <2>2
<1>3. QED
  BY <1>1, <1>2, RouteCases

LEMMA TailOf ==
  ASSUME NEW s \in Seq(Bundle), s # <<>>
  PROVE  /\ DOMAIN Tail(s) = 1 .. (Len(s) - 1) /\ DOMAIN s = 1 .. Len(s) /\ Len(s) \in Nat \ {0}
         /\ \A j \in 1 .. (Len(s) - 1) : Tail(s)[j] = s[j + 1]
OBVIOUS

LEMMA AtTakes ==
  ASSUME PoolOK, NEW w \in Worker, box[w] # <<>>, box' = [box EXCEPT ![w] = Tail(box[w])],
         NEW m, NEW v \in Worker, NEW i, At(m, v, i)'
  PROVE  IF v = w THEN i \in Nat \ {0} /\ At(m, w, i + 1) ELSE At(m, v, i)
<1>1. CASE v # w
  BY <1>1 DEF PoolOK, At
<1>2. CASE v = w
  <2>1. box[w] \in Seq(Bundle) /\ box'[w] = Tail(box[w])
    BY DEF PoolOK
  <2>2. /\ DOMAIN box'[w] = 1 .. (Len(box[w]) - 1) /\ DOMAIN box[w] = 1 .. Len(box[w])
        /\ Len(box[w]) \in Nat \ {0}
        /\ \A j \in 1 .. (Len(box[w]) - 1) : box'[w][j] = box[w][j + 1]
    BY <2>1, TailOf
  <2>3. i \in 1 .. (Len(box[w]) - 1) /\ m \in box'[w][i].ids
    BY <1>2, <2>2 DEF At
  <2>4. i \in Nat \ {0} /\ i + 1 \in 1 .. Len(box[w]) /\ m \in box[w][i + 1].ids
    BY <2>2, <2>3
  <2>5. QED
    BY <1>2, <2>2, <2>4 DEF At
<1>3. QED
  BY <1>1, <1>2

(* Places only lost keep the order.                                        *)
Fewer(m) ==
  /\ Assembling(m)' => Assembling(m)
  /\ Buffered(m)' => Buffered(m)
  /\ (m \in Flushing)' => m \in Flushing
  /\ \A w \in Worker, i \in Nat : At(m, w, i)' => At(m, w, i)
  /\ InTurn(m)' => InTurn(m)

LEMMA FewerKeepsOrder ==
  ASSUME NEW m \in Msgs, NEW n \in Msgs, NotOvertaken(m, n), Fewer(m), Fewer(n)
  PROVE  NotOvertaken(m, n)'
<1>1. (Boxed(m)' => Boxed(m)) /\ (Boxed(n)' => Boxed(n))
  BY DEF Fewer, Boxed
<1>2. /\ ~Assembling(m)'
      /\ Buffered(m)' => ~(n \in Flushing)' /\ ~Boxed(n)' /\ ~InTurn(n)'
      /\ (m \in Flushing)' => ~Boxed(n)' /\ ~InTurn(n)'
      /\ Boxed(m)' => ~InTurn(n)'
  BY <1>1 DEF NotOvertaken, Fewer
<1>3. \A w \in Worker : \A i, j \in Nat : At(m, w, i)' /\ At(n, w, j)' => i <= j
  BY DEF NotOvertaken, Fewer
<1>4. QED
  BY <1>2, <1>3 DEF NotOvertaken

LEMMA FewerFrame ==
  ASSUME UNCHANGED <<held, buffer, box, turn>>, NEW m PROVE Fewer(m)
BY DEF Fewer, Assembling, Buffered, Flushing, At, InTurn

LEMMA FewerShrinks ==
  ASSUME UNCHANGED <<held, buffer>>, Shrinks, NEW m PROVE Fewer(m)
BY AtShrinks DEF Fewer, Shrinks, Assembling, Buffered, Flushing, InTurn

(* One chat, one worker: two messages of one key are in the same mailbox.  *)
LEMMA SameWorker ==
  ASSUME Shape, NEW m, NEW n, KeyOf[m] = KeyOf[n], NEW v \in Worker, NEW w \in Worker,
         m \in Held(v), n \in Held(w)
  PROVE  v = w
<1>0. PoolOK
  BY ShapeParts
<1>1. ASSUME NEW u \in Worker, NEW x, x \in Held(u)
      PROVE  home[u] = ChatOf[KeyOf[x]] /\ entry[home[u]] = u
  <2>1. home[u] = ChatOf[KeyOf[x]]
    BY <1>0, <1>1 DEF PoolOK, WorkerShape
  <2>2. life[u] \notin {"unborn", "gone"}
    <3>1. life[u] \in {"unborn", "gone"} => box[u] = <<>> /\ turn[u].ids = {}
      BY <1>0 DEF PoolOK, WorkerShape, Busy
    <3>2. box[u] = <<>> => InBox(u) = {}
      BY DEF InBox
    <3>3. QED
      BY <1>1, <3>1, <3>2 DEF Held
  <2>3. QED
    BY <1>0, <2>1, <2>2 DEF PoolOK, EntryIsWorker
<1>2. QED
  BY <1>1

LEMMA AtIsHeld ==
  ASSUME NEW m, NEW w, NEW i, At(m, w, i) PROVE m \in Held(w)
BY DEF At, Held, InBox

OrderInv ==
  /\ Shape /\ CopiesBounded /\ OpenIsSomewhere
  /\ ArrivalsCount /\ ArrivedIsRecorded /\ OrderKept

(* Routing at the end of the mailbox of a bundle that no earlier message   *)
(* of the key is behind.                                                   *)
LEMMA RouteKeepsOrder ==
  ASSUME Shape, NEW c \in Chats, NEW b \in Bundle, RouteToChatWorker(c, b), UNCHANGED buffer,
         held' = Idle, NEW m \in Msgs, NEW n \in Msgs, NotOvertaken(m, n),
         m \in b.ids => ~Boxed(n) /\ ~InTurn(n),
         n \in b.ids => ~Buffered(m)
  PROVE  NotOvertaken(m, n)'
<1>0. PoolOK
  BY ShapeParts
<1>1. UNCHANGED turn
  BY <1>0, RouteCases DEF Adds, pool
<1>2. /\ \A x : ~(Assembling(x)') /\ ~((x \in Flushing)')
      /\ \A x : InTurn(x)' = InTurn(x) /\ Buffered(x)' = Buffered(x)
  BY <1>1, Constants DEF Assembling, Flushing, InTurn, Buffered
<1>3. \A x, w, i : w \in Worker /\ At(x, w, i)' => At(x, w, i) \/ (x \in b.ids /\ i = Len(box[w]) + 1)
  BY <1>0, AtAdds
<1>4. \A x : Boxed(x)' => Boxed(x) \/ x \in b.ids
  BY <1>3 DEF Boxed
<1>5. ASSUME NEW w \in Worker, NEW i \in Nat, NEW j \in Nat, At(m, w, i)', At(n, w, j)'
      PROVE  i <= j
  <2>1. CASE At(m, w, i) /\ At(n, w, j)
    BY <2>1 DEF NotOvertaken
  <2>2. CASE At(m, w, i) /\ j = Len(box[w]) + 1
    <3>1. i \in 1 .. Len(box[w]) /\ Len(box[w]) \in Nat
      BY <1>0, <2>2, AtRange
    <3>2. QED
      BY <2>2, <3>1
  <2>3. CASE m \in b.ids /\ i = Len(box[w]) + 1 /\ At(n, w, j)
    BY <2>3 DEF Boxed
  <2>4. CASE i = Len(box[w]) + 1 /\ j = Len(box[w]) + 1
    BY <2>4
  <2>5. QED
    BY <1>3, <1>5, <2>1, <2>2, <2>3, <2>4
<1>6. /\ ~Assembling(m)'
      /\ Buffered(m)' => ~(n \in Flushing)' /\ ~Boxed(n)' /\ ~InTurn(n)'
      /\ (m \in Flushing)' => ~Boxed(n)' /\ ~InTurn(n)'
      /\ Boxed(m)' => ~InTurn(n)'
  BY <1>2, <1>4 DEF NotOvertaken
<1>7. QED
  BY <1>5, <1>6 DEF NotOvertaken

LEMMA OrderStep == OrderInv /\ [Next]_vars => OrderKept'
<1> SUFFICES ASSUME OrderInv, [Next]_vars, lapses' = 0, NEW m \in Msgs, NEW n \in Msgs, Follows(m, n)'
             PROVE  NotOvertaken(m, n)'
  BY DEF OrderKept
<1> USE DEF OrderInv
<1>0. EventsOK /\ BufferOK /\ PoolOK /\ HistoryOK
  BY ShapeParts
<1>a. lapses = 0
  <2>1. lapses' = lapses \/ lapses' = lapses + 1
    BY DEF Next, DispatcherStep, WorkerStep, Deliver, Recall, ReapExit, OnTimeout, Flush, Receive,
           Prelude, Ingest, HandleRecall, TimerFires, WorkerTakes, TurnStarts, TurnEnds, Replied,
           WorkerLeaves, WorkerPanics, WorkerIdles, DropWorker, Restart, bounds, vars
  <2>2. QED
    BY <1>0, <2>1 DEF HistoryOK
<1>b. /\ OnePlace(m) /\ OnePlace(n) /\ OnePlace(m)' /\ OnePlace(n)'
  <2>1. Shape' /\ CopiesBounded'
    BY ShapeStep, CopiesStep
  <2>2. \A x \in Msgs : OnePlace(x)
    BY <1>a, PlacesExclude DEF PlacesExclusive
  <2>3. \A x \in Msgs : OnePlace(x)'
    <3>1. (Shape /\ CopiesBounded => PlacesExclusive)'
      BY PlacesExclude, PTL
    <3>2. QED
      BY <2>1, <3>1 DEF PlacesExclusive
  <2>4. QED
    BY <2>2, <2>3
<1>c. fate[m] = "open" /\ fate[n] = "open" /\ KeyOf[m] = KeyOf[n] /\ arrival'[m] < arrival'[n]
      /\ KindOf[m] \in {"text", "file"} /\ KindOf[n] \in {"text", "file"}
      /\ arrival'[m] # 0 /\ arrival'[n] # 0
  BY FateStays DEF Follows, Ordered
<1>d. ASSUME arrival'[m] = arrival[m], arrival'[n] = arrival[n] PROVE NotOvertaken(m, n)
  <2>1. Follows(m, n)
    BY <1>c, <1>d DEF Follows, Ordered
  <2>2. QED
    BY <1>a, <2>1 DEF OrderKept
<1>e. ASSUME UNCHANGED arrival, Fewer(m), Fewer(n) PROVE NotOvertaken(m, n)'
  BY <1>d, <1>e, FewerKeepsOrder
<1>1. CASE ReapExit
  BY <1>1, <1>e, EndsShrink, FewerShrinks DEF ReapExit, assembly
<1>2. CASE OnTimeout
  <2>1. UNCHANGED <<box, turn, arrival>>
    BY <1>2 DEF OnTimeout, pool, history
  <2>2. CASE UNCHANGED <<buffer, held>>
    BY <1>e, <2>1, <2>2, FewerFrame
  <2>3. PICK k \in Keys : k = Head(fired).key
    <3>1. Head(fired) \in Timer
      BY <1>0, <1>2 DEF OnTimeout, BufferOK
    <3>2. QED
      BY <3>1 DEF Timer
  <2>4. CASE /\ buffer' = [buffer EXCEPT ![k] = Empty]
             /\ held' = [step |-> "route", msg |-> buffer[k].base, ids |-> buffer[k].ids]
    <3>1. NotOvertaken(m, n)
      BY <1>d, <2>1
    <3>2. \A x \in Msgs : /\ ~Assembling(x)' /\ ((x \in Flushing)' <=> x \in buffer[k].ids)
                          /\ Boxed(x)' = Boxed(x) /\ InTurn(x)' = InTurn(x)
                          /\ \A w, i : At(x, w, i)' = At(x, w, i)
      BY <2>1, <2>4 DEF Assembling, Flushing, Boxed, InTurn, At
    <3>3. \A x \in Msgs : x \in buffer[k].ids => KeyOf[x] = k /\ Buffered(x)
      BY <1>0, <2>3 DEF BufferOK, BufferShape, Buffered
    <3>4. \A x \in Msgs : Buffered(x)' <=> Buffered(x) /\ KeyOf[x] # k
      BY <1>0, <2>4, Constants DEF BufferOK, Buffered
    <3>5. Buffered(m)' => ~(n \in Flushing)' /\ ~Boxed(n)' /\ ~InTurn(n)'
      BY <1>c, <3>1, <3>2, <3>3, <3>4 DEF NotOvertaken
    <3>6. (m \in Flushing)' => ~Boxed(n)' /\ ~InTurn(n)'
      BY <3>1, <3>2, <3>3 DEF NotOvertaken
    <3>7. \A w \in Worker : \A i, j \in Nat : At(m, w, i)' /\ At(n, w, j)' => i <= j
      BY <3>1, <3>2 DEF NotOvertaken
    <3>8. ~Assembling(m)' /\ (Boxed(m)' => ~InTurn(n)')
      BY <3>1, <3>2 DEF NotOvertaken
    <3>9. QED
      BY <3>5, <3>6, <3>7, <3>8 DEF NotOvertaken
  <2>5. QED
    BY <1>2, <2>2, <2>3, <2>4 DEF OnTimeout
<1>3. CASE Flush
  <2>1. UNCHANGED <<buffer, arrival>> /\ held' = Idle
    BY <1>3 DEF Flush, assembly
  <2> DEFINE b == [ids |-> held.ids, base |-> held.msg]
             c == ChatOf[KeyOf[held.msg]]
  <2>2. b \in Bundle /\ c \in Chats /\ RouteToChatWorker(c, b) /\ b.ids = held.ids
    BY <1>3, <1>0, Constants DEF Flush, EventsOK, Bundle
  <2> HIDE DEF b, c
  <2>3. NotOvertaken(m, n) /\ Flushing = held.ids
    BY <1>3, <1>d, <2>1 DEF Flush, Flushing
  <2>4. (m \in b.ids => ~Boxed(n) /\ ~InTurn(n)) /\ (n \in b.ids => ~Buffered(m))
    BY <2>2, <2>3 DEF NotOvertaken
  <2>5. QED
    BY <2>1, <2>2, <2>3, <2>4, RouteKeepsOrder
<1>4. CASE Prelude
  <2>1. PICK x \in Msgs : x = held.msg
    BY <1>0 DEF EventsOK
  <2>2. UNCHANGED <<buffer, box, turn>> /\ held.step = "acknowledge" /\ held.ids = {x}
    BY <1>4, <1>0, <2>1 DEF Prelude, assembly, pool, EventsOK, HeldShape
  <2>3. CASE held' = Idle /\ UNCHANGED arrival
    <3>1. Fewer(m) /\ Fewer(n)
      BY <2>2, <2>3, Constants DEF Fewer, Assembling, Buffered, Flushing, At, InTurn
    <3>2. QED
      BY <1>e, <2>3, <3>1
  <2>4. CASE x \notin recorded /\ Arrives(x) /\ held' = [held EXCEPT !.step = "assemble"]
    <3>1. arrival[x] = 0
      BY <1>a, <2>4 DEF ArrivedIsRecorded
    <3>2. \A y \in Msgs \ {x} : arrival'[y] = arrival[y] /\ arrival[y] < arrival'[x]
      BY <1>0, <2>4, <3>1, NewArrival
    <3>3. m # x
      <4>1. arrival'[m] \in Nat /\ arrival'[n] \in Nat
        BY HistoryStep DEF HistoryOK
      <4>2. QED
        BY <1>c, <3>2, <4>1
    <3>4. \A y \in Msgs : /\ Assembling(y)' <=> y = x
                          /\ ~(y \in Flushing)' /\ Buffered(y)' = Buffered(y) /\ Boxed(y)' = Boxed(y)
                          /\ InTurn(y)' = InTurn(y) /\ \A w, i : At(y, w, i)' = At(y, w, i)
      BY <1>0, <2>1, <2>2, <2>4 DEF EventsOK, Assembling, Flushing, Buffered, Boxed, InTurn, At
    <3>5. CASE n = x
      <4>1. InHand(n)'
        BY <1>0, <2>1, <2>2, <2>4, <3>5 DEF InHand, EventsOK
      <4>2. ~Buffered(n)' /\ ~Boxed(n)' /\ ~InTurn(n)'
        BY <1>b, <4>1 DEF OnePlace
      <4>3. \A w \in Worker, j \in Nat : ~At(n, w, j)'
        BY <4>2 DEF Boxed
      <4>4. QED
        BY <3>3, <3>4, <4>2, <4>3 DEF NotOvertaken
    <3>6. CASE n # x
      <4>1. NotOvertaken(m, n)
        BY <1>d, <3>2, <3>3, <3>6
      <4>2. Fewer(m) /\ Fewer(n)
        BY <3>3, <3>4, <3>6 DEF Fewer
      <4>3. QED
        BY <4>1, <4>2, FewerKeepsOrder
    <3>7. QED
      BY <3>5, <3>6
  <2>5. lapses' = lapses
    BY <1>a
  <2>6. QED
    BY <1>4, <1>0, <2>1, <2>3, <2>4, <2>5 DEF Prelude, HistoryOK
<1>5. CASE Ingest
  <2>1. UNCHANGED arrival /\ held.msg \in Msgs /\ held' = Idle /\ held.step = "assemble"
    BY <1>5, <1>0 DEF Ingest, EventsOK
  <2>2. NotOvertaken(m, n) /\ m # held.msg
    BY <1>d, <2>1 DEF NotOvertaken, Assembling
  <2>3. CASE RouteAtOnce(held.msg) /\ UNCHANGED buffer /\ KindOf[held.msg] \in {"command", "cancel"}
    <3> DEFINE b == [ids |-> {held.msg}, base |-> held.msg]
               c == ChatOf[KeyOf[held.msg]]
    <3>1. b \in Bundle /\ c \in Chats /\ RouteToChatWorker(c, b) /\ b.ids = {held.msg}
      BY <2>1, <2>3, Constants DEF RouteAtOnce, Bundle
    <3> HIDE DEF b, c
    <3>2. m \notin b.ids /\ n \notin b.ids
      BY <1>c, <2>3, <3>1
    <3>3. QED
      BY <2>1, <2>2, <2>3, <3>1, <3>2, RouteKeepsOrder
  <2>4. CASE Merge(held.msg)
    <3>1. UNCHANGED <<box, turn>>
      BY <2>4 DEF Merge, pool
    <3>2. \A y \in Msgs : /\ ~Assembling(y)' /\ ~(y \in Flushing)'
                          /\ Boxed(y)' = Boxed(y) /\ InTurn(y)' = InTurn(y)
                          /\ \A w, i : At(y, w, i)' = At(y, w, i)
      BY <2>1, <3>1, Constants DEF Assembling, Flushing, Boxed, InTurn, At
    <3>3. Buffered(m)' => Buffered(m)
      BY <2>1, <2>2, <2>4, MergeIds DEF Buffered
    <3>4. QED
      BY <2>2, <3>2, <3>3 DEF NotOvertaken
  <2>5. CASE CancelBuffer(held.msg)
    <3>1. \A y \in Msgs : Buffered(y)' => Buffered(y)
      BY <1>0, <2>1, <2>5, Constants DEF CancelBuffer, BufferOK, Buffered
    <3>2. UNCHANGED <<box, turn>>
      BY <2>5 DEF CancelBuffer, pool
    <3>3. Fewer(m) /\ Fewer(n)
      BY <2>1, <3>1, <3>2, Constants DEF Fewer, Assembling, Flushing, At, InTurn
    <3>4. QED
      BY <2>2, <3>3, FewerKeepsOrder
  <2>6. QED
    BY <1>5, <2>3, <2>4, <2>5 DEF Ingest, RouteAtOnce, assembly
<1>6. CASE HandleRecall
  <2>1. UNCHANGED <<arrival, held, box, turn>>
    BY <1>6 DEF HandleRecall
  <2>2. PICK x : x = Head(inbox).msg
    OBVIOUS
  <2>3. buffer' = buffer \/ buffer' = [buffer EXCEPT ![KeyOf[x]] = Empty]
    BY <1>6, <2>2 DEF HandleRecall
  <2>4. \A y \in Msgs : Buffered(y)' => Buffered(y)
    <3>1. CASE buffer' = buffer
      BY <3>1 DEF Buffered
    <3>2. CASE buffer' = [buffer EXCEPT ![KeyOf[x]] = Empty]
      BY <1>0, <3>2, Constants DEF BufferOK, Buffered
    <3>3. QED
      BY <2>3, <3>1, <3>2
  <2>5. Fewer(m) /\ Fewer(n)
    BY <2>1, <2>4 DEF Fewer, Assembling, Flushing, At, InTurn
  <2>6. QED
    BY <1>e, <2>1, <2>5
<1>7. ASSUME NEW w \in Worker, WorkerTakes(w) PROVE NotOvertaken(m, n)'
  <2>1. PICK b : b = Head(box[w])
    OBVIOUS
  <2>2. /\ UNCHANGED <<held, buffer, arrival>> /\ box[w] # <<>> /\ life[w] = "idle"
        /\ box' = [box EXCEPT ![w] = Tail(box[w])] /\ turn' = [turn EXCEPT ![w] = b]
    BY <1>7, <2>1 DEF WorkerTakes, assembly
  <2>3. NotOvertaken(m, n)
    BY <1>d, <2>2
  <2>4. /\ \A x : Assembling(x)' = Assembling(x) /\ Buffered(x)' = Buffered(x)
                  /\ (x \in Flushing)' = (x \in Flushing)
    BY <2>2 DEF Assembling, Buffered, Flushing
  <2>5. \A x, v, i : v \in Worker /\ At(x, v, i)'
                       => IF v = w THEN i \in Nat \ {0} /\ At(x, w, i + 1) ELSE At(x, v, i)
    BY <1>0, <2>2, AtTakes
  <2>6. \A x : Boxed(x)' => Boxed(x)
    BY <2>5 DEF Boxed
  <2>7. \A x \in b.ids : At(x, w, 1)
    <3>1. box[w] \in Seq(Bundle)
      BY <1>0 DEF PoolOK
    <3>2. b = box[w][1] /\ 1 \in DOMAIN box[w]
      BY <2>1, <2>2, <3>1
    <3>3. QED
      BY <3>2 DEF At
  <2>8. InTurn(n)' => InTurn(n) \/ n \in b.ids
    BY <1>0, <2>2 DEF InTurn, PoolOK
  <2>9. n \in b.ids => Boxed(n)
    BY <2>7 DEF Boxed
  <2>10. Boxed(m)' => ~InTurn(n)'
    <3> SUFFICES ASSUME Boxed(m)', n \in b.ids PROVE FALSE
      BY <2>3, <2>6, <2>8 DEF NotOvertaken
    <3>1. PICK v \in Worker, i \in Nat : At(m, v, i)'
      BY DEF Boxed
    <3>2. PICK j \in Nat : At(m, v, j) /\ (v = w => i \in Nat \ {0} /\ j = i + 1)
      BY <2>5, <3>1
    <3>3. v = w
      BY <1>c, <2>7, <3>2, AtIsHeld, SameWorker
    <3>4. At(n, w, 1) /\ At(m, w, j) /\ j > 1
      BY <2>7, <3>2, <3>3
    <3>5. QED
      BY <2>3, <3>4 DEF NotOvertaken
  <2>11. ASSUME NEW v \in Worker, NEW i \in Nat, NEW j \in Nat, At(m, v, i)', At(n, v, j)'
         PROVE  i <= j
    <3>1. CASE v = w
      <4>1. At(m, w, i + 1) /\ At(n, w, j + 1) /\ i + 1 \in Nat /\ j + 1 \in Nat
        BY <2>5, <2>11, <3>1
      <4>2. i + 1 <= j + 1
        BY <2>3, <4>1 DEF NotOvertaken
      <4>3. QED
        BY <4>2
    <3>2. CASE v # w
      BY <2>3, <2>5, <2>11, <3>2 DEF NotOvertaken
    <3>3. QED
      BY <3>1, <3>2
  <2>12. Buffered(m)' => ~(n \in Flushing)' /\ ~Boxed(n)' /\ ~InTurn(n)'
    BY <2>3, <2>4, <2>6, <2>8, <2>9 DEF NotOvertaken
  <2>13. (m \in Flushing)' => ~Boxed(n)' /\ ~InTurn(n)'
    BY <2>3, <2>4, <2>6, <2>8, <2>9 DEF NotOvertaken
  <2>14. ~Assembling(m)'
    BY <2>3, <2>4 DEF NotOvertaken
  <2>15. QED
    BY <2>10, <2>11, <2>12, <2>13, <2>14 DEF NotOvertaken
<1>8. ASSUME NEW w \in Worker, Replied(w) PROVE NotOvertaken(m, n)'
  <2>1. UNCHANGED <<held, buffer, arrival, box>> /\ turn' = [turn EXCEPT ![w] = NoWork]
    BY <1>8 DEF Replied, assembly
  <2>2. Shrinks
    BY <1>0, <2>1, Constants DEF Shrinks, PoolOK
  <2>3. QED
    BY <1>e, <2>1, <2>2, FewerShrinks
<1>9. ASSUME NEW w \in Worker, WorkerLeaves(w) \/ WorkerPanics(w) PROVE NotOvertaken(m, n)'
  <2>1. UNCHANGED <<held, buffer, arrival>>
    BY <1>9 DEF WorkerLeaves, WorkerPanics, DropWorker, assembly
  <2>2. QED
    BY <1>9, <1>e, <2>1, EndsShrink, FewerShrinks
<1>10. CASE Restart
  BY <1>10, <1>c DEF Restart, HistoryOK, Follows, Ordered
<1>11. CASE Receive
  <2>1. UNCHANGED <<buffer, arrival, box, turn>> /\ held'.step = "acknowledge"
    BY <1>11 DEF Receive, assembly, pool, history
  <2>2. Fewer(m) /\ Fewer(n)
    BY <2>1 DEF Fewer, Assembling, Buffered, Flushing, At, InTurn
  <2>3. QED
    BY <1>e, <2>1, <2>2
<1>12. CASE UNCHANGED <<held, buffer, arrival, box, turn>>
  BY <1>12, <1>e, FewerFrame
<1>13. QED
  BY <1>1, <1>2, <1>3, <1>4, <1>5, <1>6, <1>7, <1>8, <1>9, <1>10, <1>11, <1>12
     DEF Next, DispatcherStep, WorkerStep, Deliver, Recall, TimerFires, TurnStarts, TurnEnds,
         WorkerIdles, assembly, pool, history, bounds, vars

LEMMA StageIs ==
  ASSUME PoolOK, NEW m \in Msgs
  PROVE  /\ Stage(m) \in 0 .. 4
         /\ Stage(m) = 4 => InTurn(m)
         /\ Stage(m) = 3 => Boxed(m)
         /\ Stage(m) = 2 => m \in Flushing
         /\ OnePlace(m) => /\ Buffered(m) => Stage(m) = 1
                           /\ m \in Flushing => Stage(m) = 2
                           /\ Boxed(m) => Stage(m) = 3
                           /\ InTurn(m) => Stage(m) = 4
<1>1. Boxed(m) <=> \E w \in Worker : m \in InBox(w)
  <2>1. \A w \in Worker : m \in InBox(w) <=> \E i \in DOMAIN box[w] : m \in box[w][i].ids
    BY DEF InBox
  <2>2. \A w \in Worker : DOMAIN box[w] \subseteq Nat
    <3> SUFFICES ASSUME NEW w \in Worker PROVE DOMAIN box[w] \subseteq Nat
      OBVIOUS
    <3>1. box[w] \in Seq(Bundle)
      BY DEF PoolOK
    <3>2. QED
      BY <3>1
  <2>3. QED
    BY <2>1, <2>2 DEF Boxed, At
<1>2. m \in Flushing => InHand(m)
  BY DEF Flushing, InHand
<1>3. PICK s : s = Stage(m)
  OBVIOUS
<1>4. \/ s = 1 /\ Buffered(m)
      \/ s = 2 /\ m \in Flushing
      \/ s = 3 /\ Boxed(m)
      \/ s = 4 /\ InTurn(m)
      \/ s = 0 /\ ~Buffered(m) /\ m \notin Flushing /\ ~Boxed(m) /\ ~InTurn(m)
  BY <1>1, <1>3 DEF Stage, Buffered, InTurn
<1>5. QED
  BY <1>2, <1>3, <1>4 DEF OnePlace

LEMMA OrderIsFifo == OrderInv => KeyFifo
<1> SUFFICES ASSUME OrderInv, lapses = 0, NEW m \in Ordered, NEW n \in Ordered,
                    KeyOf[m] = KeyOf[n], arrival[m] < arrival[n]
             PROVE  /\ Stage(n) <= Stage(m)
                    /\ \A w \in Worker : \A i, j \in DOMAIN box[w] :
                         m \in box[w][i].ids /\ n \in box[w][j].ids => i <= j
  BY DEF KeyFifo
<1> USE DEF OrderInv
<1>0. EventsOK /\ PoolOK /\ m \in Msgs /\ n \in Msgs
  BY ShapeParts DEF Ordered
<1>1. NotOvertaken(m, n)
  BY <1>0 DEF OrderKept, Follows
<1>2. OnePlace(m)
  BY <1>0, PlacesExclude DEF PlacesExclusive
<1>3. Buffered(m) \/ m \in Flushing \/ Boxed(m) \/ InTurn(m)
  <2>1. Somewhere(m)
    BY <1>0 DEF OpenIsSomewhere, Ordered
  <2>2. InHand(m) => Assembling(m) \/ m \in Flushing
    BY <1>0 DEF InHand, Assembling, Flushing, EventsOK, HeldShape
  <2>3. ASSUME NEW w \in Worker, m \in InBox(w) PROVE Boxed(m)
    <3>1. PICK i \in DOMAIN box[w] : m \in box[w][i].ids
      BY <2>3 DEF InBox
    <3>2. box[w] \in Seq(Bundle)
      BY <1>0 DEF PoolOK
    <3>3. i \in Nat
      BY <3>1, <3>2
    <3>4. QED
      BY <3>1, <3>3 DEF Boxed, At
  <2>4. QED
    BY <1>1, <2>1, <2>2, <2>3 DEF Somewhere, Buffered, Held, InTurn, NotOvertaken
<1>4. Stage(n) <= Stage(m)
  <2>1. PICK s, t : s = Stage(m) /\ t = Stage(n)
    OBVIOUS
  <2>2. /\ t \in 0 .. 4 /\ (t = 4 => InTurn(n)) /\ (t = 3 => Boxed(n)) /\ (t = 2 => n \in Flushing)
    BY <1>0, <2>1, StageIs
  <2>3. /\ Buffered(m) => s = 1
        /\ m \in Flushing => s = 2
        /\ Boxed(m) => s = 3
        /\ InTurn(m) => s = 4
    BY <1>0, <1>2, <2>1, StageIs
  <2>4. t <= s
    BY <1>1, <1>3, <2>2, <2>3 DEF NotOvertaken
  <2>5. QED
    BY <2>1, <2>4
<1>5. ASSUME NEW w \in Worker, NEW i \in DOMAIN box[w], NEW j \in DOMAIN box[w],
             m \in box[w][i].ids, n \in box[w][j].ids
      PROVE  i <= j
  <2>1. box[w] \in Seq(Bundle)
    BY <1>0 DEF PoolOK
  <2>2. i \in Nat /\ j \in Nat
    BY <2>1
  <2>3. QED
    BY <1>1, <1>5, <2>2 DEF NotOvertaken, At
<1>6. QED
  BY <1>4, <1>5

LEMMA InvInit == Init => IInv
<1>1. Init => BufferHasTimer
  BY Constants DEF Init, BufferHasTimer
<1>2. Init => OpenIsSomewhere
  BY DEF Init, OpenIsSomewhere
<1>3. Init => ArrivalsCount /\ ArrivedIsRecorded
  <2> SUFFICES ASSUME Init PROVE ArrivalsCount /\ ArrivedIsRecorded
    OBVIOUS
  <2>1. \A m \in Msgs : arrival[m] = 0
    BY DEF Init
  <2>2. QED
    BY <2>1, ArrivedFinite DEF ArrivalsCount, ArrivedIsRecorded
<1>4. Init => OrderKept
  <2> SUFFICES ASSUME Init, NEW m \in Msgs, Follows(m, m) \/ m \in Ordered PROVE FALSE
    BY DEF OrderKept, Follows, Ordered
  <2>1. arrival[m] = 0
    BY DEF Init
  <2>2. QED
    BY <2>1 DEF Follows, Ordered
<1>5. QED
  BY <1>1, <1>2, <1>3, <1>4, ShapeInit, CopiesInit DEF IInv

LEMMA InvStep == IInv /\ [Next]_vars => IInv'
BY ShapeStep, CopiesStep, TimerStep, SomewhereStep, ArrivalStep, OrderStep DEF IInv, OrderInv

(* The messages of one user in one chat are executed in arrival order,     *)
(* through buffer, flush, mailbox and turn, across the workers the chat    *)
(* has over time, as long as no dedup probe fails.                         *)
THEOREM ExecutedInOrder == Spec => []KeyFifo
<1>1. Spec => []IInv
  BY InvInit, InvStep, PTL DEF Spec
<1>2. IInv => KeyFifo
  BY OrderIsFifo DEF IInv, OrderInv
<1>3. QED
  BY <1>1, <1>2, PTL
=============================================================================
