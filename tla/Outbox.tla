------------------------------- MODULE Outbox -------------------------------
(***************************************************************************)
(* The durable outbox of snaca-server for one plugin: the caller's inline  *)
(* first try, the worker that polls the table, the per-chat actors that    *)
(* replay rows, the retry policy and the update -> send fallback           *)
(* (crates/snaca-server/src/outbox.rs), over the SQL statements of         *)
(* crates/snaca-state/src/db.rs.  Every SQL statement is one atomic step;  *)
(* everything between two awaits of one task is one step.                  *)
(*                                                                         *)
(* Time is abstract: nextAttempt says whether next_attempt_at has passed.  *)
(* The inline cushion (30 s) equals the RPC timeout (30 s), so a first try *)
(* may still be outstanding when its row comes due.                        *)
(*                                                                         *)
(* Row ids are handed out in creation order, so id order is created_at     *)
(* order.                                                                  *)
(***************************************************************************)
EXTENDS Naturals, Sequences, FiniteSets

CONSTANTS
  Chats,         \* chat ids served by the plugin
  InputKinds,    \* kinds of row a caller asks for, a subset of Kind
  MAX_ATTEMPTS,  \* attempts after which a transport failure is final
  BATCH,         \* rows one tick may claim
  MaxRow,        \* bound: rows of the table
  MaxMessages,   \* bound: deliveries asked for by callers
  MaxCopies,     \* bound: copies of one row waiting in its actor's mailbox
  MaxFaults,     \* bound: crashes, lost writes, absent plugin slots, mailbox races
  MaxForced,     \* bound: operator retries
  MaxMishaps     \* bound: faults and retries together

Kind   == {"send_message", "update_message", "file_upload"}
Status == {"absent", "pending", "delivered", "failed", "purged"}

ASSUME OutboxAssumption ==
  /\ Chats # {}
  /\ InputKinds \subseteq Kind
  /\ MAX_ATTEMPTS \in Nat \ {0}
  /\ BATCH \in Nat \ {0}
  /\ {MaxRow, MaxMessages, MaxCopies, MaxFaults, MaxForced, MaxMishaps} \subseteq Nat

Row   == 1 .. MaxRow
RowId == 0 .. MaxRow               \* 0: no row
Job   == [row : Row, att : Nat]    \* att: the attempts column when claimed

(* Where one RPC of a sender stands.  "accepted"/"rejected": the plugin    *)
(* answered, the sender has not read the answer.  "fallback": the row is   *)
(* marked failed and the replacement row is still to be inserted.          *)
Phase == {"idle", "sent", "accepted", "rejected", "fallback"}

VARIABLES
  status, attempts, nextAttempt, kind, chat,   \* the table, by row
  origin,     \* the row a fallback replaces, 0 for a caller's row
  inline,     \* phase of the caller's first try, by row
  batch,      \* rows claimed by this tick and not routed yet
  actor,      \* does a live actor serve the chat?
  mailbox,    \* the actor's unbounded channel
  work,       \* the row the actor is dispatching
  limbo,      \* rows with a request its sender gave up on, still with the plugin
  shown,      \* rows the user can see in the chat
  refused,    \* rows the plugin answered with a terminal error
  slot,       \* does the registry hold a handle for the plugin?
  faults, forced

table   == <<status, attempts, nextAttempt, kind, chat, origin>>
workers == <<batch, actor, mailbox, work>>
peer    == <<limbo, shown, refused>>
vars == <<table, inline, workers, peer, slot, faults, forced>>

NoWork == [row |-> 0, att |-> 0, phase |-> "idle"]

Settled(r) == status[r] \in {"delivered", "failed"}
Stored(r)  == status[r] \notin {"absent", "purged"}
Fresh(r)   == status[r] = "absent" /\ \A q \in Row : q < r => status[q] # "absent"

Init ==
  /\ status   = [r \in Row |-> "absent"]
  /\ attempts = [r \in Row |-> 0]
  /\ nextAttempt = [r \in Row |-> "later"]
  /\ kind     = [r \in Row |-> "send_message"]
  /\ chat     = [r \in Row |-> CHOOSE c \in Chats : TRUE]
  /\ origin   = [r \in Row |-> 0]
  /\ inline   = [r \in Row |-> "idle"]
  /\ batch    = {}
  /\ actor    = [c \in Chats |-> "none"]
  /\ mailbox  = [c \in Chats |-> <<>>]
  /\ work     = [c \in Chats |-> NoWork]
  /\ limbo    = {}
  /\ shown    = {}
  /\ refused  = {}
  /\ slot     = "held"
  /\ faults   = 0
  /\ forced   = 0

-----------------------------------------------------------------------------
(* The SQL statements.  UPDATE ... WHERE id = ? touches nothing when the   *)
(* row has been purged, and none of them looks at the current status.      *)

Insert(r, c, k, o, d) ==
  /\ Fresh(r)
  /\ status'   = [status   EXCEPT ![r] = "pending"]
  /\ attempts' = [attempts EXCEPT ![r] = 0]
  /\ nextAttempt' = [nextAttempt EXCEPT ![r] = d]
  /\ kind'     = [kind     EXCEPT ![r] = k]
  /\ chat'     = [chat     EXCEPT ![r] = c]
  /\ origin'   = [origin   EXCEPT ![r] = o]

SetStatus(r, s) ==
  /\ status' = IF Stored(r) THEN [status EXCEPT ![r] = s] ELSE status
  /\ UNCHANGED <<attempts, nextAttempt, kind, chat, origin>>

MarkDelivered(r) == SetStatus(r, "delivered")
MarkFailed(r)    == SetStatus(r, "failed")

(* Mutant: the reschedule statement also writes status = 'pending'.        *)
MutReschedule(r) ==
  /\ attempts' = IF Stored(r) THEN [attempts EXCEPT ![r] = @ + 1] ELSE attempts
  /\ nextAttempt' = IF Stored(r) THEN [nextAttempt EXCEPT ![r] = "later"] ELSE nextAttempt
  /\ status' = IF Stored(r) THEN [status EXCEPT ![r] = "pending"] ELSE status
  /\ UNCHANGED <<kind, chat, origin>>

Reschedule(r) ==
  /\ attempts' = IF Stored(r) THEN [attempts EXCEPT ![r] = @ + 1] ELSE attempts
  /\ nextAttempt' = IF Stored(r) THEN [nextAttempt EXCEPT ![r] = "later"] ELSE nextAttempt
  /\ UNCHANGED <<status, kind, chat, origin>>

MayFail == faults < MaxFaults /\ faults + forced < MaxMishaps

(* A statement that fails is logged and otherwise ignored by its caller.   *)
LostWrite == MayFail /\ faults' = faults + 1 /\ UNCHANGED table

Write(A) == (A /\ UNCHANGED faults) \/ LostWrite

-----------------------------------------------------------------------------
(* Callers: insert the row, then try the RPC at once.                      *)

Enqueue(r, c, k) ==
  /\ Cardinality({q \in Row : status[q] # "absent" /\ origin[q] = 0}) < MaxMessages
  /\ Insert(r, c, k, 0, "later")
  /\ inline' = [inline EXCEPT ![r] = "sent"]
  /\ UNCHANGED <<workers, peer, slot, faults, forced>>

(* Mutant: a failed update is given up like any other row.                 *)
MutAfterFailure(r) == "idle"

AfterFailure(r) == IF kind[r] = "update_message" THEN "fallback" ELSE "idle"

(* A request whose answer the sender no longer waits for may still be      *)
(* processed by the plugin, unless the plugin already did.                 *)
GiveUpOn(r, ph) ==
  /\ limbo' = IF ph = "sent" THEN limbo \cup {r} ELSE limbo
  /\ UNCHANGED <<shown, refused>>

(* Mutant: the request counts as delivered once it is written.             *)
MutInlineDelivered(r) ==
  /\ inline[r] \in {"sent", "accepted"}
  /\ Write(MarkDelivered(r))
  /\ inline' = [inline EXCEPT ![r] = "idle"]
  /\ UNCHANGED <<workers, peer, slot, forced>>

InlineDelivered(r) ==
  /\ inline[r] = "accepted"
  /\ Write(MarkDelivered(r))
  /\ inline' = [inline EXCEPT ![r] = "idle"]
  /\ UNCHANGED <<workers, peer, slot, forced>>

(* Disconnected, Timeout, SendClosed or Io: no MAX_ATTEMPTS check here.    *)
InlineTransport(r) ==
  /\ inline[r] \in {"sent", "accepted", "rejected"}
  /\ Write(Reschedule(r))
  /\ GiveUpOn(r, inline[r])
  /\ inline' = [inline EXCEPT ![r] = "idle"]
  /\ UNCHANGED <<workers, slot, forced>>

InlineTerminal(r) ==
  /\ inline[r] = "rejected"
  /\ Write(MarkFailed(r))
  /\ inline' = [inline EXCEPT ![r] = AfterFailure(r)]
  /\ UNCHANGED <<workers, peer, slot, forced>>

(* enqueue_update_fallback_inner: a new send_message row, due at once.     *)
FallbackFor(r, q) == Write(Insert(q, chat[r], "send_message", r, "due"))

InlineFallback(r) ==
  /\ inline[r] = "fallback"
  /\ \E q \in Row : Fresh(q) /\ FallbackFor(r, q)
  /\ inline' = [inline EXCEPT ![r] = "idle"]
  /\ UNCHANGED <<workers, peer, slot, forced>>

-----------------------------------------------------------------------------
(* The worker: one tick claims a batch, then routes it row by row.  The    *)
(* claim marks nothing: a row stays claimable while a copy of it waits.    *)

Copies(r) == Cardinality({i \in DOMAIN mailbox[chat[r]] : mailbox[chat[r]][i].row = r})

(* Mutant: the claim skips rows that have one attempt left.                *)
MutClaimable ==
  {r \in Row : /\ status[r] = "pending" /\ nextAttempt[r] = "due" /\ Copies(r) < MaxCopies
               /\ attempts[r] + 1 < MAX_ATTEMPTS}

Claimable == {r \in Row : status[r] = "pending" /\ nextAttempt[r] = "due" /\ Copies(r) < MaxCopies}

Claimed == {r \in Claimable : Cardinality({q \in Claimable : q < r}) < BATCH}

(* Without a handle, or with nothing due, the tick changes nothing.        *)
Tick ==
  /\ batch = {}
  /\ batch' = IF slot = "held" THEN {[row |-> r, att |-> attempts[r]] : r \in Claimed} ELSE {}
  /\ UNCHANGED <<table, inline, actor, mailbox, work, peer, slot, faults, forced>>

(* route_outbox_row: an actor whose channel is closed is replaced, so the  *)
(* map entry it may have left behind plays no part.                        *)
Route ==
  \E j \in batch :
    LET c == chat[j.row] IN
    /\ \A i \in batch : j.row <= i.row
    /\ batch'   = batch \ {j}
    /\ mailbox' = [mailbox EXCEPT ![c] = Append(@, j)]
    /\ actor'   = [actor EXCEPT ![c] = "live"]
    /\ UNCHANGED <<table, inline, work, peer, slot, faults, forced>>

ActorTake(c) ==
  /\ actor[c] = "live" /\ work[c].phase = "idle" /\ mailbox[c] # <<>>
  /\ work' = [work EXCEPT ![c] = [row   |-> Head(mailbox[c]).row,
                                  att   |-> Head(mailbox[c]).att,
                                  phase |-> "sent"]]
  /\ mailbox' = [mailbox EXCEPT ![c] = Tail(@)]
  /\ UNCHANGED <<table, inline, batch, actor, peer, slot, faults, forced>>

(* Mutant: the actor forgets the row but not that it was busy.             *)
MutRest(c) == work' = [work EXCEPT ![c].row = 0]

Rest(c) == work' = [work EXCEPT ![c] = NoWork]

ActorDelivered(c) ==
  /\ work[c].phase = "accepted"
  /\ Write(MarkDelivered(work[c].row))
  /\ Rest(c)
  /\ UNCHANGED <<inline, batch, actor, mailbox, peer, slot, forced>>

(* The decision uses the attempts value the claim read, not the row's.     *)
ActorReschedule(c) ==
  /\ work[c].phase \in {"sent", "accepted", "rejected"}
  /\ work[c].att + 1 < MAX_ATTEMPTS
  /\ Write(Reschedule(work[c].row))
  /\ GiveUpOn(work[c].row, work[c].phase)
  /\ Rest(c)
  /\ UNCHANGED <<inline, batch, actor, mailbox, slot, forced>>

FailWork(c) ==
  /\ Write(MarkFailed(work[c].row))
  /\ work' = [work EXCEPT ![c] =
       IF AfterFailure(work[c].row) = "fallback" THEN [@ EXCEPT !.phase = "fallback"]
                                                 ELSE NoWork]
  /\ UNCHANGED <<inline, batch, actor, mailbox, slot, forced>>

(* Mutant: one attempt too few.                                            *)
MutActorExhausted(c) ==
  /\ work[c].phase \in {"sent", "accepted", "rejected"}
  /\ work[c].att + 2 >= MAX_ATTEMPTS
  /\ GiveUpOn(work[c].row, work[c].phase)
  /\ FailWork(c)

ActorExhausted(c) ==
  /\ work[c].phase \in {"sent", "accepted", "rejected"}
  /\ work[c].att + 1 >= MAX_ATTEMPTS
  /\ GiveUpOn(work[c].row, work[c].phase)
  /\ FailWork(c)

ActorTerminal(c) ==
  /\ work[c].phase = "rejected"
  /\ FailWork(c)
  /\ UNCHANGED peer

ActorFallback(c) ==
  /\ work[c].phase = "fallback"
  /\ \E q \in Row : Fresh(q) /\ FallbackFor(work[c].row, q)
  /\ Rest(c)
  /\ UNCHANGED <<inline, batch, actor, mailbox, peer, slot, forced>>

(* ACTOR_IDLE_TTL: the sleep can win the select against a job sent at the  *)
(* same instant, and the job is dropped with the channel.                  *)
ActorIdle(c) ==
  /\ actor[c] = "live" /\ work[c].phase = "idle"
  /\ \/ mailbox[c] = <<>> /\ UNCHANGED faults
     \/ mailbox[c] # <<>> /\ MayFail /\ faults' = faults + 1
  /\ actor'   = [actor EXCEPT ![c] = "none"]
  /\ mailbox' = [mailbox EXCEPT ![c] = <<>>]
  /\ UNCHANGED <<table, inline, batch, work, peer, slot, forced>>

-----------------------------------------------------------------------------
(* The plugin and the IM platform behind it.  A keyed request that was     *)
(* already shown is not shown again, and an update rewrites its message.   *)

AnswerInline(r, ph) == inline[r] = "sent" /\ inline' = [inline EXCEPT ![r] = ph]

AnswerActor(c, ph) ==
  work[c].phase = "sent" /\ work' = [work EXCEPT ![c].phase = ph]

PluginAccepts ==
  \/ \E r \in Row :
       /\ AnswerInline(r, "accepted")
       /\ shown' = shown \cup {r}
       /\ UNCHANGED <<table, workers, limbo, refused, slot, faults, forced>>
  \/ \E c \in Chats :
       /\ AnswerActor(c, "accepted")
       /\ shown' = shown \cup {work[c].row}
       /\ UNCHANGED <<table, inline, batch, actor, mailbox, limbo, refused, slot, faults, forced>>

PluginRejects ==
  \/ \E r \in Row :
       /\ AnswerInline(r, "rejected")
       /\ refused' = refused \cup {r}
       /\ UNCHANGED <<table, workers, limbo, shown, slot, faults, forced>>
  \/ \E c \in Chats :
       /\ AnswerActor(c, "rejected")
       /\ refused' = refused \cup {work[c].row}
       /\ UNCHANGED <<table, inline, batch, actor, mailbox, limbo, shown, slot, faults, forced>>

(* A request nobody waits for is processed late, or dies with the plugin.  *)
LimboEnds ==
  \E r \in limbo :
    /\ limbo' = limbo \ {r}
    /\ shown' \in {shown, shown \cup {r}}
    /\ UNCHANGED <<table, inline, workers, refused, slot, faults, forced>>

-----------------------------------------------------------------------------
(* The environment.                                                        *)

TimePasses(r) ==
  /\ status[r] = "pending" /\ nextAttempt[r] = "later"
  /\ nextAttempt' = [nextAttempt EXCEPT ![r] = "due"]
  /\ UNCHANGED <<status, attempts, kind, chat, origin, inline, workers, peer, slot, faults, forced>>

(* The server dies and restarts: only the table survives.  The worker's    *)
(* graceful shutdown aborts its actors and has the same effect.            *)
Crash ==
  /\ MayFail
  /\ faults' = faults + 1
  /\ limbo'  = limbo \cup {r \in Row : inline[r] = "sent"}
                     \cup {work[c].row : c \in {d \in Chats : work[d].phase = "sent"}}
  /\ inline'  = [r \in Row |-> "idle"]
  /\ batch'   = {}
  /\ actor'   = [c \in Chats |-> "none"]
  /\ mailbox' = [c \in Chats |-> <<>>]
  /\ work'    = [c \in Chats |-> NoWork]
  /\ slot'    = "held"
  /\ UNCHANGED <<table, shown, refused, forced>>

(* A reload takes the registry slot away and puts a new handle back.       *)
SlotTaken ==
  /\ slot = "held" /\ MayFail
  /\ slot' = "none" /\ faults' = faults + 1
  /\ UNCHANGED <<table, inline, workers, peer, forced>>

SlotFilled ==
  /\ slot = "none" /\ slot' = "held"
  /\ UNCHANGED <<table, inline, workers, peer, faults, forced>>

(* Admin: POST /outbox/{id}/retry.                                         *)
ForceRetry(r) ==
  /\ Stored(r) /\ forced < MaxForced /\ faults + forced < MaxMishaps
  /\ forced' = forced + 1
  /\ status' = [status EXCEPT ![r] = "pending"]
  /\ nextAttempt' = [nextAttempt EXCEPT ![r] = "due"]
  /\ UNCHANGED <<attempts, kind, chat, origin, inline, workers, peer, slot, faults>>

InUse(r) ==
  \/ inline[r] # "idle" \/ r \in limbo
  \/ \E j \in batch : j.row = r
  \/ \E c \in Chats : work[c].row = r \/ \E i \in DOMAIN mailbox[c] : mailbox[c][i].row = r

(* Delivered rows are deleted after seven days; no request lives that long.*)
Purge(r) ==
  /\ status[r] = "delivered" /\ ~InUse(r)
  /\ status' = [status EXCEPT ![r] = "purged"]
  /\ UNCHANGED <<attempts, nextAttempt, kind, chat, origin, inline, workers, peer, slot, faults, forced>>

InlineStep(r) ==
  InlineDelivered(r) \/ InlineTransport(r) \/ InlineTerminal(r) \/ InlineFallback(r)

ActorStep(c) ==
  \/ ActorTake(c) \/ ActorDelivered(c) \/ ActorReschedule(c)
  \/ ActorExhausted(c) \/ ActorTerminal(c) \/ ActorFallback(c)

Next ==
  \/ \E r \in Row, c \in Chats, k \in InputKinds : Enqueue(r, c, k)
  \/ \E r \in Row : InlineStep(r) \/ TimePasses(r) \/ ForceRetry(r) \/ Purge(r)
  \/ \E c \in Chats : ActorStep(c) \/ ActorIdle(c)
  \/ Tick \/ Route
  \/ PluginAccepts \/ PluginRejects \/ LimboEnds
  \/ Crash \/ SlotTaken \/ SlotFilled

Spec == Init /\ [][Next]_vars

(* Every RPC ends, at the latest by its 30 s timeout; the worker ticks;    *)
(* time passes; a reload puts a handle back.                               *)
Fairness ==
  /\ \A r \in Row : WF_vars(InlineStep(r)) /\ WF_vars(TimePasses(r))
  /\ \A c \in Chats : WF_vars(ActorStep(c))
  /\ WF_vars(Tick) /\ WF_vars(Route) /\ WF_vars(SlotFilled)

FairSpec == Spec /\ Fairness

-----------------------------------------------------------------------------
(* Properties.                                                             *)

TableOK ==
  /\ status      \in [Row -> Status]
  /\ attempts    \in [Row -> Nat]
  /\ nextAttempt \in [Row -> {"due", "later"}]
  /\ kind        \in [Row -> Kind]
  /\ chat        \in [Row -> Chats]
  /\ origin      \in [Row -> RowId]

WorkersOK ==
  /\ batch   \in SUBSET Job
  /\ actor   \in [Chats -> {"none", "live"}]
  /\ mailbox \in [Chats -> Seq(Job)]
  /\ work    \in [Chats -> [row : RowId, att : Nat, phase : Phase]]
  /\ \A c \in Chats : work[c].phase # "idle" => work[c].row \in Row

PeerOK == limbo \in SUBSET Row /\ shown \in SUBSET Row /\ refused \in SUBSET Row

(* Every variable stays in its declared range, and a busy actor works on a *)
(* row.                                                                    *)
TypeOK ==
  /\ TableOK /\ WorkersOK /\ PeerOK
  /\ inline \in [Row -> Phase]
  /\ slot \in {"held", "none"} /\ faults \in Nat /\ forced \in Nat

(* A row is recorded delivered only if the user saw its content, whatever  *)
(* duplicate claims, lost answers and restarts happened on the way.        *)
DeliveredWasShown ==
  \A r \in Row : status[r] \in {"delivered", "purged"} => r \in shown

(* A row is given up only when the plugin refused it, or after the table   *)
(* has recorded all but the last of its MAX_ATTEMPTS attempts: the stale   *)
(* attempts value of a duplicate claim never fails a row early.            *)
FailedWasJustified ==
  \A r \in Row : status[r] = "failed" =>
    r \in refused \/ attempts[r] + 1 >= MAX_ATTEMPTS

(* outbox.rs says of a failed update that a replacement row is enqueued    *)
(* "in the same call so the assistant's reply still reaches the user":     *)
(* the row exists, or its sender is about to insert it.                    *)
UpdateIsReplaced ==
  \A r \in Row : status[r] = "failed" /\ kind[r] = "update_message" =>
    \/ \E q \in Row : origin[q] = r
    \/ inline[r] = "fallback"
    \/ \E c \in Chats : work[c].row = r /\ work[c].phase = "fallback"

(* Without a crash or a lost statement between the two writes, it holds:   *)
(* neither a duplicate claim nor a late answer swallows the replacement.   *)
UpdateIsReplacedUnlessFault == faults = 0 => UpdateIsReplaced

(* The outbox keeps the promise of module Delivery.  A row is an item; its *)
(* status is the outcome, its attempts column the tries recorded.          *)
OutcomeOf(s) ==
  CASE s = "absent" -> "none" [] s = "pending" -> "queued" [] s = "purged" -> "forgotten"
    [] OTHER -> s

Outcome == [r \in Row |-> OutcomeOf(status[r])]

(* Rows a sender asks the plugin for, or will: the caller's first try, and *)
(* copies claimed earlier, in the batch, a mailbox or an actor's hands.    *)
Asking == {"sent", "accepted", "rejected"}

UnderWay ==
  {r \in Row :
     \/ inline[r] \in Asking
     \/ \E j \in batch : j.row = r
     \/ \E c \in Chats :
          \/ work[c].row = r /\ work[c].phase \in Asking
          \/ \E i \in DOMAIN mailbox[c] : mailbox[c][i].row = r}

Promise == INSTANCE Delivery WITH
  Item <- Row, outcome <- Outcome, seen <- shown, tries <- attempts, asked <- forced,
  underway <- UnderWay

(* Every step of callers, worker, actors, plugin, operator or crash is one *)
(* step of the promise or none: what is recorded delivered was seen, what  *)
(* is given up was refused or had its attempts, and no late duplicate, no  *)
(* lost answer and no restart reopens a settled row.  A duplicate claimed  *)
(* before the row was settled may still turn delivered into failed or      *)
(* back, as neither statement looks at the status; once none is left only  *)
(* an operator does.                                                       *)
ImplementsDelivery == Promise!Spec

(* A row that waits for delivery is eventually delivered or given up.      *)
PendingIsSettled == \A r \in Row : status[r] = "pending" ~> Settled(r)
=============================================================================
