------------------------------ MODULE PluginRpc ------------------------------
(***************************************************************************)
(* The host side of one plugin process (crates/snaca-channel-host/src/     *)
(* supervisor.rs, approval.rs, question.rs): the callers of RPCs, the      *)
(* writer and reader tasks between them and the child's pipes, the         *)
(* approval and question registries, the handshake and the shutdown, and   *)
(* the part of the dispatcher that acknowledges inbound events.            *)
(*                                                                         *)
(* A call is a model value used once, as a request id is.  Payloads, the   *)
(* token check and malformed lines are left out: such a line is dropped.   *)
(***************************************************************************)
EXTENDS Naturals, Sequences, FiniteSets

CONSTANTS
  Calls,             \* the calls ever made
  NoCall,
  WRITER_BUFFER,     \* capacity of the writer's channel
  INBOUND_BUFFER,    \* capacity of the inbound channel
  PIPE,              \* lines a pipe holds
  Workloads,         \* bound: what may happen in one behaviour: [kind: what each call
                     \* is for, lines: unsolicited lines the plugin writes, by type]
  MaxDrops, MaxHangs \* bounds: callers that are cancelled, plugins that hang

LineType == {"message", "advertise", "callback"}
CallKind == {"initialize", "plain", "acknowledge", "approval", "question", "shutdown", "none"}

ASSUME PluginRpcAssumption ==
  /\ NoCall \notin Calls /\ IsFiniteSet(Calls)
  /\ {WRITER_BUFFER, INBOUND_BUFFER, PIPE} \subseteq Nat \ {0}
  /\ {MaxDrops, MaxHangs} \subseteq Nat
  /\ Workloads \subseteq [kind : [Calls -> CallKind], lines : [LineType -> Nat]]
  /\ \A w \in Workloads :
       w.lines["message"] <= Cardinality({c \in Calls : w.kind[c] = "acknowledge"})

(* A question that times out makes a second request, question.cancel.      *)
Leg     == {"request", "cancel"}
Request == [call : Calls, leg : Leg]

(* "expired": the timeout has fired, the slot is still to be released.     *)
Ended == {"ok", "refused", "closed", "timeout", "decided"}
Phase == Ended \cup {"new", "queueing", "waiting", "expired", "deciding", "undecided", "dropped"}

VARIABLES
  handle,             \* the PluginHandle
  phase, leg,         \* callers
  reply, decision,    \* their oneshot channels
  pending, tokens,    \* the request map; the approval and question registries
  outq, writer,       \* the writer task and its channel
  reader, holding,    \* the reader task and what it is blocked on delivering
  inbound,            \* the inbound channel
  acking,             \* the acknowledge call the dispatcher waits for
  child, stdin, stdout, todo, seen, \* the plugin process
  answered, clicked,  \* requests it answered, cards the user clicked
  kind,               \* what each call is for, "none": never made
  lines,              \* unsolicited lines the plugin may still write
  drops, hangs

caller == <<phase, leg, reply, decision>>
slots  == <<pending, tokens>>
tasks  == <<outq, writer, reader, holding>>
plugin == <<child, stdin, stdout, todo, seen, answered, clicked>>
bounds == <<kind, lines, drops, hangs>>
vars == <<handle, caller, slots, tasks, inbound, acking, plugin, bounds>>

Req(c)    == [call |-> c, leg |-> leg[c]]
Acks      == {c \in Calls : kind[c] = "acknowledge"}
IsCard(c) == kind[c] \in {"approval", "question"}
Line(t, c, l, ok) == [type |-> t, call |-> c, leg |-> l, ok |-> ok]
Plain(t)  == Line(t, NoCall, "request", TRUE)

Init ==
  /\ \E w \in Workloads : kind = w.kind /\ lines = w.lines
  /\ handle = IF \E c \in Calls : kind[c] = "initialize" THEN "starting" ELSE "running"
  /\ phase = [c \in Calls |-> "new"] /\ leg = [c \in Calls |-> "request"]
  /\ reply = [c \in Calls |-> "none"] /\ decision = [c \in Calls |-> FALSE]
  /\ pending = {} /\ tokens = {}
  /\ outq = <<>> /\ writer = "up" /\ reader = "up" /\ holding = "none"
  /\ inbound = <<>> /\ acking = NoCall
  /\ child = "up" /\ stdin = <<>> /\ stdout = <<>> /\ todo = {} /\ seen = {}
  /\ answered = {} /\ clicked = {}
  /\ drops = 0 /\ hangs = 0

-----------------------------------------------------------------------------
(* Callers.  call_raw registers the request, waits for room in the         *)
(* writer's channel (no timeout covers this wait), then for the answer.    *)

Goes(c, p) == phase' = [phase EXCEPT ![c] = p]

Register(c) ==
  /\ Goes(c, "queueing")
  /\ pending' = pending \cup {Req(c)}
  /\ tokens'  = IF IsCard(c) THEN tokens \cup {c} ELSE tokens
  /\ UNCHANGED <<leg, reply, decision>>

MayBegin(c) ==
  CASE kind[c] = "initialize"  -> handle = "starting"
    [] kind[c] = "shutdown"    -> handle = "running"
    [] kind[c] \in {"acknowledge", "none"} -> FALSE
    [] OTHER                     -> handle \in {"running", "stopping", "stopped"}

Begin(c) ==
  /\ phase[c] = "new" /\ MayBegin(c)
  /\ Register(c)
  /\ handle' = IF kind[c] = "shutdown" THEN "stopping" ELSE handle
  /\ UNCHANGED <<tasks, inbound, acking, plugin, bounds>>

(* Mutant: the writer's channel has no bound.                              *)
MutEnqueue(c) ==
  /\ phase[c] = "queueing" /\ writer = "up"
  /\ outq' = Append(outq, Req(c))
  /\ Goes(c, "waiting")
  /\ UNCHANGED <<handle, leg, reply, decision, slots, writer, reader, holding, inbound, acking,
                 plugin, bounds>>

Enqueue(c) ==
  /\ phase[c] = "queueing" /\ writer = "up" /\ Len(outq) < WRITER_BUFFER
  /\ outq' = Append(outq, Req(c))
  /\ Goes(c, "waiting")
  /\ UNCHANGED <<handle, leg, reply, decision, slots, writer, reader, holding, inbound, acking,
                 plugin, bounds>>

(* How a caller leaves with a failure: its request and its token are       *)
(* removed.  The failure of a cancel request is only logged.               *)
Release(c, p) ==
  /\ pending' = pending \ {Req(c)}
  /\ tokens'  = tokens \ {c}
  /\ Goes(c, IF leg[c] = "cancel" THEN "timeout" ELSE p)
  /\ UNCHANGED <<leg, reply, decision>>

SendFails(c) ==
  /\ phase[c] = "queueing" /\ writer = "down"
  /\ Release(c, "closed")
  /\ UNCHANGED <<handle, tasks, inbound, acking, plugin, bounds>>

(* Mutant: an answer that is an error counts as the plugin's consent.      *)
MutAnswered(c) ==
  /\ phase[c] = "waiting" /\ reply[c] # "none"
  /\ Goes(c, IF leg[c] = "cancel" THEN "timeout" ELSE IF IsCard(c) THEN "deciding" ELSE "ok")
  /\ UNCHANGED <<handle, leg, reply, decision, slots, tasks, inbound, acking, plugin, bounds>>

Answered(c) ==
  /\ phase[c] = "waiting" /\ reply[c] # "none"
  /\ IF reply[c] = "error" THEN Release(c, "refused")
     ELSE /\ Goes(c, IF leg[c] = "cancel" THEN "timeout"
                     ELSE IF IsCard(c) THEN "deciding" ELSE "ok")
          /\ UNCHANGED <<leg, reply, decision, slots>>
  /\ UNCHANGED <<handle, tasks, inbound, acking, plugin, bounds>>

(* Mutant: the wait for an answer has no timeout.                          *)
MutExpires(c) ==
  /\ phase[c] = "deciding" /\ ~decision[c] /\ Goes(c, "undecided")
  /\ UNCHANGED <<handle, leg, reply, decision, slots, tasks, inbound, acking, plugin, bounds>>

Expires(c) ==
  /\ \/ phase[c] = "waiting"  /\ reply[c] = "none" /\ Goes(c, "expired")
     \/ phase[c] = "deciding" /\ ~decision[c]      /\ Goes(c, "undecided")
  /\ UNCHANGED <<handle, leg, reply, decision, slots, tasks, inbound, acking, plugin, bounds>>

(* Mutant: a timed-out request stays registered.                           *)
MutGivesUp(c) ==
  /\ phase[c] \in {"expired", "undecided"}
  /\ Goes(c, "timeout")
  /\ UNCHANGED <<handle, leg, reply, decision, slots, tasks, inbound, acking, plugin, bounds>>

(* A question whose time is up also tells the plugin to cancel its card.   *)
GivesUp(c) ==
  /\ \/ phase[c] = "expired" \/ (phase[c] = "undecided" /\ kind[c] = "approval")
     /\ Release(c, "timeout")
  /\ UNCHANGED <<handle, tasks, inbound, acking, plugin, bounds>>

CancelsCard(c) ==
  /\ phase[c] = "undecided" /\ kind[c] = "question"
  /\ tokens'  = tokens \ {c}
  /\ pending' = pending \cup {[call |-> c, leg |-> "cancel"]}
  /\ leg'     = [leg EXCEPT ![c] = "cancel"]
  /\ reply'   = [reply EXCEPT ![c] = "none"]
  /\ Goes(c, "queueing")
  /\ UNCHANGED <<handle, decision, tasks, inbound, acking, plugin, bounds>>

Decided(c) ==
  /\ phase[c] = "deciding" /\ decision[c]
  /\ Goes(c, "decided")
  /\ UNCHANGED <<handle, leg, reply, decision, slots, tasks, inbound, acking, plugin, bounds>>

(* The turn is recalled or its worker aborted: the future is dropped where *)
(* it stands, and nothing it registered is released.                       *)
Drop(c) ==
  /\ phase[c] \in {"queueing", "waiting", "deciding"} /\ drops < MaxDrops
  /\ kind[c] \in {"plain", "approval", "question"}
  /\ drops' = drops + 1
  /\ Goes(c, "dropped")
  /\ UNCHANGED <<handle, leg, reply, decision, slots, tasks, inbound, acking, plugin, kind, lines,
                 hangs>>

-----------------------------------------------------------------------------
(* The handle: a failed handshake kills the child and aborts the tasks,    *)
(* and so does shutdown once its RPC has ended, however it ended.          *)

TearDown ==
  /\ writer' = "down" /\ outq' = <<>> /\ reader' = "down" /\ holding' = "none"
  /\ child' = "dead" /\ stdin' = <<>> /\ stdout' = <<>> /\ todo' = {}
  /\ UNCHANGED <<caller, slots, inbound, acking, seen, answered, clicked, bounds>>

Handshake(c) ==
  /\ kind[c] = "initialize" /\ handle = "starting" /\ phase[c] \in Ended
  /\ \/ phase[c] = "ok" /\ handle' = "running"
        /\ UNCHANGED <<caller, slots, tasks, inbound, acking, plugin, bounds>>
     \/ phase[c] # "ok" /\ handle' = "failed" /\ TearDown

(* Mutant: the child is killed only when it answered the shutdown request. *)
MutStop(c) ==
  /\ kind[c] = "shutdown" /\ handle = "stopping" /\ phase[c] = "ok"
  /\ handle' = "stopped"
  /\ TearDown

Stop(c) ==
  /\ kind[c] = "shutdown" /\ handle = "stopping" /\ phase[c] \in Ended
  /\ handle' = "stopped"
  /\ TearDown

-----------------------------------------------------------------------------
(* The writer and reader tasks.                                            *)

WriterWrites ==
  /\ writer = "up" /\ outq # <<>> /\ child # "dead" /\ Len(stdin) < PIPE
  /\ outq'  = Tail(outq)
  /\ stdin' = Append(stdin, Head(outq))
  /\ UNCHANGED <<handle, caller, slots, writer, reader, holding, inbound, acking, child, stdout,
                 todo, seen, answered, clicked, bounds>>

(* The pipe is broken: the task ends and its channel closes.  Requests in  *)
(* it are lost, their callers keep waiting.                                *)
WriterFails ==
  /\ writer = "up" /\ outq # <<>> /\ child = "dead"
  /\ writer' = "down" /\ outq' = <<>>
  /\ UNCHANGED <<handle, caller, slots, reader, holding, inbound, acking, plugin, bounds>>

Reads(t) ==
  /\ reader = "up" /\ holding = "none" /\ stdout # <<>> /\ Head(stdout).type = t
  /\ stdout' = Tail(stdout)
  /\ UNCHANGED <<handle, phase, leg, outq, writer, reader, inbound, acking, child, stdin, todo,
                 seen, answered, clicked, bounds>>

(* The oneshot of a caller that no longer listens ignores the answer.      *)
ReadsResponse ==
  /\ Reads("response")
  /\ LET l == Head(stdout) p == [call |-> l.call, leg |-> l.leg] IN
     /\ pending' = pending \ {p}
     /\ reply' = IF p \in pending /\ phase[l.call] \in {"queueing", "waiting"}
                 THEN [reply EXCEPT ![l.call] = IF l.ok THEN "result" ELSE "error"]
                 ELSE reply
  /\ UNCHANGED <<decision, tokens, holding>>

(* A click takes the token; one that finds no token is passed on as an     *)
(* inbound event.                                                          *)
ReadsCallback ==
  /\ Reads("callback")
  /\ LET c == Head(stdout).call IN
     /\ tokens'   = tokens \ {c}
     /\ decision' = IF c \in tokens THEN [decision EXCEPT ![c] = TRUE] ELSE decision
     /\ holding'  = IF c \in tokens THEN "none" ELSE "callback"
  /\ UNCHANGED <<reply, pending>>

ReadsMessage ==
  /\ Reads("message")
  /\ holding' = "message"
  /\ UNCHANGED <<reply, decision, slots>>

ReadsAdvertise ==
  /\ Reads("advertise")
  /\ holding' = "reply"
  /\ UNCHANGED <<reply, decision, slots>>

(* The bounded sends the reader blocks on.                                 *)
ReaderForwards ==
  /\ holding \in {"message", "callback"} /\ Len(inbound) < INBOUND_BUFFER
  /\ inbound' = Append(inbound, holding)
  /\ holding' = "none"
  /\ UNCHANGED <<handle, caller, slots, outq, writer, reader, acking, plugin, bounds>>

ReaderReplies ==
  /\ holding = "reply"
  /\ \/ /\ writer = "up" /\ Len(outq) < WRITER_BUFFER
        /\ outq' = Append(outq, [call |-> NoCall, leg |-> "request"])
        /\ UNCHANGED reader
     \/ writer = "down" /\ reader' = "down" /\ UNCHANGED outq
  /\ holding' = "none"
  /\ UNCHANGED <<handle, caller, slots, writer, inbound, acking, plugin, bounds>>

ReaderEnds ==
  /\ reader = "up" /\ holding = "none" /\ stdout = <<>> /\ child = "dead"
  /\ reader' = "down"
  /\ UNCHANGED <<handle, caller, slots, outq, writer, holding, inbound, acking, plugin, bounds>>

-----------------------------------------------------------------------------
(* The dispatcher: one event at a time; a message is acknowledged, and     *)
(* whether that succeeds does not matter.                                  *)

Unused  == {c \in Acks : phase[c] = "new"}
NextAck == CHOOSE c \in Unused : TRUE

DispatcherTakes ==
  /\ handle \in {"running", "stopping", "stopped"} /\ acking = NoCall /\ inbound # <<>>
  /\ inbound' = Tail(inbound)
  /\ \/ /\ Head(inbound) = "message"
        /\ Unused # {} /\ Register(NextAck) /\ acking' = NextAck
     \/ Head(inbound) = "callback" /\ UNCHANGED <<acking, caller, slots>>
  /\ UNCHANGED <<handle, tasks, plugin, bounds>>

(* Mutant: the dispatcher goes on only after a successful acknowledge.     *)
MutDispatcherDone ==
  /\ acking # NoCall /\ phase[acking] = "ok"
  /\ acking' = NoCall
  /\ UNCHANGED <<handle, caller, slots, tasks, inbound, plugin, bounds>>

DispatcherDone ==
  /\ acking # NoCall /\ phase[acking] \in Ended
  /\ acking' = NoCall
  /\ UNCHANGED <<handle, caller, slots, tasks, inbound, plugin, bounds>>

-----------------------------------------------------------------------------
(* The plugin: it reads its stdin, answers in any order or never, and      *)
(* writes lines of its own.  A hung plugin does nothing.                   *)

PluginReads ==
  /\ child = "up" /\ stdin # <<>>
  /\ stdin' = Tail(stdin)
  /\ LET r == Head(stdin) new == IF r.call = NoCall THEN {} ELSE {r} IN
       todo' = todo \cup new /\ seen' = seen \cup new
  /\ UNCHANGED <<handle, caller, slots, tasks, inbound, acking, child, stdout, answered, clicked,
                 bounds>>

PluginAnswers(r, ok) ==
  /\ child = "up" /\ r \in todo /\ Len(stdout) < PIPE
  /\ todo'   = todo \ {r}
  /\ stdout' = Append(stdout, Line("response", r.call, r.leg, ok))
  /\ answered' = IF ok THEN answered \cup {r} ELSE answered
  /\ UNCHANGED <<handle, caller, slots, tasks, inbound, acking, child, stdin, seen, clicked, bounds>>

Writes(line) ==
  /\ child = "up" /\ Len(stdout) < PIPE /\ lines[line.type] > 0
  /\ lines'  = [lines EXCEPT ![line.type] = @ - 1]
  /\ stdout' = Append(stdout, line)
  /\ UNCHANGED <<handle, caller, slots, tasks, inbound, acking, child, stdin, todo, seen, answered,
                 kind, drops, hangs>>

PluginWrites == \E t \in {"message", "advertise"} : Writes(Plain(t)) /\ UNCHANGED clicked

(* The user clicks a card the plugin has presented, maybe before the       *)
(* plugin has answered the request, maybe after the host gave up.          *)
UserClicks(c) ==
  /\ IsCard(c) /\ [call |-> c, leg |-> "request"] \in seen
  /\ Writes(Line("callback", c, "request", TRUE))
  /\ clicked' = clicked \cup {c}

PluginHangs ==
  /\ child = "up" /\ hangs < MaxHangs
  /\ child' = "hung" /\ hangs' = hangs + 1
  /\ UNCHANGED <<handle, caller, slots, tasks, inbound, acking, stdin, stdout, todo, seen,
                 answered, clicked, kind, lines, drops>>

PluginDies ==
  /\ child # "dead"
  /\ child' = "dead" /\ stdin' = <<>> /\ todo' = {}
  /\ UNCHANGED <<handle, caller, slots, tasks, inbound, acking, stdout, seen, answered, clicked, bounds>>

CallerStep(c) ==
  \/ Enqueue(c) \/ SendFails(c) \/ Answered(c) \/ Expires(c) \/ GivesUp(c)
  \/ CancelsCard(c) \/ Decided(c) \/ Handshake(c) \/ Stop(c)

WriterStep == WriterWrites \/ WriterFails

ReaderStep ==
  \/ ReadsResponse \/ ReadsCallback \/ ReadsMessage \/ ReadsAdvertise
  \/ ReaderForwards \/ ReaderReplies \/ ReaderEnds

DispatcherStep == DispatcherTakes \/ DispatcherDone

Next ==
  \/ \E c \in Calls : Begin(c) \/ CallerStep(c) \/ Drop(c) \/ UserClicks(c)
  \/ WriterStep \/ ReaderStep \/ DispatcherStep
  \/ PluginReads \/ PluginWrites \/ PluginHangs \/ PluginDies
  \/ \E r \in todo, ok \in BOOLEAN : PluginAnswers(r, ok)

Spec == Init /\ [][Next]_vars

(* Every task of the host runs, every timeout fires, and a plugin that     *)
(* does not hang reads its stdin; it need not answer anything.             *)
Fairness ==
  /\ \A c \in Calls : WF_vars(CallerStep(c))
  /\ WF_vars(WriterStep) /\ WF_vars(ReaderStep) /\ WF_vars(DispatcherStep)
  /\ WF_vars(PluginReads)

FairSpec == Spec /\ Fairness

-----------------------------------------------------------------------------
(* Properties.                                                             *)

(* Every variable stays in its declared range.                             *)
TypeOK ==
  /\ handle \in {"starting", "running", "failed", "stopping", "stopped"}
  /\ phase \in [Calls -> Phase] /\ leg \in [Calls -> Leg]
  /\ reply \in [Calls -> {"none", "result", "error"}] /\ decision \in [Calls -> BOOLEAN]
  /\ pending \subseteq Request /\ tokens \subseteq Calls
  /\ outq \in Seq([call : Calls \cup {NoCall}, leg : Leg]) /\ Len(outq) <= WRITER_BUFFER
  /\ {writer, reader} \subseteq {"up", "down"}
  /\ holding \in {"none", "message", "callback", "reply"}
  /\ inbound \in Seq({"message", "callback"}) /\ Len(inbound) <= INBOUND_BUFFER
  /\ acking \in Acks \cup {NoCall}
  /\ child \in {"up", "hung", "dead"}
  /\ Len(stdin) <= PIPE /\ Len(stdout) <= PIPE
  /\ todo \subseteq seen /\ seen \subseteq Request /\ answered \subseteq seen
  /\ clicked \subseteq Calls /\ kind \in [Calls -> CallKind] /\ lines \in [LineType -> Nat]

(* A caller that got its result, or gave up, has left neither a request    *)
(* nor a token behind, whenever the answer, the click and the timeout met. *)
SlotsReleased ==
  \A c \in Calls : phase[c] \in Ended =>
    c \notin tokens /\ \A p \in pending : p.call # c

(* Success is reported only for what the plugin answered, a decision only  *)
(* for a card the user clicked: answers that come late or out of order     *)
(* never reach another call, nor the cancel request the question's.        *)
ResultsAreReal ==
  \A c \in Calls :
    /\ phase[c] = "ok" => [call |-> c, leg |-> "request"] \in answered
    /\ phase[c] \in {"deciding", "undecided", "decided"} =>
         [call |-> c, leg |-> "request"] \in answered
    /\ phase[c] = "decided" => c \in clicked

(* Once its request is in the writer's channel, a call ends, whatever the  *)
(* plugin does.                                                            *)
SentCallsEnd ==
  \A c \in Calls :
    phase[c] \in {"waiting", "deciding"} ~> phase[c] \in Ended \cup {"queueing", "dropped"}

(* Unless the plugin hangs, the circular wait of a full inbound channel    *)
(* (the reader waits for the dispatcher, the dispatcher for an answer only *)
(* the reader can deliver) resolves, and every event is taken.             *)
EventsAreTaken ==
  handle = "running" /\ inbound # <<>> ~> inbound = <<>> \/ child = "hung"

(* Unless the plugin hangs, shutdown leaves no live child behind.          *)
ShutdownCompletes == handle = "stopping" ~> handle = "stopped" \/ child = "hung"

=============================================================================
