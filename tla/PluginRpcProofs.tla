--------------------------- MODULE PluginRpcProofs ---------------------------
(***************************************************************************)
(* Theorems about PluginRpc, for every set of calls, every workload and    *)
(* every capacity of the channels and pipes.                               *)
(***************************************************************************)
EXTENDS PluginRpc, TLAPS

(* What travels between the tasks is typed: the requests in the child's    *)
(* stdin, the lines in its stdout.                                         *)
Sent    == [call : Calls \cup {NoCall}, leg : Leg]
Written ==
  [type : {"response", "callback"}, call : Calls, leg : Leg, ok : BOOLEAN]
    \cup {Plain(t) : t \in {"message", "advertise"}}

WireTyped ==
  /\ stdin \in Seq(Sent) /\ stdout \in Seq(Written)
  /\ drops \in Nat /\ hangs \in Nat

(* The request map holds the request its caller is still busy with, under  *)
(* the leg the caller is in, and no answer to it has been delivered: the   *)
(* reader takes the entry before it answers.                               *)
Busy == {"queueing", "waiting", "expired", "dropped"}

PendingIsUnanswered ==
  \A p \in pending :
    /\ phase[p.call] \in Busy
    /\ p.leg = leg[p.call]
    /\ phase[p.call] # "dropped" => reply[p.call] = "none"

(* A token belongs to a card whose question or approval is undecided.      *)
TokenIsUndecided ==
  \A c \in tokens :
    /\ IsCard(c) /\ leg[c] = "request" /\ ~decision[c]
    /\ phase[c] \notin Ended \cup {"new"}

(* A call not yet made has no answer and no decision.                      *)
NewIsFresh ==
  \A c \in Calls : phase[c] = "new" => leg[c] = "request" /\ reply[c] = "none" /\ ~decision[c]

(* Everything on its way back from the plugin was caused by it: a positive *)
(* response by an answer, a callback by a click.                           *)
WireIsReal ==
  \A i \in 1 .. Len(stdout) :
    /\ stdout[i].type = "response" /\ stdout[i].ok =>
         [call |-> stdout[i].call, leg |-> stdout[i].leg] \in answered
    /\ stdout[i].type = "callback" => stdout[i].call \in clicked

(* What the oneshot channels hold was caused by it too, and an answer to   *)
(* the question's request is never mistaken for one to its cancel.         *)
RepliesAreReal ==
  \A c \in Calls :
    /\ reply[c] = "result" /\ leg[c] = "request" => Req(c) \in answered
    /\ decision[c] => c \in clicked

(* The inductive invariant, in three parts: types, what callers hold, and  *)
(* what they are told.                                                     *)
SlotsInv == PendingIsUnanswered /\ TokenIsUndecided /\ NewIsFresh
RealInv  == WireIsReal /\ RepliesAreReal /\ ResultsAreReal
IInv     == TypeOK /\ WireTyped /\ SlotsInv /\ RealInv

-----------------------------------------------------------------------------
(* Types.                                                                  *)

(* The two things every caller's step does to the callers and slots.       *)
LEMMA GoesType ==
  ASSUME TypeOK, NEW c \in Calls, NEW p \in Phase, Goes(c, p)
  PROVE  phase' \in [Calls -> Phase]
BY DEF TypeOK, Goes

LEMMA RegisterType ==
  ASSUME TypeOK, NEW c \in Calls, Register(c)
  PROVE  /\ phase' \in [Calls -> Phase] /\ leg' \in [Calls -> Leg]
         /\ reply' \in [Calls -> {"none", "result", "error"}] /\ decision' \in [Calls -> BOOLEAN]
         /\ pending' \subseteq Request /\ tokens' \subseteq Calls
<1>1. "queueing" \in Phase
  BY DEF Phase
<1>2. Req(c) \in Request
  BY DEF Req, Request, TypeOK
<1>3. QED
  BY <1>1, <1>2, GoesType DEF Register, TypeOK

LEMMA ReleaseType ==
  ASSUME TypeOK, NEW c \in Calls, NEW p \in Phase, Release(c, p)
  PROVE  /\ phase' \in [Calls -> Phase] /\ leg' \in [Calls -> Leg]
         /\ reply' \in [Calls -> {"none", "result", "error"}] /\ decision' \in [Calls -> BOOLEAN]
         /\ pending' \subseteq Request /\ tokens' \subseteq Calls
<1>1. (IF leg[c] = "cancel" THEN "timeout" ELSE p) \in Phase
  BY DEF Phase, Ended
<1>2. QED
  BY <1>1, GoesType DEF Release, TypeOK

(* The next acknowledgement is a call of its own.                          *)
LEMMA NextAckIsNew ==
  ASSUME Unused # {} PROVE NextAck \in Acks /\ phase[NextAck] = "new" /\ NextAck \in Calls
BY DEF NextAck, Unused, Acks

LEMMA TypeInit == Init => TypeOK /\ WireTyped
<1> SUFFICES ASSUME Init PROVE TypeOK /\ WireTyped
  OBVIOUS
<1>1. PICK w \in Workloads : kind = w.kind /\ lines = w.lines
  BY DEF Init
<1>2. kind \in [Calls -> CallKind] /\ lines \in [LineType -> Nat]
  BY <1>1, PluginRpcAssumption
<1>3. WRITER_BUFFER \in Nat /\ INBOUND_BUFFER \in Nat /\ PIPE \in Nat
  BY PluginRpcAssumption
<1>4. QED
  BY <1>2, <1>3 DEF Init, TypeOK, WireTyped, Phase, Leg, Acks

LEMMA TypeStep == TypeOK /\ WireTyped /\ [Next]_vars => TypeOK' /\ WireTyped'
<1> SUFFICES ASSUME TypeOK, WireTyped, [Next]_vars PROVE TypeOK' /\ WireTyped'
  OBVIOUS
<1> USE PluginRpcAssumption
<1>1. ASSUME NEW c \in Calls, Begin(c) PROVE TypeOK' /\ WireTyped'
  BY <1>1, RegisterType DEF Begin, TypeOK, WireTyped, tasks, plugin, bounds, Acks
<1>2. ASSUME NEW c \in Calls, Enqueue(c) PROVE TypeOK' /\ WireTyped'
  <2>1. "waiting" \in Phase
    BY DEF Phase
  <2>2. phase' \in [Calls -> Phase]
    BY <1>2, <2>1, GoesType DEF Enqueue
  <2>3. outq' \in Seq([call : Calls \cup {NoCall}, leg : Leg]) /\ Len(outq') <= WRITER_BUFFER
    BY <1>2 DEF Enqueue, TypeOK, Req
  <2>4. QED
    BY <1>2, <2>2, <2>3 DEF Enqueue, TypeOK, WireTyped, slots, plugin, bounds, Acks
<1>3. ASSUME NEW c \in Calls, SendFails(c) PROVE TypeOK' /\ WireTyped'
  BY <1>3, ReleaseType DEF SendFails, TypeOK, WireTyped, tasks, plugin, bounds, Acks, Phase, Ended
<1>4. ASSUME NEW c \in Calls, Answered(c) PROVE TypeOK' /\ WireTyped'
  <2>1. CASE reply[c] = "error"
    BY <1>4, <2>1, ReleaseType DEF Answered, TypeOK, WireTyped, tasks, plugin, bounds, Acks, Phase, Ended
  <2>2. CASE reply[c] # "error"
    <3>1. (IF leg[c] = "cancel" THEN "timeout" ELSE IF IsCard(c) THEN "deciding" ELSE "ok") \in Phase
      BY DEF Phase, Ended
    <3>2. phase' \in [Calls -> Phase]
      BY <1>4, <2>2, <3>1, GoesType DEF Answered
    <3>3. QED
      BY <1>4, <2>2, <3>2 DEF Answered, TypeOK, WireTyped, slots, tasks, plugin, bounds, Acks
  <2>3. QED
    BY <2>1, <2>2
<1>5. ASSUME NEW c \in Calls, Expires(c) \/ Decided(c) \/ Drop(c) PROVE TypeOK' /\ WireTyped'
  <2>1. \E p \in Phase : Goes(c, p)
    BY <1>5 DEF Expires, Decided, Drop, Phase, Ended
  <2>2. phase' \in [Calls -> Phase]
    BY <2>1, GoesType
  <2>3. QED
    BY <1>5, <2>2, SMTT(60)
       DEF Expires, Decided, Drop, TypeOK, WireTyped, slots, tasks, plugin, bounds, Acks
<1>6. ASSUME NEW c \in Calls, GivesUp(c) PROVE TypeOK' /\ WireTyped'
  BY <1>6, ReleaseType DEF GivesUp, TypeOK, WireTyped, tasks, plugin, bounds, Acks, Phase, Ended
<1>7. ASSUME NEW c \in Calls, CancelsCard(c) PROVE TypeOK' /\ WireTyped'
  <2>1. phase' \in [Calls -> Phase]
    BY <1>7, GoesType DEF CancelsCard, Phase
  <2>2. leg' \in [Calls -> Leg] /\ reply' \in [Calls -> {"none", "result", "error"}]
    BY <1>7 DEF CancelsCard, TypeOK, Leg
  <2>3. pending' \subseteq Request /\ tokens' \subseteq Calls
    BY <1>7 DEF CancelsCard, TypeOK, Leg, Request
  <2>4. QED
    BY <1>7, <2>1, <2>2, <2>3 DEF CancelsCard, TypeOK, WireTyped, tasks, plugin, bounds, Acks
<1>8. ASSUME NEW c \in Calls, Handshake(c) \/ Stop(c) PROVE TypeOK' /\ WireTyped'
  <2>1. CASE TearDown
    BY <1>8, <2>1 DEF Handshake, Stop, TearDown, TypeOK, WireTyped, caller, slots, bounds, Acks
  <2>2. CASE handle' = "running" /\ UNCHANGED <<caller, slots, tasks, inbound, acking, plugin, bounds>>
    BY <2>2 DEF TypeOK, WireTyped, caller, slots, tasks, plugin, bounds, Acks
  <2>3. QED
    BY <1>8, <2>1, <2>2 DEF Handshake, Stop
<1>9. CASE WriterStep
  <2>1. CASE WriterWrites
    <3>1. outq \in Seq(Sent) /\ outq # <<>>
      BY <2>1 DEF WriterWrites, TypeOK, Sent
    <3>2. outq' \in Seq(Sent) /\ Len(outq') <= WRITER_BUFFER /\ Head(outq) \in Sent
      BY <2>1, <3>1 DEF WriterWrites, TypeOK
    <3>3. stdin' \in Seq(Sent) /\ Len(stdin') <= PIPE
      BY <2>1, <3>2 DEF WriterWrites, TypeOK, WireTyped
    <3>4. QED
      BY <2>1, <3>2, <3>3 DEF WriterWrites, TypeOK, WireTyped, Sent, caller, slots, bounds, Acks
  <2>2. CASE WriterFails
    BY <2>2 DEF WriterFails, TypeOK, WireTyped, caller, slots, plugin, bounds, Acks
  <2>3. QED
    BY <1>9, <2>1, <2>2 DEF WriterStep
<1>10. CASE ReaderStep
  <2>1. ASSUME NEW t, Reads(t) PROVE stdout' \in Seq(Written) /\ Len(stdout') <= PIPE /\ Head(stdout) \in Written
    BY <2>1 DEF Reads, WireTyped, TypeOK
  <2>2. CASE ReadsResponse
    <3>1. Head(stdout).type = "response" /\ Head(stdout) \in Written
      BY <2>1, <2>2 DEF ReadsResponse, Reads
    <3>2. Head(stdout).call \in Calls
      BY <3>1 DEF Written, Plain, Line
    <3>3. reply' \in [Calls -> {"none", "result", "error"}]
      BY <2>2, <3>2 DEF ReadsResponse, TypeOK
    <3>4. QED
      BY <2>1, <2>2, <3>3 DEF ReadsResponse, Reads, TypeOK, WireTyped, bounds, Acks
  <2>3. CASE ReadsCallback
    BY <2>1, <2>3 DEF ReadsCallback, Reads, TypeOK, WireTyped, bounds, Acks
  <2>4. CASE ReadsMessage \/ ReadsAdvertise
    BY <2>1, <2>4 DEF ReadsMessage, ReadsAdvertise, Reads, TypeOK, WireTyped, slots, bounds, Acks
  <2>5. CASE ReaderForwards
    BY <2>5 DEF ReaderForwards, TypeOK, WireTyped, caller, slots, plugin, bounds, Acks
  <2>6. CASE ReaderReplies
    <3>1. [call |-> NoCall, leg |-> "request"] \in Sent
      BY DEF Sent, Leg
    <3>2. outq' \in Seq(Sent) /\ Len(outq') <= WRITER_BUFFER
      <4>1. outq \in Seq(Sent) /\ Len(outq) <= WRITER_BUFFER
        BY DEF TypeOK, Sent
      <4>2. CASE Len(outq) < WRITER_BUFFER /\ outq' = Append(outq, [call |-> NoCall, leg |-> "request"])
        BY <3>1, <4>1, <4>2
      <4>3. CASE outq' = outq
        BY <4>1, <4>3
      <4>4. QED
        BY <2>6, <4>2, <4>3 DEF ReaderReplies
    <3>3. {writer', reader'} \subseteq {"up", "down"} /\ holding' = "none"
      BY <2>6 DEF ReaderReplies, TypeOK
    <3>4. QED
      BY <2>6, <3>2, <3>3 DEF ReaderReplies, TypeOK, WireTyped, Sent, caller, slots, plugin, bounds, Acks
  <2>7. CASE ReaderEnds
    BY <2>7 DEF ReaderEnds, TypeOK, WireTyped, caller, slots, plugin, bounds, Acks
  <2>8. QED
    BY <1>10, <2>2, <2>3, <2>4, <2>5, <2>6, <2>7 DEF ReaderStep
<1>11. CASE DispatcherStep
  <2>1. CASE DispatcherTakes
    <3>1. inbound' \in Seq({"message", "callback"}) /\ Len(inbound') <= INBOUND_BUFFER
      BY <2>1 DEF DispatcherTakes, TypeOK
    <3>2. CASE Unused # {} /\ Register(NextAck) /\ acking' = NextAck
      <4>1. NextAck \in Acks /\ NextAck \in Calls
        BY <3>2, NextAckIsNew
      <4>2. QED
        BY <2>1, <3>1, <3>2, <4>1, RegisterType
           DEF DispatcherTakes, TypeOK, WireTyped, tasks, plugin, bounds, Acks
    <3>3. CASE UNCHANGED <<acking, caller, slots>>
      BY <2>1, <3>1, <3>3 DEF DispatcherTakes, TypeOK, WireTyped, caller, slots, tasks, plugin, bounds, Acks
    <3>4. QED
      BY <2>1, <3>2, <3>3 DEF DispatcherTakes
  <2>2. CASE DispatcherDone
    BY <2>2 DEF DispatcherDone, TypeOK, WireTyped, caller, slots, tasks, plugin, bounds, Acks
  <2>3. QED
    BY <1>11, <2>1, <2>2 DEF DispatcherStep
<1>12. CASE PluginReads
  <2>1. Head(stdin) \in Sent /\ stdin' \in Seq(Sent) /\ Len(stdin') <= PIPE
    BY <1>12 DEF PluginReads, WireTyped, TypeOK
  <2>2. Head(stdin).call # NoCall => Head(stdin) \in Request
    BY <2>1 DEF Sent, Request
  <2>3. todo' \subseteq seen' /\ seen' \subseteq Request /\ answered' \subseteq seen'
    BY <1>12, <2>2 DEF PluginReads, TypeOK
  <2>4. QED
    BY <1>12, <2>1, <2>3 DEF PluginReads, TypeOK, WireTyped, caller, slots, tasks, bounds, Acks
<1>13. CASE PluginWrites
  <2>1. PICK t \in {"message", "advertise"} : Writes(Plain(t)) /\ UNCHANGED clicked
    BY <1>13 DEF PluginWrites
  <2>2. Plain(t) \in Written /\ Plain(t).type = t /\ t \in LineType
    BY DEF Written, Plain, Line, LineType
  <2>3. stdout' \in Seq(Written) /\ Len(stdout') <= PIPE /\ lines' \in [LineType -> Nat]
    BY <2>1, <2>2 DEF Writes, TypeOK, WireTyped
  <2>4. QED
    BY <2>1, <2>3 DEF Writes, TypeOK, WireTyped, caller, slots, tasks, Acks
<1>14. ASSUME NEW c \in Calls, UserClicks(c) PROVE TypeOK' /\ WireTyped'
  <2>1. PICK l : l = Line("callback", c, "request", TRUE)
    OBVIOUS
  <2>2. l \in Written /\ l.type = "callback" /\ "callback" \in LineType
    BY <2>1 DEF Written, Line, LineType, Leg
  <2>3. stdout' \in Seq(Written) /\ Len(stdout') <= PIPE /\ lines' \in [LineType -> Nat]
    <3>1. Writes(l)
      BY <1>14, <2>1 DEF UserClicks
    <3>2. QED
      BY <3>1, <2>2 DEF Writes, TypeOK, WireTyped
  <2>4. QED
    BY <1>14, <2>3 DEF UserClicks, Writes, TypeOK, WireTyped, caller, slots, tasks, Acks
<1>15. CASE PluginHangs \/ PluginDies
  <2>1. CASE PluginHangs
    BY <2>1 DEF PluginHangs, TypeOK, WireTyped, caller, slots, tasks, Acks
  <2>2. CASE PluginDies
    BY <2>2 DEF PluginDies, TypeOK, WireTyped, caller, slots, tasks, bounds, Acks
  <2>3. QED
    BY <1>15, <2>1, <2>2
<1>16. ASSUME NEW r \in todo, NEW ok \in BOOLEAN, PluginAnswers(r, ok) PROVE TypeOK' /\ WireTyped'
  <2>1. r \in Request /\ r \in seen
    BY DEF TypeOK
  <2>2. Line("response", r.call, r.leg, ok) \in Written
    BY <2>1 DEF Line, Written, Request
  <2>3. QED
    BY <1>16, <2>1, <2>2 DEF PluginAnswers, TypeOK, WireTyped, caller, slots, tasks, bounds, Acks
<1>17. CASE UNCHANGED vars
  BY <1>17 DEF vars, TypeOK, WireTyped, caller, slots, tasks, plugin, bounds, Acks
<1>18. QED
  BY <1>1, <1>2, <1>3, <1>4, <1>5, <1>6, <1>7, <1>8, <1>9, <1>10, <1>11, <1>12, <1>13, <1>14,
     <1>15, <1>16, <1>17 DEF Next, CallerStep

(* Every variable of the model stays in its range, whatever callers, tasks *)
(* and the plugin process do.                                              *)
THEOREM TypeCorrect == Spec => []TypeOK
<1>1. Init => TypeOK /\ WireTyped
  BY TypeInit
<1>2. (TypeOK /\ WireTyped) /\ [Next]_vars => (TypeOK /\ WireTyped)'
  BY TypeStep
<1>3. QED
  BY <1>1, <1>2, PTL DEF Spec

-----------------------------------------------------------------------------
(* The request map and the registries.                                     *)

(* A step that leaves callers and slots alone cannot break it.             *)
LEMMA SlotsSame ==
  ASSUME SlotsInv, UNCHANGED <<caller, slots, kind>> PROVE SlotsInv'
BY DEF SlotsInv, PendingIsUnanswered, TokenIsUndecided, NewIsFresh, caller, slots, IsCard

LEMMA RegisterSlots ==
  ASSUME TypeOK, SlotsInv, NEW c \in Calls, phase[c] = "new", Register(c), UNCHANGED kind
  PROVE  SlotsInv'
<1>1. phase' = [phase EXCEPT ![c] = "queueing"] /\ UNCHANGED <<leg, reply, decision>>
  BY DEF Register, Goes
<1>2. PendingIsUnanswered'
  <2>1. \A p \in pending : p.call # c
    BY DEF SlotsInv, PendingIsUnanswered, Busy
  <2>2. \A p \in pending' : p \in pending \/ p = Req(c)
    BY DEF Register
  <2>3. reply[c] = "none"
    BY DEF SlotsInv, NewIsFresh
  <2>4. QED
    BY <1>1, <2>1, <2>2, <2>3 DEF SlotsInv, PendingIsUnanswered, Busy, TypeOK, Req, Request
<1>3. TokenIsUndecided'
  <2>1. leg[c] = "request" /\ ~decision[c]
    BY DEF SlotsInv, NewIsFresh
  <2>2. \A d \in tokens' : d \in tokens \/ (d = c /\ IsCard(c))
    BY DEF Register
  <2>3. QED
    BY <1>1, <2>1, <2>2 DEF SlotsInv, TokenIsUndecided, TypeOK, IsCard, Ended
<1>4. NewIsFresh'
  BY <1>1 DEF SlotsInv, NewIsFresh, TypeOK
<1>5. QED
  BY <1>2, <1>3, <1>4 DEF SlotsInv

(* Releasing the slots lets the call end with any outcome.                 *)
LEMMA ReleaseSlots ==
  ASSUME TypeOK, SlotsInv, NEW c \in Calls, NEW p \in Ended, phase[c] # "new",
         Release(c, p), UNCHANGED kind
  PROVE  SlotsInv'
<1>1. PICK q \in Ended : phase' = [phase EXCEPT ![c] = q]
  BY DEF Release, Goes, Ended
<1>2. UNCHANGED <<leg, reply, decision>>
  BY DEF Release
<1>3. PendingIsUnanswered'
  <2>1. \A r \in pending' : r \in pending /\ r.call # c
    BY DEF Release, SlotsInv, PendingIsUnanswered, Req, TypeOK, Request
  <2>2. QED
    BY <1>1, <1>2, <2>1 DEF SlotsInv, PendingIsUnanswered, TypeOK, Request
<1>4. TokenIsUndecided'
  BY <1>1, <1>2 DEF Release, SlotsInv, TokenIsUndecided, TypeOK, IsCard
<1>5. NewIsFresh'
  BY <1>1, <1>2 DEF SlotsInv, NewIsFresh, TypeOK, Ended
<1>6. QED
  BY <1>3, <1>4, <1>5 DEF SlotsInv

(* An answer finds its caller's slots already empty, so that nothing is    *)
(* left to release when the call ends with it.                             *)
LEMMA AnsweredSlots ==
  ASSUME TypeOK, SlotsInv, NEW c \in Calls, Answered(c)
  PROVE  SlotsInv'
<1>0. UNCHANGED kind
  BY DEF Answered, bounds
<1>1. CASE reply[c] = "error"
  BY <1>0, <1>1, ReleaseSlots DEF Answered, Ended
<1>2. CASE reply[c] # "error"
  <2>1. UNCHANGED <<leg, reply, decision, pending, tokens>>
    BY <1>2 DEF Answered, slots
  <2>2. PICK q \in {"timeout", "deciding", "ok"} :
          /\ phase' = [phase EXCEPT ![c] = q]
          /\ q # "deciding" => leg[c] = "cancel" \/ ~IsCard(c)
    BY <1>2 DEF Answered, Goes
  <2>3. \A p \in pending : p.call # c
    BY DEF Answered, SlotsInv, PendingIsUnanswered
  <2>4. PendingIsUnanswered'
    BY <2>1, <2>2, <2>3 DEF SlotsInv, PendingIsUnanswered, TypeOK, Request
  <2>5. TokenIsUndecided'
    BY <1>0, <2>1, <2>2 DEF SlotsInv, TokenIsUndecided, TypeOK, IsCard, Ended
  <2>6. NewIsFresh'
    BY <2>1, <2>2 DEF SlotsInv, NewIsFresh, TypeOK
  <2>7. QED
    BY <2>4, <2>5, <2>6 DEF SlotsInv
<1>3. QED
  BY <1>1, <1>2

(* The reader answers a call by removing its entry, decides a card by      *)
(* removing its token.                                                     *)
LEMMA ReadsSlots ==
  ASSUME TypeOK, WireTyped, SlotsInv, ReadsResponse \/ ReadsCallback
  PROVE  SlotsInv'
<1>0. UNCHANGED <<phase, leg, kind>>
  BY DEF ReadsResponse, ReadsCallback, Reads, bounds
<1>1. CASE ReadsResponse
  <2> DEFINE l == Head(stdout)
             p == [call |-> l.call, leg |-> l.leg]
  <2>1. l.call \in Calls /\ l.leg \in Leg
    BY <1>1 DEF ReadsResponse, Reads, WireTyped, Written, Plain, Line
  <2>2. pending' = pending \ {p} /\ UNCHANGED <<decision, tokens>>
    BY <1>1 DEF ReadsResponse
  <2>3. \A c \in Calls : reply'[c] # reply[c] =>
          c = l.call /\ p \in pending /\ phase[c] \in {"queueing", "waiting"}
    BY <1>1, <2>1 DEF ReadsResponse, TypeOK
  <2>4. PendingIsUnanswered'
    <3> SUFFICES ASSUME NEW q \in pending', q.call = l.call, p \in pending PROVE FALSE
      BY <1>0, <2>2, <2>3 DEF SlotsInv, PendingIsUnanswered, TypeOK, Request
    <3>1. q \in pending /\ q # p
      BY <2>2
    <3>2. q.leg = leg[l.call] /\ p.leg = leg[l.call]
      BY <3>1 DEF SlotsInv, PendingIsUnanswered
    <3>3. QED
      BY <2>1, <3>1, <3>2 DEF TypeOK, Request
  <2>5. TokenIsUndecided'
    BY <1>0, <2>2 DEF SlotsInv, TokenIsUndecided, IsCard
  <2>6. NewIsFresh'
    BY <1>0, <2>2, <2>3 DEF SlotsInv, NewIsFresh
  <2>7. QED
    BY <2>4, <2>5, <2>6 DEF SlotsInv
<1>2. CASE ReadsCallback
  <2> DEFINE d == Head(stdout).call
  <2>1. UNCHANGED <<reply, pending>> /\ tokens' = tokens \ {d}
    BY <1>2 DEF ReadsCallback
  <2>2. \A c \in Calls : decision'[c] # decision[c] => c = d /\ c \in tokens
    BY <1>2 DEF ReadsCallback, TypeOK
  <2>3. PendingIsUnanswered'
    BY <1>0, <2>1 DEF SlotsInv, PendingIsUnanswered
  <2>4. TokenIsUndecided'
    BY <1>0, <2>1, <2>2 DEF SlotsInv, TokenIsUndecided, IsCard, TypeOK
  <2>5. NewIsFresh'
    BY <1>0, <2>1, <2>2 DEF SlotsInv, NewIsFresh, TokenIsUndecided
  <2>6. QED
    BY <2>3, <2>4, <2>5 DEF SlotsInv
<1>3. QED
  BY <1>1, <1>2

LEMMA SlotsStep == TypeOK /\ WireTyped /\ SlotsInv /\ [Next]_vars => SlotsInv'
<1> SUFFICES ASSUME TypeOK, WireTyped, SlotsInv, [Next]_vars PROVE SlotsInv'
  OBVIOUS
<1>1. ASSUME NEW c \in Calls, Begin(c) PROVE SlotsInv'
  BY <1>1, RegisterSlots DEF Begin, bounds
<1>2. ASSUME NEW c \in Calls, SendFails(c) \/ GivesUp(c) PROVE SlotsInv'
  BY <1>2, ReleaseSlots DEF SendFails, GivesUp, bounds, Ended
<1>3. ASSUME NEW c \in Calls, Answered(c) PROVE SlotsInv'
  BY <1>3, AnsweredSlots
<1>4. ASSUME NEW c \in Calls, Enqueue(c) \/ Expires(c) \/ Decided(c) \/ Drop(c) PROVE SlotsInv'
  <2>1. UNCHANGED <<leg, reply, decision, pending, tokens, kind>>
    BY <1>4 DEF Enqueue, Expires, Decided, Drop, slots, bounds
  <2>2. PICK q \in {"waiting", "expired", "undecided", "decided", "dropped"} :
          phase' = [phase EXCEPT ![c] = q]
    BY <1>4 DEF Enqueue, Expires, Decided, Drop, Goes
  <2>3. phase[c] \notin {"new", "dropped"}
    BY <1>4 DEF Enqueue, Expires, Decided, Drop
  <2>4. q \in {"undecided", "decided"} => phase[c] = "deciding" /\ (q = "decided" => decision[c])
    BY <1>4, <2>2 DEF Enqueue, Expires, Decided, Drop, Goes, TypeOK
  <2>5. PendingIsUnanswered'
    BY <2>1, <2>2, <2>3, <2>4 DEF SlotsInv, PendingIsUnanswered, TypeOK, Request, Busy
  <2>6. TokenIsUndecided'
    BY <2>1, <2>2, <2>4 DEF SlotsInv, TokenIsUndecided, TypeOK, IsCard, Ended
  <2>7. NewIsFresh'
    BY <2>1, <2>2 DEF SlotsInv, NewIsFresh, TypeOK
  <2>8. QED
    BY <2>5, <2>6, <2>7 DEF SlotsInv
<1>5. ASSUME NEW c \in Calls, CancelsCard(c) PROVE SlotsInv'
  <2>1. phase[c] = "undecided" /\ phase' = [phase EXCEPT ![c] = "queueing"]
    BY <1>5 DEF CancelsCard, Goes
  <2>2. /\ leg' = [leg EXCEPT ![c] = "cancel"] /\ reply' = [reply EXCEPT ![c] = "none"]
        /\ tokens' = tokens \ {c} /\ pending' = pending \cup {[call |-> c, leg |-> "cancel"]}
        /\ UNCHANGED <<decision, kind>>
    BY <1>5 DEF CancelsCard, bounds
  <2>3. \A p \in pending : p.call # c
    BY <2>1 DEF SlotsInv, PendingIsUnanswered, Busy
  <2>4. PendingIsUnanswered'
    BY <2>1, <2>2, <2>3 DEF SlotsInv, PendingIsUnanswered, TypeOK, Request, Busy
  <2>5. TokenIsUndecided'
    BY <2>1, <2>2 DEF SlotsInv, TokenIsUndecided, TypeOK, IsCard
  <2>6. NewIsFresh'
    BY <2>1, <2>2 DEF SlotsInv, NewIsFresh, TypeOK
  <2>7. QED
    BY <2>4, <2>5, <2>6 DEF SlotsInv
<1>6. ASSUME NEW c \in Calls, Handshake(c) \/ Stop(c) \/ UserClicks(c) PROVE SlotsInv'
  BY <1>6, SlotsSame DEF Handshake, Stop, TearDown, UserClicks, Writes, bounds
<1>7. CASE WriterStep
  BY <1>7, SlotsSame DEF WriterStep, WriterWrites, WriterFails, bounds
<1>8. CASE ReaderStep
  <2>1. CASE ReadsResponse \/ ReadsCallback
    BY <2>1, ReadsSlots
  <2>2. CASE ReadsMessage \/ ReadsAdvertise
    BY <2>2, SlotsSame DEF ReadsMessage, ReadsAdvertise, Reads, bounds, caller
  <2>3. CASE ReaderForwards \/ ReaderReplies \/ ReaderEnds
    BY <2>3, SlotsSame DEF ReaderForwards, ReaderReplies, ReaderEnds, bounds
  <2>4. QED
    BY <1>8, <2>1, <2>2, <2>3 DEF ReaderStep
<1>9. CASE DispatcherStep
  <2>1. CASE Unused # {} /\ Register(NextAck) /\ UNCHANGED bounds
    BY <2>1, NextAckIsNew, RegisterSlots DEF bounds
  <2>2. CASE UNCHANGED <<caller, slots, bounds>>
    BY <2>2, SlotsSame DEF bounds
  <2>3. QED
    BY <1>9, <2>1, <2>2 DEF DispatcherStep, DispatcherTakes, DispatcherDone
<1>10. CASE PluginReads \/ PluginWrites \/ PluginHangs \/ PluginDies
  BY <1>10, SlotsSame DEF PluginReads, PluginWrites, Writes, PluginHangs, PluginDies, bounds
<1>11. ASSUME NEW r \in todo, NEW ok \in BOOLEAN, PluginAnswers(r, ok) PROVE SlotsInv'
  BY <1>11, SlotsSame DEF PluginAnswers, bounds
<1>12. CASE UNCHANGED vars
  BY <1>12, SlotsSame DEF vars, bounds
<1>13. QED
  BY <1>1, <1>2, <1>3, <1>4, <1>5, <1>6, <1>7, <1>8, <1>9, <1>10, <1>11, <1>12 DEF Next, CallerStep

LEMMA SlotsInit == Init => SlotsInv
BY DEF Init, SlotsInv, PendingIsUnanswered, TokenIsUndecided, NewIsFresh

-----------------------------------------------------------------------------
(* Results and decisions.                                                  *)

(* What the plugin answered and the user clicked is never undone, so a     *)
(* step that leaves callers and wire alone keeps the invariant.            *)
LEMMA RealSame ==
  ASSUME RealInv, UNCHANGED <<caller, stdout>>,
         answered \subseteq answered', clicked \subseteq clicked'
  PROVE  RealInv'
BY DEF RealInv, WireIsReal, RepliesAreReal, ResultsAreReal, caller, Req

(* So does one that only moves a caller on to a phase that claims nothing, *)
(* or claims what it is entitled to.                                       *)
LEMMA RealGoes ==
  ASSUME TypeOK, RealInv, NEW c \in Calls, NEW q \in Phase, phase' = [phase EXCEPT ![c] = q],
         q \in {"ok", "deciding", "undecided", "decided"} =>
           [call |-> c, leg |-> "request"] \in answered,
         q = "decided" => c \in clicked,
         UNCHANGED <<leg, reply, decision, stdout, answered, clicked>>
  PROVE  RealInv'
<1>1. WireIsReal' /\ RepliesAreReal'
  BY DEF RealInv, WireIsReal, RepliesAreReal, Req
<1>2. ResultsAreReal'
  BY DEF RealInv, ResultsAreReal, TypeOK
<1>3. QED
  BY <1>1, <1>2 DEF RealInv

(* A line leaves the wire at one end, is added at the other.               *)
LEMMA WireShrinks ==
  ASSUME WireTyped, WireIsReal, stdout # <<>>, stdout' = Tail(stdout),
         UNCHANGED <<answered, clicked>>
  PROVE  WireIsReal'
<1>1. \A i \in 1 .. Len(stdout') : stdout'[i] = stdout[i + 1] /\ i + 1 \in 1 .. Len(stdout)
  BY DEF WireTyped
<1>2. QED
  BY <1>1 DEF WireIsReal

LEMMA WireGrows ==
  ASSUME WireTyped, WireIsReal, NEW l \in Written, stdout' = Append(stdout, l),
         answered \subseteq answered', clicked \subseteq clicked',
         l.type = "response" /\ l.ok => [call |-> l.call, leg |-> l.leg] \in answered',
         l.type = "callback" => l.call \in clicked'
  PROVE  WireIsReal'
<1> SUFFICES ASSUME NEW i \in 1 .. Len(stdout')
             PROVE  /\ stdout'[i].type = "response" /\ stdout'[i].ok =>
                         [call |-> stdout'[i].call, leg |-> stdout'[i].leg] \in answered'
                    /\ stdout'[i].type = "callback" => stdout'[i].call \in clicked'
  BY DEF WireIsReal
<1>1. CASE i \in 1 .. Len(stdout)
  <2>1. stdout'[i] = stdout[i]
    BY <1>1 DEF WireTyped
  <2>2. QED
    BY <1>1, <2>1 DEF WireIsReal
<1>2. CASE i = Len(stdout) + 1
  <2>1. stdout'[i] = l
    BY <1>2 DEF WireTyped
  <2>2. QED
    BY <2>1
<1>3. QED
  BY <1>1, <1>2 DEF WireTyped

(* An answer reaches only the call and the leg it was given for: the entry *)
(* found for it is the one request its caller is busy with.                *)
LEMMA ReadsReal ==
  ASSUME TypeOK, WireTyped, SlotsInv, RealInv, ReadsResponse \/ ReadsCallback
  PROVE  RealInv'
<1>0. /\ UNCHANGED <<phase, leg, answered, clicked>> /\ stdout # <<>> /\ stdout' = Tail(stdout)
      /\ 1 \in 1 .. Len(stdout) /\ Head(stdout) = stdout[1]
  BY DEF ReadsResponse, ReadsCallback, Reads, WireTyped
<1>1. WireIsReal'
  BY <1>0, WireShrinks DEF RealInv
<1>2. ResultsAreReal'
  BY <1>0 DEF RealInv, ResultsAreReal
<1>3. RepliesAreReal'
  <2>1. CASE ReadsResponse
    <3> DEFINE l == Head(stdout)
               p == [call |-> l.call, leg |-> l.leg]
    <3>1. l.type = "response" /\ l \in Written /\ UNCHANGED decision
      BY <2>1, <1>0 DEF ReadsResponse, Reads, WireTyped
    <3>2. l.ok => p \in answered
      BY <1>0, <3>1 DEF RealInv, WireIsReal
    <3>3. \A c \in Calls : reply'[c] # reply[c] =>
            c = l.call /\ p \in pending /\ reply'[c] = IF l.ok THEN "result" ELSE "error"
      BY <2>1 DEF ReadsResponse, TypeOK
    <3>4. p \in pending => l.leg = leg[l.call]
      BY DEF SlotsInv, PendingIsUnanswered
    <3>5. QED
      BY <1>0, <3>1, <3>2, <3>3, <3>4 DEF RealInv, RepliesAreReal, Req
  <2>2. CASE ReadsCallback
    <3>1. Head(stdout).type = "callback" /\ UNCHANGED reply
      BY <2>2 DEF ReadsCallback, Reads
    <3>2. Head(stdout).call \in clicked
      BY <1>0, <3>1 DEF RealInv, WireIsReal
    <3>3. \A c \in Calls : decision'[c] # decision[c] => c = Head(stdout).call
      BY <2>2 DEF ReadsCallback, TypeOK
    <3>4. QED
      BY <1>0, <3>1, <3>2, <3>3 DEF RealInv, RepliesAreReal, Req
  <2>3. QED
    BY <2>1, <2>2
<1>4. QED
  BY <1>1, <1>2, <1>3 DEF RealInv

LEMMA RealStep == IInv /\ [Next]_vars => RealInv'
<1> SUFFICES ASSUME IInv, [Next]_vars PROVE RealInv'
  OBVIOUS
<1>0. TypeOK /\ WireTyped /\ SlotsInv /\ RealInv
  BY DEF IInv
<1>1. ASSUME NEW c \in Calls, Register(c), UNCHANGED <<stdout, answered, clicked>>
      PROVE  RealInv'
  BY <1>0, <1>1, RealGoes DEF Register, Goes, Phase
<1>2. ASSUME NEW c \in Calls, NEW p \in Ended \ {"ok", "decided"}, Release(c, p),
             UNCHANGED <<stdout, answered, clicked>>
      PROVE  RealInv'
  BY <1>0, <1>2, RealGoes DEF Release, Goes, Phase, Ended
<1>3. ASSUME NEW c \in Calls, Begin(c) \/ Enqueue(c) \/ SendFails(c) \/ GivesUp(c) PROVE RealInv'
  <2>1. CASE Begin(c)
    BY <1>1, <2>1 DEF Begin, plugin
  <2>2. CASE Enqueue(c)
    BY <1>0, <2>2, RealGoes DEF Enqueue, Goes, Phase, plugin
  <2>3. CASE SendFails(c) \/ GivesUp(c)
    BY <1>2, <2>3 DEF SendFails, GivesUp, plugin, Ended
  <2>4. QED
    BY <1>3, <2>1, <2>2, <2>3
<1>4. ASSUME NEW c \in Calls, Answered(c) PROVE RealInv'
  <2>1. CASE reply[c] = "error"
    BY <1>2, <1>4, <2>1 DEF Answered, plugin, Ended
  <2>2. CASE reply[c] = "result"
    <3>1. PICK q \in {"timeout", "deciding", "ok"} :
            phase' = [phase EXCEPT ![c] = q] /\ (q # "timeout" => leg[c] # "cancel")
      BY <1>4, <2>2 DEF Answered, Goes
    <3>2. leg[c] # "cancel" => [call |-> c, leg |-> "request"] \in answered
      BY <1>0, <2>2 DEF RealInv, RepliesAreReal, Req, TypeOK, Leg
    <3>3. q \in Phase
      BY DEF Phase, Ended
    <3>4. QED
      BY <1>0, <1>4, <2>2, <3>1, <3>2, <3>3, RealGoes DEF Answered, plugin
  <2>3. QED
    BY <1>0, <1>4, <2>1, <2>2 DEF Answered, TypeOK
<1>5. ASSUME NEW c \in Calls, Expires(c) \/ Decided(c) \/ Drop(c) PROVE RealInv'
  <2>1. UNCHANGED <<leg, reply, decision, stdout, answered, clicked>>
    BY <1>5 DEF Expires, Decided, Drop, plugin
  <2>2. PICK q \in {"expired", "undecided", "decided", "dropped"} :
          /\ phase' = [phase EXCEPT ![c] = q]
          /\ q \in {"undecided", "decided"} => phase[c] = "deciding"
          /\ q = "decided" => decision[c]
    BY <1>5 DEF Expires, Decided, Drop, Goes
  <2>3. q \in Phase
    BY DEF Phase, Ended
  <2>4. phase[c] = "deciding" => [call |-> c, leg |-> "request"] \in answered
    BY <1>0 DEF RealInv, ResultsAreReal
  <2>5. decision[c] => c \in clicked
    BY <1>0 DEF RealInv, RepliesAreReal
  <2>6. QED
    BY <1>0, <2>1, <2>2, <2>3, <2>4, <2>5, RealGoes
<1>6. ASSUME NEW c \in Calls, CancelsCard(c) PROVE RealInv'
  <2>1. /\ phase' = [phase EXCEPT ![c] = "queueing"] /\ leg' = [leg EXCEPT ![c] = "cancel"]
        /\ reply' = [reply EXCEPT ![c] = "none"] /\ UNCHANGED <<decision, stdout, answered, clicked>>
    BY <1>6 DEF CancelsCard, Goes, plugin
  <2>2. WireIsReal' /\ ResultsAreReal'
    BY <1>0, <2>1 DEF RealInv, WireIsReal, ResultsAreReal, TypeOK
  <2>3. RepliesAreReal'
    BY <1>0, <2>1 DEF RealInv, RepliesAreReal, TypeOK, Req
  <2>4. QED
    BY <2>2, <2>3 DEF RealInv
<1>7. ASSUME NEW c \in Calls, Handshake(c) \/ Stop(c) PROVE RealInv'
  <2>1. CASE TearDown
    <3>1. stdout' = <<>> /\ UNCHANGED <<caller, answered, clicked>>
      BY <2>1 DEF TearDown
    <3>2. QED
      BY <1>0, <3>1 DEF RealInv, WireIsReal, RepliesAreReal, ResultsAreReal, caller, Req
  <2>2. CASE UNCHANGED <<caller, plugin>>
    BY <1>0, <2>2, RealSame DEF plugin
  <2>3. QED
    BY <1>7, <2>1, <2>2 DEF Handshake, Stop
<1>8. CASE WriterStep
  BY <1>0, <1>8, RealSame DEF WriterStep, WriterWrites, WriterFails, plugin
<1>9. CASE ReaderStep
  <2>1. CASE ReadsResponse \/ ReadsCallback
    BY <1>0, <2>1, ReadsReal
  <2>2. CASE ReadsMessage \/ ReadsAdvertise
    <3>1. /\ UNCHANGED <<caller, answered, clicked>> /\ stdout # <<>> /\ stdout' = Tail(stdout)
      BY <2>2 DEF ReadsMessage, ReadsAdvertise, Reads, caller
    <3>2. WireIsReal'
      BY <1>0, <3>1, WireShrinks DEF RealInv
    <3>3. QED
      BY <1>0, <3>1, <3>2 DEF RealInv, RepliesAreReal, ResultsAreReal, caller, Req
  <2>3. CASE ReaderForwards \/ ReaderReplies \/ ReaderEnds
    BY <1>0, <2>3, RealSame DEF ReaderForwards, ReaderReplies, ReaderEnds, plugin
  <2>4. QED
    BY <1>9, <2>1, <2>2, <2>3 DEF ReaderStep
<1>10. CASE DispatcherStep
  <2>1. CASE Unused # {} /\ Register(NextAck) /\ UNCHANGED plugin
    BY <1>1, <2>1, NextAckIsNew DEF plugin
  <2>2. CASE UNCHANGED <<caller, plugin>>
    BY <1>0, <2>2, RealSame DEF plugin
  <2>3. QED
    BY <1>10, <2>1, <2>2 DEF DispatcherStep, DispatcherTakes, DispatcherDone
<1>11. CASE PluginReads \/ PluginHangs \/ PluginDies
  BY <1>0, <1>11, RealSame DEF PluginReads, PluginHangs, PluginDies
<1>12. ASSUME NEW l \in Written, stdout' = Append(stdout, l), UNCHANGED caller,
              answered \subseteq answered', clicked \subseteq clicked',
              l.type = "response" /\ l.ok => [call |-> l.call, leg |-> l.leg] \in answered',
              l.type = "callback" => l.call \in clicked'
       PROVE  RealInv'
  <2>1. WireIsReal'
    BY <1>0, <1>12, WireGrows DEF RealInv
  <2>2. QED
    BY <1>0, <1>12, <2>1 DEF RealInv, RepliesAreReal, ResultsAreReal, caller, Req
<1>13. CASE PluginWrites
  <2>1. PICK t \in {"message", "advertise"} : Writes(Plain(t)) /\ UNCHANGED clicked
    BY <1>13 DEF PluginWrites
  <2>2. Plain(t) \in Written /\ Plain(t).type = t
    BY DEF Written, Plain, Line
  <2>3. QED
    BY <1>12, <2>1, <2>2 DEF Writes
<1>14. ASSUME NEW c \in Calls, UserClicks(c) PROVE RealInv'
  <2>1. PICK l : l = Line("callback", c, "request", TRUE)
    OBVIOUS
  <2>2. l \in Written /\ l.type = "callback" /\ l.call = c
    BY <2>1 DEF Written, Line, Leg
  <2>3. Writes(l) /\ clicked' = clicked \cup {c}
    BY <1>14, <2>1 DEF UserClicks
  <2>4. QED
    BY <1>12, <2>2, <2>3 DEF Writes
<1>15. ASSUME NEW r \in todo, NEW ok \in BOOLEAN, PluginAnswers(r, ok) PROVE RealInv'
  <2>1. PICK l : l = Line("response", r.call, r.leg, ok)
    OBVIOUS
  <2>2. r \in Request
    BY <1>0 DEF TypeOK
  <2>3. l \in Written /\ l.type = "response" /\ l.ok = ok /\ [call |-> l.call, leg |-> l.leg] = r
    BY <2>1, <2>2 DEF Written, Line, Request
  <2>4. stdout' = Append(stdout, l) /\ answered' = IF ok THEN answered \cup {r} ELSE answered
    BY <1>15, <2>1 DEF PluginAnswers
  <2>5. QED
    BY <1>12, <1>15, <2>3, <2>4 DEF PluginAnswers
<1>16. CASE UNCHANGED vars
  BY <1>0, <1>16, RealSame DEF vars, plugin
<1>17. QED
  BY <1>3, <1>4, <1>5, <1>6, <1>7, <1>8, <1>9, <1>10, <1>11, <1>13, <1>14, <1>15, <1>16
     DEF Next, CallerStep

LEMMA IInvHolds == Spec => []IInv
<1>1. Init => IInv
  <2>1. Init => RealInv
    BY DEF Init, RealInv, WireIsReal, RepliesAreReal, ResultsAreReal
  <2>2. QED
    BY <2>1, TypeInit, SlotsInit DEF IInv
<1>2. IInv /\ [Next]_vars => IInv'
  BY TypeStep, SlotsStep, RealStep DEF IInv
<1>3. QED
  BY <1>1, <1>2, PTL DEF Spec

(* Whatever order the answer, the click, the timeout, the failed send and  *)
(* the end of the plugin come in, a call that has ended has left no entry  *)
(* in the request map and no token in the approval or question registry.   *)
THEOREM EndedCallsHoldNothing == Spec => []SlotsReleased
<1>1. IInv => SlotsReleased
  BY DEF IInv, SlotsInv, SlotsReleased, PendingIsUnanswered, TokenIsUndecided, Busy, Ended, TypeOK
<1>2. QED
  BY <1>1, IInvHolds, PTL

(* A call reports success only for a request the plugin answered, and a    *)
(* decision only for a card the user clicked: answers and clicks that come *)
(* late, twice or out of order never reach another call or another leg.    *)
THEOREM ResultsAreCaused == Spec => []ResultsAreReal
<1>1. IInv => ResultsAreReal
  BY DEF IInv, RealInv
<1>2. QED
  BY <1>1, IInvHolds, PTL
=============================================================================
