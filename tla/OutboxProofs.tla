---------------------------- MODULE OutboxProofs ----------------------------
(***************************************************************************)
(* Theorems about Outbox, for every set of chats, every MAX_ATTEMPTS and   *)
(* every value of the bounds.                                              *)
(***************************************************************************)
EXTENDS Outbox, TLAPS

(* The three relations between memory and table that make the safety       *)
(* properties inductive: an answer held by a sender is backed by what the  *)
(* plugin did, ...                                                         *)
AnswersAreReal ==
  /\ \A r \in Row : inline[r] = "accepted" => r \in shown
  /\ \A r \in Row : inline[r] = "rejected" => r \in refused
  /\ \A c \in Chats : work[c].phase = "accepted" => work[c].row \in shown
  /\ \A c \in Chats : work[c].phase = "rejected" => work[c].row \in refused

(* ... a job is for a row that has been inserted, and the attempts value   *)
(* its claim read is never ahead of the table.                             *)
Behind(r, a) == status[r] # "absent" /\ a <= attempts[r]

BatchBehind == \A j \in batch : Behind(j.row, j.att)
MailBehind  == \A c \in Chats : \A i \in 1 .. Len(mailbox[c]) :
                 Behind(mailbox[c][i].row, mailbox[c][i].att)
WorkBehind  == \A c \in Chats : work[c].phase # "idle" => Behind(work[c].row, work[c].att)

JobsAreBehind == BatchBehind /\ MailBehind /\ WorkBehind

IInv ==
  /\ TypeOK
  /\ AnswersAreReal
  /\ JobsAreBehind
  /\ DeliveredWasShown
  /\ FailedWasJustified

-----------------------------------------------------------------------------
(* What a step does to the table, seen from the memory side: a row that    *)
(* exists keeps existing and its attempts never decrease.                  *)
TableGrows ==
  /\ status' \in [Row -> Status]
  /\ attempts' \in [Row -> Nat]
  /\ \A r \in Row : status[r] # "absent" =>
       status'[r] # "absent" /\ attempts[r] <= attempts'[r]

LEMMA TypeInit == Init => TypeOK
<1> SUFFICES ASSUME Init PROVE TypeOK
  OBVIOUS
<1>1. TableOK
  <2>1. (CHOOSE c \in Chats : TRUE) \in Chats
    BY OutboxAssumption
  <2>2. status \in [Row -> Status] /\ nextAttempt \in [Row -> {"due", "later"}]
    BY DEF Init, Status
  <2>3. attempts \in [Row -> Nat] /\ origin \in [Row -> RowId]
    BY OutboxAssumption DEF Init, RowId
  <2>4. kind \in [Row -> Kind]
    BY DEF Init, Kind
  <2>5. chat \in [Row -> Chats]
    <3>1. PICK c \in Chats : c = CHOOSE d \in Chats : TRUE
      BY <2>1
    <3>2. chat = [r \in Row |-> c]
      BY <3>1 DEF Init
    <3>3. QED
      BY <3>2
  <2>6. QED
    BY <2>2, <2>3, <2>4, <2>5 DEF TableOK
<1>2. WorkersOK
  <2>1. <<>> \in Seq(Job) /\ NoWork \in [row : RowId, att : Nat, phase : Phase]
    BY OutboxAssumption DEF NoWork, RowId, Phase
  <2>2. QED
    BY <2>1 DEF Init, WorkersOK, NoWork
<1>3. PeerOK /\ inline \in [Row -> Phase] /\ faults = 0 /\ forced = 0
  BY DEF Init, PeerOK, Phase
<1>4. QED
  BY <1>1, <1>2, <1>3 DEF Init, TypeOK

LEMMA TableSame   == TableOK /\ UNCHANGED table => TableOK'
BY DEF TableOK, table
LEMMA WorkersSame == WorkersOK /\ UNCHANGED workers => WorkersOK'
BY DEF WorkersOK, workers
LEMMA PeerSame    == PeerOK /\ UNCHANGED peer => PeerOK'
BY DEF PeerOK, peer

LEMMA InsertType ==
  ASSUME TableOK, NEW r \in Row, NEW c \in Chats, NEW k \in Kind,
         NEW o \in RowId, NEW d \in {"due", "later"}, Insert(r, c, k, o, d)
  PROVE  TableOK'
BY DEF TableOK, Insert, Status

LEMMA WriteType ==
  ASSUME TableOK, faults \in Nat, NEW r \in Row,
         \/ Write(MarkDelivered(r)) \/ Write(MarkFailed(r)) \/ Write(Reschedule(r))
         \/ \E q \in Row : FallbackFor(r, q)
  PROVE  TableOK' /\ faults' \in Nat
<1>1. CASE LostWrite
  BY <1>1 DEF LostWrite, table, TableOK
<1>2. CASE MarkDelivered(r) /\ UNCHANGED faults
  BY <1>2 DEF MarkDelivered, SetStatus, TableOK, Status
<1>3. CASE MarkFailed(r) /\ UNCHANGED faults
  BY <1>3 DEF MarkFailed, SetStatus, TableOK, Status
<1>4. CASE Reschedule(r) /\ UNCHANGED faults
  BY <1>4 DEF Reschedule, TableOK
<1>5. ASSUME NEW q \in Row, Insert(q, chat[r], "send_message", r, "due"), UNCHANGED faults
      PROVE  TableOK' /\ faults' \in Nat
  <2>1. chat[r] \in Chats /\ "send_message" \in Kind /\ r \in RowId
    BY DEF TableOK, Kind, RowId, Row
  <2>2. QED
    BY <1>5, <2>1, InsertType
<1>6. QED
  BY <1>1, <1>2, <1>3, <1>4, <1>5 DEF Write, FallbackFor

(* A busy actor that changes phase keeps its row.                          *)
LEMMA PhaseType ==
  ASSUME WorkersOK, NEW c \in Chats, NEW ph \in Phase, work[c].phase # "idle",
         work' = [work EXCEPT ![c].phase = ph]
  PROVE  /\ work' \in [Chats -> [row : RowId, att : Nat, phase : Phase]]
         /\ \A d \in Chats : work'[d].phase # "idle" => work'[d].row \in Row
<1>1. [work[c] EXCEPT !.phase = ph] \in [row : RowId, att : Nat, phase : Phase]
  BY DEF WorkersOK
<1>2. work' = [work EXCEPT ![c] = [work[c] EXCEPT !.phase = ph]]
  OBVIOUS
<1>3. [work[c] EXCEPT !.phase = ph].row = work[c].row
  BY DEF WorkersOK
<1>4. QED
  BY <1>1, <1>2, <1>3 DEF WorkersOK

LEMMA TypeStep == TypeOK /\ [Next]_vars => TypeOK'
<1> SUFFICES ASSUME TypeOK, [Next]_vars PROVE TypeOK'
  OBVIOUS
<1>0. /\ TableOK /\ WorkersOK /\ PeerOK
      /\ inline \in [Row -> Phase]
      /\ slot \in {"held", "none"} /\ faults \in Nat /\ forced \in Nat
  BY DEF TypeOK
<1>1. ASSUME NEW r \in Row, NEW c \in Chats, NEW k \in InputKinds, Enqueue(r, c, k)
      PROVE  TypeOK'
  <2>1. k \in Kind /\ 0 \in RowId /\ "later" \in {"due", "later"}
    BY OutboxAssumption DEF RowId
  <2>2. TableOK'
    BY <1>0, <1>1, <2>1, InsertType DEF Enqueue
  <2>3. inline' \in [Row -> Phase]
    BY <1>0, <1>1 DEF Enqueue, Phase
  <2>4. QED
    BY <1>0, <1>1, <2>2, <2>3, WorkersSame, PeerSame DEF Enqueue, TypeOK
<1>2. ASSUME NEW r \in Row, InlineStep(r) PROVE TypeOK'
  <2>1. TableOK' /\ faults' \in Nat
    BY <1>0, <1>2, WriteType
       DEF InlineStep, InlineDelivered, InlineTransport, InlineTerminal, InlineFallback
  <2>2. inline' \in [Row -> Phase]
    BY <1>0, <1>2 DEF InlineStep, InlineDelivered, InlineTransport, InlineTerminal,
                      InlineFallback, AfterFailure, Phase
  <2>3. PeerOK'
    BY <1>0, <1>2 DEF InlineStep, InlineDelivered, InlineTransport, InlineTerminal,
                      InlineFallback, GiveUpOn, peer, PeerOK
  <2>4. QED
    BY <1>0, <1>2, <2>1, <2>2, <2>3, WorkersSame
       DEF InlineStep, InlineDelivered, InlineTransport, InlineTerminal, InlineFallback, TypeOK
<1>3. ASSUME NEW c \in Chats, ActorTake(c) PROVE TypeOK'
  <2>1. Head(mailbox[c]) \in Job /\ Tail(mailbox[c]) \in Seq(Job)
    BY <1>0, <1>3 DEF ActorTake, WorkersOK
  <2>2. WorkersOK'
    <3>1. Head(mailbox[c]).row \in Row /\ Head(mailbox[c]).att \in Nat
      BY <2>1 DEF Job
    <3>2. Row \subseteq RowId /\ "sent" \in Phase
      BY DEF Row, RowId, Phase
    <3>3. mailbox' \in [Chats -> Seq(Job)]
      BY <1>0, <1>3, <2>1 DEF ActorTake, WorkersOK
    <3>4. /\ work' \in [Chats -> [row : RowId, att : Nat, phase : Phase]]
          /\ \A d \in Chats : work'[d].phase # "idle" => work'[d].row \in Row
      BY <1>0, <1>3, <3>1, <3>2 DEF ActorTake, WorkersOK
    <3>5. QED
      BY <1>0, <1>3, <3>3, <3>4 DEF ActorTake, WorkersOK
  <2>3. QED
    BY <1>0, <1>3, <2>2, TableSame, PeerSame DEF ActorTake, TypeOK
<1>4. ASSUME NEW c \in Chats,
             \/ ActorDelivered(c) \/ ActorReschedule(c) \/ ActorExhausted(c)
             \/ ActorTerminal(c) \/ ActorFallback(c)
      PROVE  TypeOK'
  <2>0. work[c].row \in Row
    BY <1>0, <1>4 DEF ActorDelivered, ActorReschedule, ActorExhausted, ActorTerminal,
                      ActorFallback, WorkersOK
  <2>1. TableOK' /\ faults' \in Nat
    BY <1>0, <1>4, <2>0, WriteType
       DEF ActorDelivered, ActorReschedule, ActorExhausted, ActorTerminal, ActorFallback, FailWork
  <2>2. WorkersOK'
    <3>1. work' = [work EXCEPT ![c] = NoWork]
          \/ work' = [work EXCEPT ![c] = [@ EXCEPT !.phase = "fallback"]]
      BY <1>4 DEF ActorDelivered, ActorReschedule, ActorExhausted, ActorTerminal,
                  ActorFallback, FailWork, Rest
    <3>2. NoWork \in [row : RowId, att : Nat, phase : Phase] /\ NoWork.phase = "idle"
      BY OutboxAssumption DEF NoWork, RowId, Phase
    <3>3. /\ work' \in [Chats -> [row : RowId, att : Nat, phase : Phase]]
          /\ \A d \in Chats : work'[d].phase # "idle" => work'[d].row \in Row
      <4>1. CASE work' = [work EXCEPT ![c] = NoWork]
        BY <1>0, <3>2, <4>1 DEF WorkersOK
      <4>2. CASE work' = [work EXCEPT ![c] = [@ EXCEPT !.phase = "fallback"]]
        <5>1. work' = [work EXCEPT ![c].phase = "fallback"] /\ work[c].phase # "idle"
          BY <1>4, <4>2 DEF ActorDelivered, ActorReschedule, ActorExhausted, ActorTerminal,
                            ActorFallback
        <5>2. QED
          BY <1>0, <5>1, PhaseType DEF Phase
      <4>3. QED
        BY <3>1, <4>1, <4>2
    <3>4. UNCHANGED <<batch, actor, mailbox>>
      BY <1>4 DEF ActorDelivered, ActorReschedule, ActorExhausted, ActorTerminal,
                  ActorFallback, FailWork
    <3>5. QED
      BY <1>0, <3>3, <3>4 DEF WorkersOK
  <2>3. PeerOK'
    BY <1>0, <1>4, <2>0
       DEF ActorDelivered, ActorReschedule, ActorExhausted, ActorTerminal, ActorFallback,
           FailWork, GiveUpOn, peer, PeerOK
  <2>4. UNCHANGED <<inline, slot, forced>>
    BY <1>4 DEF ActorDelivered, ActorReschedule, ActorExhausted, ActorTerminal,
                ActorFallback, FailWork
  <2>5. QED
    BY <1>0, <2>1, <2>2, <2>3, <2>4 DEF TypeOK
<1>5. ASSUME NEW c \in Chats, ActorIdle(c) PROVE TypeOK'
  <2>1. WorkersOK'
    BY <1>0, <1>5 DEF ActorIdle, WorkersOK
  <2>2. faults' \in Nat
    BY <1>0, <1>5 DEF ActorIdle
  <2>3. QED
    BY <1>0, <1>5, <2>1, <2>2, TableSame, PeerSame DEF ActorIdle, TypeOK
<1>6. CASE Tick
  <2>1. batch' \in SUBSET Job
    <3>1. \A r \in Claimed : r \in Row
      BY DEF Claimed, Claimable
    <3>2. \A r \in Claimed : [row |-> r, att |-> attempts[r]] \in Job
      BY <1>0, <3>1 DEF Job, TableOK
    <3>3. QED
      BY <1>6, <3>2 DEF Tick
  <2>2. WorkersOK'
    BY <1>0, <1>6, <2>1 DEF Tick, WorkersOK
  <2>3. QED
    BY <1>0, <1>6, <2>2, TableSame, PeerSame DEF Tick, TypeOK
<1>7. CASE Route
  <2>1. PICK j \in batch :
          /\ batch'   = batch \ {j}
          /\ mailbox' = [mailbox EXCEPT ![chat[j.row]] = Append(@, j)]
          /\ actor'   = [actor EXCEPT ![chat[j.row]] = "live"]
          /\ UNCHANGED <<table, inline, work, peer, slot, faults, forced>>
    BY <1>7 DEF Route
  <2>2. j \in Job /\ chat[j.row] \in Chats
    BY <1>0 DEF WorkersOK, TableOK, Job
  <2>3. mailbox' \in [Chats -> Seq(Job)]
    BY <1>0, <2>1, <2>2 DEF WorkersOK
  <2>4. WorkersOK'
    BY <1>0, <2>1, <2>2, <2>3 DEF WorkersOK
  <2>5. QED
    BY <1>0, <2>1, <2>4, TableSame, PeerSame DEF TypeOK
<1>8. CASE PluginAccepts \/ PluginRejects
  <2>1. inline' \in [Row -> Phase]
    BY <1>0, <1>8 DEF PluginAccepts, PluginRejects, AnswerInline, AnswerActor, Phase
  <2>2. /\ work' \in [Chats -> [row : RowId, att : Nat, phase : Phase]]
        /\ \A d \in Chats : work'[d].phase # "idle" => work'[d].row \in Row
    <3>1. CASE UNCHANGED work
      BY <1>0, <3>1 DEF WorkersOK
    <3>2. ASSUME NEW c \in Chats, NEW ph \in Phase, AnswerActor(c, ph)
          PROVE  /\ work' \in [Chats -> [row : RowId, att : Nat, phase : Phase]]
                 /\ \A d \in Chats : work'[d].phase # "idle" => work'[d].row \in Row
      BY <1>0, <3>2, PhaseType DEF AnswerActor, WorkersOK
    <3>3. QED
      BY <1>8, <3>1, <3>2 DEF PluginAccepts, PluginRejects, Phase, workers
  <2>3. WorkersOK'
    BY <1>0, <1>8, <2>2 DEF PluginAccepts, PluginRejects, WorkersOK, workers
  <2>4. PeerOK'
    BY <1>0, <1>8 DEF PluginAccepts, PluginRejects, AnswerActor, WorkersOK, PeerOK
  <2>5. QED
    BY <1>0, <1>8, <2>1, <2>3, <2>4, TableSame DEF PluginAccepts, PluginRejects, TypeOK
<1>9. CASE LimboEnds
  <2>1. PeerOK'
    BY <1>0, <1>9 DEF LimboEnds, PeerOK
  <2>2. QED
    BY <1>0, <1>9, <2>1, TableSame, WorkersSame DEF LimboEnds, TypeOK
<1>10. ASSUME NEW r \in Row, TimePasses(r) \/ ForceRetry(r) \/ Purge(r) PROVE TypeOK'
  <2>1. TableOK'
    BY <1>0, <1>10 DEF TimePasses, ForceRetry, Purge, TableOK, Status
  <2>2. forced' \in Nat
    BY <1>0, <1>10 DEF TimePasses, ForceRetry, Purge
  <2>3. QED
    BY <1>0, <1>10, <2>1, <2>2, WorkersSame, PeerSame
       DEF TimePasses, ForceRetry, Purge, TypeOK
<1>11. CASE Crash
  <2>1. PeerOK'
    BY <1>0, <1>11 DEF Crash, PeerOK, WorkersOK
  <2>2. <<>> \in Seq(Job) /\ NoWork \in [row : RowId, att : Nat, phase : Phase]
        /\ NoWork.phase = "idle"
    BY OutboxAssumption DEF NoWork, RowId, Phase
  <2>3. WorkersOK'
    BY <1>11, <2>2 DEF Crash, WorkersOK
  <2>4. inline' \in [Row -> Phase] /\ faults' \in Nat
    BY <1>0, <1>11 DEF Crash, Phase
  <2>5. QED
    BY <1>0, <1>11, <2>1, <2>3, <2>4, TableSame DEF Crash, TypeOK
<1>12. CASE SlotTaken \/ SlotFilled
  BY <1>0, <1>12, TableSame, WorkersSame, PeerSame DEF SlotTaken, SlotFilled, TypeOK
<1>13. CASE UNCHANGED vars
  BY <1>0, <1>13, TableSame, WorkersSame, PeerSame DEF vars, TypeOK
<1>14. QED
  BY <1>1, <1>2, <1>3, <1>4, <1>5, <1>6, <1>7, <1>8, <1>9, <1>10, <1>11, <1>12, <1>13
     DEF Next, ActorStep

(* Type correctness of the outbox, for every instance.                     *)
THEOREM TypeCorrect == Spec => []TypeOK
<1>1. Init => TypeOK
  BY TypeInit
<1>2. TypeOK /\ [Next]_vars => TypeOK'
  BY TypeStep
<1>3. QED
  BY <1>1, <1>2, PTL DEF Spec

-----------------------------------------------------------------------------
(* The safety argument.  First what the statements do to the table, ...    *)

LEMMA InsertGrows ==
  ASSUME TableOK, NEW r \in Row, NEW c \in Chats, NEW k \in Kind,
         NEW o \in RowId, NEW d \in {"due", "later"}, Insert(r, c, k, o, d)
  PROVE  TableGrows
<1>1. TableOK'
  BY InsertType
<1>2. ASSUME NEW q \in Row, status[q] # "absent"
      PROVE  status'[q] # "absent" /\ attempts[q] <= attempts'[q]
  <2>1. q # r
    BY <1>2 DEF Insert, Fresh
  <2>2. QED
    BY <1>2, <2>1 DEF Insert, TableOK
<1>3. QED
  BY <1>1, <1>2 DEF TableOK, TableGrows

LEMMA WriteGrows ==
  ASSUME TableOK, faults \in Nat, NEW r \in Row,
         \/ Write(MarkDelivered(r)) \/ Write(MarkFailed(r)) \/ Write(Reschedule(r))
         \/ \E q \in Row : FallbackFor(r, q)
  PROVE  TableGrows
<1>0. status' \in [Row -> Status] /\ attempts' \in [Row -> Nat]
  BY WriteType DEF TableOK
<1>1. CASE LostWrite
  BY <1>0, <1>1 DEF LostWrite, table, TableOK, TableGrows
<1>2. CASE MarkDelivered(r)
  BY <1>0, <1>2 DEF MarkDelivered, SetStatus, TableOK, TableGrows
<1>3. CASE MarkFailed(r)
  BY <1>0, <1>3 DEF MarkFailed, SetStatus, TableOK, TableGrows
<1>4. CASE Reschedule(r)
  BY <1>0, <1>4 DEF Reschedule, TableOK, TableGrows
<1>5. ASSUME NEW q \in Row, Insert(q, chat[r], "send_message", r, "due")
      PROVE  TableGrows
  <2>1. chat[r] \in Chats /\ "send_message" \in Kind /\ r \in RowId
    BY DEF TableOK, Kind, RowId, Row
  <2>2. QED
    BY <1>5, <2>1, InsertGrows
<1>6. QED
  BY <1>1, <1>2, <1>3, <1>4, <1>5 DEF Write, FallbackFor

(* ... a claim stays behind a table that grows, ...                        *)
LEMMA BehindKept ==
  TableOK /\ TableGrows => \A r \in Row, a \in Nat :
    Behind(r, a) => status'[r] # "absent" /\ a <= attempts'[r]
BY DEF TableOK, TableGrows, Behind

LEMMA SameTableGrows == TableOK /\ UNCHANGED table => TableGrows
BY DEF TableOK, table, TableGrows

(* ... and no statement breaks the two table properties, if what it        *)
(* records is backed by the plugin's answers.                              *)
Marks(r) ==
  \/ MarkDelivered(r) /\ r \in shown
  \/ MarkFailed(r) /\ (r \in refused \/ attempts[r] + 1 >= MAX_ATTEMPTS)
  \/ Reschedule(r)

Inserts(r) ==
  \E c \in Chats, k \in Kind, o \in RowId, d \in {"due", "later"} : Insert(r, c, k, o, d)

Settles(r) == Marks(r) \/ Inserts(r) \/ UNCHANGED table

LEMMA SettledSafely ==
  ASSUME TableOK, NEW r \in Row, Settles(r),
         DeliveredWasShown, FailedWasJustified,
         shown \subseteq shown', refused \subseteq refused'
  PROVE  DeliveredWasShown' /\ FailedWasJustified'
<1>0. MAX_ATTEMPTS \in Nat
  BY OutboxAssumption
<1>1. CASE MarkDelivered(r) /\ r \in shown
  BY <1>1 DEF MarkDelivered, SetStatus, TableOK, DeliveredWasShown, FailedWasJustified
<1>2. CASE MarkFailed(r) /\ (r \in refused \/ attempts[r] + 1 >= MAX_ATTEMPTS)
  BY <1>2 DEF MarkFailed, SetStatus, TableOK, DeliveredWasShown, FailedWasJustified
<1>3. CASE Reschedule(r)
  <2>1. status' = status /\ \A q \in Row : attempts'[q] \in Nat /\ attempts[q] <= attempts'[q]
    BY <1>3 DEF Reschedule, TableOK
  <2>2. DeliveredWasShown'
    BY <2>1 DEF DeliveredWasShown
  <2>3. FailedWasJustified'
    BY <1>0, <2>1 DEF FailedWasJustified, TableOK
  <2>4. QED
    BY <2>2, <2>3
<1>4. ASSUME NEW c \in Chats, NEW k \in Kind, NEW o \in RowId, NEW d \in {"due", "later"},
             Insert(r, c, k, o, d)
      PROVE  DeliveredWasShown' /\ FailedWasJustified'
  BY <1>4 DEF Insert, TableOK, DeliveredWasShown, FailedWasJustified
<1>5. CASE UNCHANGED table
  BY <1>5 DEF table, DeliveredWasShown, FailedWasJustified
<1>6. QED
  BY <1>1, <1>2, <1>3, <1>4, <1>5 DEF Settles, Marks, Inserts

(* What a sender's step does to the table: a first try's, ...              *)
InlineMarks(r) == InlineDelivered(r) \/ InlineTransport(r) \/ InlineTerminal(r)

LEMMA InlineRecords ==
  ASSUME TableOK, AnswersAreReal, NEW r \in Row, InlineMarks(r)
  PROVE  Marks(r) \/ UNCHANGED table
<1>2. CASE InlineDelivered(r)
  BY <1>2 DEF InlineDelivered, Write, LostWrite, AnswersAreReal, Marks
<1>3. CASE InlineTransport(r)
  BY <1>3 DEF InlineTransport, Write, LostWrite, Marks
<1>4. CASE InlineTerminal(r)
  BY <1>4 DEF InlineTerminal, Write, LostWrite, AnswersAreReal, Marks
<1>6. QED
  BY <1>2, <1>3, <1>4 DEF InlineMarks

LEMMA FallbackInserts ==
  ASSUME TableOK, NEW r \in Row, NEW q \in Row, FallbackFor(r, q)
  PROVE  Inserts(q) \/ UNCHANGED table
<1>1. chat[r] \in Chats /\ "send_message" \in Kind /\ r \in RowId /\ "due" \in {"due", "later"}
  BY DEF TableOK, Kind, RowId, Row
<1>2. QED
  BY <1>1 DEF FallbackFor, Write, LostWrite, Inserts

LEMMA InlineSettles ==
  ASSUME TableOK, AnswersAreReal, NEW r \in Row, InlineStep(r)
  PROVE  \E q \in Row : Settles(q)
<1>1. CASE InlineMarks(r)
  BY <1>1, InlineRecords DEF Settles
<1>2. CASE InlineFallback(r)
  BY <1>2, FallbackInserts DEF InlineFallback, Settles
<1>3. QED
  BY <1>1, <1>2 DEF InlineStep, InlineMarks

ActorMarks(c) ==
  ActorDelivered(c) \/ ActorReschedule(c) \/ ActorExhausted(c) \/ ActorTerminal(c)

ActorWrites(c) == ActorMarks(c) \/ ActorFallback(c)

(* ... and an actor's.                                                     *)
LEMMA ActorRecords ==
  ASSUME TableOK, WorkersOK, AnswersAreReal, JobsAreBehind, NEW c \in Chats, ActorMarks(c)
  PROVE  work[c].row \in Row /\ (Marks(work[c].row) \/ UNCHANGED table)
<1>1. work[c].row \in Row /\ work[c].att \in Nat /\ work[c].att <= attempts[work[c].row]
  BY DEF ActorMarks, ActorDelivered, ActorReschedule, ActorExhausted, ActorTerminal,
         WorkersOK, JobsAreBehind, WorkBehind, Behind
<1>3. CASE ActorDelivered(c)
  BY <1>1, <1>3 DEF ActorDelivered, Write, LostWrite, AnswersAreReal, Marks
<1>4. CASE ActorReschedule(c)
  BY <1>1, <1>4 DEF ActorReschedule, Write, LostWrite, Marks
<1>5. CASE ActorExhausted(c)
  <2>1. attempts[work[c].row] + 1 >= MAX_ATTEMPTS
    BY <1>1, <1>5, OutboxAssumption DEF ActorExhausted, TableOK
  <2>2. QED
    BY <1>1, <1>5, <2>1 DEF ActorExhausted, FailWork, Write, LostWrite, Marks
<1>6. CASE ActorTerminal(c)
  BY <1>1, <1>6 DEF ActorTerminal, FailWork, Write, LostWrite, AnswersAreReal, Marks
<1>8. QED
  BY <1>3, <1>4, <1>5, <1>6 DEF ActorMarks

LEMMA ActorSettles ==
  ASSUME TableOK, WorkersOK, AnswersAreReal, JobsAreBehind, NEW c \in Chats, ActorWrites(c)
  PROVE  \E q \in Row : Settles(q)
<1>1. CASE ActorMarks(c)
  BY <1>1, ActorRecords DEF Settles
<1>2. CASE ActorFallback(c)
  BY <1>2, FallbackInserts DEF ActorFallback, Settles, WorkersOK
<1>3. QED
  BY <1>1, <1>2 DEF ActorWrites

(* ... and a job that stays where it is stays behind a table that grows.   *)
LEMMA BatchKept ==
  ASSUME TableOK, WorkersOK, TableGrows, BatchBehind, batch' \subseteq batch
  PROVE  BatchBehind'
BY BehindKept DEF WorkersOK, Job, BatchBehind, Behind

LEMMA MailKept ==
  ASSUME TableOK, WorkersOK, TableGrows, MailBehind, UNCHANGED mailbox
  PROVE  MailBehind'
<1>1. ASSUME NEW c \in Chats, NEW i \in 1 .. Len(mailbox'[c])
      PROVE  Behind(mailbox[c][i].row, mailbox[c][i].att)'
  <2>1. mailbox[c][i] \in Job /\ Behind(mailbox[c][i].row, mailbox[c][i].att)
    BY <1>1 DEF WorkersOK, MailBehind
  <2>2. mailbox[c][i].row \in Row /\ mailbox[c][i].att \in Nat
    BY <2>1 DEF Job
  <2>3. QED
    BY <2>1, <2>2, BehindKept DEF Behind
<1>2. QED
  BY <1>1 DEF MailBehind

LEMMA WorkKept ==
  ASSUME TableOK, WorkersOK, TableGrows, WorkBehind,
         \A c \in Chats : work'[c].phase # "idle" =>
           work[c].phase # "idle" /\ work'[c].row = work[c].row /\ work'[c].att = work[c].att
  PROVE  WorkBehind'
<1>1. ASSUME NEW c \in Chats, work'[c].phase # "idle"
      PROVE  Behind(work[c].row, work[c].att)'
  <2>1. work[c].row \in Row /\ work[c].att \in Nat /\ Behind(work[c].row, work[c].att)
    BY <1>1 DEF WorkersOK, WorkBehind
  <2>2. QED
    BY <1>1, <2>1, BehindKept DEF Behind
<1>2. QED
  BY <1>1 DEF WorkBehind

LEMMA JobsKept ==
  ASSUME TableOK, WorkersOK, TableGrows, JobsAreBehind, UNCHANGED workers
  PROVE  JobsAreBehind'
BY BatchKept, MailKept, WorkKept DEF JobsAreBehind, workers

Safe == AnswersAreReal /\ JobsAreBehind /\ DeliveredWasShown /\ FailedWasJustified

LEMMA SafeStep == IInv /\ [Next]_vars => Safe'
<1> SUFFICES ASSUME IInv, [Next]_vars PROVE Safe'
  OBVIOUS
<1>0. /\ TableOK /\ WorkersOK /\ PeerOK
      /\ inline \in [Row -> Phase] /\ faults \in Nat
      /\ AnswersAreReal /\ JobsAreBehind /\ DeliveredWasShown /\ FailedWasJustified
  BY DEF IInv, TypeOK
<1>1. ASSUME NEW r \in Row, NEW c \in Chats, NEW k \in InputKinds, Enqueue(r, c, k)
      PROVE  Safe'
  <2>1. k \in Kind /\ 0 \in RowId /\ "later" \in {"due", "later"}
    BY OutboxAssumption DEF RowId
  <2>2. TableGrows /\ Settles(r)
    BY <1>0, <1>1, <2>1, InsertGrows DEF Enqueue, Settles, Inserts
  <2>3. JobsAreBehind'
    BY <1>0, <1>1, <2>2, JobsKept DEF Enqueue
  <2>4. DeliveredWasShown' /\ FailedWasJustified'
    BY <1>0, <1>1, <2>2, SettledSafely DEF Enqueue, peer
  <2>5. AnswersAreReal'
    BY <1>0, <1>1 DEF Enqueue, peer, workers, AnswersAreReal
  <2>6. QED
    BY <2>3, <2>4, <2>5 DEF Safe
<1>2. ASSUME NEW r \in Row, InlineStep(r) PROVE Safe'
  <2>1. UNCHANGED <<workers, shown, refused>>
    BY <1>2 DEF InlineStep, InlineDelivered, InlineTransport, InlineTerminal,
                InlineFallback, GiveUpOn, peer
  <2>2. TableGrows
    BY <1>0, <1>2, WriteGrows
       DEF InlineStep, InlineDelivered, InlineTransport, InlineTerminal, InlineFallback
  <2>3. JobsAreBehind'
    BY <1>0, <2>1, <2>2, JobsKept
  <2>4. PICK q \in Row : Settles(q)
    BY <1>0, <1>2, InlineSettles
  <2>5. DeliveredWasShown' /\ FailedWasJustified'
    BY <1>0, <2>1, <2>4, SettledSafely
  <2>6. AnswersAreReal'
    BY <1>0, <1>2, <2>1 DEF InlineStep, InlineDelivered, InlineTransport, InlineTerminal,
                            InlineFallback, AfterFailure, workers, AnswersAreReal
  <2>7. QED
    BY <2>3, <2>5, <2>6 DEF Safe
<1>3. ASSUME NEW c \in Chats, ActorTake(c) PROVE Safe'
  <2>1. TableGrows /\ UNCHANGED <<table, inline, batch, shown, refused>>
    BY <1>0, <1>3, SameTableGrows DEF ActorTake, peer
  <2>2. mailbox[c] \in Seq(Job) /\ mailbox[c] # <<>>
    BY <1>0, <1>3 DEF ActorTake, WorkersOK
  <2>3. MailBehind' /\ BatchBehind'
    <3>1. BatchBehind'
      BY <1>0, <2>1, BatchKept DEF JobsAreBehind
    <3>2. ASSUME NEW d \in Chats, NEW i \in 1 .. Len(mailbox'[d])
          PROVE  \E n \in 1 .. Len(mailbox[d]) : mailbox'[d][i] = mailbox[d][n]
      <4>1. CASE d = c
        <5>1. mailbox'[c] = Tail(mailbox[c])
          BY <1>0, <1>3 DEF ActorTake, WorkersOK
        <5>2. i + 1 \in 1 .. Len(mailbox[c]) /\ mailbox'[c][i] = mailbox[c][i + 1]
          BY <2>2, <3>2, <4>1, <5>1
        <5>3. QED
          BY <4>1, <5>2
      <4>2. CASE d # c
        BY <1>0, <1>3, <3>2, <4>2 DEF ActorTake, WorkersOK
      <4>3. QED
        BY <4>1, <4>2
    <3>3. UNCHANGED <<status, attempts>>
      BY <2>1 DEF table
    <3>4. QED
      BY <1>0, <3>1, <3>2, <3>3 DEF JobsAreBehind, MailBehind, Behind
  <2>4. WorkBehind'
    <3>1. Behind(Head(mailbox[c]).row, Head(mailbox[c]).att)
      BY <1>0, <2>2 DEF JobsAreBehind, MailBehind
    <3>2. work'[c].row = Head(mailbox[c]).row /\ work'[c].att = Head(mailbox[c]).att
      BY <1>0, <1>3 DEF ActorTake, WorkersOK
    <3>3. \A d \in Chats \ {c} : work'[d] = work[d]
      BY <1>0, <1>3 DEF ActorTake, WorkersOK
    <3>4. UNCHANGED <<status, attempts>>
      BY <2>1 DEF table
    <3>5. QED
      BY <1>0, <3>1, <3>2, <3>3, <3>4 DEF JobsAreBehind, WorkBehind, Behind
  <2>5. DeliveredWasShown' /\ FailedWasJustified'
    BY <1>0, <2>1 DEF table, DeliveredWasShown, FailedWasJustified
  <2>6. AnswersAreReal'
    <3>1. work'[c].phase = "sent" /\ \A d \in Chats \ {c} : work'[d] = work[d]
      BY <1>0, <1>3 DEF ActorTake, WorkersOK
    <3>2. QED
      BY <1>0, <2>1, <3>1 DEF AnswersAreReal
  <2>7. QED
    BY <2>3, <2>4, <2>5, <2>6 DEF Safe, JobsAreBehind
<1>4. ASSUME NEW c \in Chats, ActorWrites(c) PROVE Safe'
  <2>0. work[c].row \in Row /\ work[c].att \in Nat /\ work[c].att <= attempts[work[c].row]
    BY <1>0, <1>4 DEF ActorWrites, ActorMarks, ActorDelivered, ActorReschedule, ActorExhausted, ActorTerminal,
                      ActorFallback, WorkersOK, JobsAreBehind, WorkBehind, Behind
  <2>1. /\ UNCHANGED <<inline, batch, mailbox, shown, refused>>
        /\ \/ work' = [work EXCEPT ![c] = NoWork]
           \/ work' = [work EXCEPT ![c] = [@ EXCEPT !.phase = "fallback"]]
    BY <1>4 DEF ActorWrites, ActorMarks, ActorDelivered, ActorReschedule, ActorExhausted, ActorTerminal,
                ActorFallback, FailWork, Rest, GiveUpOn, peer
  <2>2. TableGrows
    BY <1>0, <1>4, <2>0, WriteGrows
       DEF ActorWrites, ActorMarks, ActorDelivered, ActorReschedule, ActorExhausted, ActorTerminal, ActorFallback, FailWork
  <2>3. \A d \in Chats :
          \/ work'[d] = work[d]
          \/ work'[d].phase = "idle"
          \/ /\ work'[d].phase = "fallback" /\ work[d].phase # "idle"
             /\ work'[d].row = work[d].row /\ work'[d].att = work[d].att
    <3>1. work[c].phase # "idle"
      BY <1>4 DEF ActorWrites, ActorMarks, ActorDelivered, ActorReschedule, ActorExhausted, ActorTerminal, ActorFallback
    <3>2. QED
      BY <1>0, <2>1, <3>1 DEF WorkersOK, NoWork
  <2>4. JobsAreBehind'
    BY <1>0, <2>1, <2>2, <2>3, BatchKept, MailKept, WorkKept DEF JobsAreBehind
  <2>5. PICK q \in Row : Settles(q)
    BY <1>0, <1>4, ActorSettles
  <2>6. DeliveredWasShown' /\ FailedWasJustified'
    BY <1>0, <2>1, <2>5, SettledSafely
  <2>7. AnswersAreReal'
    BY <1>0, <2>1, <2>3 DEF AnswersAreReal
  <2>8. QED
    BY <2>4, <2>6, <2>7 DEF Safe
<1>5. ASSUME NEW c \in Chats, ActorIdle(c) PROVE Safe'
  <2>1. TableGrows /\ UNCHANGED <<table, inline, batch, work, shown, refused>>
    BY <1>0, <1>5, SameTableGrows DEF ActorIdle, peer
  <2>2. MailBehind'
    <3>1. \A d \in Chats : mailbox'[d] = mailbox[d] \/ mailbox'[d] = <<>>
      BY <1>0, <1>5 DEF ActorIdle, WorkersOK
    <3>2. UNCHANGED <<status, attempts>>
      BY <2>1 DEF table
    <3>3. QED
      BY <1>0, <3>1, <3>2 DEF JobsAreBehind, MailBehind, Behind
  <2>3. JobsAreBehind'
    BY <1>0, <2>1, <2>2, BatchKept, WorkKept DEF JobsAreBehind
  <2>4. DeliveredWasShown' /\ FailedWasJustified' /\ AnswersAreReal'
    BY <1>0, <2>1 DEF table, DeliveredWasShown, FailedWasJustified, AnswersAreReal
  <2>5. QED
    BY <2>3, <2>4 DEF Safe
<1>6. CASE Tick
  <2>1. TableGrows /\ UNCHANGED <<table, inline, mailbox, work, shown, refused>>
    BY <1>0, <1>6, SameTableGrows DEF Tick, peer
  <2>2. BatchBehind'
    <3>1. \A r \in Claimed : r \in Row /\ status[r] = "pending"
      BY DEF Claimed, Claimable
    <3>2. \A r \in Claimed : Behind(r, attempts[r])
      BY <1>0, <3>1 DEF TableOK, Behind
    <3>3. UNCHANGED <<status, attempts>>
      BY <2>1 DEF table
    <3>4. QED
      BY <1>6, <3>2, <3>3 DEF Tick, BatchBehind, Behind
  <2>3. JobsAreBehind'
    BY <1>0, <2>1, <2>2, MailKept, WorkKept DEF JobsAreBehind
  <2>4. DeliveredWasShown' /\ FailedWasJustified' /\ AnswersAreReal'
    BY <1>0, <2>1 DEF table, DeliveredWasShown, FailedWasJustified, AnswersAreReal
  <2>5. QED
    BY <2>3, <2>4 DEF Safe
<1>7. CASE Route
  <2>1. PICK j \in batch :
          /\ batch'   = batch \ {j}
          /\ mailbox' = [mailbox EXCEPT ![chat[j.row]] = Append(@, j)]
          /\ UNCHANGED <<table, inline, work, shown, refused>>
    BY <1>7 DEF Route, peer
  <2>2. TableGrows /\ j \in Job /\ Behind(j.row, j.att) /\ UNCHANGED <<status, attempts>>
    BY <1>0, <2>1, SameTableGrows DEF WorkersOK, JobsAreBehind, BatchBehind, table
  <2>3. MailBehind'
    <3>1. ASSUME NEW d \in Chats, NEW i \in 1 .. Len(mailbox'[d])
          PROVE  \/ mailbox'[d][i] = j
                 \/ i \in 1 .. Len(mailbox[d]) /\ mailbox'[d][i] = mailbox[d][i]
      <4>1. mailbox[d] \in Seq(Job)
        BY <1>0 DEF WorkersOK
      <4>2. mailbox'[d] = mailbox[d] \/ mailbox'[d] = Append(mailbox[d], j)
        BY <1>0, <2>1 DEF WorkersOK
      <4>3. QED
        BY <2>2, <3>1, <4>1, <4>2
    <3>2. QED
      BY <1>0, <2>2, <3>1 DEF JobsAreBehind, MailBehind, Behind
  <2>4. JobsAreBehind'
    BY <1>0, <2>1, <2>2, <2>3, BatchKept, WorkKept DEF JobsAreBehind
  <2>5. DeliveredWasShown' /\ FailedWasJustified' /\ AnswersAreReal'
    BY <1>0, <2>1 DEF table, DeliveredWasShown, FailedWasJustified, AnswersAreReal
  <2>6. QED
    BY <2>4, <2>5 DEF Safe
<1>8. CASE PluginAccepts \/ PluginRejects
  <2>1. /\ TableGrows /\ UNCHANGED <<table, batch, mailbox>>
        /\ shown \subseteq shown' /\ refused \subseteq refused'
    BY <1>0, <1>8, SameTableGrows DEF PluginAccepts, PluginRejects, workers
  <2>2. \A d \in Chats :
          \/ work'[d] = work[d]
          \/ /\ work[d].phase # "idle"
             /\ work'[d].row = work[d].row /\ work'[d].att = work[d].att
             /\ \/ work'[d].phase = "accepted" /\ work[d].row \in shown'
                \/ work'[d].phase = "rejected" /\ work[d].row \in refused'
    <3>1. ASSUME NEW c \in Chats, NEW ph \in {"accepted", "rejected"}, AnswerActor(c, ph),
                 ph = "accepted" => work[c].row \in shown',
                 ph = "rejected" => work[c].row \in refused'
          PROVE  \A d \in Chats :
                   \/ work'[d] = work[d]
                   \/ /\ work[d].phase # "idle"
                      /\ work'[d].row = work[d].row /\ work'[d].att = work[d].att
                      /\ \/ work'[d].phase = "accepted" /\ work[d].row \in shown'
                         \/ work'[d].phase = "rejected" /\ work[d].row \in refused'
      BY <1>0, <3>1 DEF AnswerActor, WorkersOK
    <3>2. CASE UNCHANGED work
      BY <3>2
    <3>3. QED
      BY <1>8, <3>1, <3>2 DEF PluginAccepts, PluginRejects, workers
  <2>3. \A r \in Row :
          \/ inline'[r] = inline[r]
          \/ inline'[r] = "accepted" /\ r \in shown'
          \/ inline'[r] = "rejected" /\ r \in refused'
    BY <1>0, <1>8 DEF PluginAccepts, PluginRejects, AnswerInline
  <2>4. JobsAreBehind'
    BY <1>0, <2>1, <2>2, BatchKept, MailKept, WorkKept DEF JobsAreBehind
  <2>5. DeliveredWasShown' /\ FailedWasJustified'
    BY <1>0, <2>1 DEF table, DeliveredWasShown, FailedWasJustified
  <2>6. AnswersAreReal'
    BY <1>0, <2>1, <2>2, <2>3 DEF AnswersAreReal
  <2>7. QED
    BY <2>4, <2>5, <2>6 DEF Safe
<1>9. CASE LimboEnds \/ SlotTaken \/ SlotFilled \/ UNCHANGED vars
  <2>1. /\ TableGrows /\ UNCHANGED <<table, inline, workers, refused>>
        /\ shown \subseteq shown'
    BY <1>0, <1>9, SameTableGrows DEF LimboEnds, SlotTaken, SlotFilled, vars, peer
  <2>2. JobsAreBehind'
    BY <1>0, <2>1, JobsKept
  <2>3. DeliveredWasShown' /\ FailedWasJustified' /\ AnswersAreReal'
    BY <1>0, <2>1 DEF table, workers, DeliveredWasShown, FailedWasJustified, AnswersAreReal
  <2>4. QED
    BY <2>2, <2>3 DEF Safe
<1>10. ASSUME NEW r \in Row, TimePasses(r) \/ ForceRetry(r) \/ Purge(r) PROVE Safe'
  <2>1. UNCHANGED <<attempts, inline, workers, shown, refused>>
    BY <1>10 DEF TimePasses, ForceRetry, Purge, peer
  <2>2. \A q \in Row :
          \/ status'[q] = status[q]
          \/ status[q] # "absent" /\ status'[q] = "pending"
          \/ status[q] = "delivered" /\ status'[q] = "purged"
    BY <1>0, <1>10 DEF TimePasses, ForceRetry, Purge, TableOK, Stored
  <2>3. status' \in [Row -> Status]
    BY <1>0, <1>10 DEF TimePasses, ForceRetry, Purge, TableOK, Status
  <2>4. TableGrows
    BY <1>0, <2>1, <2>2, <2>3 DEF TableOK, TableGrows
  <2>5. JobsAreBehind'
    BY <1>0, <2>1, <2>4, JobsKept
  <2>6. DeliveredWasShown' /\ FailedWasJustified' /\ AnswersAreReal'
    BY <1>0, <2>1, <2>2 DEF workers, DeliveredWasShown, FailedWasJustified, AnswersAreReal
  <2>7. QED
    BY <2>5, <2>6 DEF Safe
<1>11. CASE Crash
  <2>1. /\ TableGrows /\ UNCHANGED <<table, shown, refused>>
        /\ \A r \in Row : inline'[r] = "idle"
        /\ \A c \in Chats : work'[c].phase = "idle" /\ mailbox'[c] = <<>>
        /\ batch' = {}
    BY <1>0, <1>11, SameTableGrows DEF Crash, NoWork
  <2>2. JobsAreBehind'
    BY <2>1 DEF JobsAreBehind, BatchBehind, MailBehind, WorkBehind
  <2>3. DeliveredWasShown' /\ FailedWasJustified' /\ AnswersAreReal'
    BY <1>0, <2>1 DEF table, DeliveredWasShown, FailedWasJustified, AnswersAreReal
  <2>4. QED
    BY <2>2, <2>3 DEF Safe
<1>12. QED
  BY <1>1, <1>2, <1>3, <1>4, <1>5, <1>6, <1>7, <1>8, <1>9, <1>10, <1>11
     DEF Next, ActorStep, ActorWrites, ActorMarks

LEMMA InductiveInvariant == Spec => []IInv
<1>1. Init => IInv
  <2>1. Init => TypeOK
    BY TypeInit
  <2>2. Init => Safe
    BY DEF Init, Safe, AnswersAreReal, JobsAreBehind, BatchBehind, MailBehind, WorkBehind,
           NoWork, DeliveredWasShown, FailedWasJustified
  <2>3. QED
    BY <2>1, <2>2 DEF IInv, Safe
<1>2. IInv /\ [Next]_vars => IInv'
  <2>1. IInv /\ [Next]_vars => TypeOK'
    BY TypeStep DEF IInv
  <2>2. QED
    BY <2>1, SafeStep DEF IInv, Safe
<1>3. QED
  BY <1>1, <1>2, PTL DEF Spec

(* However claims, lost answers, lost writes, restarts and operator        *)
(* retries interleave, a row recorded delivered was shown to the user.     *)
THEOREM DeliveredIsShown == Spec => []DeliveredWasShown
<1>1. IInv => DeliveredWasShown
  BY DEF IInv
<1>2. QED
  BY <1>1, InductiveInvariant, PTL

(* No row is given up before the plugin refused it or the table shows      *)
(* MAX_ATTEMPTS - 1 attempts, although the worker decides on the attempts  *)
(* value a possibly duplicate claim read.                                  *)
THEOREM FailedIsJustified == Spec => []FailedWasJustified
<1>1. IInv => FailedWasJustified
  BY DEF IInv
<1>2. QED
  BY <1>1, InductiveInvariant, PTL

-----------------------------------------------------------------------------
(* The replacement of a failed update.  A fresh row replaces nothing, so   *)
(* that no insert overwrites the origin of an existing replacement.        *)
OriginsExist == \A q \in Row : origin[q] # 0 => status[q] # "absent"

LEMMA OriginStep ==
  ASSUME TypeOK, OriginsExist, [Next]_vars
  PROVE  OriginsExist' /\ \A q \in Row : origin[q] # 0 => origin'[q] = origin[q]
<1> DEFINE Goal == OriginsExist' /\ \A q \in Row : origin[q] # 0 => origin'[q] = origin[q]
<1>0. TableOK /\ WorkersOK
  BY DEF TypeOK
<1>1. ASSUME NEW r, NEW c, NEW k, NEW o, NEW d, r \in Row, Insert(r, c, k, o, d) PROVE Goal
  BY <1>0, <1>1 DEF Insert, Fresh, OriginsExist, TableOK
<1>2. ASSUME UNCHANGED origin, \A q \in Row : status[q] # "absent" => status'[q] # "absent" PROVE Goal
  BY <1>2 DEF OriginsExist
<1>3. ASSUME NEW r, NEW s \in {"delivered", "failed"}, SetStatus(r, s) PROVE Goal
  <2>1. \A q \in Row : status[q] # "absent" => status'[q] # "absent"
    BY <1>0, <1>3 DEF SetStatus, TableOK
  <2>2. QED
    BY <1>2, <1>3, <2>1 DEF SetStatus
<1>4. ASSUME NEW r, \/ Write(MarkDelivered(r)) \/ Write(MarkFailed(r)) \/ Write(Reschedule(r))
                    \/ \E q \in Row : FallbackFor(r, q)
      PROVE  Goal
  <2>1. CASE MarkDelivered(r) \/ MarkFailed(r)
    BY <1>3, <2>1 DEF MarkDelivered, MarkFailed
  <2>2. CASE Reschedule(r) \/ LostWrite
    BY <1>2, <2>2 DEF Reschedule, LostWrite, table
  <2>3. ASSUME NEW q \in Row, Insert(q, chat[r], "send_message", r, "due") PROVE Goal
    BY <1>1, <2>3
  <2>4. QED
    BY <1>4, <2>1, <2>2, <2>3 DEF Write, FallbackFor
<1>5. ASSUME NEW r \in Row, NEW c \in Chats, NEW k \in InputKinds, Enqueue(r, c, k) PROVE Goal
  BY <1>1, <1>5 DEF Enqueue
<1>6. ASSUME NEW r \in Row, InlineStep(r) PROVE Goal
  BY <1>4, <1>6 DEF InlineStep, InlineDelivered, InlineTransport, InlineTerminal, InlineFallback
<1>7. ASSUME NEW c \in Chats, ActorWrites(c) PROVE Goal
  BY <1>4, <1>7 DEF ActorWrites, ActorMarks, ActorDelivered, ActorReschedule, ActorExhausted, ActorTerminal,
                    ActorFallback, FailWork
<1>8. ASSUME NEW r \in Row, TimePasses(r) \/ ForceRetry(r) \/ Purge(r) PROVE Goal
  <2>1. \A q \in Row : status[q] # "absent" => status'[q] # "absent"
    BY <1>0, <1>8 DEF TimePasses, ForceRetry, Purge, TableOK
  <2>2. QED
    BY <1>2, <1>8, <2>1 DEF TimePasses, ForceRetry, Purge
<1>9. CASE UNCHANGED table
  BY <1>2, <1>9 DEF table
<1>10. QED
  BY <1>5, <1>6, <1>7, <1>8, <1>9
     DEF Next, ActorStep, ActorWrites, ActorMarks, ActorTake, ActorIdle, Tick, Route, PluginAccepts,
         PluginRejects, LimboEnds, Crash, SlotTaken, SlotFilled, vars

Replaced(r) ==
  \/ \E q \in Row : origin[q] = r
  \/ inline[r] = "fallback"
  \/ \E c \in Chats : work[c].row = r /\ work[c].phase = "fallback"

LEMMA ReplacedStep ==
  ASSUME TypeOK, OriginsExist, UpdateIsReplacedUnlessFault, [Next]_vars
  PROVE  UpdateIsReplacedUnlessFault'
<1> SUFFICES ASSUME faults' = 0, NEW r \in Row, status'[r] = "failed", kind'[r] = "update_message"
             PROVE  Replaced(r)'
  BY DEF UpdateIsReplacedUnlessFault, UpdateIsReplaced, Replaced
<1>0. TableOK /\ WorkersOK /\ inline \in [Row -> Phase] /\ faults \in Nat /\ r # 0
  BY DEF TypeOK, Row
<1>a. faults = 0 /\ ~LostWrite
  <2>1. faults' = faults \/ faults' = faults + 1
    BY DEF Next, InlineStep, InlineDelivered, InlineTransport, InlineTerminal, InlineFallback,
           ActorStep, ActorTake, ActorDelivered, ActorReschedule, ActorExhausted, ActorTerminal,
           ActorFallback, ActorIdle, FailWork, FallbackFor, Write, LostWrite, Enqueue, TimePasses,
           ForceRetry, Purge, Tick, Route, PluginAccepts, PluginRejects, LimboEnds, Crash,
           SlotTaken, SlotFilled, vars
  <2>2. QED
    BY <1>0, <2>1 DEF LostWrite
<1>b. status[r] = "failed" /\ kind[r] = "update_message" => Replaced(r)
  BY <1>a DEF UpdateIsReplacedUnlessFault, UpdateIsReplaced, Replaced
<1>c. \A q \in Row : origin[q] = r => origin'[q] = r
  BY <1>0, OriginStep
<1>d. ASSUME kind'[r] = kind[r], status'[r] = status[r],
             inline[r] = "fallback" => inline'[r] = "fallback",
             \A c \in Chats : work[c].phase = "fallback" => work'[c] = work[c]
      PROVE  Replaced(r)'
  BY <1>b, <1>c, <1>d DEF Replaced
<1>e. ASSUME NEW q \in Row, NEW p \in Row, Insert(q, chat[p], "send_message", p, "due"),
             \A x \in Row \ {p} : inline'[x] = inline[x],
             \A c \in Chats : work[c].phase = "fallback" /\ work[c].row # p => work'[c] = work[c]
      PROVE  Replaced(r)'
  <2>1. q # r /\ kind'[r] = kind[r] /\ status'[r] = status[r] /\ origin'[q] = p
    BY <1>0, <1>e DEF Insert, TableOK
  <2>2. CASE p = r
    BY <2>1, <2>2 DEF Replaced
  <2>3. CASE p # r
    <3>1. inline'[r] = inline[r]
      BY <1>e, <2>3
    <3>2. \A c \in Chats : work[c].row = r /\ work[c].phase = "fallback" => work'[c] = work[c]
      BY <1>e, <2>3
    <3>3. QED
      BY <1>b, <1>c, <2>1, <3>1, <3>2 DEF Replaced
  <2>4. QED
    BY <2>2, <2>3
<1>1. ASSUME NEW q \in Row, NEW c \in Chats, NEW k \in InputKinds, Enqueue(q, c, k)
      PROVE  Replaced(r)'
  <2>1. q # r /\ UNCHANGED work
    BY <1>0, <1>1 DEF Enqueue, Insert, TableOK, workers
  <2>2. kind'[r] = kind[r] /\ status'[r] = status[r] /\ inline'[r] = inline[r]
    BY <1>0, <1>1, <2>1 DEF Enqueue, Insert, TableOK
  <2>3. QED
    BY <1>d, <2>1, <2>2
<1>2. ASSUME NEW q \in Row, InlineDelivered(q) \/ InlineTransport(q) PROVE Replaced(r)'
  <2>1. /\ MarkDelivered(q) \/ Reschedule(q)
        /\ inline' = [inline EXCEPT ![q] = "idle"] /\ inline[q] # "fallback" /\ UNCHANGED work
    BY <1>2, <1>a DEF InlineDelivered, InlineTransport, Write, workers
  <2>2. status'[r] = status[r] /\ kind'[r] = kind[r]
    BY <1>0, <2>1 DEF MarkDelivered, Reschedule, SetStatus, TableOK
  <2>3. inline[r] = "fallback" => inline'[r] = "fallback"
    BY <1>0, <2>1
  <2>4. QED
    BY <1>d, <2>1, <2>2, <2>3
<1>3. ASSUME NEW q \in Row, InlineTerminal(q) PROVE Replaced(r)'
  <2>1. /\ MarkFailed(q) /\ inline' = [inline EXCEPT ![q] = AfterFailure(q)]
        /\ inline[q] = "rejected" /\ UNCHANGED work
    BY <1>3, <1>a DEF InlineTerminal, Write, workers
  <2>2. CASE q = r
    <3>1. kind[r] = "update_message"
      BY <2>1 DEF MarkFailed, SetStatus
    <3>2. inline'[r] = "fallback"
      BY <1>0, <2>1, <2>2, <3>1 DEF AfterFailure
    <3>3. QED
      BY <3>2 DEF Replaced
  <2>3. CASE q # r
    <3>1. status'[r] = status[r] /\ kind'[r] = kind[r] /\ inline'[r] = inline[r]
      BY <1>0, <2>1, <2>3 DEF MarkFailed, SetStatus, TableOK
    <3>2. QED
      BY <1>d, <2>1, <3>1
  <2>4. QED
    BY <2>2, <2>3
<1>4. ASSUME NEW p \in Row, InlineFallback(p) PROVE Replaced(r)'
  <2>1. PICK q \in Row : Insert(q, chat[p], "send_message", p, "due")
    BY <1>4, <1>a DEF InlineFallback, FallbackFor, Write
  <2>2. UNCHANGED work /\ \A x \in Row \ {p} : inline'[x] = inline[x]
    BY <1>0, <1>4 DEF InlineFallback, workers
  <2>3. QED
    BY <1>e, <2>1, <2>2
<1>5. ASSUME NEW c \in Chats, ActorDelivered(c) \/ ActorReschedule(c) PROVE Replaced(r)'
  <2>1. /\ MarkDelivered(work[c].row) \/ Reschedule(work[c].row)
        /\ work' = [work EXCEPT ![c] = NoWork] /\ work[c].phase # "fallback" /\ UNCHANGED inline
    BY <1>5, <1>a DEF ActorDelivered, ActorReschedule, Write, Rest
  <2>2. status'[r] = status[r] /\ kind'[r] = kind[r]
    BY <1>0, <2>1 DEF MarkDelivered, Reschedule, SetStatus, TableOK
  <2>3. \A d \in Chats : work[d].phase = "fallback" => work'[d] = work[d]
    BY <1>0, <2>1 DEF WorkersOK
  <2>4. QED
    BY <1>d, <2>1, <2>2, <2>3
<1>6. ASSUME NEW c \in Chats, ActorExhausted(c) \/ ActorTerminal(c) PROVE Replaced(r)'
  <2>1. PICK q \in Row : q = work[c].row
    BY <1>0, <1>6 DEF ActorExhausted, ActorTerminal, WorkersOK
  <2>2. /\ MarkFailed(q) /\ UNCHANGED inline /\ work[c].phase \notin {"idle", "fallback"}
        /\ work' = [work EXCEPT ![c] = IF AfterFailure(q) = "fallback"
                                       THEN [work[c] EXCEPT !.phase = "fallback"] ELSE NoWork]
    BY <1>6, <1>a, <2>1 DEF ActorExhausted, ActorTerminal, FailWork, Write
  <2>3. \A d \in Chats \ {c} : work'[d] = work[d]
    BY <1>0, <2>2 DEF WorkersOK
  <2>4. CASE q = r
    <3>1. kind[r] = "update_message"
      BY <2>2 DEF MarkFailed, SetStatus
    <3>2. work'[c] = [work[c] EXCEPT !.phase = "fallback"]
      BY <1>0, <2>2, <2>4, <3>1 DEF AfterFailure, WorkersOK
    <3>3. work'[c].row = r /\ work'[c].phase = "fallback"
      BY <1>0, <2>1, <2>4, <3>2 DEF WorkersOK
    <3>4. QED
      BY <3>3 DEF Replaced
  <2>5. CASE q # r
    <3>1. status'[r] = status[r] /\ kind'[r] = kind[r]
      BY <1>0, <2>2, <2>5 DEF MarkFailed, SetStatus, TableOK
    <3>2. QED
      BY <1>d, <2>2, <2>3, <3>1
  <2>6. QED
    BY <2>4, <2>5
<1>7. ASSUME NEW c \in Chats, ActorFallback(c) PROVE Replaced(r)'
  <2>1. PICK p \in Row : p = work[c].row
    BY <1>0, <1>7 DEF ActorFallback, WorkersOK
  <2>2. PICK q \in Row : Insert(q, chat[p], "send_message", p, "due")
    BY <1>7, <1>a, <2>1 DEF ActorFallback, FallbackFor, Write
  <2>3. \A d \in Chats : work[d].phase = "fallback" /\ work[d].row # p => work'[d] = work[d]
    BY <1>0, <1>7, <2>1 DEF ActorFallback, Rest, WorkersOK
  <2>4. QED
    BY <1>7, <1>e, <2>2, <2>3 DEF ActorFallback
<1>8. ASSUME NEW c \in Chats, ActorTake(c) PROVE Replaced(r)'
  <2>1. \A d \in Chats : work[d].phase = "fallback" => work'[d] = work[d]
    BY <1>0, <1>8 DEF ActorTake, WorkersOK
  <2>2. QED
    BY <1>8, <1>d, <2>1 DEF ActorTake, table
<1>9. CASE PluginAccepts \/ PluginRejects
  <2>1. UNCHANGED table
    BY <1>9 DEF PluginAccepts, PluginRejects
  <2>2. inline[r] = "fallback" => inline'[r] = "fallback"
    BY <1>0, <1>9 DEF PluginAccepts, PluginRejects, AnswerInline
  <2>3. \A d \in Chats : work[d].phase = "fallback" => work'[d] = work[d]
    BY <1>0, <1>9 DEF PluginAccepts, PluginRejects, AnswerActor, workers, WorkersOK
  <2>4. QED
    BY <1>d, <2>1, <2>2, <2>3 DEF table
<1>10. ASSUME NEW q \in Row, TimePasses(q) \/ ForceRetry(q) \/ Purge(q) PROVE Replaced(r)'
  <2>1. status'[r] = status[r] /\ UNCHANGED <<kind, inline, work>>
    BY <1>0, <1>10 DEF TimePasses, ForceRetry, Purge, TableOK, workers
  <2>2. QED
    BY <1>d, <2>1
<1>11. CASE UNCHANGED <<table, inline, work>>
  BY <1>11, <1>d DEF table
<1>12. CASE Crash
  BY <1>0, <1>a, <1>12 DEF Crash
<1>13. QED
  BY <1>1, <1>2, <1>3, <1>4, <1>5, <1>6, <1>7, <1>8, <1>9, <1>10, <1>11, <1>12
     DEF Next, InlineStep, ActorStep, ActorIdle, Tick, Route, LimboEnds, SlotTaken, SlotFilled,
         workers, vars

(* A failed update has its replacement row, or the sender that failed it   *)
(* is about to insert one (outbox.rs: "in the same call"), as long as no   *)
(* crash and no lost statement intervenes: neither a duplicate claim nor a *)
(* late answer nor an operator retry swallows it.                          *)
THEOREM FailedUpdateIsReplaced == Spec => []UpdateIsReplacedUnlessFault
<1>1. Init => TypeOK /\ OriginsExist /\ UpdateIsReplacedUnlessFault
  <2>1. Init => OriginsExist /\ UpdateIsReplacedUnlessFault
    BY DEF Init, OriginsExist, UpdateIsReplacedUnlessFault, UpdateIsReplaced
  <2>2. QED
    BY <2>1, TypeInit
<1>2. TypeOK /\ OriginsExist /\ UpdateIsReplacedUnlessFault /\ [Next]_vars
        => (TypeOK /\ OriginsExist /\ UpdateIsReplacedUnlessFault)'
  BY TypeStep, OriginStep, ReplacedStep
<1>3. QED
  BY <1>1, <1>2, PTL DEF Spec

-----------------------------------------------------------------------------
(* The durable outbox implements Delivery: its initial state is one of the *)
(* promise's, and every step of Outbox is a step of the promise or leaves  *)
(* everything the promise speaks of unchanged.                             *)

(* A write to one row's status is a write to one item's outcome.           *)
LEMMA OutcomeSet ==
  ASSUME TableOK, NEW r \in Row, NEW s, status' = [status EXCEPT ![r] = s]
  PROVE  Outcome' = [Outcome EXCEPT ![r] = OutcomeOf(s)]
BY DEF Outcome, TableOK

LEMMA OutcomeSame == ASSUME UNCHANGED status PROVE UNCHANGED Outcome
BY DEF Outcome

LEMMA OutcomeStored ==
  ASSUME TableOK, NEW r \in Row, Stored(r)
  PROVE  Promise!Known(r)
<1>1. Outcome[r] = OutcomeOf(status[r]) /\ status[r] \in {"pending", "delivered", "failed"}
  BY DEF Outcome, Stored, TableOK, Status
<1>2. QED
  BY <1>1 DEF Promise!Known, OutcomeOf

(* Who a try is made of: a sender that asks the plugin for a row makes one *)
(* and, once it has an answer or gives up, makes it no longer; others may. *)
TryEnds(r) == r \in UnderWay /\ UnderWay' \in {UnderWay, UnderWay \ {r}}

LEMMA InlineTryEnds ==
  ASSUME inline \in [Row -> Phase], NEW r \in Row, inline[r] \in Asking,
         inline'[r] \notin Asking, \A q \in Row \ {r} : inline'[q] = inline[q],
         UNCHANGED workers
  PROVE  TryEnds(r)
<1>1. \A q \in Row \ {r} : q \in UnderWay' <=> q \in UnderWay
  BY DEF UnderWay, workers
<1>2. r \in UnderWay /\ UnderWay \subseteq Row /\ UnderWay' \subseteq Row
  BY DEF UnderWay
<1>3. CASE r \in UnderWay'
  <2>1. UnderWay' = UnderWay
    BY <1>1, <1>2, <1>3
  <2>2. QED
    BY <1>2, <2>1 DEF TryEnds
<1>4. CASE r \notin UnderWay'
  <2>1. UnderWay' = UnderWay \ {r}
    BY <1>1, <1>2, <1>4
  <2>2. QED
    BY <1>2, <2>1 DEF TryEnds
<1>5. QED
  BY <1>3, <1>4

LEMMA ActorTryEnds ==
  ASSUME WorkersOK, NEW c \in Chats, work[c].phase \in Asking,
         work'[c].phase \notin Asking, \A d \in Chats \ {c} : work'[d] = work[d],
         UNCHANGED <<inline, batch, mailbox>>
  PROVE  TryEnds(work[c].row)
<1> DEFINE r == work[c].row
<1>0. r \in Row
  BY DEF WorkersOK, Asking
<1>1. \A q \in Row \ {r} : q \in UnderWay' <=> q \in UnderWay
  <2>1. \A q \in Row \ {r} :
          (\E d \in Chats : work'[d].row = q /\ work'[d].phase \in Asking)
            <=> (\E d \in Chats : work[d].row = q /\ work[d].phase \in Asking)
    OBVIOUS
  <2>2. QED
    BY <2>1 DEF UnderWay
<1>2. r \in UnderWay /\ UnderWay \subseteq Row /\ UnderWay' \subseteq Row
  BY <1>0 DEF UnderWay
<1>3. CASE r \in UnderWay'
  <2>1. UnderWay' = UnderWay
    BY <1>1, <1>2, <1>3
  <2>2. QED
    BY <1>2, <2>1 DEF TryEnds
<1>4. CASE r \notin UnderWay'
  <2>1. UnderWay' = UnderWay \ {r}
    BY <1>1, <1>2, <1>4
  <2>2. QED
    BY <1>2, <2>1 DEF TryEnds
<1>5. QED
  BY <1>3, <1>4

(* A step that writes nothing and tries only what is pending.              *)
LEMMA TryImplements ==
  ASSUME TableOK, UNCHANGED <<status, attempts, forced, shown, refused>>,
         \A r \in Row : r \in UnderWay' => r \in UnderWay \/ status[r] = "pending"
  PROVE  [Promise!Next]_(Promise!promise)
<1>1. UNCHANGED Outcome
  BY OutcomeSame
<1>2. \A r \in Row : status[r] = "pending" => Outcome[r] = "queued"
  BY DEF Outcome, OutcomeOf
<1>3. UnderWay' \subseteq Row
  BY DEF UnderWay
<1>4. UnderWay' \subseteq UnderWay \cup {i \in Row : Outcome[i] = "queued"}
  BY <1>2, <1>3
<1>5. Promise!Try
  BY <1>1, <1>4 DEF Promise!Try
<1>6. QED
  BY <1>5 DEF Promise!Next

(* Whatever a sender records is one step of the promise, or a stutter.     *)
LEMMA MarksImplement ==
  ASSUME TableOK, NEW r \in Row, Marks(r), TryEnds(r), UNCHANGED <<shown, refused, forced>>
  PROVE  [Promise!Next]_(Promise!promise)
<1>0. CASE ~Stored(r)
  <2>1. UNCHANGED <<status, attempts>>
    BY <1>0 DEF Marks, MarkDelivered, MarkFailed, SetStatus, Reschedule
  <2>2. QED
    BY <2>1, TryImplements DEF TryEnds
<1>1. CASE Stored(r) /\ MarkDelivered(r) /\ r \in shown
  <2>1. UNCHANGED attempts
    BY <1>1 DEF MarkDelivered, SetStatus
  <2>2. Outcome' = [Outcome EXCEPT ![r] = "delivered"]
    BY <1>1, OutcomeSet DEF MarkDelivered, SetStatus, OutcomeOf
  <2>3. Promise!Deliver(r)
    BY <1>1, <2>1, <2>2, OutcomeStored
       DEF Promise!Deliver, Promise!Becomes, Promise!Ends, TryEnds
  <2>4. QED
    BY <2>3 DEF Promise!Next
<1>2. CASE Stored(r) /\ MarkFailed(r) /\ (r \in refused \/ attempts[r] + 1 >= MAX_ATTEMPTS)
  <2>1. UNCHANGED attempts
    BY <1>2 DEF MarkFailed, SetStatus
  <2>2. Outcome' = [Outcome EXCEPT ![r] = "failed"]
    BY <1>2, OutcomeSet DEF MarkFailed, SetStatus, OutcomeOf
  <2>3. Promise!GiveUp(r)
    BY <1>2, <2>1, <2>2, OutcomeStored
       DEF Promise!GiveUp, Promise!Becomes, Promise!Ends, TryEnds
  <2>4. QED
    BY <2>3 DEF Promise!Next
<1>3. CASE Stored(r) /\ Reschedule(r)
  <2>1. UNCHANGED Outcome
    BY <1>3, OutcomeSame DEF Reschedule
  <2>2. Promise!Fail(r)
    BY <1>3, <2>1, OutcomeStored DEF Reschedule, Promise!Fail, Promise!Ends, TryEnds
  <2>3. QED
    BY <2>2 DEF Promise!Next
<1>4. QED
  BY <1>0, <1>1, <1>2, <1>3 DEF Marks

LEMMA InsertsImplement ==
  ASSUME TableOK, NEW r \in Row, Inserts(r), UnderWay' \in {UnderWay, UnderWay \cup {r}},
         UNCHANGED <<shown, refused, forced>>
  PROVE  [Promise!Next]_(Promise!promise)
<1>1. PICK c \in Chats, k \in Kind, o \in RowId, d \in {"due", "later"} : Insert(r, c, k, o, d)
  BY DEF Inserts
<1>2. Outcome' = [Outcome EXCEPT ![r] = "queued"]
  BY <1>1, OutcomeSet DEF Insert, OutcomeOf
<1>3. Outcome[r] = "none"
  BY <1>1 DEF Insert, Fresh, Outcome, OutcomeOf
<1>4. Promise!Accept(r)
  BY <1>1, <1>2, <1>3 DEF Insert, Promise!Accept
<1>5. QED
  BY <1>4 DEF Promise!Next

(* A step that leaves the table, the tries and forced alone shows or       *)
(* refuses one row, or nothing the promise speaks of.                      *)
LEMMA PeerImplements ==
  ASSUME UNCHANGED <<status, attempts, forced, UnderWay>>,
         \/ UNCHANGED <<shown, refused>>
         \/ \E r \in Row : shown' = shown \cup {r} /\ UNCHANGED refused
         \/ \E r \in Row : refused' = refused \cup {r} /\ UNCHANGED shown
  PROVE  [Promise!Next]_(Promise!promise)
<1>1. UNCHANGED Outcome
  BY OutcomeSame
<1>2. CASE UNCHANGED <<shown, refused>>
  BY <1>1, <1>2 DEF Promise!promise
<1>3. ASSUME NEW r \in Row, shown' = shown \cup {r} /\ UNCHANGED refused
      PROVE  [Promise!Next]_(Promise!promise)
  <2>1. Promise!Show(r)
    BY <1>1, <1>3 DEF Promise!Show
  <2>2. QED
    BY <2>1 DEF Promise!Next
<1>4. ASSUME NEW r \in Row, refused' = refused \cup {r} /\ UNCHANGED shown
      PROVE  [Promise!Next]_(Promise!promise)
  <2>1. Promise!Refuse(r)
    BY <1>1, <1>4 DEF Promise!Refuse
  <2>2. QED
    BY <2>1 DEF Promise!Next
<1>5. QED
  BY <1>2, <1>3, <1>4

(* What is shown or refused is the row of a sender, which goes on trying.  *)
LEMMA PeerStep ==
  ASSUME TypeOK, PluginAccepts \/ PluginRejects \/ LimboEnds
  PROVE  /\ UNCHANGED <<status, attempts, forced, UnderWay>>
         /\ \/ UNCHANGED <<shown, refused>>
            \/ \E r \in Row : shown' = shown \cup {r} /\ UNCHANGED refused
            \/ \E r \in Row : refused' = refused \cup {r} /\ UNCHANGED shown
<1>1. \A c \in Chats : work[c].phase = "sent" => work[c].row \in Row
  BY DEF TypeOK, WorkersOK
<1>2. limbo \subseteq Row
  BY DEF TypeOK, PeerOK
<1>3. UNCHANGED <<status, attempts, forced>>
  BY DEF PluginAccepts, PluginRejects, LimboEnds, table
<1>4. UNCHANGED <<batch, mailbox>>
  BY DEF PluginAccepts, PluginRejects, LimboEnds, workers
<1>5. \A r \in Row : inline'[r] \in Asking <=> inline[r] \in Asking
  BY DEF PluginAccepts, PluginRejects, LimboEnds, AnswerInline, Asking, TypeOK
<1>6. \A c \in Chats : /\ work'[c].phase \in Asking <=> work[c].phase \in Asking
                       /\ work'[c].row = work[c].row
  BY DEF PluginAccepts, PluginRejects, LimboEnds, AnswerActor, Asking, TypeOK, WorkersOK, workers
<1>7. UNCHANGED UnderWay
  BY <1>4, <1>5, <1>6 DEF UnderWay
<1>8. QED
  BY <1>1, <1>2, <1>3, <1>7 DEF PluginAccepts, PluginRejects, LimboEnds, AnswerActor

(* The steps of worker and environment write no outcome; the worker claims *)
(* what is pending.                                                        *)
Quiet ==
  \/ \E r \in Row : TimePasses(r)
  \/ \E c \in Chats : ActorTake(c) \/ ActorIdle(c)
  \/ Tick \/ Route \/ Crash \/ SlotTaken \/ SlotFilled \/ UNCHANGED vars

LEMMA QuietTries ==
  ASSUME TypeOK, Quiet
  PROVE  \A r \in Row : r \in UnderWay' => r \in UnderWay \/ status[r] = "pending"
<1> SUFFICES ASSUME NEW r \in Row, r \in UnderWay'
             PROVE  r \in UnderWay \/ status[r] = "pending"
  OBVIOUS
<1>1. CASE UNCHANGED <<inline, workers>>
  BY <1>1 DEF UnderWay, workers
<1>2. ASSUME NEW c \in Chats, ActorTake(c) PROVE r \in UnderWay
  <2>1. mailbox[c] \in Seq(Job) /\ mailbox[c] # <<>> /\ mailbox'[c] = Tail(mailbox[c])
    BY <1>2 DEF ActorTake, TypeOK, WorkersOK
  <2>2. \A i \in DOMAIN Tail(mailbox[c]) :
          i + 1 \in DOMAIN mailbox[c] /\ Tail(mailbox[c])[i] = mailbox[c][i + 1]
    BY <2>1
  <2>3. 1 \in DOMAIN mailbox[c] /\ Head(mailbox[c]) = mailbox[c][1]
    BY <2>1
  <2>4. /\ work'[c].row = mailbox[c][1].row
        /\ \A d \in Chats \ {c} : work'[d] = work[d] /\ mailbox'[d] = mailbox[d]
    BY <1>2, <2>3 DEF ActorTake, TypeOK, WorkersOK
  <2>5. UNCHANGED <<inline, batch>>
    BY <1>2 DEF ActorTake
  <2>6. CASE \E d \in Chats : work'[d].row = r /\ work'[d].phase \in Asking
    <3>1. PICK d \in Chats : work'[d].row = r /\ work'[d].phase \in Asking
      BY <2>6
    <3>2. CASE d = c
      BY <2>3, <2>4, <3>1, <3>2 DEF UnderWay
    <3>3. CASE d # c
      BY <2>4, <3>1, <3>3 DEF UnderWay
    <3>4. QED
      BY <3>2, <3>3
  <2>7. CASE \E d \in Chats : \E i \in DOMAIN mailbox'[d] : mailbox'[d][i].row = r
    <3>1. PICK d \in Chats : \E i \in DOMAIN mailbox'[d] : mailbox'[d][i].row = r
      BY <2>7
    <3>2. CASE d = c
      <4>1. PICK i \in DOMAIN Tail(mailbox[c]) : Tail(mailbox[c])[i].row = r
        BY <2>1, <3>1, <3>2
      <4>2. i + 1 \in DOMAIN mailbox[c] /\ mailbox[c][i + 1].row = r
        BY <2>2, <4>1
      <4>3. QED
        BY <4>2 DEF UnderWay
    <3>3. CASE d # c
      BY <2>4, <3>1, <3>3 DEF UnderWay
    <3>4. QED
      BY <3>2, <3>3
  <2>8. CASE inline[r] \in Asking \/ \E j \in batch : j.row = r
    BY <2>8 DEF UnderWay
  <2>9. QED
    BY <2>5, <2>6, <2>7, <2>8 DEF UnderWay
<1>3. ASSUME NEW c \in Chats, ActorIdle(c) PROVE r \in UnderWay
  <2>1. \A d \in Chats : DOMAIN mailbox'[d] = {} \/ mailbox'[d] = mailbox[d]
    BY <1>3 DEF ActorIdle, TypeOK, WorkersOK
  <2>2. QED
    BY <1>3, <2>1 DEF ActorIdle, UnderWay
<1>4. CASE Tick
  <2>1. batch' \subseteq {[row |-> q, att |-> attempts[q]] : q \in Claimed}
    BY <1>4 DEF Tick
  <2>2. \A q \in Claimed : status[q] = "pending"
    BY DEF Claimed, Claimable
  <2>3. \A j \in batch' : status[j.row] = "pending"
    BY <2>1, <2>2
  <2>4. QED
    BY <1>4, <2>3 DEF Tick, UnderWay
<1>5. CASE Route
  <2>1. PICK j \in batch :
          /\ batch' = batch \ {j}
          /\ mailbox' = [mailbox EXCEPT ![chat[j.row]] = Append(@, j)]
    BY <1>5 DEF Route
  <2>2. UNCHANGED <<inline, work>> /\ chat[j.row] \in Chats
    BY <1>5 DEF Route, TypeOK, TableOK, WorkersOK, Job
  <2>3. \A d \in Chats : \A i \in DOMAIN mailbox'[d] :
          mailbox'[d][i] = j \/ (i \in DOMAIN mailbox[d] /\ mailbox'[d][i] = mailbox[d][i])
    BY <2>1, <2>2 DEF TypeOK, WorkersOK
  <2>4. CASE \E d \in Chats : \E i \in DOMAIN mailbox'[d] : mailbox'[d][i].row = r
    BY <2>3, <2>4 DEF UnderWay
  <2>5. CASE ~ \E d \in Chats : \E i \in DOMAIN mailbox'[d] : mailbox'[d][i].row = r
    BY <2>1, <2>2, <2>5 DEF UnderWay
  <2>6. QED
    BY <2>4, <2>5
<1>6. CASE Crash
  <2>1. \A q \in Row : inline'[q] \notin Asking
    BY <1>6 DEF Crash, Asking
  <2>2. batch' = {} /\ \A c \in Chats : work'[c].phase \notin Asking /\ DOMAIN mailbox'[c] = {}
    BY <1>6 DEF Crash, NoWork, Asking
  <2>3. QED
    BY <2>1, <2>2 DEF UnderWay
<1>7. QED
  BY <1>1, <1>2, <1>3, <1>4, <1>5, <1>6 DEF Quiet, TimePasses, SlotTaken, SlotFilled, vars

(* Each step of the outbox is a step of the promise, or a stutter.         *)
LEMMA StepImplements == IInv /\ [Next]_vars => [Promise!Next]_(Promise!promise)
<1> SUFFICES ASSUME IInv, [Next]_vars PROVE [Promise!Next]_(Promise!promise)
  OBVIOUS
<1>0. TableOK /\ WorkersOK /\ AnswersAreReal /\ JobsAreBehind
  BY DEF IInv, TypeOK
<1>1. ASSUME NEW r \in Row, NEW c \in Chats, NEW k \in InputKinds, Enqueue(r, c, k)
      PROVE  [Promise!Next]_(Promise!promise)
  <2>1. k \in Kind /\ 0 \in RowId /\ "later" \in {"due", "later"}
    BY OutboxAssumption DEF RowId
  <2>2. Inserts(r) /\ UNCHANGED <<shown, refused, forced>>
    BY <1>1, <2>1 DEF Enqueue, Inserts, peer
  <2>3. /\ inline'[r] \in Asking /\ \A q \in Row \ {r} : inline'[q] = inline[q]
        /\ UNCHANGED workers
    BY <1>1 DEF Enqueue, IInv, TypeOK, Asking
  <2>4. /\ \A q \in Row \ {r} : q \in UnderWay' <=> q \in UnderWay
        /\ r \in UnderWay' /\ UnderWay \subseteq Row /\ UnderWay' \subseteq Row
    BY <2>3 DEF UnderWay, workers
  <2>5. UnderWay' = UnderWay \cup {r}
    BY <2>4
  <2>6. QED
    BY <1>0, <2>2, <2>5, InsertsImplement
<1>2. ASSUME NEW r \in Row, InlineMarks(r) PROVE [Promise!Next]_(Promise!promise)
  <2>1. UNCHANGED <<shown, refused, forced>> /\ UNCHANGED workers
    BY <1>2 DEF InlineMarks, InlineDelivered, InlineTransport, InlineTerminal, GiveUpOn, peer
  <2>2. /\ inline[r] \in Asking /\ inline'[r] \notin Asking
        /\ \A q \in Row \ {r} : inline'[q] = inline[q]
    BY <1>2 DEF InlineMarks, InlineDelivered, InlineTransport, InlineTerminal, AfterFailure,
                Asking, IInv, TypeOK
  <2>3. TryEnds(r)
    BY <2>1, <2>2, InlineTryEnds DEF IInv, TypeOK
  <2>4. Marks(r) \/ UNCHANGED table
    BY <1>0, <1>2, InlineRecords
  <2>5. CASE Marks(r)
    BY <1>0, <2>1, <2>3, <2>5, MarksImplement
  <2>6. CASE UNCHANGED table
    BY <1>0, <2>1, <2>3, <2>6, TryImplements DEF table, TryEnds
  <2>7. QED
    BY <2>4, <2>5, <2>6
<1>3. ASSUME NEW c \in Chats, ActorMarks(c) PROVE [Promise!Next]_(Promise!promise)
  <2>1. UNCHANGED <<shown, refused, forced>> /\ UNCHANGED <<inline, batch, mailbox>>
    BY <1>3 DEF ActorMarks, ActorDelivered, ActorReschedule, ActorExhausted,
                ActorTerminal, FailWork, Rest, GiveUpOn, peer
  <2>2. /\ work[c].phase \in Asking /\ work'[c].phase \notin Asking
        /\ \A d \in Chats \ {c} : work'[d] = work[d]
    BY <1>0, <1>3 DEF ActorMarks, ActorDelivered, ActorReschedule, ActorExhausted,
                ActorTerminal, FailWork, Rest, NoWork, Asking, WorkersOK
  <2>3. TryEnds(work[c].row)
    BY <1>0, <2>1, <2>2, ActorTryEnds
  <2>4. work[c].row \in Row /\ (Marks(work[c].row) \/ UNCHANGED table)
    BY <1>0, <1>3, ActorRecords
  <2>5. CASE Marks(work[c].row)
    BY <1>0, <2>1, <2>3, <2>4, <2>5, MarksImplement
  <2>6. CASE UNCHANGED table
    BY <1>0, <2>1, <2>3, <2>6, TryImplements DEF table, TryEnds
  <2>7. QED
    BY <2>4, <2>5, <2>6
<1>9. ASSUME NEW r \in Row, NEW q \in Row, FallbackFor(r, q),
             UNCHANGED <<shown, refused, forced, UnderWay>>
      PROVE  [Promise!Next]_(Promise!promise)
  <2>1. CASE Inserts(q)
    BY <1>0, <1>9, <2>1, InsertsImplement
  <2>2. CASE UNCHANGED table
    BY <1>0, <1>9, <2>2, TryImplements DEF table
  <2>3. QED
    BY <1>0, <1>9, <2>1, <2>2, FallbackInserts
<1>10. ASSUME NEW r \in Row, InlineFallback(r) PROVE [Promise!Next]_(Promise!promise)
  <2>1. UNCHANGED <<shown, refused, forced>> /\ UNCHANGED workers
    BY <1>10 DEF InlineFallback, peer
  <2>2. \A q \in Row : inline'[q] \in Asking <=> inline[q] \in Asking
    BY <1>10 DEF InlineFallback, Asking, IInv, TypeOK
  <2>3. UNCHANGED UnderWay
    BY <2>1, <2>2 DEF UnderWay, workers
  <2>4. QED
    BY <1>9, <1>10, <2>1, <2>3 DEF InlineFallback
<1>11. ASSUME NEW c \in Chats, ActorFallback(c) PROVE [Promise!Next]_(Promise!promise)
  <2>1. UNCHANGED <<shown, refused, forced>> /\ UNCHANGED <<inline, batch, mailbox>>
    BY <1>11 DEF ActorFallback, Rest, peer
  <2>2. /\ work[c].phase \notin Asking /\ work'[c].phase \notin Asking
        /\ \A d \in Chats \ {c} : work'[d] = work[d]
    BY <1>0, <1>11 DEF ActorFallback, Rest, NoWork, Asking, WorkersOK
  <2>3. \A q \in Row :
          (\E d \in Chats : work'[d].row = q /\ work'[d].phase \in Asking)
            <=> (\E d \in Chats : work[d].row = q /\ work[d].phase \in Asking)
    BY <2>2
  <2>4. UNCHANGED UnderWay
    BY <2>1, <2>3 DEF UnderWay
  <2>5. work[c].row \in Row
    BY <1>0, <1>11 DEF ActorFallback, WorkersOK
  <2>6. QED
    BY <1>9, <1>11, <2>1, <2>4, <2>5 DEF ActorFallback
<1>12. ASSUME UNCHANGED <<inline, workers>> PROVE UNCHANGED UnderWay
  BY <1>12 DEF UnderWay, workers
<1>4. ASSUME NEW r \in Row, ForceRetry(r) PROVE [Promise!Next]_(Promise!promise)
  <2>1. Outcome' = [Outcome EXCEPT ![r] = "queued"]
    BY <1>0, <1>4, OutcomeSet DEF ForceRetry, OutcomeOf
  <2>2. UNCHANGED UnderWay
    BY <1>4, <1>12 DEF ForceRetry
  <2>3. Promise!Reopen(r)
    BY <1>0, <1>4, <2>1, <2>2, OutcomeStored DEF ForceRetry, peer, Promise!Reopen, Promise!Becomes
  <2>4. QED
    BY <2>3 DEF Promise!Next
<1>5. ASSUME NEW r \in Row, Purge(r) PROVE [Promise!Next]_(Promise!promise)
  <2>1. Outcome' = [Outcome EXCEPT ![r] = "forgotten"]
    BY <1>0, <1>5, OutcomeSet DEF Purge, OutcomeOf
  <2>2. Outcome[r] = "delivered"
    BY <1>5 DEF Purge, Outcome, OutcomeOf
  <2>3. UNCHANGED UnderWay
    BY <1>5, <1>12 DEF Purge
  <2>4. Promise!Forget(r)
    BY <1>5, <2>1, <2>2, <2>3 DEF Purge, peer, Promise!Forget, Promise!Becomes
  <2>5. QED
    BY <2>4 DEF Promise!Next
<1>6. CASE PluginAccepts \/ PluginRejects \/ LimboEnds
  BY <1>6, PeerStep, PeerImplements DEF IInv
<1>7. CASE Quiet
  <2>1. UNCHANGED <<status, attempts, forced, shown, refused>>
    BY <1>7 DEF Quiet, TimePasses, ActorTake, ActorIdle, Tick, Route, Crash, SlotTaken, SlotFilled,
                vars, table, peer
  <2>2. QED
    BY <1>0, <1>7, <2>1, QuietTries, TryImplements DEF IInv
<1>8. QED
  BY <1>1, <1>2, <1>3, <1>4, <1>5, <1>6, <1>7, <1>10, <1>11
     DEF Next, InlineStep, InlineMarks, ActorStep, ActorMarks, Quiet

(* The outbox keeps its promise: seen from callers and users, queue,       *)
(* worker, actors, duplicates, lost answers and restarts are Delivery.     *)
THEOREM OutboxImplementsDelivery == Spec => ImplementsDelivery
<1>1. Init => Promise!Init
  BY DEF Init, Promise!Init, Outcome, OutcomeOf, UnderWay, Asking, NoWork
<1>2. IInv /\ [Next]_vars => [Promise!Next]_(Promise!promise)
  BY StepImplements
<1>3. QED
  BY <1>1, <1>2, InductiveInvariant, PTL DEF Spec, ImplementsDelivery, Promise!Spec
=============================================================================
