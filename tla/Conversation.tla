---------------------------- MODULE Conversation ----------------------------
(***************************************************************************)
(* One thread of snaca-engine: the turn loop (handle_turn_full), its       *)
(* persisted messages, the compaction of old ones into a summary, and the  *)
(* search for the message that trips the provider's content filter         *)
(* (crates/snaca-engine/src/engine.rs over crates/snaca-state/src/db.rs).  *)
(*                                                                         *)
(* The dispatcher runs one turn of a thread at a time; what runs beside it *)
(* is the compaction an earlier turn has spawned.  Rows are numbered in    *)
(* created_at order.  A resend of the same request after an interrupted    *)
(* stream changes nothing here, it is in module ToolBatch with the calls   *)
(* of one response.                                                        *)
(***************************************************************************)
EXTENDS History, SequencesExt

CONSTANTS
  MAX_ITERATIONS, COMPACT_RETRIES, MALFORMED_RETRIES, FILTER_RETRIES, ESCALATIONS,
  PROBE_CAP,     \* LLM calls one localization may make
  MaxUses,       \* bound: tool calls of one response
  MaxRows,       \* bound: rows of the thread when a turn begins
  MaxBad,        \* bound: rows the content filter flags
  MaxJobs        \* bound: background compactions at a time

VARIABLES
  rows,      \* messages table: [role, uses, results, bad, redacted] in order
  summary,   \* thread_compactions: its bounds, 0: none; the rows its text was made of
  jobs,      \* background compactions: spawned, or waiting for their summary
  turn,      \* where the running turn is, and its counters; the summary its request used
  request,   \* the history of the LLM call in flight
  strayed    \* rows redacted while a summary was on file

vars == <<rows, summary, jobs, turn, request, strayed>>

NoSummary == [from |-> 0, until |-> 0, holds |-> {}]
NoTurn    == [phase |-> "idle", iter |-> 0, tooLong |-> 0, malformed |-> 0, filtered |-> 0,
              raised |-> 0, failed |-> FALSE, calls |-> {}, used |-> NoSummary]
Spawned   == [from |-> 0, until |-> 0, flagged |-> FALSE, holds |-> {}]

N == Len(rows)

Init ==
  /\ rows = <<>> /\ summary = NoSummary /\ jobs = <<>>
  /\ turn = NoTurn /\ request = <<>> /\ strayed = {}

-----------------------------------------------------------------------------
(* Rows and requests.                                                      *)

Row(role, uses, results, bad) ==
  [role |-> role, uses |-> uses, results |-> results, bad |-> bad, redacted |-> FALSE]

AppendRow(r) == rows' = Append(rows, r)

(* message_from_persisted, with the rows in R redacted as well: bodies     *)
(* become a placeholder, calls keep their ids.                             *)
Loaded(i, R) ==
  LET hidden == rows[i].redacted \/ i \in R IN
  [at |-> i, role |-> rows[i].role, uses |-> rows[i].uses,
   results |-> IF hidden THEN {[r EXCEPT !.size = 1] : r \in rows[i].results}
               ELSE rows[i].results,
   bad |-> rows[i].bad /\ ~hidden]

Messages(first, last, R) == [k \in 1 .. (last + 1 - first) |-> Loaded(first + k - 1, R)]

SummaryMessage == [at |-> 0, role |-> "user", uses |-> {}, results |-> {}, bad |-> FALSE]

PoolStart == IF N <= POOL THEN 1 ELSE N + 1 - POOL

(* The part of the pipeline without a summary; probes use it too.          *)
Window(R) ==
  CollapseOldToolResults(EnforceHistoryByteCap(TrimToConversationWindow(
    Messages(PoolStart, N, R))), KEEP)

(* With a summary: the oldest rows before it, the summary, and the oldest  *)
(* LIMIT rows after it.                                                    *)
Spliced ==
  LET head == Messages(1, IF summary.from > FIRST THEN FIRST ELSE summary.from - 1, {})
      last == IF summary.until + LIMIT < N THEN summary.until + LIMIT ELSE N
  IN head \o <<SummaryMessage>> \o
     CollapseOldToolResults(EnforceHistoryByteCap(Messages(summary.until + 1, last, {})), KEEP)

LoadHistory == IF summary = NoSummary THEN Window({}) ELSE Spliced

Flagged(ms) == \E i \in DOMAIN ms : ms[i].bad
RowsOf(ms)  == {ms[i].at : i \in DOMAIN ms}

-----------------------------------------------------------------------------
(* The turn.                                                               *)

Goto(phase) == turn' = [turn EXCEPT !.phase = phase]
EndTurn     == turn' = NoTurn /\ request' = <<>>

(* The message that starts a turn; any later row may be flagged as well.   *)
MayBeBad(b) == b => Cardinality({i \in 1 .. N : rows[i].bad}) < MaxBad

BeginTurn(b) ==
  /\ turn.phase = "idle" /\ N < MaxRows
  /\ MayBeBad(b)
  /\ AppendRow(Row("user", {}, {}, b))
  /\ turn' = [NoTurn EXCEPT !.phase = "loop"]
  /\ UNCHANGED <<summary, jobs, request, strayed>>

(* Mutant: the check of the limit comes after the call.                    *)
MutStartCall ==
  /\ turn.phase = "loop" /\ turn.iter <= MAX_ITERATIONS
  /\ turn' = [turn EXCEPT !.phase = "calling", !.used = summary, !.iter = @ + 1]

StartCall ==
  /\ turn.phase = "loop" /\ turn.iter < MAX_ITERATIONS
  /\ turn' = [turn EXCEPT !.phase = "calling", !.used = summary, !.iter = @ + 1]

CallLlm ==
  /\ StartCall
  /\ request' = EnsureToolResultPairing(LoadHistory)
  /\ UNCHANGED <<rows, summary, jobs, strayed>>

MaxIterationsExceeded ==
  /\ turn.phase = "loop" /\ turn.iter >= MAX_ITERATIONS
  /\ EndTurn
  /\ UNCHANGED <<rows, summary, jobs, strayed>>

(* The provider judges a request by its content.                           *)
Passes  == turn.phase = "calling" /\ ~Flagged(request)
Blocked == turn.phase = "calling" /\ Flagged(request)

Continue(t) == turn' = [t EXCEPT !.phase = "loop"] /\ request' = <<>>

(* A transport error, a refusal, or an answer without content.             *)
LlmFails ==
  /\ turn.phase = "calling"
  /\ EndTurn
  /\ UNCHANGED <<rows, summary, jobs, strayed>>

MalformedToolArgs ==
  /\ Passes /\ turn.malformed < MALFORMED_RETRIES
  /\ AppendRow(Row("user", {}, {}, FALSE))
  /\ Continue([turn EXCEPT !.malformed = @ + 1])
  /\ UNCHANGED <<summary, jobs, strayed>>

(* stop_reason max_tokens without a tool call: keep what came, go on.      *)
Escalate(b) ==
  /\ Passes /\ turn.raised < ESCALATIONS /\ MayBeBad(b)
  /\ AppendRow(Row("assistant", {}, {}, b))
  /\ Continue([turn EXCEPT !.raised = @ + 1])
  /\ UNCHANGED <<summary, jobs, strayed>>

CallsOf(n) == {N + 1} \X (1 .. n)

(* A terminal answer.  Cut off by max_tokens it may hold tool calls, which *)
(* nobody runs.  A large prompt spawns a compaction.                       *)
Answer(b, n, large) ==
  /\ Passes /\ MayBeBad(b)
  /\ AppendRow(Row("assistant", CallsOf(n), {}, b))
  /\ large => Len(jobs) < MaxJobs
  /\ jobs' = IF large THEN Append(jobs, Spawned) ELSE jobs
  /\ EndTurn
  /\ UNCHANGED <<summary, strayed>>

AnswerWithCalls(b, n) ==
  /\ Passes /\ MayBeBad(b)
  /\ AppendRow(Row("assistant", CallsOf(n), {}, b))
  /\ turn' = [turn EXCEPT !.phase = "tools", !.calls = CallsOf(n)]
  /\ request' = <<>>
  /\ UNCHANGED <<summary, jobs, strayed>>

(* The loop guard fires before any call of the batch runs.                 *)
LoopGuardTrips ==
  /\ turn.phase = "tools" /\ turn.iter > 1
  /\ EndTurn
  /\ UNCHANGED <<rows, summary, jobs, strayed>>

(* Every call ends in a result or an error; a failure with the signature   *)
(* of an earlier one is followed by feedback.                              *)
ToolsDone(failures, b, again) ==
  /\ turn.phase = "tools" /\ MayBeBad(b)
  /\ again => turn.failed /\ failures # {}
  /\ LET Result(u) == [id |-> u, err |-> u \in failures, size |-> IF u \in failures THEN 1 ELSE 3]
         batch     == Row("tool", {}, {Result(u) : u \in turn.calls}, b)
     IN rows' = IF again THEN rows \o <<batch, Row("user", {}, {}, FALSE)>>
                         ELSE Append(rows, batch)
  /\ turn' = [turn EXCEPT !.phase = "loop", !.calls = {}, !.failed = @ \/ failures # {}]
  /\ UNCHANGED <<summary, jobs, request, strayed>>

(* The turn's future is dropped where it stands: a recall, an admin abort, *)
(* the turn timeout.                                                       *)
Cancelled ==
  /\ turn.phase # "idle"
  /\ EndTurn
  /\ UNCHANGED <<rows, summary, jobs, strayed>>

Crash ==
  /\ turn.phase # "idle" \/ jobs # <<>>
  /\ EndTurn /\ jobs' = <<>>
  /\ UNCHANGED <<rows, summary, strayed>>

-----------------------------------------------------------------------------
(* maybe_compact_thread: read the pool, ask for a summary of its middle,   *)
(* store it over the old one.  The summary stands for the whole band; it   *)
(* is made of what was rendered of it.                                     *)

BandText(from, until) == CollapseOldToolResults(Messages(from, until, {}), 0)

Band(keep) ==
  LET from  == PoolStart + FIRST
      until == N - keep
      text  == RenderForSummary(BandText(from, until))
  IN [from |-> from, until |-> until, flagged |-> Flagged(text), holds |-> RowsOf(text)]

BigEnough(keep) == N + 1 - PoolStart >= FIRST + keep + 2

Shrunk(attempts) ==
  Larger(KEEP \div <<2, 4, 8, 16, 32, 64>>[IF attempts < 6 THEN attempts ELSE 6], 2)

(* Mutant: the boundary is the first row that was kept.                    *)
MutStore(band) ==
  summary' = [from |-> band.from, until |-> band.until + 1, holds |-> band.holds]

Store(band) ==
  summary' = [from |-> band.from, until |-> band.until, holds |-> band.holds]

(* The prompt does not fit: compact at once, with a shorter tail.          *)
TooLong ==
  /\ turn.phase = "calling" /\ turn.tooLong < COMPACT_RETRIES
  /\ IF BigEnough(Shrunk(turn.tooLong + 1))
     THEN turn' = [turn EXCEPT !.phase = "compacting", !.tooLong = @ + 1] /\ request' = <<>>
     ELSE Continue([turn EXCEPT !.tooLong = @ + 1])
  /\ UNCHANGED <<rows, summary, jobs, strayed>>

(* The rows of a running turn change only by its own hand, so the pool     *)
(* read before the call is the pool now.  An empty or polluted summary is  *)
(* skipped; a failed call ends the turn.                                   *)
CompactInTurn ==
  /\ turn.phase = "compacting"
  /\ \/ /\ ~Band(Shrunk(turn.tooLong)).flagged
        /\ Store(Band(Shrunk(turn.tooLong))) \/ UNCHANGED summary
        /\ Goto("loop") /\ UNCHANGED request
     \/ EndTurn /\ UNCHANGED summary
  /\ UNCHANGED <<rows, jobs, strayed>>

(* Background jobs read the rows after they were spawned, ...              *)
JobReads(j) ==
  /\ j \in DOMAIN jobs /\ jobs[j] = Spawned
  /\ jobs' = IF BigEnough(Larger(KEEP, 2))
             THEN [jobs EXCEPT ![j] = Band(Larger(KEEP, 2))]
             ELSE RemoveAt(jobs, j)
  /\ UNCHANGED <<rows, summary, turn, request, strayed>>

(* ... and write whenever the summary comes, or never.                     *)
JobWrites(j) ==
  /\ j \in DOMAIN jobs /\ jobs[j] # Spawned
  /\ (~jobs[j].flagged /\ Store(jobs[j])) \/ UNCHANGED summary
  /\ jobs' = RemoveAt(jobs, j)
  /\ UNCHANGED <<rows, turn, request, strayed>>

-----------------------------------------------------------------------------
(* localize_and_redact_poison.  A probe sends the window with some rows    *)
(* redacted; the summary on file is not part of it.                        *)

ProbePasses(R) == ~Flagged(EnsureToolResultPairing(Window(R)))

Candidates ==
  LET inWindow == {Window({})[i].at : i \in DOMAIN Window({})} IN
  {i \in 1 .. N : i \in inWindow /\ rows[i].role \in {"tool", "assistant"} /\ ~rows[i].redacted}

(* One round of the bisection: halve the suspects, the later half first,   *)
(* then the earlier one; if neither alone clears the filter, both hold a   *)
(* culprit.                                                                *)
Mid(s)   == Cardinality(s.suspects) \div 2
Left(s)  == {i \in s.suspects : Cardinality({j \in s.suspects : j < i}) < Mid(s)}
Right(s) == s.suspects \ Left(s)

Cleared(s, half) == ProbePasses(s.base \cup half)
Search(base, suspects, probes) == [base |-> base, suspects |-> suspects, probes |-> probes]
Ended(s) == Cardinality(s.suspects) <= 1 \/ s.probes >= PROBE_CAP

(* Mutant: the half that cleared the filter is dropped instead of kept.    *)
MutHalve(s) ==
  IF Ended(s) THEN s
  ELSE IF Cleared(s, Right(s)) THEN Search(s.base, Left(s), s.probes + 1)
  ELSE Search(s.base \cup Right(s), Left(s), s.probes + 2)

Halve(s) ==
  IF Ended(s) THEN s
  ELSE IF Cleared(s, Right(s)) THEN Search(s.base, Right(s), s.probes + 1)
  ELSE IF Cleared(s, Left(s))  THEN Search(s.base, Left(s), s.probes + 2)
  ELSE Search(s.base \cup Right(s), Left(s), s.probes + 2)

(* Every round sends a probe: after PROBE_CAP rounds nothing changes.      *)
Bisect(start) ==
  LET round[n \in 0 .. PROBE_CAP] == IF n = 0 THEN start ELSE Halve(round[n - 1])
  IN round[PROBE_CAP]

Culprits ==
  IF Candidates = {} \/ ~ProbePasses(Candidates) THEN {}
  ELSE Bisect(Search({}, Candidates, 1)).suspects

ContentFiltered ==
  /\ Blocked /\ turn.filtered < FILTER_RETRIES
  /\ IF Cardinality(Culprits) = 1
     THEN /\ \E i \in Culprits : rows' = [rows EXCEPT ![i].redacted = TRUE]
          /\ Continue([turn EXCEPT !.filtered = @ + 1])
          /\ strayed' = IF summary = NoSummary THEN strayed ELSE strayed \cup Culprits
     ELSE /\ AppendRow(Row("assistant", {}, {}, FALSE))   \* the degraded notice
          /\ EndTurn
          /\ UNCHANGED strayed
  /\ UNCHANGED <<summary, jobs>>

-----------------------------------------------------------------------------
Respond ==
  \/ LlmFails \/ MalformedToolArgs \/ TooLong \/ ContentFiltered
  \/ \E b \in BOOLEAN :
       \/ Escalate(b)
       \/ \E n \in 0 .. MaxUses, large \in BOOLEAN : Answer(b, n, large)
       \/ \E n \in 1 .. MaxUses : AnswerWithCalls(b, n)

AfterCall ==
  \/ Respond \/ MaxIterationsExceeded \/ LoopGuardTrips \/ CompactInTurn
  \/ \E failures \in SUBSET turn.calls, b, again \in BOOLEAN : ToolsDone(failures, b, again)

Next ==
  \/ \E b \in BOOLEAN : BeginTurn(b)
  \/ CallLlm \/ AfterCall
  \/ Cancelled \/ Crash
  \/ \E j \in 1 .. MaxJobs : JobReads(j) \/ JobWrites(j)

Spec == Init /\ [][Next]_vars

-----------------------------------------------------------------------------
(* Properties.                                                             *)

Phase == {"idle", "loop", "calling", "tools", "compacting"}

(* Every variable stays in its declared range.                             *)
TypeOK ==
  /\ \A i \in 1 .. N : rows[i].role \in {"user", "assistant", "tool"}
  /\ summary.from \in 0 .. N /\ summary.until \in 0 .. N /\ summary.from <= summary.until
  /\ turn.phase \in Phase /\ turn.iter \in 0 .. MAX_ITERATIONS
  /\ Len(jobs) <= MaxJobs
  /\ (request # <<>>) => turn.phase = "calling"
  /\ strayed \subseteq 1 .. N

(* Whatever window, byte cap, compaction, cancellation or crash left in    *)
(* the table, each request pairs every tool call with one answer.          *)
RequestIsPaired == WellPaired(request)

Sent == RowsOf(request) \ {0}

(* The request of a thread whose summary was made while the whole thread   *)
(* was in the pool, and whose live tail is within the limit.               *)
FullySpliced ==
  /\ turn.phase = "calling" /\ turn.used # NoSummary
  /\ turn.used.from = FIRST + 1 /\ N - turn.used.until <= LIMIT /\ MAX_BYTES = 0

(* The rows a summary stands for without having been made of them, and why *)
(* there are any: with the newest of them the band was over the budget     *)
(* (unless a row of it has been redacted since, which makes it smaller).   *)
Omitted(s) == {r \in s.from .. s.until : \A h \in s.holds : r < h}

OverBudget(s) ==
  \/ \E r \in Omitted(s) :
       r + 1 \in s.holds /\ ~(TotalBytes(BandText(r, s.until)) <= SUMMARY_TOTAL)
  \/ \E r \in s.from .. s.until : rows[r].redacted

(* In such a request every row is sent or summarised: neither the splice   *)
(* nor a compaction that finished late leaves a gap, and the last KEEP     *)
(* rows are sent in full.  The one exception is the head of a band that    *)
(* was over the summariser's budget: engine.rs says that it "overlaps the  *)
(* preserved_head that compaction already keeps verbatim", but the band    *)
(* begins right behind that head.                                          *)
HistoryIsWhole ==
  FullySpliced => \A r \in 1 .. N :
    \/ r \in Sent \/ r \in turn.used.holds
    \/ rows[r].role = "tool"
    \/ r \in Omitted(turn.used) /\ SUMMARY_TOTAL # 0 /\ OverBudget(turn.used)

(* maybe_compact_thread: "so the model never loses the user message it's   *)
(* currently responding to": the newest row is part of each request.       *)
LatestIsSeen ==
  turn.phase = "calling" /\ rows[N].role = "user" => N \in Sent

(* Only a message the filter flags is redacted, by however many probes,    *)
(* unless the thread has a summary, which the probes leave out.            *)
RedactedWasBad == \A r \in 1 .. N : rows[r].redacted => rows[r].bad \/ r \in strayed
=============================================================================
