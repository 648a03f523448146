------------------------------ MODULE History ------------------------------
(***************************************************************************)
(* The pure functions of crates/snaca-engine/src/engine.rs between the     *)
(* rows of a thread and the messages of an LLM request: the conversation   *)
(* window, the byte cap, the collapse of old tool results, the repair of   *)
(* tool-call pairing, and the text a summary is made from.                 *)
(*                                                                         *)
(* A message is [at, role, uses, results, bad]: the row it stands for (0   *)
(* for one made up on the way), its role, the ids of the tool calls it     *)
(* makes, the results it holds ([id, err, size]), and whether its content  *)
(* trips the provider's content filter.  Text counts one unit of size.     *)
(* Calls and results of a message are sets: nothing here depends on their  *)
(* order.                                                                  *)
(***************************************************************************)
EXTENDS Naturals, Sequences, FiniteSets, FiniteSetsExt

CONSTANTS
  LIMIT,        \* conversation_history_limit
  KEEP,         \* compact_keep_recent
  FIRST,        \* protect_first_n
  MAX_POOL,     \* MAX_POOL_ROWS
  MAX_BYTES,    \* history_max_bytes, 0: no cap
  MAX_RESULT,   \* max_tool_result_bytes, 0: no clamp
  COLLAPSE,     \* collapse_tool_results_threshold, 0: off
  SUMMARY_TOTAL \* SUMMARY_TOTAL_MAX_BYTES, 0: no cap

POOL == IF 4 * LIMIT <= MAX_POOL THEN 4 * LIMIT ELSE MAX_POOL

MARKER == 1     \* size of an elision marker

Larger(a, b) == IF a >= b THEN a ELSE b
Drop(s, n)   == SubSeq(s, n + 1, Len(s))
Ids(m)       == {r.id : r \in m.results}
IsTalk(m)    == m.role \in {"user", "assistant"}

Bytes(m)       == 1 + Cardinality(m.uses) + MapThenSumSet(LAMBDA r : r.size, m.results)
TotalBytes(ms) == MapThenSumSet(LAMBDA i : Bytes(ms[i]), DOMAIN ms)

OnResults(ms, Op(_, _)) ==
  [i \in DOMAIN ms |-> [ms[i] EXCEPT !.results = {Op(i, r) : r \in @}]]

(* How many messages a loop takes off the front, which ends where Done     *)
(* holds of that number, or at last.                                       *)
FirstWhere(last, Done(_)) == Min({n \in 0 .. last : n = last \/ Done(n)})

(* Drop as little as leaves at most LIMIT user and assistant messages.     *)
TrimToConversationWindow(ms) ==
  LET Talk(n) == Cardinality({i \in n + 1 .. Len(ms) : IsTalk(ms[i])}) IN
  IF LIMIT = 0 THEN ms
  ELSE Drop(ms, FirstWhere(Len(ms), LAMBDA n : Talk(n) <= LIMIT))

StripLeadingTools(ms) ==
  Drop(ms, FirstWhere(Len(ms), LAMBDA n : ms[n + 1].role # "tool"))

(* Clamp every result; over the cap, clear old results one message at a    *)
(* time (phase A), then drop from the front (phase B); never start with a  *)
(* tool message.                                                           *)
EnforceHistoryByteCap(ms) ==
  LET clamped == OnResults(ms, LAMBDA i, r :
        IF MAX_RESULT > 0 /\ r.size > MAX_RESULT THEN [r EXCEPT !.size = MAX_RESULT] ELSE r)
      old == Len(ms) - Larger(KEEP, 1)
      Cleared(n) == OnResults(clamped, LAMBDA i, r :
        IF i <= n /\ i <= old /\ ~r.err /\ r.size > MARKER THEN [r EXCEPT !.size = MARKER] ELSE r)
      phaseA == Cleared(FirstWhere(Len(ms), LAMBDA n : TotalBytes(Cleared(n)) <= MAX_BYTES))
      phaseB == Drop(phaseA, FirstWhere(Len(ms) - 1,
                               LAMBDA n : TotalBytes(Drop(phaseA, n)) <= MAX_BYTES))
  IN IF MAX_BYTES = 0 \/ ms = <<>> THEN ms ELSE StripLeadingTools(phaseB)

(* Bodies of successful results older than the last `keep` messages become *)
(* markers (the model's tools are all read-only ones here).                *)
CollapseOldToolResults(ms, keep) ==
  IF COLLAPSE = 0 \/ Len(ms) <= keep + 1 THEN ms
  ELSE OnResults(ms, LAMBDA i, r :
         IF i <= Len(ms) - keep /\ ~r.err /\ r.size >= COLLAPSE
         THEN [r EXCEPT !.size = MARKER] ELSE r)

(* What the summariser is shown: the newest messages that fit the budget,  *)
(* the newest one always.  The older ones are omitted.  (The cap on each   *)
(* block is well above the sizes here.)                                    *)
RenderForSummary(ms) ==
  IF SUMMARY_TOTAL = 0 THEN ms
  ELSE Drop(ms, FirstWhere(Len(ms) - 1, LAMBDA n : TotalBytes(Drop(ms, n)) <= SUMMARY_TOTAL))

-----------------------------------------------------------------------------
(* ensure_tool_result_pairing, message by message.  `open` holds the calls *)
(* of the assistant message just copied, whose answers come next.          *)

Synthetic(ids) == {[id |-> u, err |-> TRUE, size |-> 1] : u \in ids}

ToolMessage(results) ==
  [at |-> 0, role |-> "tool", uses |-> {}, results |-> results, bad |-> FALSE]

Answered(acc, ids, m) ==
  [acc EXCEPT !.out = Append(@, m), !.answered = @ \cup ids, !.open = {}]

(* Every open call gets an answer, a made-up one where m has none.         *)
Close(acc, m) ==
  LET kept == {r \in m.results : r.id \in acc.seen \ acc.answered}
      all  == kept \cup Synthetic(acc.open \ {r.id : r \in kept})
  IN Answered(acc, {r.id : r \in all}, [m EXCEPT !.results = all])

(* Mutant: calls with no tool message behind them are left open.           *)
MutCloseMissing(acc) == acc

CloseMissing(acc) == IF acc.open = {} THEN acc ELSE Close(acc, ToolMessage({}))

PairMessage(acc, m) ==
  IF m.role = "tool"
  THEN IF acc.open = {} THEN acc ELSE Close(acc, m)   \* no calls before it: dropped
  ELSE LET done == CloseMissing(acc)
       IN [done EXCEPT !.out = Append(@, m), !.open = m.uses, !.seen = @ \cup m.uses]

Unpaired == [out |-> <<>>, seen |-> {}, answered |-> {}, open |-> {}]

EnsureToolResultPairing(ms) ==
  LET paired[n \in 0 .. Len(ms)] ==
        IF n = 0 THEN Unpaired ELSE PairMessage(paired[n - 1], ms[n])
  IN CloseMissing(paired[Len(ms)]).out

(* What providers accept, stated without the algorithm: each call is       *)
(* answered by the next message, each answer has its call right before it, *)
(* and no call is answered twice.                                          *)
WellPaired(ms) ==
  /\ \A i \in DOMAIN ms : ms[i].uses # {} =>
       i < Len(ms) /\ ms[i + 1].role = "tool" /\ ms[i].uses \subseteq Ids(ms[i + 1])
  /\ \A i \in DOMAIN ms : ms[i].role = "tool" =>
       /\ i > 1 /\ Ids(ms[i]) \subseteq ms[i - 1].uses
       /\ ms[i].results # {}
       /\ \A r, q \in ms[i].results : r.id = q.id => r = q
  /\ \A i, j \in DOMAIN ms : i # j => Ids(ms[i]) \cap Ids(ms[j]) = {}
=============================================================================
