----------------------------- MODULE Decisions -----------------------------
(***************************************************************************)
(* The database as the programs that open it find and leave it, and the    *)
(* approvals remembered in it (snaca-state/src/db.rs, gate_check of the    *)
(* engine, gate.rs of the server).                                         *)
(*                                                                         *)
(* Whoever opens the database upgrades it: the server and the commands of  *)
(* the CLI run the same list of steps, each of which looks at the present  *)
(* shape and changes it in a statement of its own, so that they meet       *)
(* half-upgraded databases, after a kill and while another one upgrades.   *)
(* Of the tables three are told apart that have had another shape          *)
(* (approval_decisions, thread_compactions, messages); of the messages,    *)
(* whether the search index has them; of approval_decisions, the rules of  *)
(* one tool of one project.                                                *)
(*                                                                         *)
(* Abstracted: a tool call's input is a model value, standing for its      *)
(* signature too (64 bits of a hash of the canonical JSON); no registered  *)
(* tool asks for every call (ApprovalRequirement::Always).  Old programs   *)
(* do not run beside new ones.                                             *)
(***************************************************************************)
EXTENDS Integers, FiniteSets

CONSTANTS
  Opener,      \* the programs that open the database
  Host,        \* the one among them that serves turns: the server
  Input,       \* inputs of the tool
  CatchAll,    \* the signature '' of a rule for every input
  Msg,         \* messages
  Use,         \* tool calls
  MaxKills     \* kills, and statements that fail (a lock held beyond busy_timeout)

VARIABLES
  shape,       \* per table: absent, or old, or the new one
  triggers,    \* messages_fts and its triggers are there
  messages,    \* the messages stored ...
  index,       \* ... and those messages_fts finds
  marked,      \* schema_migrations has messages_fts_backfilled_v1
  rules,       \* approval_decisions: what is decided for a signature
  step,        \* per program: where in run_migrations it is
  gate,        \* what the gate of the channel does
  use,         \* per tool call: where in gate_check it is, and what came of it
  given,       \* history: the rules as users and operators left them
  crossed,     \* history: two programs rebuilt approval_decisions
  kills

dbVars == <<shape, triggers, messages, index, marked>>
vars == <<dbVars, rules, step, gate, use, given, crossed, kills>>

Table     == {"decisions", "compactions", "messages"}
Signature == Input \cup {CatchAll}
Verdict   == {"allow", "deny"}
NoRule    == [s \in Signature |-> "none"]

Steps == {"off", "tables", "index", "decisions", "rebuild_decisions", "compactions",
          "add_compactions", "messages", "add_messages", "marker", "count", "backfill",
          "mark", "open"}

NoUse == [at |-> "idle", input |-> CatchAll, exact |-> "none", any |-> "none", by |-> "nobody",
          verdict |-> "none", moved |-> FALSE]

TypeOK ==
  /\ shape \in [Table -> {"absent", "old", "new"}]
  /\ triggers \in BOOLEAN /\ marked \in BOOLEAN /\ crossed \in BOOLEAN
  /\ messages \subseteq Msg /\ index \subseteq messages
  /\ rules \in [Signature -> Verdict \cup {"none"}]
  /\ given \in [Signature -> Verdict \cup {"none"}]
  /\ step \in [Opener -> Steps]
  /\ gate \in {"allow", "deny", "card"}
  /\ use \in [Use -> [at : {"idle", "exact", "any", "ask", "remember", "done"},
                      input : Signature, exact : Verdict \cup {"none"},
                      any : Verdict \cup {"none"}, by : {"nobody", "rule", "gate"},
                      verdict : Verdict \cup {"none"}, moved : BOOLEAN]]
  /\ kills \in 0 .. MaxKills

-----------------------------------------------------------------------------
(* What earlier versions left: nothing; tables of the old shape, the index *)
(* empty or, from a version that had it but no marker, filled for some     *)
(* messages; or a database this version has opened before.                 *)
Fresh ==
  /\ shape = [t \in Table |-> "absent"] /\ triggers = FALSE /\ marked = FALSE
  /\ messages = {} /\ index = {} /\ rules = NoRule

Legacy ==
  /\ shape \in [Table -> {"absent", "old", "new"}] /\ shape["messages"] # "absent"
  /\ marked = FALSE
  /\ messages \in {{}, {CHOOSE m \in Msg : TRUE}}
  /\ index \in SUBSET messages /\ (~triggers => index = {})
  /\ \E any \in Verdict \cup {"none"} :
       rules = [NoRule EXCEPT ![CatchAll] = IF shape["decisions"] = "absent" THEN "none" ELSE any]

(* gate.rs: SNACA_APPROVAL_MODE decides; without cards (the plugin's       *)
(* manifest) SNACA_NO_APPROVAL_FALLBACK does.  NoopApprovalGate and        *)
(* DenyAllApprovalGate answer at once.                                     *)
GateOf(mode, cards, fallback) ==
  CASE mode = "interactive" /\ cards -> "card"
    [] mode = "interactive"          -> fallback
    [] OTHER                         -> mode

Init ==
  /\ triggers \in BOOLEAN
  /\ Fresh \/ Legacy
  /\ \E mode \in {"allow", "deny", "interactive"}, cards \in BOOLEAN, fallback \in Verdict :
       gate = GateOf(mode, cards, fallback)
  /\ step = [p \in Opener |-> "off"]
  /\ use = [c \in Use |-> NoUse]
  /\ given = rules
  /\ crossed = FALSE
  /\ kills = 0

-----------------------------------------------------------------------------
(* Database::open and run_migrations, statement by statement.              *)

Goto(p, s) == step' = [step EXCEPT ![p] = s]
NoUseStep  == UNCHANGED <<gate, use, given, kills>>

Open(p) ==
  /\ step[p] = "off"
  /\ Goto(p, "tables")
  /\ UNCHANGED <<dbVars, rules, crossed>> /\ NoUseStep

(* The CREATE TABLE IF NOT EXISTS statements of schema.sql ...             *)
CreateTables(p) ==
  /\ step[p] = "tables"
  /\ shape' = [t \in Table |-> IF shape[t] = "absent" THEN "new" ELSE shape[t]]
  /\ Goto(p, "index")
  /\ UNCHANGED <<triggers, messages, index, marked, rules, crossed>> /\ NoUseStep

(* ... and those of messages_fts and its triggers at its end.              *)
CreateIndex(p) ==
  /\ step[p] = "index"
  /\ triggers' = TRUE
  /\ Goto(p, "decisions")
  /\ UNCHANGED <<shape, messages, index, marked, rules, crossed>> /\ NoUseStep

(* migrate_approval_decisions_add_input_signature looks at the columns ... *)
CheckDecisions(p) ==
  /\ step[p] = "decisions"
  /\ Goto(p, IF shape["decisions"] = "new" THEN "compactions" ELSE "rebuild_decisions")
  /\ UNCHANGED <<dbVars, rules, crossed>> /\ NoUseStep

(* ... and copies every row under the signature ''.  Two rows of a tool    *)
(* clash in the new key: the transaction is rolled back, the open fails.   *)
RebuildDecisions(p) ==
  LET decided == {s \in Signature : rules[s] # "none"}
  IN
  /\ step[p] = "rebuild_decisions"
  /\ IF Cardinality(decided) <= 1
     THEN /\ shape' = [shape EXCEPT !["decisions"] = "new"]
          /\ rules' = [NoRule EXCEPT ![CatchAll] = IF decided = {} THEN "none"
                                              ELSE rules[CHOOSE s \in decided : TRUE]]
          /\ Goto(p, "compactions")
     ELSE /\ Goto(p, "off")
          /\ UNCHANGED <<shape, rules>>
  /\ crossed' = (crossed \/ \E q \in Opener \ {p} : step[q] = "rebuild_decisions")
  /\ UNCHANGED <<triggers, messages, index, marked>> /\ NoUseStep

(* migrate_thread_compactions_add_summary_from and                         *)
(* migrate_messages_add_redacted look at the columns and, in a second      *)
(* statement, add the missing one, which fails when it is there by now.    *)
AddOf(t)  == IF t = "messages" THEN "add_messages" ELSE "add_compactions"
After(t)  == IF t = "messages" THEN "marker" ELSE "messages"

CheckColumn(p, t) ==
  /\ t \in {"compactions", "messages"} /\ step[p] = t
  /\ Goto(p, IF shape[t] = "new" THEN After(t) ELSE AddOf(t))
  /\ UNCHANGED <<dbVars, rules, crossed>> /\ NoUseStep

AddColumn(p, t) ==
  /\ t \in {"compactions", "messages"} /\ step[p] = AddOf(t)
  /\ shape' = [shape EXCEPT ![t] = "new"]
  /\ Goto(p, IF shape[t] = "new" THEN "off" ELSE After(t))
  /\ UNCHANGED <<triggers, messages, index, marked, rules, crossed>> /\ NoUseStep

(* migrate_messages_fts_backfill: is the marker set, are there messages,   *)
(* rebuild the index from them, set the marker.                            *)
CheckMarker(p) ==
  /\ step[p] = "marker"
  /\ Goto(p, IF marked THEN "open" ELSE "count")
  /\ UNCHANGED <<dbVars, rules, crossed>> /\ NoUseStep

(* Mutant: the marker is set before the index is rebuilt.                  *)
MutCountMessages(p) ==
  /\ step[p] = "count"
  /\ marked' = TRUE
  /\ Goto(p, IF messages = {} THEN "open" ELSE "backfill")
  /\ UNCHANGED <<shape, triggers, messages, index, rules, crossed>> /\ NoUseStep

CountMessages(p) ==
  /\ step[p] = "count"
  /\ Goto(p, IF messages = {} THEN "mark" ELSE "backfill")
  /\ UNCHANGED <<dbVars, rules, crossed>> /\ NoUseStep

Backfill(p) ==
  /\ step[p] = "backfill"
  /\ index' = messages
  /\ Goto(p, "mark")
  /\ UNCHANGED <<shape, triggers, messages, marked, rules, crossed>> /\ NoUseStep

Mark(p) ==
  /\ step[p] = "mark"
  /\ marked' = TRUE
  /\ Goto(p, "open")
  /\ UNCHANGED <<shape, triggers, messages, index, rules, crossed>> /\ NoUseStep

(* A command of the CLI ends; a program is killed, or one of its           *)
(* statements fails, which ends its open.  The server's tool calls end     *)
(* with it.                                                                *)
Close(p) ==
  /\ step[p] = "open" /\ p # Host
  /\ Goto(p, "off")
  /\ UNCHANGED <<dbVars, rules, crossed>> /\ NoUseStep

Kill(p) ==
  /\ step[p] # "off" /\ kills < MaxKills
  /\ kills' = kills + 1
  /\ Goto(p, "off")
  /\ use' = IF p = Host THEN [c \in Use |-> IF use[c].at = "done" THEN use[c] ELSE NoUse] ELSE use
  /\ UNCHANGED <<dbVars, rules, gate, given, crossed>>

-----------------------------------------------------------------------------
(* What the server does with the database.                                 *)

Serving    == step[Host] = "open"
NoOpenStep == UNCHANGED <<step, gate, crossed>>

(* append_message; the trigger messages_ai indexes it in the same          *)
(* transaction.                                                            *)
AppendMessage(m) ==
  /\ Serving /\ m \notin messages
  /\ messages' = messages \cup {m}
  /\ index' = IF triggers THEN index \cup {m} ELSE index
  /\ UNCHANGED <<shape, triggers, marked, rules, use, given, kills>> /\ NoOpenStep

NoData == UNCHANGED <<dbVars, kills>> /\ NoOpenStep

Is(c, at) == Serving /\ use[c].at = at

(* gate_check of a tool that asks unless remembered: find_decision looks   *)
(* for a rule of this input ...                                            *)
Begin(c, i) ==
  /\ Is(c, "idle") \/ Is(c, "done")
  /\ use' = [use EXCEPT ![c] = [NoUse EXCEPT !.at = "exact", !.input = i,
                                             !.exact = given[i], !.any = given[CatchAll]]]
  /\ NoData /\ UNCHANGED <<rules, given>>

Settle(c, who, what) == [use EXCEPT ![c].at = "done", ![c].by = who, ![c].verdict = what]

FindExact(c) ==
  LET found == rules[use[c].input]
  IN
  /\ Is(c, "exact")
  /\ use' = IF found = "none" THEN [use EXCEPT ![c].at = "any"] ELSE Settle(c, "rule", found)
  /\ NoData /\ UNCHANGED <<rules, given>>

(* ... then, in a second statement, for one of every input, ...            *)
FindCatchAll(c) ==
  /\ Is(c, "any")
  /\ use' = IF rules[CatchAll] = "none" THEN [use EXCEPT ![c].at = "ask"]
            ELSE Settle(c, "rule", rules[CatchAll])
  /\ NoData /\ UNCHANGED <<rules, given>>

(* ... and asks the gate: the configured answer, or the user's click.  A   *)
(* card that fails or times out ends in an error result (run_one_to_block).*)
AskGate(c) ==
  /\ Is(c, "ask")
  /\ \/ gate # "card" /\ use' = Settle(c, "gate", gate)
     \/ gate = "card" /\ \E v \in Verdict : use' = Settle(c, "gate", v)
     \/ gate = "card" /\ use' = [use EXCEPT ![c].at = "remember"]     \* AllowAlways
  /\ NoData /\ UNCHANGED <<rules, given>>

(* A rule that changes while a call looks for it may or may not be seen.   *)
Moved(u, s) == [c \in Use |-> IF s \in {u[c].input, CatchAll} /\ u[c].at # "done"
                              THEN [u[c] EXCEPT !.moved = TRUE] ELSE u[c]]

(* remember_decision; when it fails, the call is allowed all the same.     *)
Remember(c) ==
  LET i == use[c].input
  IN
  /\ Is(c, "remember")
  /\ rules' = [rules EXCEPT ![i] = "allow"]
  /\ given' = [given EXCEPT ![i] = "allow"]
  /\ use' = Moved(Settle(c, "gate", "allow"), i)
  /\ NoData

RememberFails(c) ==
  /\ Is(c, "remember") /\ kills < MaxKills
  /\ kills' = kills + 1
  /\ use' = Settle(c, "gate", "allow")
  /\ UNCHANGED <<dbVars, rules, given>> /\ NoOpenStep

(* DELETE /api/v1/approvals: forget_decision.                              *)
Forget(s) ==
  /\ Serving /\ rules[s] # "none"
  /\ rules' = [rules EXCEPT ![s] = "none"]
  /\ given' = [given EXCEPT ![s] = "none"]
  /\ use' = Moved(use, s)
  /\ NoData

-----------------------------------------------------------------------------
Upgrade(p) ==
  \/ Open(p) \/ CreateTables(p) \/ CreateIndex(p) \/ CheckDecisions(p) \/ RebuildDecisions(p)
  \/ \E t \in Table : CheckColumn(p, t) \/ AddColumn(p, t)
  \/ CheckMarker(p) \/ CountMessages(p) \/ Backfill(p) \/ Mark(p)

GateCheck(c) ==
  \/ \E i \in Input : Begin(c, i)
  \/ FindExact(c) \/ FindCatchAll(c) \/ AskGate(c) \/ Remember(c) \/ RememberFails(c)

Next ==
  \/ \E p \in Opener : Upgrade(p) \/ Close(p) \/ Kill(p)
  \/ \E c \in Use : GateCheck(c)
  \/ \E m \in Msg : AppendMessage(m)
  \/ \E s \in Signature : Forget(s)

Spec == Init /\ [][Next]_vars

-----------------------------------------------------------------------------
(* A program that has opened the database has its columns, and finds every *)
(* message with a search: kills and a second program that upgrades at the  *)
(* same time leave no gap in the index that the marker would hide          *)
(* (run_migrations, migrate_messages_fts_backfill).                        *)
OpenIsUpgraded ==
  (\E p \in Opener : step[p] = "open") =>
    /\ \A t \in Table : shape[t] = "new"
    /\ triggers /\ marked
    /\ index = messages

(* An upgrade changes no rule and widens none to inputs it was not given   *)
(* for, and a call is decided by the rule of its input, by the rule of     *)
(* every input only without one, and by the gate only without both         *)
(* (find_decision, gate_check).  Excepted: approval_decisions was rebuilt  *)
(* by two programs that had both seen the old one; and a call whose rules  *)
(* changed while it looked for them.                                       *)
RulesAreKept ==
  ~crossed =>
    /\ rules = given
    /\ \A c \in Use :
         use[c].at = "done" /\ ~use[c].moved =>
           CASE use[c].exact # "none" -> use[c].by = "rule" /\ use[c].verdict = use[c].exact
             [] use[c].exact = "none" /\ use[c].any # "none" ->
                  use[c].by = "rule" /\ use[c].verdict = use[c].any
             [] OTHER -> use[c].by = "gate"
=============================================================================
