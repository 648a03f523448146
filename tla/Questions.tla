----------------------------- MODULE Questions -----------------------------
(***************************************************************************)
(* AskUserQuestion on a channel without cards: the single slot of a chat   *)
(* in TextQuestionRegistry (snaca-server/src/text_question.rs), the gate   *)
(* that fills it and waits (question_gate.rs, ask_via_text_fallback), and  *)
(* the dispatcher that hands it the next message (dispatch.rs).            *)
(*                                                                         *)
(* The tool counts as read-only and needs no approval, so the engine runs  *)
(* several asks of one response side by side, and leaves one behind when   *)
(* it drops a stream: asks of the same chat do overlap.                    *)
(***************************************************************************)
EXTENDS Naturals, FiniteSets

CONSTANTS Ask, Message, None

VARIABLES
  ask,        \* of each ask: new, sending, waiting, or how it ended
  slot,       \* the ask whose sender is registered, or None
  closed,     \* asks whose sender was dropped unused
  answer,     \* the message sent to each ask, or None
  after,      \* after[a]: the asks registered later than a
  message,    \* of each message: new, turn, answer, or swallowed
  lapsed      \* asks whose turn was cancelled, or whose wait ran out

vars == <<ask, slot, closed, answer, after, message, lapsed>>

Init ==
  /\ ask = [a \in Ask |-> "new"] /\ slot = None /\ closed = {}
  /\ answer = [a \in Ask |-> None] /\ after = [a \in Ask |-> {}]
  /\ message = [m \in Message |-> "new"] /\ lapsed = {}

Listening(a) == ask[a] \in {"sending", "waiting"}

-----------------------------------------------------------------------------
(* The registry.  An entry that leaves the map takes its sender with it.   *)

DropEntry == closed' = IF slot = None THEN closed ELSE closed \cup {slot}

(* Mutant: the sender that is in the slot stays there.                     *)
MutInstall(a) == slot' = (IF slot = None THEN a ELSE slot) /\ UNCHANGED closed

Install(a) == slot' = a /\ DropEntry

(* release removes whatever the chat's slot holds.                         *)
Release == slot' = None /\ DropEntry

-----------------------------------------------------------------------------
(* The gate.                                                               *)

(* The waiter is registered before the question is sent.                   *)
Register(a) ==
  /\ ask[a] = "new"
  /\ ask' = [ask EXCEPT ![a] = "sending"]
  /\ Install(a)
  /\ after' = [b \in Ask |-> IF ask[b] \notin {"new"} THEN after[b] \cup {a} ELSE after[b]]
  /\ UNCHANGED <<answer, message, lapsed>>

Sent(a) ==
  /\ ask[a] = "sending"
  /\ ask' = [ask EXCEPT ![a] = "waiting"]
  /\ UNCHANGED <<slot, closed, answer, after, message, lapsed>>

SendFails(a) ==
  /\ ask[a] = "sending"
  /\ ask' = [ask EXCEPT ![a] = "failed"]
  /\ Release
  /\ UNCHANGED <<answer, after, message, lapsed>>

TakesAnswer(a) ==
  /\ ask[a] = "waiting" /\ answer[a] # None
  /\ ask' = [ask EXCEPT ![a] = "answered"]
  /\ UNCHANGED <<slot, closed, answer, after, message, lapsed>>

(* The sender is gone: replaced, or released by another ask.               *)
SeesClosed(a) ==
  /\ ask[a] = "waiting" /\ a \in closed /\ answer[a] = None
  /\ ask' = [ask EXCEPT ![a] = "cancelled"]
  /\ Release
  /\ UNCHANGED <<answer, after, message, lapsed>>

(* The wait runs out, and with it the receiver goes; then the slot.        *)
TimesOut(a) ==
  /\ ask[a] = "waiting" /\ answer[a] = None /\ a \notin closed
  /\ ask' = [ask EXCEPT ![a] = "expired"]
  /\ lapsed' = lapsed \cup {a}
  /\ UNCHANGED <<slot, closed, answer, after, message>>

ReleasesExpired(a) ==
  /\ ask[a] = "expired"
  /\ ask' = [ask EXCEPT ![a] = "timeout"]
  /\ Release
  /\ UNCHANGED <<answer, after, message, lapsed>>

(* The turn's token is cancelled: the tool returns and drops the future of *)
(* the gate where it stands; nothing releases the slot.                    *)
TurnCancelled(a) ==
  /\ Listening(a)
  /\ ask' = [ask EXCEPT ![a] = "dropped"]
  /\ lapsed' = lapsed \cup {a}
  /\ UNCHANGED <<slot, closed, answer, after, message>>

-----------------------------------------------------------------------------
(* The dispatcher: a message of the chat goes to the pending question, or  *)
(* on to the chat's worker.                                                *)

Intercept(m) ==
  /\ message[m] = "new" /\ slot # None
  /\ slot' = None
  /\ IF Listening(slot)
     THEN answer' = [answer EXCEPT ![slot] = m] /\ message' = [message EXCEPT ![m] = "answer"]
     ELSE message' = [message EXCEPT ![m] = "swallowed"] /\ UNCHANGED answer
  /\ UNCHANGED <<ask, closed, after, lapsed>>

StartsTurn(m) ==
  /\ message[m] = "new" /\ slot = None
  /\ message' = [message EXCEPT ![m] = "turn"]
  /\ UNCHANGED <<ask, slot, closed, answer, after, lapsed>>

GateStep(a) ==
  \/ Sent(a) \/ SendFails(a) \/ TakesAnswer(a) \/ SeesClosed(a) \/ TimesOut(a)
  \/ ReleasesExpired(a)

Next ==
  \/ \E a \in Ask : Register(a) \/ GateStep(a) \/ TurnCancelled(a)
  \/ \E m \in Message : Intercept(m) \/ StartsTurn(m)

Spec == Init /\ [][Next]_vars

-----------------------------------------------------------------------------
(* Properties.                                                             *)

(* Every variable stays in its declared range.                             *)
TypeOK ==
  /\ ask \in [Ask -> {"new", "sending", "waiting", "answered", "failed", "cancelled",
                      "expired", "timeout", "dropped"}]
  /\ slot \in Ask \cup {None} /\ closed \subseteq Ask
  /\ answer \in [Ask -> Message \cup {None}]
  /\ message \in [Message -> {"new", "turn", "answer", "swallowed"}]

(* The intercept, dispatch.rs: a message that starts no turn answers one   *)
(* question, that was asked and not replaced when it came; it vanishes     *)
(* only into the slot of an ask that ran out or was cut off.               *)
MessagesAreHeard ==
  /\ \A m \in Message :
       /\ message[m] = "answer" => \E a \in Ask : answer[a] = m
       /\ message[m] = "swallowed" => lapsed # {}
  /\ \A a, b \in Ask : a # b /\ answer[a] # None => answer[a] # answer[b]
  /\ \A a \in Ask : slot = a \/ answer[a] # None => a \notin closed

(* question_gate.rs: whoever waits is still reachable: its sender is in    *)
(* the slot, was used, or is known to be gone; so no ask outlives a        *)
(* replacement unnoticed.                                                  *)
WaitersAreReachable ==
  \A a \in Ask : Listening(a) => slot = a \/ answer[a] # None \/ a \in closed

(* text_question.rs: "If a second `ask` arrives while one is pending we    *)
(* replace the older waiter (it will see a `Cancelled` error and the LLM   *)
(* can retry)": it is the older one that is cancelled.                     *)
OnlyReplacedIsCancelled == \A a \in Ask : ask[a] = "cancelled" => after[a] # {}
=============================================================================
