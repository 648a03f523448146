------------------------------ MODULE LarkCards ------------------------------
(***************************************************************************)
(* Approval and question cards from end to end: the host that asks and     *)
(* gives up (channel-host supervisor.rs, request_approval and              *)
(* request_question), the plugin's request tasks, which post a card and    *)
(* then register it (snaca-plugin-lark main.rs, handle_approval_present,   *)
(* handle_question_present, handle_question_cancel), and its pump, which   *)
(* handles one click after the other (handle_card_action).  The registries *)
(* are mutexes: a lookup or a removal is a step.  PluginRpc models the     *)
(* pipes between the two; here a line arrives some time after it was sent. *)
(***************************************************************************)
EXTENDS Naturals, Sequences, FiniteSets

CONSTANTS
  Card, None,
  Approval, Form,   \* the approvals, and the questions that are forms
  MaxClicks         \* bound: clicks, on all cards

VARIABLES
  ask,        \* of each card's asker: new, presenting, waiting, answered, lapsed, failed
  tokens,     \* the host's registries
  request,    \* the present request in the plugin: none, posting, posted, done
  cancel,     \* the question.cancel request: none, sent, drained, done
  shown,      \* what the user sees of the card: none, live, answered, cancelled
  registered, \* the plugin's card registries
  clicks,     \* clicks that wait for the pump
  pump,       \* the click it handles and how far it is, or None
  callbacks,  \* answers on their way to the host
  sent, dropped, \* cards an answer was sent for, cards with a submit dropped in vain
  clicked

host   == <<ask, tokens>>
plugin == <<request, cancel, registered, pump>>
user   == <<clicks, clicked>>
notes  == <<callbacks, sent, dropped>>
vars == <<host, plugin, shown, user, notes>>

Question == Card \ Approval

Init ==
  /\ ask = [k \in Card |-> "new"] /\ tokens = {}
  /\ request = [k \in Card |-> "none"] /\ cancel = [k \in Card |-> "none"]
  /\ shown = [k \in Card |-> "none"] /\ registered = {}
  /\ clicks = <<>> /\ pump = None
  /\ callbacks = {} /\ sent = {} /\ dropped = {} /\ clicked = 0

-----------------------------------------------------------------------------
(* The host.                                                               *)

Requested(k) ==
  /\ ask[k] = "new"
  /\ ask' = [ask EXCEPT ![k] = "presenting"] /\ tokens' = tokens \cup {k}
  /\ request' = [request EXCEPT ![k] = "posting"]
  /\ UNCHANGED <<cancel, registered, pump, shown, user, notes>>

(* A click may have been faster than the acknowledgement: its answer is    *)
(* there when the asker begins to wait.                                    *)
Acked(k) ==
  /\ ask[k] = "presenting" /\ request[k] = "done"
  /\ ask' = [ask EXCEPT ![k] = IF k \in tokens THEN "waiting" ELSE "answered"]
  /\ UNCHANGED <<tokens, plugin, shown, user, notes>>

(* The present call failed, or was not acknowledged in time, though the    *)
(* plugin may still be posting, or a click may have been taken already.    *)
PresentFails(k) ==
  /\ ask[k] = "presenting"
  /\ ask' = [ask EXCEPT ![k] = "failed"] /\ tokens' = tokens \ {k}
  /\ UNCHANGED <<plugin, shown, user, notes>>

(* The click's answer takes the token; without one it is ignored.          *)
TakeCallback(k) ==
  /\ k \in callbacks
  /\ callbacks' = callbacks \ {k} /\ tokens' = tokens \ {k}
  /\ ask' = IF k \in tokens /\ ask[k] = "waiting" THEN [ask EXCEPT ![k] = "answered"] ELSE ask
  /\ UNCHANGED <<plugin, shown, user, sent, dropped>>

(* Mutant: the card is cancelled, but the token is still there.            *)
MutReleases(k) == tokens' = tokens

Releases(k) == tokens' = tokens \ {k}

(* Only questions tell the plugin.                                         *)
Lapse(k) ==
  /\ ask[k] = "waiting"
  /\ ask' = [ask EXCEPT ![k] = "lapsed"]
  /\ Releases(k)
  /\ cancel' = IF k \in Question THEN [cancel EXCEPT ![k] = "sent"] ELSE cancel
  /\ UNCHANGED <<request, registered, pump, shown, user, notes>>

-----------------------------------------------------------------------------
(* The plugin's request tasks.                                             *)

Post(k) ==
  /\ request[k] = "posting"
  /\ request' = [request EXCEPT ![k] = "posted"]
  /\ shown' = [shown EXCEPT ![k] = "live"]
  /\ UNCHANGED <<host, cancel, registered, pump, user, notes>>

PostFails(k) ==
  /\ request[k] = "posting"
  /\ request' = [request EXCEPT ![k] = "failed"]
  /\ UNCHANGED <<host, cancel, registered, pump, shown, user, notes>>

Registers(k) == registered' = registered \cup {k}

Insert(k) ==
  /\ request[k] = "posted"
  /\ request' = [request EXCEPT ![k] = "done"]
  /\ Registers(k)
  /\ UNCHANGED <<host, cancel, pump, shown, user, notes>>

Drain(k) == registered' = registered \ {k}

CancelDrains(k) ==
  /\ cancel[k] = "sent"
  /\ cancel' = [cancel EXCEPT ![k] = IF k \in registered THEN "drained" ELSE "done"]
  /\ Drain(k)
  /\ UNCHANGED <<host, request, pump, shown, user, notes>>

(* The PATCH succeeds, or fails and leaves the card as it is.              *)
CancelPatches(k) ==
  /\ cancel[k] = "drained"
  /\ cancel' = [cancel EXCEPT ![k] = "done"]
  /\ \/ shown' = [shown EXCEPT ![k] = "cancelled"]
     \/ UNCHANGED shown
  /\ UNCHANGED <<host, request, registered, pump, user, notes>>

-----------------------------------------------------------------------------
(* The user, and the pump.                                                 *)

Click(k) ==
  /\ shown[k] = "live" /\ clicked < MaxClicks
  /\ clicked' = clicked + 1 /\ clicks' = Append(clicks, k)
  /\ UNCHANGED <<host, plugin, shown, notes>>

(* The answers of a form can only be read with the registered questions.   *)
TakeClick ==
  /\ pump = None /\ clicks # <<>>
  /\ clicks' = Tail(clicks)
  /\ LET k == Head(clicks) IN
     IF k \in Form /\ k \notin registered
     THEN /\ dropped' = IF request[k] = "done" /\ k \notin sent /\ k \in tokens
                        THEN dropped \cup {k} ELSE dropped
          /\ UNCHANGED <<pump, callbacks, sent>>
     ELSE /\ callbacks' = callbacks \cup {k} /\ sent' = sent \cup {k}
          /\ pump' = [card |-> k, step |-> "drain"]
          /\ UNCHANGED dropped
  /\ UNCHANGED <<host, request, cancel, registered, shown, clicked>>

PumpDrains ==
  /\ pump # None /\ pump.step = "drain"
  /\ pump' = IF pump.card \in registered THEN [pump EXCEPT !.step = "patch"] ELSE None
  /\ Drain(pump.card)
  /\ UNCHANGED <<host, request, cancel, shown, user, notes>>

PumpPatches ==
  /\ pump # None /\ pump.step = "patch"
  /\ pump' = None
  /\ \/ shown' = [shown EXCEPT ![pump.card] = "answered"]
     \/ UNCHANGED shown
  /\ UNCHANGED <<host, request, cancel, registered, user, notes>>

Next ==
  \/ TakeClick \/ PumpDrains \/ PumpPatches
  \/ \E k \in Card :
       \/ Requested(k) \/ Acked(k) \/ PresentFails(k) \/ TakeCallback(k) \/ Lapse(k)
       \/ Post(k) \/ PostFails(k) \/ Insert(k) \/ CancelDrains(k) \/ CancelPatches(k)
       \/ Click(k)

Spec == Init /\ [][Next]_vars

-----------------------------------------------------------------------------
(* Every variable stays in its declared range; who waits has its token, an *)
(* answered ask and one that gave up hold none.                            *)
TypeOK ==
  /\ ask \in [Card -> {"new", "presenting", "waiting", "answered", "lapsed", "failed"}]
  /\ request \in [Card -> {"none", "posting", "posted", "done", "failed"}]
  /\ cancel \in [Card -> {"none", "sent", "drained", "done"}]
  /\ shown \in [Card -> {"none", "live", "answered", "cancelled"}]
  /\ registered \cup callbacks \cup sent \cup dropped \subseteq Card
  /\ tokens \subseteq {k \in Card : ask[k] \in {"presenting", "waiting"}}
  /\ {k \in Card : ask[k] = "waiting"} \subseteq tokens
  /\ pump = None \/ pump \in [card : Card, step : {"drain", "patch"}]
  /\ clicked \in 0..MaxClicks /\ Len(clicks) <= clicked

(* Clicks of two users, a double click and a cancel race for a card: it is *)
(* brought into its final form once, and then stays so (the remove that    *)
(* hands the entry to one of them).                                        *)
CardSettlesOnce ==
  [][\A k \in Card : shown[k] \in {"answered", "cancelled"} => shown'[k] = shown[k]]_shown

(* A card that says the question was cancelled never belongs to an answer  *)
(* the asker got, however the timeout, the cancel and a click meet.        *)
CancelledWasNotHeard == \A k \in Card : shown[k] = "cancelled" => ask[k] # "answered"

(* Once a question's card is acknowledged, no submit is dropped while the  *)
(* asker waits, unless an answer is already on its way to it.              *)
SubmitsAreHeard == dropped = {}
=============================================================================
