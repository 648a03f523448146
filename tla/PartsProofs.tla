---------------------------- MODULE PartsProofs ----------------------------
(***************************************************************************)
(* Proofs about the parts that MCParts puts side by side.  A behaviour     *)
(* moves one part, so each section first says that a step is one of its    *)
(* part or leaves the part's variables alone, then gives the inductive     *)
(* invariant of the part, one lemma per group of actions, and the theorem. *)
(***************************************************************************)
EXTENDS MCParts, SequenceTheorems, WellFoundedInduction, TLAPS

(* A behaviour is one of one part.                                         *)
LEMMA PartStays == [Next]_vars => part' = part
  BY DEF Next, vars, OnlyThread, OnlyBatch, OnlyMemory, OnlyPool, OnlyText, OnlyCards,
         OnlyLark, OnlySched, OnlyReply, OnlyFiles, OnlyDb, OnlyFence, OnlyTurn, OnlyPlugin,
         OnlyServer

-----------------------------------------------------------------------------
(* Questions: the slot of a chat, and who waits behind it.                 *)

(* An ask that has not begun is nowhere, the ask in the slot has had no    *)
(* answer and still listens, or its turn was cut off.                      *)
SlotIsOpen ==
  /\ \A q \in Ask : ask[q] = "new" => slot # q /\ q \notin closed /\ answer[q] = None
  /\ slot # None => answer[slot] = None /\ (Text!Listening(slot) \/ slot \in lapsed)

(* An answer is a message that was taken as one.                           *)
AnswersAreTaken == \A q \in Ask : answer[q] # None => message[answer[q]] = "answer"

TextInv ==
  /\ Text!TypeOK /\ SlotIsOpen /\ AnswersAreTaken
  /\ Text!MessagesAreHeard /\ Text!WaitersAreReachable

(* Nothing is in the slot, or pending, before the first ask.               *)
LEMMA TextBegins == Text!Init => TextInv
  BY PartsAssumption
  DEF Text!Init, TextInv, Text!TypeOK, SlotIsOpen, AnswersAreTaken, Text!MessagesAreHeard,
      Text!WaitersAreReachable, Text!Listening

(* ask() of the registry: a new waiter takes the slot, and the sender of   *)
(* the older one with it.                                                  *)
LEMMA TextRegisters ==
  ASSUME TextInv, NEW q \in Ask, Text!Register(q)
  PROVE  TextInv'
<1> USE PartsAssumption
    DEF TextInv, Text!Register, Text!Install, Text!DropEntry
<1>1. Text!TypeOK'
  BY DEF Text!TypeOK
<1>2. SlotIsOpen'
  BY DEF SlotIsOpen, Text!TypeOK, Text!Listening
<1>3. AnswersAreTaken'
  BY DEF AnswersAreTaken
<1>4. Text!MessagesAreHeard'
  BY DEF Text!MessagesAreHeard, SlotIsOpen, Text!TypeOK
<1>5. Text!WaitersAreReachable'
  BY DEF Text!WaitersAreReachable, Text!TypeOK, Text!Listening
<1> QED
  BY <1>1, <1>2, <1>3, <1>4, <1>5

(* The gate's own steps: sent, answered, failed, cancelled, timed out.     *)
LEMMA TextWaits ==
  ASSUME TextInv, NEW q \in Ask, Text!GateStep(q) \/ Text!TurnCancelled(q)
  PROVE  TextInv'
<1> USE PartsAssumption
    DEF TextInv, Text!Release, Text!DropEntry, Text!GateStep, Text!Sent, Text!SendFails,
        Text!TakesAnswer, Text!SeesClosed, Text!TimesOut, Text!ReleasesExpired,
        Text!TurnCancelled
<1>1. Text!TypeOK'
  BY DEF Text!TypeOK
<1>2. SlotIsOpen'
  BY DEF SlotIsOpen, Text!TypeOK, Text!Listening
<1>3. AnswersAreTaken'
  BY DEF AnswersAreTaken
<1>4. Text!MessagesAreHeard'
  BY DEF Text!MessagesAreHeard, SlotIsOpen, Text!TypeOK
<1>5. Text!WaitersAreReachable'
  BY DEF Text!WaitersAreReachable, Text!TypeOK, Text!Listening
<1> QED
  BY <1>1, <1>2, <1>3, <1>4, <1>5

(* The dispatcher: a message goes to the pending question or starts a turn. *)
LEMMA TextHears ==
  ASSUME TextInv, NEW n \in Message, Text!Intercept(n) \/ Text!StartsTurn(n)
  PROVE  TextInv'
<1> USE PartsAssumption DEF TextInv, Text!Intercept, Text!StartsTurn
<1>1. Text!TypeOK'
  BY DEF Text!TypeOK
<1>2. SlotIsOpen'
  BY DEF SlotIsOpen, Text!TypeOK, Text!Listening
<1>3. AnswersAreTaken'
  BY DEF AnswersAreTaken, Text!TypeOK
<1>4. Text!MessagesAreHeard'
  BY DEF Text!MessagesAreHeard, SlotIsOpen, AnswersAreTaken, Text!TypeOK
<1>5. Text!WaitersAreReachable'
  BY DEF Text!WaitersAreReachable, Text!TypeOK, Text!Listening
<1> QED
  BY <1>1, <1>2, <1>3, <1>4, <1>5

LEMMA TextStep == ASSUME TextInv, [Next]_vars, part = "text" PROVE TextInv'
<1>1. CASE Text!Next
  BY <1>1, TextRegisters, TextWaits, TextHears DEF Text!Next
<1>2. CASE UNCHANGED askState
  BY <1>2 DEF askState, TextInv, Text!TypeOK, SlotIsOpen, AnswersAreTaken,
              Text!MessagesAreHeard, Text!WaitersAreReachable, Text!Listening
<1>3. Text!Next \/ UNCHANGED askState
  BY DEF Next, vars, turnState
<1> QED
  BY <1>1, <1>2, <1>3

(* No message of a chat and no waiter is forgotten: a message that starts  *)
(* no turn answers exactly one question that still listened, or finds an   *)
(* ask whose turn ended; whoever waits is in the slot, has its answer, or  *)
(* is known to have been replaced.  For any number of asks and messages.   *)
THEOREM NobodyForgotten == Spec => []NobodyIsForgotten
<1>1. Init => (part = "text" => TextInv)
  BY TextBegins DEF Init
<1>2. (part = "text" => TextInv) /\ [Next]_vars => (part = "text" => TextInv)'
  BY PartStays, TextStep
<1>3. (part = "text" => TextInv) => NobodyIsForgotten
  BY DEF TextInv, NobodyIsForgotten
<1> QED
  BY <1>1, <1>2, <1>3, PTL DEF Spec

-----------------------------------------------------------------------------
(* LarkCards: the plugin's registry entry of a card is the right to patch  *)
(* it.                                                                     *)

(* Who may still bring card k into a final form: whoever finds the entry,  *)
(* the cancel request, or the pump, once it has taken it.                  *)
InRegistry(k) == k \in registered
ByCancel(k)   == cancel[k] = "drained"
ByPump(k)     == cardPump # None /\ cardPump.card = k /\ cardPump.step = "patch"

(* At most one of them may, and only while the card is still open; before  *)
(* the card is posted and registered nobody may.                           *)
OneMaySettle ==
  \A k \in Card :
    /\ InRegistry(k) => ~ByCancel(k) /\ ~ByPump(k)
    /\ ByCancel(k) => ~ByPump(k)
    /\ InRegistry(k) \/ ByCancel(k) \/ ByPump(k) => shown[k] = "live" /\ present[k] = "done"
    /\ present[k] \in {"none", "posting", "failed"} => shown[k] = "none"
    /\ present[k] = "posted" => shown[k] = "live"

(* A cancel is sent by an asker that gave up, a card is marked cancelled   *)
(* by a cancel.                                                            *)
CancelledGaveUp ==
  \A k \in Card : /\ cancel[k] # "none" => cardAsk[k] = "lapsed"
                  /\ shown[k] = "cancelled" => cancel[k] # "none"
                  /\ cardAsk[k] = "new" => present[k] = "none"
                  /\ k \in tokens => cardAsk[k] \in {"presenting", "waiting"}

(* The entry leaves the registry by a cancel, or by a click whose answer   *)
(* is on its way.                                                          *)
EntryLeftForCause ==
  /\ cardPump # None => cardPump.card \in sent
  /\ \A k \in Card : present[k] = "done" => InRegistry(k) \/ k \in sent \/ cancel[k] # "none"
  /\ dropped = {}

CardTypes ==
  /\ cardAsk \in [Card -> {"new", "presenting", "waiting", "answered", "lapsed", "failed"}]
  /\ present \in [Card -> {"none", "posting", "posted", "done", "failed"}]
  /\ cancel \in [Card -> {"none", "sent", "drained", "done"}]
  /\ shown \in [Card -> {"none", "live", "answered", "cancelled"}]
  /\ cardPump = None \/ cardPump \in [card : Card, step : {"drain", "patch"}]
  /\ clicks \in Seq(Card) /\ tokens \subseteq Card

CardInv == CardTypes /\ OneMaySettle /\ CancelledGaveUp /\ EntryLeftForCause

LEMMA CardsBegin == Cards!Init => CardInv
  BY DEF Cards!Init, CardInv, CardTypes, OneMaySettle, CancelledGaveUp, EntryLeftForCause,
         InRegistry, ByCancel, ByPump

(* The asker: it requests the card, is acknowledged, answered, or gives up. *)
LEMMA AskerKeepsCards ==
  ASSUME CardInv, NEW k \in Card,
         \/ Cards!Requested(k) \/ Cards!Acked(k) \/ Cards!PresentFails(k)
         \/ Cards!TakeCallback(k) \/ Cards!Lapse(k)
  PROVE  CardInv' /\ UNCHANGED shown
<1> USE DEF CardInv, Cards!Requested, Cards!Acked, Cards!PresentFails, Cards!TakeCallback,
            Cards!Lapse, Cards!Releases, Cards!plugin, Cards!user, Cards!notes
<1>1. CardTypes'
  BY DEF CardTypes
<1>2. OneMaySettle'
  BY DEF OneMaySettle, CancelledGaveUp, CardTypes, InRegistry, ByCancel, ByPump
<1>3. CancelledGaveUp'
  BY DEF CancelledGaveUp, CardTypes
<1>4. EntryLeftForCause'
  BY DEF EntryLeftForCause, CardTypes, InRegistry
<1> QED
  BY <1>1, <1>2, <1>3, <1>4

(* The plugin's request tasks: they post and register the card, or cancel  *)
(* it.                                                                     *)
LEMMA TasksKeepCards ==
  ASSUME CardInv, NEW k \in Card,
         \/ Cards!Post(k) \/ Cards!PostFails(k) \/ Cards!Insert(k)
         \/ Cards!CancelDrains(k) \/ Cards!CancelPatches(k)
  PROVE  /\ CardInv'
         /\ \A c \in Card : shown[c] \in {"answered", "cancelled"} => shown'[c] = shown[c]
<1> USE DEF CardInv, Cards!Post, Cards!PostFails, Cards!Insert, Cards!CancelDrains,
            Cards!CancelPatches, Cards!Registers, Cards!Drain, Cards!host, Cards!user,
            Cards!notes
<1>1. CardTypes'
  BY DEF CardTypes
<1>2. OneMaySettle'
  BY DEF OneMaySettle, CardTypes, InRegistry, ByCancel, ByPump
<1>3. CancelledGaveUp'
  BY DEF CancelledGaveUp, CardTypes
<1>4. EntryLeftForCause'
  BY DEF EntryLeftForCause, CardTypes, InRegistry
<1>5. \A c \in Card : shown[c] \in {"answered", "cancelled"} => shown'[c] = shown[c]
  BY DEF OneMaySettle, CardTypes, InRegistry, ByCancel, ByPump
<1> QED
  BY <1>1, <1>2, <1>3, <1>4, <1>5

(* A user clicks, and the pump handles the click.                          *)
LEMMA PumpKeepsCards ==
  ASSUME CardInv,
         Cards!TakeClick \/ Cards!PumpDrains \/ Cards!PumpPatches \/ \E k \in Card : Cards!Click(k)
  PROVE  /\ CardInv'
         /\ \A c \in Card : shown[c] \in {"answered", "cancelled"} => shown'[c] = shown[c]
<1> USE DEF CardInv, Cards!TakeClick, Cards!PumpDrains, Cards!PumpPatches, Cards!Click,
            Cards!Drain, Cards!host, Cards!user, Cards!notes, Cards!plugin
<1>1. clicks # <<>> => Head(clicks) \in Card /\ Tail(clicks) \in Seq(Card)
  BY DEF CardTypes
<1>2. CardTypes'
  <2>1. CASE Cards!TakeClick
    BY <1>1, <2>1 DEF CardTypes
  <2>2. CASE Cards!PumpDrains \/ Cards!PumpPatches
    BY <2>2 DEF CardTypes
  <2>3. CASE \E k \in Card : Cards!Click(k)
    BY <2>3 DEF CardTypes
  <2> QED
    BY <2>1, <2>2, <2>3
<1>3. OneMaySettle'
  BY <1>1 DEF OneMaySettle, CardTypes, InRegistry, ByCancel, ByPump
<1>4. CancelledGaveUp'
  BY <1>1 DEF CancelledGaveUp, CardTypes, OneMaySettle, ByPump
<1>5. EntryLeftForCause'
  BY <1>1 DEF EntryLeftForCause, CardTypes, InRegistry, CancelledGaveUp
<1>6. \A c \in Card : shown[c] \in {"answered", "cancelled"} => shown'[c] = shown[c]
  BY DEF OneMaySettle, CardTypes, InRegistry, ByCancel, ByPump
<1> QED
  BY <1>2, <1>3, <1>4, <1>5, <1>6

LEMMA CardStep ==
  ASSUME CardInv, [Next]_vars, part = "cards"
  PROVE  /\ CardInv'
         /\ \A c \in Card : shown[c] \in {"answered", "cancelled"} => shown'[c] = shown[c]
<1>1. CASE Cards!Next
  BY <1>1, AskerKeepsCards, TasksKeepCards, PumpKeepsCards DEF Cards!Next
<1>2. CASE UNCHANGED cardState
  BY <1>2 DEF cardState, CardInv, CardTypes, OneMaySettle, CancelledGaveUp,
              EntryLeftForCause, InRegistry, ByCancel, ByPump
<1>3. Cards!Next \/ UNCHANGED cardState
  BY DEF Next, vars, pluginState
<1> QED
  BY <1>1, <1>2, <1>3

(* The cards tell the truth: a card that was brought into a final form     *)
(* stays in it, it is never marked cancelled when its answer was taken,    *)
(* and no submit is dropped while its asker waits in vain, however         *)
(* timeout, cancel, clicks and registration meet.                          *)
THEOREM CardsAreTrue == Spec => CardsTellTheTruth
<1> DEFINE Inv == part = "cards" => CardInv
<1>1. Init => Inv
  BY CardsBegin DEF Init
<1>2. Inv /\ [Next]_vars => Inv'
  BY PartStays, CardStep
<1>3. Inv /\ [Next]_vars =>
        [\A k \in Card : shown[k] \in {"answered", "cancelled"} => shown'[k] = shown[k]]_shown
  <2>1. [Next]_vars /\ part # "cards" => UNCHANGED shown
    BY DEF Next, vars, pluginState, cardState, OnlyThread, OnlyBatch, OnlyMemory, OnlyPool,
           OnlyText, OnlyLark, OnlySched, OnlyReply, OnlyFiles, OnlyDb, OnlyFence, OnlyTurn,
           OnlyPlugin, OnlyServer
  <2> QED
    BY <2>1, CardStep
<1>4. Inv => (part = "cards" => Cards!CancelledWasNotHeard /\ Cards!SubmitsAreHeard)
  BY DEF CardInv, CancelledGaveUp, EntryLeftForCause, Cards!CancelledWasNotHeard,
         Cards!SubmitsAreHeard
<1> QED
  BY <1>1, <1>2, <1>3, <1>4, PTL DEF Spec, CardsTellTheTruth, Cards!CardSettlesOnce

-----------------------------------------------------------------------------
(* Decisions: every program that opens the database upgrades it.           *)

Stored == [at : {"idle", "exact", "any", "ask", "remember", "done"}, input : Db!Signature,
           exact : Db!Verdict \cup {"none"}, any : Db!Verdict \cup {"none"},
           by : {"nobody", "rule", "gate"}, verdict : Db!Verdict \cup {"none"}, moved : BOOLEAN]

DbTypes ==
  /\ shape \in [Db!Table -> {"absent", "old", "new"}]
  /\ triggers \in BOOLEAN /\ marked \in BOOLEAN /\ rebuilt \in BOOLEAN
  /\ rules \in [Db!Signature -> Db!Verdict \cup {"none"}]
  /\ given \in [Db!Signature -> Db!Verdict \cup {"none"}]
  /\ step \in [Opener -> Db!Steps]
  /\ gate \in {"allow", "deny", "card"}
  /\ use \in [Use -> Stored]

(* What program p has behind it is done, and stays so: no other program    *)
(* takes a column or the index away.                                       *)
DoneBefore(p) ==
  /\ step[p] \notin {"off", "tables"} => \A t \in Db!Table : shape[t] # "absent"
  /\ step[p] \notin {"off", "tables", "index"} => triggers
  /\ step[p] \notin {"off", "tables", "index", "decisions", "rebuild_decisions"} =>
       shape["decisions"] = "new"
  /\ step[p] \in {"messages", "add_messages", "marker", "count", "backfill", "mark", "open"} =>
       shape["compactions"] = "new"
  /\ step[p] \in {"marker", "count", "backfill", "mark", "open"} => shape["messages"] = "new"

(* Where the marker is set, or about to be, the index is whole.            *)
MarkerIsTrue ==
  /\ found \subseteq messages
  /\ marked => triggers /\ found = messages
  /\ \A p \in Opener : /\ step[p] = "mark" => found = messages
                       /\ step[p] = "open" => marked

(* A table of the old shape has no rule of one input; a program that is    *)
(* about to rebuild has the old table before it, unless another one was    *)
(* faster.                                                                 *)
OldRulesAreBroad ==
  /\ shape["decisions"] # "new" => \A i \in Input : rules[i] = "none"
  /\ \A p \in Opener : step[p] = "rebuild_decisions" /\ ~rebuilt => shape["decisions"] = "old"
  /\ ~rebuilt => rules = given

(* What a call has found so far is what was there when it began, unless    *)
(* its rules moved.                                                        *)
Narrowest(u) ==
  CASE u.exact # "none" -> u.by = "rule" /\ u.verdict = u.exact
    [] u.exact = "none" /\ u.any # "none" -> u.by = "rule" /\ u.verdict = u.any
    [] OTHER -> u.by = "gate"

LookedUp(u) ==
  /\ u.at \in {"exact", "any", "ask", "remember"} =>
       u.input \in Input /\ u.exact = rules[u.input] /\ u.any = rules[CatchAll]
  /\ u.at \in {"any", "ask", "remember"} => u.exact = "none"
  /\ u.at \in {"ask", "remember"} => u.any = "none"
  /\ u.at = "done" => Narrowest(u)

CallsLookUp == ~rebuilt => \A c \in Use : ~use[c].moved => LookedUp(use[c])

(* What the upgrades and the calls keep.                                   *)
DbInv ==
  /\ DbTypes /\ (\A p \in Opener : DoneBefore(p)) /\ MarkerIsTrue /\ OldRulesAreBroad
  /\ CallsLookUp

LEMMA DbBegins == Db!Init => DbInv
<1> SUFFICES ASSUME Db!Init PROVE DbInv
  OBVIOUS
<1> USE DEF Db!Init, Db!Signature, Db!Table, Db!Verdict, Db!NoRule
<1>1. DbTypes
  <2>1. CatchAll \in Db!Signature
    OBVIOUS
  <2>2. use \in [Use -> Stored]
    BY DEF Db!NoUse, Stored
  <2>3. gate \in {"allow", "deny", "card"}
    BY DEF Db!GateOf
  <2>4. shape \in [Db!Table -> {"absent", "old", "new"}] /\ marked \in BOOLEAN
    BY DEF Db!Fresh, Db!Legacy
  <2>5. rules \in [Db!Signature -> Db!Verdict \cup {"none"}]
    BY DEF Db!Fresh, Db!Legacy
  <2> QED
    BY <2>2, <2>3, <2>4, <2>5 DEF DbTypes, Db!Steps
<1>2. \A p \in Opener : DoneBefore(p)
  BY DEF DoneBefore
<1>3. MarkerIsTrue
  BY DEF MarkerIsTrue, Db!Fresh, Db!Legacy
<1>4. OldRulesAreBroad
  BY PartsAssumption DEF OldRulesAreBroad, Db!Fresh, Db!Legacy
<1>5. CallsLookUp
  BY DEF CallsLookUp, LookedUp, Db!NoUse
<1> QED
  BY <1>1, <1>2, <1>3, <1>4, <1>5 DEF DbInv

(* The statements of run_migrations.                                       *)
LEMMA UpgradeKeepsDb ==
  ASSUME DbInv, NEW p \in Opener, Db!Upgrade(p)
  PROVE  DbInv'
<1> USE DEF DbInv, Db!Upgrade, Db!Open, Db!CreateTables, Db!CreateIndex, Db!CheckDecisions,
            Db!CheckColumn, Db!AddColumn, Db!AddOf, Db!After,
            Db!CheckMarker, Db!CountMessages, Db!Backfill, Db!Mark, Db!Goto, Db!NoUseStep,
            Db!dbVars, Db!Signature, Db!Table
<1>1. CASE Db!RebuildDecisions(p)
  <2> DEFINE decided == {s \in Db!Signature : rules[s] # "none"}
  <2>1. /\ step[p] = "rebuild_decisions"
        /\ rebuilt' = (rebuilt \/ \E q \in Opener \ {p} : step[q] = "rebuild_decisions")
        /\ UNCHANGED <<triggers, messages, found, marked, gate, use, given, kills>>
        /\ \/ /\ shape' = [shape EXCEPT !["decisions"] = "new"]
              /\ rules' = [Db!NoRule EXCEPT ![CatchAll] = IF decided = {} THEN "none"
                                              ELSE rules[CHOOSE s \in decided : TRUE]]
              /\ step' = [step EXCEPT ![p] = "compactions"]
           \/ /\ step' = [step EXCEPT ![p] = "off"]
              /\ UNCHANGED <<shape, rules>>
    BY <1>1 DEF Db!RebuildDecisions
  <2>2. decided # {} => (CHOOSE s \in decided : TRUE) \in decided
    OBVIOUS
  <2>3. DbTypes'
    BY <2>1, <2>2 DEF DbTypes, Db!NoRule, Db!Verdict, Db!Steps
  <2>4. \A q \in Opener : DoneBefore(q)'
    BY <2>1 DEF DbTypes, DoneBefore
  <2>5. MarkerIsTrue'
    BY <2>1 DEF DbTypes, MarkerIsTrue
  <2>6. ~rebuilt' => rules' = rules
    <3> SUFFICES ASSUME ~rebuilt' PROVE rules' = rules
      OBVIOUS
    <3>1. \A i \in Input : rules[i] = "none"
      BY <2>1 DEF OldRulesAreBroad
    <3>2. decided # {} => (CHOOSE s \in decided : TRUE) = CatchAll
      BY <2>2, <3>1
    <3>3. decided = {} => rules[CatchAll] = "none"
      OBVIOUS
    <3>4. CASE UNCHANGED rules
      BY <3>4
    <3>5. CASE rules' = [Db!NoRule EXCEPT ![CatchAll] = IF decided = {} THEN "none"
                                              ELSE rules[CHOOSE s \in decided : TRUE]]
      <4>1. \A s \in Db!Signature : rules'[s] = rules[s]
        BY <3>1, <3>2, <3>3, <3>5, PartsAssumption DEF Db!NoRule
      <4> QED
        BY <4>1, <2>3 DEF DbTypes
    <3> QED
      BY <2>1, <3>4, <3>5
  <2>7. OldRulesAreBroad'
    BY <2>1, <2>6 DEF DbTypes, OldRulesAreBroad
  <2>8. CallsLookUp'
    BY <2>1, <2>6 DEF CallsLookUp, LookedUp, Narrowest
  <2> QED
    BY <2>3, <2>4, <2>5, <2>7, <2>8
<1>2. CASE ~Db!RebuildDecisions(p)
  <2>1. UNCHANGED <<rules, gate, use, given, kills, rebuilt>>
    BY <1>2
  <2>2. DbTypes'
    <3>1. shape' \in [Db!Table -> {"absent", "old", "new"}]
      BY <1>2 DEF DbTypes
    <3>2. triggers' \in BOOLEAN /\ marked' \in BOOLEAN
      BY <1>2 DEF DbTypes
    <3>3. step' \in [Opener -> Db!Steps]
      BY <1>2 DEF DbTypes, Db!Steps
    <3> QED
      BY <2>1, <3>1, <3>2, <3>3 DEF DbTypes
  <2>3. \A q \in Opener : DoneBefore(q)'
    BY <1>2 DEF DbTypes, DoneBefore
  <2>4. MarkerIsTrue'
    BY <1>2 DEF DbTypes, MarkerIsTrue, DoneBefore
  <2>5. OldRulesAreBroad'
    BY <1>2, <2>1 DEF DbTypes, OldRulesAreBroad, DoneBefore
  <2>6. CallsLookUp'
    BY <2>1 DEF CallsLookUp, LookedUp, Narrowest
  <2> QED
    BY <2>2, <2>3, <2>4, <2>5, <2>6
<1> QED
  BY <1>1, <1>2

(* Close, Kill and append_message.                                         *)
LEMMA ClosingKeepsDb ==
  ASSUME DbInv, (\E p \in Opener : Db!Close(p) \/ Db!Kill(p)) \/ \E m \in Msg : Db!AppendMessage(m)
  PROVE  DbInv'
<1> USE DEF DbInv, Db!Close, Db!Kill, Db!AppendMessage, Db!Goto, Db!NoUseStep, Db!NoOpenStep,
            Db!dbVars, Db!Signature, Db!Serving
<1>1. DbTypes'
  <2>1. Db!NoUse \in Stored
    BY DEF Db!NoUse, Stored
  <2>2. use' \in [Use -> Stored]
    BY <2>1 DEF DbTypes
  <2>3. step' \in [Opener -> Db!Steps]
    BY DEF DbTypes, Db!Steps
  <2> QED
    BY <2>2, <2>3 DEF DbTypes
<1>2. \A q \in Opener : DoneBefore(q)'
  BY DEF DbTypes, DoneBefore
<1>3. MarkerIsTrue'
  BY DEF DbTypes, MarkerIsTrue, DoneBefore
<1>4. OldRulesAreBroad'
  BY DEF DbTypes, OldRulesAreBroad, DoneBefore
<1>5. CallsLookUp'
  BY DEF CallsLookUp, LookedUp, Narrowest, Db!NoUse
<1> QED
  BY <1>1, <1>2, <1>3, <1>4, <1>5

(* find_decision, the gate, remember_decision and forget_decision.         *)
LEMMA CallsKeepDb ==
  ASSUME DbInv, (\E c \in Use : Db!GateCheck(c)) \/ \E s \in Db!Signature : Db!Forget(s)
  PROVE  DbInv'
<1>1. ASSUME NEW c \in Use, NEW u \in Stored, use' = [use EXCEPT ![c] = u],
             UNCHANGED <<Db!dbVars, step, gate, rebuilt, rules, given>>,
             ~rebuilt /\ ~u.moved => LookedUp(u)
      PROVE  DbInv'
  <2> USE <1>1 DEF DbInv, Db!dbVars
  <2>1. DbTypes'
    BY DEF DbTypes
  <2>2. \A q \in Opener : DoneBefore(q)'
    BY DEF DoneBefore
  <2>3. MarkerIsTrue'
    BY DEF MarkerIsTrue
  <2>4. OldRulesAreBroad'
    BY DEF OldRulesAreBroad
  <2>5. CallsLookUp'
    BY DEF CallsLookUp, LookedUp, DbTypes
  <2> QED
    BY <2>1, <2>2, <2>3, <2>4, <2>5
<1>2. ASSUME NEW s \in Db!Signature, NEW v \in Db!Verdict \cup {"none"}, Db!Serving,
             NEW w \in [Use -> Stored], use' = Db!Moved(w, s),
             rules' = [rules EXCEPT ![s] = v], given' = [given EXCEPT ![s] = v],
             UNCHANGED <<Db!dbVars, step, gate, rebuilt>>,
             ~rebuilt => \A c \in Use : ~w[c].moved => LookedUp(w[c])
      PROVE  DbInv'
  <2> USE <1>2 DEF DbInv, Db!dbVars
  <2>1. DbTypes'
    <3>1. \A c \in Use : [w[c] EXCEPT !.moved = TRUE] \in Stored
      BY DEF Stored
    <3> QED
      BY <3>1 DEF DbTypes, Db!Moved
  <2>2. \A q \in Opener : DoneBefore(q)'
    BY DEF DoneBefore
  <2>3. MarkerIsTrue'
    BY DEF MarkerIsTrue
  <2>4. OldRulesAreBroad'
    BY PartsAssumption DEF OldRulesAreBroad, DoneBefore, Db!Serving, DbTypes
  <2>5. CallsLookUp'
    <3> SUFFICES ASSUME ~rebuilt, NEW c \in Use, ~use'[c].moved PROVE LookedUp(use[c])'
      BY DEF CallsLookUp
    <3>1. use'[c] = w[c] /\ (s \notin {w[c].input, CatchAll} \/ w[c].at = "done")
      BY DEF Db!Moved, Stored
    <3>2. LookedUp(w[c])
      BY <3>1
    <3> QED
      BY <3>1, <3>2 DEF LookedUp, Narrowest, DbTypes, Db!Signature
  <2> QED
    BY <2>1, <2>2, <2>3, <2>4, <2>5
<1>3. ASSUME NEW c \in Use, Db!GateCheck(c) PROVE DbInv'
  <2> USE <1>3 DEF Db!NoData, Db!NoOpenStep, Db!Is
  <2>1. /\ use \in [Use -> Stored] /\ use[c] \in Stored
        /\ ~rebuilt => rules = given
        /\ ~rebuilt /\ ~use[c].moved => LookedUp(use[c])
        /\ rules \in [Db!Signature -> Db!Verdict \cup {"none"}]
        /\ given \in [Db!Signature -> Db!Verdict \cup {"none"}]
    BY DEF DbInv, DbTypes, OldRulesAreBroad, CallsLookUp
  <2>2. CASE \E i \in Input : Db!Begin(c, i)
    <3>1. PICK i \in Input : Db!Begin(c, i)
      BY <2>2
    <3> DEFINE u == [Db!NoUse EXCEPT !.at = "exact", !.input = i,
                                     !.exact = given[i], !.any = given[CatchAll]]
    <3>2. u \in Stored
      BY <2>1 DEF Stored, Db!NoUse, Db!Signature
    <3>3. ~rebuilt => LookedUp(u)
      BY <2>1 DEF LookedUp, Db!NoUse
    <3> QED
      BY <1>1, <3>1, <3>2, <3>3 DEF Db!Begin
  <2>3. CASE Db!FindExact(c)
    <3> DEFINE f == rules[use[c].input]
               u == IF f = "none" THEN [use[c] EXCEPT !.at = "any"]
                    ELSE [use[c] EXCEPT !.at = "done", !.by = "rule", !.verdict = f]
    <3>1. use' = [use EXCEPT ![c] = u] /\ use[c].at = "exact"
      BY <2>1, <2>3 DEF Db!FindExact, Db!Settle
    <3>2. u \in Stored
      BY <2>1 DEF Stored
    <3>3. ~rebuilt /\ ~u.moved => LookedUp(u)
      BY <2>1, <3>1 DEF LookedUp, Narrowest, Stored
    <3> QED
      BY <1>1, <2>3, <3>1, <3>2, <3>3 DEF Db!FindExact
  <2>4. CASE Db!FindCatchAll(c)
    <3> DEFINE f == rules[CatchAll]
               u == IF f = "none" THEN [use[c] EXCEPT !.at = "ask"]
                    ELSE [use[c] EXCEPT !.at = "done", !.by = "rule", !.verdict = f]
    <3>1. use' = [use EXCEPT ![c] = u] /\ use[c].at = "any"
      BY <2>1, <2>4 DEF Db!FindCatchAll, Db!Settle
    <3>2. u \in Stored
      BY <2>1 DEF Stored, Db!Signature
    <3>3. ~rebuilt /\ ~u.moved => LookedUp(u)
      BY <2>1, <3>1 DEF LookedUp, Narrowest, Stored
    <3> QED
      BY <1>1, <2>4, <3>1, <3>2, <3>3 DEF Db!FindCatchAll
  <2>5. CASE Db!AskGate(c)
    <3>1. PICK u \in Stored :
            /\ use' = [use EXCEPT ![c] = u] /\ use[c].at = "ask" /\ u.moved = use[c].moved
            /\ u.input = use[c].input /\ u.exact = use[c].exact /\ u.any = use[c].any
            /\ u.at = "remember" \/ (u.at = "done" /\ u.by = "gate")
      <4>1. ASSUME NEW v \in Db!Verdict, use' = Db!Settle(c, "gate", v)
            PROVE  [use[c] EXCEPT !.at = "done", !.by = "gate", !.verdict = v] \in Stored
        BY <2>1 DEF Stored
      <4>2. [use[c] EXCEPT !.at = "remember"] \in Stored
        BY <2>1 DEF Stored
      <4>3. gate # "card" => gate \in Db!Verdict
        BY DEF DbInv, DbTypes, Db!Verdict
      <4>4. use[c].at = "ask"
        BY <2>5 DEF Db!AskGate
      <4>5. CASE \E v \in Db!Verdict : use' = Db!Settle(c, "gate", v)
        <5>1. PICK v \in Db!Verdict : use' = Db!Settle(c, "gate", v)
          BY <4>5
        <5> DEFINE u == [use[c] EXCEPT !.at = "done", !.by = "gate", !.verdict = v]
        <5>2. u \in Stored
          BY <4>1, <5>1
        <5>3. use' = [use EXCEPT ![c] = u]
          BY <2>1, <5>1 DEF Db!Settle
        <5>4. /\ u.moved = use[c].moved /\ u.input = use[c].input /\ u.exact = use[c].exact
              /\ u.any = use[c].any /\ u.at = "done" /\ u.by = "gate"
          BY <2>1 DEF Stored
        <5> QED
          BY <4>4, <5>2, <5>3, <5>4
      <4>6. CASE use' = [use EXCEPT ![c].at = "remember"]
        <5>1. WITNESS [use[c] EXCEPT !.at = "remember"] \in Stored
        <5> QED
          BY <2>1, <4>2, <4>4, <4>6 DEF Stored
      <4> QED
        BY <2>5, <4>3, <4>5, <4>6 DEF Db!AskGate
    <3>2. ~rebuilt /\ ~u.moved => LookedUp(u)
      BY <2>1, <3>1 DEF LookedUp, Narrowest
    <3> QED
      BY <1>1, <2>5, <3>1, <3>2 DEF Db!AskGate
  <2>6. CASE Db!Remember(c)
    <3> DEFINE u == [use[c] EXCEPT !.at = "done", !.by = "gate", !.verdict = "allow"]
               w == [use EXCEPT ![c] = u]
    <3>1. use[c].at = "remember" /\ Db!Settle(c, "gate", "allow") = w
      BY <2>1, <2>6 DEF Db!Remember, Db!Settle
    <3>2. u \in Stored /\ w \in [Use -> Stored]
      BY <2>1 DEF Stored, Db!Verdict
    <3>3. ~rebuilt /\ ~u.moved => LookedUp(u)
      BY <2>1, <3>1 DEF LookedUp, Narrowest, Stored
    <3>4. ~rebuilt => \A d \in Use : ~w[d].moved => LookedUp(w[d])
      BY <2>1, <3>3 DEF DbInv, CallsLookUp
    <3>5. use[c].input \in Db!Signature /\ "allow" \in Db!Verdict
      BY <2>1 DEF Stored, Db!Verdict
    <3> HIDE DEF w
    <3> QED
      BY <1>2, <2>6, <3>1, <3>2, <3>4, <3>5 DEF Db!Remember
  <2>7. CASE Db!RememberFails(c)
    <3> DEFINE u == [use[c] EXCEPT !.at = "done", !.by = "gate", !.verdict = "allow"]
    <3>1. use' = [use EXCEPT ![c] = u] /\ use[c].at = "remember"
      BY <2>1, <2>7 DEF Db!RememberFails, Db!Settle
    <3>2. u \in Stored
      BY <2>1 DEF Stored, Db!Verdict
    <3>3. ~rebuilt /\ ~u.moved => LookedUp(u)
      BY <2>1, <3>1 DEF LookedUp, Narrowest, Stored
    <3> QED
      BY <1>1, <2>7, <3>1, <3>2, <3>3 DEF Db!RememberFails
  <2> QED
    BY <2>2, <2>3, <2>4, <2>5, <2>6, <2>7 DEF Db!GateCheck
<1>4. ASSUME NEW s \in Db!Signature, Db!Forget(s) PROVE DbInv'
  BY <1>2, <1>4 DEF Db!Forget, DbInv, DbTypes, CallsLookUp, Db!NoData, Db!NoOpenStep
<1> QED
  BY <1>3, <1>4

LEMMA DbStep == ASSUME DbInv, [Next]_vars, part = "database" PROVE DbInv'
<1>1. CASE Db!Next
  BY <1>1, UpgradeKeepsDb, ClosingKeepsDb, CallsKeepDb DEF Db!Next
<1>2. CASE UNCHANGED dbState
  BY <1>2 DEF dbState, DbInv, DbTypes, DoneBefore, MarkerIsTrue, OldRulesAreBroad, CallsLookUp,
              LookedUp, Narrowest
<1>3. Db!Next \/ UNCHANGED dbState
  BY DEF Next, vars, serverState
<1> QED
  BY <1>1, <1>2, <1>3

(* A program that has opened the database has all columns and finds every  *)
(* message, whatever other programs upgraded meanwhile and wherever they   *)
(* were killed; upgrades leave the rules as they were given, and the       *)
(* narrowest one decides a call, unless two programs rebuilt the old table *)
(* or the call's rules changed while it looked.  For any number of         *)
(* programs, messages, inputs, calls and kills.                            *)
THEOREM DatabaseIsKept == Spec => []StoredIsKept
<1>1. Init => (part = "database" => DbInv)
  BY DbBegins DEF Init
<1>2. (part = "database" => DbInv) /\ [Next]_vars => (part = "database" => DbInv)'
  BY PartStays, DbStep
<1>3. (part = "database" => DbInv) => StoredIsKept
  <2> SUFFICES ASSUME DbInv PROVE Db!OpenIsUpgraded /\ Db!RulesAreKept
    BY DEF StoredIsKept
  <2>1. Db!OpenIsUpgraded
    BY DEF Db!OpenIsUpgraded, DbInv, DoneBefore, MarkerIsTrue, Db!Table
  <2>2. Db!RulesAreKept
    BY DEF Db!RulesAreKept, DbInv, OldRulesAreBroad, CallsLookUp, LookedUp, Narrowest
  <2> QED
    BY <2>1, <2>2
<1> QED
  BY <1>1, <1>2, <1>3, PTL DEF Spec

-----------------------------------------------------------------------------
(* Scheduler: a tick works on a copy of the due rows.                      *)

SchedTypes ==
  /\ row \in [Tasks -> {"absent", "enabled", "disabled", "deleted"}]
  /\ interval \in [Tasks -> Nat] /\ nextFire \in [Tasks -> Nat]
  /\ fires \in [Tasks -> Nat] /\ lateFires \in [Tasks -> Nat] /\ resumed \in [Tasks -> Nat]
  /\ now \in Nat /\ tickNow \in Nat /\ stops \in Nat
  /\ tick \in {"asleep", "firing", "advancing"} /\ batch \subseteq Tasks

(* The row in hand, and the rows still to come, were due at the tick's     *)
(* now, and their next_fire_at has not moved since.                        *)
CopyIsDue ==
  /\ tick = "asleep" => batch = {}
  /\ \A t \in batch : row[t] # "absent" /\ nextFire[t] <= tickNow
  /\ tick = "advancing" => /\ current \in Tasks \ batch
                           /\ row[current] # "absent" /\ nextFire[current] <= tickNow

(* A task that may be fired next has a fire to spare: only the row in      *)
(* hand, and one that is switched off, may have used all of them.          *)
FireToSpare ==
  \A t \in Tasks :
    /\ fires[t] <= 1 + stops + resumed[t]
    /\ t \in batch => fires[t] <= stops + resumed[t]
    /\ \/ fires[t] <= stops + resumed[t]
       \/ row[t] \in {"disabled", "deleted"}
       \/ tick = "advancing" /\ t = current

(* A task that was switched off and is still in the copy has not fired     *)
(* since.                                                                  *)
LateFireToCome ==
  \A t \in Tasks : lateFires[t] <= 1 /\ (t \in batch /\ row[t] # "enabled" => lateFires[t] = 0)

SchedInv == SchedTypes /\ CopyIsDue /\ FireToSpare /\ LateFireToCome

(* The walk of advance_next_fire ends on the first slot after now, or one  *)
(* interval after now.                                                     *)
LEMMA Quotient ==
  ASSUME NEW d \in Nat, NEW i \in Nat \ {0}
  PROVE  /\ d \div i \in Nat
         /\ (d \div i) * i <= d /\ d < (d \div i) * i + i
  OBVIOUS

LEMMA WalkEnds ==
  ASSUME NEW first \in Nat, NEW i \in Nat \ {0}, NEW at \in Nat, first <= at
  PROVE  LET next == Sched!Advance(first, i, at) IN
         /\ next \in Nat /\ at < next /\ next <= at + i
         /\ (next - first) % i = 0 \/ at - first >= MAX_HOPS * i
<1> DEFINE q    == (at - first) \div i
           hops == q + 1
<1>1. q \in Nat /\ q * i <= at - first /\ at - first < q * i + i
  BY Quotient
<1>2. hops * i = q * i + i /\ hops * i \in Nat
  BY <1>1
<1>3. CASE hops <= MAX_HOPS
  <2>1. Sched!Advance(first, i, at) = first + hops * i
    BY <1>3 DEF Sched!Advance
  <2>2. (hops * i) % i = 0
    BY <1>1
  <2>3. (first + hops * i) - first = hops * i
    BY <1>2
  <2> HIDE DEF hops, q
  <2> QED
    BY <1>1, <1>2, <2>1, <2>2, <2>3
<1>4. CASE ~(hops <= MAX_HOPS)
  <2>1. Sched!Advance(first, i, at) = at + i
    BY <1>4 DEF Sched!Advance
  <2>2. MAX_HOPS <= q
    BY <1>1, <1>4, PartsAssumption
  <2>3. MAX_HOPS * i <= q * i
    BY <1>1, <2>2, PartsAssumption
  <2>4. MAX_HOPS * i \in Nat /\ q * i \in Nat
    BY <1>1, PartsAssumption
  <2> HIDE DEF hops, q
  <2> QED
    BY <1>1, <2>1, <2>3, <2>4
<1> QED
  BY <1>3, <1>4

LEMMA SchedBegins == Sched!Init => SchedInv
  BY DEF Sched!Init, SchedInv, SchedTypes, CopyIsDue, FireToSpare, LateFireToCome

(* What operators do between two awaits of the tick, and the clock.        *)
LEMMA OperatorsKeepFires ==
  ASSUME SchedInv,
         \/ \E t \in Tasks : Sched!Pause(t) \/ Sched!Resume(t) \/ Sched!Delete(t)
         \/ \E t \in Tasks, i \in Intervals, at \in 0 .. MaxTime : Sched!Create(t, i, at)
         \/ Sched!TimePasses
  PROVE  /\ SchedInv'
         /\ \A t \in Tasks : row[t] # "absent" => nextFire'[t] = nextFire[t]
<1> USE PartsAssumption
    DEF SchedInv, Sched!Pause, Sched!Resume, Sched!Delete, Sched!Create, Sched!TimePasses,
        Sched!tasks, Sched!ticking, Sched!counts
<1>1. SchedTypes'
  BY DEF SchedTypes
<1>2. CopyIsDue'
  BY DEF SchedTypes, CopyIsDue
<1>3. FireToSpare'
  BY DEF SchedTypes, CopyIsDue, FireToSpare
<1>4. LateFireToCome'
  BY DEF SchedTypes, CopyIsDue, LateFireToCome
<1>5. \A t \in Tasks : row[t] # "absent" => nextFire'[t] = nextFire[t]
  BY DEF SchedTypes
<1> QED
  BY <1>1, <1>2, <1>3, <1>4, <1>5

(* The tick reads the due rows, fires one, or dies.                        *)
LEMMA TickKeepsFires ==
  ASSUME SchedInv, Sched!Tick \/ Sched!Fire \/ Sched!Crash
  PROVE  SchedInv' /\ UNCHANGED nextFire
<1> USE DEF SchedInv, Sched!Sleep, Sched!tasks, Sched!ticking, Sched!counts
<1>1. CASE Sched!Tick
  <2>1. PICK B \in SUBSET Sched!Due(now) : batch' = B
    BY <1>1 DEF Sched!Tick
  <2>2. \A t \in B : t \in Tasks /\ row[t] = "enabled" /\ nextFire[t] <= now
    BY DEF Sched!Due, Sched!IsDue
  <2>3. /\ tick = "asleep" /\ tick' = "firing" /\ tickNow' = now /\ batch' = B
        /\ UNCHANGED <<now, row, interval, nextFire, current, fires, lateFires, resumed, stops>>
    BY <1>1, <2>1 DEF Sched!Tick
  <2> QED
    BY <2>2, <2>3 DEF SchedTypes, CopyIsDue, FireToSpare, LateFireToCome
<1>2. CASE Sched!Fire
  <2>1. PICK t \in batch :
          /\ tick = "firing" /\ tick' = "advancing" /\ current' = t /\ batch' = batch \ {t}
          /\ fires' = [fires EXCEPT ![t] = @ + 1]
          /\ lateFires' = IF row[t] = "enabled" THEN lateFires
                         ELSE [lateFires EXCEPT ![t] = @ + 1]
          /\ UNCHANGED <<now, row, interval, nextFire, tickNow, resumed, stops>>
    BY <1>2 DEF Sched!Fire
  <2>2. SchedTypes'
    BY <2>1 DEF SchedTypes
  <2>3. CopyIsDue'
    BY <2>1 DEF SchedTypes, CopyIsDue
  <2>4. FireToSpare'
    BY <2>1 DEF SchedTypes, FireToSpare
  <2>5. LateFireToCome'
    BY <2>1 DEF SchedTypes, LateFireToCome
  <2> QED
    BY <2>1, <2>2, <2>3, <2>4, <2>5
<1>3. CASE Sched!Crash
  <2>1. /\ tick' = "asleep" /\ tickNow' = 0 /\ batch' = {} /\ stops' = stops + 1
        /\ UNCHANGED <<now, row, interval, nextFire, fires, lateFires, resumed>>
    BY <1>3 DEF Sched!Crash
  <2> QED
    BY <2>1 DEF SchedTypes, CopyIsDue, FireToSpare, LateFireToCome
<1> QED
  BY <1>1, <1>2, <1>3

(* reschedule_task, when the fire was made.                                *)
LEMMA RescheduleKeepsFires ==
  ASSUME SchedInv, Sched!Reschedule
  PROVE  /\ SchedInv'
         /\ \A t \in Tasks : nextFire'[t] # nextFire[t] =>
              /\ interval[t] # 0 /\ nextFire[t] <= tickNow
              /\ nextFire'[t] = Sched!Advance(nextFire[t], interval[t], tickNow)
<1> USE DEF SchedInv, Sched!Reschedule, Sched!Sleep, Sched!Update
<1>1. current \in Tasks \ batch /\ row[current] # "absent" /\ nextFire[current] <= tickNow
  BY DEF CopyIsDue
<1>2. interval[current] > 0 =>
        Sched!Advance(nextFire[current], interval[current], tickNow) \in Nat
  BY <1>1, WalkEnds DEF SchedTypes
<1>3. SchedTypes'
  BY <1>1, <1>2 DEF SchedTypes
<1>4. CopyIsDue'
  BY <1>1 DEF SchedTypes, CopyIsDue
<1>5. FireToSpare'
  BY <1>1 DEF SchedTypes, FireToSpare
<1>6. LateFireToCome'
  BY <1>1 DEF SchedTypes, LateFireToCome
<1>7. ASSUME NEW t \in Tasks, nextFire'[t] # nextFire[t]
      PROVE  /\ interval[t] # 0 /\ nextFire[t] <= tickNow
             /\ nextFire'[t] = Sched!Advance(nextFire[t], interval[t], tickNow)
  BY <1>1, <1>7 DEF SchedTypes
<1> QED
  BY <1>3, <1>4, <1>5, <1>6, <1>7

(* Where a recurring task moves to.                                        *)
NextSlot(t) ==
  /\ nextFire[t] <= tickNow /\ tickNow < nextFire'[t]
  /\ nextFire'[t] <= tickNow + interval[t]
  /\ \/ (nextFire'[t] - nextFire[t]) % interval[t] = 0
     \/ tickNow - nextFire[t] >= MAX_HOPS * interval[t]

LEMMA SchedStep ==
  ASSUME SchedInv, [Next]_vars, part = "scheduler"
  PROVE  /\ SchedInv'
         /\ \A t \in Tasks : row[t] # "absent" /\ nextFire'[t] # nextFire[t] => NextSlot(t)
<1>1. CASE Sched!Reschedule
  <2>1. ASSUME NEW t \in Tasks, nextFire'[t] # nextFire[t] PROVE NextSlot(t)
    <3>1. /\ nextFire[t] \in Nat /\ interval[t] \in Nat \ {0} /\ tickNow \in Nat
          /\ nextFire[t] <= tickNow
          /\ nextFire'[t] = Sched!Advance(nextFire[t], interval[t], tickNow)
      BY <1>1, <2>1, RescheduleKeepsFires DEF SchedInv, SchedTypes
    <3> QED
      BY <3>1, WalkEnds DEF NextSlot
  <2> QED
    BY <1>1, <2>1, RescheduleKeepsFires
<1>2. CASE UNCHANGED schedulerState
  BY <1>2 DEF schedulerState, SchedInv, SchedTypes, CopyIsDue, FireToSpare, LateFireToCome
<1>3. Sched!Next \/ UNCHANGED schedulerState
  BY DEF Next, vars, serverState
<1> QED
  BY <1>1, <1>2, <1>3, OperatorsKeepFires, TickKeepsFires DEF Sched!Next, Sched!SchedulerStep

(* The scheduler fires a slot once, again only after a crash, a failed     *)
(* statement or an operator's resume; a task that was switched off fires   *)
(* at most once more; and a task moves to its first slot after the tick's  *)
(* now and keeps its phase, unless it is MAX_HOPS slots behind.  For any   *)
(* number of tasks, intervals, stops and edits.                            *)
THEOREM FiresOncePerSlot == Spec => FiresAreDue
<1> DEFINE Inv == part = "scheduler" => SchedInv
<1>1. Init => Inv
  BY SchedBegins DEF Init
<1>2. Inv /\ [Next]_vars => Inv'
  BY PartStays, SchedStep
<1>3. Inv /\ [Next]_vars =>
        [\A t \in Tasks : row[t] # "absent" /\ nextFire'[t] # nextFire[t] =>
           /\ nextFire[t] <= tickNow /\ tickNow < nextFire'[t]
           /\ nextFire'[t] <= tickNow + interval[t]
           /\ \/ (nextFire'[t] - nextFire[t]) % interval[t] = 0
              \/ tickNow - nextFire[t] >= MAX_HOPS * interval[t]]_Sched!schedVars
  <2>1. [Next]_vars /\ part # "scheduler" => UNCHANGED nextFire
    BY DEF Next, vars, serverState, schedulerState, OnlyThread, OnlyBatch, OnlyMemory, OnlyPool,
           OnlyText, OnlyCards, OnlyLark, OnlyReply, OnlyFiles, OnlyDb, OnlyFence, OnlyTurn,
           OnlyPlugin, OnlyServer
  <2> QED
    BY <2>1, SchedStep DEF NextSlot
<1>4. Inv => (part = "scheduler" => Sched!OncePerSlot /\ Sched!OffFiresOnceMore)
  BY DEF SchedInv, FireToSpare, LateFireToCome, Sched!OncePerSlot, Sched!OffFiresOnceMore
<1> QED
  BY <1>1, <1>2, <1>3, <1>4, PTL DEF Spec, FiresAreDue, Sched!SlotsAdvance

-----------------------------------------------------------------------------
(* McpPool: connections are made for a key, and leave the pool by key.     *)

CallOfTurn == [at : {"idle", "lookup", "connecting", "clearing", "inserting", "using"},
               key : Key \cup {None}, asked : Nat, client : Pool!Client \cup {None}]

PoolTypes ==
  /\ clock \in Nat /\ lastUsed \in [Key -> Nat]
  /\ clients \in [Key -> Pool!Client \cup {None}]
  /\ owner \in [Pool!Client -> Key \cup {None}]
  /\ poolTurn \in [PoolTurn -> CallOfTurn]
  /\ dead \subseteq Pool!Client

(* A connection in the pool, in a turn's hands or in the reaper's snapshot *)
(* is for the key under which it is found.                                 *)
OwnersMatch ==
  /\ \A k \in Key : clients[k] # None => owner[clients[k]] = k
  /\ \A t \in PoolTurn :
       /\ poolTurn[t].at # "idle" => poolTurn[t].key \in Key
       /\ poolTurn[t].at \in {"clearing", "inserting"} =>
            poolTurn[t].client \in Pool!Client /\ owner[poolTurn[t].client] = poolTurn[t].key
  /\ snapshot \subseteq {p \in Key \X Pool!Client : owner[p[2]] = p[1]}

(* A key is marked by the reaper for a dead connection of its own; a turn  *)
(* asked no later than now.                                                *)
MarkedForCause ==
  /\ \A k \in failed : k \in Key /\ \E c \in dead : owner[c] = k
  /\ \A t \in PoolTurn : poolTurn[t].asked <= clock

PoolInv == PoolTypes /\ OwnersMatch /\ MarkedForCause

(* What an eviction of key k needs.                                        *)
Cause(k) ==
  \/ clock >= lastUsed[k] + IDLE_TTL
  \/ clients[k] \in dead
  \/ k \in failed /\ \E c \in dead : owner[c] = k

LEMMA NoneIsNoClient == None \notin Pool!Client /\ None \notin Key
  BY PartsAssumption DEF Pool!Client

LEMMA PoolBegins == Pool!Init => PoolInv
  BY NoneIsNoClient
  DEF Pool!Init, PoolInv, PoolTypes, OwnersMatch, MarkedForCause, Pool!NoTurn, CallOfTurn

(* client_for, lock section by lock section.                               *)
LEMMA TurnsKeepPool ==
  ASSUME PoolInv, NEW t \in PoolTurn,
         \/ \E k \in Key : Pool!Asks(t, k)
         \/ Pool!LooksUp(t) \/ Pool!Connects(t) \/ Pool!ConnectFails(t) \/ Pool!ClearsBackoff(t)
         \/ Pool!Inserts(t) \/ Pool!TurnEnds(t)
  PROVE  /\ PoolInv'
         /\ \A k \in Key : clients[k] # None /\ clients'[k] # clients[k] => Cause(k)
<1> USE NoneIsNoClient DEF PoolInv, Pool!At, Pool!GoTo, Pool!Key_, Pool!pool, Pool!reap
<1>1. CASE \E k \in Key : Pool!Asks(t, k)
  <2>1. PICK k \in Key : Pool!Asks(t, k)
    BY <1>1
  <2> DEFINE u == [at |-> "lookup", key |-> k, asked |-> clock, client |-> None]
  <2>2. u \in CallOfTurn
    BY DEF CallOfTurn, PoolTypes
  <2>3. poolTurn' = poolTurn \/ poolTurn' = [poolTurn EXCEPT ![t] = u]
    BY <2>1 DEF Pool!Asks
  <2>4. UNCHANGED <<clock, clients, lastUsed, owner, dead, reaper, snapshot, failed>>
    BY <2>1 DEF Pool!Asks
  <2> QED
    BY <2>2, <2>3, <2>4 DEF PoolTypes, OwnersMatch, MarkedForCause
<1>2. CASE Pool!LooksUp(t)
  <2> USE DEF Pool!LooksUp, Pool!Evict, Pool!Idle, Pool!Cached
  <2>1. poolTurn[t] \in CallOfTurn /\ poolTurn[t].key \in Key
    BY <1>2 DEF PoolTypes, OwnersMatch
  <2>2. PoolTypes'
    BY <1>2, <2>1 DEF PoolTypes, CallOfTurn
  <2>3. OwnersMatch'
    BY <1>2, <2>1 DEF PoolTypes, CallOfTurn, OwnersMatch
  <2>4. MarkedForCause'
    BY <1>2, <2>1 DEF PoolTypes, CallOfTurn, MarkedForCause
  <2>5. ASSUME NEW k \in Key, clients[k] # None, clients'[k] # clients[k] PROVE Cause(k)
    <3>1. poolTurn[t].asked >= lastUsed[k] + IDLE_TTL
      BY <1>2, <2>5
    <3>2. poolTurn[t].asked <= clock /\ poolTurn[t].asked \in Nat /\ lastUsed[k] \in Nat
      BY <2>1 DEF MarkedForCause, PoolTypes, CallOfTurn
    <3> QED
      BY <3>1, <3>2, PartsAssumption DEF Cause, PoolTypes
  <2> QED
    BY <2>2, <2>3, <2>4, <2>5
<1>3. CASE Pool!Connects(t)
  <2>1. PICK c \in Pool!Client :
          /\ owner[c] = None /\ owner' = [owner EXCEPT ![c] = poolTurn[t].key]
          /\ poolTurn' = [poolTurn EXCEPT ![t].at = "clearing", ![t].client = c]
    BY <1>3 DEF Pool!Connects
  <2>2. UNCHANGED <<clock, clients, lastUsed, dead, reaper, snapshot, failed>>
    BY <1>3 DEF Pool!Connects
  <2>3. poolTurn[t] \in CallOfTurn /\ poolTurn[t].key \in Key
    BY <1>3 DEF PoolTypes, OwnersMatch, Pool!Connects
  <2>4. PoolTypes'
    BY <2>1, <2>2, <2>3 DEF PoolTypes, CallOfTurn
  <2>5. OwnersMatch'
    BY <2>1, <2>2, <2>3 DEF PoolTypes, CallOfTurn, OwnersMatch
  <2>6. MarkedForCause'
    BY <2>1, <2>2, <2>3 DEF PoolTypes, CallOfTurn, MarkedForCause
  <2> QED
    BY <2>2, <2>4, <2>5, <2>6
<1>4. CASE Pool!Inserts(t)
  <2> USE DEF Pool!Inserts
  <2>1. /\ poolTurn[t] \in CallOfTurn /\ poolTurn[t].key \in Key
        /\ poolTurn[t].client \in Pool!Client
        /\ owner[poolTurn[t].client] = poolTurn[t].key
    BY <1>4 DEF PoolTypes, OwnersMatch
  <2>2. PoolTypes'
    BY <1>4, <2>1 DEF PoolTypes, CallOfTurn
  <2>3. OwnersMatch'
    BY <1>4, <2>1 DEF PoolTypes, CallOfTurn, OwnersMatch
  <2>4. MarkedForCause'
    BY <1>4, <2>1 DEF PoolTypes, CallOfTurn, MarkedForCause
  <2>5. \A k \in Key : clients[k] # None => clients'[k] = clients[k]
    BY <1>4, <2>1 DEF PoolTypes
  <2> QED
    BY <2>2, <2>3, <2>4, <2>5
<1>5. CASE Pool!ConnectFails(t) \/ Pool!ClearsBackoff(t) \/ Pool!TurnEnds(t)
  <2> USE DEF Pool!ConnectFails, Pool!ClearsBackoff, Pool!TurnEnds
  <2>1. /\ UNCHANGED <<clock, clients, lastUsed, owner, dead, reaper, snapshot, failed>>
        /\ \/ poolTurn' = [poolTurn EXCEPT ![t] = Pool!NoTurn]
           \/ poolTurn[t].at = "clearing" /\ poolTurn' = [poolTurn EXCEPT ![t].at = "inserting"]
    BY <1>5
  <2>2. poolTurn[t] \in CallOfTurn /\ Pool!NoTurn \in CallOfTurn
    BY DEF PoolTypes, CallOfTurn, Pool!NoTurn
  <2>3. PoolTypes'
    BY <2>1, <2>2 DEF PoolTypes, CallOfTurn
  <2>4. OwnersMatch'
    BY <2>1, <2>2 DEF PoolTypes, CallOfTurn, OwnersMatch, Pool!NoTurn
  <2>5. MarkedForCause'
    BY <2>1, <2>2 DEF PoolTypes, CallOfTurn, MarkedForCause, Pool!NoTurn
  <2> QED
    BY <2>1, <2>3, <2>4, <2>5
<1> QED
  BY <1>1, <1>2, <1>3, <1>4, <1>5

(* The reaper sweeps, probes and evicts; a server dies; time passes.       *)
LEMMA ReaperKeepsPool ==
  ASSUME PoolInv, Pool!ReaperStep \/ Pool!Tick \/ \E c \in Pool!Client : Pool!ServerDies(c)
  PROVE  /\ PoolInv'
         /\ \A k \in Key : clients[k] # None /\ clients'[k] # clients[k] => Cause(k)
<1> USE NoneIsNoClient DEF PoolInv, Pool!pool, Pool!reap, Pool!Evict
<1>1. CASE Pool!Sweeps
  <2> USE DEF Pool!Sweeps, Pool!Idle, Pool!Cached
  <2>1. PoolTypes'
    BY <1>1 DEF PoolTypes
  <2>2. OwnersMatch'
    BY <1>1 DEF PoolTypes, OwnersMatch
  <2>3. MarkedForCause'
    BY <1>1 DEF PoolTypes, MarkedForCause
  <2>4. \A k \in Key : clients[k] # None /\ clients'[k] # clients[k] => Cause(k)
    BY <1>1 DEF Cause
  <2> QED
    BY <2>1, <2>2, <2>3, <2>4
<1>2. CASE \E k \in Key, c \in Pool!Client : Pool!Probes(k, c)
  BY <1>2 DEF Pool!Probes, PoolTypes, OwnersMatch, MarkedForCause
<1>3. CASE Pool!EvictsDead
  <2> USE DEF Pool!EvictsDead
  <2>1. PoolTypes' /\ OwnersMatch' /\ MarkedForCause'
    BY <1>3 DEF PoolTypes, OwnersMatch, MarkedForCause
  <2>2. \A k \in Key : clients[k] # None /\ clients'[k] # clients[k] => Cause(k)
    BY <1>3 DEF Cause, MarkedForCause
  <2> QED
    BY <2>1, <2>2
<1>4. CASE Pool!Tick \/ \E c \in Pool!Client : Pool!ServerDies(c)
  <2> USE DEF Pool!Tick, Pool!ServerDies
  <2>1. PoolTypes'
    BY <1>4 DEF PoolTypes
  <2>2. OwnersMatch' /\ UNCHANGED clients
    BY <1>4 DEF OwnersMatch
  <2>3. MarkedForCause'
    BY <1>4 DEF PoolTypes, CallOfTurn, MarkedForCause
  <2> QED
    BY <2>1, <2>2, <2>3
<1> QED
  BY <1>1, <1>2, <1>3, <1>4 DEF Pool!ReaperStep

LEMMA PoolStep ==
  ASSUME PoolInv, [Next]_vars, part = "pool"
  PROVE  /\ PoolInv'
         /\ \A k \in Key : clients[k] # None /\ clients'[k] # clients[k] => Cause(k)
<1>1. CASE UNCHANGED poolState
  BY <1>1 DEF poolState, PoolInv, PoolTypes, OwnersMatch, MarkedForCause
<1>2. Pool!Next \/ UNCHANGED poolState
  BY DEF Next, vars, turnState
<1> QED
  BY <1>1, <1>2, TurnsKeepPool, ReaperKeepsPool DEF Pool!Next

(* A connection leaves the pool only when it was idle for IDLE_TTL, or     *)
(* dead, or its key had a dead connection as the reaper looked: the map is *)
(* changed by key after awaits, yet never for a key that gave no cause.    *)
(* For any number of keys, turns, connections and deaths.                  *)
THEOREM EvictionsHaveCause == Spec => EvictedForCause
<1> DEFINE Inv == part = "pool" => PoolInv
<1>1. Init => Inv
  BY PoolBegins DEF Init
<1>2. Inv /\ [Next]_vars => Inv'
  BY PartStays, PoolStep
<1>3. Inv /\ [Next]_vars =>
        [\A k \in Key :
           clients[k] # None /\ clients'[k] # clients[k] =>
             \/ clock >= lastUsed[k] + IDLE_TTL
             \/ clients[k] \in dead
             \/ k \in failed /\ \E c \in dead : owner[c] = k]_Pool!vars
  <2>1. [Next]_vars /\ part # "pool" => UNCHANGED clients
    BY DEF Next, vars, turnState, poolState, OnlyThread, OnlyBatch, OnlyMemory, OnlySched,
           OnlyText, OnlyCards, OnlyLark, OnlyReply, OnlyFiles, OnlyDb, OnlyFence, OnlyTurn,
           OnlyPlugin, OnlyServer
  <2> QED
    BY <2>1, PoolStep DEF Cause
<1> QED
  BY <1>1, <1>2, <1>3, PTL DEF Spec, EvictedForCause, Pool!EvictedForCause

-----------------------------------------------------------------------------
(* LarkInbound: the dedup and the expiry of messages share one clock.      *)

Remembered(m) == \E i \in 1..Len(order) : order[i] = m
Elderly(m) == age[m] # None /\ age[m] > EXPIRY

(* A message that the pump has taken: it is in the dedup, has expired, or  *)
(* is of those the dedup makes no promise about.                           *)
Handled(m) == m \in Undated \cup evicted \/ Elderly(m) \/ Remembered(m)

LarkTypes ==
  /\ age \in [Message -> Nat \cup {None}] /\ forwarded \in [Message -> 0..2]
  /\ delivered \subseteq Message /\ recalled \subseteq delivered
  /\ \A m \in delivered : age[m] # None
  /\ pump \in delivered \cup {None} /\ order \in Seq(delivered)
  /\ queue \in Seq([type : {"message", "recall", "other"}, msg : Message \cup {None}])
  /\ \A i \in 1..Len(queue) : queue[i].type # "other" => queue[i].msg \in delivered
  /\ \A i \in 1..Len(order) : order[i] \in DOMAIN dedup /\ dedup[order[i]] \in Nat

(* An entry of the dedup is no older than its message, which an entry      *)
(* recorded on a replay is younger than.                                   *)
EntryIsYounger ==
  \A i \in 1..Len(order) : dedup[order[i]] <= age[order[i]] \/ Elderly(order[i])

(* Lark sends a message before its recall, and the channel keeps that.     *)
MessageComesFirst ==
  /\ \A m \in delivered :
       Handled(m) \/ \E i \in 1..Len(queue) : queue[i] = [type |-> "message", msg |-> m]
  /\ \A m \in delivered : \A i \in 1..Len(queue) :
       queue[i].type = "recall" /\ queue[i].msg = m =>
         Handled(m) \/ \E j \in 1..(i - 1) : queue[j] = [type |-> "message", msg |-> m]

(* What the host has seen of a message, or is about to, was recorded, and  *)
(* the pump holds only what the host has seen nothing of.                  *)
SeenOnce ==
  /\ \A m \in Message : forwarded[m] > 0 \/ pump = m \/ m \in recalled => Handled(m)
  /\ \A m \in Message \ (Undated \cup evicted) :
       forwarded[m] <= 1 /\ (pump = m => forwarded[m] = 0 /\ m \notin recalled)

LarkInv == LarkTypes /\ EntryIsYounger /\ MessageComesFirst /\ SeenOnce

LEMMA LarkBegins == Lark!Init => LarkInv
  BY PartsAssumption
  DEF Lark!Init, LarkInv, LarkTypes, EntryIsYounger, MessageComesFirst, SeenOnce

LEMMA SmallestIsFound ==
  ASSUME NEW S \in SUBSET Nat, S # {}
  PROVE  \E i \in S : \A j \in S : i <= j
<1>1. PICK i \in S : \A j \in S : <<j, i>> \notin OpToRel(<, Nat)
  BY NatLessThanWellFounded, WFMin
<1>2. \A x, y \in Nat : x < y => <<x, y>> \in OpToRel(<, Nat)
  BY DEF OpToRel
<1>3. \A j \in S : ~(j < i)
  BY <1>1, <1>2
<1> QED
  BY <1>3

(* sweep_expired takes only stale entries from the front.                  *)
LEMMA SweptKeeps ==
  ASSUME LarkInv
  PROVE  /\ Lark!Swept \in Seq(delivered)
         /\ \A i \in 1..Len(Lark!Swept) : Remembered(Lark!Swept[i])
         /\ \A m : Remembered(m) => Elderly(m) \/ Lark!Duplicate(m)
<1> DEFINE keep == {i \in 1..Len(order) : ~Lark!Stale(order[i])}
           from == IF keep = {} THEN Len(order) + 1
                   ELSE CHOOSE i \in keep : \A j \in keep : i <= j
<1> order \in Seq(delivered) /\ Len(order) \in Nat
  BY DEF LarkInv, LarkTypes
<1>1. from \in 1..(Len(order) + 1) /\ \A j \in keep : from <= j
  <2>1. CASE keep # {}
    <3>1. keep \subseteq Nat
      OBVIOUS
    <3>2. \E i \in keep : \A j \in keep : i <= j
      BY <2>1, <3>1, SmallestIsFound
    <3>3. from = CHOOSE i \in keep : \A j \in keep : i <= j
      BY <2>1
    <3> HIDE DEF keep, from
    <3>4. from \in keep /\ \A j \in keep : from <= j
      BY <3>2, <3>3
    <3>5. from \in 1..Len(order)
      BY <3>4 DEF keep
    <3> QED
      BY <3>4, <3>5
  <2>2. CASE keep = {}
    <3>1. from = Len(order) + 1
      BY <2>2
    <3> QED
      BY <2>2, <3>1
  <2> QED
    BY <2>1, <2>2
<1>2. Lark!Swept = order \/ Lark!Swept = SubSeq(order, from, Len(order))
  BY DEF Lark!Swept
<1> HIDE DEF from
<1>3. \A j \in 1..(from - 1) : Elderly(order[j])
  <2> SUFFICES ASSUME NEW j \in 1..(from - 1) PROVE Elderly(order[j])
    OBVIOUS
  <2>1. j \in 1..Len(order) /\ j \notin keep
    BY <1>1
  <2>2. dedup[order[j]] > DEDUP_TTL /\ dedup[order[j]] \in Nat
    BY <2>1 DEF Lark!Stale, LarkInv, LarkTypes
  <2>3. age[order[j]] \in Nat
    BY <2>1, ElementOfSeq DEF LarkInv, LarkTypes
  <2>4. dedup[order[j]] <= age[order[j]] => age[order[j]] > EXPIRY
    BY <2>2, <2>3, PartsAssumption
  <2> QED
    BY <2>1, <2>3, <2>4, PartsAssumption DEF LarkInv, EntryIsYounger, Elderly
<1>4. CASE Lark!Swept = order
  BY <1>4 DEF Remembered, Lark!Duplicate
<1>5. CASE Lark!Swept = SubSeq(order, from, Len(order))
  <2>1. /\ Lark!Swept \in Seq(delivered)
        /\ Len(Lark!Swept) = Len(order) + 1 - from
        /\ \A i \in 1..Len(Lark!Swept) : Lark!Swept[i] = order[from + i - 1]
    BY <1>1, <1>5, SubSeqProperties
  <2>2. \A i \in 1..Len(Lark!Swept) : from + i - 1 \in 1..Len(order)
    BY <1>1, <2>1
  <2>3. \A j \in from..Len(order) :
          j - from + 1 \in 1..Len(Lark!Swept) /\ Lark!Swept[j - from + 1] = order[j]
    BY <1>1, <2>1
  <2>4. ASSUME NEW m, NEW j \in 1..Len(order), order[j] = m
        PROVE  Elderly(m) \/ Lark!Duplicate(m)
    <3>1. CASE j < from
      <4> j \in 1..(from - 1)
        BY <1>1, <3>1
      <4> QED
        BY <1>3, <2>4
    <3>2. CASE j >= from
      <4> j \in from..Len(order)
        BY <1>1, <3>2
      <4> QED
        BY <2>3, <2>4 DEF Lark!Duplicate
    <3> QED
      BY <1>1, <3>1, <3>2
  <2> QED
    BY <2>1, <2>2, <2>4 DEF Remembered
<1> QED
  BY <1>2, <1>4, <1>5

(* check_and_record: what it forgets has expired, or went to the cap.      *)
LEMMA RememberKeeps ==
  ASSUME LarkInv, NEW m \in delivered, Lark!Remember(m), UNCHANGED <<age, delivered>>
  PROVE  /\ order' \in Seq(delivered)
         /\ \A i \in 1..Len(order') :
              /\ order'[i] \in DOMAIN dedup' /\ dedup'[order'[i]] \in Nat
              /\ dedup'[order'[i]] <= age[order'[i]] \/ Elderly(order'[i])
         /\ evicted \subseteq evicted' /\ Remembered(m)'
         /\ \A x : Remembered(x) => Elderly(x) \/ x \in evicted' \/ Remembered(x)'
         /\ ~Lark!Duplicate(m) /\ Remembered(m) => Elderly(m)
<1> DEFINE full == Len(Lark!Swept) >= DEDUP_MAX_ENTRIES
           kept == IF full THEN Tail(Lark!Swept) ELSE Lark!Swept
           next == IF Lark!Duplicate(m) THEN Lark!Swept ELSE Append(kept, m)
<1>1. /\ Lark!Swept \in Seq(delivered) /\ Len(Lark!Swept) \in Nat
      /\ \A i \in 1..Len(Lark!Swept) : Remembered(Lark!Swept[i])
      /\ \A x : Remembered(x) => Elderly(x) \/ Lark!Duplicate(x)
  BY SweptKeeps
<1>2. /\ order' = next
      /\ dedup' = [x \in {next[i] : i \in 1..Len(next)} |->
                     IF x = m /\ ~Lark!Duplicate(m) THEN 0 ELSE dedup[x]]
      /\ evicted' = IF full /\ ~Lark!Duplicate(m) THEN evicted \cup {Head(Lark!Swept)} ELSE evicted
  BY DEF Lark!Remember
<1>3. /\ kept \in Seq(delivered) /\ Len(kept) \in Nat
      /\ \A i \in 1..Len(kept) : Remembered(kept[i])
      /\ \A x : Lark!Duplicate(x) /\ ~Lark!Duplicate(m) =>
           x \in evicted' \/ \E i \in 1..Len(kept) : kept[i] = x
  <2>1. CASE ~full
    BY <1>1, <2>1 DEF Lark!Duplicate
  <2>2. CASE full
    <3>1. Lark!Swept # <<>>
      BY <1>1, <2>2, PartsAssumption
    <3>2. /\ kept \in Seq(delivered) /\ Len(kept) = Len(Lark!Swept) - 1
          /\ \A i \in 1..Len(kept) : kept[i] = Lark!Swept[i + 1]
          /\ Head(Lark!Swept) = Lark!Swept[1]
      BY <1>1, <2>2, <3>1
    <3>3. \A i \in 1..Len(kept) : i + 1 \in 1..Len(Lark!Swept)
      BY <1>1, <3>2
    <3>4. ASSUME NEW i \in 1..Len(Lark!Swept), i # 1
          PROVE  i - 1 \in 1..Len(kept) /\ kept[i - 1] = Lark!Swept[i]
      BY <1>1, <3>2, <3>4
    <3>5. \A i \in 1..Len(kept) : Remembered(kept[i])
      BY <1>1, <3>2, <3>3
    <3>6. ASSUME NEW x, Lark!Duplicate(x), ~Lark!Duplicate(m)
          PROVE  x \in evicted' \/ \E i \in 1..Len(kept) : kept[i] = x
      <4>1. PICK i \in 1..Len(Lark!Swept) : Lark!Swept[i] = x
        BY <3>6 DEF Lark!Duplicate
      <4>2. CASE i = 1
        BY <1>2, <2>2, <3>2, <3>6, <4>1, <4>2
      <4>3. CASE i # 1
        BY <3>4, <4>1, <4>3
      <4> QED
        BY <4>2, <4>3
    <3>7. kept \in Seq(delivered) /\ Len(kept) \in Nat
      BY <3>2
    <3> QED
      BY <3>5, <3>6, <3>7
  <2> QED
    BY <2>1, <2>2
<1>4. /\ next \in Seq(delivered)
      /\ \A i \in 1..Len(next) : (next[i] = m /\ ~Lark!Duplicate(m)) \/ Remembered(next[i])
      /\ \E i \in 1..Len(next) : next[i] = m
      /\ \A x : Lark!Duplicate(x) => x \in evicted' \/ \E i \in 1..Len(next) : next[i] = x
  <2>1. CASE Lark!Duplicate(m)
    BY <1>1, <2>1 DEF Lark!Duplicate
  <2>2. CASE ~Lark!Duplicate(m)
    <3>1. /\ next \in Seq(delivered) /\ Len(next) = Len(kept) + 1
          /\ next[Len(kept) + 1] = m
          /\ \A i \in 1..Len(kept) : next[i] = kept[i]
      BY <1>3, <2>2
    <3> HIDE DEF next, kept
    <3> QED
      BY <1>3, <2>2, <3>1
  <2> QED
    BY <2>1, <2>2
<1>5. \A i \in 1..Len(next) : next[i] \in delivered
  BY <1>4, ElementOfSeq
<1>6. \A x \in delivered : age[x] \in Nat
  BY DEF LarkInv, LarkTypes
<1>7. \A x : Remembered(x) =>
         dedup[x] \in Nat /\ (dedup[x] <= age[x] \/ Elderly(x))
  BY DEF Remembered, LarkInv, LarkTypes, EntryIsYounger
<1> HIDE DEF next, kept, full
<1>8. \A i \in 1..Len(order') :
        /\ order'[i] \in DOMAIN dedup' /\ dedup'[order'[i]] \in Nat
        /\ dedup'[order'[i]] <= age[order'[i]] \/ Elderly(order'[i])
  BY <1>2, <1>4, <1>5, <1>6, <1>7
<1>9. Remembered(m)' /\ \A x : Remembered(x) => Elderly(x) \/ x \in evicted' \/ Remembered(x)'
  BY <1>1, <1>2, <1>4 DEF Remembered
<1> QED
  BY <1>1, <1>2, <1>4, <1>8, <1>9

(* The age of a message and the forgetting of the dedup leave it handled.  *)
LEMMA HandledStays ==
  ASSUME evicted \subseteq evicted',
         \A x \in Message : Elderly(x) => Elderly(x)',
         \A x : Remembered(x) => Elderly(x) \/ x \in evicted' \/ Remembered(x)'
  PROVE  \A x \in Message : Handled(x) => Handled(x)'
  BY DEF Handled

(* Ages stop one past the bound, so that an old message stays old and an   *)
(* entry does not overtake its message.                                    *)
LEMMA TimeKeepsLark == ASSUME LarkInv, Lark!Tick PROVE LarkInv'
<1> USE DEF Lark!Tick, Lark!output
<1>1. \A x \in Message :
        /\ age[x] = None => age'[x] = None
        /\ age[x] # None => age[x] \in Nat /\ age'[x] \in Nat
        /\ age[x] # None /\ age[x] <= EXPIRY => age'[x] = age[x] + 1
        /\ Elderly(x) => Elderly(x)'
  <2>1. None \notin Int /\ EXPIRY \in Nat
    BY PartsAssumption
  <2> SUFFICES ASSUME NEW x \in Message
               PROVE  /\ age[x] = None => age'[x] = None
                      /\ age[x] # None => age[x] \in Nat /\ age'[x] \in Nat
                      /\ age[x] # None /\ age[x] <= EXPIRY => age'[x] = age[x] + 1
                      /\ Elderly(x) => Elderly(x)'
    OBVIOUS
  <2>2. age[x] \in Nat \cup {None}
    BY DEF LarkInv, LarkTypes
  <2>3. age'[x] = IF age[x] = None THEN None
                  ELSE IF age[x] + 1 < EXPIRY + 1 THEN age[x] + 1 ELSE EXPIRY + 1
    BY DEF Lark!Older, Lark!Low
  <2> QED
    BY <2>1, <2>2, <2>3 DEF Elderly
<1>2. age' \in [Message -> Nat \cup {None}]
  BY <1>1 DEF LarkInv, LarkTypes
<1>3. ASSUME NEW i \in 1..Len(order)
      PROVE  /\ order[i] \in DOMAIN dedup' /\ dedup'[order[i]] \in Nat
             /\ dedup'[order[i]] <= dedup[order[i]] + 1
  <2>1. order[i] \in DOMAIN dedup /\ dedup[order[i]] \in Nat
    BY DEF LarkInv, LarkTypes
  <2>2. dedup' = [x \in DOMAIN dedup |-> Lark!Older(dedup[x], DEDUP_TTL)]
    OBVIOUS
  <2>3. \A d \in Nat : Lark!Older(d, DEDUP_TTL) \in Nat /\ Lark!Older(d, DEDUP_TTL) <= d + 1
    BY PartsAssumption, SMTT(60) DEF Lark!Older, Lark!Low
  <2> QED
    BY <2>1, <2>2, <2>3
<1>4. \A i \in 1..Len(order) : order[i] \in Message
  BY ElementOfSeq DEF LarkInv, LarkTypes
<1>5. LarkTypes'
  <2>1. \A m \in delivered : age'[m] # None
    BY <1>1, PartsAssumption DEF LarkInv, LarkTypes
  <2>2. \A i \in 1..Len(order') :
          order'[i] \in DOMAIN dedup' /\ dedup'[order'[i]] \in Nat
    BY <1>3
  <2> QED
    BY <1>2, <2>1, <2>2 DEF LarkInv, LarkTypes
<1>6. EntryIsYounger'
  <2> SUFFICES ASSUME NEW i \in 1..Len(order)
               PROVE  dedup'[order[i]] <= age'[order[i]] \/ Elderly(order[i])'
    BY DEF EntryIsYounger
  <2>1. age[order[i]] \in Nat /\ dedup[order[i]] \in Nat
    BY PartsAssumption, ElementOfSeq DEF LarkInv, LarkTypes
  <2>2. CASE Elderly(order[i])
    BY <1>1, <1>4, <2>2
  <2>3. CASE ~Elderly(order[i])
    <3>1. age[order[i]] # None /\ age[order[i]] <= EXPIRY /\ dedup[order[i]] <= age[order[i]]
      BY <2>1, <2>3, PartsAssumption DEF LarkInv, EntryIsYounger, Elderly
    <3> QED
      BY <1>1, <1>3, <1>4, <2>1, <3>1
  <2> QED
    BY <2>2, <2>3
<1>7. \A x \in Message : Handled(x) => Handled(x)'
  BY <1>1 DEF Handled, Remembered
<1>8. MessageComesFirst' /\ SeenOnce'
  BY <1>7 DEF LarkInv, LarkTypes, MessageComesFirst, SeenOnce
<1> QED
  BY <1>5, <1>6, <1>8 DEF LarkInv

(* The channel grows at its end.                                           *)
LEMMA DeliveriesKeepLark ==
  ASSUME LarkInv,
         \/ Lark!DeliverOther
         \/ \E m \in Message : Lark!DeliverMessage(m) \/ Lark!DeliverRecall(m)
  PROVE  LarkInv'
<1>1. PICK e \in [type : {"message", "recall", "other"}, msg : Message \cup {None}] :
        /\ queue' = Append(queue, e)
        /\ UNCHANGED <<pump, dedup, order, evicted, forwarded, recalled>>
        /\ \/ e.type # "message" /\ UNCHANGED <<age, delivered>>
           \/ /\ e.type = "message" /\ e.msg \in Message /\ delivered' = delivered \cup {e.msg}
              /\ age' = IF age[e.msg] = None THEN [age EXCEPT ![e.msg] = 0] ELSE age
        /\ e.type = "recall" => e.msg \in delivered
  <2>1. CASE Lark!DeliverOther
    BY <2>1 DEF Lark!DeliverOther, Lark!Push, Lark!dedup, Lark!output
  <2>2. CASE \E m \in Message : Lark!DeliverMessage(m)
    <3>1. PICK m \in Message : Lark!DeliverMessage(m)
      BY <2>2
    <3> DEFINE e == [type |-> "message", msg |-> m]
    <3>2. /\ queue' = Append(queue, e)
          /\ UNCHANGED <<pump, dedup, order, evicted, forwarded, recalled>>
          /\ delivered' = delivered \cup {m}
          /\ age' = IF age[m] = None THEN [age EXCEPT ![m] = 0] ELSE age
      BY <3>1 DEF Lark!DeliverMessage, Lark!Push, Lark!dedup, Lark!output
    <3>3. /\ e \in [type : {"message", "recall", "other"}, msg : Message \cup {None}]
          /\ e.type = "message" /\ e.msg = m
      OBVIOUS
    <3> HIDE DEF e
    <3> QED
      BY <3>2, <3>3
  <2>3. CASE \E m \in Message : Lark!DeliverRecall(m)
    <3>1. PICK m \in Message : Lark!DeliverRecall(m)
      BY <2>3
    <3> QED
      BY <3>1 DEF Lark!DeliverRecall, Lark!Push, Lark!dedup, Lark!output
  <2> QED
    BY <2>1, <2>2, <2>3
<1>2. /\ Len(queue) \in Nat /\ Len(queue') = Len(queue) + 1 /\ queue'[Len(queue) + 1] = e
      /\ \A i \in 1..Len(queue) : queue'[i] = queue[i]
      /\ queue' \in Seq([type : {"message", "recall", "other"}, msg : Message \cup {None}])
  BY <1>1, AppendProperties DEF LarkInv, LarkTypes
<1>3. /\ age' \in [Message -> Nat \cup {None}]
      /\ delivered \subseteq delivered' /\ delivered' \subseteq Message
      /\ \A x \in delivered' : age'[x] # None
      /\ \A x \in Message : age[x] # None => age'[x] = age[x]
  <2>1. CASE UNCHANGED <<age, delivered>>
    BY <2>1 DEF LarkInv, LarkTypes
  <2>2. CASE /\ e.type = "message" /\ e.msg \in Message /\ delivered' = delivered \cup {e.msg}
             /\ age' = IF age[e.msg] = None THEN [age EXCEPT ![e.msg] = 0] ELSE age
    <3>1. None \notin Nat /\ age \in [Message -> Nat \cup {None}]
      BY PartsAssumption DEF LarkInv, LarkTypes
    <3>2. age' \in [Message -> Nat \cup {None}]
      BY <2>2, <3>1
    <3>3. age'[e.msg] # None /\ \A x \in Message : age[x] # None => age'[x] = age[x]
      BY <2>2, <3>1
    <3> QED
      BY <2>2, <3>2, <3>3 DEF LarkInv, LarkTypes
  <2> QED
    BY <1>1, <2>1, <2>2
<1>4. \A i \in 1..Len(queue') : queue'[i].type # "other" => queue'[i].msg \in delivered'
  BY <1>1, <1>2, <1>3 DEF LarkInv, LarkTypes
<1>5. LarkTypes'
  <2>1. order' \in Seq(delivered')
    BY <1>1, <1>3 DEF LarkInv, LarkTypes
  <2> QED
    BY <1>1, <1>2, <1>3, <1>4, <2>1 DEF LarkInv, LarkTypes
<1>6. \A i \in 1..Len(order) : order[i] \in Message /\ age[order[i]] # None
  BY ElementOfSeq DEF LarkInv, LarkTypes
<1>7. EntryIsYounger'
  BY <1>1, <1>3, <1>6 DEF LarkInv, EntryIsYounger, Elderly
<1>8. \A x \in Message : Handled(x) => Handled(x)'
  BY <1>1, <1>3 DEF Handled, Elderly, Remembered
<1>9. MessageComesFirst'
  <2>1. ASSUME NEW m \in delivered'
        PROVE  \/ Handled(m)'
               \/ \E i \in 1..Len(queue') : queue'[i] = [type |-> "message", msg |-> m]
    <3>1. CASE m \in delivered
      BY <1>2, <1>3, <1>8, <3>1 DEF LarkInv, MessageComesFirst
    <3>2. CASE m \notin delivered
      <4>1. e = [type |-> "message", msg |-> m]
        BY <1>1, <2>1, <3>2
      <4> QED
        BY <1>2, <4>1
    <3> QED
      BY <3>1, <3>2
  <2>2. ASSUME NEW m \in delivered', NEW i \in 1..Len(queue'),
               queue'[i].type = "recall", queue'[i].msg = m
        PROVE  Handled(m)' \/ \E j \in 1..(i - 1) : queue'[j] = [type |-> "message", msg |-> m]
    <3>1. CASE i \in 1..Len(queue)
      <4>1. queue'[i] = queue[i] /\ m \in delivered /\ m \in Message
        BY <1>2, <2>2, <3>1 DEF LarkInv, LarkTypes
      <4>2. \A j \in 1..(i - 1) : queue'[j] = queue[j]
        BY <1>2, <3>1
      <4> QED
        <5>1. Handled(m) \/ \E j \in 1..(i - 1) : queue[j] = [type |-> "message", msg |-> m]
          BY <2>2, <3>1, <4>1 DEF LarkInv, MessageComesFirst
        <5> QED
          BY <1>8, <4>1, <4>2, <5>1
    <3>2. CASE i = Len(queue) + 1
      <4>1. m \in delivered /\ m \in Message
        BY <1>1, <1>2, <2>2, <3>2 DEF LarkInv, LarkTypes
      <4>2. \A j \in 1..Len(queue) : j \in 1..(i - 1) /\ queue'[j] = queue[j]
        BY <1>2, <3>2
      <4> QED
        BY <1>8, <4>1, <4>2 DEF LarkInv, MessageComesFirst
    <3> QED
      BY <1>2, <3>1, <3>2
  <2> QED
    BY <2>1, <2>2 DEF MessageComesFirst
<1>10. SeenOnce'
  BY <1>1, <1>8 DEF LarkInv, SeenOnce
<1> QED
  BY <1>5, <1>7, <1>9, <1>10 DEF LarkInv

(* The pump takes the head of the channel, and one payload after another.  *)
LEMMA PumpKeepsLark ==
  ASSUME LarkInv, Lark!TakeMessage \/ Lark!Forward \/ Lark!Drop \/ Lark!TakeOther
  PROVE  LarkInv'
<1>1. None \notin Message /\ \A x \in Message : age[x] \in Nat \cup {None}
  BY PartsAssumption DEF LarkInv, LarkTypes
<1>2. CASE Lark!Forward \/ Lark!Drop
  <2>1. /\ UNCHANGED <<age, delivered, queue, dedup, order, evicted, recalled>>
        /\ pump' = None /\ forwarded' \in [Message -> 0..2] /\ pump \in Message
        /\ \A x \in Message \ {pump} : forwarded'[x] = forwarded[x]
        /\ forwarded'[pump] \in {forwarded[pump], Lark!Low(forwarded[pump] + 1, 2)}
    <3>1. /\ UNCHANGED <<age, delivered, queue, dedup, order, evicted, recalled>>
          /\ pump' = None /\ pump # None
          /\ \/ forwarded' = [forwarded EXCEPT ![pump] = Lark!Low(@ + 1, 2)]
             \/ forwarded' = forwarded
      BY <1>2 DEF Lark!Forward, Lark!Drop, Lark!dedup, Lark!output
    <3>2. pump \in Message /\ forwarded \in [Message -> 0..2]
      BY <3>1 DEF LarkInv, LarkTypes
    <3>3. \A n \in 0..2 : Lark!Low(n + 1, 2) \in 0..2
      BY DEF Lark!Low
    <3> QED
      BY <3>1, <3>2, <3>3
  <2>2. \A x : Handled(x)' <=> Handled(x)
    BY <2>1 DEF Handled, Elderly, Remembered
  <2>3. LarkTypes' /\ EntryIsYounger' /\ MessageComesFirst'
    BY <2>1, <2>2 DEF LarkInv, LarkTypes, EntryIsYounger, MessageComesFirst, Elderly
  <2>4. forwarded[pump] = 0 => forwarded'[pump] <= 1
    BY <2>1 DEF Lark!Low
  <2>5. SeenOnce'
    BY <1>1, <2>1, <2>2, <2>4 DEF LarkInv, SeenOnce
  <2> QED
    BY <2>3, <2>5 DEF LarkInv
<1>3. CASE Lark!TakeMessage \/ Lark!TakeOther
  <2>1. /\ pump = None /\ queue # <<>> /\ queue' = Tail(queue) /\ UNCHANGED <<age, delivered>>
    BY <1>3 DEF Lark!TakeMessage, Lark!TakeOther, Lark!MayTake
  <2>2. /\ queue' \in Seq([type : {"message", "recall", "other"}, msg : Message \cup {None}])
        /\ Len(queue) \in Nat /\ Len(queue) > 0 /\ Len(queue') = Len(queue) - 1
        /\ Head(queue) = queue[1]
        /\ \A i \in 1..Len(queue') : queue'[i] = queue[i + 1]
    BY <2>1, HeadTailProperties DEF LarkInv, LarkTypes
  <2>3. \A i \in 1..Len(queue') : i + 1 \in 1..Len(queue)
    BY <2>2
  <2>4. \A i \in 1..Len(queue') : queue'[i].type # "other" => queue'[i].msg \in delivered'
    BY <2>1, <2>2, <2>3 DEF LarkInv, LarkTypes
  <2>5. ASSUME \A x \in Message : Handled(x) => Handled(x)',
               \A x \in Message : queue[1] = [type |-> "message", msg |-> x] => Handled(x)'
        PROVE  MessageComesFirst'
    <3>1. \A x \in delivered : x \in Message
      BY DEF LarkInv, LarkTypes
    <3>2. ASSUME NEW j \in 1..Len(queue), j # 1
          PROVE  j - 1 \in 1..Len(queue') /\ queue'[j - 1] = queue[j]
      BY <2>2, <3>2
    <3>3. ASSUME NEW m \in delivered
          PROVE  \/ Handled(m)'
                 \/ \E i \in 1..Len(queue') : queue'[i] = [type |-> "message", msg |-> m]
      BY <2>5, <3>1, <3>2 DEF LarkInv, MessageComesFirst
    <3>4. ASSUME NEW m \in delivered, NEW i \in 1..Len(queue'),
                 queue'[i].type = "recall", queue'[i].msg = m
          PROVE  \/ Handled(m)'
                 \/ \E j \in 1..(i - 1) : queue'[j] = [type |-> "message", msg |-> m]
      <4>1. i + 1 \in 1..Len(queue) /\ queue[i + 1].type = "recall" /\ queue[i + 1].msg = m
        BY <2>2, <2>3, <3>4
      <4>2. Handled(m) \/ \E j \in 1..((i + 1) - 1) : queue[j] = [type |-> "message", msg |-> m]
        BY <4>1 DEF LarkInv, MessageComesFirst
      <4>3. ASSUME NEW j \in 1..((i + 1) - 1), queue[j] = [type |-> "message", msg |-> m], j # 1
            PROVE  j - 1 \in 1..(i - 1) /\ queue'[j - 1] = queue[j]
        BY <2>2, <4>3
      <4> QED
        BY <2>5, <3>1, <4>2, <4>3
    <3> QED
      BY <2>1, <3>3, <3>4 DEF MessageComesFirst
  <2>6. CASE Lark!TakeOther
    <3>1. /\ UNCHANGED <<pump, dedup, order, evicted, forwarded>> /\ queue[1].type # "message"
          /\ recalled' = IF queue[1].type = "recall" THEN recalled \cup {queue[1].msg}
                         ELSE recalled
      BY <2>2, <2>6 DEF Lark!TakeOther, Lark!dedup
    <3>2. \A x : Handled(x)' <=> Handled(x)
      BY <2>1, <3>1 DEF Handled, Elderly, Remembered
    <3>3. MessageComesFirst'
      BY <2>5, <3>1, <3>2
    <3>4. queue[1].type = "recall" => queue[1].msg \in delivered /\ Handled(queue[1].msg)
      <4>1. queue[1].type = "recall" => queue[1].msg \in delivered
        BY <2>2 DEF LarkInv, LarkTypes
      <4>2. \A m \in delivered :
              queue[1].type = "recall" /\ queue[1].msg = m =>
                Handled(m) \/ \E j \in 1..(1 - 1) : queue[j] = [type |-> "message", msg |-> m]
        <5>1. 1 \in 1..Len(queue)
          BY <2>2
        <5> QED
          BY <5>1 DEF LarkInv, MessageComesFirst
      <4>3. \A j \in 1..(1 - 1) : FALSE
        OBVIOUS
      <4> QED
        BY <4>1, <4>2, <4>3
    <3>5. LarkTypes' /\ EntryIsYounger'
      BY <2>1, <2>2, <2>4, <3>1, <3>4 DEF LarkInv, LarkTypes, EntryIsYounger, Elderly
    <3>6. SeenOnce'
      BY <1>1, <2>1, <3>1, <3>2, <3>4 DEF LarkInv, SeenOnce
    <3> QED
      BY <3>3, <3>5, <3>6 DEF LarkInv
  <2>7. CASE Lark!TakeMessage
    <3>1. PICK m \in delivered : m = queue[1].msg /\ m \in Message
      BY <2>2, <2>7 DEF Lark!TakeMessage, LarkInv, LarkTypes
    <3>2. UNCHANGED <<forwarded, recalled>>
      BY <2>7 DEF Lark!TakeMessage, Lark!output
    <3>3. \A x \in Message : queue[1] = [type |-> "message", msg |-> x] => x = m
      BY <3>1
    <3>4. CASE Lark!Expired(m)
      <4>1. UNCHANGED <<pump, dedup, order, evicted>>
        BY <2>2, <2>7, <3>1, <3>4 DEF Lark!TakeMessage, Lark!dedup
      <4>2. \A x : Handled(x)' <=> Handled(x)
        BY <2>1, <4>1 DEF Handled, Elderly, Remembered
      <4>3. Handled(m)
        BY <3>4 DEF Handled, Elderly, Lark!Expired, LarkInv, LarkTypes
      <4>4. MessageComesFirst'
        BY <2>5, <3>3, <4>2, <4>3
      <4> QED
        BY <2>1, <2>2, <2>4, <3>2, <4>1, <4>2, <4>4
        DEF LarkInv, LarkTypes, EntryIsYounger, SeenOnce, Elderly
    <3>5. CASE ~Lark!Expired(m)
      <4>1. Lark!Remember(m) /\ pump' = IF Lark!Duplicate(m) THEN None ELSE m
        BY <2>2, <2>7, <3>1, <3>5 DEF Lark!TakeMessage
      <4>2. /\ order' \in Seq(delivered)
            /\ \A i \in 1..Len(order') :
                 /\ order'[i] \in DOMAIN dedup' /\ dedup'[order'[i]] \in Nat
                 /\ dedup'[order'[i]] <= age[order'[i]] \/ Elderly(order'[i])
            /\ evicted \subseteq evicted' /\ Remembered(m)'
            /\ \A x : Remembered(x) => Elderly(x) \/ x \in evicted' \/ Remembered(x)'
            /\ ~Lark!Duplicate(m) /\ Remembered(m) => Elderly(m)
        BY <2>1, <4>1, RememberKeeps
      <4>3. \A x : Elderly(x)' <=> Elderly(x)
        BY <2>1 DEF Elderly
      <4>4. \A x \in Message : Handled(x) => Handled(x)'
        BY <4>2, <4>3, HandledStays
      <4>5. Handled(m)'
        BY <4>2 DEF Handled
      <4>6. ~Lark!Duplicate(m) /\ Handled(m) => m \in Undated \cup evicted'
        BY <3>5, <4>2 DEF Handled, Elderly, Lark!Expired
      <4>7. LarkTypes'
        BY <2>1, <2>2, <2>4, <3>1, <3>2, <4>1, <4>2 DEF LarkInv, LarkTypes
      <4>8. EntryIsYounger'
        BY <2>1, <4>2 DEF EntryIsYounger, Elderly
      <4>9. MessageComesFirst'
        BY <2>5, <3>3, <4>4, <4>5
      <4>10. SeenOnce'
        <5>1. \A x \in Message : forwarded'[x] > 0 \/ pump' = x \/ x \in recalled' => Handled(x)'
          BY <1>1, <3>2, <4>1, <4>4, <4>5 DEF LarkInv, SeenOnce
        <5>2. \A x \in Message \ (Undated \cup evicted') : x \in Message \ (Undated \cup evicted)
          BY <4>2
        <5>3. pump' = m /\ m \notin Undated \cup evicted' => ~Handled(m)
          BY <1>1, <3>1, <4>1, <4>6
        <5>4. ~Handled(m) => forwarded[m] = 0 /\ m \notin recalled
          BY <3>1 DEF LarkInv, LarkTypes, SeenOnce
        <5> QED
          BY <1>1, <3>1, <3>2, <4>1, <5>1, <5>2, <5>3, <5>4 DEF LarkInv, SeenOnce
      <4> QED
        BY <4>7, <4>8, <4>9, <4>10 DEF LarkInv
    <3> QED
      BY <3>4, <3>5
  <2> QED
    BY <1>3, <2>6, <2>7
<1> QED
  BY <1>2, <1>3

LEMMA LarkStep == ASSUME LarkInv, [Next]_vars, part = "lark" PROVE LarkInv'
<1>1. CASE UNCHANGED <<age, delivered, queue, pump, dedup, order, evicted, forwarded, recalled>>
  <2>1. LarkTypes'
    BY <1>1 DEF LarkInv, LarkTypes
  <2>2. \A x : Elderly(x)' <=> Elderly(x)
    BY <1>1 DEF Elderly
  <2>3. \A x : Handled(x)' <=> Handled(x)
    BY <1>1, <2>2 DEF Handled, Remembered
  <2>4. EntryIsYounger'
    BY <1>1, <2>2 DEF LarkInv, EntryIsYounger
  <2>5. MessageComesFirst' /\ SeenOnce'
    BY <1>1, <2>3 DEF LarkInv, MessageComesFirst, SeenOnce
  <2> QED
    BY <2>1, <2>4, <2>5 DEF LarkInv
<1>2. Lark!Next \/ UNCHANGED larkState
  BY DEF Next, vars, pluginState
<1>3. CASE Lark!OpenSession \/ Lark!EndSession \/ Lark!Reconnect \/ Lark!Watchdog
  BY <1>1, <1>3
  DEF Lark!OpenSession, Lark!EndSession, Lark!Reconnect, Lark!Watchdog, Lark!dedup, Lark!output
<1> QED
  BY <1>1, <1>2, <1>3, TimeKeepsLark, DeliveriesKeepLark, PumpKeepsLark DEF Lark!Next, larkState

(* One process passes a message on at most once, and a recall never before *)
(* the message it recalls, but for those without a readable date and those *)
(* the cap pushed out while they were fresh: whatever the dedup forgets by *)
(* age has expired.  For any number of messages, replays and reconnects.   *)
THEOREM PassedOnOnce == Spec => []ForwardedOnceInOrder
<1> DEFINE Inv == part = "lark" => LarkInv
<1>1. Init => Inv
  BY LarkBegins DEF Init
<1>2. Inv /\ [Next]_vars => Inv'
  BY PartStays, LarkStep
<1>3. Inv => ForwardedOnceInOrder
  <2> SUFFICES ASSUME LarkInv PROVE Lark!ForwardedOnce /\ Lark!RecallFollowsMessage
    BY DEF ForwardedOnceInOrder
  <2>1. forwarded \in [Message -> 0..2] /\ recalled \subseteq Message
    BY DEF LarkInv, LarkTypes
  <2> QED
    BY <2>1 DEF LarkInv, SeenOnce, Lark!ForwardedOnce, Lark!RecallFollowsMessage
<1> QED
  BY <1>1, <1>2, <1>3, PTL DEF Spec

-----------------------------------------------------------------------------
(* Memory: the index, the staged writes, and what a turn overwrites.       *)

Step == {"idle", "read", "check", "land", "record", "list", "index", "queued", "propose",
         "remove", "reject", "late_land", "late_index"}

(* From the write of an entry to that of the index which lists it.         *)
Listing == {"record", "list", "index"}

(* Where an actor has an entry.                                            *)
Carrying == Listing \cup {"read", "check", "land", "late_land"}

JobOfActor ==
  [pc : Step, entry : Entry \cup {None}, ver : Version \cup {None}, staged : Id \cup {None},
   disk : Version \cup {None}, base : Version \cup {None}, listed : SUBSET Entry]

MemTypes ==
  /\ job \in [Mem!Actor -> JobOfActor]
  /\ file \in [Entry -> Version \cup {None}] /\ seen \in [Entry -> Version \cup {None}]
  /\ known \in [Entry -> SUBSET (Version \cup {None})]
  /\ staged \in [Id -> Mem!Write \cup {None}]
  /\ \A s \in pending : s \in Id /\ staged[s] \in Mem!Write
  /\ \A w \in Mem!Actor :
       job[w].pc \in Carrying => job[w].entry \in Entry

(* An index that is about to be written lists every entry that is not      *)
(* raced, and of an entry missing from it the writer is still at work.     *)
IndexIsOnItsWay ==
  /\ \A w \in Mem!Actor : Mem!Indexing(w) => Mem!Files \ raced \subseteq job[w].listed
  /\ \A e \in Mem!Files \ raced :
       e \in index \/ \E w \in Mem!Actor : job[w].pc \in Listing /\ job[w].entry = e

(* A staged write is removed after it has landed.                          *)
LandedBeforeRemoved ==
  /\ Mem!StagedIsNotLost
  /\ \A w \in Mem!Actor : /\ job[w].pc = "remove" => job[w].staged # None
                          /\ job[w].pc \in Listing \cup {"late_index", "remove"} =>
                               job[w].staged = None \/ job[w].staged \in landed

(* The store's record of an entry is of what a tool read or wrote; a write *)
(* past the check found it on the disk.                                    *)
BaseIsKnown ==
  /\ \A e \in Entry : seen[e] # None => seen[e] \in known[e]
  /\ \A t \in Turn :
       job[t].pc \in {"land", "late_land"} /\ job[t].base # None =>
         /\ job[t].base \in known[job[t].entry]
         /\ job[t].disk \in {None, job[t].base}

MemInv == MemTypes /\ IndexIsOnItsWay /\ LandedBeforeRemoved /\ BaseIsKnown

LEMMA MemBegins == Mem!Init => MemInv
<1> SUFFICES ASSUME Mem!Init PROVE MemInv
  OBVIOUS
<1>1. Mem!Idle \in JobOfActor /\ Mem!Idle.pc = "idle"
  BY DEF Mem!Idle, JobOfActor, Step
<1>2. Mem!Files = {}
  BY DEF Mem!Init, Mem!Files
<1>3. MemTypes
  BY <1>1 DEF Mem!Init, MemTypes, Listing, Carrying
<1>4. IndexIsOnItsWay /\ LandedBeforeRemoved /\ BaseIsKnown
  BY <1>1, <1>2
  DEF Mem!Init, IndexIsOnItsWay, LandedBeforeRemoved, BaseIsKnown, Listing, Mem!StagedIsNotLost,
      Mem!Actor, Mem!Indexing, Mem!At
<1> QED
  BY <1>3, <1>4 DEF MemInv

(* An actor that is between an entry and the index stays there, or lists   *)
(* the tree; nobody else begins to write the index.                        *)
Advances(w, next) ==
  /\ job' = [job EXCEPT ![w] = next] /\ next \in JobOfActor
  /\ next.pc \in Carrying => next.entry \in Entry
  /\ job[w].pc \in Listing => next.pc \in Listing /\ next.entry = job[w].entry
  /\ next.pc = "index" => Mem!Files \subseteq next.listed
  /\ next.pc \notin {"late_land", "late_index"}
  /\ next.pc = "remove" => next.staged # None
  /\ next.pc \in Listing \cup {"remove"} => next.staged = None \/ next.staged \in landed

LEMMA AdvancesKeepsIndex ==
  ASSUME MemInv, NEW w \in Mem!Actor, NEW next, Advances(w, next),
         UNCHANGED <<file, index, raced>>
  PROVE  IndexIsOnItsWay'
<1>1. /\ job'[w] = next /\ \A o \in Mem!Actor \ {w} : job'[o] = job[o]
      /\ Mem!Files' = Mem!Files
  BY DEF Advances, MemInv, MemTypes, Mem!Files
<1> QED
  BY <1>1 DEF Advances, MemInv, IndexIsOnItsWay, Mem!Indexing, Mem!At

(* What a write past the check may be computed from.                       *)
FromKnown(w, next) ==
  w \in Turn /\ next.pc = "land" /\ next.base # None =>
    next.base \in known'[next.entry] /\ next.disk \in {None, next.base}

StoreGrows ==
  /\ seen' \in [Entry -> Version \cup {None}]
  /\ known' \in [Entry -> SUBSET (Version \cup {None})]
  /\ \A e \in Entry : known[e] \subseteq known'[e]
  /\ \A e \in Entry : seen'[e] # None => seen'[e] \in known'[e]

LEMMA StoreMayStay == ASSUME MemInv, Mem!StoreSame PROVE StoreGrows
  BY DEF MemInv, MemTypes, BaseIsKnown, Mem!StoreSame, StoreGrows

(* A step of one actor that leaves the disk and the staged writes alone.   *)
LEMMA OrdinaryStep ==
  ASSUME MemInv, NEW w \in Mem!Actor, NEW next, Advances(w, next), FromKnown(w, next),
         StoreGrows, Mem!DiskSame, Mem!StagingSame
  PROVE  MemInv'
<1>1. /\ job'[w] = next /\ \A o \in Mem!Actor \ {w} : job'[o] = job[o]
      /\ job' \in [Mem!Actor -> JobOfActor]
  BY DEF Advances, MemInv, MemTypes
<1>2. UNCHANGED <<file, index, raced, staged, pending, landed, rejected>>
  BY DEF Mem!DiskSame, Mem!StagingSame
<1>3. MemTypes'
  <2>1. \A o \in Mem!Actor :
          job'[o].pc \in Carrying => job'[o].entry \in Entry
    BY <1>1 DEF Advances, MemInv, MemTypes
  <2>2. \A s \in pending' : s \in Id /\ staged'[s] \in Mem!Write
    BY <1>2 DEF MemInv, MemTypes
  <2> QED
    BY <1>1, <1>2, <2>1, <2>2 DEF MemInv, MemTypes, StoreGrows
<1>4. IndexIsOnItsWay'
  BY <1>2, AdvancesKeepsIndex
<1>5. LandedBeforeRemoved'
  <2>1. Mem!StagedIsNotLost'
    BY <1>2 DEF MemInv, LandedBeforeRemoved, Mem!StagedIsNotLost
  <2> QED
    BY <1>1, <1>2, <2>1 DEF Advances, MemInv, LandedBeforeRemoved
<1>6. BaseIsKnown'
  <2>1. \A t \in Turn : t \in Mem!Actor
    BY DEF Mem!Actor
  <2>2. \A t \in Turn : job[t].pc \in {"land", "late_land"} => job[t].entry \in Entry
    BY <2>1 DEF MemInv, MemTypes, Carrying
  <2> QED
    BY <1>1, <2>1, <2>2 DEF MemInv, BaseIsKnown, StoreGrows, FromKnown, Advances, Carrying
<1> QED
  BY <1>3, <1>4, <1>5, <1>6 DEF MemInv

LEMMA MemStutters ==
  ASSUME MemInv,
         UNCHANGED <<file, index, seen, pending, job, known, raced, staged, landed, rejected>>
  PROVE  MemInv'
<1>1. Mem!Files' = Mem!Files /\ Mem!StagedIsNotLost' = Mem!StagedIsNotLost
  BY DEF Mem!Files, Mem!StagedIsNotLost
<1> QED
  BY <1>1
  DEF MemInv, MemTypes, IndexIsOnItsWay, LandedBeforeRemoved, BaseIsKnown, Mem!Indexing, Mem!At

(* The steps of write, from the check to the list of the tree.             *)
LEMMA WriteKeepsMem ==
  ASSUME MemInv, NEW w \in Mem!Actor,
         Mem!CheckDrift(w) \/ Mem!RecordWrite(w) \/ Mem!ListTree(w)
  PROVE  MemInv'
<1> DEFINE j == job[w]
<1>1. j \in JobOfActor
  BY DEF MemInv, MemTypes
<1>2. CASE Mem!CheckDrift(w)
  <2>0. j.pc = "check" /\ j.entry \in Entry
    BY <1>2 DEF Mem!CheckDrift, Mem!At, MemInv, MemTypes, Carrying
  <2>1. CASE Mem!Drifted(w)
    <3> DEFINE next == Mem!Idle
    <3>1. Advances(w, next) /\ FromKnown(w, next)
      BY <1>2, <2>0, <2>1
      DEF Mem!CheckDrift, Mem!Idle, Advances, FromKnown, JobOfActor, Step, Listing, Carrying
    <3>2. Mem!StoreSame /\ Mem!DiskSame /\ Mem!StagingSame
      BY <1>2, <2>1 DEF Mem!CheckDrift, Mem!Forget, Mem!DiskSame
    <3> QED
      BY <3>1, <3>2, StoreMayStay, OrdinaryStep
  <2>2. CASE ~Mem!Drifted(w)
    <3> DEFINE next == [j EXCEPT !.pc = "land", !.disk = file[j.entry],
                                 !.base = Mem!Baseline(w, j.entry)]
    <3>1. Mem!StoreSame /\ Mem!DiskSame /\ Mem!StagingSame /\ job' = [job EXCEPT ![w] = next]
      BY <1>2, <2>2 DEF Mem!CheckDrift, Mem!DiskSame, MemInv, MemTypes
    <3>2. Mem!Baseline(w, j.entry) \in Version \cup {None} /\ file[j.entry] \in Version \cup {None}
      BY <2>0 DEF Mem!Baseline, MemInv, MemTypes
    <3>3. next \in JobOfActor /\ next.pc = "land" /\ next.entry = j.entry
          /\ next.disk = file[j.entry] /\ next.base = Mem!Baseline(w, j.entry)
      BY <1>1, <3>2 DEF JobOfActor, Step
    <3> HIDE DEF next
    <3>4. Advances(w, next)
      BY <2>0, <3>1, <3>3 DEF Advances, Listing, Carrying
    <3>5. FromKnown(w, next)
      <4>1. w \in Turn /\ next.base # None =>
              seen[j.entry] \in known[j.entry] /\ next.base = seen[j.entry]
        BY <2>0, <3>3 DEF Mem!Baseline, MemInv, BaseIsKnown
      <4>2. next.base # None => next.disk \in {None, next.base}
        BY <2>2, <3>3 DEF Mem!Drifted
      <4> QED
        BY <3>1, <3>3, <4>1, <4>2 DEF FromKnown, Mem!StoreSame
    <3> QED
      BY <3>1, <3>4, <3>5, StoreMayStay, OrdinaryStep
  <2> QED
    BY <2>1, <2>2
<1>3. CASE Mem!RecordWrite(w)
  <2> DEFINE next == [j EXCEPT !.pc = "list"]
  <2>1. job' = [job EXCEPT ![w] = next] /\ j.pc = "record" /\ j.entry \in Entry
    BY <1>3 DEF Mem!RecordWrite, Mem!At, Mem!Goto, Mem!AfterRecord, MemInv, MemTypes, Listing, Carrying
  <2>2. next \in JobOfActor /\ next.pc = "list" /\ next.entry = j.entry /\ next.staged = j.staged
    BY <1>1 DEF JobOfActor, Step
  <2>3. j.ver \in Version \cup {None}
    BY <1>1 DEF JobOfActor
  <2> HIDE DEF next
  <2>4. Advances(w, next) /\ FromKnown(w, next)
    BY <2>1, <2>2 DEF Advances, FromKnown, Listing, Carrying, MemInv, LandedBeforeRemoved
  <2>5. StoreGrows
    BY <1>3, <2>1, <2>3, StoreMayStay
    DEF Mem!RecordWrite, Mem!Record, StoreGrows, MemInv, MemTypes, BaseIsKnown
  <2> QED
    BY <1>3, <2>4, <2>5, OrdinaryStep DEF Mem!RecordWrite
<1>4. CASE Mem!ListTree(w)
  <2> DEFINE next == [j EXCEPT !.pc = "index", !.listed = Mem!Files]
  <2>1. job' = [job EXCEPT ![w] = next] /\ j.pc = "list" /\ j.entry \in Entry
    BY <1>4 DEF Mem!ListTree, Mem!At, MemInv, MemTypes, Listing, Carrying
  <2>2. /\ next \in JobOfActor /\ next.pc = "index" /\ next.entry = j.entry
        /\ next.staged = j.staged /\ next.listed = Mem!Files
    BY <1>1 DEF JobOfActor, Step, Mem!Files
  <2> HIDE DEF next
  <2>3. Advances(w, next) /\ FromKnown(w, next)
    BY <2>1, <2>2 DEF Advances, FromKnown, Listing, Carrying, MemInv, LandedBeforeRemoved
  <2> QED
    BY <1>4, <2>3, StoreMayStay, OrdinaryStep DEF Mem!ListTree
<1> QED
  BY <1>2, <1>3, <1>4

(* An entry that appears while somebody has listed the tree is raced; one  *)
(* that appears otherwise has its writer still at work.                    *)
LEMMA LandKeepsMem ==
  ASSUME MemInv, NEW w \in Mem!Actor, Mem!Land(w) PROVE MemInv'
<1> DEFINE j == job[w]
<1> DEFINE next == [j EXCEPT !.pc = "record", !.disk = None, !.base = None]
<1>1. /\ j \in JobOfActor /\ j.pc = "land" /\ j.entry \in Entry /\ j.ver \in Version \cup {None}
      /\ job' = [job EXCEPT ![w] = next]
  BY DEF Mem!Land, Mem!At, MemInv, MemTypes, Carrying, JobOfActor
<1>2. /\ next \in JobOfActor /\ next.pc = "record" /\ next.entry = j.entry
      /\ next.staged = j.staged
  BY <1>1 DEF JobOfActor, Step
<1> HIDE DEF next
<1>3. /\ job'[w] = next /\ \A o \in Mem!Actor \ {w} : job'[o] = job[o]
      /\ job' \in [Mem!Actor -> JobOfActor]
  BY <1>1, <1>2 DEF MemInv, MemTypes
<1>4. /\ UNCHANGED <<index, seen, known, pending, staged, rejected>>
      /\ file' = [file EXCEPT ![j.entry] = j.ver]
      /\ landed' = IF j.staged = None THEN landed ELSE landed \cup {j.staged}
      /\ raced \subseteq raced'
      /\ file[j.entry] = None /\ (\E o \in Mem!Actor \ {w} : Mem!Indexing(o)) =>
           j.entry \in raced'
  BY DEF Mem!Land, Mem!StoreSame, Mem!At
<1>5. /\ Mem!Files' \subseteq Mem!Files \cup {j.entry}
      /\ file[j.entry] # None => j.entry \in Mem!Files
  BY <1>1, <1>4 DEF Mem!Files, MemInv, MemTypes
<1>6. MemTypes'
  <2>1. \A o \in Mem!Actor :
          job'[o].pc \in Carrying => job'[o].entry \in Entry
    BY <1>1, <1>2, <1>3 DEF MemInv, MemTypes
  <2>2. \A s \in pending' : s \in Id /\ staged'[s] \in Mem!Write
    BY <1>4 DEF MemInv, MemTypes
  <2>3. file' \in [Entry -> Version \cup {None}]
    BY <1>1, <1>4 DEF MemInv, MemTypes
  <2> QED
    BY <1>3, <1>4, <2>1, <2>2, <2>3 DEF MemInv, MemTypes
<1>7. IndexIsOnItsWay'
  <2>1. ASSUME NEW o \in Mem!Actor, Mem!Indexing(o)'
        PROVE  (Mem!Files \ raced)' \subseteq job'[o].listed
    <3>1. o # w /\ job'[o] = job[o] /\ Mem!Indexing(o)
      BY <1>2, <1>3, <2>1 DEF Mem!Indexing, Mem!At
    <3> QED
      BY <1>4, <1>5, <2>1, <3>1 DEF MemInv, IndexIsOnItsWay, Mem!Indexing, Mem!At
  <2>2. ASSUME NEW e \in (Mem!Files \ raced)'
        PROVE  e \in index' \/ \E o \in Mem!Actor : job'[o].pc \in Listing /\ job'[o].entry = e
    <3>1. CASE e = j.entry
      BY <1>2, <1>3, <3>1 DEF Listing
    <3>2. CASE e # j.entry
      <4>1. e \in Mem!Files \ raced
        BY <1>4, <1>5, <2>2, <3>2
      <4>2. e \in index \/ \E o \in Mem!Actor : job[o].pc \in Listing /\ job[o].entry = e
        BY <4>1 DEF MemInv, IndexIsOnItsWay, Mem!Indexing, Mem!At
      <4>3. \A o \in Mem!Actor : job[o].pc \in Listing => o # w
        BY <1>1 DEF Listing
      <4> QED
        BY <1>3, <1>4, <4>2, <4>3
    <3> QED
      BY <3>1, <3>2
  <2> QED
    BY <2>1, <2>2 DEF IndexIsOnItsWay, Mem!Indexing, Mem!At
<1>8. LandedBeforeRemoved'
  <2>1. landed \subseteq landed' /\ (j.staged # None => j.staged \in landed')
    BY <1>4
  <2>2. Mem!StagedIsNotLost'
    BY <1>4, <2>1 DEF MemInv, LandedBeforeRemoved, Mem!StagedIsNotLost
  <2> QED
    BY <1>2, <1>3, <2>1, <2>2 DEF MemInv, LandedBeforeRemoved
<1>9. BaseIsKnown'
  <2>1. \A t \in Turn : t \in Mem!Actor
    BY DEF Mem!Actor
  <2> QED
    BY <1>2, <1>3, <1>4, <2>1 DEF MemInv, BaseIsKnown
<1> QED
  BY <1>6, <1>7, <1>8, <1>9 DEF MemInv

(* What a cancelled call creates is raced.                                 *)
LEMMA LandLateKeepsMem ==
  ASSUME MemInv, NEW t \in Turn, Mem!LandLate(t) PROVE MemInv'
<1> DEFINE j == job[t]
<1>1. /\ t \in Mem!Actor /\ j \in JobOfActor /\ j.pc = "late_land" /\ j.entry \in Entry
      /\ j.ver \in Version \cup {None}
  BY DEF Mem!LandLate, Mem!At, MemInv, MemTypes, JobOfActor, Mem!Actor, Carrying
<1>2. Mem!Idle \in JobOfActor /\ Mem!Idle.pc = "idle"
  BY DEF Mem!Idle, JobOfActor, Step
<1>3. /\ job'[t] = Mem!Idle /\ \A o \in Mem!Actor \ {t} : job'[o] = job[o]
      /\ job' \in [Mem!Actor -> JobOfActor]
  BY <1>1, <1>2 DEF Mem!LandLate, MemInv, MemTypes
<1>4. /\ UNCHANGED <<index, seen, known, pending, staged, landed, rejected>>
      /\ file' = [file EXCEPT ![j.entry] = j.ver]
      /\ raced \subseteq raced' /\ (file[j.entry] = None => j.entry \in raced')
  BY DEF Mem!LandLate, Mem!StoreSame, Mem!StagingSame
<1>5. /\ Mem!Files' \subseteq Mem!Files \cup {j.entry}
      /\ file[j.entry] # None => j.entry \in Mem!Files
  BY <1>1, <1>4 DEF Mem!Files, MemInv, MemTypes
<1>6. (Mem!Files \ raced)' \subseteq Mem!Files \ raced
  BY <1>4, <1>5
<1>7. MemTypes'
  <2>1. \A o \in Mem!Actor : job'[o].pc \in Carrying => job'[o].entry \in Entry
    BY <1>2, <1>3 DEF MemInv, MemTypes, Carrying, Listing
  <2>2. file' \in [Entry -> Version \cup {None}]
    BY <1>1, <1>4 DEF MemInv, MemTypes
  <2> QED
    BY <1>3, <1>4, <2>1, <2>2 DEF MemInv, MemTypes
<1>8. IndexIsOnItsWay'
  <2>1. \A o \in Mem!Actor : Mem!Indexing(o)' => Mem!Indexing(o) /\ job'[o] = job[o]
    BY <1>2, <1>3 DEF Mem!Indexing, Mem!At
  <2>2. \A o \in Mem!Actor : job[o].pc \in Listing => job'[o] = job[o]
    BY <1>1, <1>3 DEF Listing
  <2> QED
    BY <1>4, <1>6, <2>1, <2>2 DEF MemInv, IndexIsOnItsWay
<1>9. LandedBeforeRemoved' /\ BaseIsKnown'
  <2>1. Mem!StagedIsNotLost'
    BY <1>4 DEF MemInv, LandedBeforeRemoved, Mem!StagedIsNotLost
  <2>2. \A o \in Turn : o \in Mem!Actor
    BY DEF Mem!Actor
  <2> QED
    BY <1>2, <1>3, <1>4, <2>1, <2>2 DEF MemInv, LandedBeforeRemoved, BaseIsKnown, Listing
<1> QED
  BY <1>7, <1>8, <1>9 DEF MemInv

(* Whoever writes the index lists what is not raced, and what it heals is  *)
(* in every index still to be written.                                     *)
LEMMA IndexKeepsMem ==
  ASSUME MemInv, NEW w \in Mem!Actor, Mem!WriteIndex(w) PROVE MemInv'
<1> DEFINE j == job[w]
<1>1. j \in JobOfActor /\ j.pc \in {"index", "late_index"} /\ Mem!Indexing(w)
  BY DEF Mem!WriteIndex, Mem!Indexing, Mem!At, MemInv, MemTypes
<1>2. PICK next \in JobOfActor :
        /\ job' = [job EXCEPT ![w] = next]
        /\ \/ next.pc = "remove" /\ next.staged # None /\ next.staged = j.staged
           \/ next.pc \in {"propose", "idle"}
  <2>1. CASE j.staged # None
    <3> DEFINE next == [Mem!Idle EXCEPT !.pc = "remove", !.staged = j.staged]
    <3>1. next \in JobOfActor /\ next.pc = "remove" /\ next.staged = j.staged
      BY <1>1 DEF Mem!Idle, JobOfActor, Step
    <3>2. job' = [job EXCEPT ![w] = next]
      BY <2>1 DEF Mem!WriteIndex, MemInv, MemTypes
    <3> QED
      BY <2>1, <3>1, <3>2
  <2>2. CASE j.staged = None
    <3>1. Mem!Idle \in JobOfActor /\ [Mem!Idle EXCEPT !.pc = "propose"] \in JobOfActor
      BY DEF Mem!Idle, JobOfActor, Step
    <3>2. Mem!Idle.pc = "idle" /\ [Mem!Idle EXCEPT !.pc = "propose"].pc = "propose"
      BY DEF Mem!Idle
    <3>3. \/ job' = [job EXCEPT ![w] = Mem!Idle]
          \/ job' = [job EXCEPT ![w] = [Mem!Idle EXCEPT !.pc = "propose"]]
      BY <2>2 DEF Mem!WriteIndex, MemInv, MemTypes
    <3> QED
      BY <3>1, <3>2, <3>3
  <2> QED
    BY <2>1, <2>2
<1>3. /\ job'[w] = next /\ \A o \in Mem!Actor \ {w} : job'[o] = job[o]
      /\ job' \in [Mem!Actor -> JobOfActor]
  BY <1>2 DEF MemInv, MemTypes
<1>4. /\ index' = j.listed
      /\ raced' = {e \in raced : e \in j.listed => Mem!Missed(w, e)}
      /\ UNCHANGED <<file, seen, known, pending, staged, landed, rejected>>
  BY DEF Mem!WriteIndex, Mem!StoreSame, Mem!StagingSame
<1>5. Mem!Files' = Mem!Files /\ next.pc \notin Carrying
  BY <1>2, <1>4 DEF Mem!Files, Listing, Carrying
<1>6. MemTypes'
  <2>1. \A o \in Mem!Actor :
          job'[o].pc \in Carrying => job'[o].entry \in Entry
    BY <1>3, <1>5 DEF MemInv, MemTypes
  <2> QED
    BY <1>3, <1>4, <2>1 DEF MemInv, MemTypes
<1>7. IndexIsOnItsWay'
  <2>1. (Mem!Files \ raced)' \subseteq index'
    BY <1>1, <1>4, <1>5 DEF MemInv, IndexIsOnItsWay
  <2>2. ASSUME NEW o \in Mem!Actor, Mem!Indexing(o)'
        PROVE  (Mem!Files \ raced)' \subseteq job'[o].listed
    <3>1. o # w /\ Mem!Indexing(o) /\ job'[o] = job[o]
      BY <1>2, <1>3, <2>2 DEF Mem!Indexing, Mem!At
    <3>2. \A e \in raced : e \in job[o].listed \/ e \in raced'
      BY <1>4, <3>1 DEF Mem!Missed
    <3> QED
      BY <1>5, <3>1, <3>2 DEF MemInv, IndexIsOnItsWay
  <2> QED
    BY <2>1, <2>2 DEF IndexIsOnItsWay
<1>8. LandedBeforeRemoved'
  <2>1. Mem!StagedIsNotLost'
    BY <1>4 DEF MemInv, LandedBeforeRemoved, Mem!StagedIsNotLost
  <2>2. /\ next.pc \notin Listing \cup {"late_index"}
        /\ next.pc = "remove" => next.staged # None /\ next.staged = j.staged
        /\ j.pc \in Listing \cup {"late_index", "remove"}
    BY <1>1, <1>2 DEF Listing
  <2> QED
    BY <1>1, <1>2, <1>3, <1>4, <2>1, <2>2 DEF MemInv, LandedBeforeRemoved
<1>9. BaseIsKnown'
  <2>1. \A t \in Turn : t \in Mem!Actor
    BY DEF Mem!Actor
  <2> QED
    BY <1>2, <1>3, <1>4, <2>1 DEF MemInv, BaseIsKnown
<1> QED
  BY <1>6, <1>7, <1>8, <1>9 DEF MemInv

(* A job that begins, or ends, with no entry between disk and index.       *)
LEMMA BeginsKeepsMem ==
  ASSUME MemInv, NEW w \in Mem!Actor, NEW next \in JobOfActor,
         job' = [job EXCEPT ![w] = next], job[w].pc \notin Listing,
         \/ next.pc \in {"idle", "queued", "propose", "reject"}
         \/ next.pc \in {"read", "check"} /\ next.entry \in Entry
         \/ next.pc = "land" /\ next.entry \in Entry /\ next.base = None,
         StoreGrows, Mem!DiskSame, Mem!StagingSame
  PROVE  MemInv'
<1>1. Advances(w, next) /\ FromKnown(w, next)
  BY DEF Advances, FromKnown, Listing, Carrying
<1> QED
  BY <1>1, OrdinaryStep

(* How write and write_force begin.                                        *)
LEMMA WriteBegins ==
  ASSUME MemInv, NEW w \in Mem!Actor, NEW e \in Entry, NEW v \in Version, NEW s \in Id \cup {None},
         Mem!Scanned(w, e, v, s) \/ Mem!Forced(w, e, v, s), job[w].pc \notin Listing,
         Mem!StoreSame, Mem!DiskSame, Mem!StagingSame
  PROVE  MemInv'
<1>1. CASE job' = job
  BY <1>1, MemStutters DEF Mem!StoreSame, Mem!DiskSame, Mem!StagingSame
<1>2. CASE \E pc \in {"check", "land"} :
             job' = [job EXCEPT ![w] = [Mem!Idle EXCEPT !.pc = pc, !.entry = e, !.ver = v,
                                                        !.staged = s]]
  <2>1. PICK pc \in {"check", "land"} :
          job' = [job EXCEPT ![w] = [Mem!Idle EXCEPT !.pc = pc, !.entry = e, !.ver = v,
                                                     !.staged = s]]
    BY <1>2
  <2> DEFINE next == [Mem!Idle EXCEPT !.pc = pc, !.entry = e, !.ver = v, !.staged = s]
  <2>2. next \in JobOfActor /\ next.pc = pc /\ next.entry = e /\ next.base = None
    BY DEF Mem!Idle, JobOfActor, Step
  <2> HIDE DEF next
  <2> QED
    BY <2>1, <2>2, StoreMayStay, BeginsKeepsMem DEF next
<1> QED
  BY <1>1, <1>2 DEF Mem!Scanned, Mem!Forced

LEMMA ToolsKeepMem ==
  ASSUME MemInv, NEW t \in Turn,
         \/ \E e \in Entry :
              Mem!ToolReads(t, e) \/ \E v \in Version : Mem!ToolWrites(t, e, v)
         \/ Mem!RecordRead(t)
  PROVE  MemInv'
<1>1. t \in Mem!Actor /\ job[t] \in JobOfActor
  BY DEF Mem!Actor, MemInv, MemTypes
<1>2. ASSUME NEW e \in Entry, Mem!ToolReads(t, e) PROVE MemInv'
  <2> DEFINE next == [Mem!Idle EXCEPT !.pc = "read", !.entry = e, !.ver = file[e]]
  <2>1. job' = [job EXCEPT ![t] = next] /\ job[t].pc \notin Listing
    BY <1>2 DEF Mem!ToolReads, Mem!At, Listing
  <2>2. next \in JobOfActor /\ next.pc = "read" /\ next.entry = e
    BY DEF Mem!Idle, JobOfActor, Step, MemInv, MemTypes
  <2> HIDE DEF next
  <2> QED
    BY <1>1, <1>2, <2>1, <2>2, StoreMayStay, BeginsKeepsMem DEF Mem!ToolReads
<1>3. ASSUME NEW e \in Entry, NEW v \in Version, Mem!ToolWrites(t, e, v) PROVE MemInv'
  BY <1>1, <1>3, WriteBegins DEF Mem!ToolWrites, Mem!At, Listing
<1>4. CASE Mem!RecordRead(t)
  <2>1. /\ job' = [job EXCEPT ![t] = Mem!Idle] /\ job[t].pc = "read"
        /\ job[t].entry \in Entry /\ job[t].ver \in Version \cup {None}
    BY <1>1, <1>4 DEF Mem!RecordRead, Mem!At, MemInv, MemTypes, Carrying, JobOfActor
  <2>2. Mem!Idle \in JobOfActor /\ Mem!Idle.pc = "idle"
    BY DEF Mem!Idle, JobOfActor, Step
  <2>3. StoreGrows
    BY <1>4, <2>1 DEF Mem!RecordRead, Mem!Record, StoreGrows, MemInv, MemTypes, BaseIsKnown
  <2> QED
    BY <1>1, <1>4, <2>1, <2>2, <2>3, BeginsKeepsMem DEF Mem!RecordRead, Listing
<1> QED
  BY <1>2, <1>3, <1>4

LEMMA ExtractorKeepsMem ==
  ASSUME MemInv, NEW x \in Task,
         \/ Mem!Extract(x) \/ Mem!TakeLock(x) \/ Mem!FinishExtraction(x)
         \/ \E e \in Entry, v \in Version : Mem!Propose(x, e, v)
  PROVE  MemInv'
<1>1. x \in Mem!Actor /\ job[x] \in JobOfActor
  BY DEF Mem!Actor, MemInv, MemTypes
<1>2. CASE Mem!Extract(x) \/ Mem!TakeLock(x) \/ Mem!FinishExtraction(x)
  <2>1. /\ Mem!StoreSame /\ Mem!DiskSame /\ Mem!StagingSame /\ job[x].pc \notin Listing
        /\ \/ job' = [job EXCEPT ![x] = Mem!Idle]
           \/ \E pc \in {"queued", "propose"} : job' = [job EXCEPT ![x] = [job[x] EXCEPT !.pc = pc]]
    BY <1>2
    DEF Mem!Extract, Mem!TakeLock, Mem!FinishExtraction, Mem!At, Mem!Goto, Listing, MemInv, MemTypes
  <2>2. /\ Mem!Idle \in JobOfActor /\ Mem!Idle.pc = "idle"
        /\ \A pc \in {"queued", "propose"} :
             [job[x] EXCEPT !.pc = pc] \in JobOfActor /\ [job[x] EXCEPT !.pc = pc].pc = pc
    BY <1>1 DEF Mem!Idle, JobOfActor, Step
  <2>3. PICK next \in JobOfActor :
          job' = [job EXCEPT ![x] = next] /\ next.pc \in {"idle", "queued", "propose"}
    BY <2>1, <2>2
  <2> QED
    BY <1>1, <2>1, <2>3, StoreMayStay, BeginsKeepsMem
<1>3. ASSUME NEW e \in Entry, NEW v \in Version, Mem!Propose(x, e, v) PROVE MemInv'
  BY <1>1, <1>3, WriteBegins DEF Mem!Propose, Mem!At, Listing
<1> QED
  BY <1>2, <1>3

(* The operator's commands, and the tool that stages a write.              *)
LEMMA CommandsKeepMem ==
  ASSUME MemInv, NEW c \in Cli,
         \/ \E s \in pending : Mem!Reject(c, s) \/ \E bypass \in BOOLEAN : Mem!Approve(c, s, bypass)
         \/ \E e \in Entry, v \in Version : Mem!Import(c, e, v)
  PROVE  MemInv'
<1>1. c \in Mem!Actor
  BY DEF Mem!Actor
<1>2. ASSUME NEW s \in pending, Mem!Reject(c, s) PROVE MemInv'
  <2> DEFINE next == [Mem!Idle EXCEPT !.pc = "reject", !.staged = s]
  <2>1. job' = [job EXCEPT ![c] = next] /\ job[c].pc \notin Listing
    BY <1>2 DEF Mem!Reject, Mem!At, Listing
  <2>2. next \in JobOfActor /\ next.pc = "reject"
    BY DEF Mem!Idle, JobOfActor, Step, MemInv, MemTypes
  <2> HIDE DEF next
  <2> QED
    BY <1>1, <1>2, <2>1, <2>2, StoreMayStay, BeginsKeepsMem DEF Mem!Reject
<1>3. ASSUME NEW s \in pending, NEW bypass \in BOOLEAN, Mem!Approve(c, s, bypass) PROVE MemInv'
  <2>1. s \in Id /\ staged[s].entry \in Entry /\ staged[s].ver \in Version
    BY DEF MemInv, MemTypes, Mem!Write
  <2> QED
    BY <1>1, <1>3, <2>1, WriteBegins DEF Mem!Approve, Mem!At, Listing
<1>4. ASSUME NEW e \in Entry, NEW v \in Version, Mem!Import(c, e, v) PROVE MemInv'
  BY <1>1, <1>4, WriteBegins DEF Mem!Import, Mem!At, Listing
<1> QED
  BY <1>2, <1>3, <1>4

LEMMA StagingKeepsMem ==
  ASSUME MemInv,
         \/ \E t \in Turn, e \in Entry, v \in Version, s \in Id : Mem!ToolStages(t, e, v, s)
         \/ \E c \in Cli : Mem!RemoveApproved(c) \/ Mem!RemoveRejected(c)
  PROVE  MemInv'
<1>1. ASSUME NEW t \in Turn, NEW e \in Entry, NEW v \in Version, NEW s \in Id,
             Mem!ToolStages(t, e, v, s)
      PROVE  MemInv'
  <2>1. /\ UNCHANGED <<file, index, raced, seen, known, job, landed, rejected>>
        /\ staged' = [staged EXCEPT ![s] = [entry |-> e, ver |-> v]]
        /\ pending' = pending \cup {s} /\ staged[s] = None
    BY <1>1 DEF Mem!ToolStages, Mem!DiskSame, Mem!StoreSame
  <2>2. /\ staged' \in [Id -> Mem!Write \cup {None}]
        /\ \A o \in Id \ {s} : staged'[o] = staged[o]
        /\ staged'[s] = [entry |-> e, ver |-> v]
    BY <2>1 DEF MemInv, MemTypes, Mem!Write
  <2>3. Mem!Files' = Mem!Files
    BY <2>1 DEF Mem!Files
  <2>4. MemTypes'
    <3>1. \A o \in pending' : o \in Id /\ staged'[o] \in Mem!Write
      BY <2>1, <2>2 DEF MemInv, MemTypes, Mem!Write
    <3> QED
      BY <2>1, <2>2, <3>1 DEF MemInv, MemTypes
  <2>5. Mem!StagedIsNotLost'
    BY <2>1, <2>2 DEF MemInv, LandedBeforeRemoved, Mem!StagedIsNotLost
  <2> QED
    BY <2>1, <2>3, <2>4, <2>5 DEF MemInv, IndexIsOnItsWay, LandedBeforeRemoved, BaseIsKnown, Mem!Indexing, Mem!At
<1>2. ASSUME NEW c \in Cli, Mem!RemoveApproved(c) \/ Mem!RemoveRejected(c) PROVE MemInv'
  <2>1. c \in Mem!Actor /\ job[c] \in JobOfActor
    BY DEF Mem!Actor, MemInv, MemTypes
  <2>2. /\ UNCHANGED <<file, index, raced, seen, known, staged, landed>>
        /\ job' = [job EXCEPT ![c] = Mem!Idle] /\ pending' = pending \ {job[c].staged}
        /\ job[c].pc \in {"remove", "reject"} /\ rejected \subseteq rejected'
        /\ job[c].pc = "reject" /\ job[c].staged \in pending => job[c].staged \in rejected'
    BY <1>2
    DEF Mem!RemoveApproved, Mem!RemoveRejected, Mem!DiskSame, Mem!StoreSame, Mem!At
  <2>3. Mem!Idle \in JobOfActor /\ Mem!Idle.pc = "idle"
    BY DEF Mem!Idle, JobOfActor, Step
  <2>4. /\ job'[c] = Mem!Idle /\ \A o \in Mem!Actor \ {c} : job'[o] = job[o]
        /\ job' \in [Mem!Actor -> JobOfActor] /\ Mem!Files' = Mem!Files
    BY <2>1, <2>2, <2>3 DEF MemInv, MemTypes, Mem!Files
  <2>5. MemTypes'
    <3>1. \A o \in Mem!Actor :
            job'[o].pc \in Carrying => job'[o].entry \in Entry
      BY <2>3, <2>4 DEF MemInv, MemTypes, Listing, Carrying
    <3>2. \A s \in pending' : s \in Id /\ staged'[s] \in Mem!Write
      BY <2>2 DEF MemInv, MemTypes
    <3> QED
      BY <2>2, <2>4, <3>1, <3>2 DEF MemInv, MemTypes
  <2>6. IndexIsOnItsWay'
    BY <2>2, <2>3, <2>4 DEF MemInv, IndexIsOnItsWay, Listing, Mem!Indexing, Mem!At
  <2>7. LandedBeforeRemoved'
    <3>1. job[c].pc = "remove" => job[c].staged \in landed
      BY <2>1 DEF MemInv, LandedBeforeRemoved
    <3>2. Mem!StagedIsNotLost'
      BY <2>2, <3>1 DEF MemInv, LandedBeforeRemoved, Mem!StagedIsNotLost
    <3> QED
      BY <2>2, <2>3, <2>4, <3>2 DEF MemInv, LandedBeforeRemoved, Listing
  <2>8. BaseIsKnown'
    <3>1. \A t \in Turn : t \in Mem!Actor
      BY DEF Mem!Actor
    <3> QED
      BY <2>2, <2>3, <2>4, <3>1 DEF MemInv, BaseIsKnown
  <2> QED
    BY <2>5, <2>6, <2>7, <2>8 DEF MemInv
<1> QED
  BY <1>1, <1>2

(* Who dies between an entry and the index leaves the entry raced; a       *)
(* restart takes what the turns knew with the turns.                       *)
LEMMA DeathsKeepMem ==
  ASSUME MemInv, Mem!Restart \/ \E c \in Cli : Mem!Kill(c) PROVE MemInv'
<1>1. PICK fallen \in SUBSET Mem!Actor :
        /\ job' = [w \in Mem!Actor |-> IF w \in fallen THEN Mem!Idle ELSE job[w]]
        /\ raced \cup Mem!Unindexed(fallen) \subseteq raced'
        /\ UNCHANGED <<file, index, pending, staged, landed, rejected>>
        /\ \/ UNCHANGED <<seen, known>>
           \/ /\ Turn \subseteq fallen
              /\ seen' = [e \in Entry |-> None] /\ known' = [e \in Entry |-> {}]
  <2>1. CASE Mem!Restart
    <3> DEFINE fallen == Mem!Actor \ Cli
    <3>1. job' = [w \in Mem!Actor |-> IF w \in fallen THEN Mem!Idle ELSE job[w]]
      BY <2>1 DEF Mem!Restart
    <3>2. Turn \subseteq fallen
      BY PartsAssumption DEF Mem!Actor
    <3>3. raced \cup Mem!Unindexed(fallen) \subseteq raced'
      BY <2>1 DEF Mem!Restart, Mem!Unindexed, Mem!Actor
    <3> QED
      BY <2>1, <3>1, <3>2, <3>3 DEF Mem!Restart, Mem!StagingSame
  <2>2. ASSUME NEW c \in Cli, Mem!Kill(c)
        PROVE  /\ job' = [w \in Mem!Actor |-> IF w \in {c} THEN Mem!Idle ELSE job[w]]
               /\ raced' = raced \cup Mem!Unindexed({c})
               /\ UNCHANGED <<file, index, pending, staged, landed, rejected, seen, known>>
    BY <2>2 DEF Mem!Kill, Mem!CutOff, Mem!StoreSame, Mem!StagingSame, MemInv, MemTypes
  <2> QED
    BY <2>1, <2>2 DEF Mem!Actor
<1>2. /\ Mem!Idle \in JobOfActor /\ Mem!Idle.pc = "idle"
  BY DEF Mem!Idle, JobOfActor, Step
<1>3. /\ job' \in [Mem!Actor -> JobOfActor]
      /\ \A w \in Mem!Actor : job'[w] = IF w \in fallen THEN Mem!Idle ELSE job[w]
  BY <1>1, <1>2 DEF MemInv, MemTypes
<1>4. /\ \A w \in fallen : job[w].pc \in Listing => job[w].entry \in raced'
      /\ Mem!Files' = Mem!Files
  BY <1>1 DEF Mem!Unindexed, Listing, Mem!At, Mem!Files
<1>5. MemTypes'
  <2>1. \A o \in Mem!Actor :
          job'[o].pc \in Carrying => job'[o].entry \in Entry
    BY <1>2, <1>3 DEF MemInv, MemTypes, Listing, Carrying
  <2>2. \A s \in pending' : s \in Id /\ staged'[s] \in Mem!Write
    BY <1>1 DEF MemInv, MemTypes
  <2>3. /\ seen' \in [Entry -> Version \cup {None}]
        /\ known' \in [Entry -> SUBSET (Version \cup {None})]
    BY <1>1 DEF MemInv, MemTypes
  <2> QED
    BY <1>1, <1>3, <2>1, <2>2, <2>3 DEF MemInv, MemTypes
<1>6. IndexIsOnItsWay'
  <2>1. raced \subseteq raced' /\ index' = index
    BY <1>1
  <2> QED
    BY <1>2, <1>3, <1>4, <2>1 DEF MemInv, IndexIsOnItsWay, Listing, Mem!Indexing, Mem!At
<1>7. LandedBeforeRemoved'
  <2>1. Mem!StagedIsNotLost'
    BY <1>1 DEF MemInv, LandedBeforeRemoved, Mem!StagedIsNotLost
  <2> QED
    BY <1>1, <1>2, <1>3, <2>1 DEF MemInv, LandedBeforeRemoved, Listing
<1>8. BaseIsKnown'
  <2>1. \A t \in Turn : t \in Mem!Actor
    BY DEF Mem!Actor
  <2> QED
    BY <1>1, <1>2, <1>3, <2>1 DEF MemInv, BaseIsKnown
<1> QED
  BY <1>5, <1>6, <1>7, <1>8 DEF MemInv

(* An editor changes what is there, and creates nothing.                   *)
LEMMA EditorKeepsMem ==
  ASSUME MemInv, NEW e \in Entry, NEW v \in Version, Mem!Edit(e, v) PROVE MemInv'
<1>1. /\ file' = [file EXCEPT ![e] = v] /\ file[e] # None
      /\ UNCHANGED <<index, raced, job, seen, known, pending, staged, landed, rejected>>
  BY DEF Mem!Edit, Mem!StoreSame, Mem!StagingSame
<1>2. Mem!Files' \subseteq Mem!Files /\ file' \in [Entry -> Version \cup {None}]
  BY <1>1 DEF Mem!Files, MemInv, MemTypes
<1>3. MemTypes'
  BY <1>1, <1>2 DEF MemInv, MemTypes
<1>4. IndexIsOnItsWay'
  BY <1>1, <1>2 DEF MemInv, IndexIsOnItsWay, Mem!Indexing, Mem!At
<1>5. LandedBeforeRemoved' /\ BaseIsKnown'
  BY <1>1 DEF MemInv, LandedBeforeRemoved, BaseIsKnown, Mem!StagedIsNotLost
<1> QED
  BY <1>3, <1>4, <1>5 DEF MemInv

(* A call that is cancelled, or fails, between an entry and the index      *)
(* leaves the entry raced.                                                 *)
LEMMA CutOffKeepsMem ==
  ASSUME MemInv,
         (\E t \in Turn : Mem!Cancel(t)) \/ \E w \in Mem!Actor : Mem!Fail(w)
  PROVE  MemInv'
<1>1. PICK w \in Mem!Actor, next \in JobOfActor :
        /\ job' = [job EXCEPT ![w] = next] /\ Mem!CutOff(w)
        /\ \/ next.pc \in {"idle", "propose"}
           \/ /\ next.pc = "late_land" /\ job[w].pc = "land"
              /\ next.entry = job[w].entry /\ next.base = job[w].base
              /\ next.disk = job[w].disk
           \/ /\ next.pc = "late_index" /\ job[w].pc = "index"
              /\ next.listed = job[w].listed /\ next.staged = job[w].staged
  <2>1. /\ Mem!Idle \in JobOfActor /\ Mem!Idle.pc = "idle"
        /\ [Mem!Idle EXCEPT !.pc = "propose"] \in JobOfActor
        /\ [Mem!Idle EXCEPT !.pc = "propose"].pc = "propose"
    BY DEF Mem!Idle, JobOfActor, Step
  <2>2. CASE \E w \in Mem!Actor : Mem!Fail(w)
    <3>1. PICK w \in Mem!Actor : Mem!Fail(w)
      BY <2>2
    <3>2. \/ job' = [job EXCEPT ![w] = Mem!Idle]
          \/ job' = [job EXCEPT ![w] = [Mem!Idle EXCEPT !.pc = "propose"]]
      BY <3>1 DEF Mem!Fail
    <3> QED
      BY <2>1, <3>1, <3>2 DEF Mem!Fail
  <2>3. CASE \E t \in Turn : Mem!Cancel(t)
    <3>1. PICK t \in Turn : Mem!Cancel(t)
      BY <2>3
    <3>2. t \in Mem!Actor /\ job[t] \in JobOfActor
      BY DEF Mem!Actor, MemInv, MemTypes
    <3>3. CASE job' = [job EXCEPT ![t] = Mem!Idle]
      BY <2>1, <3>1, <3>2, <3>3 DEF Mem!Cancel
    <3>4. CASE Mem!At(t, "land") /\ Mem!Goto(t, "late_land")
      <4> DEFINE next == [job[t] EXCEPT !.pc = "late_land"]
      <4>1. /\ next \in JobOfActor /\ next.pc = "late_land" /\ next.entry = job[t].entry
            /\ next.base = job[t].base /\ next.disk = job[t].disk
        BY <3>2 DEF JobOfActor, Step
      <4>2. job' = [job EXCEPT ![t] = next] /\ job[t].pc = "land"
        BY <3>4 DEF Mem!At, Mem!Goto
      <4> HIDE DEF next
      <4> QED
        BY <3>1, <3>2, <4>1, <4>2 DEF Mem!Cancel
    <3>5. CASE Mem!At(t, "index") /\ Mem!Goto(t, "late_index")
      <4> DEFINE next == [job[t] EXCEPT !.pc = "late_index"]
      <4>1. /\ next \in JobOfActor /\ next.pc = "late_index" /\ next.listed = job[t].listed
            /\ next.staged = job[t].staged
        BY <3>2 DEF JobOfActor, Step
      <4>2. job' = [job EXCEPT ![t] = next] /\ job[t].pc = "index"
        BY <3>5 DEF Mem!At, Mem!Goto
      <4> HIDE DEF next
      <4> QED
        BY <3>1, <3>2, <4>1, <4>2 DEF Mem!Cancel
    <3> QED
      BY <3>1, <3>3, <3>4, <3>5 DEF Mem!Cancel
  <2> QED
    BY <2>2, <2>3
<1>2. /\ job'[w] = next /\ \A o \in Mem!Actor \ {w} : job'[o] = job[o]
      /\ job' \in [Mem!Actor -> JobOfActor] /\ next.pc \notin Listing \cup {"remove"}
  BY <1>1 DEF MemInv, MemTypes, Listing
<1>3. /\ UNCHANGED <<file, index, seen, known, pending, staged, landed, rejected>>
      /\ raced' = raced \cup Mem!Unindexed({w}) /\ Mem!Files' = Mem!Files
  BY <1>1 DEF Mem!CutOff, Mem!StoreSame, Mem!StagingSame, Mem!Files
<1>4. job[w].pc \in Listing => job[w].entry \in raced'
  BY <1>3 DEF Mem!Unindexed, Mem!At, Listing
<1>5. MemTypes'
  <2>1. \A o \in Mem!Actor : job'[o].pc \in Carrying => job'[o].entry \in Entry
    BY <1>1, <1>2 DEF MemInv, MemTypes, Carrying, Listing
  <2> QED
    BY <1>2, <1>3, <2>1 DEF MemInv, MemTypes
<1>6. IndexIsOnItsWay'
  <2>1. \A o \in Mem!Actor : Mem!Indexing(o)' => Mem!Indexing(o) /\ job'[o].listed = job[o].listed
    BY <1>1, <1>2 DEF Mem!Indexing, Mem!At
  <2>2. \A o \in Mem!Actor : Mem!Indexing(o)' => (Mem!Files \ raced)' \subseteq job'[o].listed
    BY <1>3, <2>1 DEF MemInv, IndexIsOnItsWay
  <2>3. ASSUME NEW e \in (Mem!Files \ raced)'
        PROVE  e \in index' \/ \E o \in Mem!Actor : job'[o].pc \in Listing /\ job'[o].entry = e
    <3>1. e \in index \/ \E o \in Mem!Actor : job[o].pc \in Listing /\ job[o].entry = e
      BY <1>3, <2>3 DEF MemInv, IndexIsOnItsWay
    <3>2. \A o \in Mem!Actor : job[o].pc \in Listing /\ job[o].entry = e => o # w
      BY <1>4, <2>3
    <3> QED
      BY <1>2, <1>3, <3>1, <3>2
  <2> QED
    BY <2>2, <2>3 DEF IndexIsOnItsWay
<1>7. LandedBeforeRemoved'
  <2>1. Mem!StagedIsNotLost'
    BY <1>3 DEF MemInv, LandedBeforeRemoved, Mem!StagedIsNotLost
  <2> QED
    BY <1>1, <1>2, <1>3, <2>1 DEF MemInv, LandedBeforeRemoved, Listing
<1>8. BaseIsKnown'
  <2>1. \A t \in Turn : t \in Mem!Actor
    BY DEF Mem!Actor
  <2> QED
    BY <1>1, <1>2, <1>3, <2>1 DEF MemInv, BaseIsKnown
<1> QED
  BY <1>5, <1>6, <1>7, <1>8 DEF MemInv

LEMMA MemStep == ASSUME MemInv, [Next]_vars, part = "memory" PROVE MemInv'
<1>1. Mem!Next \/ UNCHANGED memoryState
  BY DEF Next, vars, turnState
<1>2. CASE UNCHANGED memoryState
  BY <1>2, MemStutters DEF memoryState
<1> QED
  BY <1>1, <1>2, WriteKeepsMem, LandKeepsMem, LandLateKeepsMem, IndexKeepsMem, ToolsKeepMem,
     ExtractorKeepsMem, CommandsKeepMem, StagingKeepsMem, DeathsKeepMem, CutOffKeepsMem,
     EditorKeepsMem
  DEF Mem!Next

(* The index misses only what was created beside another regeneration or   *)
(* by a writer that died, was cancelled or failed before it wrote the      *)
(* index, until a regeneration heals it; and a staged write stays on disk  *)
(* until somebody decided about it: whatever turns, extractors, commands,  *)
(* editors, cancellations, failures, kills and restarts do, none of which  *)
(* locks the tree.  For any number of them.                                *)
THEOREM MemoryKept == Spec => []MemoryIsKept
<1> DEFINE Inv == part = "memory" => MemInv
<1>1. Init => Inv
  BY MemBegins DEF Init
<1>2. Inv /\ [Next]_vars => Inv'
  BY PartStays, MemStep
<1>3. Inv => MemoryIsKept
  <2> SUFFICES ASSUME MemInv PROVE Mem!IndexMissesOnlyRaced /\ Mem!StagedIsNotLost
    BY DEF MemoryIsKept
  <2>1. Mem!IndexMissesOnlyRaced
    BY DEF MemInv, IndexIsOnItsWay, Listing, Mem!IndexMissesOnlyRaced, Mem!At, Mem!Indexing
  <2> QED
    BY <2>1 DEF MemInv, LandedBeforeRemoved
<1> QED
  BY <1>1, <1>2, <1>3, PTL DEF Spec

-----------------------------------------------------------------------------
(* The shared file: what the gate lets pass, and everything a later write  *)
(* can be computed from, was shown to the thread, with the two exceptions  *)
(* that Files names.                                                       *)

FileTypes ==
  /\ record \in [Chat -> Shared!Record]
  /\ read \in [Chat -> BOOLEAN]
  /\ tool \in [Chat -> Shared!Call]
  /\ crossed \in [Chat -> BOOLEAN]

(* What the gate lets pass was shown, ...                                  *)
RecordIsTrue(c) == record[c].view = "all" /\ record[c].matches => read[c] \/ crossed[c]

(* ... so was what an Edit past the gate reads, and what it has written,   *)
EditIsTrue(c) ==
  tool[c].kind = "edit" =>
    /\ tool[c].at = "writing" => tool[c].text \/ crossed[c]
    /\ tool[c].at # "writing" => read[c] \/ crossed[c]

(* ... and what Read is about to record was.                               *)
ReadIsTrue(c) ==
  tool[c].kind = "read" /\ tool[c].at = "recording" /\ tool[c].meta => tool[c].text \/ tool[c].blind

Informed(c) == RecordIsTrue(c) /\ EditIsTrue(c) /\ ReadIsTrue(c)

FilesInv == FileTypes /\ \A c \in Chat : Informed(c)

-----------------------------------------------------------------------------
(* A call that is replaced by one of the right kind stays in its range.    *)
LEMMA FileCalls ==
  /\ Shared!Idle \in Shared!Call
  /\ \A kind \in {"none", "read", "edit", "write"},
           at \in {"none", "reading", "recording", "writing"} :
       Shared!At(kind, at) \in Shared!Call
  /\ \A call \in Shared!Call, noticed \in BOOLEAN : Shared!Disturbed(call, noticed) \in Shared!Call
<1>1. \A kind \in {"none", "read", "edit", "write"},
         at \in {"none", "reading", "recording", "writing"} :
        Shared!At(kind, at) \in Shared!Call
  BY DEF Shared!At, Shared!Call
<1>2. Shared!Idle \in Shared!Call
  BY <1>1 DEF Shared!Idle
<1>3. ASSUME NEW call \in Shared!Call, NEW noticed \in BOOLEAN
      PROVE  Shared!Disturbed(call, noticed) \in Shared!Call
  BY DEF Shared!Disturbed, Shared!Call
<1> QED BY <1>1, <1>2, <1>3

(* What a write does to one chat, however it is known.                     *)
LEMMA ChangesOf ==
  ASSUME FilesInv, NEW by, NEW knowing, NEW next \in Shared!Call, Shared!Changes(by, knowing, next)
  PROVE  /\ FileTypes'
         /\ \E noticed \in BOOLEAN : \A c \in Chat :
              /\ read'[c] <=> c \in knowing
              /\ record'[c] = [record[c] EXCEPT !.matches = @ /\ ~noticed]
              /\ crossed'[c] <=> \/ crossed[c]
                                 \/ ~noticed /\ record[c].matches
                                 \/ c \notin by /\ tool[c].kind = "edit"
              /\ tool'[c] = IF c \in by THEN next ELSE Shared!Disturbed(tool[c], noticed)
<1>1. PICK noticed \in BOOLEAN :
        /\ record' = [c \in Chat |-> [record[c] EXCEPT !.matches = @ /\ ~noticed]]
        /\ crossed' = [c \in Chat |->
             \/ crossed[c]
             \/ ~noticed /\ record[c].matches
             \/ c \notin by /\ tool[c].kind = "edit"]
        /\ tool' = [c \in Chat |-> IF c \in by THEN next ELSE Shared!Disturbed(tool[c], noticed)]
  BY DEF Shared!Changes
<1>2. read' = [c \in Chat |-> c \in knowing]
  BY DEF Shared!Changes
<1>3. record' \in [Chat -> Shared!Record]
  <2>1. ASSUME NEW c \in Chat PROVE [record[c] EXCEPT !.matches = @ /\ ~noticed] \in Shared!Record
    BY DEF FilesInv, FileTypes, Shared!Record
  <2> QED BY <1>1, <2>1
<1>4. tool' \in [Chat -> Shared!Call]
  <2>1. ASSUME NEW c \in Chat PROVE Shared!Disturbed(tool[c], noticed) \in Shared!Call
    BY FileCalls DEF FilesInv, FileTypes
  <2> QED BY <1>1, <2>1
<1>5. read' \in [Chat -> BOOLEAN] /\ crossed' \in [Chat -> BOOLEAN]
  BY <1>1, <1>2
<1>6. FileTypes'
  BY <1>3, <1>4, <1>5 DEF FileTypes
<1> QED BY <1>1, <1>2, <1>6

(* A chat that did not make the write stays informed.                      *)
LEMMA OthersStayInformed ==
  ASSUME FilesInv, NEW by, NEW knowing, NEW next \in Shared!Call, Shared!Changes(by, knowing, next),
         NEW c \in Chat, c \notin by
  PROVE  Informed(c)'
<1>1. PICK noticed \in BOOLEAN :
        /\ record'[c] = [record[c] EXCEPT !.matches = @ /\ ~noticed]
        /\ crossed'[c] <=> \/ crossed[c]
                           \/ ~noticed /\ record[c].matches
                           \/ tool[c].kind = "edit"
        /\ tool'[c] = Shared!Disturbed(tool[c], noticed)
  BY ChangesOf
<1>2. record[c] \in Shared!Record /\ tool[c] \in Shared!Call
  BY DEF FilesInv, FileTypes
<1>3. RecordIsTrue(c)'
  BY <1>1, <1>2 DEF RecordIsTrue, Shared!Record
<1>4. EditIsTrue(c)'
  BY <1>1, <1>2 DEF EditIsTrue, Shared!Disturbed, Shared!Call
<1>5. ReadIsTrue(c)'
  BY <1>1, <1>2 DEF ReadIsTrue, Shared!Disturbed, Shared!Call
<1> QED BY <1>3, <1>4, <1>5 DEF Informed

(* The chat that made it knows what its file is now, and what it did not   *)
(* know before is not forgotten.                                           *)
LEMMA WriterSees ==
  ASSUME FilesInv, NEW by, NEW knowing, NEW next \in Shared!Call, Shared!Changes(by, knowing, next),
         NEW c \in Chat, c \in by
  PROVE  /\ read'[c] <=> c \in knowing
         /\ crossed[c] => crossed'[c]
         /\ tool'[c] = next
<1>1. PICK noticed \in BOOLEAN :
        /\ crossed' = [d \in Chat |->
             \/ crossed[d]
             \/ ~noticed /\ record[d].matches
             \/ d \notin by /\ tool[d].kind = "edit"]
        /\ tool' = [d \in Chat |-> IF d \in by THEN next ELSE Shared!Disturbed(tool[d], noticed)]
  BY DEF Shared!Changes
<1>2. read'[c] <=> c \in knowing
  BY DEF Shared!Changes
<1>3. crossed[c] => crossed'[c]
  BY <1>1
<1>4. tool'[c] = next
  BY <1>1
<1> QED BY <1>2, <1>3, <1>4

(* A write of nobody's turn keeps the invariant.                           *)
LEMMA StrangersKeep ==
  ASSUME FilesInv, Shared!Changes({}, {}, Shared!Idle)
  PROVE  FilesInv'
<1>1. FileTypes'
  BY ChangesOf, FileCalls
<1>2. \A c \in Chat : Informed(c)'
  BY OthersStayInformed, FileCalls
<1> QED BY <1>1, <1>2 DEF FilesInv

(* A step that changes one chat only.                                      *)
LEMMA OneChat ==
  ASSUME FilesInv, FileTypes', NEW c \in Chat, Informed(c)',
         \A d \in Chat \ {c} : /\ record'[d] = record[d] /\ read'[d] = read[d]
                               /\ tool'[d] = tool[d] /\ crossed'[d] = crossed[d]
  PROVE  FilesInv'
<1>1. ASSUME NEW d \in Chat \ {c} PROVE Informed(d)'
  BY DEF FilesInv, Informed, RecordIsTrue, EditIsTrue, ReadIsTrue
<1> QED BY <1>1 DEF FilesInv

-----------------------------------------------------------------------------
(* One lemma for each tool.                                                *)
LEMMA ReadKeeps ==
  ASSUME FilesInv, NEW c \in Chat, Shared!ReadLooks(c) \/ Shared!ReadReads(c)
           \/ Shared!ReadRecords(c)
  PROVE  FilesInv'
<1> USE DEF FilesInv, FileTypes
<1>1. CASE Shared!ReadLooks(c)
  <2>1. tool'[c] = [Shared!At("read", "reading") EXCEPT !.meta = TRUE] /\ tool'[c] \in Shared!Call
    BY <1>1 DEF Shared!ReadLooks, Shared!At, Shared!Call
  <2>2. FileTypes'
    BY <1>1, <2>1 DEF Shared!ReadLooks
  <2>3. Informed(c)'
    BY <1>1, <2>1 DEF Shared!ReadLooks, Informed, RecordIsTrue, EditIsTrue, ReadIsTrue, Shared!At
  <2> QED BY <1>1, <2>2, <2>3, OneChat DEF Shared!ReadLooks
<1>2. CASE Shared!ReadReads(c)
  <2>1. tool[c] \in Shared!Call
    OBVIOUS
  <2>2. tool'[c] = (IF there THEN [tool[c] EXCEPT !.at = "recording", !.text = TRUE]
           ELSE Shared!Idle)
    BY <1>2 DEF Shared!ReadReads
  <2>3. tool'[c] \in Shared!Call /\ tool'[c].kind # "edit"
           /\ (tool'[c].kind = "read" => tool'[c].text)
    <3>1. CASE there
      <4>1. tool'[c] = [tool[c] EXCEPT !.at = "recording", !.text = TRUE] /\ tool[c].kind = "read"
        BY <1>2, <2>2, <3>1 DEF Shared!ReadReads
      <4> QED BY <2>1, <4>1 DEF Shared!Call
    <3>2. CASE ~there
      <4>1. tool'[c] = Shared!Idle
        BY <2>2, <3>2
      <4> QED BY <4>1, FileCalls DEF Shared!Idle, Shared!At
    <3> QED BY <3>1, <3>2
  <2>4. FileTypes'
    BY <1>2, <2>3 DEF Shared!ReadReads
  <2>5. Informed(c)'
    BY <1>2, <2>3 DEF Shared!ReadReads, Informed, RecordIsTrue, EditIsTrue, ReadIsTrue
  <2> QED BY <1>2, <2>4, <2>5, OneChat DEF Shared!ReadReads
<1>3. CASE Shared!ReadRecords(c)
  <2>1. PICK view \in {"all", "slice"} :
          /\ record' = [record EXCEPT ![c] = [view |-> view, matches |-> Shared!RecordMatches(c)]]
          /\ read' = [read EXCEPT ![c] = @ \/ (view = "all" /\ tool[c].text)]
    BY <1>3 DEF Shared!ReadRecords
  <2>2. tool[c] \in Shared!Call
    OBVIOUS
  <2>3. crossed' = [crossed EXCEPT ![c] = tool[c].blind] /\ tool' = [tool EXCEPT ![c] = Shared!Idle]
    BY <1>3 DEF Shared!ReadRecords
  <2>4. record'[c] \in Shared!Record
    BY <2>1, <2>2 DEF Shared!Record, Shared!RecordMatches, Shared!Call
  <2>5. FileTypes'
    BY <2>1, <2>2, <2>3, <2>4, FileCalls DEF Shared!Call
  <2>6. RecordIsTrue(c)'
    BY <1>3, <2>1, <2>2, <2>3
    DEF Shared!ReadRecords, RecordIsTrue, Shared!RecordMatches, Informed, ReadIsTrue, Shared!Call
  <2>7. Informed(c)'
    BY <2>3, <2>6 DEF Informed, EditIsTrue, ReadIsTrue, Shared!Idle, Shared!At
  <2> QED BY <2>1, <2>3, <2>5, <2>7, OneChat
<1> QED BY <1>1, <1>2, <1>3

LEMMA EditKeeps ==
  ASSUME FilesInv, NEW c \in Chat, Shared!EditLooks(c) \/ Shared!EditReads(c)
           \/ Shared!EditWrites(c) \/ Shared!EditRecords(c)
  PROVE  FilesInv'
<1> USE DEF FilesInv, FileTypes
<1>1. CASE Shared!EditLooks(c)
  <2>1. tool'[c] = Shared!At("edit", "reading")
    BY <1>1 DEF Shared!EditLooks
  <2>2. FileTypes'
    BY <1>1, FileCalls DEF Shared!EditLooks
  <2>3. read[c] \/ crossed[c]
    BY <1>1 DEF Shared!EditLooks, Shared!MayEdit, Informed, RecordIsTrue
  <2>4. Informed(c)'
    BY <1>1, <2>1, <2>3
    DEF Shared!EditLooks, Informed, RecordIsTrue, EditIsTrue, ReadIsTrue, Shared!At
  <2> QED BY <1>1, <2>2, <2>4, OneChat DEF Shared!EditLooks
<1>2. CASE Shared!EditReads(c)
  <2>1. read[c] \/ crossed[c]
    BY <1>2 DEF Shared!EditReads, Informed, EditIsTrue
  <2>2. CASE tool' = [tool EXCEPT ![c] = Shared!Idle]
    <3>1. FileTypes'
      BY <1>2, <2>2, FileCalls DEF Shared!EditReads
    <3>2. Informed(c)'
      BY <1>2, <2>2
      DEF Shared!EditReads, Informed, RecordIsTrue, EditIsTrue, ReadIsTrue, Shared!Idle, Shared!At
    <3> QED BY <1>2, <2>2, <3>1, <3>2, OneChat DEF Shared!EditReads
  <2>3. CASE tool' = [tool EXCEPT ![c] = [Shared!At("edit", "writing") EXCEPT !.text = read[c]]]
    <3>1. tool'[c] = [Shared!At("edit", "writing") EXCEPT !.text = read[c]]
      BY <2>3
    <3>2. tool'[c] \in Shared!Call /\ tool'[c].kind = "edit" /\ tool'[c].at = "writing"
             /\ tool'[c].text = read[c]
      BY <3>1 DEF Shared!At, Shared!Call
    <3>3. FileTypes'
      BY <1>2, <2>3, <3>2 DEF Shared!EditReads
    <3>4. Informed(c)'
      BY <1>2, <2>1, <3>2 DEF Shared!EditReads, Informed, RecordIsTrue, EditIsTrue, ReadIsTrue
    <3> QED BY <1>2, <2>3, <3>3, <3>4, OneChat DEF Shared!EditReads
  <2> QED BY <1>2, <2>2, <2>3 DEF Shared!EditReads
<1>3. CASE Shared!EditWrites(c)
  <2> DEFINE knowing == IF tool[c].text THEN {c} ELSE {}
             next == Shared!At("edit", "recording")
  <2>1. Shared!Changes({c}, knowing, next) /\ next \in Shared!Call
    BY <1>3, FileCalls DEF Shared!EditWrites, Shared!Lands
  <2> HIDE DEF knowing, next
  <2>2. FileTypes'
    BY <2>1, ChangesOf
  <2>3. /\ read'[c] <=> c \in knowing
        /\ crossed[c] => crossed'[c]
        /\ tool'[c] = next
    BY <2>1, WriterSees
  <2>4. read'[c] \/ crossed'[c]
    BY <1>3, <2>3 DEF knowing, Shared!EditWrites, Informed, EditIsTrue
  <2>5. tool'[c].kind = "edit" /\ tool'[c].at = "recording"
    BY <2>3 DEF next, Shared!At
  <2>6. Informed(c)'
    BY <2>4, <2>5 DEF Informed, RecordIsTrue, EditIsTrue, ReadIsTrue
  <2>7. \A d \in Chat \ {c} : Informed(d)'
    BY <2>1, OthersStayInformed
  <2> QED BY <2>2, <2>6, <2>7
<1>4. CASE Shared!EditRecords(c)
  <2>1. read[c] \/ crossed[c]
    BY <1>4 DEF Shared!EditRecords, Informed, EditIsTrue
  <2>2. tool'[c] = Shared!Idle /\ record' \in [Chat -> Shared!Record]
    BY <1>4 DEF Shared!EditRecords, Shared!Record
  <2>3. FileTypes'
    BY <1>4, <2>2, FileCalls DEF Shared!EditRecords
  <2>4. Informed(c)'
    BY <1>4, <2>1, <2>2
    DEF Shared!EditRecords, Informed, RecordIsTrue, EditIsTrue, ReadIsTrue, Shared!Idle, Shared!At
  <2>5. \A d \in Chat \ {c} : record'[d] = record[d] /\ tool'[d] = tool[d]
    BY <1>4 DEF Shared!EditRecords
  <2> QED BY <1>4, <2>3, <2>4, <2>5, OneChat DEF Shared!EditRecords
<1> QED BY <1>1, <1>2, <1>3, <1>4

LEMMA WriteKeeps ==
  ASSUME FilesInv, NEW c \in Chat, Shared!WriteStarts(c) \/ Shared!WriteLands(c)
  PROVE  FilesInv'
<1> USE DEF FilesInv, FileTypes
<1>1. CASE Shared!WriteStarts(c)
  <2>1. FileTypes' /\ tool'[c] = Shared!At("write", "writing")
    BY <1>1, FileCalls DEF Shared!WriteStarts
  <2>2. Informed(c)'
    BY <1>1, <2>1 DEF Shared!WriteStarts, Informed, RecordIsTrue, EditIsTrue, ReadIsTrue, Shared!At
  <2> QED BY <1>1, <2>1, <2>2, OneChat DEF Shared!WriteStarts
<1>2. CASE Shared!WriteLands(c)
  <2>1. Shared!Changes({c}, {c}, Shared!Idle) /\ Shared!Idle \in Shared!Call
    BY <1>2, FileCalls DEF Shared!WriteLands, Shared!Lands
  <2>2. FileTypes' /\ read'[c] /\ tool'[c] = Shared!Idle
    <3>1. FileTypes'
      BY <2>1, ChangesOf
    <3>2. read'[c] /\ tool'[c] = Shared!Idle
      BY <2>1, WriterSees
    <3> QED BY <3>1, <3>2
  <2>3. Informed(c)'
    BY <2>2 DEF Informed, RecordIsTrue, EditIsTrue, ReadIsTrue, Shared!Idle, Shared!At
  <2>4. \A d \in Chat \ {c} : Informed(d)'
    BY <2>1, OthersStayInformed
  <2> QED BY <2>2, <2>3, <2>4
<1> QED BY <1>1, <1>2

LEMMA CancelKeeps ==
  ASSUME FilesInv, NEW c \in Chat, Shared!Cancel(c)
  PROVE  FilesInv'
<1>1. FileTypes' /\ tool'[c] = Shared!Idle
  BY FileCalls DEF FilesInv, FileTypes, Shared!Cancel
<1>2. Informed(c)'
  BY <1>1
  DEF FilesInv, Shared!Cancel, Informed, RecordIsTrue, EditIsTrue, ReadIsTrue, Shared!Idle,
      Shared!At
<1> QED BY <1>1, <1>2, OneChat DEF FilesInv, FileTypes, Shared!Cancel

LEMMA RestartKeeps ==
  ASSUME FilesInv, Shared!Restart
  PROVE  FilesInv'
<1>1. FileTypes'
  BY FileCalls DEF FilesInv, FileTypes, Shared!Restart, Shared!NoRecord, Shared!Record
<1>2. ASSUME NEW c \in Chat PROVE Informed(c)'
  BY
  DEF Shared!Restart, Informed, RecordIsTrue, EditIsTrue, ReadIsTrue, Shared!NoRecord,
      Shared!Idle, Shared!At
<1> QED BY <1>1, <1>2 DEF FilesInv

-----------------------------------------------------------------------------
LEMMA FilesBegin == ASSUME Shared!Init PROVE FilesInv
<1>1. FileTypes
  BY FileCalls DEF Shared!Init, FileTypes, Shared!NoRecord, Shared!Record
<1>2. ASSUME NEW c \in Chat PROVE Informed(c)
  BY
  DEF Shared!Init, Informed, RecordIsTrue, EditIsTrue, ReadIsTrue, Shared!NoRecord, Shared!Idle,
      Shared!At
<1> QED BY <1>1, <1>2 DEF FilesInv

LEMMA FilesNext == ASSUME FilesInv, [Shared!Next]_(Shared!fileVars) PROVE FilesInv'
<1>1. CASE UNCHANGED Shared!fileVars
  BY <1>1 DEF FilesInv, FileTypes, Informed, RecordIsTrue, EditIsTrue, ReadIsTrue, Shared!fileVars
<1>2. CASE \E c \in Chat : Shared!ReadLooks(c) \/ Shared!ReadReads(c) \/ Shared!ReadRecords(c)
  BY <1>2, ReadKeeps
<1>3. CASE \E c \in Chat : Shared!EditLooks(c) \/ Shared!EditReads(c)
         \/ Shared!EditWrites(c) \/ Shared!EditRecords(c)
  BY <1>3, EditKeeps
<1>4. CASE \E c \in Chat : Shared!WriteStarts(c) \/ Shared!WriteLands(c) \/ Shared!Cancel(c)
  BY <1>4, WriteKeeps, CancelKeeps
<1>5. CASE Shared!Stage \/ Shared!Command \/ Shared!AbandonedLands
  BY <1>5, StrangersKeep DEF Shared!Stage, Shared!Command, Shared!AbandonedLands, Shared!Lands
<1>6. CASE Shared!Restart
  BY <1>6, RestartKeeps
<1> QED BY <1>1, <1>2, <1>3, <1>4, <1>5, <1>6 DEF Shared!Next

LEMMA FilesStep == ASSUME FilesInv, [Next]_vars, part = "files" PROVE FilesInv'
<1>1. Shared!Next \/ UNCHANGED fileState
  BY DEF Next, vars, serverState
<1>2. [Shared!Next]_(Shared!fileVars)
  BY <1>1 DEF fileState, Shared!fileVars
<1> QED
  BY <1>2, FilesNext

(* A turn overwrites no memory that no tool of this server has read or     *)
(* written, and an Edit no file its thread was not shown, but for what     *)
(* comes between a check and its write and what a store or the metadata    *)
(* cannot tell.  For any number of turns, chats, entries and contents.     *)
THEOREM KnownIsOverwritten == Spec => OnlyKnownIsOverwritten
<1> DEFINE Inv == (part = "memory" => MemInv) /\ (part = "files" => FilesInv)
<1>1. Init => Inv
  BY MemBegins, FilesBegin DEF Init
<1>2. Inv /\ [Next]_vars => Inv'
  BY PartStays, MemStep, FilesStep
<1>3. Inv /\ [Next]_vars =>
        [\A t \in Turn : Mem!Land(t) \/ Mem!LandLate(t) =>
           LET e == job[t].entry IN
           \/ job[t].base = None \/ file[e] # job[t].disk
           \/ file[e] = None \/ file[e] \in known[e]]_Mem!vars
  <2>1. [Next]_vars /\ part # "memory" => UNCHANGED Mem!vars
    BY DEF Next, vars, turnState, memoryState, Mem!vars, OnlyThread, OnlyBatch, OnlyPool,
           OnlySched, OnlyText, OnlyCards, OnlyLark, OnlyReply, OnlyFiles, OnlyDb, OnlyFence,
           OnlyTurn, OnlyPlugin, OnlyServer
  <2>2. ASSUME MemInv, NEW t \in Turn, Mem!Land(t) \/ Mem!LandLate(t), job[t].base # None,
               file[job[t].entry] = job[t].disk, file[job[t].entry] # None
        PROVE  file[job[t].entry] \in known[job[t].entry]
    BY <2>2 DEF MemInv, BaseIsKnown, Mem!At, Mem!Land, Mem!LandLate
  <2> QED
    BY <2>1, <2>2
<1>4. Inv => (part = "files" => Shared!EditsAreInformed)
  BY DEF FilesInv, Informed, EditIsTrue, Shared!EditsAreInformed
<1> QED
  BY <1>1, <1>2, <1>3, <1>4, PTL
  DEF Spec, OnlyKnownIsOverwritten, Mem!OnlyKnownIsOverwritten

-----------------------------------------------------------------------------
(* ToolBatch: what the reads of one response return.                       *)

BeforeRun == {"connecting", "streaming", "joining", "resend"}
Progress  == {"todo", "asking", "running", "done"}

EarlyCall == [attempt : Nat, call : Nat, parts : Nat, done : BOOLEAN, saw : SUBSET Nat]

BatchTypes ==
  /\ phase \in BeforeRun \cup {"running", "answered", "failed"}
  /\ calls \in Seq([kind : Kinds, parts : 1 .. MaxParts])
  /\ preruns \subseteq EarlyCall
  /\ arrived \in Seq(Nat) /\ Len(arrived) <= Len(calls)
  /\ attempt \in Nat /\ barrier \in BOOLEAN
  /\ phase = "streaming" => open \in 0 .. Len(arrived) /\ ended \subseteq DOMAIN arrived
  /\ phase \in BeforeRun => status = <<>> /\ marks = {}
  /\ marks \subseteq Nat
  /\ phase = "running" => Len(calls) = Len(arrived)
  /\ phase = "running" \/ status # <<>> =>
       status \in [DOMAIN arrived -> Progress] /\ DOMAIN result = DOMAIN arrived

(* Only the call that was opened last may still get parts, and as long as  *)
(* there is no barrier every call that has ended may run early.            *)
ClosedInOrder ==
  phase = "streaming" =>
    /\ open \notin ended /\ DOMAIN arrived \subseteq ended \cup {open}
    /\ ~barrier => \A j \in ended : calls[j].kind \in Batch!Streamable

(* An early execution of this attempt has the whole input, only reads      *)
(* before it, and is over before anything is written.                      *)
EarlyIsInOrder ==
  \A p \in preruns :
    /\ p.attempt <= attempt
    /\ p.attempt = attempt /\ phase # "failed" =>
         /\ phase # "connecting" /\ p.call \in DOMAIN arrived /\ p.parts = arrived[p.call]
         /\ phase = "streaming" => p.call \in ended
         /\ p.saw = {} /\ (phase \in {"running", "answered"} => p.done)
         /\ \A j \in 1 .. p.call - 1 : calls[j].kind \in Batch!ReadOnly

(* A call starts after those before it are done, but for reads next to it. *)
StartedInOrder ==
  phase = "running" =>
    \A i \in DOMAIN status : status[i] # "todo" =>
      \A j \in 1 .. i - 1 :
        status[j] = "done" \/ (status[j] # "todo" /\ Batch!SameSegment(j, i))

MarksAreOfWrites ==
  phase = "running" =>
    \A k \in marks : /\ k \in DOMAIN status /\ status[k] = "done"
                     /\ calls[k].kind \notin Batch!ReadOnly

ResultsAreOfDone ==
  phase = "running" => \A i \in DOMAIN status : Batch!Ran(i) => status[i] = "done"

BatchInv ==
  /\ BatchTypes /\ ClosedInOrder /\ EarlyIsInOrder /\ StartedInOrder /\ MarksAreOfWrites
  /\ ResultsAreOfDone /\ Batch!AsIfInOrder

LEMMA BatchBegins == Batch!Init => BatchInv
<1> SUFFICES ASSUME Batch!Init PROVE BatchInv
  OBVIOUS
<1>1. /\ Len(calls) = 0 /\ Len(arrived) = 0 /\ arrived \in Seq(Nat) /\ preruns = {}
      /\ calls \in Seq([kind : Kinds, parts : 1 .. MaxParts])
      /\ phase = "connecting" /\ attempt = 0 /\ barrier = FALSE /\ status = <<>> /\ marks = {}
  BY DEF Batch!Init
<1>2. BatchTypes
  <2>1. /\ phase \in BeforeRun /\ attempt \in Nat /\ marks \subseteq Nat
        /\ preruns \subseteq EarlyCall
    BY <1>1 DEF BeforeRun
  <2>2. Len(arrived) <= Len(calls)
    BY <1>1
  <2>3. phase # "running" /\ status = <<>>
    BY <1>1
  <2> QED
    BY <1>1, <2>1, <2>2, <2>3 DEF BatchTypes
<1>3. ClosedInOrder /\ EarlyIsInOrder
  BY <1>1 DEF ClosedInOrder, EarlyIsInOrder
<1>4. StartedInOrder /\ MarksAreOfWrites /\ ResultsAreOfDone /\ Batch!AsIfInOrder
  BY <1>1 DEF StartedInOrder, MarksAreOfWrites, ResultsAreOfDone, Batch!AsIfInOrder
<1> QED
  BY <1>2, <1>3, <1>4 DEF BatchInv

LEMMA ResponsesAreCalls ==
  ASSUME NEW r \in Batch!Responses
  PROVE  /\ r \in Seq([kind : Kinds, parts : 1 .. MaxParts])
         /\ [i \in DOMAIN r |-> r[i].parts] \in Seq(Nat)
         /\ Len([i \in DOMAIN r |-> r[i].parts]) = Len(r)
<1>1. PICK n \in 0 .. MaxCalls : r \in [1 .. n -> [kind : Kinds, parts : 1 .. MaxParts]]
  BY DEF Batch!Responses
<1>2. n \in Nat /\ DOMAIN r = 1 .. n
  BY <1>1, PartsAssumption
<1>3. r \in Seq([kind : Kinds, parts : 1 .. MaxParts]) /\ Len(r) = n
  <2> DEFINE S == [kind : Kinds, parts : 1 .. MaxParts]
  <2>1. r \in [1 .. n -> S] /\ n \in Nat
    BY <1>1, <1>2
  <2> HIDE DEF S
  <2>2. r \in Seq(S) /\ Len(r) = n
    BY <2>1
  <2> QED
    BY <2>2 DEF S
<1>4. [i \in 1 .. n |-> r[i].parts] \in [1 .. n -> Nat]
  BY <1>1, PartsAssumption
<1> QED
  BY <1>2, <1>3, <1>4, SMTT(60)

(* A block that ends closes the only call that was open, and starts it     *)
(* early when nothing before it has to wait for its turn.                  *)
LEMMA ClosingKeepsOrder ==
  ASSUME BatchInv, phase = "streaming", Batch!CloseCurrent
  PROVE  /\ ended' = DOMAIN arrived /\ barrier' \in BOOLEAN
         /\ ~barrier' => \A j \in ended' : calls[j].kind \in Batch!Streamable
         /\ preruns' \subseteq EarlyCall
         /\ \A p \in preruns' : \/ p \in preruns
                                \/ /\ p.attempt = attempt /\ p.call \in DOMAIN arrived
                                   /\ p.parts = arrived[p.call] /\ p.saw = {}
                                   /\ \A j \in 1 .. p.call - 1 : calls[j].kind \in Batch!ReadOnly
<1> DEFINE first == open # 0 /\ open \notin ended
           early == first /\ ~barrier /\ calls[open].kind \in Batch!Streamable
<1>1. /\ open \in 0 .. Len(arrived) /\ ended \subseteq DOMAIN arrived /\ open \notin ended
      /\ DOMAIN arrived \subseteq ended \cup {open} /\ DOMAIN arrived = 1 .. Len(arrived)
      /\ ~barrier => \A j \in ended : calls[j].kind \in Batch!Streamable
      /\ barrier \in BOOLEAN /\ attempt \in Nat /\ arrived \in Seq(Nat) /\ Len(arrived) \in Nat
  BY DEF BatchInv, BatchTypes, ClosedInOrder
<1>2. ended' = ended \cup ({open} \ {0})
  BY DEF Batch!CloseCurrent
<1>3. ended' = DOMAIN arrived
  BY <1>1, <1>2
<1>4. barrier' = (barrier \/ (first /\ calls[open].kind \notin Batch!Streamable))
  BY DEF Batch!CloseCurrent
<1>5. ~barrier' => \A j \in ended' : calls[j].kind \in Batch!Streamable
  BY <1>1, <1>2, <1>4
<1>6. \A p \in preruns' : p \in preruns \/ (early /\ p = Batch!Prerun(open))
  BY DEF Batch!CloseCurrent
<1>7. early => /\ open \in 1 .. Len(arrived)
               /\ \A j \in 1 .. open - 1 : calls[j].kind \in Batch!ReadOnly
  <2> SUFFICES ASSUME early PROVE /\ open \in 1 .. Len(arrived)
                                  /\ \A j \in 1 .. open - 1 : j \in ended
    BY <1>1 DEF Batch!Streamable
  <2> QED
    BY <1>1
<1>8. early => Batch!Prerun(open) \in EarlyCall
  BY <1>1, <1>7 DEF Batch!Prerun, EarlyCall
<1>9. preruns' \subseteq EarlyCall
  BY <1>6, <1>8 DEF BatchInv, BatchTypes
<1> QED
  BY <1>1, <1>3, <1>4, <1>5, <1>6, <1>7, <1>9 DEF Batch!Prerun

(* Nothing runs before the response is whole.                              *)
LEMMA NothingRan ==
  ASSUME BatchInv, phase \in BeforeRun, phase' # "running", UNCHANGED <<status, result, marks>>
  PROVE  /\ status' = <<>> /\ marks' = {}
         /\ (StartedInOrder /\ MarksAreOfWrites /\ ResultsAreOfDone /\ Batch!AsIfInOrder)'
  BY DEF BatchInv, BatchTypes, StartedInOrder, MarksAreOfWrites, ResultsAreOfDone,
         Batch!AsIfInOrder, BeforeRun

LEMMA ConnectingKeepsOrder ==
  ASSUME BatchInv, \/ Batch!ConnectFails \/ Batch!StreamInterrupted
                   \/ Batch!ResendFails \/ Batch!EndOfBody
                   \/ \E r \in Batch!Responses : Batch!Connected(r)
  PROVE  BatchInv'
<1> USE DEF Batch!batch, Batch!stream
<1>1. phase \in BeforeRun /\ phase' # "running" /\ UNCHANGED <<status, result, marks, preruns>>
  BY DEF BeforeRun, Batch!ConnectFails, Batch!StreamInterrupted, Batch!ResendFails,
         Batch!EndOfBody, Batch!Connected
<1>2. /\ status' = <<>> /\ marks' = {}
      /\ (StartedInOrder /\ MarksAreOfWrites /\ ResultsAreOfDone /\ Batch!AsIfInOrder)'
  BY <1>1, NothingRan
<1>3. CASE \E r \in Batch!Responses : Batch!Connected(r)
  <2>1. PICK r \in Batch!Responses : Batch!Connected(r)
    BY <1>3
  <2>2. /\ calls' = r /\ arrived' = <<>> /\ phase' = "streaming" /\ phase = "connecting"
        /\ open' = 0 /\ ended' = {} /\ barrier' = FALSE /\ attempt' = attempt
    BY <2>1 DEF Batch!Connected
  <2>3. /\ r \in Seq([kind : Kinds, parts : 1 .. MaxParts])
        /\ Len(r) \in Nat /\ Len(<<>>) = 0 /\ <<>> \in Seq(Nat)
    <3>1. r \in Seq([kind : Kinds, parts : 1 .. MaxParts])
      BY ResponsesAreCalls
    <3>2. Len(r) \in Nat
      BY <3>1, LenProperties
    <3> QED
      BY <3>1, <3>2
  <2>4. BatchTypes' /\ ClosedInOrder'
    <3>1. /\ phase' \in BeforeRun /\ attempt' \in Nat /\ preruns' = preruns /\ marks' \subseteq Nat
          /\ preruns \subseteq EarlyCall
      BY <1>2, <1>1, <2>2 DEF BatchInv, BatchTypes, BeforeRun
    <3>2. ClosedInOrder'
      BY <2>2 DEF ClosedInOrder
    <3>3. /\ Len(arrived') <= Len(calls')
          /\ open' \in 0 .. Len(arrived') /\ ended' \subseteq DOMAIN arrived'
      BY <2>2, <2>3
    <3> QED
      BY <1>2, <2>2, <2>3, <3>1, <3>2, <3>3 DEF BatchTypes
  <2>5. EarlyIsInOrder'
    BY <1>1, <2>2 DEF BatchInv, EarlyIsInOrder
  <2> QED
    BY <1>2, <2>4, <2>5 DEF BatchInv
<1>4. CASE ~\E r \in Batch!Responses : Batch!Connected(r)
  <2>1. /\ UNCHANGED <<calls, arrived, open, ended, barrier>>
        /\ phase' \in {"connecting", "joining", "failed"}
        /\ phase' = "joining" => phase = "streaming" /\ attempt' = attempt
        /\ phase' = "connecting" => (phase = "connecting" /\ attempt' = attempt)
                                     \/ attempt' = attempt + 1
        /\ attempt' \in {attempt, attempt + 1}
    BY <1>4 DEF Batch!ConnectFails, Batch!StreamInterrupted, Batch!ResendFails, Batch!EndOfBody
  <2>2. BatchTypes' /\ ClosedInOrder'
    BY <1>1, <1>2, <2>1 DEF BatchInv, BatchTypes, ClosedInOrder, BeforeRun
  <2>3. EarlyIsInOrder'
    BY <1>1, <2>1 DEF BatchInv, BatchTypes, EarlyCall, EarlyIsInOrder
  <2> QED
    BY <1>2, <2>2, <2>3 DEF BatchInv
<1> QED
  BY <1>3, <1>4

LEMMA StreamingKeepsOrder ==
  ASSUME BatchInv, ~INTERLEAVED,
         \/ Batch!OpenCall \/ Batch!Prose
         \/ \E i \in 1 .. MaxCalls : Batch!Part(i)
         \/ \E reason \in {"tool_use", "max_tokens"} : Batch!FinishReason(reason)
  PROVE  BatchInv'
<1> USE DEF Batch!batch, Batch!stream
<1>1. /\ phase = "streaming" /\ phase' \in {"streaming", "joining"}
      /\ UNCHANGED <<status, result, marks, attempt, calls>>
  BY DEF Batch!OpenCall, Batch!Prose, Batch!Part, Batch!FinishReason
<1>2. /\ status' = <<>> /\ marks' = {}
      /\ (StartedInOrder /\ MarksAreOfWrites /\ ResultsAreOfDone /\ Batch!AsIfInOrder)'
  BY <1>1, NothingRan DEF BeforeRun
<1>3. /\ arrived \in Seq(Nat) /\ Len(arrived) \in Nat /\ DOMAIN arrived = 1 .. Len(arrived)
      /\ calls \in Seq([kind : Kinds, parts : 1 .. MaxParts]) /\ Len(calls) \in Nat
      /\ Len(arrived) <= Len(calls) /\ attempt \in Nat
  BY DEF BatchInv, BatchTypes
<1>4. CASE \E i \in 1 .. MaxCalls : Batch!Part(i)
  <2>1. PICK i \in DOMAIN arrived : Batch!Part(i)
    BY <1>4 DEF Batch!Part
  <2>2. /\ i = open /\ open' = open /\ UNCHANGED <<preruns, ended, barrier, phase>>
        /\ arrived' = [arrived EXCEPT ![i] = arrived[i] + 1]
    BY <2>1 DEF Batch!Part
  <2>3. /\ arrived' \in Seq(Nat) /\ Len(arrived') = Len(arrived) /\ DOMAIN arrived' = DOMAIN arrived
        /\ \A j \in DOMAIN arrived : j # open => arrived'[j] = arrived[j]
    BY <1>3, <2>2
  <2>4. BatchTypes' /\ ClosedInOrder'
    BY <1>1, <1>2, <2>2, <2>3 DEF BatchInv, BatchTypes, ClosedInOrder
  <2>5. EarlyIsInOrder'
    BY <1>1, <2>2, <2>3 DEF BatchInv, ClosedInOrder, EarlyIsInOrder
  <2> QED
    BY <1>2, <2>4, <2>5 DEF BatchInv
<1>5. CASE ~\E i \in 1 .. MaxCalls : Batch!Part(i)
  <2>1. Batch!CloseCurrent
    BY <1>5 DEF Batch!OpenCall, Batch!Prose, Batch!FinishReason
  <2>2. /\ ended' = DOMAIN arrived /\ barrier' \in BOOLEAN
        /\ ~barrier' => \A j \in ended' : calls[j].kind \in Batch!Streamable
        /\ preruns' \subseteq EarlyCall
        /\ \A p \in preruns' : \/ p \in preruns
                               \/ /\ p.attempt = attempt /\ p.call \in DOMAIN arrived
                                  /\ p.parts = arrived[p.call] /\ p.saw = {}
                                  /\ \A j \in 1 .. p.call - 1 : calls[j].kind \in Batch!ReadOnly
    BY <1>1, <2>1, ClosingKeepsOrder
  <2>3. /\ arrived' \in Seq(Nat) /\ Len(arrived') <= Len(calls)
        /\ DOMAIN arrived \subseteq DOMAIN arrived' /\ DOMAIN arrived' = 1 .. Len(arrived')
        /\ \A j \in DOMAIN arrived : arrived'[j] = arrived[j]
        /\ phase' = "streaming" => /\ open' \in 0 .. Len(arrived') /\ open' \notin DOMAIN arrived
                                   /\ DOMAIN arrived' \subseteq DOMAIN arrived \cup {open'}
    <3>1. CASE Batch!OpenCall
      <4>1. arrived' = Append(arrived, 0) /\ open' = Len(arrived) + 1 /\ Len(arrived) < Len(calls)
        BY <3>1 DEF Batch!OpenCall
      <4>2. /\ arrived' \in Seq(Nat) /\ Len(arrived') = Len(arrived) + 1
            /\ \A j \in 1 .. Len(arrived) : arrived'[j] = arrived[j]
        BY <1>3, <4>1, AppendProperties
      <4> QED
        BY <1>3, <4>1, <4>2
    <3>2. CASE Batch!Prose
      BY <1>3, <3>2 DEF Batch!Prose
    <3>3. CASE \E reason \in {"tool_use", "max_tokens"} : Batch!FinishReason(reason)
      BY <1>3, <3>3 DEF Batch!FinishReason
    <3> QED
      BY <1>5, <3>1, <3>2, <3>3
  <2>4. BatchTypes' /\ ClosedInOrder'
    BY <1>1, <1>2, <1>3, <2>2, <2>3 DEF BatchInv, BatchTypes, ClosedInOrder, BeforeRun
  <2>5. EarlyIsInOrder'
    <3> SUFFICES ASSUME NEW p \in preruns'
                 PROVE  /\ p.attempt <= attempt'
                        /\ p.attempt = attempt' /\ phase' # "failed" =>
                             /\ phase' # "connecting" /\ p.call \in DOMAIN arrived'
                             /\ p.parts = arrived'[p.call] /\ p.call \in ended' /\ p.saw = {}
                             /\ \A j \in 1 .. p.call - 1 : calls'[j].kind \in Batch!ReadOnly
      BY <1>1 DEF EarlyIsInOrder
    <3>1. CASE p \in preruns
      <4>1. p.attempt = attempt => p.call \in ended /\ p.call \in DOMAIN arrived
        BY <1>1, <3>1 DEF BatchInv, EarlyIsInOrder
      <4> QED
        BY <1>1, <2>2, <2>3, <3>1, <4>1 DEF BatchInv, EarlyIsInOrder
    <3>2. CASE p \notin preruns
      BY <1>1, <1>3, <2>2, <2>3, <3>2, SMTT(60)
    <3> QED
      BY <3>1, <3>2
  <2> QED
    BY <1>2, <2>4, <2>5 DEF BatchInv
<1> QED
  BY <1>4, <1>5

(* What run_tool_calls begins with: every call to do, nothing written.     *)
LEMMA RunBegins ==
  ASSUME BatchInv, phase \in BeforeRun, phase' = "running", attempt' = attempt,
         calls' \in Seq([kind : Kinds, parts : 1 .. MaxParts]), arrived' \in Seq(Nat),
         Len(calls') = Len(arrived'), preruns' \subseteq preruns, barrier' = barrier,
         Batch!ToRun(arrived') \/ Batch!ToRun(calls'), EarlyIsInOrder'
  PROVE  BatchInv'
<1>1. DOMAIN calls' = DOMAIN arrived' /\ Len(arrived') \in Nat
  BY LenProperties
<1>2. /\ status' = [i \in DOMAIN arrived' |-> "todo"]
      /\ result' = [i \in DOMAIN arrived' |-> Batch!NoResult] /\ marks' = marks /\ marks = {}
  BY <1>1 DEF Batch!ToRun, BatchInv, BatchTypes
<1>3. status' \in [DOMAIN arrived' -> Progress] /\ DOMAIN result' = DOMAIN arrived'
  BY <1>2 DEF Progress
<1>4. /\ attempt' \in Nat /\ barrier' \in BOOLEAN /\ marks' \subseteq Nat
      /\ preruns' \subseteq EarlyCall
  BY <1>2 DEF BatchInv, BatchTypes
<1>5. Len(arrived') <= Len(calls') /\ phase' \notin BeforeRun /\ phase' # "streaming"
  BY <1>1 DEF BeforeRun
<1>6. BatchTypes'
  BY <1>3, <1>4, <1>5 DEF BatchTypes
<1>7. ClosedInOrder' /\ StartedInOrder' /\ MarksAreOfWrites'
  BY <1>2, <1>5 DEF ClosedInOrder, StartedInOrder, MarksAreOfWrites
<1>8. ResultsAreOfDone' /\ Batch!AsIfInOrder'
  BY <1>2 DEF ResultsAreOfDone, Batch!AsIfInOrder, Batch!Ran, Batch!NoResult
<1> QED
  BY <1>6, <1>7, <1>8 DEF BatchInv

LEMMA FinalizeKeepsOrder == ASSUME BatchInv, Batch!Finalize PROVE BatchInv'
<1> USE DEF Batch!batch, Batch!stream
<1>1. /\ phase = "joining" /\ phase \in BeforeRun /\ calls' = SubSeq(calls, 1, Len(arrived))
      /\ UNCHANGED <<attempt, arrived, preruns, open, ended, barrier>>
      /\ Batch!Joined /\ phase' \in {"resend", "answered", "running"}
  BY DEF Batch!Finalize, BeforeRun
<1>2. /\ calls' \in Seq([kind : Kinds, parts : 1 .. MaxParts]) /\ Len(calls') = Len(arrived)
      /\ \A j \in 1 .. Len(arrived) : calls'[j] = calls[j]
      /\ arrived \in Seq(Nat) /\ DOMAIN arrived = 1 .. Len(arrived) /\ Len(arrived) \in Nat
  <2>1. /\ calls \in Seq([kind : Kinds, parts : 1 .. MaxParts]) /\ arrived \in Seq(Nat)
        /\ Len(arrived) <= Len(calls)
    BY DEF BatchInv, BatchTypes
  <2>2. Len(arrived) \in Nat /\ DOMAIN arrived = 1 .. Len(arrived) /\ Len(calls) \in Nat
    BY <2>1, LenProperties
  <2>3. /\ calls' \in Seq([kind : Kinds, parts : 1 .. MaxParts]) /\ Len(calls') = Len(arrived)
        /\ \A j \in 1 .. Len(arrived) : calls'[j] = calls[j]
    <3> DEFINE S == [kind : Kinds, parts : 1 .. MaxParts]
    <3>1. calls \in Seq(S) /\ \A j \in 1 .. Len(arrived) : j \in 1 .. Len(calls)
      BY <2>1, <2>2
    <3> HIDE DEF S
    <3>2. /\ SubSeq(calls, 1, Len(arrived)) \in Seq(S)
          /\ Len(SubSeq(calls, 1, Len(arrived))) = Len(arrived)
          /\ \A j \in 1 .. Len(arrived) : SubSeq(calls, 1, Len(arrived))[j] = calls[j]
      BY <2>1, <2>2, <3>1
    <3> QED
      BY <1>1, <2>2, <3>2 DEF S
  <2> QED
    BY <2>1, <2>2, <2>3
<1>3. EarlyIsInOrder'
  BY <1>1, <1>2 DEF BatchInv, EarlyIsInOrder, Batch!Joined
<1>4. CASE phase' = "running"
  <2>1. Batch!ToRun(arrived')
    BY <1>1, <1>4 DEF Batch!Finalize
  <2> QED
    BY <1>1, <1>2, <1>3, <1>4, <2>1, RunBegins
<1>5. CASE phase' # "running"
  <2>1. UNCHANGED <<status, result, marks>>
    BY <1>1, <1>5 DEF Batch!Finalize
  <2>2. /\ status' = <<>> /\ marks' = {}
        /\ (StartedInOrder /\ MarksAreOfWrites /\ ResultsAreOfDone /\ Batch!AsIfInOrder)'
    BY <1>1, <1>5, <2>1, NothingRan
  <2>3. BatchTypes' /\ ClosedInOrder'
    BY <1>1, <1>2, <1>5, <2>2 DEF BatchInv, BatchTypes, ClosedInOrder, BeforeRun
  <2> QED
    BY <1>3, <2>2, <2>3 DEF BatchInv
<1> QED
  BY <1>4, <1>5

LEMMA ResendKeepsOrder ==
  ASSUME BatchInv, NEW r \in Batch!Responses, Batch!Resend(r) PROVE BatchInv'
<1> USE DEF Batch!batch, Batch!stream
<1>1. /\ phase = "resend" /\ phase \in BeforeRun /\ calls' = r
      /\ arrived' = [i \in DOMAIN r |-> r[i].parts]
      /\ preruns' = {p \in preruns : p.attempt # attempt}
      /\ UNCHANGED <<attempt, open, ended, barrier>> /\ phase' \in {"answered", "running"}
  BY DEF Batch!Resend, BeforeRun
<1>2. /\ calls' \in Seq([kind : Kinds, parts : 1 .. MaxParts]) /\ arrived' \in Seq(Nat)
      /\ Len(calls') = Len(arrived') /\ Len(arrived') \in Nat
  BY <1>1, ResponsesAreCalls, LenProperties
<1>3. EarlyIsInOrder'
  BY <1>1 DEF BatchInv, EarlyIsInOrder
<1>4. CASE phase' = "running"
  <2>1. Batch!ToRun(calls')
    BY <1>1, <1>4 DEF Batch!Resend
  <2> QED
    BY <1>1, <1>2, <1>3, <1>4, <2>1, RunBegins
<1>5. CASE phase' # "running"
  <2>1. UNCHANGED <<status, result, marks>>
    BY <1>1, <1>5 DEF Batch!Resend
  <2>2. /\ status' = <<>> /\ marks' = {}
        /\ (StartedInOrder /\ MarksAreOfWrites /\ ResultsAreOfDone /\ Batch!AsIfInOrder)'
    BY <1>1, <1>5, <2>1, NothingRan
  <2>3. BatchTypes' /\ ClosedInOrder'
    BY <1>1, <1>2, <1>5, <2>2 DEF BatchInv, BatchTypes, ClosedInOrder, BeforeRun
  <2> QED
    BY <1>3, <2>2, <2>3 DEF BatchInv
<1> QED
  BY <1>4, <1>5

(* The guard trips, the turn is cancelled, the batch is done.              *)
LEMMA EndingKeepsOrder ==
  ASSUME BatchInv, Batch!LoopGuardTrips \/ Batch!BatchDone \/ Batch!Cancelled
  PROVE  BatchInv'
<1>1. /\ UNCHANGED <<calls, arrived, attempt, open, ended, barrier, preruns, status, result, marks>>
      /\ phase' = "failed" \/ (phase = "running" /\ phase' = "answered")
  BY DEF Batch!LoopGuardTrips, Batch!BatchDone, Batch!Cancelled, Batch!stream, Batch!batch
<1>2. BatchTypes' /\ ClosedInOrder' /\ EarlyIsInOrder'
  BY <1>1 DEF BatchInv, BatchTypes, ClosedInOrder, EarlyIsInOrder, BeforeRun
<1>3. StartedInOrder' /\ MarksAreOfWrites' /\ ResultsAreOfDone'
  BY <1>1 DEF StartedInOrder, MarksAreOfWrites, ResultsAreOfDone
<1>4. Batch!AsIfInOrder'
  BY <1>1 DEF BatchInv, Batch!AsIfInOrder, Batch!Ran, Batch!NoResult
<1> QED
  BY <1>2, <1>3, <1>4 DEF BatchInv

(* A step of one call of the batch: the others stay where they are.        *)
OneCall(i) ==
  /\ phase = "running" /\ i \in DOMAIN status /\ status[i] # "done"
  /\ \E to \in Progress : /\ status' = [status EXCEPT ![i] = to] /\ to # "todo"
                          /\ status[i] = "todo" => Batch!InTurn(i)
  /\ UNCHANGED <<phase, calls, arrived, attempt, open, ended, barrier, preruns>>

LEMMA OneCallKeepsOrder ==
  ASSUME BatchInv, NEW i, OneCall(i), marks' \subseteq Nat, DOMAIN result' = DOMAIN result
  PROVE  /\ BatchTypes' /\ ClosedInOrder' /\ EarlyIsInOrder' /\ StartedInOrder'
         /\ \A j \in DOMAIN status : /\ j # i => status'[j] = status[j]
                                     /\ status[j] = "done" => status'[j] = "done"
         /\ status'[i] # "todo" /\ DOMAIN status' = DOMAIN status
         /\ DOMAIN status = 1 .. Len(arrived) /\ Len(arrived) \in Nat
<1>1. PICK to \in Progress : /\ status' = [status EXCEPT ![i] = to] /\ to # "todo"
                             /\ status[i] = "todo" => Batch!InTurn(i)
  BY DEF OneCall
<1>2. /\ phase = "running" /\ i \in DOMAIN status /\ status[i] # "done"
      /\ UNCHANGED <<phase, calls, arrived, attempt, open, ended, barrier, preruns>>
  BY DEF OneCall
<1>3. status \in [DOMAIN arrived -> Progress] /\ DOMAIN result = DOMAIN arrived
  BY <1>2 DEF BatchInv, BatchTypes
<1>4. arrived \in Seq(Nat) /\ DOMAIN arrived = 1 .. Len(arrived) /\ Len(arrived) \in Nat
  BY LenProperties DEF BatchInv, BatchTypes
<1>5. /\ status' \in [DOMAIN arrived -> Progress] /\ status'[i] # "todo"
      /\ \A j \in DOMAIN status : j # i => status'[j] = status[j]
  BY <1>1, <1>2, <1>3
<1>6. BatchTypes'
  BY <1>2, <1>3, <1>5 DEF BatchInv, BatchTypes, BeforeRun
<1>7. ClosedInOrder' /\ EarlyIsInOrder'
  BY <1>2 DEF BatchInv, ClosedInOrder, EarlyIsInOrder
<1>8. StartedInOrder'
  <2> SUFFICES ASSUME NEW k \in DOMAIN status, status'[k] # "todo", NEW j \in 1 .. k - 1
               PROVE  status'[j] = "done" \/ (status'[j] # "todo" /\ Batch!SameSegment(j, k)')
    BY <1>3, <1>5 DEF StartedInOrder
  <2>1. Batch!SameSegment(j, k)' <=> Batch!SameSegment(j, k)
    BY <1>2 DEF Batch!SameSegment
  <2>2. status[j] = "done" \/ (status[j] # "todo" /\ Batch!SameSegment(j, k))
    <3>1. CASE status[k] # "todo"
      BY <1>2, <3>1 DEF BatchInv, StartedInOrder
    <3>2. CASE status[k] = "todo"
      BY <1>1, <1>5, <3>2 DEF Batch!InTurn
    <3> QED
      BY <3>1, <3>2
  <2>3. j \in DOMAIN status
    BY <1>3, <1>4
  <2> QED
    BY <1>2, <1>5, <2>1, <2>2, <2>3
<1> QED
  BY <1>2, <1>3, <1>4, <1>5, <1>6, <1>7, <1>8

(* The gate and the semaphore: a call is let in, asked about, or refused.  *)
LEMMA GateKeepsOrder ==
  ASSUME BatchInv, NEW i,
         Batch!Start(i) \/ \E d \in {"once", "always", "deny", "error"} : Batch!Decide(i, d)
  PROVE  BatchInv'
<1>1. UNCHANGED <<result, marks, calls, arrived, phase>>
  BY DEF Batch!Start, Batch!Decide, Batch!stream
<1>2. phase = "running" /\ i \in DOMAIN calls /\ status[i] \in {"todo", "asking"}
  BY DEF Batch!Start, Batch!Decide, Batch!Call
<1>3. i \in DOMAIN status
  BY <1>2, LenProperties DEF BatchInv, BatchTypes
<1>4. OneCall(i)
  BY <1>2, <1>3 DEF OneCall, Batch!Start, Batch!Decide, Batch!stream, Progress
<1>5. marks' \subseteq Nat /\ DOMAIN result' = DOMAIN result
  BY <1>1 DEF BatchInv, BatchTypes
<1>6. /\ BatchTypes' /\ ClosedInOrder' /\ EarlyIsInOrder' /\ StartedInOrder'
      /\ \A j \in DOMAIN status : status[j] = "done" => status'[j] = "done"
      /\ DOMAIN status' = DOMAIN status
  BY <1>4, <1>5, OneCallKeepsOrder
<1>7. MarksAreOfWrites' /\ ResultsAreOfDone' /\ Batch!AsIfInOrder'
  BY <1>1, <1>2, <1>6
  DEF BatchInv, MarksAreOfWrites, ResultsAreOfDone, Batch!AsIfInOrder, Batch!Ran, Batch!NoResult
<1> QED
  BY <1>6, <1>7 DEF BatchInv

LEMMA ExecuteKeepsOrder == ASSUME BatchInv, NEW i, Batch!Execute(i) PROVE BatchInv'
<1>1. /\ UNCHANGED <<calls, arrived, phase, attempt, preruns>> /\ status[i] = "running"
      /\ phase = "running" /\ i \in DOMAIN calls /\ status' = [status EXCEPT ![i] = "done"]
      /\ marks' = IF calls[i].kind \in Batch!ReadOnly THEN marks ELSE marks \cup {i}
  BY DEF Batch!Execute, Batch!stream, Batch!Call
<1>2. /\ i \in DOMAIN status /\ DOMAIN status = 1 .. Len(arrived) /\ Len(arrived) \in Nat
      /\ status \in [DOMAIN arrived -> Progress] /\ DOMAIN result = DOMAIN arrived
      /\ DOMAIN arrived = DOMAIN status /\ marks \subseteq Nat
  BY <1>1, LenProperties DEF BatchInv, BatchTypes
<1>3. PICK parts, saw :
        /\ result' = [result EXCEPT ![i] = [parts |-> parts, saw |-> saw]]
        /\ \/ parts = arrived[i] /\ saw = marks
           \/ \E p \in Batch!Prebuilt(i) : parts = p.parts /\ saw = p.saw
  BY DEF Batch!Execute
<1>4. OneCall(i)
  BY <1>1, <1>2 DEF OneCall, Batch!Execute, Batch!stream, Progress
<1>5. marks' \subseteq Nat /\ DOMAIN result' = DOMAIN result
  <2>1. marks' \subseteq Nat
    <3>1. i \in Nat
      BY <1>2
    <3>2. marks' \subseteq marks \cup {i}
      BY <1>1
    <3> QED
      BY <1>2, <3>1, <3>2
  <2>2. DOMAIN result' = DOMAIN result
    BY <1>3
  <2> QED
    BY <2>1, <2>2
<1>6. /\ BatchTypes' /\ ClosedInOrder' /\ EarlyIsInOrder' /\ StartedInOrder'
      /\ \A j \in DOMAIN status : j # i => status'[j] = status[j]
      /\ DOMAIN status' = DOMAIN status
  BY <1>4, <1>5, OneCallKeepsOrder
<1>7. status'[i] = "done" /\ result'[i] = [parts |-> parts, saw |-> saw]
      /\ \A j \in DOMAIN status : j # i => result'[j] = result[j]
  <2>1. status'[i] = "done"
    BY <1>1, <1>2
  <2>2. result'[i] = [parts |-> parts, saw |-> saw]
    BY <1>2, <1>3
  <2>3. \A j \in DOMAIN status : j # i => result'[j] = result[j]
    BY <1>2, <1>3
  <2> QED
    BY <2>1, <2>2, <2>3
<1>8. MarksAreOfWrites' /\ ResultsAreOfDone'
  BY <1>1, <1>2, <1>6, <1>7
  DEF BatchInv, MarksAreOfWrites, ResultsAreOfDone, Batch!Ran, Batch!NoResult
(* A write that is at work has only what is done before it, and behind it  *)
(* only what has not begun.                                                *)
<1>9. \A j \in DOMAIN status : status[j] = "done" /\ j # i /\ calls[i].kind \notin Batch!ReadOnly
        => i \notin 1 .. j - 1
  <2> SUFFICES ASSUME NEW j \in DOMAIN status, status[j] = "done", i \in 1 .. j - 1,
                      calls[i].kind \notin Batch!ReadOnly
               PROVE  FALSE
    OBVIOUS
  <2>1. Batch!SameSegment(i, j)
    BY <1>1 DEF BatchInv, StartedInOrder
  <2> QED
    BY <1>2, <2>1 DEF Batch!SameSegment
<1>10. \A j \in DOMAIN status : calls[j].kind \in Batch!ReadOnly /\ Batch!Ran(j)' =>
         result'[j].parts = arrived'[j] /\ result'[j].saw = marks' \cap 1 .. j - 1
  <2> SUFFICES ASSUME NEW j \in DOMAIN status, calls[j].kind \in Batch!ReadOnly, Batch!Ran(j)'
               PROVE  /\ result'[j].parts = arrived'[j]
                      /\ result'[j].saw = marks' \cap 1 .. j - 1
    OBVIOUS
  <2>1. CASE j # i
    <3>1. Batch!Ran(j) /\ result'[j] = result[j]
      BY <1>7, <2>1 DEF Batch!Ran, Batch!NoResult
    <3>2. /\ status[j] = "done" /\ result[j].parts = arrived[j]
          /\ result[j].saw = marks \cap 1 .. j - 1
      BY <1>1, <3>1 DEF BatchInv, ResultsAreOfDone, Batch!AsIfInOrder
    <3> QED
      BY <1>1, <1>9, <2>1, <3>1, <3>2
  <2>2. CASE j = i
    <3>1. marks' = marks
      BY <1>1, <2>2
    <3>2. CASE parts = arrived[i] /\ saw = marks
      <4>1. ASSUME NEW k \in marks PROVE k \in 1 .. i - 1
        <5>1. k \in DOMAIN status /\ status[k] = "done" /\ calls[k].kind \notin Batch!ReadOnly
          BY <1>1 DEF BatchInv, MarksAreOfWrites
        <5>2. k # i
          BY <1>1, <5>1
        <5>3. ASSUME i \in 1 .. k - 1 PROVE FALSE
          <6>1. status[i] = "done" \/ Batch!SameSegment(i, k)
            BY <1>1, <5>1, <5>3 DEF BatchInv, StartedInOrder
          <6> QED
            <7>1. k \in i .. k /\ status[i] # "done"
              BY <1>1, <1>2, <5>1, <5>3
            <7> QED
              BY <5>1, <6>1, <7>1 DEF Batch!SameSegment
        <5> QED
          BY <1>2, <5>1, <5>2, <5>3
      <4> QED
        BY <1>1, <1>7, <2>2, <3>1, <3>2, <4>1
    <3>3. CASE \E p \in Batch!Prebuilt(i) : parts = p.parts /\ saw = p.saw
      <4>1. PICK p \in Batch!Prebuilt(i) : parts = p.parts /\ saw = p.saw
        BY <3>3
      <4>2. /\ parts = arrived[i] /\ saw = {}
            /\ \A k \in 1 .. i - 1 : calls[k].kind \in Batch!ReadOnly
        BY <1>1, <4>1 DEF Batch!Prebuilt, BatchInv, EarlyIsInOrder
      <4>3. marks \cap 1 .. i - 1 = {}
        BY <1>1, <4>2 DEF BatchInv, MarksAreOfWrites
      <4> QED
        BY <1>1, <1>7, <2>2, <3>1, <4>2, <4>3
    <3> QED
      BY <1>3, <3>2, <3>3
  <2> QED
    BY <2>1, <2>2
<1>11. Batch!AsIfInOrder'
  BY <1>1, <1>6, <1>10 DEF Batch!AsIfInOrder
<1> QED
  BY <1>6, <1>8, <1>11 DEF BatchInv

LEMMA EarlyKeepsOrder ==
  ASSUME BatchInv, NEW p \in preruns, Batch!PrerunEnds(p) \/ Batch!PrerunPanics(p)
  PROVE  BatchInv'
<1>1. /\ UNCHANGED <<calls, arrived, attempt, open, ended, barrier, phase, status, result, marks>>
      /\ ~p.done
  BY DEF Batch!PrerunEnds, Batch!PrerunPanics, Batch!stream, Batch!batch
<1> DEFINE over == [p EXCEPT !.done = TRUE, !.saw = marks]
<1>2. preruns' \subseteq (preruns \ {p}) \cup {over}
  BY DEF Batch!PrerunEnds, Batch!PrerunPanics
<1>3. p \in EarlyCall
      /\ marks \subseteq Nat
  BY DEF BatchInv, BatchTypes
<1>4. /\ over \in EarlyCall
      /\ over.attempt = p.attempt /\ over.call = p.call /\ over.parts = p.parts
      /\ over.done = TRUE /\ over.saw = marks
  BY <1>3 DEF EarlyCall
<1>5. p.attempt = attempt /\ phase # "failed" => marks = {}
  BY <1>1 DEF BatchInv, BatchTypes, EarlyIsInOrder, BeforeRun
<1>6. BatchTypes'
  <2>1. preruns' \subseteq EarlyCall
    BY <1>2, <1>4 DEF BatchInv, BatchTypes
  <2> QED
    BY <1>1, <2>1 DEF BatchInv, BatchTypes
<1>7. EarlyIsInOrder'
  BY <1>1, <1>2, <1>4, <1>5, ZenonT(60) DEF BatchInv, EarlyIsInOrder
<1>8. /\ ClosedInOrder' /\ StartedInOrder' /\ MarksAreOfWrites' /\ ResultsAreOfDone'
      /\ Batch!AsIfInOrder'
  BY <1>1 DEF BatchInv, ClosedInOrder, StartedInOrder, MarksAreOfWrites, ResultsAreOfDone,
              Batch!AsIfInOrder, Batch!Ran, Batch!NoResult, Batch!SameSegment
<1> QED
  BY <1>6, <1>7, <1>8 DEF BatchInv

LEMMA BatchStep ==
  ASSUME ~INTERLEAVED, BatchInv, [Next]_vars, part = "batch" PROVE BatchInv'
<1>1. CASE Batch!Next
  <2>1. CASE Batch!Wire
    BY <2>1, ConnectingKeepsOrder, StreamingKeepsOrder, ResendKeepsOrder DEF Batch!Wire
  <2>2. CASE Batch!Tools
    BY <2>2, FinalizeKeepsOrder, EndingKeepsOrder, GateKeepsOrder, ExecuteKeepsOrder
    DEF Batch!Tools
  <2>3. CASE Batch!Early
    BY <2>3, EarlyKeepsOrder DEF Batch!Early
  <2>4. CASE Batch!Cancelled
    BY <2>4, EndingKeepsOrder
  <2> QED
    BY <1>1, <2>1, <2>2, <2>3, <2>4 DEF Batch!Next
<1>2. CASE UNCHANGED batchState
  <2>1. BatchTypes'
    BY <1>2 DEF batchState, BatchInv, BatchTypes
  <2>2. ClosedInOrder' /\ EarlyIsInOrder'
    BY <1>2 DEF batchState, BatchInv, ClosedInOrder, EarlyIsInOrder
  <2>3. StartedInOrder' /\ MarksAreOfWrites' /\ ResultsAreOfDone'
    BY <1>2 DEF batchState, BatchInv, StartedInOrder, MarksAreOfWrites, ResultsAreOfDone,
                Batch!Ran, Batch!NoResult, Batch!SameSegment
  <2>4. Batch!AsIfInOrder'
    BY <1>2 DEF batchState, BatchInv, Batch!AsIfInOrder, Batch!Ran, Batch!NoResult
  <2> QED
    BY <2>1, <2>2, <2>3, <2>4 DEF BatchInv
<1>3. Batch!Next \/ UNCHANGED batchState
  BY DEF Next, vars, turnState
<1> QED
  BY <1>1, <1>2, <1>3

(* The reads of a response return what they would return if its calls ran  *)
(* one after the other, although some run while the response streams and   *)
(* others next to each other; for any number of calls, parts and retries,  *)
(* provided the wire does not mix the parts of two calls.                  *)
THEOREM ReadsAreInOrder == ASSUME ~INTERLEAVED PROVE Spec => []AsIfInOrder
<1> DEFINE Inv == part = "batch" => BatchInv
<1>1. Init => Inv
  BY BatchBegins DEF Init
<1>2. Inv /\ [Next]_vars => Inv'
  BY PartStays, BatchStep
<1>3. Inv => AsIfInOrder
  BY DEF BatchInv, AsIfInOrder
<1> QED
  BY <1>1, <1>2, <1>3, PTL DEF Spec

-----------------------------------------------------------------------------
(* A thread: ConversationProofs says what its steps keep, once for each of *)
(* the two threads of MCParts.                                             *)

Talk  == INSTANCE ConversationProofs WITH MAX_BYTES <- 0, MAX_RESULT <- 0, COLLAPSE <- 0
Tight == INSTANCE ConversationProofs
           WITH MAX_BYTES <- CAP_BYTES, MAX_RESULT <- CAP_RESULT, COLLAPSE <- CAP_COLLAPSE,
                MaxRows <- CAP_ROWS

(* Both instances of Conversation are about the same thread, ...           *)
LEMMA SameCut ==
  ASSUME NEW ms
  PROVE  /\ Thread!EnforceHistoryByteCap(ms) = Talk!EnforceHistoryByteCap(ms)
         /\ \A keep :
              Thread!CollapseOldToolResults(ms, keep) = Talk!CollapseOldToolResults(ms, keep)
         /\ Thread!TrimToConversationWindow(ms) = Talk!TrimToConversationWindow(ms)
BY SMTT(60) DEF Thread!EnforceHistoryByteCap, Thread!CollapseOldToolResults, Thread!OnResults,
      Thread!MARKER, Thread!Larger, Thread!TrimToConversationWindow, Thread!Drop,
      Thread!FirstWhere, Thread!IsTalk, Thread!Min, Thread!Cardinality,
      Talk!EnforceHistoryByteCap, Talk!CollapseOldToolResults, Talk!OnResults, Talk!MARKER,
      Talk!Larger, Talk!TrimToConversationWindow, Talk!Drop, Talk!FirstWhere, Talk!IsTalk,
      Talk!Min, Talk!Cardinality

LEMMA SameRows == Thread!N = Talk!N /\ Thread!PoolStart = Talk!PoolStart
BY DEF Thread!PoolStart, Thread!POOL, Thread!N, Talk!PoolStart, Talk!POOL, Talk!N

LEMMA SameMessages ==
  ASSUME NEW first, NEW last, NEW R
  PROVE  Thread!Messages(first, last, R) = Talk!Messages(first, last, R)
BY DEF Thread!Messages, Thread!Loaded, Talk!Messages, Talk!Loaded

LEMMA SameWindow ==
  ASSUME NEW R
  PROVE  Thread!Window(R) = Talk!Window(R)
BY SameCut, SameRows, SameMessages
  DEF Thread!Window, Talk!Window

LEMMA SameHistory == Thread!LoadHistory = Talk!LoadHistory
BY SameCut, SameRows, SameMessages, SameWindow
  DEF Thread!LoadHistory, Thread!Spliced, Thread!SummaryMessage, Thread!NoSummary,
      Talk!LoadHistory, Talk!Spliced, Talk!SummaryMessage, Talk!NoSummary

LEMMA SamePairing ==
  ASSUME NEW ms
  PROVE  Thread!EnsureToolResultPairing(ms) = Talk!EnsureToolResultPairing(ms)
BY DEF Thread!EnsureToolResultPairing, Thread!CloseMissing, Thread!Close, Thread!PairMessage,
      Thread!Unpaired, Thread!ToolMessage, Thread!Answered, Thread!Synthetic,
      Talk!EnsureToolResultPairing, Talk!CloseMissing, Talk!Close, Talk!PairMessage,
      Talk!Unpaired, Talk!ToolMessage, Talk!Answered, Talk!Synthetic

LEMMA SameProbe ==
  ASSUME NEW R
  PROVE  Thread!ProbePasses(R) = Talk!ProbePasses(R)
BY SameWindow, SamePairing
  DEF Thread!ProbePasses, Thread!Flagged, Talk!ProbePasses, Talk!Flagged

LEMMA SameHalve ==
  ASSUME NEW s
  PROVE  Thread!Halve(s) = Talk!Halve(s)
BY SameProbe
  DEF Thread!Halve, Thread!Ended, Thread!Cleared, Thread!Left, Thread!Right, Thread!Mid,
      Thread!Search, Thread!Cardinality, Talk!Halve, Talk!Ended, Talk!Cleared, Talk!Left,
      Talk!Right, Talk!Mid, Talk!Search, Talk!Cardinality

LEMMA SameBisect == ASSUME NEW s PROVE Thread!Bisect(s) = Talk!Bisect(s)
<1> DEFINE F(f) == [n \in 0 .. PROBE_CAP |-> IF n = 0 THEN s ELSE Thread!Halve(f[n - 1])]
           G(f) == [n \in 0 .. PROBE_CAP |-> IF n = 0 THEN s ELSE Talk!Halve(f[n - 1])]
           p == CHOOSE f : f = F(f)
           q == CHOOSE f : f = G(f)
<1>1. \A f : F(f) = G(f)
  <2> SUFFICES ASSUME NEW f PROVE F(f) = G(f)
    OBVIOUS
  <2>1. \A n \in 0 .. PROBE_CAP : Thread!Halve(f[n - 1]) = Talk!Halve(f[n - 1])
    BY SameHalve
  <2> QED
    BY <2>1
<1>2. Thread!Bisect(s) = p[PROBE_CAP] /\ Talk!Bisect(s) = q[PROBE_CAP]
  BY DEF Thread!Bisect, Talk!Bisect
<1> HIDE DEF F, G
<1>3. p = q
  BY <1>1, Zenon
<1> QED
  BY <1>2, <1>3

LEMMA SameBytes == ASSUME NEW ms PROVE Thread!TotalBytes(ms) = Talk!TotalBytes(ms)
BY DEF Thread!TotalBytes, Thread!Bytes, Thread!MapThenSumSet, Thread!MapThenFoldSet,
       Thread!Cardinality, Talk!TotalBytes, Talk!Bytes, Talk!MapThenSumSet, Talk!MapThenFoldSet,
       Talk!Cardinality

LEMMA SameText ==
  ASSUME NEW from, NEW until
  PROVE  Thread!BandText(from, until) = Talk!BandText(from, until)
BY SameCut, SameMessages DEF Thread!BandText, Talk!BandText

LEMMA SameRendering ==
  ASSUME NEW ms
  PROVE  Thread!RenderForSummary(ms) = Talk!RenderForSummary(ms)
<1> DEFINE S == {n \in 0 .. Len(ms) - 1 :
                   n = Len(ms) - 1 \/ Thread!TotalBytes(Thread!Drop(ms, n)) <= SUMMARY_TOTAL}
           R == {n \in 0 .. Len(ms) - 1 :
                   n = Len(ms) - 1 \/ Talk!TotalBytes(Talk!Drop(ms, n)) <= SUMMARY_TOTAL}
<1>1. S = R
  BY SameBytes DEF Thread!Drop, Talk!Drop
<1>2. Thread!RenderForSummary(ms)
        = IF SUMMARY_TOTAL = 0 THEN ms ELSE Thread!Drop(ms, Thread!Min(S))
  BY DEF Thread!RenderForSummary, Thread!FirstWhere
<1>3. Talk!RenderForSummary(ms)
        = IF SUMMARY_TOTAL = 0 THEN ms ELSE Talk!Drop(ms, Talk!Min(R))
  BY DEF Talk!RenderForSummary, Talk!FirstWhere
<1> HIDE DEF S, R
<1> QED
  BY <1>1, <1>2, <1>3 DEF Thread!Drop, Talk!Drop, Thread!Min, Talk!Min

LEMMA SameBand == ASSUME NEW keep PROVE Thread!Band(keep) = Talk!Band(keep)
BY SameRows, SameText, SameRendering
  DEF Thread!Band, Talk!Band, Thread!Flagged, Talk!Flagged, Thread!RowsOf, Talk!RowsOf

LEMMA SameCulprits == Thread!Culprits = Talk!Culprits
BY SameRows, SameWindow, SameProbe, SameBisect
  DEF Thread!Culprits, Talk!Culprits, Thread!Candidates, Talk!Candidates, Thread!Search, Talk!Search

LEMMA SameNext == Thread!Next => Talk!Next
BY SameRows, SameHistory, SamePairing, SameCulprits, SameBand, ZenonT(60)
  DEF Thread!Next, Thread!AfterCall, Thread!Respond, Thread!BeginTurn, Thread!NoTurn,
      Thread!NoSummary, Thread!MayBeBad, Thread!Cardinality, Thread!AppendRow, Thread!Row,
      Thread!CallLlm, Thread!StartCall, Thread!MaxIterationsExceeded, Thread!LlmFails,
      Thread!LoopGuardTrips, Thread!Cancelled, Thread!Crash, Thread!EndTurn,
      Thread!MalformedToolArgs, Thread!Passes, Thread!Flagged, Thread!Continue, Thread!Escalate,
      Thread!Answer, Thread!CallsOf, Thread!Spawned, Thread!AnswerWithCalls, Thread!ToolsDone,
      Thread!TooLong, Thread!BigEnough, Thread!Shrunk, Thread!Larger, Thread!CompactInTurn,
      Thread!Store, Thread!Goto, Thread!JobReads, Thread!JobWrites, Thread!RemoveAt,
      Thread!ContentFiltered, Thread!Blocked, Talk!Next, Talk!AfterCall, Talk!Respond,
      Talk!BeginTurn, Talk!NoTurn, Talk!NoSummary, Talk!MayBeBad, Talk!Cardinality,
      Talk!AppendRow, Talk!Row, Talk!CallLlm, Talk!StartCall, Talk!MaxIterationsExceeded,
      Talk!LlmFails, Talk!LoopGuardTrips, Talk!Cancelled, Talk!Crash, Talk!EndTurn,
      Talk!MalformedToolArgs, Talk!Passes, Talk!Flagged, Talk!Continue, Talk!Escalate,
      Talk!Answer, Talk!CallsOf, Talk!Spawned, Talk!AnswerWithCalls, Talk!ToolsDone, Talk!TooLong,
      Talk!BigEnough, Talk!Shrunk, Talk!Larger, Talk!CompactInTurn, Talk!Store,
      Talk!Goto, Talk!JobReads, Talk!JobWrites, Talk!RemoveAt, Talk!ContentFiltered, Talk!Blocked

(* ... and with the byte cap as well.                                      *)
LEMMA CappedBytes == ASSUME NEW ms PROVE Capped!TotalBytes(ms) = Tight!TotalBytes(ms)
BY DEF Capped!TotalBytes, Capped!Bytes, Capped!MapThenSumSet, Capped!MapThenFoldSet,
       Capped!Cardinality, Tight!TotalBytes, Tight!Bytes, Tight!MapThenSumSet,
       Tight!MapThenFoldSet, Tight!Cardinality

LEMMA CappedFront ==
  ASSUME NEW ms
  PROVE  /\ Capped!StripLeadingTools(ms) = Tight!StripLeadingTools(ms)
         /\ \A keep :
              Capped!CollapseOldToolResults(ms, keep) = Tight!CollapseOldToolResults(ms, keep)
         /\ Capped!TrimToConversationWindow(ms) = Tight!TrimToConversationWindow(ms)
BY DEF Capped!StripLeadingTools, Capped!Drop, Capped!FirstWhere, Capped!Min,
       Capped!CollapseOldToolResults, Capped!OnResults, Capped!MARKER, Capped!Larger,
       Capped!TrimToConversationWindow, Capped!IsTalk, Capped!Cardinality,
       Tight!StripLeadingTools, Tight!Drop, Tight!FirstWhere, Tight!Min,
       Tight!CollapseOldToolResults, Tight!OnResults, Tight!MARKER, Tight!Larger,
       Tight!TrimToConversationWindow, Tight!IsTalk, Tight!Cardinality

LEMMA CappedCut ==
  ASSUME NEW ms
  PROVE  /\ Capped!EnforceHistoryByteCap(ms) = Tight!EnforceHistoryByteCap(ms)
         /\ \A keep :
              Capped!CollapseOldToolResults(ms, keep) = Tight!CollapseOldToolResults(ms, keep)
         /\ Capped!TrimToConversationWindow(ms) = Tight!TrimToConversationWindow(ms)
<1> DEFINE clamped == Capped!OnResults(ms, LAMBDA i, r :
                        IF CAP_RESULT > 0 /\ r.size > CAP_RESULT
                        THEN [r EXCEPT !.size = CAP_RESULT] ELSE r)
           old == Len(ms) - Capped!Larger(KEEP, 1)
           Clr(n) == Capped!OnResults(clamped, LAMBDA i, r :
                       IF i <= n /\ i <= old /\ ~r.err /\ r.size > Capped!MARKER
                       THEN [r EXCEPT !.size = Capped!MARKER] ELSE r)
           S == {n \in 0 .. Len(ms) : n = Len(ms) \/ Capped!TotalBytes(Clr(n)) <= CAP_BYTES}
           R == {n \in 0 .. Len(ms) : n = Len(ms) \/ Tight!TotalBytes(Clr(n)) <= CAP_BYTES}
           s == Clr(Capped!Min(S))
           r == Clr(Tight!Min(R))
           P == {n \in 0 .. Len(ms) - 1 :
                   n = Len(ms) - 1 \/ Capped!TotalBytes(Capped!Drop(s, n)) <= CAP_BYTES}
           Q == {n \in 0 .. Len(ms) - 1 :
                   n = Len(ms) - 1 \/ Tight!TotalBytes(Tight!Drop(r, n)) <= CAP_BYTES}
<1>1. Capped!EnforceHistoryByteCap(ms) =
        IF CAP_BYTES = 0 \/ ms = <<>> THEN ms
        ELSE Capped!StripLeadingTools(Capped!Drop(s, Capped!Min(P)))
  BY DEF Capped!EnforceHistoryByteCap, Capped!FirstWhere
<1>2. Tight!EnforceHistoryByteCap(ms) =
        IF CAP_BYTES = 0 \/ ms = <<>> THEN ms
        ELSE Tight!StripLeadingTools(Tight!Drop(r, Tight!Min(Q)))
  BY DEF Tight!EnforceHistoryByteCap, Tight!FirstWhere, Tight!OnResults, Capped!OnResults,
         Tight!Larger, Capped!Larger, Tight!MARKER, Capped!MARKER
<1> HIDE DEF Clr
<1>3. S = R
  BY CappedBytes
<1>4. \A A : Capped!Min(A) = Tight!Min(A)
  BY DEF Capped!Min, Tight!Min
<1>5. s = r
  <2> HIDE DEF S, R
  <2> QED
    BY <1>3, <1>4
<1> HIDE DEF S, R, s, r
<1>6. P = Q
  <2>1. \A n : Capped!Drop(s, n) = Tight!Drop(r, n)
    BY <1>5 DEF Capped!Drop, Tight!Drop
  <2> QED
    BY <2>1, CappedBytes
<1> HIDE DEF P, Q
<1>7. Capped!Drop(s, Capped!Min(P)) = Tight!Drop(r, Tight!Min(Q))
  BY <1>4, <1>5, <1>6 DEF Capped!Drop, Tight!Drop
<1> QED
  BY <1>1, <1>2, <1>7, CappedFront

LEMMA CappedRows == Capped!N = Tight!N /\ Capped!PoolStart = Tight!PoolStart
BY DEF Capped!PoolStart, Capped!POOL, Capped!N, Tight!PoolStart, Tight!POOL, Tight!N

LEMMA CappedMessages ==
  ASSUME NEW first, NEW last, NEW R
  PROVE  Capped!Messages(first, last, R) = Tight!Messages(first, last, R)
BY DEF Capped!Messages, Capped!Loaded, Tight!Messages, Tight!Loaded

LEMMA CappedWindow ==
  ASSUME NEW R
  PROVE  Capped!Window(R) = Tight!Window(R)
BY CappedCut, CappedRows, CappedMessages
  DEF Capped!Window, Tight!Window

LEMMA CappedHistory == Capped!LoadHistory = Tight!LoadHistory
BY CappedCut, CappedRows, CappedMessages, CappedWindow
  DEF Capped!LoadHistory, Capped!Spliced, Capped!SummaryMessage, Capped!NoSummary,
      Tight!LoadHistory, Tight!Spliced, Tight!SummaryMessage, Tight!NoSummary

LEMMA CappedPairing ==
  ASSUME NEW ms
  PROVE  Capped!EnsureToolResultPairing(ms) = Tight!EnsureToolResultPairing(ms)
BY DEF Capped!EnsureToolResultPairing, Capped!CloseMissing, Capped!Close, Capped!PairMessage,
      Capped!Unpaired, Capped!ToolMessage, Capped!Answered, Capped!Synthetic,
      Tight!EnsureToolResultPairing, Tight!CloseMissing, Tight!Close, Tight!PairMessage,
      Tight!Unpaired, Tight!ToolMessage, Tight!Answered, Tight!Synthetic

LEMMA CappedProbe ==
  ASSUME NEW R
  PROVE  Capped!ProbePasses(R) = Tight!ProbePasses(R)
BY CappedWindow, CappedPairing
  DEF Capped!ProbePasses, Capped!Flagged, Tight!ProbePasses, Tight!Flagged

LEMMA CappedHalve ==
  ASSUME NEW s
  PROVE  Capped!Halve(s) = Tight!Halve(s)
BY CappedProbe
  DEF Capped!Halve, Capped!Ended, Capped!Cleared, Capped!Left, Capped!Right, Capped!Mid,
      Capped!Search, Capped!Cardinality, Tight!Halve, Tight!Ended, Tight!Cleared, Tight!Left,
      Tight!Right, Tight!Mid, Tight!Search, Tight!Cardinality

LEMMA CappedBisect == ASSUME NEW s PROVE Capped!Bisect(s) = Tight!Bisect(s)
<1> DEFINE F(f) == [n \in 0 .. PROBE_CAP |-> IF n = 0 THEN s ELSE Capped!Halve(f[n - 1])]
           G(f) == [n \in 0 .. PROBE_CAP |-> IF n = 0 THEN s ELSE Tight!Halve(f[n - 1])]
           p == CHOOSE f : f = F(f)
           q == CHOOSE f : f = G(f)
<1>1. \A f : F(f) = G(f)
  <2> SUFFICES ASSUME NEW f PROVE F(f) = G(f)
    OBVIOUS
  <2>1. \A n \in 0 .. PROBE_CAP : Capped!Halve(f[n - 1]) = Tight!Halve(f[n - 1])
    BY CappedHalve
  <2> QED
    BY <2>1
<1>2. Capped!Bisect(s) = p[PROBE_CAP] /\ Tight!Bisect(s) = q[PROBE_CAP]
  BY DEF Capped!Bisect, Tight!Bisect
<1> HIDE DEF F, G
<1>3. p = q
  BY <1>1, Zenon
<1> QED
  BY <1>2, <1>3

LEMMA CappedText ==
  ASSUME NEW from, NEW until
  PROVE  Capped!BandText(from, until) = Tight!BandText(from, until)
BY CappedCut, CappedMessages DEF Capped!BandText, Tight!BandText

LEMMA CappedRendering ==
  ASSUME NEW ms
  PROVE  Capped!RenderForSummary(ms) = Tight!RenderForSummary(ms)
<1> DEFINE S == {n \in 0 .. Len(ms) - 1 :
                   n = Len(ms) - 1 \/ Capped!TotalBytes(Capped!Drop(ms, n)) <= SUMMARY_TOTAL}
           R == {n \in 0 .. Len(ms) - 1 :
                   n = Len(ms) - 1 \/ Tight!TotalBytes(Tight!Drop(ms, n)) <= SUMMARY_TOTAL}
<1>1. S = R
  BY CappedBytes DEF Capped!Drop, Tight!Drop
<1>2. Capped!RenderForSummary(ms)
        = IF SUMMARY_TOTAL = 0 THEN ms ELSE Capped!Drop(ms, Capped!Min(S))
  BY DEF Capped!RenderForSummary, Capped!FirstWhere
<1>3. Tight!RenderForSummary(ms)
        = IF SUMMARY_TOTAL = 0 THEN ms ELSE Tight!Drop(ms, Tight!Min(R))
  BY DEF Tight!RenderForSummary, Tight!FirstWhere
<1> HIDE DEF S, R
<1> QED
  BY <1>1, <1>2, <1>3 DEF Capped!Drop, Tight!Drop, Capped!Min, Tight!Min

LEMMA CappedBand == ASSUME NEW keep PROVE Capped!Band(keep) = Tight!Band(keep)
BY CappedRows, CappedText, CappedRendering
  DEF Capped!Band, Tight!Band, Capped!Flagged, Tight!Flagged, Capped!RowsOf, Tight!RowsOf

LEMMA CappedCulprits == Capped!Culprits = Tight!Culprits
BY CappedRows, CappedWindow, CappedProbe, CappedBisect
  DEF Capped!Culprits, Tight!Culprits, Capped!Candidates, Tight!Candidates, Capped!Search,
      Tight!Search

LEMMA CappedNext == Capped!Next => Tight!Next
BY CappedRows, CappedHistory, CappedPairing, CappedCulprits, CappedBand, ZenonT(60)
  DEF Capped!Next, Capped!AfterCall, Capped!Respond, Capped!BeginTurn, Capped!NoTurn,
      Capped!NoSummary, Capped!MayBeBad, Capped!Cardinality, Capped!AppendRow, Capped!Row,
      Capped!CallLlm, Capped!StartCall, Capped!MaxIterationsExceeded, Capped!LlmFails,
      Capped!LoopGuardTrips, Capped!Cancelled, Capped!Crash, Capped!EndTurn,
      Capped!MalformedToolArgs, Capped!Passes, Capped!Flagged, Capped!Continue, Capped!Escalate,
      Capped!Answer, Capped!CallsOf, Capped!Spawned, Capped!AnswerWithCalls, Capped!ToolsDone,
      Capped!TooLong, Capped!BigEnough, Capped!Shrunk, Capped!Larger, Capped!CompactInTurn,
      Capped!Store, Capped!Goto, Capped!JobReads, Capped!JobWrites, Capped!RemoveAt,
      Capped!ContentFiltered, Capped!Blocked, Tight!Next, Tight!AfterCall, Tight!Respond,
      Tight!BeginTurn, Tight!NoTurn, Tight!NoSummary, Tight!MayBeBad, Tight!Cardinality,
      Tight!AppendRow, Tight!Row, Tight!CallLlm, Tight!StartCall, Tight!MaxIterationsExceeded,
      Tight!LlmFails, Tight!LoopGuardTrips, Tight!Cancelled, Tight!Crash, Tight!EndTurn,
      Tight!MalformedToolArgs, Tight!Passes, Tight!Flagged, Tight!Continue, Tight!Escalate,
      Tight!Answer, Tight!CallsOf, Tight!Spawned, Tight!AnswerWithCalls, Tight!ToolsDone,
      Tight!TooLong, Tight!BigEnough, Tight!Shrunk, Tight!Larger, Tight!CompactInTurn,
      Tight!Store, Tight!Goto, Tight!JobReads, Tight!JobWrites, Tight!RemoveAt,
      Tight!ContentFiltered, Tight!Blocked

ThreadInv == (part = "thread" => Talk!IInv) /\ (part = "capped" => Tight!IInv)

LEMMA ThreadBegins == Init => ThreadInv
<1>1. Thread!Init => Talk!Init /\ Tight!Init
  BY DEF Thread!Init, Talk!Init, Tight!Init, Thread!NoSummary, Talk!NoSummary,
         Tight!NoSummary, Thread!NoTurn, Talk!NoTurn, Tight!NoTurn
<1> QED
  BY <1>1, Talk!InitInv, Tight!InitInv DEF Init, ThreadInv

LEMMA ThreadStep == ASSUME ThreadInv, [Next]_vars PROVE ThreadInv'
<1>1. part' = part
  BY PartStays
<1>2. CASE part = "thread"
  <2>1. Thread!Next \/ UNCHANGED threadState
    BY <1>2 DEF Next, vars, turnState
  <2>2. [Talk!Next]_(Talk!vars)
    BY <2>1, SameNext DEF threadState, Talk!vars
  <2>3. Talk!Sizes
    BY ThreadAssumption DEF Talk!Sizes
  <2> QED
    BY <1>1, <1>2, <2>2, <2>3, Talk!NextInv DEF ThreadInv
<1>3. CASE part = "capped"
  <2>1. Capped!Next \/ UNCHANGED threadState
    BY <1>3 DEF Next, vars, turnState
  <2>2. [Tight!Next]_(Tight!vars)
    BY <2>1, CappedNext DEF threadState, Tight!vars
  <2>3. Tight!Sizes
    BY ThreadAssumption DEF Tight!Sizes
  <2> QED
    BY <1>1, <1>3, <2>2, <2>3, Tight!NextInv DEF ThreadInv
<1> QED
  BY <1>1, <1>2, <1>3 DEF ThreadInv

(* Each request to the model pairs every tool call with one answer right   *)
(* behind it, whatever the window, the byte cap, a compaction, a           *)
(* cancelled turn or a crash left of the history.  For a thread of any     *)
(* length, with responses of any number of calls.                          *)
THEOREM RequestPaired == Spec => []RequestIsPaired
<1>1. ThreadInv => RequestIsPaired
  <2>1. CASE part = "thread"
    BY <2>1, Talk!InvPairsRequest
    DEF ThreadInv, RequestIsPaired, Talk!RequestIsPaired, Thread!RequestIsPaired,
        Talk!WellPaired, Thread!WellPaired, Talk!Ids, Thread!Ids
  <2>2. CASE part = "capped"
    BY <2>2, Tight!InvPairsRequest
    DEF ThreadInv, RequestIsPaired, Tight!RequestIsPaired, Thread!RequestIsPaired,
        Tight!WellPaired, Thread!WellPaired, Tight!Ids, Thread!Ids
  <2> QED
    BY <2>1, <2>2 DEF RequestIsPaired
<1> QED
  BY <1>1, ThreadBegins, ThreadStep, PTL DEF Spec

(* With a summary no row is missing between it and the rows sent after it, *)
(* whenever a compaction ended, and a row counts as summarised only if the *)
(* text the summary was made of held it: the one exception is the head of  *)
(* a band over the summariser's budget, which render_for_summary omits.    *)
(* And the search that redacts a message ends at one the content filter    *)
(* flags, by however many probes.  For a thread of any length.             *)
THEOREM HistoryKept == Spec => []HistoryIsKept
<1>1. ThreadInv => HistoryIsKept
  <2> SUFFICES ASSUME Talk!IInv PROVE Thread!HistoryIsWhole /\ Thread!RedactedWasBad
    BY DEF ThreadInv, HistoryIsKept
  <2>1. Talk!HistoryIsWhole /\ Talk!RedactedWasBad
    BY Talk!InvKeepsHistory
  <2>2. \A u : Thread!Omitted(u) = Talk!Omitted(u) /\ Thread!OverBudget(u) = Talk!OverBudget(u)
    BY SameBytes, SameText DEF Thread!Omitted, Talk!Omitted, Thread!OverBudget, Talk!OverBudget
  <2>3. Thread!FullySpliced = Talk!FullySpliced /\ Thread!Sent = Talk!Sent
    BY SameRows
    DEF Thread!FullySpliced, Talk!FullySpliced, Thread!NoSummary, Talk!NoSummary,
        Thread!Sent, Talk!Sent, Thread!RowsOf, Talk!RowsOf
  <2> QED
    BY <2>1, <2>2, <2>3, SameRows
    DEF Talk!HistoryIsWhole, Thread!HistoryIsWhole, Talk!RedactedWasBad, Thread!RedactedWasBad
<1> QED
  BY <1>1, ThreadBegins, ThreadStep, PTL DEF Spec
=============================================================================
