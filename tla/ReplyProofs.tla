---------------------------- MODULE ReplyProofs ----------------------------
(***************************************************************************)
(* Proofs about Reply and Fence as MCParts runs them: from the deltas the  *)
(* listener streams and the rows of the outbox to the messages the user    *)
(* sees, and what the deltas lose on the way.  For each the inductive      *)
(* invariant first, then one lemma per action, and the theorem.            *)
(***************************************************************************)
EXTENDS MCParts, SequenceTheorems, WellFoundedInduction, FiniteSetTheorems, TLAPS

(* The turn runs, and nothing is in the outbox yet.                        *)
Streams == listening \in {"streaming", "pushing"}
Speaker == {"typing"} \cup Said!RowName

CallOfPlugin == [by : Speaker, op : {"card", "update", "send"}, text : Seq(Nat), n : Nat,
                 heard : BOOLEAN, shows : Nat]

OutboxRow == [kind : {"none", "send", "update", "file"},
              status : {"none", "pending", "delivered", "failed"}, tries : Nat]

ReplyTypes ==
  /\ listening \in {"streaming", "pushing", "replying", "replied", "filing", "over"}
  /\ response \in Nat \ {0} /\ acc \in Seq(Nat) /\ pushed \in Seq(Nat) /\ reply \in Seq(Nat)
  /\ chat \in Seq([by : Speaker, text : Seq(Nat)]) /\ card \in -1 .. Len(chat)
  /\ requests \subseteq CallOfPlugin /\ \A q \in requests : q.shows <= Len(chat)
  /\ outbox \in [Said!RowName -> OutboxRow]

(* Which rows there are, and where the reply goes.                         *)
RowsAreOfTurn ==
  /\ card # 0 => editable
  /\ Streams => \A r \in Said!RowName : outbox[r] = Said!NoRow
  /\ \A r \in Said!RowName :
       /\ outbox[r].kind = "none" => outbox[r] = Said!NoRow
       /\ outbox[r].kind # "none" => outbox[r].status # "none"
  /\ outbox["reply"].kind \in {"none", "send", "update"}
  /\ outbox["reply"].kind = "update" => card # 0
  /\ outbox["reply"].kind = "send" => card = 0
  /\ outbox["replacement"].kind \in {"none", "send"} /\ outbox["file"].kind \in {"none", "file"}
  /\ outbox["replacement"] # Said!NoRow <=>
       outbox["reply"].kind = "update" /\ outbox["reply"].status = "failed"
  /\ listening \in {"filing", "over"} \/ outbox["file"] = Said!NoRow

(* A request is for its row, and a caller that waits is the only one.      *)
RequestsAreOfRows ==
  \A q \in requests :
    /\ q.op = "update" => card # 0
    /\ q.by = "typing" => /\ q.op \in {"card", "update"} /\ editable
                          /\ q.heard => /\ listening = "pushing" /\ q.text = pushed
                                        /\ q.op = "card" => card = 0
    /\ q.by # "typing" => /\ outbox[q.by] # Said!NoRow /\ ~Streams
                          /\ q.heard => /\ outbox[q.by].status = "pending"
                                        /\ q.n = outbox[q.by].tries
    /\ q.by = "reply" => q.op = outbox["reply"].kind /\ q.text = reply
    /\ q.by = "replacement" => q.op = "send" /\ q.text = reply
    /\ q.by = "file" => q.op = "send" /\ q.text = <<>>
    /\ q.by = "reply" /\ q.heard /\ q.n = 0 => listening = "replying"
    /\ q.heard => \A o \in requests : o.heard /\ o.by = q.by => o = q

(* Of a reply that was tried once, the worker takes the row.               *)
FirstTryIsHeard ==
  outbox["reply"].status = "pending" /\ outbox["reply"].tries = 0 =>
    \E q \in requests : q.by = "reply" /\ q.heard

(* A message is of the listener's card or of a row, which has one at most. *)
MessagesAreOfRows ==
  /\ \A m \in DOMAIN chat :
       /\ chat[m].by # "typing" =>
            /\ outbox[chat[m].by] # Said!NoRow
            /\ \A o \in DOMAIN chat : chat[o].by = chat[m].by => o = m
       /\ chat[m].by = "reply" => outbox["reply"].kind = "send" /\ chat[m].text = reply
       /\ chat[m].by = "replacement" => chat[m].text = reply
       /\ chat[m].by = "file" => chat[m].text = <<>>
  /\ card > 0 => chat[card].by = "typing"
  /\ \A q \in requests : q.shows > 0 =>
       /\ q.op = "send" => \E m \in DOMAIN chat : chat[m].by = q.by
       /\ q.op = "card" => chat[q.shows].by = "typing"
       /\ q.op = "update" => q.shows = card
  /\ \A r \in {"reply", "replacement"} :
       outbox[r].kind = "send" /\ outbox[r].status = "delivered" =>
         \E m \in DOMAIN chat : chat[m].by = r

CardShows(t) == card > 0 /\ chat[card].text = t

(* What was pushed, or edited into the card, is shown unless overtaken.    *)
PushedIsShown ==
  /\ listening = "streaming" /\ acked /\ card # 0 /\ pushed # <<>> =>
       overtaken \/ Said!Shows(pushed) # {}
  /\ \A q \in requests : q.by = "typing" /\ q.heard /\ q.shows > 0 =>
       overtaken \/ chat[q.shows].text = q.text
  /\ ~Streams /\ outbox["reply"].kind = "none" =>
       ~acked \/ overtaken \/ Said!Shows(reply) # {}
  /\ \A q \in requests : q.by = "reply" /\ q.op = "update" /\ q.shows > 0 =>
       overtaken \/ CardShows(reply)
  /\ outbox["reply"].kind = "update" /\ outbox["reply"].status = "delivered" =>
       overtaken \/ CardShows(reply)

(* Every card the listener has put into the chat is the one it edits, or   *)
(* its request is still at work, unless an answer was lost.                *)
CardIsKnown ==
  unanswered \/ \A m \in DOMAIN chat : chat[m].by = "typing" =>
    m = card \/ \E q \in requests : q.by = "typing" /\ q.op = "card" /\ q.shows = m

(* What the listener shows is behind what it has got: an older response,   *)
(* or a shorter piece of this one.                                         *)
Behind(t) ==
  /\ t # <<>> /\ t[1] \in 1 .. response
  /\ t[1] = response => acc # <<>> /\ acc[1] = response /\ (t = pushed \/ Len(t) < Len(pushed))

TextsAreBehind ==
  Streams =>
    /\ acc # <<>> => acc[1] \in 1 .. response
    /\ acc # <<>> /\ acc[1] = response => \A i \in DOMAIN acc : acc[i] = response
    /\ Len(pushed) <= Len(acc) /\ (pushed # <<>> => pushed[1] # 0)
    /\ \A m \in DOMAIN chat : Behind(chat[m].text)
    /\ \A q \in requests : Behind(q.text)

(* So an edit with the reply is the first to show it.                      *)
ReplyIsNew ==
  /\ ~Streams => reply # <<>>
  /\ outbox["reply"].kind = "update" =>
       /\ \A q \in requests : q.by = "typing" => q.text # reply
       /\ \/ unanswered \/ outbox["reply"].status = "delivered" \/ ~CardShows(reply)
          \/ \E q \in requests : q.by = "reply" /\ q.shows > 0

(* The reply comes before a file, or was not delivered by its first try.   *)
ReplyIsFirst ==
  outbox["reply"].status = "delivered" /\ outbox["reply"].tries = 0 =>
    chat # <<>> /\ chat[1].by # "file"

ReplyInv ==
  /\ ReplyTypes /\ RowsAreOfTurn /\ RequestsAreOfRows /\ FirstTryIsHeard /\ MessagesAreOfRows
  /\ PushedIsShown /\ CardIsKnown /\ TextsAreBehind /\ ReplyIsNew /\ ReplyIsFirst

LEMMA ChatIsOfMessages ==
  ASSUME ReplyTypes
  PROVE  /\ DOMAIN chat = 1 .. Len(chat) /\ Len(chat) \in Nat
         /\ \A m \in DOMAIN chat : chat[m].by \in Speaker /\ chat[m].text \in Seq(Nat)
<1> DEFINE S == [by : Speaker, text : Seq(Nat)]
<1>1. chat \in Seq(S)
  BY DEF ReplyTypes
<1>2. \A e \in S : e.by \in Speaker /\ e.text \in Seq(Nat)
  OBVIOUS
<1> HIDE DEF S
<1>3. DOMAIN chat = 1 .. Len(chat) /\ Len(chat) \in Nat /\ \A m \in DOMAIN chat : chat[m] \in S
  BY <1>1, LenProperties, ElementOfSeq
<1> QED
  BY <1>2, <1>3

LEMMA ReplyBegins == Said!Init => ReplyInv
<1> SUFFICES ASSUME Said!Init PROVE ReplyInv
  OBVIOUS
<1>1. /\ listening = "streaming" /\ response = 1 /\ card = 0 /\ requests = {} /\ chat = <<>>
      /\ acc = <<>> /\ pushed = <<>> /\ reply = <<>>
      /\ outbox = [r \in Said!RowName |-> Said!NoRow]
      /\ Len(chat) = 0 /\ Len(acc) = 0 /\ Len(pushed) = 0 /\ DOMAIN chat = {}
  BY DEF Said!Init
<1>2. \A r \in Said!RowName : outbox[r] = Said!NoRow
  BY <1>1
<1>3. /\ Said!NoRow \in OutboxRow /\ Said!NoRow.kind = "none" /\ Said!NoRow.status = "none"
      /\ {"reply", "replacement", "file"} \subseteq Said!RowName
  BY DEF Said!NoRow, OutboxRow, Said!RowName
<1>4. ReplyTypes
  <2>1. outbox \in [Said!RowName -> OutboxRow]
    BY <1>1, <1>3
  <2>2. /\ acc \in Seq(Nat) /\ pushed \in Seq(Nat) /\ reply \in Seq(Nat)
        /\ chat \in Seq([by : Speaker, text : Seq(Nat)])
    BY <1>1
  <2> QED
    BY <1>1, <2>1, <2>2 DEF ReplyTypes
<1>5. RowsAreOfTurn
  BY <1>1, <1>2, <1>3 DEF RowsAreOfTurn
<1>6. RequestsAreOfRows /\ FirstTryIsHeard /\ MessagesAreOfRows
  BY <1>1, <1>2, <1>3 DEF RequestsAreOfRows, FirstTryIsHeard, MessagesAreOfRows
<1>7. PushedIsShown /\ CardIsKnown
  BY <1>1, <1>2, <1>3 DEF PushedIsShown, CardIsKnown, Streams
<1>8. TextsAreBehind /\ ReplyIsNew /\ ReplyIsFirst
  BY <1>1, <1>2, <1>3 DEF TextsAreBehind, ReplyIsNew, ReplyIsFirst, Streams
<1> QED
  BY <1>4, <1>5, <1>6, <1>7, <1>8 DEF ReplyInv

(* A new response makes what was shown an older one.                       *)
LEMMA ResponsesKeepReply ==
  ASSUME ReplyInv, Said!NextResponse \/ Said!StreamRetry PROVE ReplyInv'
<1>1. /\ listening = "streaming" /\ response' = response + 1 /\ response \in Nat \ {0}
      /\ UNCHANGED <<editable, card, acked, listening, reply, files, outbox, requests, chat,
                     overtaken, unanswered>>
      /\ \/ UNCHANGED <<acc, pushed>>
         \/ acc' = <<>> /\ pushed' = <<>>
  BY DEF Said!NextResponse, Said!StreamRetry, Said!peer, ReplyInv, ReplyTypes
<1>2. /\ acc \in Seq(Nat) /\ pushed \in Seq(Nat) /\ acc' \in Seq(Nat) /\ pushed' \in Seq(Nat)
      /\ pushed' = <<>> \/ pushed' = pushed
      /\ Len(pushed') <= Len(acc')
  <2>1. acc \in Seq(Nat) /\ pushed \in Seq(Nat) /\ Len(pushed) <= Len(acc)
    BY <1>1 DEF ReplyInv, ReplyTypes, TextsAreBehind, Streams
  <2>2. <<>> \in Seq(Nat) /\ Len(<<>>) = 0
    OBVIOUS
  <2>3. CASE UNCHANGED <<acc, pushed>>
    BY <2>1, <2>3
  <2>4. CASE acc' = <<>> /\ pushed' = <<>>
    BY <2>1, <2>2, <2>4
  <2> QED
    BY <1>1, <2>3, <2>4
<1>3. ReplyTypes'
  BY <1>1, <1>2 DEF ReplyInv, ReplyTypes
<1>4. RowsAreOfTurn' /\ FirstTryIsHeard' /\ MessagesAreOfRows' /\ CardIsKnown'
  BY <1>1
  DEF ReplyInv, RowsAreOfTurn, FirstTryIsHeard, MessagesAreOfRows, CardIsKnown, Streams,
      Said!NoRow
<1>5. RequestsAreOfRows'
  BY <1>1 DEF ReplyInv, RequestsAreOfRows, Streams, Said!NoRow
<1>6. PushedIsShown'
  BY <1>1, <1>2 DEF ReplyInv, PushedIsShown, Streams, Said!Shows, CardShows
<1>7. \A t : Behind(t) => Behind(t)'
  BY <1>1 DEF Behind
<1>8. TextsAreBehind'
  <2>1. /\ \A m \in DOMAIN chat : Behind(chat[m].text)
        /\ \A q \in requests : Behind(q.text)
    BY <1>1 DEF ReplyInv, TextsAreBehind, Streams
  <2>2. acc' # <<>> => acc' = acc /\ acc[1] \in 1 .. response
    BY <1>1 DEF ReplyInv, TextsAreBehind, Streams
  <2>3. pushed' # <<>> => pushed'[1] # 0
    BY <1>1, <1>2 DEF ReplyInv, TextsAreBehind, Streams
  <2> QED
    BY <1>1, <1>2, <1>7, <2>1, <2>2, <2>3 DEF TextsAreBehind, Behind
<1>9. ReplyIsNew' /\ ReplyIsFirst'
  BY <1>1 DEF ReplyInv, ReplyIsNew, ReplyIsFirst, Streams, CardShows
<1> QED
  BY <1>3, <1>4, <1>5, <1>6, <1>8, <1>9 DEF ReplyInv

LEMMA DeltaKeepsReply == ASSUME ReplyInv, Said!Delta PROVE ReplyInv'
<1> DEFINE op == IF card = 0 THEN "card" ELSE "update"
           new == Said!NewRequest("typing", op, acc', Len(acc'))
<1>1. /\ listening = "streaming" /\ acc' = Append(acc, response)
      /\ UNCHANGED <<editable, response, card, acked, reply, outbox, chat, overtaken, unanswered>>
      /\ \/ /\ editable /\ pushed' = acc' /\ requests' = requests \cup {new}
            /\ listening' = "pushing"
         \/ UNCHANGED <<pushed, requests, listening>>
  BY DEF Said!Delta
<1>2. /\ acc \in Seq(Nat) /\ pushed \in Seq(Nat) /\ response \in Nat \ {0}
      /\ Len(pushed) <= Len(acc) /\ Len(acc) \in Nat /\ Len(pushed) \in Nat
      /\ acc # <<>> => acc[1] \in 1 .. response
      /\ acc # <<>> /\ acc[1] = response => \A i \in DOMAIN acc : acc[i] = response
      /\ pushed # <<>> => pushed[1] # 0
  BY <1>1 DEF ReplyInv, ReplyTypes, TextsAreBehind, Streams
<1>3. /\ acc' \in Seq(Nat) /\ Len(acc') = Len(acc) + 1 /\ acc' # <<>>
      /\ \A i \in 1 .. Len(acc) : acc'[i] = acc[i]
      /\ acc'[Len(acc) + 1] = response /\ DOMAIN acc' = 1 .. Len(acc) + 1
      /\ acc # <<>> => Len(acc) >= 1 /\ acc'[1] = acc[1]
      /\ acc = <<>> => Len(acc) = 0 /\ acc'[1] = response
  <2>1. /\ acc' \in Seq(Nat) /\ Len(acc') = Len(acc) + 1 /\ acc' # <<>>
        /\ \A i \in 1 .. Len(acc) : acc'[i] = acc[i]
        /\ acc'[Len(acc) + 1] = response /\ DOMAIN acc' = 1 .. Len(acc) + 1
    BY <1>1, <1>2, AppendProperties
  <2>2. acc # <<>> => Len(acc) >= 1
    BY <1>2, EmptySeq
  <2>3. acc = <<>> => Len(acc) = 0
    BY EmptySeq
  <2> QED
    BY <1>2, <2>1, <2>2, <2>3
<1>4. /\ new \in CallOfPlugin /\ new.by = "typing" /\ new.op = op /\ new.text = acc'
      /\ new.heard = TRUE /\ new.shows = 0 /\ op \in {"card", "update"}
      /\ card = 0 <=> op = "card"
  BY <1>3 DEF CallOfPlugin, Said!NewRequest, Speaker
<1>5. \A q \in requests : q.by = "typing" /\ ~q.heard
  BY <1>1 DEF ReplyInv, ReplyTypes, CallOfPlugin, RequestsAreOfRows, Streams
<1>6. requests' \subseteq requests \cup {new} /\ requests \subseteq requests'
      /\ (requests' # requests => listening' = "pushing" /\ pushed' = acc')
      /\ listening' \in {"streaming", "pushing"} /\ (listening' = "streaming" => pushed' = pushed)
  BY <1>1
<1>7. ReplyTypes'
  <2>1. requests' \subseteq CallOfPlugin /\ \A q \in requests' : q.shows <= Len(chat)
    BY <1>4, <1>6 DEF ReplyInv, ReplyTypes
  <2> QED
    BY <1>1, <1>2, <1>3, <2>1 DEF ReplyInv, ReplyTypes
<1>8. RowsAreOfTurn' /\ FirstTryIsHeard' /\ ReplyIsFirst'
  BY <1>1 DEF ReplyInv, RowsAreOfTurn, FirstTryIsHeard, ReplyIsFirst, Streams, Said!NoRow,
              Said!RowName
<1>9. RequestsAreOfRows'
  BY <1>1, <1>4, <1>5, <1>6 DEF ReplyInv, RequestsAreOfRows, Streams
<1>10. MessagesAreOfRows'
  BY <1>1, <1>4, <1>6 DEF ReplyInv, MessagesAreOfRows, Said!NoRow
<1>11. PushedIsShown'
  BY <1>1, <1>4, <1>5, <1>6
  DEF ReplyInv, PushedIsShown, RowsAreOfTurn, Streams, Said!Shows, Said!RowName, CardShows,
      Said!NoRow
<1>12. CardIsKnown'
  BY <1>1, <1>6 DEF ReplyInv, CardIsKnown
<1>13. TextsAreBehind'
  <2>1. acc'[1] \in 1 .. response
    BY <1>2, <1>3
  <2>2. ASSUME acc'[1] = response, NEW i \in 1 .. Len(acc) + 1 PROVE acc'[i] = response
    <3>1. CASE i \in 1 .. Len(acc)
      <4>1. acc # <<>> /\ acc'[i] = acc[i] /\ i \in DOMAIN acc
        <5>1. acc # <<>> /\ acc'[i] = acc[i]
          BY <1>3, <3>1
        <5>2. i \in DOMAIN acc
          BY <1>2, <3>1, LenProperties
        <5> QED
          BY <5>1, <5>2
      <4> QED
        BY <1>2, <1>3, <2>2, <4>1
    <3>2. CASE i = Len(acc) + 1
      BY <1>3, <3>2
    <3> QED
      BY <1>2, <3>1, <3>2
  <2>3. \A t : Behind(t) => Behind(t)'
    <3> SUFFICES ASSUME NEW t, Behind(t) PROVE Behind(t)'
      OBVIOUS
    <3>1. t[1] = response => acc'[1] = response
      BY <1>2, <1>3 DEF Behind
    <3>2. t[1] = response => t = pushed' \/ Len(t) < Len(pushed')
      BY <1>1, <1>2, <1>3 DEF Behind
    <3> QED
      BY <1>1, <1>3, <3>1, <3>2 DEF Behind
  <2>4. ASSUME NEW t, t = acc', pushed' = acc' PROVE Behind(t)'
    BY <1>1, <1>3, <2>1, <2>4 DEF Behind
  <2>5. Len(pushed') <= Len(acc') /\ (pushed' # <<>> => pushed'[1] # 0)
    <3>1. CASE pushed' = acc'
      BY <1>2, <1>3, <2>1, <3>1
    <3>2. CASE pushed' = pushed
      BY <1>2, <1>3, <3>2
    <3> QED
      BY <1>1, <3>1, <3>2
  <2>6. \A m \in DOMAIN chat' : Behind(chat[m].text)'
    BY <1>1, <2>3 DEF ReplyInv, TextsAreBehind, Streams
  <2>7. \A q \in requests' : Behind(q.text)'
    BY <1>1, <1>4, <1>6, <2>3, <2>4 DEF ReplyInv, TextsAreBehind, Streams
  <2> QED
    BY <1>1, <1>3, <2>1, <2>2, <2>5, <2>6, <2>7 DEF TextsAreBehind, Behind
<1>14. ReplyIsNew'
  BY <1>1, <1>6 DEF ReplyInv, ReplyIsNew, RowsAreOfTurn, Streams, Said!NoRow, Said!RowName
<1> QED
  BY <1>7, <1>8, <1>9, <1>10, <1>11, <1>12, <1>13, <1>14 DEF ReplyInv

(* The note for a failure or an empty reply is nothing that was streamed;  *)
(* nor is the text of the last response, unless it was pushed last.        *)
LEMMA NoteIsNew ==
  ASSUME ReplyInv, Streams
  PROVE  /\ Said!Note \in Seq(Nat) /\ Said!Note # <<>> /\ Said!Note # pushed
         /\ ~Behind(Said!Note)
<1>1. Said!Note \in Seq(Nat) /\ Said!Note # <<>> /\ Said!Note[1] = 0
  BY DEF Said!Note
<1>2. pushed # <<>> => pushed[1] # 0
  BY DEF ReplyInv, TextsAreBehind
<1>3. 0 \notin 1 .. response
  BY DEF ReplyInv, ReplyTypes
<1> QED
  BY <1>1, <1>2, <1>3 DEF Behind

LEMMA SameCount == \A S : Said!Cardinality(S) = Cardinality(S)
  BY DEF Said!Cardinality, Cardinality

LEMMA CountTo == ASSUME NEW n \in Nat PROVE IsFiniteSet(1 .. n) /\ Cardinality(1 .. n) = n
  BY FS_Interval

LEMMA SaidIsNew ==
  ASSUME ReplyInv, Streams, Said!Said # <<>>
  PROVE  Said!Said \in Seq(Nat) /\ (Behind(Said!Said) => Said!Said = pushed)
<1> DEFINE S == {k \in DOMAIN acc : acc[k] = response}
           n == Cardinality(S)
<1>1. /\ acc \in Seq(Nat) /\ pushed \in Seq(Nat) /\ response \in Nat \ {0}
      /\ DOMAIN acc = 1 .. Len(acc) /\ Len(acc) \in Nat /\ Len(pushed) \in Nat
      /\ Len(pushed) <= Len(acc)
      /\ acc # <<>> /\ acc[1] = response => \A i \in DOMAIN acc : acc[i] = response
  <2>1. acc \in Seq(Nat) /\ pushed \in Seq(Nat) /\ response \in Nat \ {0}
    BY DEF ReplyInv, ReplyTypes
  <2> QED
    BY <2>1, LenProperties DEF ReplyInv, TextsAreBehind
<1>2. IsFiniteSet(DOMAIN acc) /\ Cardinality(DOMAIN acc) = Len(acc)
  BY <1>1, CountTo
<1>3. n \in Nat
  BY <1>2, FS_Subset, FS_CardinalityType
<1>4. Said!Said = [i \in 1 .. n |-> response]
  BY SameCount DEF Said!Said
<1> HIDE DEF n
<1>5. Said!Said \in Seq(Nat) /\ Len(Said!Said) = n /\ DOMAIN Said!Said = 1 .. n
  BY <1>1, <1>3, <1>4
<1>6. ASSUME Behind(Said!Said) PROVE Said!Said = pushed
  <2>1. n >= 1
    BY <1>3, <1>5, EmptySeq
  <2>2. Said!Said[1] = response
    BY <1>3, <1>4, <2>1
  <2>3. /\ \A i \in DOMAIN acc : acc[i] = response
        /\ Said!Said = pushed \/ Len(Said!Said) < Len(pushed)
    BY <1>1, <1>6, <2>2 DEF Behind
  <2>4. n = Len(acc)
    <3>1. S = DOMAIN acc
      BY <2>3
    <3> QED
      BY <1>2, <3>1 DEF n
  <2> QED
    BY <1>1, <1>5, <2>3, <2>4
<1> QED
  BY <1>5, <1>6

(* The end of the turn: the reply is what was pushed last, or is nothing   *)
(* the listener has shown.                                                 *)
LEMMA ConcludeKeepsReply ==
  ASSUME ReplyInv, Streams, NEW t \in Seq(Nat), t # <<>>, NEW kept \in SUBSET CallOfPlugin,
         Said!Conclude(t, kept),
         t = pushed => listening = "streaming" /\ acked' = acked,
         Behind(t) => t = pushed,
         \A q \in kept : ~q.heard /\ \E o \in requests : /\ q.by = o.by /\ q.op = o.op
                                                         /\ q.text = o.text /\ q.shows = o.shows,
         \A o \in requests : \E q \in kept : q.by = o.by /\ q.op = o.op /\ q.shows = o.shows,
         UNCHANGED <<editable, response, acc, pushed, card, chat, overtaken, unanswered>>
  PROVE  ReplyInv'
<1> DEFINE kind == IF card # 0 /\ editable THEN "update" ELSE "send"
           new == Said!NewRequest("reply", kind, t, 0)
           waits == Said!Pending(kind)
<1>1. /\ ReplyTypes /\ RowsAreOfTurn /\ RequestsAreOfRows /\ MessagesAreOfRows
      /\ PushedIsShown /\ CardIsKnown /\ TextsAreBehind
      /\ \A r \in Said!RowName : outbox[r] = Said!NoRow
      /\ \A q \in requests : q.by = "typing"
      /\ {"reply", "replacement", "file"} = Said!RowName
  BY DEF ReplyInv, ReplyTypes, RowsAreOfTurn, RequestsAreOfRows, CallOfPlugin, Speaker,
         Said!RowName
<1>2. \A q \in kept : q.by = "typing"
  BY <1>1
<1>3. /\ waits \in OutboxRow /\ waits.kind = kind /\ waits.status = "pending"
      /\ waits.tries = 0
      /\ kind \in {"send", "update"} /\ (kind = "update" => card # 0)
      /\ (kind = "send" => card = 0) /\ waits # Said!NoRow
      /\ Said!NoRow \in OutboxRow /\ Said!NoRow.kind = "none" /\ Said!NoRow.status = "none"
  BY <1>1 DEF Said!Pending, OutboxRow, RowsAreOfTurn, Said!NoRow
<1>4. /\ new \in CallOfPlugin /\ new.by = "reply" /\ new.op = kind /\ new.text = t /\ new.n = 0
      /\ new.heard = TRUE /\ new.shows = 0
  BY <1>3 DEF CallOfPlugin, Said!NewRequest, Speaker, Said!RowName
<1>5. \A m \in DOMAIN chat : chat[m].by = "typing" /\ Behind(chat[m].text)
  <2> SUFFICES ASSUME NEW m \in DOMAIN chat PROVE chat[m].by = "typing"
    BY <1>1 DEF TextsAreBehind
  <2>2. chat[m].by = "typing" \/ chat[m].by \in Said!RowName
    BY <1>1, ChatIsOfMessages DEF Speaker
  <2> QED
    BY <1>1, <2>2 DEF MessagesAreOfRows
<1>6. \A q \in kept : Behind(q.text)
  BY <1>1 DEF TextsAreBehind
<1>7. reply' = t
  BY DEF Said!Conclude
<1>8. CASE Said!IsStreamed(t)
  <2>1. /\ listening' = "replied" /\ requests' = kept /\ outbox' = outbox
        /\ t = pushed /\ card # 0 /\ listening = "streaming"
    BY <1>8 DEF Said!Conclude, Said!IsStreamed
  <2>2. ReplyTypes'
    BY <1>1, <1>7, <2>1 DEF ReplyTypes
  <2>3. RowsAreOfTurn' /\ FirstTryIsHeard' /\ ReplyIsFirst'
    BY <1>1, <1>3, <2>1 DEF RowsAreOfTurn, FirstTryIsHeard, ReplyIsFirst, Streams
  <2>4. RequestsAreOfRows' /\ MessagesAreOfRows' /\ CardIsKnown'
    BY <1>1, <1>2, <1>3, <1>5, <2>1
    DEF RequestsAreOfRows, MessagesAreOfRows, CardIsKnown, Streams
  <2>5. PushedIsShown'
    BY <1>1, <1>2, <1>3, <1>7, <2>1 DEF PushedIsShown, Streams, Said!Shows
  <2>6. TextsAreBehind' /\ ReplyIsNew'
    BY <1>1, <1>3, <1>7, <2>1 DEF TextsAreBehind, ReplyIsNew, Streams
  <2> QED
    BY <2>2, <2>3, <2>4, <2>5, <2>6 DEF ReplyInv
<1>9. CASE ~Said!IsStreamed(t)
  <2>1. /\ listening' = "replying" /\ requests' = kept \cup {new}
        /\ outbox' = [outbox EXCEPT !["reply"] = waits]
    BY <1>9 DEF Said!Conclude
  <2>2. /\ outbox'["reply"] = waits /\ outbox'["replacement"] = Said!NoRow
        /\ outbox'["file"] = Said!NoRow /\ outbox' \in [Said!RowName -> OutboxRow]
    BY <1>1, <1>3, <2>1 DEF ReplyTypes
  <2>3. kind = "update" => ~Behind(t)
    BY <1>3, <1>9 DEF Said!IsStreamed
  <2>4. ReplyTypes'
    <3>1. requests' \subseteq CallOfPlugin /\ \A q \in requests' : q.shows <= Len(chat)
      <4>1. /\ \A q \in requests : q.shows <= Len(chat)
            /\ 0 <= Len(chat)
        BY <1>1, LenProperties DEF ReplyTypes
      <4>2. \A q \in kept : q.shows <= Len(chat)
        BY <4>1
      <4> QED
        BY <1>4, <2>1, <4>1, <4>2
    <3> QED
      BY <1>1, <1>7, <2>1, <2>2, <3>1 DEF ReplyTypes
  <2>5. RowsAreOfTurn'
    BY <1>1, <1>3, <2>1, <2>2 DEF RowsAreOfTurn, Streams
  <2>6. RequestsAreOfRows'
    BY <1>1, <1>2, <1>3, <1>4, <1>7, <2>1, <2>2 DEF RequestsAreOfRows, Streams
  <2>7. FirstTryIsHeard' /\ ReplyIsFirst'
    BY <1>3, <1>4, <2>1, <2>2 DEF FirstTryIsHeard, ReplyIsFirst
  <2>8. MessagesAreOfRows' /\ CardIsKnown'
    BY <1>1, <1>2, <1>3, <1>4, <1>5, <2>1, <2>2 DEF MessagesAreOfRows, CardIsKnown
  <2>9. PushedIsShown'
    BY <1>2, <1>3, <1>4, <2>1, <2>2 DEF PushedIsShown, Streams
  <2>10. TextsAreBehind' /\ ReplyIsNew'
    <3>1. TextsAreBehind'
      BY <2>1 DEF TextsAreBehind, Streams
    <3>2. CASE kind = "update"
      <4>1. \A q \in requests' : q.by = "typing" => q.text # t
        BY <1>4, <1>6, <2>1, <2>3, <3>2
      <4>2. ~CardShows(t)
        BY <1>1, <1>5, <2>3, <3>2 DEF CardShows, ReplyTypes
      <4> QED
        BY <1>7, <2>1, <3>1, <4>1, <4>2 DEF ReplyIsNew, Streams, CardShows
    <3>3. CASE kind # "update"
      BY <1>3, <1>7, <2>2, <3>1, <3>3 DEF ReplyIsNew
    <3> QED
      BY <3>2, <3>3
  <2> QED
    BY <2>4, <2>5, <2>6, <2>7, <2>8, <2>9, <2>10 DEF ReplyInv
<1> QED
  BY <1>8, <1>9

LEMMA ClosingKeepsReply ==
  ASSUME ReplyInv, Said!TurnEnds \/ Said!TurnFails \/ Said!Command PROVE ReplyInv'
<1>1. /\ Streams
      /\ UNCHANGED <<editable, response, acc, pushed, card, chat, overtaken, unanswered>>
  BY DEF Said!TurnEnds, Said!TurnFails, Said!Command, Streams, Said!typing
<1>2. /\ requests \subseteq CallOfPlugin
      /\ \A q \in requests : q.by = "typing" /\ (listening = "streaming" => ~q.heard)
  BY <1>1 DEF ReplyInv, ReplyTypes, RequestsAreOfRows, CallOfPlugin
<1>3. CASE Said!TurnEnds
  <2> DEFINE t == IF Said!Said = <<>> THEN Said!Note ELSE Said!Said
  <2>1. listening = "streaming" /\ Said!Conclude(t, requests) /\ acked' = acked
    BY <1>3 DEF Said!TurnEnds, Said!typing
  <2>2. t \in Seq(Nat) /\ t # <<>> /\ (Behind(t) => t = pushed)
    BY <1>1, NoteIsNew, SaidIsNew
  <2> HIDE DEF t
  <2> QED
    BY <1>1, <1>2, <2>1, <2>2, ConcludeKeepsReply
<1>4. CASE Said!TurnFails
  <2> DEFINE kept == {[q EXCEPT !.heard = FALSE] : q \in requests}
  <2>1. Said!Conclude(Said!Note, kept)
    BY <1>4 DEF Said!TurnFails
  <2>2. \A q \in requests : LET o == [q EXCEPT !.heard = FALSE] IN
          /\ o \in CallOfPlugin /\ ~o.heard /\ o.by = q.by /\ o.op = q.op
          /\ o.text = q.text /\ o.shows = q.shows
    BY <1>2 DEF CallOfPlugin
  <2>3. /\ kept \in SUBSET CallOfPlugin
        /\ \A q \in kept : ~q.heard /\ \E o \in requests : /\ q.by = o.by /\ q.op = o.op
                                                           /\ q.text = o.text /\ q.shows = o.shows
        /\ \A o \in requests : \E q \in kept : q.by = o.by /\ q.op = o.op /\ q.shows = o.shows
    BY <2>2
  <2> HIDE DEF kept
  <2> QED
    BY <1>1, <2>1, <2>3, NoteIsNew, ConcludeKeepsReply
<1>5. CASE Said!Command
  <2>1. Said!Conclude(Said!Note, {}) /\ response = 1 /\ acc = <<>>
    BY <1>5 DEF Said!Command
  <2>2. requests = {}
    <3> SUFFICES ASSUME NEW q \in requests PROVE FALSE
      OBVIOUS
    <3>1. Behind(q.text)
      BY <1>1 DEF ReplyInv, TextsAreBehind
    <3> QED
      BY <2>1, <3>1 DEF Behind
  <2> QED
    BY <1>1, <2>1, <2>2, NoteIsNew, ConcludeKeepsReply
<1> QED
  BY <1>3, <1>4, <1>5

(* A row's request goes to the plugin.                                     *)
Asks(new) ==
  /\ new \in CallOfPlugin /\ new.by \in Said!RowName /\ new.heard /\ new.shows = 0
  /\ \A o \in requests : o.by = new.by => ~o.heard
  /\ new.by = "reply" => new.op = outbox["reply"].kind /\ new.text = reply /\ new.n # 0
  /\ new.by = "replacement" => new.op = "send" /\ new.text = reply
  /\ new.by = "file" => new.op = "send" /\ new.text = <<>>
  /\ new.op = "update" => card # 0
  /\ outbox'[new.by].status = "pending" /\ new.n = outbox'[new.by].tries
  /\ requests' = requests \cup {new}

LEMMA AskingKeepsReply ==
  ASSUME ReplyInv, ~Streams, NEW new, Asks(new), listening' \in {listening, "filing"},
         outbox' = outbox \/ (/\ listening' = "filing" /\ outbox["file"] = Said!NoRow
                              /\ listening # "replying"
                              /\ outbox' = [outbox EXCEPT !["file"] = Said!Pending("file")]),
         listening' = listening \/ listening = "replied",
         UNCHANGED <<editable, response, acc, pushed, card, acked, reply, chat, overtaken,
                     unanswered>>
  PROVE  ReplyInv'
<1>1. /\ {"reply", "replacement", "file"} = Said!RowName
      /\ outbox \in [Said!RowName -> OutboxRow]
  BY DEF Said!RowName, ReplyInv, ReplyTypes
<1>2. /\ outbox' \in [Said!RowName -> OutboxRow]
      /\ outbox'["reply"] = outbox["reply"] /\ outbox'["replacement"] = outbox["replacement"]
      /\ \A r \in Said!RowName : outbox'[r] = Said!NoRow => outbox[r] = Said!NoRow
      /\ outbox["file"] # Said!NoRow => outbox'["file"] = outbox["file"]
      /\ \/ outbox'["file"] = outbox["file"]
         \/ /\ outbox'["file"].kind = "file" /\ outbox'["file"].status = "pending"
            /\ listening' = "filing"
  <2>1. Said!Pending("file") \in OutboxRow /\ Said!Pending("file") # Said!NoRow
        /\ Said!Pending("file").kind = "file" /\ Said!Pending("file").status = "pending"
    BY DEF Said!Pending, Said!NoRow, OutboxRow
  <2> QED
    BY <1>1, <2>1
<1>3. /\ new \in CallOfPlugin /\ new.by \in Said!RowName /\ new.by # "typing" /\ new.heard
      /\ new.shows = 0 /\ requests' = requests \cup {new} /\ Said!NoRow.status = "none"
      /\ ~Streams'
  BY DEF Asks, Said!RowName, Said!NoRow, Streams
<1>4. ReplyTypes'
  <2>1. requests' \subseteq CallOfPlugin /\ \A q \in requests' : q.shows <= Len(chat)
    BY <1>3, ChatIsOfMessages DEF ReplyInv, ReplyTypes
  <2> QED
    BY <1>2, <2>1 DEF ReplyInv, ReplyTypes
<1>5. RowsAreOfTurn'
  BY <1>1, <1>2, <1>3 DEF ReplyInv, RowsAreOfTurn
<1>6. RequestsAreOfRows'
  <2>1. \A q \in requests : q.by # "typing" => outbox'[q.by] = outbox[q.by]
    BY <1>1, <1>2 DEF ReplyInv, ReplyTypes, RequestsAreOfRows, CallOfPlugin, Speaker
  <2>2. \A q \in requests : q.heard /\ q.by = "typing" => FALSE
    BY DEF ReplyInv, RequestsAreOfRows, Streams
  <2>3. \A q \in requests :
          /\ q.by = "reply" /\ q.heard /\ q.n = 0 => listening' = "replying"
          /\ q.op = "update" => card # 0
          /\ q.by = "typing" => q.op \in {"card", "update"} /\ editable
          /\ q.by # "typing" => outbox[q.by] # Said!NoRow
    BY DEF ReplyInv, RequestsAreOfRows
  <2> QED
    BY <1>2, <1>3, <2>1, <2>2, <2>3 DEF ReplyInv, RequestsAreOfRows, Asks
<1>7. FirstTryIsHeard' /\ ReplyIsFirst'
  BY <1>2, <1>3 DEF ReplyInv, FirstTryIsHeard, ReplyIsFirst
<1>8. MessagesAreOfRows' /\ CardIsKnown'
  BY <1>1, <1>2, <1>3, ChatIsOfMessages
  DEF ReplyInv, MessagesAreOfRows, CardIsKnown, Speaker
<1>9. PushedIsShown'
  BY <1>2, <1>3 DEF ReplyInv, PushedIsShown, Said!Shows, Streams, CardShows
<1>10. TextsAreBehind' /\ ReplyIsNew'
  BY <1>2, <1>3 DEF ReplyInv, TextsAreBehind, ReplyIsNew, CardShows
<1> QED
  BY <1>4, <1>5, <1>6, <1>7, <1>8, <1>9, <1>10 DEF ReplyInv

LEMMA RetryKeepsReply ==
  ASSUME ReplyInv, NEW r \in Said!RowName, Said!Retry(r) PROVE ReplyInv'
<1> DEFINE new == Said!NewRequest(r, Said!Op(r), IF r = "file" THEN <<>> ELSE reply,
                                  outbox[r].tries)
<1>1. /\ outbox[r].status = "pending" /\ requests' = requests \cup {new}
      /\ \A q \in requests : q.by = r => ~q.heard
      /\ UNCHANGED <<editable, response, acc, pushed, card, acked, listening, reply, outbox, chat,
                     overtaken, unanswered>>
  BY DEF Said!Retry, Said!typing
<1>2. /\ outbox \in [Said!RowName -> OutboxRow] /\ reply \in Seq(Nat) /\ <<>> \in Seq(Nat)
      /\ Said!NoRow.status = "none" /\ {"reply", "replacement", "file"} = Said!RowName
  BY DEF ReplyInv, ReplyTypes, Said!NoRow, Said!RowName
<1>3. ~Streams
  BY <1>1, <1>2 DEF ReplyInv, RowsAreOfTurn
<1>4. Said!Op(r) \in {"send", "update"} /\ outbox[r].tries \in Nat
  BY <1>2 DEF Said!Op, OutboxRow
<1>5. /\ new \in CallOfPlugin /\ new.by = r /\ new.op = Said!Op(r) /\ new.heard = TRUE
      /\ new.n = outbox[r].tries /\ new.shows = 0
      /\ new.text = IF r = "file" THEN <<>> ELSE reply
  BY <1>2, <1>4 DEF Said!NewRequest, CallOfPlugin, Speaker
<1>6. /\ r = "reply" => Said!Op(r) = outbox["reply"].kind /\ outbox[r].tries # 0
      /\ r # "reply" => Said!Op(r) = "send"
      /\ Said!Op(r) = "update" => card # 0
  BY <1>1, <1>2 DEF ReplyInv, RowsAreOfTurn, FirstTryIsHeard, Said!Op, Said!NoRow
<1>7. Asks(new)
  BY <1>1, <1>5, <1>6 DEF Asks
<1> QED
  BY <1>1, <1>3, <1>7, AskingKeepsReply

LEMMA FileKeepsReply == ASSUME ReplyInv, Said!SendFile PROVE ReplyInv'
<1>1. /\ listening = "replied"
      /\ UNCHANGED <<editable, response, acc, pushed, card, acked, reply, chat, overtaken,
                     unanswered>>
  BY DEF Said!SendFile, Said!typing
<1>2. CASE listening' = "over" /\ UNCHANGED <<outbox, requests>>
  <2>1. ReplyTypes' /\ RowsAreOfTurn' /\ FirstTryIsHeard' /\ ReplyIsFirst' /\ CardIsKnown'
    BY <1>1, <1>2 DEF ReplyInv, ReplyTypes, RowsAreOfTurn, FirstTryIsHeard, ReplyIsFirst,
                      CardIsKnown, Streams, Said!NoRow
  <2>2. RequestsAreOfRows'
    BY <1>1, <1>2 DEF ReplyInv, RequestsAreOfRows, Streams, Said!NoRow
  <2>3. MessagesAreOfRows' /\ PushedIsShown'
    BY <1>1, <1>2 DEF ReplyInv, MessagesAreOfRows, PushedIsShown, Streams, Said!Shows, CardShows,
                      Said!NoRow
  <2>4. TextsAreBehind' /\ ReplyIsNew'
    BY <1>1, <1>2 DEF ReplyInv, TextsAreBehind, ReplyIsNew, Streams, CardShows
  <2> QED
    BY <2>1, <2>2, <2>3, <2>4 DEF ReplyInv
<1>3. CASE listening' = "filing"
  <2> DEFINE new == Said!NewRequest("file", "send", <<>>, 0)
  <2>1. /\ outbox' = [outbox EXCEPT !["file"] = Said!Pending("file")]
        /\ requests' = requests \cup {new}
    BY <1>3 DEF Said!SendFile
  <2>2. /\ outbox["file"] = Said!NoRow /\ ~Streams /\ outbox \in [Said!RowName -> OutboxRow]
        /\ "file" \in Said!RowName
    BY <1>1 DEF ReplyInv, ReplyTypes, RowsAreOfTurn, Streams, Said!RowName
  <2>3. /\ new \in CallOfPlugin /\ new.by = "file" /\ new.op = "send" /\ new.heard = TRUE
        /\ new.n = 0 /\ new.shows = 0 /\ new.text = <<>> /\ <<>> \in Seq(Nat)
    BY <2>2 DEF Said!NewRequest, CallOfPlugin, Speaker
  <2>4. \A o \in requests : o.by # "file"
    BY <2>2 DEF ReplyInv, RequestsAreOfRows
  <2>5. outbox'["file"].status = "pending" /\ outbox'["file"].tries = 0
    BY <2>1, <2>2 DEF Said!Pending
  <2>6. Asks(new)
    BY <2>1, <2>2, <2>3, <2>4, <2>5 DEF Asks
  <2> QED
    BY <1>1, <1>3, <2>1, <2>2, <2>6, AskingKeepsReply
<1> QED
  BY <1>2, <1>3 DEF Said!SendFile

(* What the platform does to the chat: an edit of the card, a message, or  *)
(* nothing for a uuid that it knows.                                       *)
LEMMA EffectIsOne ==
  ASSUME ReplyTypes, NEW q \in requests, Said!TakesEffect(q),
         q.op = "card" => q.by = "typing", card > 0 => card \in DOMAIN chat
  PROVE  /\ chat' \in Seq([by : Speaker, text : Seq(Nat)]) /\ Len(chat) <= Len(chat')
         /\ DOMAIN chat \subseteq DOMAIN chat'
         /\ \A m \in DOMAIN chat :
              /\ chat'[m].by = chat[m].by
              /\ chat'[m].text # chat[m].text =>
                   q.op = "update" /\ m = card /\ chat'[m].text = q.text
         /\ q.op = "update" => /\ DOMAIN chat' = DOMAIN chat /\ card \in DOMAIN chat
                               /\ chat'[card].text = q.text
         /\ q.op # "update" =>
              /\ Len(chat') > 0 /\ \E m \in DOMAIN chat' : chat'[m].by = q.by
              /\ \A m \in DOMAIN chat' \ DOMAIN chat :
                   /\ m = Len(chat') /\ chat'[m].by = q.by /\ chat'[m].text = q.text
                   /\ q.by # "typing" => \A o \in DOMAIN chat : chat[o].by # q.by
         /\ q.op = "card" => /\ Len(chat') \in DOMAIN chat' \ DOMAIN chat
                             /\ chat'[Len(chat')].by = "typing"
<1>1. /\ DOMAIN chat = 1 .. Len(chat) /\ Len(chat) \in Nat /\ q \in CallOfPlugin
      /\ \A m \in DOMAIN chat : chat[m].by \in Speaker /\ chat[m].text \in Seq(Nat)
      /\ q.by \in Speaker /\ q.text \in Seq(Nat)
  BY ChatIsOfMessages DEF ReplyTypes, CallOfPlugin
<1> DEFINE S == [by : Speaker, text : Seq(Nat)]
           new == [by |-> q.by, text |-> q.text]
<1>2. chat \in Seq(S) /\ new \in S
  BY <1>1 DEF ReplyTypes
<1>3. chat' = Said!Posted(q)
  BY DEF Said!TakesEffect
<1>4. CASE q.op = "update"
  <2>1. card \in DOMAIN chat /\ chat' = [chat EXCEPT ![card].text = q.text]
    BY <1>3, <1>4 DEF Said!TakesEffect, Said!Posted
  <2>2. chat[card] \in S
    BY <1>2, <2>1, <1>1, ElementOfSeq
  <2>3. DOMAIN chat' = DOMAIN chat /\ \A m \in DOMAIN chat : m # card => chat'[m] = chat[m]
    BY <2>1
  <2>4. chat'[card] = [chat[card] EXCEPT !.text = q.text]
    BY <2>1
  <2>5. chat'[card].text = q.text /\ chat'[card].by = chat[card].by /\ chat'[card] \in S
    BY <1>1, <2>2, <2>4
  <2>6. chat' \in Seq(S) /\ Len(chat') = Len(chat)
    <3> HIDE DEF S
    <3>1. \A m \in 1 .. Len(chat) : chat'[m] \in S
      BY <1>1, <1>2, <2>3, <2>5, ElementOfSeq
    <3>2. chat' = [m \in 1 .. Len(chat) |-> chat'[m]]
      BY <1>1, <2>1, <2>3
    <3>3. chat' \in [1 .. Len(chat) -> S]
      BY <3>1, <3>2
    <3> QED
      BY <1>1, <3>3
  <2> QED
    BY <1>1, <1>4, <2>1, <2>3, <2>5, <2>6
<1>5. CASE q.op # "update" /\ Said!IsKnown(q)
  <2>1. chat' = chat /\ \E m \in DOMAIN chat : chat[m].by = q.by
    BY <1>3, <1>5 DEF Said!Posted, Said!IsKnown
  <2>2. q.by # "typing"
    BY <1>5 DEF Said!IsKnown, Said!RowName
  <2> QED
    BY <1>1, <1>2, <1>5, <2>1, <2>2
<1>6. CASE q.op # "update" /\ ~Said!IsKnown(q)
  <2>1. chat' = Append(chat, new)
    BY <1>3, <1>6 DEF Said!Posted
  <2>2. /\ chat' \in Seq(S) /\ Len(chat') = Len(chat) + 1
        /\ \A m \in 1 .. Len(chat) : chat'[m] = chat[m]
        /\ chat'[Len(chat) + 1] = new
    BY <1>2, <2>1, AppendProperties
  <2>3. DOMAIN chat' = 1 .. Len(chat) + 1
    BY <2>2, LenProperties
  <2>4. q.by # "typing" => \A o \in DOMAIN chat : chat[o].by # q.by
    BY <1>1, <1>6 DEF Said!IsKnown, Speaker
  <2>5. \A m \in DOMAIN chat : m \in DOMAIN chat' /\ chat'[m] = chat[m]
    BY <1>1, <2>2, <2>3
  <2>6. DOMAIN chat' \ DOMAIN chat = {Len(chat')} /\ Len(chat') > 0 /\ chat'[Len(chat')] = new
    BY <1>1, <2>2, <2>3
  <2>7. new.by = q.by /\ new.text = q.text
    OBVIOUS
  <2> HIDE DEF new
  <2>8. Len(chat) <= Len(chat') /\ chat' \in Seq([by : Speaker, text : Seq(Nat)])
    BY <1>1, <2>2
  <2> QED
    BY <1>6, <2>4, <2>5, <2>6, <2>7, <2>8
<1> QED
  BY <1>4, <1>5, <1>6

LEMMA EffectKeepsReply ==
  ASSUME ReplyInv, NEW q \in requests, Said!TakesEffect(q) PROVE ReplyInv'
<1> DEFINE done == [q EXCEPT !.shows = IF q.op = "update" THEN card ELSE Len(chat')]
<1>1. /\ ReplyTypes /\ RowsAreOfTurn /\ RequestsAreOfRows /\ FirstTryIsHeard
      /\ MessagesAreOfRows /\ PushedIsShown /\ CardIsKnown /\ TextsAreBehind /\ ReplyIsNew
      /\ ReplyIsFirst
  BY DEF ReplyInv
<1>2. /\ q.shows = 0 /\ requests' = (requests \ {q}) \cup {done}
      /\ q.op = "update" => card > 0
      /\ overtaken' = (overtaken \/ (q.op = "update" /\ ~q.heard))
      /\ UNCHANGED <<editable, response, acc, pushed, card, acked, listening, reply, outbox,
                     unanswered>>
  BY DEF Said!TakesEffect, Said!typing
<1>3. /\ DOMAIN chat = 1 .. Len(chat) /\ Len(chat) \in Nat /\ q \in CallOfPlugin
      /\ \A m \in DOMAIN chat : chat[m].by \in Speaker
      /\ card > 0 => card \in DOMAIN chat
      /\ card \in Int /\ q.op \in {"card", "update", "send"}
      /\ q.op = "card" => q.by = "typing"
      /\ q.op = "send" => q.by # "typing"
  <2>1. q.op = "card" => q.by = "typing"
    BY <1>1 DEF RequestsAreOfRows, RowsAreOfTurn, ReplyTypes, CallOfPlugin, Speaker, Said!RowName
  <2> QED
    BY <1>1, <2>1, ChatIsOfMessages DEF ReplyTypes, CallOfPlugin, RequestsAreOfRows
<1>4. /\ chat' \in Seq([by : Speaker, text : Seq(Nat)]) /\ Len(chat) <= Len(chat')
      /\ DOMAIN chat \subseteq DOMAIN chat'
      /\ \A m \in DOMAIN chat :
           /\ chat'[m].by = chat[m].by
           /\ chat'[m].text # chat[m].text =>
                q.op = "update" /\ m = card /\ chat'[m].text = q.text
      /\ q.op = "update" => /\ DOMAIN chat' = DOMAIN chat /\ card \in DOMAIN chat
                            /\ chat'[card].text = q.text
      /\ q.op # "update" =>
           /\ Len(chat') > 0 /\ \E m \in DOMAIN chat' : chat'[m].by = q.by
           /\ \A m \in DOMAIN chat' \ DOMAIN chat :
                /\ m = Len(chat') /\ chat'[m].by = q.by /\ chat'[m].text = q.text
                /\ q.by # "typing" => \A o \in DOMAIN chat : chat[o].by # q.by
      /\ q.op = "card" => /\ Len(chat') \in DOMAIN chat' \ DOMAIN chat
                          /\ chat'[Len(chat')].by = "typing"
  BY <1>1, <1>3, EffectIsOne
<1>5. DOMAIN chat' = 1 .. Len(chat') /\ Len(chat') \in Nat
  BY <1>4, LenProperties
<1>6. /\ done.by = q.by /\ done.op = q.op /\ done.text = q.text /\ done.n = q.n
      /\ done.heard = q.heard /\ done.shows > 0 /\ done.shows <= Len(chat')
      /\ done.shows = IF q.op = "update" THEN card ELSE Len(chat')
      /\ done \in CallOfPlugin
  <2>1. (IF q.op = "update" THEN card ELSE Len(chat')) \in 1 .. Len(chat')
    <3>1. CASE q.op = "update"
      BY <1>3, <1>4, <1>5, <3>1
    <3>2. CASE q.op # "update"
      BY <1>4, <1>5, <3>2
    <3> QED
      BY <3>1, <3>2
  <2> QED
    BY <1>3, <2>1, SMTT(60) DEF CallOfPlugin
<1> HIDE DEF done
<1>7. ReplyTypes'
  <2>1. requests' \subseteq CallOfPlugin /\ \A o \in requests' : o.shows <= Len(chat')
    <3>1. requests' \subseteq CallOfPlugin
      BY <1>1, <1>2, <1>6 DEF ReplyTypes
    <3>2. ASSUME NEW o \in requests PROVE o.shows <= Len(chat')
      <4>1. o.shows <= Len(chat) /\ o.shows \in Nat
        BY <1>1 DEF ReplyTypes, CallOfPlugin
      <4>2. Len(chat) <= Len(chat')
        BY <1>4
      <4> QED
        BY <1>3, <1>5, <4>1, <4>2
    <3> QED
      BY <1>2, <1>6, <3>1, <3>2
  <2>2. card \in -1 .. Len(chat')
    <3>1. card \in -1 .. Len(chat) /\ Len(chat) <= Len(chat')
      BY <1>1, <1>4 DEF ReplyTypes
    <3> QED
      BY <1>3, <1>5, <3>1
  <2> QED
    BY <1>1, <1>2, <1>4, <2>1, <2>2 DEF ReplyTypes
<1>8. RowsAreOfTurn' /\ FirstTryIsHeard'
  BY <1>1, <1>2, <1>6 DEF RowsAreOfTurn, FirstTryIsHeard, Streams, Said!NoRow
<1>9. RequestsAreOfRows'
  BY <1>1, <1>2, <1>6 DEF RequestsAreOfRows, Streams, Said!NoRow
<1>10. MessagesAreOfRows'
  <2>1. ASSUME NEW m \in DOMAIN chat'
        PROVE  /\ chat'[m].by # "typing" =>
                    /\ outbox[chat'[m].by] # Said!NoRow
                    /\ \A o \in DOMAIN chat' : chat'[o].by = chat'[m].by => o = m
               /\ chat'[m].by = "reply" => outbox["reply"].kind = "send" /\ chat'[m].text = reply
               /\ chat'[m].by = "replacement" => chat'[m].text = reply
               /\ chat'[m].by = "file" => chat'[m].text = <<>>
    <3>1. CASE m \in DOMAIN chat
      <4>1. chat'[m].by # "typing" => chat'[m].text = chat[m].text
        BY <1>1, <1>2, <1>4, <3>1 DEF MessagesAreOfRows
      <4>2. chat'[m].by = chat[m].by
        BY <1>4, <3>1
      <4>3. ASSUME chat[m].by # "typing", NEW o \in DOMAIN chat', chat'[o].by = chat[m].by
            PROVE  o = m
        <5>1. o \in DOMAIN chat
          BY <1>4, <3>1, <4>3
        <5>2. chat[o].by = chat[m].by
          BY <1>4, <4>3, <5>1
        <5> QED
          BY <1>1, <3>1, <4>3, <5>1, <5>2 DEF MessagesAreOfRows
      <4> QED
        BY <1>1, <3>1, <4>1, <4>2, <4>3 DEF MessagesAreOfRows
    <3>2. CASE m \notin DOMAIN chat
      <4>1. q.op # "update" /\ chat'[m].by = q.by /\ chat'[m].text = q.text /\ m = Len(chat')
        BY <1>4, <2>1, <3>2
      <4>2. q.by # "typing" => \A o \in DOMAIN chat' : chat'[o].by = q.by => o = m
        BY <1>4, <2>1, <3>2, <4>1
      <4> QED
        BY <1>1, <1>3, <4>1, <4>2 DEF RequestsAreOfRows
    <3> QED
      BY <3>1, <3>2
  <2>2. card > 0 => chat'[card].by = "typing"
    BY <1>1, <1>3, <1>4 DEF MessagesAreOfRows
  <2>3. ASSUME NEW o \in requests', o.shows > 0
        PROVE  /\ o.op = "send" => \E m \in DOMAIN chat' : chat'[m].by = o.by
               /\ o.op = "card" => chat'[o.shows].by = "typing"
               /\ o.op = "update" => o.shows = card
    <3>1. CASE o = done
      BY <1>4, <1>6, <3>1
    <3>2. CASE o \in requests
      <4>1. o.shows \in DOMAIN chat
        BY <1>1, <1>3, <2>3, <3>2 DEF ReplyTypes, CallOfPlugin
      <4>2. chat'[o.shows].by = chat[o.shows].by
        BY <1>4, <4>1
      <4>3. o.op = "send" => \E m \in DOMAIN chat' : chat'[m].by = o.by
        <5>1. o.op = "send" => \E m \in DOMAIN chat : chat[m].by = o.by
          BY <1>1, <2>3, <3>2 DEF MessagesAreOfRows
        <5>2. \A m \in DOMAIN chat : m \in DOMAIN chat' /\ chat'[m].by = chat[m].by
          BY <1>4
        <5> QED
          BY <5>1, <5>2
      <4> QED
        BY <1>1, <2>3, <3>2, <4>2, <4>3 DEF MessagesAreOfRows
    <3> QED
      BY <1>2, <2>3, <3>1, <3>2
  <2>4. \A r \in {"reply", "replacement"} :
          outbox[r].kind = "send" /\ outbox[r].status = "delivered" =>
            \E m \in DOMAIN chat' : chat'[m].by = r
    <3>1. \A m \in DOMAIN chat : m \in DOMAIN chat' /\ chat'[m].by = chat[m].by
      BY <1>4
    <3> QED
      BY <1>1, <3>1 DEF MessagesAreOfRows
  <2> QED
    BY <1>2, <2>1, <2>2, <2>3, <2>4 DEF MessagesAreOfRows
<1>11. PushedIsShown'
  <2>1. q.op = "update" => overtaken' \/ (q.heard /\ q.by \in {"typing", "reply"})
    BY <1>1, <1>2, <1>3 DEF RequestsAreOfRows, CallOfPlugin, Speaker, Said!RowName
  <2>2. CASE overtaken'
    BY <2>2 DEF PushedIsShown
  <2>3. CASE ~overtaken' /\ q.op = "update" /\ q.by = "typing"
    <3>1. listening = "pushing" /\ q.heard /\ ~overtaken /\ Streams
      BY <1>1, <2>1, <2>3, <1>2 DEF RequestsAreOfRows, Streams
    <3>2. \A o \in requests : o.by = "typing" /\ o.heard => o = q
      BY <1>1, <3>1, <2>3 DEF RequestsAreOfRows
    <3>3. \A r \in Said!RowName : outbox[r].kind = "none"
      BY <1>1, <3>1 DEF RowsAreOfTurn, Said!NoRow
    <3>4. \A o \in requests' : o.by # "reply"
      BY <1>1, <1>2, <1>6, <2>3, <3>1 DEF RequestsAreOfRows
    <3>5. \A o \in requests' : o.by = "typing" /\ o.heard => chat'[o.shows].text = o.text
      BY <1>2, <1>4, <1>6, <2>3, <3>2
    <3> QED
      BY <1>2, <3>1, <3>3, <3>4, <3>5 DEF PushedIsShown, Streams, Said!RowName
  <2>4. CASE ~overtaken' /\ q.op = "update" /\ q.by = "reply"
    <3>1. /\ q.text = reply /\ outbox["reply"].kind = "update" /\ ~Streams
          /\ chat'[card].text = reply /\ card > 0
      BY <1>1, <1>2, <1>4, <2>4 DEF RequestsAreOfRows
    <3>2. \A o \in requests' : o.heard => o.by # "typing"
      BY <1>1, <1>2, <1>6, <2>4, <3>1 DEF RequestsAreOfRows, Streams
    <3> QED
      BY <1>2, <3>1, <3>2 DEF PushedIsShown, Streams, CardShows
  <2>5. CASE ~overtaken' /\ q.op # "update"
    <3>1. /\ ~overtaken
          /\ \A m \in DOMAIN chat : m \in DOMAIN chat' /\ chat'[m].text = chat[m].text
      BY <1>2, <1>4, <2>5
    <3>2. \A t : Said!Shows(t) # {} => Said!Shows(t)' # {}
      BY <3>1 DEF Said!Shows
    <3>3. \A t : CardShows(t) => CardShows(t)'
      BY <1>2, <1>3, <3>1 DEF CardShows
    <3>4. ASSUME NEW o \in requests', o.by = "typing", o.heard, o.shows > 0
          PROVE  chat'[o.shows].text = o.text
      <4>1. CASE o = done
        <5>1. q.op = "card"
          BY <1>3, <1>6, <2>5, <3>4, <4>1
        <5>2. Len(chat') \in DOMAIN chat' \ DOMAIN chat
          BY <1>4, <5>1
        <5> QED
          BY <1>4, <1>6, <2>5, <4>1, <5>2
      <4>2. CASE o \in requests
        <5>1. o.shows \in DOMAIN chat
          BY <1>1, <1>3, <3>4, <4>2 DEF ReplyTypes, CallOfPlugin
        <5> QED
          BY <1>1, <3>1, <3>4, <4>2, <5>1 DEF PushedIsShown
      <4> QED
        BY <1>2, <3>4, <4>1, <4>2
    <3>5. \A o \in requests' : o.by = "reply" /\ o.op = "update" => o \in requests
      BY <1>2, <1>6, <2>5
    <3> QED
      BY <1>1, <1>2, <3>1, <3>2, <3>3, <3>4, <3>5 DEF PushedIsShown, Streams
  <2> QED
    BY <2>1, <2>2, <2>3, <2>4, <2>5
<1>12. CardIsKnown'
  <2> SUFFICES ASSUME ~unanswered, NEW m \in DOMAIN chat', chat'[m].by = "typing"
               PROVE  \/ m = card
                      \/ \E o \in requests' : o.by = "typing" /\ o.op = "card" /\ o.shows = m
    BY <1>2 DEF CardIsKnown
  <2>1. CASE m \in DOMAIN chat
    <3>1. m = card \/ \E o \in requests : o.by = "typing" /\ o.op = "card" /\ o.shows = m
      <4>1. chat[m].by = "typing"
        BY <1>4, <2>1
      <4> QED
        BY <1>1, <2>1, <4>1 DEF CardIsKnown
    <3>2. m # 0
      BY <1>3, <2>1
    <3> QED
      BY <1>2, <3>1, <3>2
  <2>2. CASE m \notin DOMAIN chat
    <3>1. q.op # "update" /\ m = Len(chat') /\ q.by = "typing"
      BY <1>4, <2>2
    <3> QED
      BY <1>2, <1>3, <1>6, <3>1
  <2> QED
    BY <2>1, <2>2
<1>13. TextsAreBehind'
  <2> SUFFICES ASSUME Streams PROVE /\ \A m \in DOMAIN chat' : Behind(chat'[m].text)
                                    /\ \A o \in requests' : Behind(o.text)
    BY <1>1, <1>2 DEF TextsAreBehind, Behind, Streams
  <2>1. Behind(q.text)
    BY <1>1 DEF TextsAreBehind
  <2> QED
    BY <1>1, <1>2, <1>4, <1>6, <2>1 DEF TextsAreBehind
<1>14. ReplyIsNew'
  <2>1. CASE outbox["reply"].kind # "update"
    BY <1>1, <1>2, <2>1 DEF ReplyIsNew, Streams
  <2>2. CASE outbox["reply"].kind = "update"
    <3>1. \A o \in requests' : o.by = "typing" => o.text # reply
      BY <1>1, <1>2, <1>6, <2>2 DEF ReplyIsNew
    <3>2. CASE q.by = "reply"
      BY <1>1, <1>2, <1>6, <3>1, <3>2 DEF ReplyIsNew, Streams
    <3>3. CASE q.by # "reply"
      <4>1. q.op = "update" => q.by = "typing"
        BY <1>1, <1>3, <3>3 DEF RequestsAreOfRows, CallOfPlugin, Speaker, Said!RowName
      <4>2. CardShows(reply)' => CardShows(reply)
        <5>1. card > 0 /\ chat'[card].text = reply => chat[card].text = reply
          BY <1>1, <1>3, <1>4, <2>2, <4>1 DEF ReplyIsNew
        <5> QED
          BY <1>2, <5>1 DEF CardShows
      <4>3. \A o \in requests : o.by = "reply" => o \in requests'
        BY <1>2, <3>3
      <4> QED
        BY <1>1, <1>2, <2>2, <3>1, <4>2, <4>3 DEF ReplyIsNew, Streams
    <3> QED
      BY <3>2, <3>3
  <2> QED
    BY <2>1, <2>2
<1>15. ReplyIsFirst'
  <2> SUFFICES ASSUME outbox["reply"].status = "delivered", outbox["reply"].tries = 0
               PROVE  chat' # <<>> /\ chat'[1].by # "file"
    BY <1>2 DEF ReplyIsFirst
  <2>1. chat # <<>> /\ chat[1].by # "file"
    BY <1>1 DEF ReplyIsFirst
  <2>2. 1 \in DOMAIN chat
    BY <1>1, <1>3, <2>1, EmptySeq DEF ReplyTypes
  <2> QED
    BY <1>4, <2>1, <2>2
<1> QED
  BY <1>7, <1>8, <1>9, <1>10, <1>11, <1>12, <1>13, <1>14, <1>15 DEF ReplyInv

(* A request ends, or its caller gives up and it goes on.                  *)
Leaves(q) ==
  /\ \A o \in requests' : \/ o \in requests /\ o # q
                          \/ /\ ~o.heard /\ o.by = q.by /\ o.op = q.op /\ o.text = q.text
                             /\ o.shows = q.shows
  /\ requests' \subseteq CallOfPlugin /\ requests \ {q} \subseteq requests'

(* Its effect is not forgotten.                                            *)
Remembers(q) ==
  \/ unanswered' \/ ~Said!Hidden(q)
  \/ \E o \in requests' : o.by = q.by /\ o.op = q.op /\ o.shows = q.shows

LEMMA LeavesBothWays ==
  ASSUME ReplyInv, NEW q \in requests,
         Said!Accepts(q) \/ Said!Refuses(q) \/ Said!TimesOut(q) \/ Said!Ends(q)
  PROVE  /\ Leaves(q) /\ (Remembers(q) \/ Said!Accepts(q))
         /\ UNCHANGED <<editable, response, acc, pushed, reply, chat, overtaken>>
         /\ unanswered => unanswered'
<1>1. requests \subseteq CallOfPlugin /\ q \in CallOfPlugin
  BY DEF ReplyInv, ReplyTypes
<1>2. CASE Said!TimesOut(q)
  <2> DEFINE o == [q EXCEPT !.heard = FALSE]
  <2>1. requests' = (requests \ {q}) \cup {o}
    BY <1>2 DEF Said!TimesOut
  <2>2. /\ o \in CallOfPlugin /\ ~o.heard /\ o.by = q.by /\ o.op = q.op /\ o.text = q.text
        /\ o.shows = q.shows
    BY <1>1 DEF CallOfPlugin
  <2> HIDE DEF o
  <2>3. Leaves(q) /\ Remembers(q)
    BY <1>1, <2>1, <2>2 DEF Leaves, Remembers
  <2> QED
    BY <1>2, <2>3 DEF Said!TimesOut
<1>3. CASE Said!Accepts(q) \/ Said!Refuses(q) \/ Said!Ends(q)
  <2>1. requests' = requests \ {q}
    BY <1>3 DEF Said!Accepts, Said!Refuses, Said!Ends
  <2>2. Leaves(q)
    BY <1>1, <2>1 DEF Leaves
  <2>3. Remembers(q) \/ Said!Accepts(q)
    <3>1. CASE Said!Refuses(q)
      BY <3>1 DEF Said!Refuses, Remembers
    <3>2. CASE Said!Ends(q)
      BY <3>2 DEF Said!Ends, Remembers
    <3> QED
      BY <1>3, <3>1, <3>2
  <2>4. /\ UNCHANGED <<editable, response, acc, pushed, reply, chat, overtaken>>
        /\ unanswered => unanswered'
    <3>1. CASE Said!Accepts(q)
      BY <3>1 DEF Said!Accepts
    <3>2. CASE Said!Refuses(q)
      BY <3>2 DEF Said!Refuses
    <3>3. CASE Said!Ends(q)
      BY <3>3 DEF Said!Ends, Said!typing
    <3> QED
      BY <1>3, <3>1, <3>2, <3>3
  <2> QED
    BY <2>2, <2>3, <2>4
<1> QED
  BY <1>2, <1>3

(* A request nobody waits for ends.                                        *)
LEMMA EndingKeepsReply ==
  ASSUME ReplyInv, NEW q \in requests, Said!Ends(q) PROVE ReplyInv'
<1>1. /\ Leaves(q) /\ Remembers(q) /\ ~q.heard
      /\ UNCHANGED <<editable, response, acc, pushed, reply, chat, overtaken>>
      /\ UNCHANGED <<card, acked, listening, outbox>> /\ requests' = requests \ {q}
      /\ unanswered => unanswered'
  BY LeavesBothWays DEF Said!Ends, Said!typing, Said!Accepts
<1>2. ReplyTypes' /\ RowsAreOfTurn' /\ ReplyIsFirst'
  BY <1>1 DEF ReplyInv, ReplyTypes, RowsAreOfTurn, ReplyIsFirst, Streams, Said!NoRow
<1>3. RequestsAreOfRows'
  BY <1>1 DEF ReplyInv, RequestsAreOfRows, Streams, Said!NoRow
<1>4. FirstTryIsHeard' /\ MessagesAreOfRows'
  BY <1>1 DEF ReplyInv, FirstTryIsHeard, MessagesAreOfRows, Said!NoRow
<1>5. PushedIsShown' /\ TextsAreBehind'
  BY <1>1 DEF ReplyInv, PushedIsShown, TextsAreBehind, Behind, Streams, Said!Shows, CardShows
<1>6. CardIsKnown'
  <2>1. q.by = "typing" /\ q.op = "card" /\ q.shows > 0 => unanswered'
    BY <1>1 DEF Remembers, Said!Ends, Said!Hidden
  <2>2. \A m \in DOMAIN chat : m > 0
    BY ChatIsOfMessages DEF ReplyInv
  <2> QED
    BY <1>1, <2>1, <2>2 DEF ReplyInv, CardIsKnown
<1>7. ReplyIsNew'
  <2>1. q.by = "reply" /\ q.op = "update" /\ q.shows > 0 => unanswered'
    BY <1>1 DEF Said!Ends, Said!Hidden
  <2>2. outbox["reply"].kind = "update" /\ q.by = "reply" => q.op = "update"
    BY DEF ReplyInv, RequestsAreOfRows
  <2> QED
    BY <1>1, <2>1, <2>2 DEF ReplyInv, ReplyIsNew, Streams, CardShows
<1> QED
  BY <1>2, <1>3, <1>4, <1>5, <1>6, <1>7 DEF ReplyInv

(* The listener hears of its push.                                         *)
LEMMA ListenerHears ==
  ASSUME ReplyInv, NEW q \in requests, q.by = "typing", q.heard,
         Said!Accepts(q) \/ Said!Refuses(q) \/ Said!TimesOut(q)
  PROVE  ReplyInv'
<1>1. /\ Leaves(q) /\ (Remembers(q) \/ Said!Accepts(q)) /\ (unanswered => unanswered')
      /\ UNCHANGED <<editable, response, acc, pushed, reply, chat, overtaken, outbox>>
      /\ listening' = "streaming" /\ listening = "pushing" /\ q.text = pushed
      /\ (q.op = "card" <=> card = 0) /\ q.op \in {"card", "update"} /\ editable
  <2>1. outbox' = outbox /\ listening' = "streaming"
    BY DEF Said!Accepts, Said!Refuses, Said!TimesOut, Said!Hear
  <2>2. /\ listening = "pushing" /\ q.text = pushed /\ q.op \in {"card", "update"} /\ editable
        /\ q.op = "card" => card = 0
        /\ q.op = "update" => card # 0
    BY DEF ReplyInv, RequestsAreOfRows
  <2> QED
    BY <2>1, <2>2, LeavesBothWays
<1>2. /\ acked' => Said!Accepts(q) /\ q.shows > 0
      /\ card' = card \/ (/\ card = 0 /\ q.shows > 0 /\ Said!Accepts(q)
                          /\ card' = q.shows \/ (card' = -1 /\ unanswered'))
      /\ Said!Accepts(q) /\ card = 0 => card' # 0
  <2>0. q.shows \in Nat
    BY DEF ReplyInv, ReplyTypes, CallOfPlugin
  <2>1. CASE Said!Accepts(q) /\ Said!Hear(q, "ok", q.shows) /\ q.shows > 0
    BY <2>0, <2>1 DEF Said!Hear
  <2>2. CASE Said!Accepts(q) /\ Said!Hear(q, "ok", -1) /\ unanswered' /\ q.shows > 0
    BY <2>0, <2>2 DEF Said!Hear
  <2>3. CASE ~Said!Accepts(q) /\ (Said!Hear(q, "refused", 0) \/ Said!Hear(q, "transport", 0))
    BY <2>3 DEF Said!Hear
  <2> QED
    BY <2>1, <2>2, <2>3 DEF Said!Accepts, Said!Refuses, Said!TimesOut
<1>3. /\ \A o \in requests' : o.by = "typing" /\ ~o.heard
      /\ \A o \in requests' : \/ o \in requests
                              \/ o.op = q.op /\ o.text = q.text /\ o.shows = q.shows
      /\ \A r \in Said!RowName : outbox[r] = Said!NoRow
      /\ {"reply", "replacement", "file"} \subseteq Said!RowName
      /\ Said!NoRow.kind = "none" /\ Said!NoRow.status = "none" /\ Streams
  <2>1. Streams /\ \A r \in Said!RowName : outbox[r] = Said!NoRow
    BY <1>1 DEF ReplyInv, RowsAreOfTurn, Streams
  <2>2. \A o \in requests : o.by = "typing" /\ (o.heard => o = q)
    BY <2>1 DEF ReplyInv, RequestsAreOfRows
  <2> QED
    BY <1>1, <2>1, <2>2 DEF Leaves, Said!RowName, Said!NoRow
<1>4. /\ q.shows \in Nat /\ q.shows <= Len(chat) /\ DOMAIN chat = 1 .. Len(chat)
      /\ Len(chat) \in Nat /\ card \in -1 .. Len(chat)
  BY ChatIsOfMessages DEF ReplyInv, ReplyTypes, CallOfPlugin
<1>5. ReplyTypes'
  <2>1. card' \in -1 .. Len(chat)
    BY <1>2, <1>4
  <2>2. requests' \subseteq CallOfPlugin /\ \A o \in requests' : o.shows <= Len(chat)
    BY <1>1, <1>3, <1>4 DEF ReplyInv, ReplyTypes, Leaves
  <2> QED
    BY <1>1, <2>1, <2>2 DEF ReplyInv, ReplyTypes
<1>6. RowsAreOfTurn' /\ FirstTryIsHeard' /\ ReplyIsFirst'
  <2>1. outbox["reply"] = Said!NoRow /\ outbox["replacement"] = Said!NoRow
        /\ outbox["file"] = Said!NoRow
    BY <1>3 DEF Said!RowName
  <2>2. RowsAreOfTurn'
    BY <1>1, <1>3, <2>1 DEF RowsAreOfTurn
  <2> QED
    BY <1>1, <1>3, <2>1, <2>2 DEF FirstTryIsHeard, ReplyIsFirst
<1>7. RequestsAreOfRows'
  <2>1. \A o \in requests' : /\ o.op \in {"card", "update"}
                             /\ o.op = "update" => card' # 0
    BY <1>1, <1>2, <1>3, <1>4 DEF ReplyInv, RequestsAreOfRows
  <2>2. \A o \in requests' : o.by = "typing" /\ ~o.heard
    BY <1>3
  <2>3. editable'
    BY <1>1
  <2> QED
    BY <2>1, <2>2, <2>3 DEF RequestsAreOfRows
<1>8. MessagesAreOfRows'
  <2>1. card' > 0 => chat[card'].by = "typing"
    <3>1. CASE card' = card
      BY <3>1 DEF ReplyInv, MessagesAreOfRows
    <3>2. CASE card = 0 /\ q.shows > 0 /\ card' \in {q.shows, -1}
      BY <1>1, <3>2 DEF ReplyInv, MessagesAreOfRows
    <3> QED
      BY <1>2, <3>1, <3>2
  <2>2. \A o \in requests' : o.shows > 0 =>
          /\ o.op # "send"
          /\ o.op = "card" => chat[o.shows].by = "typing"
          /\ o.op = "update" => o.shows = card'
    <3> SUFFICES ASSUME NEW o \in requests, o.shows > 0
                 PROVE  /\ o.op # "send"
                        /\ o.op = "card" => chat[o.shows].by = "typing"
                        /\ o.op = "update" => o.shows = card'
      BY <1>1, <1>3
    <3>1. o.by = "typing"
      BY <1>3 DEF ReplyInv, RequestsAreOfRows
    <3> QED
      BY <1>2, <3>1 DEF ReplyInv, MessagesAreOfRows, RequestsAreOfRows
  <2>3. \A m \in DOMAIN chat : chat[m].by = "typing"
    <3>1. \A m \in DOMAIN chat : chat[m].by \in {"typing"} \cup Said!RowName
      BY ChatIsOfMessages DEF ReplyInv, Speaker
    <3> QED
      BY <1>3, <3>1 DEF ReplyInv, MessagesAreOfRows
  <2> QED
    BY <1>1, <1>3, <2>1, <2>2, <2>3 DEF MessagesAreOfRows
<1>9. PushedIsShown'
  <2>1. acked' /\ ~overtaken => Said!Shows(pushed) # {}
    <3>1. acked' /\ ~overtaken => q.shows \in DOMAIN chat /\ chat[q.shows].text = pushed
      BY <1>1, <1>2, <1>4 DEF ReplyInv, PushedIsShown
    <3> QED
      BY <3>1 DEF Said!Shows
  <2> QED
    BY <1>1, <1>3, <2>1 DEF PushedIsShown, Streams, Said!Shows
<1>10. CardIsKnown'
  <2> SUFFICES ASSUME ~unanswered', NEW m \in DOMAIN chat, chat[m].by = "typing"
               PROVE  \/ m = card'
                      \/ \E o \in requests' : o.by = "typing" /\ o.op = "card" /\ o.shows = m
    BY <1>1 DEF CardIsKnown
  <2>1. m > 0 /\ (m = card \/ \E o \in requests : o.by = "typing" /\ o.op = "card" /\ o.shows = m)
    BY <1>1, <1>4 DEF ReplyInv, CardIsKnown
  <2>2. CASE m = card
    BY <1>2, <2>1, <2>2
  <2>3. CASE \E o \in requests \ {q} : o.by = "typing" /\ o.op = "card" /\ o.shows = m
    BY <1>1, <2>3 DEF Leaves
  <2>4. CASE q.op = "card" /\ q.shows = m
    <3>1. CASE Said!Accepts(q)
      BY <1>1, <1>2, <2>4, <3>1
    <3>2. CASE Remembers(q)
      BY <2>1, <2>4, <3>2 DEF Remembers, Said!Hidden
    <3> QED
      BY <1>1, <3>1, <3>2
  <2> QED
    BY <2>1, <2>2, <2>3, <2>4
<1>11. TextsAreBehind' /\ ReplyIsNew'
  BY <1>1, <1>3 DEF ReplyInv, TextsAreBehind, ReplyIsNew, Behind, Streams
<1> QED
  BY <1>5, <1>6, <1>7, <1>8, <1>9, <1>10, <1>11 DEF ReplyInv

(* What the caller of a row's request makes of its row.                    *)
RowMoves(q) ==
  /\ outbox' \in [Said!RowName -> OutboxRow]
  /\ outbox'[q.by].kind = outbox[q.by].kind /\ outbox'[q.by].status # "none"
  /\ outbox'[q.by].status = "delivered" => /\ q.shows > 0
                                           /\ outbox'[q.by].tries = outbox[q.by].tries
  /\ outbox'[q.by].status = "pending" => outbox'[q.by].tries # 0
  /\ \A r \in Said!RowName \ {q.by} :
       \/ outbox'[r] = outbox[r]
       \/ /\ r = "replacement" /\ outbox[q.by].kind = "update"
          /\ outbox'[q.by].status = "failed" /\ outbox'[r] = Said!Pending("send")
  /\ outbox'[q.by].status = "failed" /\ outbox[q.by].kind = "update" =>
       outbox'["replacement"] = Said!Pending("send")

LEMMA RowsMove ==
  ASSUME ReplyInv, NEW q \in requests, q.by # "typing", q.heard,
         Said!Accepts(q) \/ Said!Refuses(q) \/ Said!TimesOut(q)
  PROVE  /\ RowMoves(q) /\ UNCHANGED <<card, acked>>
         /\ Said!Accepts(q) => outbox'[q.by].status = "delivered"
         /\ \/ listening' = listening
            \/ /\ q.by # "replacement" /\ q.n = 0
               /\ \/ listening = "replying" /\ listening' = "replied"
                  \/ listening = "filing" /\ listening' = "over"
<1> DEFINE own == q.by
<1>1. /\ q \in CallOfPlugin /\ own \in Said!RowName /\ outbox \in [Said!RowName -> OutboxRow]
      /\ outbox[own] # Said!NoRow /\ outbox[own].status = "pending" /\ q.n \in Nat
  BY DEF ReplyInv, ReplyTypes, RequestsAreOfRows, CallOfPlugin, Speaker
<1>2. outbox[own] \in OutboxRow /\ outbox[own].kind # "none"
  BY <1>1 DEF ReplyInv, RowsAreOfTurn
<1>3. outbox[own].kind = "update" => own = "reply"
  BY <1>1 DEF ReplyInv, RowsAreOfTurn, Said!RowName
<1>4. PICK outcome \in {"ok", "refused", "transport"} :
        /\ outcome = "ok" => q.shows > 0
        /\ Said!Accepts(q) => outcome = "ok"
        /\ outbox' = Said!Recorded(q, outcome) /\ UNCHANGED <<card, acked>>
        /\ listening' = IF Said!ByActor(q) THEN listening ELSE Said!AfterFirstTry
  <2>1. CASE Said!Accepts(q)
    BY <2>1 DEF Said!Accepts, Said!Hear
  <2>2. CASE Said!Refuses(q) /\ ~Said!Accepts(q)
    BY <2>2 DEF Said!Refuses, Said!Hear
  <2>3. CASE Said!TimesOut(q) /\ ~Said!Accepts(q)
    BY <2>3 DEF Said!TimesOut, Said!Hear
  <2> QED
    BY <2>1, <2>2, <2>3
<1>5. Said!Pending("send") \in OutboxRow
  BY DEF Said!Pending, OutboxRow
<1> DEFINE Delivered == [outbox EXCEPT ![own].status = "delivered"]
           Tried     == [outbox EXCEPT ![own].tries = @ + 1]
<1>6. \/ outbox' = Delivered /\ outcome = "ok"
      \/ outbox' \in {Tried, Said!Failed(own)} /\ outcome # "ok"
  BY <1>4 DEF Said!Recorded
<1>7. RowMoves(q)
  <2>1. CASE outbox' = Delivered /\ outcome = "ok"
    <3>1. /\ Delivered \in [Said!RowName -> OutboxRow]
          /\ Delivered[own].kind = outbox[own].kind /\ Delivered[own].status = "delivered"
          /\ Delivered[own].tries = outbox[own].tries
          /\ \A r \in Said!RowName \ {own} : Delivered[r] = outbox[r]
      BY <1>1, <1>2 DEF OutboxRow
    <3> HIDE DEF Delivered
    <3> QED
      BY <1>4, <2>1, <3>1 DEF RowMoves
  <2>2. CASE outbox' = Tried
    <3>1. /\ Tried \in [Said!RowName -> OutboxRow]
          /\ Tried[own].kind = outbox[own].kind /\ Tried[own].status = "pending"
          /\ Tried[own].tries # 0
          /\ \A r \in Said!RowName \ {own} : Tried[r] = outbox[r]
      BY <1>1, <1>2 DEF OutboxRow
    <3> HIDE DEF Tried
    <3> QED
      BY <1>1, <2>2, <3>1 DEF RowMoves
  <2>3. CASE outbox' = Said!Failed(own)
    <3>1. \A r \in Said!RowName : Said!Failed(own)[r] \in OutboxRow
      BY <1>1, <1>2, <1>5 DEF Said!Failed, OutboxRow
    <3>2. Said!Failed(own)[own].kind = outbox[own].kind /\ Said!Failed(own)[own].status = "failed"
      BY <1>1, <1>2 DEF Said!Failed, OutboxRow
    <3>3. \A r \in Said!RowName \ {own} :
            Said!Failed(own)[r] = IF r = "replacement" /\ outbox[own].kind = "update"
                                THEN Said!Pending("send") ELSE outbox[r]
      BY <1>1 DEF Said!Failed
    <3>4. Said!Failed(own) \in [Said!RowName -> OutboxRow]
      BY <3>1 DEF Said!Failed
    <3>5. "replacement" \in Said!RowName
      BY DEF Said!RowName
    <3> QED
      BY <1>3, <2>3, <3>2, <3>3, <3>4, <3>5 DEF RowMoves
  <2> QED
    BY <1>6, <2>1, <2>2, <2>3
<1>8. ~Said!ByActor(q) => q.by # "replacement" /\ q.n = 0
  BY <1>1 DEF Said!ByActor
<1>9. Said!Accepts(q) => outbox'[own].status = "delivered"
  BY <1>1, <1>2, <1>4, <1>6 DEF OutboxRow
<1> QED
  BY <1>4, <1>7, <1>8, <1>9 DEF Said!AfterFirstTry

(* The first try of a row, or the worker, hears of its request.            *)
LEMMA RowHears ==
  ASSUME ReplyInv, NEW q \in requests, q.by # "typing", q.heard,
         Said!Accepts(q) \/ Said!Refuses(q) \/ Said!TimesOut(q)
  PROVE  ReplyInv'
<1> DEFINE own == q.by
<1>1. /\ Leaves(q) /\ (Remembers(q) \/ Said!Accepts(q)) /\ (unanswered => unanswered')
      /\ UNCHANGED <<editable, response, acc, pushed, reply, chat, overtaken>>
  BY LeavesBothWays
<1>2. /\ RowMoves(q) /\ UNCHANGED <<card, acked>>
      /\ Said!Accepts(q) => outbox'[own].status = "delivered"
      /\ \/ listening' = listening
         \/ /\ own # "replacement" /\ q.n = 0
            /\ \/ listening = "replying" /\ listening' = "replied"
               \/ listening = "filing" /\ listening' = "over"
  BY RowsMove
<1>3. /\ own \in Said!RowName /\ outbox[own] # Said!NoRow /\ outbox[own].kind # "none" /\ ~Streams
      /\ outbox[own].status = "pending" /\ q.n = outbox[own].tries /\ q.shows \in Nat
  <2>1. q \in CallOfPlugin /\ outbox[own] # Said!NoRow /\ ~Streams
        /\ outbox[own].status = "pending" /\ q.n = outbox[own].tries
    BY DEF ReplyInv, ReplyTypes, RequestsAreOfRows
  <2>2. own \in Said!RowName /\ q.shows \in Nat
    BY <2>1 DEF CallOfPlugin, Speaker
  <2> QED
    BY <2>1, <2>2 DEF ReplyInv, RowsAreOfTurn
<1>4. ~Streams' /\ (listening' = "replying" => listening = "replying")
      /\ (listening \in {"filing", "over"} => listening' \in {"filing", "over"})
  BY <1>2, <1>3 DEF Streams
<1>5. /\ "reply" \in Said!RowName /\ "replacement" \in Said!RowName /\ "file" \in Said!RowName
      /\ \A r \in Said!RowName : r \in {"reply", "replacement", "file"}
      /\ Said!NoRow.kind = "none" /\ Said!NoRow.status = "none"
      /\ Said!Pending("send").kind = "send" /\ Said!Pending("send").status = "pending"
  BY DEF Said!RowName, Said!NoRow, Said!Pending
<1>6. /\ outbox[own].kind = "update" => own = "reply" /\ outbox["replacement"] = Said!NoRow
      /\ own = "replacement" => outbox["reply"].status = "failed"
  BY <1>3, <1>5 DEF ReplyInv, RowsAreOfTurn
<1>7. /\ \A r \in Said!RowName : outbox[r] # Said!NoRow => outbox'[r] # Said!NoRow
      /\ outbox'["reply"].kind = outbox["reply"].kind
      /\ own # "reply" => outbox'["reply"] = outbox["reply"]
      /\ own # "file" => outbox'["file"] = outbox["file"]
      /\ own # "reply" /\ own # "replacement" => outbox'["replacement"] = outbox["replacement"]
      /\ outbox'["file"].kind = outbox["file"].kind
  BY <1>2, <1>3, <1>5, <1>6 DEF RowMoves
<1>8. \A o \in requests' : \/ o \in requests /\ o # q
                           \/ /\ ~o.heard /\ o.by = q.by /\ o.op = q.op /\ o.text = q.text
                              /\ o.shows = q.shows
  BY <1>1 DEF Leaves
<1>9. ReplyTypes'
  <2>1. \A o \in requests' : o.shows <= Len(chat)
    BY <1>8 DEF ReplyInv, ReplyTypes
  <2>2. listening' \in {"streaming", "pushing", "replying", "replied", "filing", "over"}
    BY <1>2 DEF ReplyInv, ReplyTypes
  <2> QED
    BY <1>1, <1>2, <2>1, <2>2 DEF ReplyInv, ReplyTypes, Leaves, RowMoves
<1>10. RowsAreOfTurn'
  <2>1. \A r \in Said!RowName :
          /\ outbox'[r].kind = "none" => outbox'[r] = Said!NoRow
          /\ outbox'[r].kind # "none" => outbox'[r].status # "none"
    BY <1>2, <1>3, <1>5 DEF ReplyInv, RowsAreOfTurn, RowMoves
  <2>2. outbox'["replacement"].kind \in {"none", "send"}
    BY <1>2, <1>5 DEF ReplyInv, RowsAreOfTurn, RowMoves
  <2>3. outbox'["replacement"] # Said!NoRow <=>
          outbox'["reply"].kind = "update" /\ outbox'["reply"].status = "failed"
    <3>1. CASE own = "reply"
      <4>1. outbox["replacement"] = Said!NoRow
        BY <1>3, <3>1 DEF ReplyInv, RowsAreOfTurn
      <4> QED
        BY <1>2, <1>5, <3>1, <4>1 DEF RowMoves
    <3>2. CASE own = "replacement"
      BY <1>3, <1>6, <1>7, <3>2 DEF ReplyInv, RowsAreOfTurn
    <3>3. CASE own = "file"
      BY <1>7, <3>3 DEF ReplyInv, RowsAreOfTurn
    <3> QED
      BY <1>3, <1>5, <3>1, <3>2, <3>3
  <2>4. listening' \in {"filing", "over"} \/ outbox'["file"] = Said!NoRow
    BY <1>3, <1>4, <1>7 DEF ReplyInv, RowsAreOfTurn
  <2> QED
    BY <1>1, <1>2, <1>4, <1>7, <2>1, <2>2, <2>3, <2>4 DEF ReplyInv, RowsAreOfTurn
<1>11. RequestsAreOfRows'
  <2>1. \A o \in requests' :
          /\ o.op = "update" => card # 0
          /\ o.by = "typing" => o.op \in {"card", "update"} /\ editable /\ ~o.heard
          /\ o.by # "typing" => outbox'[o.by] # Said!NoRow
          /\ o.by = "reply" => o.op = outbox'["reply"].kind /\ o.text = reply
          /\ o.by = "replacement" => o.op = "send" /\ o.text = reply
          /\ o.by = "file" => o.op = "send" /\ o.text = <<>>
    <3> SUFFICES ASSUME NEW o \in requests'
                 PROVE  /\ o.op = "update" => card # 0
                        /\ o.by = "typing" =>
                             o.op \in {"card", "update"} /\ editable /\ ~o.heard
                        /\ o.by # "typing" => outbox'[o.by] # Said!NoRow
                        /\ o.by = "reply" => o.op = outbox'["reply"].kind /\ o.text = reply
                        /\ o.by = "replacement" => o.op = "send" /\ o.text = reply
                        /\ o.by = "file" => o.op = "send" /\ o.text = <<>>
      OBVIOUS
    <3>1. PICK p \in requests : p.by = o.by /\ p.op = o.op /\ p.text = o.text
                                /\ (o.heard => o = p)
      BY <1>8
    <3>2. p.by \in {"typing"} \cup Said!RowName
      BY DEF ReplyInv, ReplyTypes, CallOfPlugin, Speaker
    <3>3. p.by = "typing" => ~p.heard
      BY <1>3 DEF ReplyInv, RequestsAreOfRows, Streams
    <3> QED
      BY <1>7, <3>1, <3>2, <3>3 DEF ReplyInv, RequestsAreOfRows
  <2>2. \A o \in requests' : o.heard =>
          /\ o \in requests /\ o.by # own /\ o.by \in Said!RowName
          /\ outbox[o.by].status = "pending" /\ o.n = outbox[o.by].tries
          /\ outbox'[o.by] = outbox[o.by]
    <3> SUFFICES ASSUME NEW o \in requests', o.heard
                 PROVE  /\ o \in requests /\ o.by # own /\ o.by \in Said!RowName
                        /\ outbox[o.by].status = "pending" /\ o.n = outbox[o.by].tries
                        /\ outbox'[o.by] = outbox[o.by]
      OBVIOUS
    <3>1. o \in requests /\ o # q
      BY <1>8
    <3>2. o.by # own
      BY <3>1 DEF ReplyInv, RequestsAreOfRows
    <3>3. o.by # "typing" /\ outbox[o.by].status = "pending" /\ o.n = outbox[o.by].tries
      BY <1>3, <3>1 DEF ReplyInv, RequestsAreOfRows, Streams
    <3>4. o.by \in Said!RowName
      BY <3>1, <3>3 DEF ReplyInv, ReplyTypes, CallOfPlugin, Speaker
    <3>5. outbox'[o.by] = outbox[o.by]
      BY <1>2, <1>5, <1>6, <3>2, <3>3, <3>4 DEF RowMoves
    <3> QED
      BY <3>1, <3>2, <3>3, <3>4, <3>5
  <2>3. \A o \in requests' : o.by = "reply" /\ o.heard /\ o.n = 0 => listening' = "replying"
    <3> SUFFICES ASSUME NEW o \in requests', o.by = "reply", o.heard, o.n = 0
                 PROVE  listening' = "replying"
      OBVIOUS
    <3>1. listening = "replying" /\ own # "reply"
      BY <2>2 DEF ReplyInv, RequestsAreOfRows
    <3>2. own # "file"
      BY <1>3, <3>1 DEF ReplyInv, RowsAreOfTurn
    <3> QED
      BY <1>2, <1>3, <1>5, <3>1, <3>2
  <2>4. \A o \in requests' : o.heard => \A p \in requests' : p.heard /\ p.by = o.by => p = o
    BY <2>2 DEF ReplyInv, RequestsAreOfRows
  <2> QED
    BY <1>1, <1>2, <1>4, <2>1, <2>2, <2>3, <2>4 DEF RequestsAreOfRows
<1>12. FirstTryIsHeard'
  <2> SUFFICES ASSUME outbox'["reply"].status = "pending", outbox'["reply"].tries = 0
               PROVE  \E o \in requests' : o.by = "reply" /\ o.heard
    BY DEF FirstTryIsHeard
  <2>1. own # "reply"
    BY <1>2 DEF RowMoves
  <2> QED
    BY <1>1, <1>7, <2>1 DEF ReplyInv, FirstTryIsHeard, Leaves
<1>13. MessagesAreOfRows'
  <2>1. \A m \in DOMAIN chat : chat[m].by \in {"typing"} \cup Said!RowName
    BY ChatIsOfMessages DEF ReplyInv, Speaker
  <2>2. \A o \in requests' : o.shows > 0 =>
          /\ o.op = "send" => \E m \in DOMAIN chat : chat[m].by = o.by
          /\ o.op = "card" => chat[o.shows].by = "typing"
          /\ o.op = "update" => o.shows = card
    <3> SUFFICES ASSUME NEW o \in requests', o.shows > 0
                 PROVE  /\ o.op = "send" => \E m \in DOMAIN chat : chat[m].by = o.by
                        /\ o.op = "card" => chat[o.shows].by = "typing"
                        /\ o.op = "update" => o.shows = card
      OBVIOUS
    <3>1. PICK p \in requests : p.by = o.by /\ p.op = o.op /\ p.shows = o.shows
      BY <1>8
    <3> QED
      BY <3>1 DEF ReplyInv, MessagesAreOfRows
  <2>3. \A r \in {"reply", "replacement"} :
          outbox'[r].kind = "send" /\ outbox'[r].status = "delivered" =>
            \E m \in DOMAIN chat : chat[m].by = r
    <3> SUFFICES ASSUME NEW r \in {"reply", "replacement"}, outbox'[r].kind = "send",
                        outbox'[r].status = "delivered"
                 PROVE  \E m \in DOMAIN chat : chat[m].by = r
      OBVIOUS
    <3>1. CASE r = own
      <4>1. q.shows > 0 /\ outbox[own].kind = "send"
        BY <1>2, <3>1 DEF RowMoves
      <4>2. q.op = "send"
        BY <3>1, <4>1 DEF ReplyInv, RequestsAreOfRows
      <4> QED
        BY <3>1, <4>1, <4>2 DEF ReplyInv, MessagesAreOfRows
    <3>2. CASE r # own
      <4>1. outbox'[r] = outbox[r]
        BY <1>2, <1>5, <3>2 DEF RowMoves
      <4> QED
        BY <4>1 DEF ReplyInv, MessagesAreOfRows
    <3> QED
      BY <3>1, <3>2
  <2> QED
    BY <1>1, <1>2, <1>7, <2>1, <2>2, <2>3 DEF ReplyInv, MessagesAreOfRows
<1>14. PushedIsShown'
  <2>1. \A o \in requests' : o.by = "typing" => ~o.heard
    BY <1>3, <1>8 DEF ReplyInv, RequestsAreOfRows, Streams
  <2>2. \A o \in requests' : o.by = "reply" /\ o.op = "update" /\ o.shows > 0 =>
          overtaken \/ CardShows(reply)
    BY <1>8 DEF ReplyInv, PushedIsShown
  <2>3. outbox'["reply"].kind = "update" /\ outbox'["reply"].status = "delivered" =>
          overtaken \/ CardShows(reply)
    <3>1. CASE own = "reply"
      <4>1. outbox'["reply"].status = "delivered" => q.shows > 0
        BY <1>2, <3>1 DEF RowMoves
      <4>2. q.op = outbox["reply"].kind
        BY <3>1 DEF ReplyInv, RequestsAreOfRows
      <4> QED
        BY <1>7, <3>1, <4>1, <4>2 DEF ReplyInv, PushedIsShown
    <3>2. CASE own # "reply"
      BY <1>7, <3>2 DEF ReplyInv, PushedIsShown
    <3> QED
      BY <3>1, <3>2
  <2>4. outbox'["reply"].kind = "none" => ~acked \/ overtaken \/ Said!Shows(reply) # {}
    BY <1>3, <1>7 DEF ReplyInv, PushedIsShown
  <2> QED
    BY <1>1, <1>2, <1>4, <2>1, <2>2, <2>3, <2>4
       DEF PushedIsShown, Streams, CardShows, Said!Shows
<1>15. CardIsKnown' /\ TextsAreBehind'
  <2>1. TextsAreBehind'
    BY <1>4 DEF TextsAreBehind
  <2> QED
    BY <1>1, <1>2, <2>1 DEF ReplyInv, CardIsKnown, Leaves
<1>16. ReplyIsNew'
  <2>1. reply # <<>> /\ \A o \in requests' : outbox["reply"].kind = "update" =>
                           (o.by = "typing" => o.text # reply)
    BY <1>3, <1>8 DEF ReplyInv, ReplyIsNew
  <2>2. outbox["reply"].kind = "update" =>
          \/ unanswered' \/ outbox'["reply"].status = "delivered" \/ ~CardShows(reply)
          \/ \E o \in requests' : o.by = "reply" /\ o.shows > 0
    <3> SUFFICES ASSUME outbox["reply"].kind = "update", ~unanswered',
                        outbox'["reply"].status # "delivered", CardShows(reply)
                 PROVE  \E o \in requests' : o.by = "reply" /\ o.shows > 0
      OBVIOUS
    <3>1. outbox["reply"].status = "delivered" => own # "reply"
      BY <1>3
    <3>2. PICK p \in requests : p.by = "reply" /\ p.shows > 0
      BY <1>1, <1>7, <3>1 DEF ReplyInv, ReplyIsNew
    <3>3. CASE p # q
      BY <1>1, <3>2, <3>3 DEF Leaves
    <3>4. CASE p = q
      <4>1. q.op = "update" /\ Said!Hidden(q)
        BY <3>2, <3>4 DEF ReplyInv, RequestsAreOfRows, Said!Hidden
      <4>2. ~Said!Accepts(q)
        BY <1>2, <3>2, <3>4
      <4> QED
        BY <1>1, <3>2, <3>4, <4>1, <4>2 DEF Remembers
    <3> QED
      BY <3>3, <3>4
  <2> QED
    BY <1>1, <1>2, <1>4, <1>7, <2>1, <2>2 DEF ReplyIsNew, CardShows
<1>17. ReplyIsFirst'
  <2> SUFFICES ASSUME outbox'["reply"].status = "delivered", outbox'["reply"].tries = 0
               PROVE  chat # <<>> /\ chat[1].by # "file"
    BY <1>1 DEF ReplyIsFirst
  <2>1. CASE own # "reply"
    BY <1>7, <2>1 DEF ReplyInv, ReplyIsFirst
  <2>2. CASE own = "reply"
    <3>1. q.shows > 0 /\ q.n = 0
      BY <1>2, <1>3, <2>2 DEF RowMoves
    <3>2. listening = "replying"
      BY <2>2, <3>1 DEF ReplyInv, RequestsAreOfRows
    <3>3. outbox["file"] = Said!NoRow
      BY <3>2 DEF ReplyInv, RowsAreOfTurn
    <3>4. q.shows <= Len(chat) /\ DOMAIN chat = 1 .. Len(chat) /\ Len(chat) \in Nat
      BY ChatIsOfMessages DEF ReplyInv, ReplyTypes
    <3>5. 1 \in DOMAIN chat
      BY <1>3, <3>1, <3>4
    <3>6. chat[1].by # "file"
      BY <3>3, <3>5 DEF ReplyInv, MessagesAreOfRows
    <3> QED
      BY <3>4, <3>5, <3>6
  <2> QED
    BY <2>1, <2>2
<1> QED
  BY <1>9, <1>10, <1>11, <1>12, <1>13, <1>14, <1>15, <1>16, <1>17 DEF ReplyInv

LEMMA ReplyStep == ASSUME ReplyInv, [Said!Next]_replyState PROVE ReplyInv'
<1>1. CASE Said!Listener
  BY <1>1, DeltaKeepsReply, ResponsesKeepReply DEF Said!Listener
<1>2. CASE Said!Closing
  BY <1>2, ClosingKeepsReply, FileKeepsReply DEF Said!Closing
<1>3. CASE \E r \in Said!RowName : Said!Retry(r)
  BY <1>3, RetryKeepsReply
<1>4. CASE \E q \in requests : Said!Served(q)
  <2> SUFFICES ASSUME NEW q \in requests, Said!Served(q) PROVE ReplyInv'
    BY <1>4
  <2>1. CASE Said!TakesEffect(q)
    BY <2>1, EffectKeepsReply
  <2>2. CASE Said!Ends(q)
    BY <2>2, EndingKeepsReply
  <2>3. CASE Said!Accepts(q) \/ Said!Refuses(q) \/ Said!TimesOut(q)
    <3>1. q.heard
      BY <2>3 DEF Said!Accepts, Said!Refuses, Said!TimesOut
    <3> QED
      BY <2>3, <3>1, ListenerHears, RowHears
  <2> QED
    BY <2>1, <2>2, <2>3 DEF Said!Served
<1>5. CASE UNCHANGED replyState
  <2>1. UNCHANGED <<editable, response, acc, pushed, card, acked, listening, reply, outbox,
                    requests, chat, overtaken, unanswered>>
    BY <1>5 DEF replyState
  <2>2. (ReplyTypes /\ RowsAreOfTurn)' /\ RequestsAreOfRows'
    BY <2>1 DEF ReplyInv, ReplyTypes, RowsAreOfTurn, RequestsAreOfRows, Streams
  <2>3. (FirstTryIsHeard /\ MessagesAreOfRows /\ CardIsKnown)' /\ PushedIsShown'
    BY <2>1 DEF ReplyInv, FirstTryIsHeard, MessagesAreOfRows, PushedIsShown, CardIsKnown,
       Streams, CardShows, Said!Shows
  <2>4. TextsAreBehind' /\ (ReplyIsNew /\ ReplyIsFirst)'
    BY <2>1 DEF ReplyInv, TextsAreBehind, ReplyIsNew, ReplyIsFirst, Streams, CardShows, Behind
  <2> QED
    BY <2>2, <2>3, <2>4 DEF ReplyInv
<1> QED
  BY <1>1, <1>2, <1>3, <1>4, <1>5 DEF Said!Next

(* A set of equal elements has one at most.                                *)
LEMMA OneAtMost ==
  ASSUME NEW S, \A x, y \in S : x = y PROVE ~(Cardinality(S) > 1)
<1>1. CASE S = {}
  BY <1>1, FS_EmptySet
<1>2. CASE S # {}
  <2>1. PICK x : x \in S
    BY <1>2
  <2>2. S = {x}
    BY <2>1
  <2> QED
    BY <2>2, FS_Singleton
<1> QED
  BY <1>1, <1>2

(* At the end the reply is in the chat, or there is a reason.              *)
LEMMA InvShowsReply == ASSUME ReplyInv PROVE Said!ReplyIsShown
<1> SUFFICES ASSUME Said!IsOver, ~Said!SendFailed, ~overtaken,
                    ~(outbox["reply"].kind = "none" /\ ~acked)
             PROVE  Said!Shows(reply) # {}
  BY DEF Said!ReplyIsShown
<1>1. /\ ~Streams /\ \A r \in Said!RowName : outbox[r].status # "pending"
      /\ "reply" \in Said!RowName /\ "replacement" \in Said!RowName
      /\ Said!NoRow.kind = "none"
  BY DEF Said!IsOver, Streams, Said!RowName, Said!NoRow
<1>2. \A r \in Said!RowName : outbox[r] \in OutboxRow
  BY DEF ReplyInv, ReplyTypes
<1>3. \A r \in Said!RowName :
        outbox[r].kind # "none" => outbox[r].status \in {"delivered", "failed"}
  BY <1>1, <1>2 DEF ReplyInv, RowsAreOfTurn, OutboxRow
<1>4. CASE outbox["reply"].kind = "none"
  BY <1>1, <1>4 DEF ReplyInv, PushedIsShown
<1>5. CASE outbox["reply"].kind = "send"
  <2>1. outbox["reply"].status = "delivered"
    BY <1>1, <1>3, <1>5 DEF Said!SendFailed
  <2>2. PICK m \in DOMAIN chat : chat[m].by = "reply"
    BY <1>5, <2>1 DEF ReplyInv, MessagesAreOfRows
  <2>3. chat[m].text = reply
    BY <2>2 DEF ReplyInv, MessagesAreOfRows
  <2> QED
    BY <2>3 DEF Said!Shows
<1>6. CASE outbox["reply"].kind = "update"
  <2>1. CASE outbox["reply"].status = "delivered"
    <3>1. card > 0 /\ chat[card].text = reply
      BY <1>6, <2>1 DEF ReplyInv, PushedIsShown, CardShows
    <3>2. card \in DOMAIN chat
      BY <3>1, ChatIsOfMessages DEF ReplyInv, ReplyTypes
    <3> QED
      BY <3>1, <3>2 DEF Said!Shows
  <2>2. CASE outbox["reply"].status = "failed"
    <3>1. outbox["replacement"].kind = "send"
      BY <1>1, <1>6, <2>2 DEF ReplyInv, RowsAreOfTurn
    <3>2. outbox["replacement"].status = "delivered"
      BY <1>1, <1>3, <3>1 DEF Said!SendFailed
    <3>3. PICK m \in DOMAIN chat : chat[m].by = "replacement"
      BY <3>1, <3>2 DEF ReplyInv, MessagesAreOfRows
    <3>4. chat[m].text = reply
      BY <3>3 DEF ReplyInv, MessagesAreOfRows
    <3> QED
      BY <3>4 DEF Said!Shows
  <2> QED
    BY <1>1, <1>3, <1>6, <2>1, <2>2
<1> QED
  BY <1>4, <1>5, <1>6 DEF ReplyInv, RowsAreOfTurn

(* At the end a second message has a reason.                               *)
LEMMA InvShowsOnce == ASSUME ReplyInv PROVE Said!ShownOnce
<1> SUFFICES ASSUME Said!IsOver, ~unanswered
             PROVE  /\ reply # <<>> => ~(Cardinality(Said!Shows(reply)) > 1)
                    /\ outbox["replacement"] = Said!NoRow =>
                         ~(Cardinality({m \in DOMAIN chat : chat[m].by # "file"}) > 1)
  BY SameCount DEF Said!ShownOnce
<1>1. /\ requests = {} /\ DOMAIN chat = 1 .. Len(chat) /\ Len(chat) \in Nat
      /\ \A m \in DOMAIN chat : chat[m].by \in {"typing", "reply", "replacement", "file"}
      /\ outbox["reply"].kind = "update" /\ CardShows(reply) =>
           outbox["reply"].status = "delivered"
  BY ChatIsOfMessages DEF ReplyInv, ReplyIsNew, Said!IsOver, Speaker, Said!RowName
<1>2. \A m \in DOMAIN chat : chat[m].by = "typing" => m = card /\ card > 0
  BY <1>1 DEF ReplyInv, CardIsKnown
<1>3. \A m \in DOMAIN chat : chat[m].by = "reply" =>
        card = 0 /\ outbox["replacement"] = Said!NoRow
  BY DEF ReplyInv, MessagesAreOfRows, RowsAreOfTurn
<1>4. \A m \in DOMAIN chat : chat[m].by = "replacement" =>
        /\ outbox["replacement"] # Said!NoRow
        /\ outbox["reply"].kind = "update" /\ outbox["reply"].status = "failed"
  BY DEF ReplyInv, MessagesAreOfRows, RowsAreOfTurn
<1>5. \A m, o \in DOMAIN chat : chat[m].by = chat[o].by => m = o \/ chat[m].by = "file"
  BY <1>2 DEF ReplyInv, MessagesAreOfRows
<1>6. ASSUME reply # <<>> PROVE ~(Cardinality(Said!Shows(reply)) > 1)
  <2>1. \A m \in Said!Shows(reply) : /\ m \in DOMAIN chat /\ chat[m].text = reply
                                     /\ chat[m].by \in {"typing", "reply", "replacement"}
    BY <1>1, <1>6 DEF ReplyInv, MessagesAreOfRows, Said!Shows
  <2>2. \A m \in Said!Shows(reply) : chat[m].by = "typing" =>
          \A o \in DOMAIN chat : chat[o].by # "replacement"
    BY <1>1, <1>2, <1>4, <2>1 DEF CardShows
  <2>3. \A m, o \in Said!Shows(reply) : chat[m].by = chat[o].by
    BY <1>2, <1>3, <1>4, <2>1, <2>2
  <2>4. \A m, o \in Said!Shows(reply) : m = o
    BY <1>5, <2>1, <2>3
  <2> QED
    BY <2>4, OneAtMost
<1>7. ASSUME outbox["replacement"] = Said!NoRow
      PROVE  ~(Cardinality({m \in DOMAIN chat : chat[m].by # "file"}) > 1)
  <2> DEFINE T == {m \in DOMAIN chat : chat[m].by # "file"}
  <2>1. \A m \in T : m \in DOMAIN chat /\ chat[m].by \in {"typing", "reply"}
    BY <1>1, <1>4, <1>7
  <2>2. \A m, o \in T : m = o
    BY <1>2, <1>3, <1>5, <2>1
  <2> QED
    BY <2>2, OneAtMost
<1> QED
  BY <1>6, <1>7

(* However the answers of the plugin race the deltas, time out or get      *)
(* lost, and however often a row is tried: when all is over the reply is   *)
(* in the chat unless its messages were refused, and a second copy or a    *)
(* remnant has one of the reasons Reply names; a file follows a text that  *)
(* was delivered at once.  For any number of chunks, responses, attempts   *)
(* and timeouts.                                                           *)
THEOREM ReplyShownOnce == Spec => []ReplyIsShownOnce
<1> DEFINE Inv == part = "reply" => ReplyInv
<1>1. Init => Inv
  BY ReplyBegins DEF Init
<1>2. Inv /\ [Next]_vars => Inv'
  <2>1. [Next]_vars => part' = part
    BY DEF Next, vars, OnlyThread, OnlyBatch, OnlyMemory, OnlyPool, OnlyText, OnlyCards,
       OnlyLark, OnlySched, OnlyReply, OnlyFiles, OnlyDb, OnlyFence, OnlyTurn, OnlyPlugin,
       OnlyServer
  <2> SUFFICES ASSUME ReplyInv, [Next]_vars, part = "reply" PROVE ReplyInv'
    BY <2>1
  <2>2. [Said!Next]_replyState
    BY DEF Next, vars, serverState
  <2> QED
    BY <2>2, ReplyStep
<1>3. Inv => ReplyIsShownOnce
  <2> SUFFICES ASSUME ReplyInv PROVE Said!FileFollowsReply
    BY InvShowsReply, InvShowsOnce DEF ReplyIsShownOnce
  <2>1. \A f \in DOMAIN chat : f \in Nat /\ f >= 1
    BY ChatIsOfMessages DEF ReplyInv
  <2> QED
    BY <2>1 DEF ReplyInv, ReplyIsFirst, Said!FileFollowsReply
<1> QED
  BY <1>1, <1>2, <1>3, PTL DEF Spec

-----------------------------------------------------------------------------
(* Induction, in the form of a set, and the least of a set of numbers.     *)
LEMMA LeastOf ==
  ASSUME NEW S \in SUBSET Nat, S # {}
  PROVE  \E n \in S : \A k \in S : n <= k
<1>1. PICK n \in S : \A k \in S : <<k, n>> \notin OpToRel(<, Nat)
  BY NatLessThanWellFounded, WFMin
<1>2. \A x, y \in Nat : x < y => <<x, y>> \in OpToRel(<, Nat)
  BY DEF OpToRel
<1>3. ASSUME NEW k \in S PROVE n <= k
  <2>1. ~(k < n)
    BY <1>1, <1>2
  <2> QED
    BY <2>1
<1> QED
  BY <1>3

LEMMA AllNumbers ==
  ASSUME NEW S, 0 \in S, \A n \in Nat : n \in S => n + 1 \in S
  PROVE  Nat \subseteq S
<1> SUFFICES ASSUME Nat \ S # {} PROVE FALSE
  OBVIOUS
<1>1. PICK n \in Nat \ S : \A k \in Nat \ S : n <= k
  BY LeastOf
<1>2. n # 0 /\ n - 1 \in Nat /\ (n - 1) + 1 = n
  BY <1>1
<1> QED
  BY <1>1, <1>2

LEMMA LeastIs ==
  ASSUME NEW S \in SUBSET Nat, S # {}
  PROVE  Quoted!Min(S) \in S /\ \A k \in S : Quoted!Min(S) <= k
<1>1. \E x \in S : \A y \in S : x <= y
  BY LeastOf
<1> QED
  BY <1>1 DEF Quoted!Min

LEMMA GreatestIs ==
  ASSUME NEW n \in Nat, NEW S \in SUBSET (0 .. n), S # {}
  PROVE  Quoted!Max(S) \in S /\ \A k \in S : Quoted!Max(S) >= k
<1> DEFINE T == {n - k : k \in S}
<1>1. T \in SUBSET Nat /\ T # {}
  <2>1. \A k \in S : n - k \in Nat
    OBVIOUS
  <2>2. PICK k \in S : TRUE
    OBVIOUS
  <2>3. n - k \in T
    OBVIOUS
  <2> QED
    BY <2>1, <2>3
<1>2. PICK m \in T : \A k \in T : m <= k
  BY <1>1, LeastOf
<1>3. \E x \in S : \A y \in S : x >= y
  <2>1. PICK x \in S : m = n - x
    BY <1>2
  <2>2. ASSUME NEW y \in S PROVE x >= y
    <3>1. n - y \in T
      OBVIOUS
    <3>2. m <= n - y
      BY <1>2, <3>1
    <3> QED
      BY <2>1, <3>2
  <2> QED
    BY <2>2
<1> QED
  BY <1>3 DEF Quoted!Max

-----------------------------------------------------------------------------
(* Words in a text, position by position.                                  *)
Phrase == Seq(Quoted!Symbol)

LEMMA MarksAreSymbols == "<" \in Quoted!Symbol /\ ">" \in Quoted!Symbol /\ "/" \in Quoted!Symbol
BY DEF Quoted!Symbol, Quoted!Delimiter

Word == Phrase \ {<<>>}

LEMMA SomePiece ==
  ASSUME NEW t \in Phrase, NEW p \in 1 .. Len(t) + 1, NEW q \in p - 1 .. Len(t)
  PROVE  /\ SubSeq(t, p, q) \in Phrase /\ Len(SubSeq(t, p, q)) = q - p + 1
         /\ \A i \in 1 .. q - p + 1 : SubSeq(t, p, q)[i] = t[p + i - 1]
<1>1. \A i \in p .. q : t[i] \in Quoted!Symbol
  BY DEF Phrase
<1>2. /\ SubSeq(t, p, q) \in Seq(Quoted!Symbol)
      /\ Len(SubSeq(t, p, q)) = IF p <= q THEN q - p + 1 ELSE 0
      /\ \A i \in 1 .. q - p + 1 : SubSeq(t, p, q)[i] = t[p + i - 1]
  BY <1>1, SubSeqProperties
<1> QED
  BY <1>2 DEF Phrase

LEMMA Joined ==
  ASSUME NEW t1 \in Phrase, NEW t2 \in Phrase
  PROVE  /\ t1 \o t2 \in Phrase /\ Len(t1 \o t2) = Len(t1) + Len(t2)
         /\ \A i \in 1 .. Len(t1) + Len(t2) :
              (t1 \o t2)[i] = IF i <= Len(t1) THEN t1[i] ELSE t2[i - Len(t1)]
BY ConcatProperties DEF Phrase

LEMMA Regrouped ==
  ASSUME NEW t1 \in Phrase, NEW t2 \in Phrase, NEW t3 \in Phrase
  PROVE  (t1 \o t2) \o t3 = t1 \o (t2 \o t3)
BY ConcatAssociative DEF Phrase

LEMMA TextLength == ASSUME NEW t \in Phrase PROVE Len(t) \in Nat
BY DEF Phrase

LEMMA WordIsAt ==
  ASSUME NEW t \in Phrase, NEW w \in Word, NEW i \in Nat \ {0}
  PROVE  Quoted!IsAt(t, i, w) <=> /\ i + Len(w) - 1 <= Len(t)
                                  /\ \A j \in 1 .. Len(w) : t[i + j - 1] = w[j]
<1>1. Len(w) \in Nat \ {0} /\ Len(t) \in Nat
  BY EmptySeq DEF Word, Phrase
<1>2. CASE i + Len(w) - 1 <= Len(t)
  <2>1. /\ SubSeq(t, i, i + Len(w) - 1) \in Phrase /\ Len(SubSeq(t, i, i + Len(w) - 1)) = Len(w)
        /\ \A j \in 1 .. Len(w) : SubSeq(t, i, i + Len(w) - 1)[j] = t[i + j - 1]
    BY <1>1, <1>2, SomePiece
  <2>2. SubSeq(t, i, i + Len(w) - 1) = w <=>
          \A j \in 1 .. Len(w) : SubSeq(t, i, i + Len(w) - 1)[j] = w[j]
    BY <2>1, SeqEqual DEF Word, Phrase
  <2> QED
    BY <1>2, <2>1, <2>2 DEF Quoted!IsAt
<1> QED
  BY <1>2 DEF Quoted!IsAt

LEMMA SymbolIsAt ==
  ASSUME NEW t \in Phrase, NEW c \in Quoted!Symbol, NEW i \in Nat \ {0}
  PROVE  Quoted!IsAt(t, i, <<c>>) <=> i <= Len(t) /\ t[i] = c
<1>1. <<c>> \in Seq(Quoted!Symbol) /\ Len(<<c>>) = 1 /\ <<c>>[1] = c
  OBVIOUS
<1>2. <<c>> \in Word
  BY <1>1, EmptySeq DEF Word, Phrase
<1>3. Quoted!IsAt(t, i, <<c>>) <=> i + 1 - 1 <= Len(t) /\ \A j \in 1 .. 1 : t[i + j - 1] = <<c>>[j]
  BY <1>1, <1>2, WordIsAt
<1>4. i + 1 - 1 = i
  OBVIOUS
<1>5. 1 \in 1 .. 1 /\ \A j \in 1 .. 1 : j = 1
  OBVIOUS
<1> QED
  BY <1>1, <1>3, <1>4, <1>5

(* A text that goes on, and the rest of a text.                            *)
GoesOn(t, u) == Len(t) <= Len(u) /\ \A i \in 1 .. Len(t) : u[i] = t[i]

RestFrom(t, p) == SubSeq(t, p, Len(t))

LEMMA RestIs ==
  ASSUME NEW t \in Phrase, NEW p \in 1 .. Len(t) + 1
  PROVE  /\ RestFrom(t, p) \in Phrase /\ Len(RestFrom(t, p)) = Len(t) - p + 1
         /\ \A i \in 1 .. Len(t) - p + 1 : RestFrom(t, p)[i] = t[p + i - 1]
BY SomePiece DEF RestFrom, Phrase

LEMMA WordInRest ==
  ASSUME NEW t \in Phrase, NEW p \in 1 .. Len(t) + 1, NEW w \in Word, NEW i \in Nat \ {0}
  PROVE  Quoted!IsAt(RestFrom(t, p), i, w) <=> Quoted!IsAt(t, p + i - 1, w)
<1>1. Len(w) \in Nat \ {0} /\ Len(t) \in Nat
  BY EmptySeq DEF Word, Phrase
<1>2. /\ RestFrom(t, p) \in Phrase /\ Len(RestFrom(t, p)) = Len(t) - p + 1
      /\ \A k \in 1 .. Len(t) - p + 1 : RestFrom(t, p)[k] = t[p + k - 1]
  BY RestIs
<1>3. Quoted!IsAt(RestFrom(t, p), i, w) <=>
        /\ i + Len(w) - 1 <= Len(t) - p + 1
        /\ \A j \in 1 .. Len(w) : RestFrom(t, p)[i + j - 1] = w[j]
  BY <1>2, WordIsAt
<1>4. Quoted!IsAt(t, p + i - 1, w) <=> /\ (p + i - 1) + Len(w) - 1 <= Len(t)
                                       /\ \A j \in 1 .. Len(w) : t[(p + i - 1) + j - 1] = w[j]
  <2>1. p + i - 1 \in Nat \ {0}
    OBVIOUS
  <2> QED
    BY <2>1, WordIsAt
<1>5. ASSUME i + Len(w) - 1 <= Len(t) - p + 1, NEW j \in 1 .. Len(w)
      PROVE  RestFrom(t, p)[i + j - 1] = t[(p + i - 1) + j - 1]
  <2>1. i + j - 1 \in 1 .. Len(t) - p + 1
    BY <1>1, <1>5
  <2>2. p + (i + j - 1) - 1 = (p + i - 1) + j - 1
    OBVIOUS
  <2> QED
    BY <1>2, <2>1, <2>2
<1>6. i + Len(w) - 1 <= Len(t) - p + 1 <=> (p + i - 1) + Len(w) - 1 <= Len(t)
  BY <1>1
<1> QED
  BY <1>3, <1>4, <1>5, <1>6

LEMMA WordStays ==
  ASSUME NEW t \in Phrase, NEW u \in Phrase, GoesOn(t, u), NEW w \in Word, NEW i \in Nat \ {0}
  PROVE  Quoted!IsAt(t, i, w) <=> i + Len(w) - 1 <= Len(t) /\ Quoted!IsAt(u, i, w)
<1>1. Len(w) \in Nat \ {0} /\ Len(t) \in Nat /\ Len(u) \in Nat
  BY EmptySeq DEF Word, Phrase
<1>2. ASSUME i + Len(w) - 1 <= Len(t), NEW j \in 1 .. Len(w) PROVE u[i + j - 1] = t[i + j - 1]
  <2>1. i + j - 1 \in 1 .. Len(t)
    BY <1>1, <1>2
  <2> QED
    BY <2>1 DEF GoesOn
<1> QED
  BY <1>1, <1>2, WordIsAt DEF GoesOn

-----------------------------------------------------------------------------
(* Opening and closing tags.                                               *)
LEMMA NamesAreNames ==
  ASSUME NEW n \in PROTECTED_FENCES
  PROVE  /\ n \in Word /\ Len(n) \in Nat \ {0}
         /\ \A i \in 1 .. Len(n) : n[i] \in Quoted!Symbol /\ n[i] \notin {"<", ">", " ", "/"}
<1>1. n \in Seq(Quoted!Symbol) /\ n # <<>>
  BY FenceAssumption
<1>2. Len(n) \in Nat \ {0} /\ DOMAIN n = 1 .. Len(n)
  BY <1>1, EmptySeq
<1>3. \A i \in 1 .. Len(n) : n[i] \in Quoted!Symbol
  BY <1>1, <1>2
<1>4. \A i \in 1 .. Len(n) : n[i] \notin {"<", ">", " ", "/"}
  BY <1>2, FenceAssumption
<1> QED
  BY <1>1, <1>2, <1>3, <1>4 DEF Word, Phrase

LEMMA TagIs ==
  ASSUME NEW n \in PROTECTED_FENCES
  PROVE  /\ <<"<">> \o n \in Word /\ Len(<<"<">> \o n) = Len(n) + 1
         /\ (<<"<">> \o n)[1] = "<" /\ \A j \in 1 .. Len(n) : (<<"<">> \o n)[j + 1] = n[j]
         /\ Quoted!CloseOf(n) \in Word /\ Len(Quoted!CloseOf(n)) = Len(n) + 2
         /\ Quoted!CloseOf(n)[1] = "<" /\ Quoted!CloseOf(n)[2] = "/"
         /\ Quoted!CloseOf(n) \o <<">">> \in Word /\ Len(Quoted!CloseOf(n) \o <<">">>) = Len(n) + 3
         /\ (Quoted!CloseOf(n) \o <<">">>)[Len(n) + 3] = ">"
         /\ \A j \in 1 .. Len(n) + 2 : (Quoted!CloseOf(n) \o <<">">>)[j] = Quoted!CloseOf(n)[j]
<1>1. n \in Seq(Quoted!Symbol) /\ Len(n) \in Nat \ {0}
  BY NamesAreNames DEF Word, Phrase
<1>2. /\ <<"<">> \in Seq(Quoted!Symbol) /\ Len(<<"<">>) = 1 /\ <<"<">>[1] = "<"
      /\ <<">">> \in Seq(Quoted!Symbol) /\ Len(<<">">>) = 1 /\ <<">">>[1] = ">"
      /\ <<"<", "/">> \in Seq(Quoted!Symbol) /\ Len(<<"<", "/">>) = 2
      /\ <<"<", "/">>[1] = "<" /\ <<"<", "/">>[2] = "/"
  <2>1. <<"<">> \in Seq(Quoted!Symbol) /\ Len(<<"<">>) = 1 /\ <<"<">>[1] = "<"
    BY MarksAreSymbols
  <2>2. <<">">> \in Seq(Quoted!Symbol) /\ Len(<<">">>) = 1 /\ <<">">>[1] = ">"
    BY MarksAreSymbols
  <2>3. <<"<", "/">> \in Seq(Quoted!Symbol) /\ Len(<<"<", "/">>) = 2
    BY MarksAreSymbols
  <2>4. <<"<", "/">>[1] = "<" /\ <<"<", "/">>[2] = "/"
    OBVIOUS
  <2> QED
    BY <2>1, <2>2, <2>3, <2>4
<1>3. /\ <<"<">> \o n \in Seq(Quoted!Symbol) /\ Len(<<"<">> \o n) = 1 + Len(n)
      /\ \A i \in 1 .. 1 + Len(n) :
           (<<"<">> \o n)[i] = IF i <= 1 THEN <<"<">>[i] ELSE n[i - 1]
  BY <1>1, <1>2, ConcatProperties
<1>4. /\ Quoted!CloseOf(n) \in Seq(Quoted!Symbol) /\ Len(Quoted!CloseOf(n)) = 2 + Len(n)
      /\ \A i \in 1 .. 2 + Len(n) :
           Quoted!CloseOf(n)[i] = IF i <= 2 THEN <<"<", "/">>[i] ELSE n[i - 2]
  BY <1>1, <1>2, ConcatProperties DEF Quoted!CloseOf
<1>5. /\ Quoted!CloseOf(n) \o <<">">> \in Seq(Quoted!Symbol)
      /\ Len(Quoted!CloseOf(n) \o <<">">>) = Len(n) + 3
      /\ \A i \in 1 .. (2 + Len(n)) + 1 :
           (Quoted!CloseOf(n) \o <<">">>)[i] =
             IF i <= 2 + Len(n) THEN Quoted!CloseOf(n)[i] ELSE <<">">>[i - (2 + Len(n))]
  BY <1>1, <1>2, <1>4, ConcatProperties
<1>6. (<<"<">> \o n)[1] = "<" /\ \A j \in 1 .. Len(n) : (<<"<">> \o n)[j + 1] = n[j]
  <2>1. ASSUME NEW j \in 1 .. Len(n) PROVE (<<"<">> \o n)[j + 1] = n[j]
    <3>1. j + 1 \in 1 .. 1 + Len(n) /\ ~(j + 1 <= 1) /\ (j + 1) - 1 = j
      BY <1>1
    <3> QED
      BY <1>3, <3>1
  <2>2. 1 \in 1 .. 1 + Len(n)
    BY <1>1
  <2> QED
    BY <1>2, <1>3, <2>1, <2>2
<1>7. Quoted!CloseOf(n)[1] = "<" /\ Quoted!CloseOf(n)[2] = "/"
  <2>1. 1 \in 1 .. 2 + Len(n) /\ 2 \in 1 .. 2 + Len(n)
    BY <1>1
  <2> QED
    BY <1>2, <1>4, <2>1
<1>8. (Quoted!CloseOf(n) \o <<">">>)[Len(n) + 3] = ">"
  <2>1. /\ Len(n) + 3 \in 1 .. (2 + Len(n)) + 1 /\ ~(Len(n) + 3 <= 2 + Len(n))
        /\ (Len(n) + 3) - (2 + Len(n)) = 1
    BY <1>1
  <2> QED
    BY <1>2, <1>5, <2>1
<1>9. \A j \in 1 .. Len(n) + 2 : (Quoted!CloseOf(n) \o <<">">>)[j] = Quoted!CloseOf(n)[j]
  <2> SUFFICES ASSUME NEW j \in 1 .. Len(n) + 2
               PROVE  (Quoted!CloseOf(n) \o <<">">>)[j] = Quoted!CloseOf(n)[j]
    OBVIOUS
  <2>1. j \in 1 .. (2 + Len(n)) + 1 /\ j <= 2 + Len(n)
    BY <1>1
  <2> QED
    BY <1>5, <2>1
<1> HIDE DEF Quoted!CloseOf
<1>10. <<"<">> \o n # <<>> /\ Quoted!CloseOf(n) # <<>> /\ Quoted!CloseOf(n) \o <<">">> # <<>>
  BY <1>1, <1>3, <1>4, <1>5, EmptySeq
<1> QED
  BY <1>1, <1>3, <1>4, <1>5, <1>6, <1>7, <1>8, <1>9, <1>10 DEF Word, Phrase

Spelled(t, i, n) ==
  /\ i + Len(n) + 1 <= Len(t) /\ t[i] = "<" /\ \A j \in 1 .. Len(n) : t[i + j] = n[j]
  /\ t[i + Len(n) + 1] \in Quoted!Delimiter

LEMMA OpenedIs ==
  ASSUME NEW t \in Phrase, NEW i \in Nat \ {0}
  PROVE  Quoted!OpenedAt(t, i) = {n \in PROTECTED_FENCES : Spelled(t, i, n)}
<1> SUFFICES ASSUME NEW n \in PROTECTED_FENCES
             PROVE  (/\ Quoted!IsAt(t, i, <<"<">> \o n)
                     /\ i + Len(n) < Len(t) /\ t[i + Len(n) + 1] \in Quoted!Delimiter)
                      <=> Spelled(t, i, n)
  BY DEF Quoted!OpenedAt
<1>1. Len(n) \in Nat \ {0} /\ Len(t) \in Nat
  BY NamesAreNames, TextLength
<1>2. Quoted!IsAt(t, i, <<"<">> \o n) <=>
        /\ i + (Len(n) + 1) - 1 <= Len(t)
        /\ \A j \in 1 .. Len(n) + 1 : t[i + j - 1] = (<<"<">> \o n)[j]
  <2>1. <<"<">> \o n \in Word /\ Len(<<"<">> \o n) = Len(n) + 1
    BY TagIs
  <2> QED
    BY <2>1, WordIsAt
<1>3. (\A j \in 1 .. Len(n) + 1 : t[i + j - 1] = (<<"<">> \o n)[j]) <=>
        t[i] = "<" /\ \A j \in 1 .. Len(n) : t[i + j] = n[j]
  <2>0. (<<"<">> \o n)[1] = "<" /\ \A j \in 1 .. Len(n) : (<<"<">> \o n)[j + 1] = n[j]
    BY TagIs
  <2> DEFINE w == <<"<">> \o n
  <2> HIDE DEF w
  <2>1. w[1] = "<" /\ \A j \in 1 .. Len(n) : w[j + 1] = n[j]
    BY <2>0 DEF w
  <2>2. ASSUME \A j \in 1 .. Len(n) + 1 : t[i + j - 1] = w[j]
        PROVE  t[i] = "<" /\ \A j \in 1 .. Len(n) : t[i + j] = n[j]
    <3>1. 1 \in 1 .. Len(n) + 1 /\ i + 1 - 1 = i
      BY <1>1
    <3>2. ASSUME NEW j \in 1 .. Len(n) PROVE t[i + j] = n[j]
      <4>1. j + 1 \in 1 .. Len(n) + 1 /\ i + (j + 1) - 1 = i + j
        BY <1>1
      <4> QED
        BY <2>1, <2>2, <4>1
    <3> QED
      BY <2>1, <2>2, <3>1, <3>2
  <2>3. ASSUME t[i] = "<", \A j \in 1 .. Len(n) : t[i + j] = n[j], NEW j \in 1 .. Len(n) + 1
        PROVE  t[i + j - 1] = w[j]
    <3>1. CASE j = 1
      <4>1. i + j - 1 = i
        BY <3>1
      <4> QED
        BY <2>1, <2>3, <3>1, <4>1
    <3>2. CASE j # 1
      <4>1. j - 1 \in 1 .. Len(n) /\ i + (j - 1) = i + j - 1 /\ (j - 1) + 1 = j
        BY <1>1, <3>2
      <4> QED
        BY <2>1, <2>3, <4>1
    <3> QED
      BY <3>1, <3>2
  <2> QED
    BY <2>2, <2>3 DEF w
<1> QED
  BY <1>1, <1>2, <1>3 DEF Spelled

(* No name goes on where another ends.                                     *)
LEMMA OneIsOpened ==
  ASSUME NEW t \in Phrase, NEW i \in Nat \ {0}, NEW m \in Quoted!OpenedAt(t, i),
        NEW n \in Quoted!OpenedAt(t, i)
  PROVE  m = n
<1>1. /\ m \in PROTECTED_FENCES /\ Spelled(t, i, m) /\ n \in PROTECTED_FENCES /\ Spelled(t, i, n)
  BY OpenedIs
<1>2. /\ m \in Phrase /\ n \in Phrase /\ Len(m) \in Nat /\ Len(n) \in Nat
      /\ \A j \in 1 .. Len(m) : m[j] \notin Quoted!Delimiter
      /\ \A j \in 1 .. Len(n) : n[j] \notin Quoted!Delimiter
  BY <1>1, NamesAreNames DEF Quoted!Delimiter, Word
<1>3. ~(Len(m) < Len(n)) /\ ~(Len(n) < Len(m))
  <2>1. ASSUME Len(m) < Len(n) PROVE FALSE
    <3>1. Len(m) + 1 \in 1 .. Len(n) /\ i + (Len(m) + 1) = i + Len(m) + 1
      BY <1>2, <2>1
    <3> QED
      BY <1>1, <1>2, <3>1 DEF Spelled
  <2>2. ASSUME Len(n) < Len(m) PROVE FALSE
    <3>1. Len(n) + 1 \in 1 .. Len(m) /\ i + (Len(n) + 1) = i + Len(n) + 1
      BY <1>2, <2>2
    <3> QED
      BY <1>1, <1>2, <3>1 DEF Spelled
  <2> QED
    BY <2>1, <2>2
<1>4. Len(m) = Len(n)
  BY <1>2, <1>3
<1>5. \A j \in 1 .. Len(m) : m[j] = n[j]
  BY <1>1, <1>4 DEF Spelled
<1> QED
  BY <1>2, <1>4, <1>5, SeqEqual DEF Phrase

LEMMA OpenedInRest ==
  ASSUME NEW t \in Phrase, NEW p \in 1 .. Len(t) + 1, NEW i \in Nat \ {0}
  PROVE  Quoted!OpenedAt(RestFrom(t, p), i) = Quoted!OpenedAt(t, p + i - 1)
<1>1. /\ RestFrom(t, p) \in Phrase /\ Len(RestFrom(t, p)) = Len(t) - p + 1
      /\ \A k \in 1 .. Len(t) - p + 1 : RestFrom(t, p)[k] = t[p + k - 1]
  BY RestIs
<1>2. Len(t) \in Nat /\ p + i - 1 \in Nat \ {0}
  BY DEF Phrase
<1> SUFFICES ASSUME NEW n \in PROTECTED_FENCES
             PROVE  Spelled(RestFrom(t, p), i, n) <=> Spelled(t, p + i - 1, n)
  BY <1>1, <1>2, OpenedIs
<1>3. Len(n) \in Nat \ {0}
  BY NamesAreNames
<1>4. i + Len(n) + 1 <= Len(t) - p + 1 <=> (p + i - 1) + Len(n) + 1 <= Len(t)
  BY <1>2, <1>3
<1>5. ASSUME i + Len(n) + 1 <= Len(t) - p + 1, NEW j \in 0 .. Len(n) + 1
      PROVE  RestFrom(t, p)[i + j] = t[(p + i - 1) + j]
  <2>1. i + j \in 1 .. Len(t) - p + 1 /\ p + (i + j) - 1 = (p + i - 1) + j
    BY <1>2, <1>3, <1>5
  <2> QED
    BY <1>1, <2>1
<1>6. ASSUME i + Len(n) + 1 <= Len(t) - p + 1
      PROVE  /\ RestFrom(t, p)[i] = t[p + i - 1]
             /\ \A j \in 1 .. Len(n) : RestFrom(t, p)[i + j] = t[(p + i - 1) + j]
             /\ RestFrom(t, p)[i + Len(n) + 1] = t[(p + i - 1) + Len(n) + 1]
  <2>1. 0 \in 0 .. Len(n) + 1 /\ i + 0 = i /\ (p + i - 1) + 0 = p + i - 1
    BY <1>3
  <2>2. /\ Len(n) + 1 \in 0 .. Len(n) + 1 /\ i + (Len(n) + 1) = i + Len(n) + 1
        /\ (p + i - 1) + (Len(n) + 1) = (p + i - 1) + Len(n) + 1
    BY <1>3
  <2>3. \A j \in 1 .. Len(n) : j \in 0 .. Len(n) + 1
    BY <1>3
  <2> QED
    BY <1>5, <1>6, <2>1, <2>2, <2>3
<1> QED
  BY <1>1, <1>4, <1>6 DEF Spelled

LEMMA OpenedStays ==
  ASSUME NEW t \in Phrase, NEW u \in Phrase, GoesOn(t, u), NEW i \in Nat \ {0},
         NEW n \in PROTECTED_FENCES
  PROVE  n \in Quoted!OpenedAt(t, i) <=> n \in Quoted!OpenedAt(u, i) /\ i + Len(n) + 1 <= Len(t)
<1>1. Len(n) \in Nat \ {0} /\ Len(t) \in Nat /\ Len(u) \in Nat
  BY NamesAreNames, TextLength
<1>2. ASSUME i + Len(n) + 1 <= Len(t)
      PROVE  /\ u[i] = t[i] /\ u[i + Len(n) + 1] = t[i + Len(n) + 1]
             /\ \A j \in 1 .. Len(n) : u[i + j] = t[i + j]
  <2>1. /\ i \in 1 .. Len(t) /\ i + Len(n) + 1 \in 1 .. Len(t)
        /\ \A j \in 1 .. Len(n) : i + j \in 1 .. Len(t)
    BY <1>1, <1>2
  <2> QED
    BY <2>1 DEF GoesOn
<1>3. Spelled(t, i, n) <=> Spelled(u, i, n) /\ i + Len(n) + 1 <= Len(t)
  BY <1>1, <1>2 DEF Spelled, GoesOn
<1> QED
  BY <1>3, OpenedIs

-----------------------------------------------------------------------------
(* What sanitize_context makes of a text, from each of its positions on.   *)
BlockOf(t, i) == Quoted!BlockEnd(t, i, CHOOSE n \in Quoted!OpenedAt(t, i) : TRUE)

LEMMA BlockEndsLater ==
  ASSUME NEW t \in Phrase, NEW i \in 1 .. Len(t), NEW n \in PROTECTED_FENCES
  PROVE  Quoted!BlockEnd(t, i, n) \in i + 1 .. Len(t) + 1
<1>1. Len(t) \in Nat /\ Len(n) \in Nat \ {0} /\ Len(Quoted!CloseOf(n)) = Len(n) + 2
  BY NamesAreNames, TextLength, TagIs
<1> DEFINE Past(S) == IF S = {} THEN Len(t) + 1 ELSE Quoted!Min(S) + 1
<1>2. ASSUME NEW k \in Nat \ {0}, NEW w, k > i
      PROVE  Past(Quoted!Occurrences(t, k, w)) \in i + 1 .. Len(t) + 1
  <2> DEFINE S == Quoted!Occurrences(t, k, w)
  <2> SUFFICES Past(S) \in i + 1 .. Len(t) + 1
    OBVIOUS
  <2>1. \A x \in S : x \in k .. Len(t)
    BY DEF Quoted!Occurrences
  <2> HIDE DEF S
  <2>2. CASE S = {}
    BY <1>1, <2>2
  <2>3. CASE S # {}
    <3>1. S \in SUBSET Nat
      BY <1>1, <2>1
    <3>2. Quoted!Min(S) \in S
      BY <2>3, <3>1, LeastIs
    <3> QED
      BY <1>1, <1>2, <2>1, <2>3, <3>2
  <2> QED
    BY <2>2, <2>3
<1> DEFINE T == Quoted!Occurrences(t, i + Len(n) + 1, <<">">>)
           C == Quoted!Occurrences(t, Past(T), Quoted!CloseOf(n))
<1>3. Past(T) \in i + 1 .. Len(t) + 1
  BY <1>1, <1>2
<1>4. C = {} \/ (Quoted!Min(C) \in Nat /\ Quoted!Min(C) > i)
  <2>1. \A x \in C : x \in Past(T) .. Len(t)
    BY DEF Quoted!Occurrences
  <2> HIDE DEF C, T, Past
  <2>2. CASE C # {}
    <3>1. C \in SUBSET Nat
      BY <1>1, <1>3, <2>1
    <3>2. Quoted!Min(C) \in C
      BY <2>2, <3>1, LeastIs
    <3> QED
      BY <1>1, <1>3, <2>1, <3>2
  <2> QED
    BY <2>2
<1>5. C # {} => Past(Quoted!Occurrences(t, Quoted!Min(C) + Len(Quoted!CloseOf(n)),
      <<">">>)) \in i + 1 .. Len(t) + 1
  <2> SUFFICES ASSUME C # {}
               PROVE  Past(Quoted!Occurrences(t, Quoted!Min(C) + Len(Quoted!CloseOf(n)), <<">">>))
                        \in i + 1 .. Len(t) + 1
    OBVIOUS
  <2>1. Quoted!Min(C) + Len(Quoted!CloseOf(n)) \in Nat \ {0}
        /\ Quoted!Min(C) + Len(Quoted!CloseOf(n)) > i
    <3> HIDE DEF C
    <3> QED
      BY <1>1, <1>4
  <2> HIDE DEF Past, C
  <2> QED
    BY <1>2, <2>1
<1>6. Quoted!BlockEnd(t, i, n) =
        IF T = {} \/ t[Quoted!Min(T) - 1] = "/" THEN Past(T)
        ELSE IF C = {} THEN Len(t) + 1
        ELSE Past(Quoted!Occurrences(t, Quoted!Min(C) + Len(Quoted!CloseOf(n)), <<">">>))
  BY DEF Quoted!BlockEnd
<1> HIDE DEF Past, C, T
<1> QED
  BY <1>1, <1>3, <1>5, <1>6

Kept(t, r, i) == IF i > Len(t) THEN <<>>
                 ELSE IF Quoted!OpenedAt(t, i) # {} THEN r[BlockOf(t, i)]
                 ELSE <<t[i]>> \o r[i + 1]

LEMMA SanitizeLoop ==
  ASSUME NEW t \in Phrase
  PROVE  \E r \in [1 .. Len(t) + 1 -> Phrase] :
            Quoted!Sanitize(t) = r[1] /\ \A i \in 1 .. Len(t) + 1 : r[i] = Kept(t, r, i)
<1>1. Len(t) \in Nat
  BY TextLength
<1>2. \A i \in 1 .. Len(t) : Quoted!OpenedAt(t, i) # {} => BlockOf(t, i) \in i + 1 .. Len(t) + 1
  <2> SUFFICES ASSUME NEW i \in 1 .. Len(t), Quoted!OpenedAt(t, i) # {}
               PROVE  BlockOf(t, i) \in i + 1 .. Len(t) + 1
    OBVIOUS
  <2> DEFINE n == CHOOSE n \in Quoted!OpenedAt(t, i) : TRUE
  <2>1. n \in PROTECTED_FENCES
    BY DEF Quoted!OpenedAt
  <2> HIDE DEF n
  <2>2. Quoted!BlockEnd(t, i, n) \in i + 1 .. Len(t) + 1
    BY <2>1, BlockEndsLater
  <2> QED
    BY <2>2 DEF n, BlockOf
<1> DEFINE From(k) == Len(t) + 1 - k .. Len(t) + 1
           Good(k, r) == r \in [From(k) -> Phrase] /\ \A i \in From(k) : r[i] = Kept(t, r, i)
           S == {k \in Nat : k > Len(t) \/ \E r : Good(k, r)}
<1>3. 0 \in S
  <2> DEFINE r == [i \in From(0) |-> <<>>]
  <2>1. \A i \in From(0) : i = Len(t) + 1 /\ i > Len(t)
    BY <1>1
  <2>2. <<>> \in Phrase
    BY EmptySeq DEF Phrase
  <2>3. Good(0, r)
    BY <2>1, <2>2 DEF Kept
  <2> HIDE DEF Good
  <2> QED
    BY <2>3
<1>4. \A k \in Nat : k \in S => k + 1 \in S
  <2> SUFFICES ASSUME NEW k \in Nat, NEW r, Good(k, r), k + 1 <= Len(t)
               PROVE  \E q : Good(k + 1, q)
    <3> HIDE DEF Good
    <3> QED
      BY <1>1
  <2> DEFINE j == Len(t) - k
  <2>1. /\ j \in 1 .. Len(t) /\ j = Len(t) + 1 - (k + 1) /\ j \notin From(k) /\ j + 1 \in From(k)
        /\ \A i \in From(k + 1) : i = j \/ i \in From(k)
        /\ \A i \in From(k) : i \in 1 .. Len(t) + 1 /\ i \in From(k + 1) /\ i # j /\ i > j
        /\ j \in From(k + 1)
    BY <1>1
  <2>2. \A i \in j + 1 .. Len(t) + 1 : i \in From(k)
    BY <1>1
  <2> HIDE DEF j, From
  <2> DEFINE x == Kept(t, r, j)
             q == [i \in From(k + 1) |-> IF i = j THEN x ELSE r[i]]
  <2>3. x \in Phrase
    <3>1. ~(j > Len(t))
      BY <1>1, <2>1
    <3>2. CASE Quoted!OpenedAt(t, j) # {}
      BY <1>2, <2>1, <2>2, <3>1, <3>2 DEF Kept
    <3>3. CASE Quoted!OpenedAt(t, j) = {}
      <4>1. x = <<t[j]>> \o r[j + 1] /\ r[j + 1] \in Seq(Quoted!Symbol)
        BY <2>1, <3>1, <3>3 DEF Kept, Phrase
      <4>2. t[j] \in Quoted!Symbol
        BY <2>1, ElementOfSeq DEF Phrase
      <4>3. <<t[j]>> \in Seq(Quoted!Symbol)
        BY <4>2
      <4> QED
        BY <4>1, <4>3, ConcatProperties DEF Phrase
    <3> QED
      BY <3>2, <3>3
  <2>4. \A i \in From(k) : q[i] = r[i]
    BY <2>1
  <2>5. ASSUME NEW i \in From(k + 1) PROVE Kept(t, q, i) = Kept(t, r, i)
    <3>0. i \in 1 .. Len(t) + 1 /\ i >= j
      BY <1>1, <2>1
    <3>1. CASE i > Len(t)
      BY <3>1 DEF Kept
    <3>2. CASE ~(i > Len(t))
      <4>1. i \in 1 .. Len(t)
        BY <1>1, <3>0, <3>2
      <4>2. i + 1 \in From(k)
        BY <1>1, <2>1, <2>2, <3>0, <4>1
      <4>3. Quoted!OpenedAt(t, i) # {} => BlockOf(t, i) \in From(k)
        <5>1. Quoted!OpenedAt(t, i) # {} => BlockOf(t, i) \in i + 1 .. Len(t) + 1
          BY <1>2, <4>1
        <5> QED
          BY <1>1, <2>1, <2>2, <3>0, <4>1, <5>1
      <4> HIDE DEF q
      <4> QED
        BY <2>4, <4>2, <4>3 DEF Kept
    <3> QED
      BY <3>1, <3>2
  <2>6. \A i \in From(k + 1) : q[i] = Kept(t, r, i)
    BY <2>1
  <2>7. q \in [From(k + 1) -> Phrase]
    BY <2>1, <2>3
  <2> HIDE DEF q
  <2>8. Good(k + 1, q)
    BY <2>5, <2>6, <2>7
  <2> HIDE DEF Good
  <2> QED
    BY <2>8
<1>5. PICK r : Good(Len(t), r)
  <2> HIDE DEF Good
  <2>1. Len(t) \in S
    <3> HIDE DEF S
    <3> QED
      BY <1>1, <1>3, <1>4, AllNumbers
  <2> QED
    BY <1>1, <2>1
<1>6. From(Len(t)) = 1 .. Len(t) + 1
  BY <1>1
<1> DEFINE Loop(q) == q = [i \in 1 .. Len(t) + 1 |-> Kept(t, q, i)]
           rest == CHOOSE q : Loop(q)
<1>7. Loop(rest)
  <2>1. r = [i \in 1 .. Len(t) + 1 |-> r[i]]
    BY <1>5, <1>6
  <2>2. Loop(r)
    BY <1>5, <1>6, <2>1
  <2> HIDE DEF Loop
  <2> QED
    BY <2>2
<1>8. Quoted!Sanitize(t) = rest[1]
  BY DEF Quoted!Sanitize, Kept, BlockOf
<1> HIDE DEF rest
<1>9. \A i \in 1 .. Len(t) + 1 : rest[i] = Kept(t, rest, i)
  BY <1>7
<1>10. rest \in [1 .. Len(t) + 1 -> Phrase]
  <2>0. rest = [i \in 1 .. Len(t) + 1 |-> rest[i]]
    BY <1>7
  <2> DEFINE P(k) == \A i \in Len(t) + 1 - k .. Len(t) + 1 :
                       i \in 1 .. Len(t) + 1 => rest[i] \in Phrase
             U == {k \in Nat : P(k)}
  <2>1. P(0)
    <3>1. \A i \in Len(t) + 1 - 0 .. Len(t) + 1 : i = Len(t) + 1 /\ i > Len(t)
      BY <1>1
    <3>2. <<>> \in Phrase
      BY EmptySeq DEF Phrase
    <3> QED
      BY <1>9, <3>1, <3>2 DEF Kept
  <2>2. \A k \in Nat : P(k) => P(k + 1)
    <3> SUFFICES ASSUME NEW k \in Nat, P(k),
                        NEW i \in Len(t) + 1 - (k + 1) .. Len(t) + 1, i \in 1 .. Len(t) + 1
                 PROVE  rest[i] \in Phrase
      OBVIOUS
    <3>1. \A m \in i + 1 .. Len(t) + 1 : rest[m] \in Phrase
      <4>1. \A m \in i + 1 .. Len(t) + 1 :
              m \in Len(t) + 1 - k .. Len(t) + 1 /\ m \in 1 .. Len(t) + 1
        BY <1>1
      <4> QED
        BY <4>1
    <3> HIDE DEF P
    <3>2. CASE i > Len(t)
      BY <1>9, <3>2, EmptySeq DEF Kept, Phrase
    <3>3. CASE i <= Len(t) /\ Quoted!OpenedAt(t, i) # {}
      <4>1. i \in 1 .. Len(t) /\ ~(i > Len(t))
        BY <1>1, <3>3
      <4>2. rest[i] = rest[BlockOf(t, i)]
        BY <1>9, <3>3, <4>1 DEF Kept
      <4> QED
        BY <1>2, <3>1, <3>3, <4>1, <4>2
    <3>4. CASE i <= Len(t) /\ Quoted!OpenedAt(t, i) = {}
      <4>1. i \in 1 .. Len(t) /\ ~(i > Len(t)) /\ i + 1 \in i + 1 .. Len(t) + 1
        BY <1>1, <3>4
      <4>2. rest[i] = <<t[i]>> \o rest[i + 1] /\ rest[i + 1] \in Seq(Quoted!Symbol)
        BY <1>9, <3>1, <3>4, <4>1 DEF Kept, Phrase
      <4>3. t[i] \in Quoted!Symbol
        BY <4>1, ElementOfSeq DEF Phrase
      <4>4. <<t[i]>> \in Seq(Quoted!Symbol)
        BY <4>3
      <4> QED
        BY <4>2, <4>4, ConcatProperties DEF Phrase
    <3> QED
      BY <1>1, <3>2, <3>3, <3>4
  <2>3. P(Len(t))
    <3> HIDE DEF P
    <3>1. \A k \in Nat : k \in U => k + 1 \in U
      BY <2>2
    <3>2. 0 \in U
      BY <2>1
    <3> HIDE DEF U
    <3>3. Len(t) \in U
      BY <1>1, <3>1, <3>2, AllNumbers
    <3> QED
      BY <3>3 DEF U
  <2>4. \A i \in 1 .. Len(t) + 1 : i \in Len(t) + 1 - Len(t) .. Len(t) + 1
    BY <1>1
  <2>5. \A i \in 1 .. Len(t) + 1 : rest[i] \in Phrase
    BY <2>3, <2>4
  <2> QED
    BY <2>0, <2>5
<1> QED
  BY <1>8, <1>9, <1>10

After(t) == CHOOSE r \in [1 .. Len(t) + 1 -> Phrase] :
              Quoted!Sanitize(t) = r[1] /\ \A i \in 1 .. Len(t) + 1 : r[i] = Kept(t, r, i)

LEMMA AfterIs ==
  ASSUME NEW t \in Phrase
  PROVE  /\ After(t) \in [1 .. Len(t) + 1 -> Phrase]
         /\ Quoted!Sanitize(t) = After(t)[1]
         /\ \A i \in 1 .. Len(t) + 1 : After(t)[i] = Kept(t, After(t), i)
BY SanitizeLoop DEF After

LEMMA EndIsAfter == ASSUME NEW t \in Phrase PROVE After(t)[Len(t) + 1] = <<>>
<1>1. Len(t) + 1 \in 1 .. Len(t) + 1 /\ Len(t) + 1 > Len(t)
  BY TextLength
<1> QED
  BY <1>1, AfterIs DEF Kept

(* Where nothing is opened, everything is kept, ...                        *)
LEMMA PlainIsKept ==
  ASSUME NEW t \in Phrase, NEW q \in 1 .. Len(t) + 1, NEW p \in 1 .. q,
         \A i \in p .. q - 1 : Quoted!OpenedAt(t, i) = {}
  PROVE  After(t)[p] = SubSeq(t, p, q - 1) \o After(t)[q]
<1>1. Len(t) \in Nat
  BY TextLength
<1>2. \A i \in 1 .. Len(t) + 1 : After(t)[i] \in Seq(Quoted!Symbol)
      /\ After(t)[i] = Kept(t, After(t), i)
  BY AfterIs DEF Phrase
<1> DEFINE P(k) == q - k >= p => After(t)[q - k] = SubSeq(t, q - k, q - 1) \o After(t)[q]
           S == {k \in Nat : P(k)}
<1>3. P(0)
  <2>1. q - 0 = q /\ q - 1 < q
    BY <1>1
  <2>2. SubSeq(t, q - 0, q - 1) = <<>>
    BY <2>1, SubSeqEmpty
  <2>3. <<>> \o After(t)[q] = After(t)[q]
    BY <1>2, ConcatEmptySeq
  <2> QED
    BY <2>1, <2>2, <2>3
<1>4. ASSUME NEW k \in Nat, P(k) PROVE P(k + 1)
  <2> SUFFICES ASSUME q - (k + 1) >= p
               PROVE  After(t)[q - (k + 1)] = SubSeq(t, q - (k + 1), q - 1) \o After(t)[q]
    OBVIOUS
  <2> DEFINE j == q - (k + 1)
  <2>1. /\ j \in 1 .. Len(t) /\ j \in p .. q - 1 /\ j + 1 = q - k /\ q - k >= p
        /\ q - 1 \in j .. Len(t) /\ ~(j > Len(t)) /\ j + 1 \in 1 .. Len(t) + 1
    BY <1>1
  <2>2. After(t)[j + 1] = SubSeq(t, j + 1, q - 1) \o After(t)[q]
    BY <1>4, <2>1
  <2> HIDE DEF j, P
  <2>3. Quoted!OpenedAt(t, j) = {}
    BY <2>1
  <2>4. After(t)[j] = <<t[j]>> \o After(t)[j + 1]
    <3>1. j \in 1 .. Len(t) + 1
      BY <1>1, <2>1
    <3>2. After(t)[j] = Kept(t, After(t), j)
      BY <1>2, <3>1
    <3> QED
      BY <2>1, <2>3, <3>2 DEF Kept
  <2>5. t[j] \in Quoted!Symbol
    BY <2>1, ElementOfSeq DEF Phrase
  <2>6. <<t[j]>> \in Seq(Quoted!Symbol)
    BY <2>5
  <2>7. SubSeq(t, j + 1, q - 1) \in Seq(Quoted!Symbol)
    BY <1>1, <2>1, SomePiece DEF Phrase
  <2>8. SubSeq(t, j, q - 1) = <<t[j]>> \o SubSeq(t, j + 1, q - 1)
    BY <2>1, SubSeqRecursiveFirst DEF Phrase
  <2>9. (<<t[j]>> \o SubSeq(t, j + 1, q - 1)) \o After(t)[q] =
          <<t[j]>> \o (SubSeq(t, j + 1, q - 1) \o After(t)[q])
    <3>1. After(t)[q] \in Seq(Quoted!Symbol)
      BY <1>2
    <3> DEFINE x == <<t[j]>>
               y == SubSeq(t, j + 1, q - 1)
               z == After(t)[q]
    <3>2. x \in Seq(Quoted!Symbol) /\ y \in Seq(Quoted!Symbol) /\ z \in Seq(Quoted!Symbol)
      BY <2>6, <2>7, <3>1
    <3> SUFFICES (x \o y) \o z = x \o (y \o z)
      OBVIOUS
    <3> HIDE DEF x, y, z
    <3> QED
      BY <3>2, ConcatAssociative, SMTT(60)
  <2> SUFFICES After(t)[j] = SubSeq(t, j, q - 1) \o After(t)[q]
    BY DEF j
  <2> QED
    BY <2>2, <2>4, <2>8, <2>9
<1>5. P(q - p)
  <2>1. q - p \in Nat
    BY <1>1
  <2> HIDE DEF P
  <2>2. 0 \in S /\ \A k \in Nat : k \in S => k + 1 \in S
    BY <1>3, <1>4
  <2> HIDE DEF S
  <2>3. q - p \in S
    BY <2>1, <2>2, AllNumbers
  <2> QED
    BY <2>3 DEF S
<1>6. q - (q - p) = p /\ p >= p
  BY <1>1
<1> QED
  BY <1>5, <1>6

(* ... and where a block is opened, what it encloses goes.  Its opening    *)
(* tag ends at e.                                                          *)
TagEndsAt(t, bgn, e, n) ==
  /\ n \in Quoted!OpenedAt(t, bgn) /\ e \in bgn + Len(n) + 1 .. Len(t) /\ t[e] = ">"
  /\ \A k \in bgn + Len(n) + 1 .. e - 1 : t[k] # ">"

LEMMA BlockIsDropped ==
  ASSUME NEW t \in Phrase, NEW bgn \in 1 .. Len(t), NEW n \in Quoted!OpenedAt(t, bgn)
  PROVE  After(t)[bgn] = After(t)[Quoted!BlockEnd(t, bgn, n)]
<1>1. bgn \in 1 .. Len(t) + 1 /\ ~(bgn > Len(t)) /\ bgn \in Nat \ {0}
  BY TextLength
<1>2. (CHOOSE m \in Quoted!OpenedAt(t, bgn) : TRUE) = n
  BY <1>1, OneIsOpened
<1> QED
  BY <1>1, <1>2, AfterIs DEF Kept, BlockOf

LEMMA FirstEnd ==
  ASSUME NEW t \in Phrase, NEW i \in Nat \ {0}, NEW e \in i .. Len(t), t[e] = ">",
         \A k \in i .. e - 1 : t[k] # ">"
  PROVE  Quoted!Occurrences(t, i, <<">">>) # {} /\ Quoted!Min(Quoted!Occurrences(t, i, <<">">>)) = e
<1> DEFINE S == Quoted!Occurrences(t, i, <<">">>)
<1>1. Len(t) \in Nat
  BY TextLength
<1>2. \A k \in i .. Len(t) : k \in S <=> t[k] = ">"
  BY <1>1, SymbolIsAt, MarksAreSymbols DEF Quoted!Occurrences
<1>3. S \in SUBSET Nat /\ \A k \in S : k \in i .. Len(t)
  BY <1>1 DEF Quoted!Occurrences
<1> HIDE DEF S
<1>4. e \in S /\ S # {} /\ \A k \in S : k >= e
  BY <1>1, <1>2, <1>3
<1>5. Quoted!Min(S) \in S /\ Quoted!Min(S) <= e
  BY <1>3, <1>4, LeastIs
<1>6. Quoted!Min(S) >= e /\ Quoted!Min(S) \in Nat
  BY <1>3, <1>4, <1>5
<1> QED
  BY <1>1, <1>4, <1>5, <1>6 DEF S

LEMMA TagAloneEnds ==
  ASSUME NEW t \in Phrase, NEW bgn \in 1 .. Len(t), NEW n, NEW e, TagEndsAt(t, bgn, e, n),
        t[e - 1] = "/"
  PROVE  Quoted!BlockEnd(t, bgn, n) = e + 1
<1>1. n \in PROTECTED_FENCES /\ Len(n) \in Nat
  BY NamesAreNames DEF TagEndsAt, Quoted!OpenedAt
<1>2. bgn + Len(n) + 1 \in Nat \ {0}
  BY <1>1
<1>3. /\ Quoted!Occurrences(t, bgn + Len(n) + 1, <<">">>) # {}
      /\ Quoted!Min(Quoted!Occurrences(t, bgn + Len(n) + 1, <<">">>)) = e
  BY <1>2, FirstEnd DEF TagEndsAt
<1> QED
  BY <1>3 DEF Quoted!BlockEnd

LEMMA OpenBlockEnds ==
  ASSUME NEW t \in Phrase, NEW bgn \in 1 .. Len(t), NEW n, NEW e, TagEndsAt(t, bgn, e, n),
        t[e - 1] # "/",
         \A k \in e + 1 .. Len(t) : ~Quoted!IsAt(t, k, Quoted!CloseOf(n))
  PROVE  Quoted!BlockEnd(t, bgn, n) = Len(t) + 1
<1>1. n \in PROTECTED_FENCES /\ Len(n) \in Nat
  BY NamesAreNames DEF TagEndsAt, Quoted!OpenedAt
<1>2. bgn + Len(n) + 1 \in Nat \ {0}
  BY <1>1
<1>3. /\ Quoted!Occurrences(t, bgn + Len(n) + 1, <<">">>) # {}
      /\ Quoted!Min(Quoted!Occurrences(t, bgn + Len(n) + 1, <<">">>)) = e
  BY <1>2, FirstEnd DEF TagEndsAt
<1>4. Quoted!Occurrences(t, e + 1, Quoted!CloseOf(n)) = {}
  BY DEF Quoted!Occurrences
<1> QED
  BY <1>3, <1>4 DEF Quoted!BlockEnd

LEMMA ClosedBlockEnds ==
  ASSUME NEW t \in Phrase, NEW bgn \in 1 .. Len(t), NEW n, NEW e, TagEndsAt(t, bgn, e, n),
        t[e - 1] # "/",
         NEW c \in e + 1 .. Len(t), Quoted!IsAt(t, c, Quoted!CloseOf(n) \o <<">">>),
         \A k \in e + 1 .. c - 1 : ~Quoted!IsAt(t, k, Quoted!CloseOf(n))
  PROVE  Quoted!BlockEnd(t, bgn, n) = c + Len(n) + 3 /\ c + Len(n) + 2 <= Len(t)
<1>1. n \in PROTECTED_FENCES /\ Len(n) \in Nat \ {0} /\ Len(t) \in Nat /\ e \in Nat
  <2>1. n \in PROTECTED_FENCES
    BY DEF TagEndsAt, Quoted!OpenedAt
  <2>2. Len(n) \in Nat \ {0} /\ Len(t) \in Nat
    BY <2>1, NamesAreNames, TextLength
  <2> QED
    BY <2>1, <2>2 DEF TagEndsAt
<1>2. bgn + Len(n) + 1 \in Nat \ {0}
  BY <1>1
<1>3. /\ Quoted!Occurrences(t, bgn + Len(n) + 1, <<">">>) # {}
      /\ Quoted!Min(Quoted!Occurrences(t, bgn + Len(n) + 1, <<">">>)) = e
  BY <1>2, FirstEnd DEF TagEndsAt
<1>4. /\ c + (Len(n) + 3) - 1 <= Len(t)
      /\ \A j \in 1 .. Len(n) + 3 : t[c + j - 1] = (Quoted!CloseOf(n) \o <<">">>)[j]
  <2>1. Quoted!CloseOf(n) \o <<">">> \in Word /\ Len(Quoted!CloseOf(n) \o <<">">>) = Len(n) + 3
    BY <1>1, TagIs
  <2>2. c \in Nat \ {0}
    BY <1>1
  <2> DEFINE w == Quoted!CloseOf(n) \o <<">">>
  <2>3. Quoted!IsAt(t, c, w)
    OBVIOUS
  <2> SUFFICES /\ c + (Len(n) + 3) - 1 <= Len(t)
               /\ \A j \in 1 .. Len(n) + 3 : t[c + j - 1] = w[j]
    OBVIOUS
  <2>4. w \in Word /\ Len(w) = Len(n) + 3
    BY <2>1
  <2> HIDE DEF w
  <2> QED
    BY <2>2, <2>3, <2>4, WordIsAt
<1>5. Quoted!IsAt(t, c, Quoted!CloseOf(n))
  <2>1. Quoted!CloseOf(n) \in Word /\ Len(Quoted!CloseOf(n)) = Len(n) + 2
    BY <1>1, TagIs
  <2>2. c \in Nat \ {0} /\ c + (Len(n) + 2) - 1 <= Len(t)
    BY <1>1, <1>4
  <2>3. \A j \in 1 .. Len(n) + 2 : t[c + j - 1] = Quoted!CloseOf(n)[j]
    <3>1. \A j \in 1 .. Len(n) + 2 : j \in 1 .. Len(n) + 3
      BY <1>1
    <3>2. \A j \in 1 .. Len(n) + 2 : (Quoted!CloseOf(n) \o <<">">>)[j] = Quoted!CloseOf(n)[j]
      BY <1>1, TagIs
    <3> QED
      BY <1>4, <3>1, <3>2
  <2> QED
    BY <2>1, <2>2, <2>3, WordIsAt
<1> DEFINE C == Quoted!Occurrences(t, e + 1, Quoted!CloseOf(n))
<1>6. C # {} /\ Quoted!Min(C) = c
  <2>1. C \in SUBSET Nat /\ c \in C /\ \A k \in C : k >= c
    <3>1. \A k \in C : k \in e + 1 .. Len(t) /\ Quoted!IsAt(t, k, Quoted!CloseOf(n))
      BY DEF Quoted!Occurrences
    <3>2. c \in C
      BY <1>5 DEF Quoted!Occurrences
    <3> HIDE DEF C
    <3> QED
      BY <1>1, <3>1, <3>2
  <2> HIDE DEF C
  <2>2. Quoted!Min(C) \in C /\ Quoted!Min(C) <= c
    BY <2>1, LeastIs
  <2>3. Quoted!Min(C) \in Nat /\ Quoted!Min(C) >= c /\ C # {}
    BY <2>1, <2>2
  <2> QED
    BY <1>1, <2>2, <2>3
<1>7. /\ Quoted!Occurrences(t, c + (Len(n) + 2), <<">">>) # {}
      /\ Quoted!Min(Quoted!Occurrences(t, c + (Len(n) + 2), <<">">>)) = c + (Len(n) + 2)
  <2>1. /\ c + (Len(n) + 2) \in Nat \ {0} /\ c + (Len(n) + 2) \in c + (Len(n) + 2) .. Len(t)
        /\ c + (Len(n) + 3) - 1 = c + (Len(n) + 2) /\ Len(n) + 3 \in 1 .. Len(n) + 3
    BY <1>1, <1>4
  <2>2. t[c + (Len(n) + 2)] = ">"
    BY <1>1, <1>4, <2>1, TagIs
  <2>3. \A k \in c + (Len(n) + 2) .. c + (Len(n) + 2) - 1 : t[k] # ">"
    BY <1>1
  <2> QED
    BY <2>1, <2>2, <2>3, FirstEnd
<1>8. Quoted!BlockEnd(t, bgn, n) = c + (Len(n) + 2) + 1
  <2>1. Len(Quoted!CloseOf(n)) = Len(n) + 2
    BY <1>1, TagIs
  <2> QED
    BY <1>3, <1>6, <1>7, <2>1 DEF Quoted!BlockEnd
<1> QED
  BY <1>1, <1>4, <1>8

(* What classify_open has decided stays so, however the text goes on.      *)
LEMMA DecidedStays ==
  ASSUME NEW t \in Phrase, NEW u \in Phrase, GoesOn(t, u), NEW p \in 1 .. Len(t), t[p] = "<",
         ~Quoted!Undecided(RestFrom(t, p))
  PROVE  /\ Quoted!OpenedAt(u, p) = Quoted!OpenedAt(t, p)
         /\ Quoted!OpenedAt(t, p) # {} => Quoted!Occurrences(RestFrom(t, p), 1, <<">">>) # {}
<1> DEFINE h == RestFrom(t, p)
<1>1. Len(t) \in Nat /\ Len(u) \in Nat /\ p \in 1 .. Len(t) + 1 /\ p + 1 - 1 = p /\ p \in Nat \ {0}
  BY TextLength
<1>2. /\ h \in Phrase /\ Len(h) = Len(t) - p + 1
      /\ \A i \in 1 .. Len(t) - p + 1 : h[i] = t[p + i - 1]
  BY <1>1, RestIs
<1>3. Quoted!OpenedAt(h, 1) = Quoted!OpenedAt(t, p)
  BY <1>1, OpenedInRest
<1> HIDE DEF h
<1>4. ASSUME NEW n \in Quoted!OpenedAt(u, p), n \notin Quoted!OpenedAt(t, p)
      PROVE  Quoted!Undecided(h)
  <2>1. n \in PROTECTED_FENCES /\ Spelled(u, p, n)
    BY <1>1, <1>4, OpenedIs
  <2>2. /\ n \in Seq(Quoted!Symbol) /\ Len(n) \in Nat \ {0}
        /\ \A i \in 1 .. Len(n) : n[i] # "/"
    BY <2>1, NamesAreNames DEF Word, Phrase
  <2>3. p + Len(n) + 1 > Len(t)
    BY <1>1, <1>4, <2>1, <2>2, OpenedStays
  <2>4. \A j \in 1 .. Len(h) - 1 : h[j + 1] = n[j] /\ j \in 1 .. Len(n)
    <3> SUFFICES ASSUME NEW j \in 1 .. Len(h) - 1 PROVE h[j + 1] = n[j] /\ j \in 1 .. Len(n)
      OBVIOUS
    <3>1. /\ j + 1 \in 1 .. Len(t) - p + 1 /\ p + (j + 1) - 1 = p + j /\ j \in 1 .. Len(n)
          /\ p + j \in 1 .. Len(t)
      BY <1>1, <1>2, <2>2, <2>3
    <3>2. h[j + 1] = t[p + j] /\ u[p + j] = t[p + j]
      BY <1>2, <3>1 DEF GoesOn
    <3>3. u[p + j] = n[j]
      BY <2>1, <3>1 DEF Spelled
    <3> QED
      BY <3>1, <3>2, <3>3
  <2>5. Len(h) <= Len(n) + 1 /\ Len(h) \in Nat \ {0}
    BY <1>1, <1>2, <2>2, <2>3
  <2>6. Len(h) < 2 \/ h[2] # "/"
    <3> SUFFICES ASSUME Len(h) >= 2 PROVE h[2] # "/"
      BY <2>5
    <3>1. 1 \in 1 .. Len(h) - 1 /\ 1 + 1 = 2
      BY <2>5
    <3> QED
      BY <2>2, <2>4, <3>1
  <2>7. Quoted!IsPrefix(Tail(h), n)
    <3>1. h \in Seq(Quoted!Symbol) /\ h # <<>>
      BY <1>2, <2>5 DEF Phrase
    <3>2. /\ Tail(h) \in Seq(Quoted!Symbol) /\ Len(Tail(h)) = Len(h) - 1
          /\ \A i \in 1 .. Len(Tail(h)) : Tail(h)[i] = h[i + 1]
      BY <3>1, HeadTailProperties
    <3>3. SubSeq(Tail(h), 1, Len(Tail(h))) = Tail(h)
      BY <3>2, SubSeqFull
    <3>4. /\ SubSeq(n, 1, Len(h) - 1) \in Seq(Quoted!Symbol)
          /\ Len(SubSeq(n, 1, Len(h) - 1)) = Len(h) - 1
          /\ \A i \in 1 .. Len(h) - 1 : SubSeq(n, 1, Len(h) - 1)[i] = n[i]
      <4>1. n \in Phrase /\ 1 \in 1 .. Len(n) + 1 /\ Len(h) - 1 \in 1 - 1 .. Len(n)
            /\ Len(h) - 1 - 1 + 1 = Len(h) - 1 /\ \A i \in 1 .. Len(h) - 1 : 1 + i - 1 = i
        BY <2>2, <2>5 DEF Phrase
      <4> QED
        BY <4>1, SomePiece DEF Phrase
    <3>5. SubSeq(n, 1, Len(h) - 1) = Tail(h)
      BY <2>4, <2>5, <3>2, <3>4, SeqEqual
    <3>6. SubSeq(n, 1, Len(Tail(h))) = Tail(h) /\ Len(Tail(h)) <= Len(n)
      BY <2>2, <2>5, <3>2, <3>5
    <3> QED
      BY <3>3, <3>6 DEF Quoted!IsPrefix
  <2> QED
    BY <2>1, <2>5, <2>6, <2>7 DEF Quoted!Undecided, Quoted!MayGrow
<1>5. Quoted!OpenedAt(t, p) \subseteq Quoted!OpenedAt(u, p)
  BY <1>1, OpenedStays DEF Quoted!OpenedAt
<1>6. Quoted!OpenedAt(h, 1) # {} /\ Quoted!Occurrences(h, 1, <<">">>) = {} => Quoted!Undecided(h)
  <2> SUFFICES ASSUME Quoted!OpenedAt(h, 1) # {}, Quoted!Occurrences(h, 1, <<">">>) = {}
        PROVE Quoted!Undecided(h)
    OBVIOUS
  <2>1. PICK n \in PROTECTED_FENCES : Spelled(h, 1, n)
    BY <1>2, OpenedIs
  <2>2. n[1] # "/" /\ 1 \in 1 .. Len(n) /\ 1 + 1 = 2
    <3>1. Len(n) \in Nat \ {0} /\ \A i \in 1 .. Len(n) : n[i] # "/"
      BY NamesAreNames
    <3>2. 1 \in 1 .. Len(n)
      BY <3>1
    <3> QED
      BY <3>1, <3>2
  <2>3. h[2] # "/"
    BY <2>1, <2>2 DEF Spelled
  <2> QED
    BY <2>3 DEF Quoted!Undecided
<1> QED
  BY <1>3, <1>4, <1>5, <1>6 DEF h

-----------------------------------------------------------------------------
(* One round of the scrubber.                                              *)
ScrubState == [held : Phrase, inside : PROTECTED_FENCES \cup {<<>>}, out : Phrase, ended : BOOLEAN]

OddClose(u) ==
  \E n \in PROTECTED_FENCES, i \in DOMAIN u :
    /\ Quoted!IsAt(u, i, Quoted!CloseOf(n))
    /\ i + Len(Quoted!CloseOf(n)) <= Len(u) /\ u[i + Len(Quoted!CloseOf(n))] # ">"

Unclosed(u, from, to, n) == \A k \in from .. to : ~Quoted!IsAt(u, k, Quoted!CloseOf(n) \o <<">">>)

(* The scrubber is at p, in the block n that was opened at bgn.            *)
Within(u, bgn, e, n, p) ==
  /\ bgn \in 1 .. Len(u) /\ TagEndsAt(u, bgn, e, n) /\ u[e - 1] # "/"
  /\ e < p /\ Unclosed(u, e + 1, p - 1, n)

(* It has got as far in t as sanitize_context has when it reads u.         *)
Agrees(s, t, u, prior) ==
  \E p \in 1 .. Len(t) + 1 :
    /\ s.held = RestFrom(t, p)
    /\ IF s.inside = <<>> THEN Quoted!Sanitize(u) = (prior \o s.out) \o After(u)[p]
       ELSE \E bgn, e : /\ Within(u, bgn, e, s.inside, p)
                        /\ Quoted!Sanitize(u) = (prior \o s.out) \o After(u)[bgn]

LEMMA RestOfRest ==
  ASSUME NEW t \in Phrase, NEW p \in 1 .. Len(t) + 1, NEW k \in 1 .. Len(t) - p + 2
  PROVE  RestFrom(RestFrom(t, p), k) = RestFrom(t, p + k - 1)
<1>1. Len(t) \in Nat /\ p + k - 1 \in 1 .. Len(t) + 1
  BY TextLength
<1>2. /\ RestFrom(t, p) \in Phrase /\ Len(RestFrom(t, p)) = Len(t) - p + 1
      /\ \A i \in 1 .. Len(t) - p + 1 : RestFrom(t, p)[i] = t[p + i - 1]
  BY RestIs
<1> DEFINE h == RestFrom(t, p)
           m == p + k - 1
<1>3. /\ RestFrom(t, m) \in Phrase /\ Len(RestFrom(t, m)) = Len(t) - m + 1
      /\ \A i \in 1 .. Len(t) - m + 1 : RestFrom(t, m)[i] = t[m + i - 1]
  BY <1>1, RestIs
<1>4. /\ h \in Phrase /\ Len(h) = Len(t) - p + 1
      /\ \A i \in 1 .. Len(t) - p + 1 : h[i] = t[p + i - 1]
  BY <1>2
<1> HIDE DEF h
<1>5. k \in 1 .. Len(h) + 1
  BY <1>1, <1>4
<1>6. /\ RestFrom(h, k) \in Phrase /\ Len(RestFrom(h, k)) = Len(h) - k + 1
      /\ \A i \in 1 .. Len(h) - k + 1 : RestFrom(h, k)[i] = h[k + i - 1]
  BY <1>4, <1>5, RestIs
<1>7. Len(RestFrom(h, k)) = Len(RestFrom(t, m))
  BY <1>1, <1>3, <1>4, <1>6
<1>8. ASSUME NEW i \in 1 .. Len(RestFrom(h, k)) PROVE RestFrom(h, k)[i] = RestFrom(t, m)[i]
  <2>1. /\ i \in 1 .. Len(h) - k + 1 /\ i \in 1 .. Len(t) - m + 1
        /\ k + i - 1 \in 1 .. Len(t) - p + 1 /\ p + (k + i - 1) - 1 = m + i - 1
    BY <1>1, <1>3, <1>4, <1>6
  <2> QED
    BY <1>3, <1>4, <1>6, <2>1
<1>9. RestFrom(h, k) = RestFrom(t, m)
  BY <1>3, <1>6, <1>7, <1>8, SeqEqual DEF Phrase
<1> QED
  BY <1>9 DEF h

LEMMA FreeAgrees ==
  ASSUME NEW t, NEW u, NEW prior, NEW out, NEW x \in BOOLEAN, NEW p \in 1 .. Len(t) + 1,
         Quoted!Sanitize(u) = (prior \o out) \o After(u)[p]
  PROVE  Agrees([held |-> RestFrom(t, p), inside |-> <<>>, out |-> out, ended |-> x], t, u, prior)
<1> DEFINE s == [held |-> RestFrom(t, p), inside |-> <<>>, out |-> out, ended |-> x]
<1>1. s.held = RestFrom(t, p) /\ s.inside = <<>> /\ s.out = out
  OBVIOUS
<1> HIDE DEF s
<1>2. Agrees(s, t, u, prior)
  BY <1>1 DEF Agrees
<1> QED
  BY <1>2 DEF s

LEMMA BlockAgrees ==
  ASSUME NEW t, NEW u, NEW prior, NEW out, NEW x \in BOOLEAN, NEW p \in 1 .. Len(t) + 1,
         NEW n, n # <<>>, NEW bgn, NEW e, Within(u, bgn, e, n, p),
         Quoted!Sanitize(u) = (prior \o out) \o After(u)[bgn]
  PROVE  Agrees([held |-> RestFrom(t, p), inside |-> n, out |-> out, ended |-> x], t, u, prior)
<1> DEFINE s == [held |-> RestFrom(t, p), inside |-> n, out |-> out, ended |-> x]
<1>1. s.held = RestFrom(t, p) /\ s.inside = n /\ s.out = out
  OBVIOUS
<1> HIDE DEF s
<1>2. Agrees(s, t, u, prior)
  BY <1>1 DEF Agrees
<1> QED
  BY <1>2 DEF s

(* A closing tag is whole, unless the text ends before.                    *)
LEMMA HalfIsWhole ==
  ASSUME NEW u \in Phrase, ~OddClose(u), NEW n \in PROTECTED_FENCES, NEW k \in 1 .. Len(u),
         Quoted!IsAt(u, k, Quoted!CloseOf(n)), k + Len(n) + 2 <= Len(u)
  PROVE  Quoted!IsAt(u, k, Quoted!CloseOf(n) \o <<">">>)
<1>1. Len(u) \in Nat /\ Len(n) \in Nat \ {0} /\ k \in Nat \ {0} /\ k \in DOMAIN u
  <2>1. DOMAIN u = 1 .. Len(u)
    BY LenProperties DEF Phrase
  <2>2. Len(n) \in Nat \ {0} /\ Len(u) \in Nat
    BY NamesAreNames, TextLength
  <2> QED
    BY <2>1, <2>2
<1>2. /\ Quoted!CloseOf(n) \in Word /\ Len(Quoted!CloseOf(n)) = Len(n) + 2
      /\ Quoted!CloseOf(n) \o <<">">> \in Word /\ Len(Quoted!CloseOf(n) \o <<">">>) = Len(n) + 3
      /\ (Quoted!CloseOf(n) \o <<">">>)[Len(n) + 3] = ">"
      /\ \A j \in 1 .. Len(n) + 2 : (Quoted!CloseOf(n) \o <<">">>)[j] = Quoted!CloseOf(n)[j]
  BY TagIs
<1>3. u[k + (Len(n) + 2)] = ">"
  BY <1>1, <1>2 DEF OddClose
<1> DEFINE c == Quoted!CloseOf(n)
           w == Quoted!CloseOf(n) \o <<">">>
<1>4. /\ c \in Word /\ Len(c) = Len(n) + 2 /\ w \in Word /\ Len(w) = Len(n) + 3
      /\ w[Len(n) + 3] = ">" /\ \A j \in 1 .. Len(n) + 2 : w[j] = c[j]
  BY <1>2
<1>5. Quoted!IsAt(u, k, c)
  OBVIOUS
<1> SUFFICES Quoted!IsAt(u, k, w)
  OBVIOUS
<1> HIDE DEF c, w
<1>6. \A j \in 1 .. Len(n) + 2 : u[k + j - 1] = c[j]
  BY <1>1, <1>4, <1>5, WordIsAt
<1>7. ASSUME NEW j \in 1 .. Len(n) + 3 PROVE u[k + j - 1] = w[j]
  <2>1. CASE j = Len(n) + 3
    <3>1. k + j - 1 = k + (Len(n) + 2)
      BY <1>1, <2>1
    <3> QED
      BY <1>3, <1>4, <2>1, <3>1
  <2>2. CASE j # Len(n) + 3
    <3>1. j \in 1 .. Len(n) + 2
      BY <1>1, <2>2
    <3> QED
      BY <1>4, <1>6, <3>1
  <2> QED
    BY <2>1, <2>2
<1>8. k + (Len(n) + 3) - 1 <= Len(u)
  BY <1>1
<1> QED
  BY <1>1, <1>4, <1>7, <1>8, WordIsAt

LEMMA OverlapIs ==
  ASSUME NEW h \in Phrase, NEW w \in Word
  PROVE  /\ Quoted!Overlap(h, w) \in 0 .. Len(h) /\ Quoted!Overlap(h, w) < Len(w)
         /\ \A x \in 1 .. Len(h) :
              x < Len(w) /\ (\A j \in 1 .. x : h[Len(h) - x + j] = w[j]) =>
                    x <= Quoted!Overlap(h, w)
<1>1. Len(h) \in Nat /\ Len(w) \in Nat \ {0} /\ w \in Phrase
  BY TextLength, EmptySeq DEF Word, Phrase
<1> DEFINE most == Quoted!Min({Len(h), Len(w) - 1})
           S == {k \in 0 .. most : SubSeq(h, Len(h) - k + 1, Len(h)) = SubSeq(w, 1, k)}
<1>2. most \in Nat /\ most <= Len(h) /\ most <= Len(w) - 1 /\ (most = Len(h) \/ most = Len(w) - 1)
  <2> DEFINE T == {Len(h), Len(w) - 1}
  <2>1. T \in SUBSET Nat /\ T # {}
    BY <1>1
  <2>2. Quoted!Min(T) \in T /\ \A k \in T : Quoted!Min(T) <= k
    BY <2>1, LeastIs
  <2> QED
    BY <1>1, <2>1, <2>2
<1> HIDE DEF most
<1>3. 0 \in S
  <2>1. SubSeq(h, Len(h) - 0 + 1, Len(h)) = <<>> /\ SubSeq(w, 1, 0) = <<>>
    BY <1>1, SubSeqEmpty
  <2> QED
    BY <1>2, <2>1
<1>4. S \in SUBSET (0 .. most) /\ S # {}
  BY <1>3
<1>5. Quoted!Max(S) \in S /\ \A k \in S : Quoted!Max(S) >= k
  <2> HIDE DEF S
  <2> QED
    BY <1>2, <1>4, GreatestIs
<1>6. Quoted!Overlap(h, w) = Quoted!Max(S)
  BY DEF Quoted!Overlap, most
<1>7. ASSUME NEW x \in 1 .. Len(h), x < Len(w), \A j \in 1 .. x : h[Len(h) - x + j] = w[j]
      PROVE  x \in S
  <2>1. x \in 0 .. most
    BY <1>1, <1>2, <1>7
  <2>2. /\ SubSeq(h, Len(h) - x + 1, Len(h)) \in Phrase
        /\ Len(SubSeq(h, Len(h) - x + 1, Len(h))) = x
        /\ \A j \in 1 .. x : SubSeq(h, Len(h) - x + 1, Len(h))[j] = h[Len(h) - x + j]
    <3>1. /\ Len(h) - x + 1 \in 1 .. Len(h) + 1 /\ Len(h) \in (Len(h) - x + 1) - 1 .. Len(h)
          /\ Len(h) - (Len(h) - x + 1) + 1 = x
          /\ \A j \in 1 .. x : (Len(h) - x + 1) + j - 1 = Len(h) - x + j
      BY <1>1
    <3> QED
      BY <3>1, SomePiece
  <2>3. /\ SubSeq(w, 1, x) \in Phrase /\ Len(SubSeq(w, 1, x)) = x
        /\ \A j \in 1 .. x : SubSeq(w, 1, x)[j] = w[j]
    <3>1. /\ 1 \in 1 .. Len(w) + 1 /\ x \in 1 - 1 .. Len(w) /\ x - 1 + 1 = x
          /\ \A j \in 1 .. x : 1 + j - 1 = j
      BY <1>1, <1>7
    <3> QED
      BY <1>1, <3>1, SomePiece
  <2> DEFINE fst == SubSeq(h, Len(h) - x + 1, Len(h))
             c == SubSeq(w, 1, x)
  <2>4. fst \in Seq(Quoted!Symbol) /\ c \in Seq(Quoted!Symbol) /\ Len(fst) = Len(c)
        /\ \A j \in 1 .. Len(fst) : fst[j] = c[j]
    BY <1>7, <2>2, <2>3 DEF Phrase
  <2>5. fst = c
    <3> HIDE DEF fst, c
    <3> QED
      BY <2>4, SeqEqual
  <2> QED
    BY <2>1, <2>5
<1>8. Quoted!Max(S) \in 0 .. most
  BY <1>5
<1> HIDE DEF S
<1>9. \A x \in 1 .. Len(h) :
        x < Len(w) /\ (\A j \in 1 .. x : h[Len(h) - x + j] = w[j]) => x <= Quoted!Max(S)
  BY <1>5, <1>7, <1>8
<1> QED
  BY <1>1, <1>2, <1>6, <1>8, <1>9

LEMMA SkipKeeps ==
  ASSUME NEW t \in Phrase, NEW u \in Phrase, GoesOn(t, u), ~OddClose(u), NEW prior,
         NEW s \in ScrubState, s.inside # <<>>, Agrees(s, t, u, prior)
  PROVE  Agrees(Quoted!SkipBlock(s), t, u, prior)
<1> DEFINE n == s.inside
           w == Quoted!CloseOf(n) \o <<">">>
<1>0. PICK p \in 1 .. Len(t) + 1 :
        /\ s.held = RestFrom(t, p)
        /\ \E bgn, e : Within(u, bgn, e, n, p)
              /\ Quoted!Sanitize(u) = (prior \o s.out) \o After(u)[bgn]
  BY DEF Agrees
<1>1. PICK bgn, e : /\ s.held = RestFrom(t, p) /\ Within(u, bgn, e, n, p)
                    /\ Quoted!Sanitize(u) = (prior \o s.out) \o After(u)[bgn]
  BY <1>0
<1>2. n \in PROTECTED_FENCES /\ n # <<>>
  BY DEF ScrubState
<1>3. /\ Len(t) \in Nat /\ Len(u) \in Nat /\ Len(t) <= Len(u)
      /\ Len(n) \in Nat \ {0}
      /\ w \in Word /\ Len(w) = Len(n) + 3
  <2>1. Len(n) \in Nat \ {0}
    BY <1>2, NamesAreNames
  <2>2. w \in Word /\ Len(w) = Len(n) + 3
    BY <1>2, TagIs
  <2> QED
    BY <2>1, <2>2, TextLength DEF GoesOn
<1>4. /\ bgn \in 1 .. Len(u) /\ TagEndsAt(u, bgn, e, n) /\ u[e - 1] # "/" /\ e < p
      /\ e \in Nat /\ \A k \in e + 1 .. p - 1 : ~Quoted!IsAt(u, k, w)
  <2>1. /\ bgn \in 1 .. Len(u) /\ TagEndsAt(u, bgn, e, n) /\ u[e - 1] # "/" /\ e < p
        /\ \A k \in e + 1 .. p - 1 : ~Quoted!IsAt(u, k, w)
    BY <1>1 DEF Within, Unclosed
  <2>2. e \in Nat
    BY <1>3, <2>1 DEF TagEndsAt
  <2> QED
    BY <2>1, <2>2
<1> DEFINE h == s.held
<1>5. h \in Phrase /\ Len(h) = Len(t) - p + 1 /\ \A i \in 1 .. Len(t) - p + 1 : h[i] = t[p + i - 1]
  BY <1>1, RestIs
<1> DEFINE C == Quoted!Occurrences(h, 1, w)
<1>6. \A i \in 1 .. Len(h) : i \in C <=> Quoted!IsAt(t, p + i - 1, w)
  <2>1. \A i \in 1 .. Len(h) : i \in C <=> Quoted!IsAt(h, i, w)
    BY DEF Quoted!Occurrences
  <2>2. \A i \in 1 .. Len(h) : i \in Nat \ {0}
    OBVIOUS
  <2> HIDE DEF w, C
  <2> QED
    BY <1>1, <1>3, <2>1, <2>2, WordInRest
<1>7. C \subseteq 1 .. Len(h)
  BY DEF Quoted!Occurrences
<1>8. Quoted!SkipBlock(s) =
        IF C # {} THEN Quoted!Scrubbing(RestFrom(h, Quoted!Min(C) + Len(w)), <<>>, s.out)
        ELSE Quoted!Scrubbed(RestFrom(h, Len(h) - Quoted!Overlap(h, w) + 1), n, s.out)
  BY DEF Quoted!SkipBlock, RestFrom
<1>9. n = s.inside /\ h = s.held
  OBVIOUS
<1>10. \A k \in 1 .. Len(t) : Quoted!IsAt(u, k, w)
      /\ k + (Len(n) + 3) - 1 <= Len(t) <=> Quoted!IsAt(t, k, w)
  <2> HIDE DEF w
  <2> SUFFICES ASSUME NEW k \in 1 .. Len(t)
               PROVE  Quoted!IsAt(u, k, w)
                     /\ k + (Len(n) + 3) - 1 <= Len(t) <=> Quoted!IsAt(t, k, w)
    OBVIOUS
  <2>1. k \in Nat \ {0}
    OBVIOUS
  <2> QED
    BY <1>3, <2>1, WordStays
<1>11. CASE C # {}
  <2> DEFINE m == Quoted!Min(C)
             c == p + m - 1
             q == c + Len(n) + 3
  <2>1. m \in C /\ \A i \in C : m <= i
    <3>1. C \in SUBSET Nat
      BY <1>7
    <3> HIDE DEF C
    <3> QED
      BY <1>11, <3>1, LeastIs
  <2>2. m \in 1 .. Len(h)
    BY <1>7, <2>1
  <2> HIDE DEF m, C, h, n
  <2>3. Quoted!IsAt(t, c, w)
    BY <1>6, <2>1, <2>2
  <2>4. c \in 1 .. Len(t) /\ c >= p /\ c \in e + 1 .. Len(u)
    BY <1>3, <1>4, <1>5, <2>2, SMTT(60)
  <2>5. c + (Len(n) + 3) - 1 <= Len(t) /\ Quoted!IsAt(u, c, w)
    BY <1>10, <2>3, <2>4
  <2>6. ASSUME NEW k \in e + 1 .. c - 1 PROVE ~Quoted!IsAt(u, k, Quoted!CloseOf(n))
    <3>1. ~Quoted!IsAt(u, k, w)
      <4>1. CASE k < p
        BY <1>3, <1>4, <2>4, <4>1
      <4>2. CASE k >= p
        <5>1. /\ k - p + 1 \in 1 .. Len(h) /\ k - p + 1 < m /\ p + (k - p + 1) - 1 = k
              /\ k \in 1 .. Len(t) /\ k + (Len(n) + 3) - 1 <= Len(t)
          BY <1>3, <1>4, <1>5, <2>2, <2>4, <2>5, <4>2
        <5>2. k - p + 1 \notin C
          BY <2>1, <2>2, <5>1
        <5>3. ~Quoted!IsAt(t, k, w)
          BY <1>6, <5>1, <5>2
        <5> QED
          BY <1>10, <5>1, <5>3
      <4> QED
        BY <1>3, <1>4, <2>4, <4>1, <4>2
    <3>2. k \in 1 .. Len(u) /\ k + Len(n) + 2 <= Len(u)
      BY <1>3, <1>4, <2>4, <2>5
    <3> QED
      BY <1>2, <3>1, <3>2, HalfIsWhole DEF n
  <2>7. Quoted!BlockEnd(u, bgn, n) = q
    <3>1. Quoted!IsAt(u, c, Quoted!CloseOf(n) \o <<">">>)
      BY <2>5
    <3> HIDE DEF w, c
    <3> QED
      BY <1>4, <2>4, <2>6, <3>1, ClosedBlockEnds
  <2>8. After(u)[bgn] = After(u)[q]
    <3>1. n \in Quoted!OpenedAt(u, bgn)
      BY <1>4 DEF TagEndsAt
    <3> QED
      BY <1>4, <2>7, <3>1, BlockIsDropped
  <2>9. q \in 1 .. Len(t) + 1 /\ m + Len(w) \in 1 .. Len(t) - p + 2 /\ p + (m + Len(w)) - 1 = q
    <3> HIDE DEF w
    <3>1. p + (m + Len(w)) - 1 = q /\ c + (Len(n) + 3) - 1 = q - 1
      BY <1>3, <2>2
    <3>2. q - 1 <= Len(t)
      BY <2>5, <3>1
    <3>3. q \in 1 .. Len(t) + 1
      BY <1>3, <2>2, <3>2
    <3>4. m + Len(w) \in 1 .. Len(t) - p + 2
      BY <1>3, <2>2, <3>1, <3>2
    <3> QED
      BY <3>1, <3>3, <3>4
  <2>10. RestFrom(h, m + Len(w)) = RestFrom(t, q)
    <3> HIDE DEF w, q, c
    <3> QED
      BY <1>1, <2>9, RestOfRest DEF h
  <2>11. Quoted!SkipBlock(s) = Quoted!Scrubbing(RestFrom(t, q), <<>>, s.out)
    BY <1>8, <1>11, <2>10 DEF m
  <2> HIDE DEF q, c
  <2>12. Quoted!Sanitize(u) = (prior \o s.out) \o After(u)[q]
    BY <1>1, <2>8
  <2> QED
    BY <2>9, <2>11, <2>12, FreeAgrees DEF Quoted!Scrubbing
<1>12. CASE C = {}
  <2> DEFINE o == Quoted!Overlap(h, w)
             q == Len(t) - o + 1
  <2>1. /\ o \in 0 .. Len(h) /\ o < Len(w)
        /\ \A x \in 1 .. Len(h) :
             x < Len(w) /\ (\A j \in 1 .. x : h[Len(h) - x + j] = w[j]) => x <= o
    <3> HIDE DEF w, h
    <3> QED
      BY <1>3, <1>5, OverlapIs
  <2> HIDE DEF o, C, h, n, w
  <2>2. /\ q \in 1 .. Len(t) + 1 /\ q >= p /\ Len(h) - o + 1 \in 1 .. Len(t) - p + 2
        /\ p + (Len(h) - o + 1) - 1 = q
    BY <1>3, <1>5, <2>1
  <2>3. RestFrom(h, Len(h) - o + 1) = RestFrom(t, q)
    <3> HIDE DEF q
    <3> QED
      BY <1>1, <2>2, RestOfRest DEF h
  <2>4. ASSUME NEW k \in e + 1 .. q - 1 PROVE ~Quoted!IsAt(u, k, w)
    <3>1. CASE k < p
      BY <1>3, <1>4, <2>2, <3>1
    <3>2. CASE k >= p /\ k + (Len(n) + 3) - 1 <= Len(t)
      <4>1. k - p + 1 \in 1 .. Len(h) /\ p + (k - p + 1) - 1 = k /\ k \in 1 .. Len(t)
        BY <1>3, <1>4, <1>5, <2>1, <2>2, <3>2
      <4>2. ~Quoted!IsAt(t, k, w)
        BY <1>6, <1>12, <4>1
      <4> QED
        BY <1>10, <3>2, <4>1, <4>2
    <3>3. CASE k >= p /\ k + (Len(n) + 3) - 1 > Len(t)
      <4> SUFFICES ASSUME Quoted!IsAt(u, k, w) PROVE FALSE
        OBVIOUS
      <4> DEFINE x == Len(t) - k + 1
      <4>1. x \in 1 .. Len(h) /\ x < Len(w) /\ x > o /\ k \in Nat \ {0}
        BY <1>3, <1>4, <1>5, <2>1, <2>2, <3>3, SMTT(60)
      <4>2. \A j \in 1 .. Len(w) : u[k + j - 1] = w[j]
        BY <1>3, <4>1, WordIsAt
      <4>3. ASSUME NEW j \in 1 .. x PROVE h[Len(h) - x + j] = w[j]
        <5>1. /\ Len(h) - x + j \in 1 .. Len(t) - p + 1 /\ p + (Len(h) - x + j) - 1 = k + j - 1
              /\ k + j - 1 \in 1 .. Len(t) /\ j \in 1 .. Len(w)
          BY <1>3, <1>5, <3>3, <4>1
        <5>2. h[Len(h) - x + j] = t[k + j - 1] /\ u[k + j - 1] = t[k + j - 1]
          BY <1>5, <5>1 DEF GoesOn
        <5> QED
          BY <4>2, <5>1, <5>2
      <4> HIDE DEF x
      <4>4. x <= o
        BY <2>1, <4>1, <4>3
      <4> QED
        BY <2>1, <4>1, <4>4
    <3>4. k \in Nat /\ p \in Nat /\ k + (Len(n) + 3) - 1 \in Nat
      BY <1>3, <1>4, <2>2
    <3> DEFINE last == k + (Len(n) + 3) - 1
    <3>5. k < p \/ (k >= p /\ last <= Len(t)) \/ (k >= p /\ last > Len(t))
      <4>1. k \in Nat /\ p \in Nat /\ last \in Nat /\ Len(t) \in Nat
        BY <1>3, <3>4
      <4> HIDE DEF last
      <4> QED
        BY <4>1
    <3> QED
      BY <3>1, <3>2, <3>3, <3>5
  <2>5. Within(u, bgn, e, n, q)
    <3>1. e < q
      BY <1>4, <2>2
    <3> QED
      BY <1>4, <2>4, <3>1 DEF Within, Unclosed, w
  <2>6. Quoted!SkipBlock(s) = Quoted!Scrubbed(RestFrom(t, q), n, s.out)
    BY <1>8, <1>12, <2>3 DEF o
  <2> HIDE DEF q
  <2>7. n # <<>>
    BY <1>2
  <2> QED
    BY <1>1, <2>2, <2>5, <2>6, <2>7, BlockAgrees DEF Quoted!Scrubbed
<1> QED
  BY <1>11, <1>12

(* Where there is a "<", what is before it.                                *)
Angles(h) == Quoted!Occurrences(h, 1, <<"<">>)
TagOf(h)  == RestFrom(h, Quoted!Min(Angles(h)))

LEMMA FirstAngle ==
  ASSUME NEW h \in Phrase, Angles(h) # {}
  PROVE  /\ Quoted!Min(Angles(h)) \in 1 .. Len(h) /\ h[Quoted!Min(Angles(h))] = "<"
         /\ \A i \in 1 .. Quoted!Min(Angles(h)) - 1 : h[i] # "<"
         /\ TagOf(h) \in Phrase /\ Len(TagOf(h)) = Len(h) - Quoted!Min(Angles(h)) + 1
               /\ TagOf(h)[1] = "<"
<1> DEFINE S == Angles(h)
           fst == Quoted!Min(S)
<1>1. Len(h) \in Nat
  BY TextLength
<1>2. \A i \in 1 .. Len(h) : i \in S <=> h[i] = "<"
  BY <1>1, SymbolIsAt, MarksAreSymbols DEF Angles, Quoted!Occurrences
<1>3. S \subseteq 1 .. Len(h)
  BY DEF Angles, Quoted!Occurrences
<1>4. fst \in S /\ \A k \in S : fst <= k
  <2>1. S \in SUBSET Nat /\ S # {}
    BY <1>3
  <2> HIDE DEF S
  <2> QED
    BY <2>1, LeastIs
<1> HIDE DEF S, fst
<1>5. fst \in 1 .. Len(h) /\ h[fst] = "<" /\ \A i \in 1 .. fst - 1 : h[i] # "<"
  <2>1. fst \in 1 .. Len(h)
    BY <1>3, <1>4
  <2>2. ASSUME NEW i \in 1 .. fst - 1 PROVE h[i] # "<"
    <3>1. i \in 1 .. Len(h) /\ i < fst
      BY <1>1, <2>1
    <3>2. i \notin S
      BY <1>4, <2>1, <3>1
    <3> QED
      BY <1>2, <3>1, <3>2
  <2> QED
    BY <1>2, <1>4, <2>1, <2>2
<1>6. RestFrom(h, fst) \in Phrase /\ Len(RestFrom(h, fst)) = Len(h) - fst + 1
      /\ RestFrom(h, fst)[1] = "<"
  <2>1. fst \in 1 .. Len(h) + 1 /\ 1 \in 1 .. Len(h) - fst + 1 /\ fst + 1 - 1 = fst
    BY <1>1, <1>5
  <2>2. /\ RestFrom(h, fst) \in Phrase /\ Len(RestFrom(h, fst)) = Len(h) - fst + 1
        /\ \A i \in 1 .. Len(h) - fst + 1 : RestFrom(h, fst)[i] = h[fst + i - 1]
    BY <2>1, RestIs
  <2> QED
    BY <1>5, <2>1, <2>2
<1> QED
  BY <1>5, <1>6 DEF S, fst, TagOf

(* The end of the tag a text begins with.                                  *)
TagEndOf(h) == Quoted!Min(Quoted!Occurrences(h, 1, <<">">>))

LEMMA FirstTagEnd ==
  ASSUME NEW h \in Phrase, Quoted!Occurrences(h, 1, <<">">>) # {}, NEW n \in Quoted!OpenedAt(h, 1)
  PROVE  /\ TagEndOf(h) \in Len(n) + 2 .. Len(h) /\ TagEndsAt(h, 1, TagEndOf(h), n)
         /\ Len(n) \in Nat \ {0} /\ n \in PROTECTED_FENCES
<1> DEFINE S == Quoted!Occurrences(h, 1, <<">">>)
           g == TagEndOf(h)
<1>1. n \in PROTECTED_FENCES /\ Spelled(h, 1, n)
  BY OpenedIs
<1>2. Len(h) \in Nat /\ Len(n) \in Nat \ {0}
  BY <1>1, NamesAreNames, TextLength
<1>3. \A i \in 1 .. Len(h) : i \in S <=> h[i] = ">"
  BY <1>2, SymbolIsAt, MarksAreSymbols DEF Quoted!Occurrences
<1>4. S \subseteq 1 .. Len(h)
  BY DEF Quoted!Occurrences
<1>5. g \in S /\ \A k \in S : g <= k
  <2>1. S \in SUBSET Nat /\ S # {}
    BY <1>4
  <2>2. g = Quoted!Min(S)
    BY DEF TagEndOf
  <2> HIDE DEF S, g
  <2> QED
    BY <2>1, <2>2, LeastIs
<1> HIDE DEF S, g
<1>6. g \in 1 .. Len(h) /\ h[g] = ">"
  BY <1>3, <1>4, <1>5
<1>7. g >= Len(n) + 2
  <2> SUFFICES ASSUME g < Len(n) + 2 PROVE FALSE
    BY <1>2, <1>6
  <2>1. g = 1 \/ g - 1 \in 1 .. Len(n)
    BY <1>2, <1>6
  <2>2. CASE g = 1
    BY <1>1, <1>6, <2>2 DEF Spelled
  <2>3. CASE g - 1 \in 1 .. Len(n)
    <3>1. h[1 + (g - 1)] = n[g - 1] /\ 1 + (g - 1) = g
      BY <1>1, <1>6, <2>3 DEF Spelled
    <3>2. n[g - 1] # ">"
      BY <1>1, <2>3, NamesAreNames
    <3> QED
      BY <1>6, <3>1, <3>2
  <2> QED
    BY <2>1, <2>2, <2>3
<1>8. ASSUME NEW k \in 1 + Len(n) + 1 .. g - 1 PROVE h[k] # ">"
  <2>1. k \in 1 .. Len(h) /\ k < g
    BY <1>2, <1>6
  <2>2. k \notin S
    BY <1>5, <1>6, <2>1
  <2> QED
    BY <1>3, <2>1, <2>2
<1>9. g \in Len(n) + 2 .. Len(h) /\ g \in 1 + Len(n) + 1 .. Len(h)
  BY <1>2, <1>6, <1>7
<1> QED
  BY <1>1, <1>2, <1>6, <1>8, <1>9 DEF g, TagEndsAt

NextTagCases(s, r) ==
  LET h   == s.held
      tag == TagOf(h)
      before == s.out \o SubSeq(h, 1, Quoted!Min(Angles(h)) - 1)
  IN \/ Angles(h) = {} /\ r = Quoted!Scrubbed(<<>>, <<>>, s.out \o h)
     \/ /\ Angles(h) # {}
        /\ \/ Quoted!Undecided(tag) /\ r = Quoted!Scrubbed(tag, <<>>, before)
           \/ /\ ~Quoted!Undecided(tag) /\ Quoted!OpenedAt(tag, 1) = {}
              /\ r = Quoted!Scrubbing(RestFrom(tag, 2), <<>>, Append(before, "<"))
           \/ /\ ~Quoted!Undecided(tag)
              /\ \E n \in Quoted!OpenedAt(tag, 1) :
                   \/ /\ tag[TagEndOf(tag) - 1] = "/"
                      /\ r = Quoted!Scrubbing(RestFrom(tag, TagEndOf(tag) + 1), <<>>, before)
                   \/ /\ tag[TagEndOf(tag) - 1] # "/"
                      /\ r = Quoted!Scrubbing(RestFrom(tag, TagEndOf(tag) + 1), n, before)

LEMMA NextTagIs == ASSUME NEW s PROVE NextTagCases(s, Quoted!NextTag(s))
<1> DEFINE h == s.held
           tag == TagOf(h)
           before == s.out \o SubSeq(h, 1, Quoted!Min(Angles(h)) - 1)
<1>1. Quoted!NextTag(s) =
        IF Angles(h) = {} THEN Quoted!Scrubbed(<<>>, <<>>, s.out \o h)
        ELSE IF Quoted!Undecided(tag) THEN Quoted!Scrubbed(tag, <<>>, before)
        ELSE IF Quoted!OpenedAt(tag, 1) = {}
          THEN Quoted!Scrubbing(RestFrom(tag, 2), <<>>, Append(before, "<"))
        ELSE IF tag[TagEndOf(tag) - 1] = "/"
          THEN Quoted!Scrubbing(RestFrom(tag, TagEndOf(tag) + 1), <<>>, before)
        ELSE Quoted!Scrubbing(RestFrom(tag, TagEndOf(tag) + 1),
              CHOOSE n \in Quoted!OpenedAt(tag, 1) : TRUE, before)
  BY DEF Quoted!NextTag, RestFrom, TagOf, Angles, TagEndOf
<1>2. NextTagCases(s, Quoted!NextTag(s)) <=>
        \/ Angles(h) = {} /\ Quoted!NextTag(s) = Quoted!Scrubbed(<<>>, <<>>, s.out \o h)
        \/ /\ Angles(h) # {}
           /\ \/ Quoted!Undecided(tag) /\ Quoted!NextTag(s) = Quoted!Scrubbed(tag, <<>>, before)
              \/ /\ ~Quoted!Undecided(tag) /\ Quoted!OpenedAt(tag, 1) = {}
                 /\ Quoted!NextTag(s) = Quoted!Scrubbing(RestFrom(tag, 2), <<>>,
                       Append(before, "<"))
              \/ /\ ~Quoted!Undecided(tag)
                 /\ \E n \in Quoted!OpenedAt(tag, 1) :
                      \/ /\ tag[TagEndOf(tag) - 1] = "/"
                         /\ Quoted!NextTag(s) = Quoted!Scrubbing(RestFrom(tag, TagEndOf(tag) + 1),
                               <<>>, before)
                      \/ /\ tag[TagEndOf(tag) - 1] # "/"
                         /\ Quoted!NextTag(s) = Quoted!Scrubbing(RestFrom(tag, TagEndOf(tag) + 1),
                               n, before)
  BY DEF NextTagCases
<1> HIDE DEF h, tag, before
<1> QED
  BY <1>1, <1>2

LEMMA NextKeeps ==
  ASSUME NEW t \in Phrase, NEW u \in Phrase, GoesOn(t, u), ~OddClose(u), NEW prior \in Phrase,
         NEW s \in ScrubState, s.inside = <<>>, Agrees(s, t, u, prior)
  PROVE  Agrees(Quoted!NextTag(s), t, u, prior)
<1> DEFINE h == s.held
           r == Quoted!NextTag(s)
<1>1. PICK p \in 1 .. Len(t) + 1 :
        h = RestFrom(t, p) /\ Quoted!Sanitize(u) = (prior \o s.out) \o After(u)[p]
  BY DEF Agrees
<1>2. Len(t) \in Nat /\ Len(u) \in Nat /\ Len(t) <= Len(u) /\ s.out \in Phrase
  BY TextLength DEF GoesOn, ScrubState
<1>3. h \in Phrase /\ Len(h) = Len(t) - p + 1 /\ \A i \in 1 .. Len(t) - p + 1 : h[i] = t[p + i - 1]
  BY <1>1, RestIs
<1>4. NextTagCases(s, r)
  BY NextTagIs
<1> HIDE DEF r, h
(* Up to q there is nothing to remove.                                     *)
<1>5. ASSUME NEW q \in p .. Len(t) + 1, \A i \in 1 .. q - p : h[i] # "<"
      PROVE  Quoted!Sanitize(u) = (prior \o (s.out \o SubSeq(h, 1, q - p))) \o After(u)[q]
  <2>1. \A i \in p .. q - 1 : Quoted!OpenedAt(u, i) = {}
    <3> SUFFICES ASSUME NEW i \in p .. q - 1, NEW n \in Quoted!OpenedAt(u, i) PROVE FALSE
      OBVIOUS
    <3>1. i - p + 1 \in 1 .. q - p /\ p + (i - p + 1) - 1 = i /\ i \in 1 .. Len(t)
          /\ i \in Nat \ {0}
      BY <1>2, <1>5
    <3>2. h[i - p + 1] = t[i] /\ u[i] = t[i]
      BY <1>2, <1>3, <3>1 DEF GoesOn
    <3>3. u[i] = "<"
      BY <3>1, OpenedIs DEF Spelled
    <3> QED
      BY <1>5, <3>1, <3>2, <3>3
  <2>2. After(u)[p] = SubSeq(u, p, q - 1) \o After(u)[q]
    <3>1. q \in 1 .. Len(u) + 1 /\ p \in 1 .. q
      BY <1>2, <1>5
    <3> QED
      BY <2>1, <3>1, PlainIsKept
  <2> DEFINE fst == SubSeq(u, p, q - 1)
             c == SubSeq(h, 1, q - p)
             z == After(u)[q]
             o == s.out
  <2>3. fst \in Phrase /\ Len(fst) = q - p /\ \A i \in 1 .. q - p : fst[i] = u[p + i - 1]
    <3>1. p \in 1 .. Len(u) + 1 /\ q - 1 \in p - 1 .. Len(u) /\ (q - 1) - p + 1 = q - p
      BY <1>2, <1>5
    <3> QED
      BY <3>1, SomePiece
  <2>4. c \in Phrase /\ Len(c) = q - p /\ \A i \in 1 .. q - p : c[i] = h[i]
    <3>1. /\ 1 \in 1 .. Len(h) + 1 /\ q - p \in 1 - 1 .. Len(h) /\ (q - p) - 1 + 1 = q - p
          /\ \A i \in 1 .. q - p : 1 + i - 1 = i
      BY <1>2, <1>3, <1>5
    <3> QED
      BY <1>3, <3>1, SomePiece
  <2>5. z \in Phrase
    <3>1. q \in 1 .. Len(u) + 1
      BY <1>2, <1>5
    <3> QED
      BY <3>1, AfterIs
  <2> HIDE DEF fst, c, z, o
  <2>6. \A i \in 1 .. q - p : fst[i] = c[i]
    <3> SUFFICES ASSUME NEW i \in 1 .. q - p PROVE fst[i] = c[i]
      OBVIOUS
    <3>1. i \in 1 .. Len(t) - p + 1 /\ p + i - 1 \in 1 .. Len(t)
      BY <1>2, <1>5
    <3> QED
      BY <1>3, <2>3, <2>4, <3>1 DEF GoesOn
  <2>7. fst = c
    BY <2>3, <2>4, <2>6, SeqEqual DEF Phrase
  <2>8. (prior \o o) \o (c \o z) = (prior \o (o \o c)) \o z
    <3>1. prior \in Phrase /\ o \in Phrase /\ c \in Phrase /\ z \in Phrase
      BY <1>2, <2>4, <2>5 DEF o
    <3>2. (prior \o o) \o (c \o z) = ((prior \o o) \o c) \o z
      <4>1. prior \o o \in Phrase
        BY <3>1, Joined
      <4> QED
        BY <3>1, <4>1, Regrouped
    <3>3. (prior \o o) \o c = prior \o (o \o c)
      BY <3>1, Regrouped
    <3> QED
      BY <3>2, <3>3
  <2> QED
    BY <1>1, <2>2, <2>7, <2>8 DEF fst, c, z, o
<1>6. CASE Angles(h) = {}
  <2>1. \A i \in 1 .. Len(h) : h[i] # "<"
    <3>1. \A i \in 1 .. Len(h) : i \in Angles(h) <=> h[i] = "<"
      BY <1>3, TextLength, SymbolIsAt, MarksAreSymbols DEF Angles, Quoted!Occurrences
    <3> QED
      BY <1>6, <3>1
  <2> DEFINE q == Len(t) + 1
  <2>2. q \in p .. Len(t) + 1 /\ q - p = Len(h) /\ q \in 1 .. Len(t) + 1
    BY <1>2, <1>3
  <2>3. SubSeq(h, 1, Len(h)) = h
    BY <1>3, SubSeqFull DEF Phrase
  <2>4. RestFrom(t, q) = <<>>
    <3>1. Len(t) < Len(t) + 1
      BY <1>2
    <3> QED
      BY <1>2, <3>1, SubSeqEmpty DEF RestFrom
  <2> HIDE DEF q
  <2>5. Quoted!Sanitize(u) = (prior \o (s.out \o h)) \o After(u)[q]
    BY <1>5, <2>1, <2>2, <2>3
  <2>6. r = Quoted!Scrubbed(RestFrom(t, q), <<>>, s.out \o h)
    BY <1>4, <1>6, <2>4 DEF NextTagCases, h
  <2>7. Agrees(r, t, u, prior)
    BY <2>2, <2>5, <2>6, FreeAgrees DEF Quoted!Scrubbed
  <2> QED
    BY <2>7 DEF r
<1>7. CASE Angles(h) # {}
  <2> DEFINE fst == Quoted!Min(Angles(h))
             q == p + fst - 1
             tag == TagOf(h)
             before == s.out \o SubSeq(h, 1, fst - 1)
  <2>1. /\ fst \in 1 .. Len(h) /\ h[fst] = "<" /\ \A i \in 1 .. fst - 1 : h[i] # "<"
        /\ tag \in Phrase /\ Len(tag) = Len(h) - fst + 1 /\ tag[1] = "<"
    BY <1>3, <1>7, FirstAngle
  <2>2. tag = RestFrom(h, fst)
    BY DEF TagOf
  <2>3. /\ \/ Quoted!Undecided(tag) /\ r = Quoted!Scrubbed(tag, <<>>, before)
           \/ /\ ~Quoted!Undecided(tag) /\ Quoted!OpenedAt(tag, 1) = {}
              /\ r = Quoted!Scrubbing(RestFrom(tag, 2), <<>>, Append(before, "<"))
           \/ /\ ~Quoted!Undecided(tag)
              /\ \E n \in Quoted!OpenedAt(tag, 1) :
                   \/ /\ tag[TagEndOf(tag) - 1] = "/"
                      /\ r = Quoted!Scrubbing(RestFrom(tag, TagEndOf(tag) + 1), <<>>, before)
                   \/ /\ tag[TagEndOf(tag) - 1] # "/"
                      /\ r = Quoted!Scrubbing(RestFrom(tag, TagEndOf(tag) + 1), n, before)
    BY <1>4, <1>7 DEF NextTagCases, h
  <2> HIDE DEF fst, tag, before
  <2>4. /\ q \in p .. Len(t) + 1 /\ q \in 1 .. Len(t) /\ q \in 1 .. Len(t) + 1 /\ q - p = fst - 1
        /\ fst \in 1 .. Len(t) - p + 2
    BY <1>2, <1>3, <2>1, SMTT(60)
  <2>5. tag = RestFrom(t, q)
    <3> HIDE DEF q
    <3>1. RestFrom(RestFrom(t, p), fst) = RestFrom(t, p + fst - 1)
      BY <2>4, RestOfRest
    <3> QED
      BY <1>1, <2>2, <3>1 DEF q
  <2>6. t[q] = "<" /\ u[q] = "<"
    <3>1. fst \in 1 .. Len(t) - p + 1
      BY <1>3, <2>1
    <3>2. t[q] = "<"
      BY <1>3, <2>1, <3>1
    <3> QED
      BY <2>4, <3>2 DEF GoesOn
  <2> HIDE DEF q
  <2>7. Quoted!Sanitize(u) = (prior \o before) \o After(u)[q]
    BY <1>5, <2>1, <2>4 DEF before
  <2>8. CASE Quoted!Undecided(tag)
    <3>1. r = Quoted!Scrubbed(RestFrom(t, q), <<>>, before)
      BY <2>3, <2>5, <2>8
    <3>2. Agrees(r, t, u, prior)
      BY <2>4, <2>7, <3>1, FreeAgrees DEF Quoted!Scrubbed
    <3> QED
      BY <3>2 DEF r
  <2>9. CASE ~Quoted!Undecided(tag)
    <3>1. /\ Quoted!OpenedAt(u, q) = Quoted!OpenedAt(t, q)
          /\ Quoted!OpenedAt(t, q) # {} => Quoted!Occurrences(tag, 1, <<">">>) # {}
      BY <2>4, <2>5, <2>6, <2>9, DecidedStays
    <3>2. Quoted!OpenedAt(tag, 1) = Quoted!OpenedAt(t, q)
      <4>1. q + 1 - 1 = q
        BY <2>4
      <4> QED
        BY <2>4, <2>5, <4>1, OpenedInRest
    <3>3. CASE Quoted!OpenedAt(tag, 1) = {}
      <4>1. r = Quoted!Scrubbing(RestFrom(tag, 2), <<>>, Append(before, "<"))
        BY <2>3, <2>9, <3>3
      <4>2. q + 1 \in 1 .. Len(t) + 1 /\ 2 \in 1 .. Len(t) - q + 2 /\ q + 2 - 1 = q + 1
        BY <1>2, <2>4
      <4>3. RestFrom(tag, 2) = RestFrom(t, q + 1)
        <5>1. RestFrom(RestFrom(t, q), 2) = RestFrom(t, q + 2 - 1)
          BY <2>4, <4>2, RestOfRest
        <5> QED
          BY <2>5, <4>2, <5>1
      <4> DEFINE bgn == SubSeq(u, q, (q + 1) - 1)
                 z == After(u)[q + 1]
                 x == Append(before, "<")
      <4>4. After(u)[q] = bgn \o z
        <5>1. q + 1 \in 1 .. Len(u) + 1 /\ q \in 1 .. q + 1
          BY <1>2, <2>4
        <5>2. \A i \in q .. (q + 1) - 1 : Quoted!OpenedAt(u, i) = {}
          <6>1. \A i \in q .. (q + 1) - 1 : i = q
            BY <2>4
          <6> QED
            BY <3>1, <3>2, <3>3, <6>1
        <5> QED
          BY <5>1, <5>2, PlainIsKept
      <4>5. /\ before \in Seq(Quoted!Symbol) /\ z \in Seq(Quoted!Symbol)
            /\ bgn \in Seq(Quoted!Symbol)
            /\ x = before \o bgn /\ x \in Seq(Quoted!Symbol)
        <5>1. SubSeq(h, 1, fst - 1) \in Seq(Quoted!Symbol)
          <6>1. 1 \in 1 .. Len(h) + 1 /\ fst - 1 \in 1 - 1 .. Len(h)
            BY <1>2, <1>3, <2>1
          <6> QED
            BY <1>3, <6>1, SomePiece DEF Phrase
        <5>2. before \in Seq(Quoted!Symbol)
          BY <1>2, <5>1, ConcatProperties DEF Phrase, before
        <5>3. z \in Seq(Quoted!Symbol)
          <6>1. q + 1 \in 1 .. Len(u) + 1
            BY <1>2, <2>4
          <6> QED
            BY <6>1, AfterIs DEF Phrase
        <5>4. bgn \in Seq(Quoted!Symbol) /\ Len(bgn) = 1 /\ bgn[1] = "<"
          <6>1. /\ q \in 1 .. Len(u) + 1 /\ (q + 1) - 1 \in q - 1 .. Len(u)
                /\ ((q + 1) - 1) - q + 1 = 1 /\ q + 1 - 1 = q /\ 1 \in 1 .. 1
            BY <1>2, <2>4
          <6>2. /\ bgn \in Phrase /\ Len(bgn) = ((q + 1) - 1) - q + 1
                /\ \A i \in 1 .. ((q + 1) - 1) - q + 1 : bgn[i] = u[q + i - 1]
            BY <6>1, SomePiece
          <6> HIDE DEF bgn
          <6> QED
            BY <2>6, <6>1, <6>2 DEF Phrase
        <5> HIDE DEF bgn
        <5>5. x \in Seq(Quoted!Symbol) /\ Len(x) = Len(before) + 1
              /\ \A i \in 1 .. Len(before) + 1 : x[i] = IF i <= Len(before) THEN before[i] ELSE "<"
          <6>1. Len(before) \in Nat
            BY <5>2
          <6> QED
            BY <5>2, <6>1, MarksAreSymbols, AppendProperties
        <5> HIDE DEF x
        <5>6. /\ before \o bgn \in Seq(Quoted!Symbol) /\ Len(before \o bgn) = Len(before) + Len(bgn)
              /\ \A i \in 1 .. Len(before) + Len(bgn) :
                   (before \o bgn)[i] = IF i <= Len(before) THEN before[i] ELSE bgn[i - Len(before)]
          BY <5>2, <5>4, ConcatProperties
        <5>7. ASSUME NEW i \in 1 .. Len(x) PROVE x[i] = (before \o bgn)[i]
          <6>0. Len(before) \in Nat
            BY <5>2
          <6>1. CASE i <= Len(before)
            <7>1. i \in 1 .. Len(before) + 1 /\ i \in 1 .. Len(before) + Len(bgn)
              BY <5>4, <5>5, <6>0
            <7> QED
              BY <5>5, <5>6, <6>1, <7>1
          <6>2. CASE ~(i <= Len(before))
            <7>1. /\ i \in 1 .. Len(before) + 1 /\ i \in 1 .. Len(before) + Len(bgn)
                  /\ i - Len(before) = 1
              BY <5>4, <5>5, <6>0, <6>2
            <7> QED
              BY <5>4, <5>5, <5>6, <6>2, <7>1
          <6> QED
            BY <6>1, <6>2
        <5>8. x = before \o bgn
          BY <5>4, <5>5, <5>6, <5>7, SeqEqual
        <5> QED
          BY <5>2, <5>3, <5>4, <5>5, <5>8
      <4> HIDE DEF bgn, z, x
      <4>6. (prior \o before) \o (bgn \o z) = (prior \o x) \o z
        <5>1. prior \in Phrase /\ before \in Phrase /\ bgn \in Phrase /\ z \in Phrase
          BY <4>5 DEF Phrase
        <5>2. (prior \o before) \o (bgn \o z) = (prior \o (before \o bgn)) \o z
          <6>1. prior \o before \in Phrase
            BY <5>1, Joined
          <6>2. (prior \o before) \o (bgn \o z) = ((prior \o before) \o bgn) \o z
            BY <5>1, <6>1, Regrouped
          <6>3. (prior \o before) \o bgn = prior \o (before \o bgn)
            BY <5>1, Regrouped
          <6> QED
            BY <6>2, <6>3
        <5> QED
          BY <4>5, <5>2
      <4>7. Quoted!Sanitize(u) = (prior \o x) \o After(u)[q + 1]
        BY <2>7, <4>4, <4>6 DEF z
      <4>8. Agrees(r, t, u, prior)
        BY <4>1, <4>2, <4>3, <4>7, FreeAgrees DEF Quoted!Scrubbing, x
      <4> QED
        BY <4>8 DEF r
    <3>4. CASE Quoted!OpenedAt(tag, 1) # {}
      <4> DEFINE g == TagEndOf(tag)
                 e == q + g - 1
      <4>1. PICK n \in Quoted!OpenedAt(tag, 1) :
              \/ tag[g - 1] = "/" /\ r = Quoted!Scrubbing(RestFrom(tag, g + 1), <<>>, before)
              \/ tag[g - 1] # "/" /\ r = Quoted!Scrubbing(RestFrom(tag, g + 1), n, before)
        BY <2>3, <2>9, <3>4
      <4>2. /\ g \in Len(n) + 2 .. Len(tag) /\ TagEndsAt(tag, 1, g, n)
            /\ Len(n) \in Nat \ {0} /\ n \in PROTECTED_FENCES
        BY <2>1, <3>1, <3>2, <3>4, <4>1, FirstTagEnd
      <4> HIDE DEF g
      <4>3. /\ Len(tag) = Len(t) - q + 1 /\ \A i \in 1 .. Len(t) - q + 1 : tag[i] = t[q + i - 1]
        BY <2>4, <2>5, RestIs
      <4>4. /\ e \in q + Len(n) + 1 .. Len(u) /\ e \in 1 .. Len(t) /\ e - 1 \in 1 .. Len(t)
            /\ e + 1 \in 1 .. Len(t) + 1 /\ g + 1 \in 1 .. Len(t) - q + 2
            /\ q + (g + 1) - 1 = e + 1 /\ g - 1 \in 1 .. Len(t) - q + 1 /\ q + (g - 1) - 1 = e - 1
            /\ g \in 1 .. Len(t) - q + 1
        BY <1>2, <2>4, <4>2, <4>3
      <4>5. u[e] = ">" /\ u[e - 1] = tag[g - 1]
        <5>1. tag[g] = t[e] /\ tag[g - 1] = t[e - 1]
          BY <4>3, <4>4
        <5>2. tag[g] = ">"
          BY <4>2 DEF TagEndsAt
        <5>3. u[e] = t[e] /\ u[e - 1] = t[e - 1]
          BY <4>4 DEF GoesOn
        <5> QED
          BY <5>1, <5>2, <5>3
      <4>6. TagEndsAt(u, q, e, n)
        <5>1. n \in Quoted!OpenedAt(u, q)
          BY <3>1, <3>2
        <5>2. ASSUME NEW k \in q + Len(n) + 1 .. e - 1 PROVE u[k] # ">"
          <6>1. /\ k - q + 1 \in 1 + Len(n) + 1 .. g - 1 /\ k - q + 1 \in 1 .. Len(t) - q + 1
                /\ q + (k - q + 1) - 1 = k /\ k \in 1 .. Len(t)
            BY <1>2, <2>4, <4>2, <4>3, <4>4, SMTT(60)
          <6>2. tag[k - q + 1] = t[k] /\ u[k] = t[k]
            BY <4>3, <6>1 DEF GoesOn
          <6>3. tag[k - q + 1] # ">"
            BY <4>2, <6>1 DEF TagEndsAt
          <6> QED
            BY <6>2, <6>3
        <5> QED
          BY <4>4, <4>5, <5>1, <5>2 DEF TagEndsAt
      <4>7. RestFrom(tag, g + 1) = RestFrom(t, e + 1)
        <5>1. RestFrom(RestFrom(t, q), g + 1) = RestFrom(t, q + (g + 1) - 1)
          <6> HIDE DEF e
          <6> QED
            BY <2>4, <4>4, RestOfRest
        <5> QED
          BY <2>5, <4>4, <5>1
      <4>8. q \in 1 .. Len(u) /\ n \in Quoted!OpenedAt(u, q) /\ e \in Nat
        BY <1>2, <2>4, <4>4, <4>6 DEF TagEndsAt
      <4> HIDE DEF e
      <4>9. CASE tag[g - 1] = "/"
        <5>1. Quoted!BlockEnd(u, q, n) = e + 1
          BY <4>5, <4>6, <4>8, <4>9, TagAloneEnds
        <5>2. Quoted!Sanitize(u) = (prior \o before) \o After(u)[e + 1]
          BY <2>7, <4>8, <5>1, BlockIsDropped
        <5>3. r = Quoted!Scrubbing(RestFrom(t, e + 1), <<>>, before)
          BY <4>1, <4>7, <4>9
        <5>4. Agrees(r, t, u, prior)
          BY <4>4, <5>2, <5>3, FreeAgrees DEF Quoted!Scrubbing
        <5> QED
          BY <5>4 DEF r
      <4>10. CASE tag[g - 1] # "/"
        <5>1. Within(u, q, e, n, e + 1)
          <6>1. e < e + 1 /\ \A k \in e + 1 .. (e + 1) - 1 : FALSE
            BY <4>8
          <6> QED
            BY <4>5, <4>6, <4>8, <4>10, <6>1 DEF Within, Unclosed
        <5>2. r = Quoted!Scrubbing(RestFrom(t, e + 1), n, before)
          BY <4>1, <4>7, <4>10
        <5>3. n # <<>>
          BY <4>2, FenceAssumption
        <5>4. Agrees(r, t, u, prior)
          BY <2>7, <4>4, <5>1, <5>2, <5>3, BlockAgrees DEF Quoted!Scrubbing
        <5> QED
          BY <5>4 DEF r
      <4> QED
        BY <4>9, <4>10
    <3> QED
      BY <3>3, <3>4
  <2> QED
    BY <2>8, <2>9
<1> QED
  BY <1>6, <1>7

-----------------------------------------------------------------------------
(* When the loop ends, what is held is undecided, or less than a closing   *)
(* tag.                                                                    *)
Settled(h, n) ==
  IF n = <<>> THEN h = <<>> \/ (h # <<>> /\ h[1] = "<" /\ Quoted!Undecided(h))
  ELSE Len(h) < Len(n) + 3

Progress(s, r) ==
  /\ r \in ScrubState
  /\ \/ r.ended /\ Settled(r.held, r.inside)
     \/ ~r.ended /\ Len(r.held) < Len(s.held)

LEMMA ShorterRest ==
  ASSUME NEW h \in Phrase, NEW k \in 2 .. Len(h) + 1
  PROVE  RestFrom(h, k) \in Phrase /\ Len(RestFrom(h, k)) < Len(h) /\ Len(RestFrom(h, k)) \in Nat
<1>1. Len(h) \in Nat /\ k \in 1 .. Len(h) + 1
  BY TextLength
<1>2. RestFrom(h, k) \in Phrase /\ Len(RestFrom(h, k)) = Len(h) - k + 1
  BY <1>1, RestIs
<1> QED
  BY <1>1, <1>2

LEMMA SkipProgress ==
  ASSUME NEW s \in ScrubState, s.inside # <<>>
  PROVE  Progress(s, Quoted!SkipBlock(s))
<1> DEFINE n == s.inside
           h == s.held
           w == Quoted!CloseOf(n) \o <<">">>
           C == Quoted!Occurrences(h, 1, w)
<1>1. h \in Phrase /\ n \in PROTECTED_FENCES /\ n # <<>> /\ s.out \in Phrase /\ Len(h) \in Nat
  BY TextLength DEF ScrubState
<1>2. w \in Word /\ Len(w) = Len(n) + 3 /\ Len(n) \in Nat \ {0}
  BY <1>1, NamesAreNames, TagIs
<1>3. Quoted!SkipBlock(s) =
        IF C # {} THEN Quoted!Scrubbing(RestFrom(h, Quoted!Min(C) + Len(w)), <<>>, s.out)
        ELSE Quoted!Scrubbed(RestFrom(h, Len(h) - Quoted!Overlap(h, w) + 1), n, s.out)
  BY DEF Quoted!SkipBlock, RestFrom
<1>4. \A k \in C : k \in 1 .. Len(h) /\ Quoted!IsAt(h, k, w)
  BY DEF Quoted!Occurrences
<1>5. <<>> \in PROTECTED_FENCES \cup {<<>>} /\ n \in PROTECTED_FENCES \cup {<<>>}
  BY <1>1
<1> HIDE DEF n, h, w, C
<1>6. CASE C # {}
  <2>1. Quoted!Min(C) \in C
    <3>1. C \in SUBSET Nat
      BY <1>4
    <3> QED
      BY <1>6, <3>1, LeastIs
  <2>2. Quoted!Min(C) \in 1 .. Len(h) /\ Quoted!Min(C) + Len(w) - 1 <= Len(h)
    <3>1. Quoted!Min(C) \in 1 .. Len(h) /\ Quoted!IsAt(h, Quoted!Min(C), w)
      BY <1>4, <2>1
    <3> QED
      BY <3>1 DEF Quoted!IsAt
  <2>3. Quoted!Min(C) + Len(w) \in 2 .. Len(h) + 1
    BY <1>1, <1>2, <2>2
  <2> DEFINE x == RestFrom(h, Quoted!Min(C) + Len(w))
  <2>4. x \in Phrase /\ Len(x) < Len(h)
    BY <1>1, <2>3, ShorterRest
  <2>5. Quoted!SkipBlock(s) = Quoted!Scrubbing(x, <<>>, s.out)
    BY <1>3, <1>6
  <2> HIDE DEF x
  <2> QED
    BY <1>1, <1>5, <2>4, <2>5 DEF Progress, Quoted!Scrubbing, ScrubState, h
<1>7. CASE C = {}
  <2>1. Quoted!Overlap(h, w) \in 0 .. Len(h) /\ Quoted!Overlap(h, w) < Len(w)
    BY <1>1, <1>2, OverlapIs
  <2> DEFINE k == Len(h) - Quoted!Overlap(h, w) + 1
             x == RestFrom(h, k)
  <2>2. k \in 1 .. Len(h) + 1 /\ Len(h) - k + 1 = Quoted!Overlap(h, w)
    BY <1>1, <2>1
  <2>3. x \in Phrase /\ Len(x) = Quoted!Overlap(h, w)
    <3>1. RestFrom(h, k) \in Phrase /\ Len(RestFrom(h, k)) = Len(h) - k + 1
      <4> HIDE DEF k
      <4> QED
        BY <1>1, <2>2, RestIs
    <3> QED
      BY <2>2, <3>1
  <2>4. Quoted!SkipBlock(s) = Quoted!Scrubbed(x, n, s.out)
    BY <1>3, <1>7
  <2> HIDE DEF x
  <2>5. Len(x) < Len(n) + 3
    BY <1>2, <2>1, <2>3
  <2> QED
    BY <1>1, <1>5, <2>3, <2>4, <2>5 DEF Progress, Quoted!Scrubbed, ScrubState, Settled
<1> QED
  BY <1>6, <1>7

LEMMA NextProgress ==
  ASSUME NEW s \in ScrubState, s.inside = <<>>
  PROVE  Progress(s, Quoted!NextTag(s))
<1> DEFINE h == s.held
           r == Quoted!NextTag(s)
<1>1. h \in Phrase /\ s.out \in Phrase /\ Len(h) \in Nat
  BY TextLength DEF ScrubState
<1>2. NextTagCases(s, r)
  BY NextTagIs
<1>3. <<>> \in Phrase /\ <<>> \in PROTECTED_FENCES \cup {<<>>}
  BY EmptySeq DEF Phrase
<1> HIDE DEF r, h
<1>4. CASE Angles(h) = {}
  <2>1. r = Quoted!Scrubbed(<<>>, <<>>, s.out \o h)
    BY <1>2, <1>4 DEF NextTagCases, h
  <2>2. s.out \o h \in Phrase
    BY <1>1, Joined
  <2>3. Progress(s, r)
    BY <1>3, <2>1, <2>2 DEF Progress, Quoted!Scrubbed, ScrubState, Settled
  <2> QED
    BY <2>3 DEF r
<1>5. CASE Angles(h) # {}
  <2> DEFINE fst == Quoted!Min(Angles(h))
             tag == TagOf(h)
             before == s.out \o SubSeq(h, 1, fst - 1)
  <2>1. /\ fst \in 1 .. Len(h) /\ tag \in Phrase /\ Len(tag) = Len(h) - fst + 1 /\ tag[1] = "<"
    BY <1>1, <1>5, FirstAngle
  <2>2. /\ \/ Quoted!Undecided(tag) /\ r = Quoted!Scrubbed(tag, <<>>, before)
           \/ /\ ~Quoted!Undecided(tag) /\ Quoted!OpenedAt(tag, 1) = {}
              /\ r = Quoted!Scrubbing(RestFrom(tag, 2), <<>>, Append(before, "<"))
           \/ /\ ~Quoted!Undecided(tag)
              /\ \E n \in Quoted!OpenedAt(tag, 1) :
                   \/ /\ tag[TagEndOf(tag) - 1] = "/"
                      /\ r = Quoted!Scrubbing(RestFrom(tag, TagEndOf(tag) + 1), <<>>, before)
                   \/ /\ tag[TagEndOf(tag) - 1] # "/"
                      /\ r = Quoted!Scrubbing(RestFrom(tag, TagEndOf(tag) + 1), n, before)
    BY <1>2, <1>5 DEF NextTagCases, h
  <2>3. before \in Phrase
    <3>1. SubSeq(h, 1, fst - 1) \in Phrase
      <4>1. 1 \in 1 .. Len(h) + 1 /\ fst - 1 \in 1 - 1 .. Len(h)
        BY <1>1, <2>1
      <4> QED
        BY <1>1, <4>1, SomePiece
    <3> QED
      BY <1>1, <3>1, Joined
  <2> HIDE DEF fst, tag, before
  <2>4. Len(tag) \in Nat \ {0} /\ Len(tag) <= Len(h) /\ tag # <<>>
    BY <1>1, <2>1, EmptySeq
  <2>5. CASE Quoted!Undecided(tag)
    <3>1. r = Quoted!Scrubbed(tag, <<>>, before)
      BY <2>2, <2>5
    <3>2. Settled(tag, <<>>)
      BY <2>1, <2>4, <2>5 DEF Settled
    <3>3. Progress(s, r)
      BY <1>3, <2>1, <2>3, <3>1, <3>2 DEF Progress, Quoted!Scrubbed, ScrubState
    <3> QED
      BY <3>3 DEF r
  <2>6. ASSUME NEW k \in 2 .. Len(tag) + 1, NEW n \in PROTECTED_FENCES \cup {<<>>},
               NEW o \in Phrase, r = Quoted!Scrubbing(RestFrom(tag, k), n, o)
        PROVE  Progress(s, r)
    <3> DEFINE x == RestFrom(tag, k)
    <3>1. x \in Phrase /\ Len(x) < Len(h)
      <4>1. x \in Phrase /\ Len(x) < Len(tag) /\ Len(x) \in Nat
        BY <2>1, ShorterRest
      <4> QED
        BY <1>1, <2>4, <4>1
    <3>2. r = Quoted!Scrubbing(x, n, o)
      BY <2>6
    <3> HIDE DEF x
    <3> QED
      BY <2>6, <3>1, <3>2 DEF Progress, Quoted!Scrubbing, ScrubState, h
  <2>7. CASE ~Quoted!Undecided(tag) /\ Quoted!OpenedAt(tag, 1) = {}
    <3>1. Append(before, "<") \in Phrase /\ 2 \in 2 .. Len(tag) + 1
      BY <2>3, <2>4, MarksAreSymbols, AppendProperties DEF Phrase
    <3> QED
      BY <1>3, <2>2, <2>6, <2>7, <3>1 DEF r
  <2>8. CASE ~Quoted!Undecided(tag) /\ Quoted!OpenedAt(tag, 1) # {}
    <3>1. Quoted!Occurrences(tag, 1, <<">">>) # {}
      <4>1. Len(tag) \in Nat \ {0} /\ 1 \in 1 .. Len(tag) /\ 1 \in 1 .. Len(tag) + 1
        BY <2>4
      <4>2. RestFrom(tag, 1) = tag
        BY <2>1, SubSeqFull DEF RestFrom, Phrase
      <4>3. GoesOn(tag, tag)
        BY <4>1 DEF GoesOn
      <4> QED
        BY <2>1, <2>8, <4>1, <4>2, <4>3, DecidedStays
    <3>2. PICK n \in Quoted!OpenedAt(tag, 1) :
            \/ r = Quoted!Scrubbing(RestFrom(tag, TagEndOf(tag) + 1), <<>>, before)
            \/ r = Quoted!Scrubbing(RestFrom(tag, TagEndOf(tag) + 1), n, before)
      BY <2>2, <2>8
    <3>3. /\ TagEndOf(tag) \in Len(n) + 2 .. Len(tag) /\ Len(n) \in Nat \ {0}
          /\ n \in PROTECTED_FENCES
      BY <2>1, <3>1, FirstTagEnd
    <3>4. TagEndOf(tag) + 1 \in 2 .. Len(tag) + 1 /\ n \in PROTECTED_FENCES \cup {<<>>}
      BY <2>4, <3>3
    <3> QED
      BY <1>3, <2>3, <2>6, <3>2, <3>4 DEF r
  <2> QED
    BY <2>5, <2>7, <2>8
<1> QED
  BY <1>4, <1>5

-----------------------------------------------------------------------------
(* The loop of the scrubber, as its rounds.                                *)
LEMMA ScrubLoop ==
  ASSUME NEW h, Len(h) \in Nat, NEW name, NEW out
  PROVE  \E r : /\ r[0] = Quoted!Scrubbing(h, name, out)
                /\ \A n \in 1 .. Len(h) + 1 : r[n] = Quoted!Round(r[n - 1])
                /\ Quoted!Scrub(h, name, out) = r[Len(h) + 1]
<1> DEFINE first == Quoted!Scrubbing(h, name, out)
           Loop(k, r) == r = [n \in 0 .. k |-> IF n = 0 THEN first ELSE Quoted!Round(r[n - 1])]
           S == {k \in Nat : \E r : Loop(k, r)}
<1>0. Quoted!Scrub(h, name, out) = (CHOOSE r : Loop(Len(h) + 1, r))[Len(h) + 1]
  BY DEF Quoted!Scrub
<1> HIDE DEF first
<1>1. 0 \in S
  <2>1. Loop(0, [n \in 0 .. 0 |-> first])
    OBVIOUS
  <2> HIDE DEF Loop
  <2> QED
    BY <2>1
<1>2. \A k \in Nat : k \in S => k + 1 \in S
  <2> SUFFICES ASSUME NEW k \in Nat, NEW r, Loop(k, r) PROVE \E q : Loop(k + 1, q)
    <3> HIDE DEF Loop
    <3> QED
      OBVIOUS
  <2> DEFINE q == [n \in 0 .. k + 1 |-> IF n = k + 1 THEN Quoted!Round(r[k]) ELSE r[n]]
  <2>1. \A n \in 0 .. k : r[n] = IF n = 0 THEN first ELSE Quoted!Round(r[n - 1])
    OBVIOUS
  <2>2. \A n \in 0 .. k + 1 : q[n] = IF n = 0 THEN first ELSE Quoted!Round(q[n - 1])
    <3> SUFFICES ASSUME NEW n \in 0 .. k + 1
                 PROVE  q[n] = IF n = 0 THEN first ELSE Quoted!Round(q[n - 1])
      OBVIOUS
    <3>1. CASE n = 0
      BY <2>1, <3>1
    <3>2. CASE n = k + 1
      <4>1. n - 1 \in 0 .. k + 1 /\ n - 1 = k /\ n # 0
        BY <3>2
      <4> QED
        BY <3>2, <4>1
    <3>3. CASE n \in 1 .. k
      <4>1. n - 1 \in 0 .. k + 1 /\ n - 1 # k + 1 /\ n # k + 1 /\ n # 0 /\ n \in 0 .. k
        BY <3>3
      <4>2. q[n] = r[n] /\ q[n - 1] = r[n - 1]
        BY <4>1
      <4> QED
        BY <2>1, <4>1, <4>2
    <3> QED
      BY <3>1, <3>2, <3>3
  <2>3. q = [n \in 0 .. k + 1 |-> q[n]]
    OBVIOUS
  <2> HIDE DEF q
  <2>4. Loop(k + 1, q)
    BY <2>2, <2>3
  <2> HIDE DEF Loop
  <2> QED
    BY <2>4
<1>3. Len(h) + 1 \in S
  <2> HIDE DEF S
  <2>1. Len(h) + 1 \in Nat
    OBVIOUS
  <2> QED
    BY <1>1, <1>2, <2>1, AllNumbers
<1>4. PICK r : Loop(Len(h) + 1, r) /\ Quoted!Scrub(h, name, out) = r[Len(h) + 1]
  <2> HIDE DEF Loop
  <2>1. \E r : Loop(Len(h) + 1, r)
    BY <1>3
  <2>2. Loop(Len(h) + 1, CHOOSE r : Loop(Len(h) + 1, r))
    BY <2>1
  <2> QED
    BY <1>0, <2>2
<1>5. r[0] = first /\ \A n \in 1 .. Len(h) + 1 : r[n] = Quoted!Round(r[n - 1])
  <2>1. \A n \in 0 .. Len(h) + 1 : r[n] = IF n = 0 THEN first ELSE Quoted!Round(r[n - 1])
    BY <1>4
  <2>2. 0 \in 0 .. Len(h) + 1 /\ \A n \in 1 .. Len(h) + 1 : n \in 0 .. Len(h) + 1 /\ n # 0
    OBVIOUS
  <2> QED
    BY <2>1, <2>2
<1> QED
  BY <1>4, <1>5 DEF first

(* Every round but the last takes something off what is held.              *)
LEMMA ScrubEnds ==
  ASSUME NEW h \in Phrase, NEW name \in PROTECTED_FENCES \cup {<<>>}, NEW r,
         r[0] = Quoted!Scrubbing(h, name, <<>>),
         \A n \in 1 .. Len(h) + 1 : r[n] = Quoted!Round(r[n - 1])
  PROVE  /\ \A n \in 0 .. Len(h) + 1 : r[n] \in ScrubState
         /\ Settled(r[Len(h) + 1].held, r[Len(h) + 1].inside)
<1> DEFINE Left(s, n) == \/ s.ended /\ Settled(s.held, s.inside)
                         \/ ~s.ended /\ Len(s.held) + n <= Len(h)
           S == {n \in Nat : n <= Len(h) + 1 => r[n] \in ScrubState /\ Left(r[n], n)}
<1>1. Len(h) \in Nat
  BY TextLength
<1>2. 0 \in S
  <2>1. <<>> \in Phrase
    BY EmptySeq DEF Phrase
  <2>2. Quoted!Scrubbing(h, name, <<>>) \in ScrubState
    BY <2>1 DEF Quoted!Scrubbing, ScrubState
  <2>3. Quoted!Scrubbing(h, name, <<>>).ended = FALSE /\ Quoted!Scrubbing(h, name, <<>>).held = h
    BY DEF Quoted!Scrubbing
  <2> QED
    BY <1>1, <2>2, <2>3
<1>3. \A n \in Nat : n \in S => n + 1 \in S
  <2> SUFFICES ASSUME NEW n \in Nat, n + 1 <= Len(h) + 1, r[n] \in ScrubState, Left(r[n], n)
               PROVE  r[n + 1] \in ScrubState /\ Left(r[n + 1], n + 1)
    <3> HIDE DEF Left
    <3> QED
      BY <1>1
  <2> DEFINE s == r[n]
             z == r[n + 1]
  <2>1. z = Quoted!Round(s)
    <3>1. n + 1 \in 1 .. Len(h) + 1 /\ (n + 1) - 1 = n
      BY <1>1
    <3> QED
      BY <3>1
  <2>2. s \in ScrubState /\ Left(s, n)
    OBVIOUS
  <2> SUFFICES z \in ScrubState /\ Left(z, n + 1)
    OBVIOUS
  <2> HIDE DEF s, z
  <2>3. CASE s.ended
    BY <2>1, <2>2, <2>3 DEF Quoted!Round
  <2>4. CASE ~s.ended
    <3>1. Progress(s, z)
      BY <2>1, <2>2, <2>4, SkipProgress, NextProgress DEF Quoted!Round
    <3>2. Len(s.held) + n <= Len(h) /\ Len(s.held) \in Nat /\ Len(z.held) \in Nat
      BY <2>2, <2>4, <3>1, TextLength DEF Progress, ScrubState
    <3>3. CASE z.ended /\ Settled(z.held, z.inside)
      BY <3>1, <3>3 DEF Progress
    <3>4. CASE ~z.ended /\ Len(z.held) < Len(s.held)
      <4>1. Len(z.held) + (n + 1) <= Len(h)
        <5> DEFINE x == Len(z.held)
                   y == Len(s.held)
        <5>1. x \in Nat /\ y \in Nat /\ y + n <= Len(h) /\ x < y
          BY <3>2, <3>4
        <5> HIDE DEF x, y
        <5>2. x + (n + 1) <= Len(h)
          BY <1>1, <5>1
        <5> QED
          BY <5>2 DEF x
      <4> QED
        BY <3>1, <3>4, <4>1 DEF Progress
    <3> QED
      BY <3>1, <3>3, <3>4 DEF Progress
  <2> QED
    BY <2>3, <2>4
<1>4. \A n \in 0 .. Len(h) + 1 : r[n] \in ScrubState /\ Left(r[n], n)
  <2>1. Nat \subseteq S
    <3> HIDE DEF S
    <3> QED
      BY <1>2, <1>3, AllNumbers
  <2>2. \A n \in 0 .. Len(h) + 1 : n \in Nat /\ n <= Len(h) + 1
    BY <1>1
  <2> QED
    BY <2>1, <2>2
<1>5. Len(h) + 1 \in 0 .. Len(h) + 1
  BY <1>1
<1>6. Settled(r[Len(h) + 1].held, r[Len(h) + 1].inside)
  <2> DEFINE z == r[Len(h) + 1]
  <2>1. z \in ScrubState /\ Left(z, Len(h) + 1)
    BY <1>4, <1>5
  <2> HIDE DEF z
  <2>2. Len(z.held) \in Nat
    BY <2>1, TextLength DEF ScrubState
  <2>3. ~(Len(z.held) + (Len(h) + 1) <= Len(h))
    <3> DEFINE x == Len(z.held)
    <3>1. x \in Nat
      BY <2>2
    <3> HIDE DEF x
    <3>2. ~(x + (Len(h) + 1) <= Len(h))
      BY <1>1, <3>1
    <3> QED
      BY <3>2 DEF x
  <2>4. Settled(z.held, z.inside)
    BY <2>1, <2>3
  <2> QED
    BY <2>4 DEF z
<1> QED
  BY <1>4, <1>6

LEMMA RoundKeeps ==
  ASSUME NEW t \in Phrase, NEW u \in Phrase, GoesOn(t, u), ~OddClose(u), NEW prior \in Phrase,
         NEW s \in ScrubState, Agrees(s, t, u, prior)
  PROVE  Agrees(Quoted!Round(s), t, u, prior)
BY SkipKeeps, NextKeeps DEF Quoted!Round

LEMMA ScrubKeeps ==
  ASSUME NEW h \in Phrase, NEW name \in PROTECTED_FENCES \cup {<<>>}
  PROVE  LET z == Quoted!Scrub(h, name, <<>>)
         IN /\ z \in ScrubState /\ Settled(z.held, z.inside)
            /\ \A t, u, prior \in Phrase :
                 /\ GoesOn(t, u) /\ ~OddClose(u)
                 /\ Agrees(Quoted!Scrubbing(h, name, <<>>), t, u, prior)
                 => Agrees(z, t, u, prior)
<1>1. Len(h) \in Nat
  BY TextLength
<1>2. PICK r : /\ r[0] = Quoted!Scrubbing(h, name, <<>>)
               /\ \A n \in 1 .. Len(h) + 1 : r[n] = Quoted!Round(r[n - 1])
               /\ Quoted!Scrub(h, name, <<>>) = r[Len(h) + 1]
  BY <1>1, ScrubLoop
<1>3. /\ \A n \in 0 .. Len(h) + 1 : r[n] \in ScrubState
      /\ Settled(r[Len(h) + 1].held, r[Len(h) + 1].inside)
  BY <1>2, ScrubEnds
<1>4. ASSUME NEW t \in Phrase, NEW u \in Phrase, NEW prior \in Phrase, GoesOn(t, u), ~OddClose(u),
             Agrees(Quoted!Scrubbing(h, name, <<>>), t, u, prior)
      PROVE  Agrees(r[Len(h) + 1], t, u, prior)
  <2> DEFINE S == {n \in Nat : n <= Len(h) + 1 => Agrees(r[n], t, u, prior)}
  <2>1. 0 \in S
    BY <1>2, <1>4
  <2>2. \A n \in Nat : n \in S => n + 1 \in S
    <3> SUFFICES ASSUME NEW n \in Nat, n + 1 <= Len(h) + 1, Agrees(r[n], t, u, prior)
                 PROVE  Agrees(r[n + 1], t, u, prior)
      BY <1>1
    <3>1. n \in 0 .. Len(h) + 1 /\ n + 1 \in 1 .. Len(h) + 1 /\ (n + 1) - 1 = n
      BY <1>1
    <3>2. r[n + 1] = Quoted!Round(r[n])
      BY <1>2, <3>1
    <3>3. Agrees(Quoted!Round(r[n]), t, u, prior)
      BY <1>3, <1>4, <3>1, RoundKeeps
    <3> QED
      BY <3>2, <3>3
  <2>3. Nat \subseteq S
    <3> HIDE DEF S
    <3> QED
      BY <2>1, <2>2, AllNumbers
  <2>4. Len(h) + 1 \in Nat
    BY <1>1
  <2> QED
    BY <2>3, <2>4
<1>5. Len(h) + 1 \in 0 .. Len(h) + 1
  BY <1>1
<1> QED
  BY <1>2, <1>3, <1>4, <1>5

-----------------------------------------------------------------------------
(* What is still undecided when the text ends.                             *)
LEMMA UnclosedBlockEnds ==
  ASSUME NEW t \in Phrase, NEW bgn \in 1 .. Len(t), NEW n, NEW e, TagEndsAt(t, bgn, e, n),
        t[e - 1] # "/",
         ~OddClose(t), Unclosed(t, e + 1, Len(t), n)
  PROVE  Quoted!BlockEnd(t, bgn, n) = Len(t) + 1
<1>1. n \in PROTECTED_FENCES /\ Len(n) \in Nat \ {0} /\ Len(t) \in Nat /\ e \in Nat
  <2>1. n \in PROTECTED_FENCES
    BY DEF TagEndsAt, Quoted!OpenedAt
  <2>2. Len(n) \in Nat \ {0} /\ Len(t) \in Nat
    BY <2>1, NamesAreNames, TextLength
  <2> QED
    BY <2>1, <2>2 DEF TagEndsAt
<1>2. bgn + Len(n) + 1 \in Nat \ {0}
  BY <1>1
<1>3. /\ Quoted!Occurrences(t, bgn + Len(n) + 1, <<">">>) # {}
      /\ Quoted!Min(Quoted!Occurrences(t, bgn + Len(n) + 1, <<">">>)) = e
  BY <1>2, FirstEnd DEF TagEndsAt
<1>4. Len(Quoted!CloseOf(n)) = Len(n) + 2
  BY <1>1, TagIs
<1> DEFINE C == Quoted!Occurrences(t, e + 1, Quoted!CloseOf(n))
           m == Quoted!Min(C)
<1>5. CASE C = {}
  BY <1>3, <1>5 DEF Quoted!BlockEnd
<1>6. CASE C # {}
  <2>1. \A k \in C : k \in e + 1 .. Len(t) /\ Quoted!IsAt(t, k, Quoted!CloseOf(n))
    BY DEF Quoted!Occurrences
  <2> HIDE DEF C
  <2>2. C \in SUBSET Nat
    BY <1>1, <2>1
  <2>3. m \in C
    BY <1>6, <2>2, LeastIs
  <2> HIDE DEF m
  <2>4. m \in e + 1 .. Len(t) /\ m \in 1 .. Len(t) /\ Quoted!IsAt(t, m, Quoted!CloseOf(n))
    <3>1. m \in e + 1 .. Len(t) /\ Quoted!IsAt(t, m, Quoted!CloseOf(n))
      BY <2>1, <2>3
    <3> QED
      BY <1>1, <3>1
  <2>5. ~Quoted!IsAt(t, m, Quoted!CloseOf(n) \o <<">">>)
    BY <2>4 DEF Unclosed
  <2>6. m + Len(n) + 2 > Len(t)
    <3>1. ~(m + Len(n) + 2 <= Len(t))
      BY <1>1, <2>4, <2>5, HalfIsWhole
    <3> QED
      BY <1>1, <2>4, <3>1
  <2>7. Quoted!Occurrences(t, m + (Len(n) + 2), <<">">>) = {}
    <3>1. \A k \in m + (Len(n) + 2) .. Len(t) : FALSE
      BY <1>1, <2>4, <2>6
    <3> QED
      BY <3>1 DEF Quoted!Occurrences
  <2> QED
    BY <1>3, <1>4, <1>6, <2>7 DEF Quoted!BlockEnd, C, m
<1> QED
  BY <1>5, <1>6

FlushOf(h, n) == IF n # <<>> THEN <<>> ELSE h

LEMMA FlushEnds ==
  ASSUME NEW t \in Phrase, ~OddClose(t), NEW prior \in Phrase, NEW h \in Phrase,
         NEW n \in PROTECTED_FENCES \cup {<<>>},
         Settled(h, n), Agrees(Quoted!Scrubbing(h, n, <<>>), t, t, prior),
         n = <<>> => \A k \in 1 .. Len(h) : Quoted!OpenedAt(h, k) = {}
  PROVE  Quoted!Sanitize(t) = prior \o FlushOf(h, n)
<1> DEFINE s == Quoted!Scrubbing(h, n, <<>>)
<1>1. s.held = h /\ s.inside = n /\ s.out = <<>>
  BY DEF Quoted!Scrubbing
<1>2. prior \o s.out = prior
  BY <1>1, ConcatEmptySeq DEF Phrase
<1>3. PICK p \in 1 .. Len(t) + 1 :
        /\ h = RestFrom(t, p)
        /\ IF n = <<>> THEN Quoted!Sanitize(t) = prior \o After(t)[p]
           ELSE \E bgn, e : /\ Within(t, bgn, e, n, p)
                            /\ Quoted!Sanitize(t) = prior \o After(t)[bgn]
  BY <1>1, <1>2 DEF Agrees
<1>4. Len(t) \in Nat /\ Len(h) = Len(t) - p + 1
  BY <1>3, RestIs, TextLength
<1>5. After(t)[Len(t) + 1] = <<>>
  BY EndIsAfter
<1> HIDE DEF s
<1>6. CASE n = <<>>
  <2> DEFINE q == Len(t) + 1
  <2>1. \A i \in p .. q - 1 : Quoted!OpenedAt(t, i) = {}
    <3> SUFFICES ASSUME NEW i \in p .. q - 1 PROVE Quoted!OpenedAt(t, i) = {}
      OBVIOUS
    <3>1. i - p + 1 \in Nat \ {0} /\ p + (i - p + 1) - 1 = i /\ i - p + 1 \in 1 .. Len(h)
      BY <1>4
    <3>2. Quoted!OpenedAt(RestFrom(t, p), i - p + 1) = Quoted!OpenedAt(t, p + (i - p + 1) - 1)
      BY <3>1, OpenedInRest
    <3> QED
      BY <1>3, <1>6, <3>1, <3>2
  <2>2. q \in 1 .. Len(t) + 1 /\ p \in 1 .. q /\ q - 1 = Len(t)
    BY <1>4
  <2>3. After(t)[p] = SubSeq(t, p, q - 1) \o After(t)[q]
    <3> HIDE DEF q
    <3> QED
      BY <2>1, <2>2, PlainIsKept
  <2>4. After(t)[p] = h \o <<>>
    BY <1>3, <1>5, <2>2, <2>3 DEF RestFrom
  <2>5. h \o <<>> = h
    BY ConcatEmptySeq DEF Phrase
  <2> QED
    BY <1>3, <1>6, <2>4, <2>5 DEF FlushOf
<1>7. CASE n # <<>>
  <2>1. PICK bgn, e : Within(t, bgn, e, n, p) /\ Quoted!Sanitize(t) = prior \o After(t)[bgn]
    BY <1>3, <1>7
  <2>2. /\ bgn \in 1 .. Len(t) /\ TagEndsAt(t, bgn, e, n) /\ t[e - 1] # "/" /\ e < p
        /\ \A k \in e + 1 .. p - 1 : ~Quoted!IsAt(t, k, Quoted!CloseOf(n) \o <<">">>)
    BY <2>1 DEF Within, Unclosed
  <2>3. n \in PROTECTED_FENCES /\ Len(n) \in Nat \ {0}
        /\ Len(Quoted!CloseOf(n) \o <<">">>) = Len(n) + 3
    BY <1>7, NamesAreNames, TagIs
  <2>4. e \in Nat
    BY <1>4, <2>2, <2>3 DEF TagEndsAt
  <2>5. Len(h) < Len(n) + 3
    BY <1>7 DEF Settled
  <2>6. Unclosed(t, e + 1, Len(t), n)
    <3> SUFFICES ASSUME NEW k \in e + 1 .. Len(t), Quoted!IsAt(t, k, Quoted!CloseOf(n) \o <<">">>)
          PROVE FALSE
      BY DEF Unclosed
    <3>1. k >= p
      BY <1>4, <2>2, <2>4
    <3>2. k + (Len(n) + 3) - 1 <= Len(t)
      BY <2>3 DEF Quoted!IsAt
    <3> QED
      BY <1>4, <2>3, <2>4, <2>5, <3>1, <3>2
  <2>7. Quoted!BlockEnd(t, bgn, n) = Len(t) + 1
    BY <2>2, <2>6, UnclosedBlockEnds
  <2>8. After(t)[bgn] = <<>>
    <3>1. n \in Quoted!OpenedAt(t, bgn)
      BY <2>2 DEF TagEndsAt
    <3> QED
      BY <1>5, <2>2, <2>7, <3>1, BlockIsDropped
  <2> QED
    BY <1>7, <2>1, <2>8 DEF FlushOf
<1> QED
  BY <1>6, <1>7

-----------------------------------------------------------------------------
(* The scrubber, between two events of the stream.                         *)
FenceInv ==
  /\ block \in {"none", "open", "stopped"}
  /\ text \in Phrase /\ held \in Phrase /\ said \in Phrase
  /\ inside \in PROTECTED_FENCES \cup {<<>>}
  /\ block # "stopped" =>
       /\ Settled(held, inside)
       /\ \A u \in Phrase : GoesOn(text, u) /\ ~OddClose(u) =>
            Agrees(Quoted!Scrubbing(held, inside, <<>>), text, u, said)
  /\ block = "stopped" =>
       /\ held = <<>> /\ inside = <<>>
       /\ ~Quoted!HasOddClose /\ ~Quoted!EndsUndecided => said = Quoted!Sanitize(text)

LEMMA FlushIsRest ==
  ASSUME FenceInv, block # "stopped", ~Quoted!HasOddClose, ~Quoted!EndsUndecided
  PROVE  said \o Quoted!Flushed = Quoted!Sanitize(text)
<1>1. /\ text \in Phrase /\ held \in Phrase /\ said \in Phrase
      /\ inside \in PROTECTED_FENCES \cup {<<>>}
      /\ Settled(held, inside)
  BY DEF FenceInv
<1>2. ~OddClose(text) /\ GoesOn(text, text)
  BY <1>1, TextLength DEF Quoted!HasOddClose, OddClose, GoesOn
<1>3. Agrees(Quoted!Scrubbing(held, inside, <<>>), text, text, said)
  BY <1>1, <1>2 DEF FenceInv
<1>4. ASSUME inside = <<>>, NEW k \in 1 .. Len(held) PROVE Quoted!OpenedAt(held, k) = {}
  <2>1. held # <<>> /\ held[1] = "<" /\ Quoted!Undecided(held)
    <3>1. held # <<>>
      BY <1>1, EmptySeq
    <3> QED
      BY <1>1, <1>4, <3>1 DEF Settled
  <2> DEFINE s == Quoted!Scrubbing(held, inside, <<>>)
  <2>2. s.held = held
    BY DEF Quoted!Scrubbing
  <2>3. PICK p \in 1 .. Len(text) + 1 : held = RestFrom(text, p)
    BY <1>3, <2>2 DEF Agrees
  <2>4. /\ Len(held) = Len(text) - p + 1 /\ Len(text) \in Nat
        /\ \A i \in 1 .. Len(text) - p + 1 : held[i] = text[p + i - 1]
    BY <1>1, <2>3, RestIs, TextLength
  <2>5. DOMAIN text = 1 .. Len(text) /\ DOMAIN held = 1 .. Len(held)
    BY <1>1, LenProperties DEF Phrase
  <2>6. p \in DOMAIN text /\ text[p] = "<" /\ k \in DOMAIN held
    <3>1. 1 \in 1 .. Len(text) - p + 1 /\ p + 1 - 1 = p /\ p \in 1 .. Len(text)
      BY <2>4
    <3> QED
      BY <2>1, <2>4, <2>5, <3>1
  <2>7. held = SubSeq(text, p, Len(text))
    BY <2>3 DEF RestFrom
  <2> QED
    BY <2>1, <2>6, <2>7 DEF Quoted!EndsUndecided
<1>5. Quoted!Sanitize(text) = said \o FlushOf(held, inside)
  BY <1>1, <1>2, <1>3, <1>4, FlushEnds
<1> QED
  BY <1>5 DEF FlushOf, Quoted!Flushed

LEMMA PushedIsPrefix ==
  ASSUME FenceInv, block # "stopped", ~Quoted!HasOddClose
  PROVE  Quoted!IsPrefix(said, Quoted!Sanitize(text))
<1>1. /\ text \in Phrase /\ said \in Phrase /\ inside \in PROTECTED_FENCES \cup {<<>>}
  BY DEF FenceInv
<1>2. ~OddClose(text) /\ GoesOn(text, text)
  BY <1>1, TextLength DEF Quoted!HasOddClose, OddClose, GoesOn
<1> DEFINE s == Quoted!Scrubbing(held, inside, <<>>)
<1>3. Agrees(s, text, text, said)
  BY <1>1, <1>2 DEF FenceInv
<1>4. s.inside = inside /\ s.out = <<>> /\ said \o <<>> = said
  BY <1>1, ConcatEmptySeq DEF Quoted!Scrubbing, Phrase
<1> HIDE DEF s
<1>5. PICK z \in Phrase : Quoted!Sanitize(text) = said \o z
  <2>1. PICK p \in 1 .. Len(text) + 1 :
          IF s.inside = <<>> THEN Quoted!Sanitize(text) = said \o After(text)[p]
          ELSE \E bgn, e : Within(text, bgn, e, s.inside, p)
                /\ Quoted!Sanitize(text) = said \o After(text)[bgn]
    BY <1>3, <1>4 DEF Agrees
  <2>2. CASE s.inside = <<>>
    BY <1>1, <2>1, <2>2, AfterIs
  <2>3. CASE s.inside # <<>>
    <3>1. PICK bgn, e : Within(text, bgn, e, s.inside, p)
          /\ Quoted!Sanitize(text) = said \o After(text)[bgn]
      BY <2>1, <2>3
    <3>2. bgn \in 1 .. Len(text) + 1
      BY <1>1, <3>1, TextLength DEF Within
    <3> QED
      BY <1>1, <3>1, <3>2, AfterIs
  <2> QED
    BY <2>2, <2>3
<1> DEFINE y == said \o z
<1>6. /\ y \in Phrase /\ Len(y) = Len(said) + Len(z)
      /\ \A i \in 1 .. Len(said) + Len(z) :
           y[i] = IF i <= Len(said) THEN said[i] ELSE z[i - Len(said)]
  BY <1>1, Joined
<1>7. Len(said) \in Nat /\ Len(z) \in Nat
  BY <1>1, TextLength
<1> HIDE DEF y
<1>8. Len(said) <= Len(y) /\ SubSeq(said, 1, Len(said)) = said
  BY <1>1, <1>6, <1>7, SubSeqFull DEF Phrase
<1>9. SubSeq(y, 1, Len(said)) = said
  <2>1. 1 \in 1 .. Len(y) + 1 /\ Len(said) \in 1 - 1 .. Len(y) /\ Len(said) - 1 + 1 = Len(said)
    BY <1>6, <1>7
  <2> DEFINE x == SubSeq(y, 1, Len(said))
  <2>2. /\ x \in Phrase /\ Len(x) = Len(said) /\ \A i \in 1 .. Len(said) : x[i] = y[1 + i - 1]
    BY <1>6, <2>1, SomePiece
  <2> HIDE DEF x
  <2>3. ASSUME NEW i \in 1 .. Len(x) PROVE x[i] = said[i]
    <3>1. i \in 1 .. Len(said) /\ i \in 1 .. Len(said) + Len(z) /\ 1 + i - 1 = i /\ i <= Len(said)
      BY <1>7, <2>2
    <3> QED
      BY <1>6, <2>2, <3>1
  <2>4. x = said
    BY <1>1, <2>2, <2>3, SeqEqual DEF Phrase
  <2> QED
    BY <2>4 DEF x
<1>10. Quoted!IsPrefix(said, y)
  BY <1>8, <1>9 DEF Quoted!IsPrefix
<1> QED
  BY <1>5, <1>10 DEF y

-----------------------------------------------------------------------------
LEMMA InitFence == Quoted!Init => FenceInv
<1> SUFFICES ASSUME Quoted!Init PROVE FenceInv
  OBVIOUS
<1>1. <<>> \in Phrase /\ Len(<<>>) = 0
  BY EmptySeq DEF Phrase
<1>2. /\ block = "none" /\ text = <<>> /\ held = <<>> /\ inside = <<>> /\ said = <<>>
  BY DEF Quoted!Init
<1>3. ASSUME NEW u \in Phrase PROVE Agrees(Quoted!Scrubbing(<<>>, <<>>, <<>>), <<>>, u, <<>>)
  <2>1. 1 \in 1 .. Len(u) + 1 /\ 1 \in 1 .. Len(<<>>) + 1
    BY <1>1, TextLength
  <2> DEFINE e == <<>>
             z == After(u)[1]
  <2>2. z \in Phrase /\ Quoted!Sanitize(u) = z /\ e \in Phrase
    BY <1>1, <2>1, AfterIs
  <2>3. RestFrom(e, 1) = e
    BY <1>1 DEF RestFrom
  <2>4. e \o e = e
    BY <1>1, ConcatEmptySeq DEF Phrase
  <2>5. e \o z = z
    BY <2>2, ConcatEmptySeq DEF Phrase
  <2>6. Quoted!Sanitize(u) = (e \o e) \o After(u)[1]
    BY <2>2, <2>4, <2>5
  <2>7. Agrees([held |-> RestFrom(e, 1), inside |-> <<>>, out |-> e, ended |-> FALSE], e, u, e)
    <3> HIDE DEF e
    <3>1. 1 \in 1 .. Len(e) + 1
      BY <2>1 DEF e
    <3> QED
      BY <2>6, <3>1, FreeAgrees
  <2> QED
    BY <2>3, <2>7 DEF Quoted!Scrubbing
<1> QED
  BY <1>1, <1>2, <1>3 DEF FenceInv, Settled

LEMMA RestGoesOn ==
  ASSUME NEW t \in Phrase, NEW c \in Phrase, NEW p \in 1 .. Len(t) + 1
  PROVE  RestFrom(t \o c, p) = RestFrom(t, p) \o c
<1> DEFINE u == t \o c
           r == RestFrom(t, p)
           x == RestFrom(u, p)
           y == r \o c
<1>1. Len(t) \in Nat /\ Len(c) \in Nat
  BY TextLength
<1>2. /\ u \in Phrase /\ Len(u) = Len(t) + Len(c)
      /\ \A i \in 1 .. Len(t) + Len(c) : u[i] = IF i <= Len(t) THEN t[i] ELSE c[i - Len(t)]
  BY Joined
<1>3. r \in Phrase /\ Len(r) = Len(t) - p + 1 /\ \A i \in 1 .. Len(t) - p + 1 : r[i] = t[p + i - 1]
  BY RestIs
<1>4. /\ y \in Phrase /\ Len(y) = Len(r) + Len(c)
      /\ \A i \in 1 .. Len(r) + Len(c) : y[i] = IF i <= Len(r) THEN r[i] ELSE c[i - Len(r)]
  <2> HIDE DEF r
  <2> QED
    BY <1>3, Joined
<1>5. p \in 1 .. Len(u) + 1
  <2> HIDE DEF u
  <2> QED
    BY <1>1, <1>2
<1>6. x \in Phrase /\ Len(x) = Len(u) - p + 1 /\ \A i \in 1 .. Len(u) - p + 1 : x[i] = u[p + i - 1]
  <2> HIDE DEF u
  <2> QED
    BY <1>2, <1>5, RestIs
<1> HIDE DEF u, r, x, y
<1>7. Len(x) = Len(y) /\ Len(x) \in Nat
  BY <1>1, <1>2, <1>3, <1>4, <1>6
<1>8. ASSUME NEW i \in 1 .. Len(x) PROVE x[i] = y[i]
  <2>1. /\ i \in 1 .. Len(u) - p + 1 /\ p + i - 1 \in 1 .. Len(t) + Len(c)
        /\ i \in 1 .. Len(r) + Len(c)
    BY <1>1, <1>2, <1>3, <1>4, <1>6, <1>7
  <2>2. x[i] = u[p + i - 1]
    BY <1>6, <2>1
  <2>3. CASE i <= Len(r)
    <3>1. i \in 1 .. Len(t) - p + 1 /\ p + i - 1 <= Len(t)
      BY <1>1, <1>3, <2>3
    <3> QED
      BY <1>2, <1>3, <1>4, <2>1, <2>2, <2>3, <3>1
  <2>4. CASE ~(i <= Len(r))
    <3>1. ~(p + i - 1 <= Len(t)) /\ i - Len(r) = (p + i - 1) - Len(t)
      BY <1>1, <1>3, <2>4
    <3>2. x[i] = c[(p + i - 1) - Len(t)]
      BY <1>2, <2>1, <2>2, <3>1
    <3>3. y[i] = c[i - Len(r)]
      BY <1>4, <2>1, <2>4
    <3> QED
      BY <3>1, <3>2, <3>3
  <2> QED
    BY <2>3, <2>4
<1>9. x = y
  BY <1>4, <1>6, <1>7, <1>8, SeqEqual DEF Phrase
<1> QED
  BY <1>9 DEF x, y, u, r

(* More text: what agreed goes on agreeing, with it held.                  *)
LEMMA DeltaAgrees ==
  ASSUME NEW t \in Phrase, NEW c \in Phrase, NEW u, NEW h, NEW n, NEW prior,
         Agrees(Quoted!Scrubbing(h, n, <<>>), t, u, prior)
  PROVE  Agrees(Quoted!Scrubbing(h \o c, n, <<>>), t \o c, u, prior)
<1> DEFINE s == Quoted!Scrubbing(h, n, <<>>)
           z == Quoted!Scrubbing(h \o c, n, <<>>)
           tc == t \o c
<1>1. /\ s.held = h /\ s.inside = n /\ s.out = <<>>
      /\ z.held = h \o c /\ z.inside = n /\ z.out = <<>>
  BY DEF Quoted!Scrubbing
<1>2. Agrees(s, t, u, prior)
  OBVIOUS
<1> SUFFICES Agrees(z, tc, u, prior)
  OBVIOUS
<1> HIDE DEF s, z
<1>3. PICK p \in 1 .. Len(t) + 1 :
        /\ h = RestFrom(t, p)
        /\ IF n = <<>> THEN Quoted!Sanitize(u) = (prior \o <<>>) \o After(u)[p]
           ELSE \E bgn, e : /\ Within(u, bgn, e, n, p)
                            /\ Quoted!Sanitize(u) = (prior \o <<>>) \o After(u)[bgn]
  BY <1>1, <1>2 DEF Agrees
<1>4. p \in 1 .. Len(tc) + 1
  <2>1. Len(tc) = Len(t) + Len(c) /\ Len(t) \in Nat /\ Len(c) \in Nat
    BY Joined, TextLength
  <2> HIDE DEF tc
  <2> QED
    BY <2>1
<1>5. h \o c = RestFrom(tc, p)
  BY <1>3, RestGoesOn
<1> HIDE DEF tc
<1> QED
  BY <1>1, <1>3, <1>4, <1>5 DEF Agrees

LEMMA DeltaFence ==
  ASSUME FenceInv, NEW c \in Chunk, Quoted!BlockDelta(c)
  PROVE  FenceInv'
<1> DEFINE z == Quoted!Scrub(held \o c, inside, <<>>)
<1>1. /\ block = "open" /\ block' = "open" /\ text' = text \o c
      /\ held' = z.held /\ inside' = z.inside /\ said' = said \o z.out
  BY DEF Quoted!BlockDelta
<1>2. /\ text \in Phrase /\ held \in Phrase /\ said \in Phrase
      /\ inside \in PROTECTED_FENCES \cup {<<>>}
      /\ \A u \in Phrase : GoesOn(text, u) /\ ~OddClose(u) =>
           Agrees(Quoted!Scrubbing(held, inside, <<>>), text, u, said)
  BY <1>1 DEF FenceInv
<1>3. c \in Phrase
  BY FenceAssumption DEF Phrase
<1>4. held \o c \in Phrase /\ text \o c \in Phrase /\ Len(text) \in Nat /\ Len(c) \in Nat
  BY <1>2, <1>3, Joined, TextLength
<1>5. /\ z \in ScrubState /\ Settled(z.held, z.inside)
      /\ \A t, u, prior \in Phrase :
           /\ GoesOn(t, u) /\ ~OddClose(u)
           /\ Agrees(Quoted!Scrubbing(held \o c, inside, <<>>), t, u, prior)
           => Agrees(z, t, u, prior)
  <2> DEFINE h == held \o c
  <2>1. h \in Phrase
    BY <1>4
  <2> HIDE DEF h
  <2> QED
    BY <1>2, <2>1, ScrubKeeps DEF h
<1> HIDE DEF z
<1>6. z.held \in Phrase /\ z.inside \in PROTECTED_FENCES \cup {<<>>} /\ z.out \in Phrase
  BY <1>5 DEF ScrubState
<1>7. said \o z.out \in Phrase
  BY <1>2, <1>6, Joined
<1>8. ASSUME NEW u \in Phrase, GoesOn(text \o c, u), ~OddClose(u)
      PROVE  Agrees(Quoted!Scrubbing(z.held, z.inside, <<>>), text \o c, u, said \o z.out)
  <2>1. GoesOn(text, u)
    <3> DEFINE tc == text \o c
    <3>1. /\ Len(tc) = Len(text) + Len(c)
          /\ \A i \in 1 .. Len(text) + Len(c) :
               tc[i] = IF i <= Len(text) THEN text[i] ELSE c[i - Len(text)]
      BY <1>2, <1>3, Joined
    <3>2. GoesOn(tc, u) /\ Len(u) \in Nat
      BY <1>8, TextLength
    <3> HIDE DEF tc
    <3>3. Len(text) <= Len(u)
      BY <1>4, <3>1, <3>2 DEF GoesOn
    <3>4. ASSUME NEW i \in 1 .. Len(text) PROVE u[i] = text[i]
      <4>1. i \in 1 .. Len(text) + Len(c) /\ i <= Len(text) /\ i \in 1 .. Len(tc)
        BY <1>4, <3>1
      <4> QED
        BY <3>1, <3>2, <4>1 DEF GoesOn
    <3> QED
      BY <3>3, <3>4 DEF GoesOn
  <2>2. Agrees(Quoted!Scrubbing(held, inside, <<>>), text, u, said)
    BY <1>2, <1>8, <2>1
  <2>3. Agrees(Quoted!Scrubbing(held \o c, inside, <<>>), text \o c, u, said)
    BY <1>2, <1>3, <2>2, DeltaAgrees
  <2>4. Agrees(z, text \o c, u, said)
    BY <1>2, <1>4, <1>5, <1>8, <2>3
  <2> DEFINE s == Quoted!Scrubbing(z.held, z.inside, <<>>)
             prior == said \o z.out
             tc == text \o c
  <2>5. s.held = z.held /\ s.inside = z.inside /\ s.out = <<>>
    BY DEF Quoted!Scrubbing
  <2>6. prior \o <<>> = prior
    BY <1>7, ConcatEmptySeq DEF Phrase
  <2>7. Agrees(z, tc, u, said) /\ prior = said \o z.out
    BY <2>4
  <2> SUFFICES Agrees(s, tc, u, prior)
    OBVIOUS
  <2> HIDE DEF s, prior, tc
  <2> QED
    BY <2>5, <2>6, <2>7 DEF Agrees
<1>9. FenceInv' <=>
        /\ block' \in {"none", "open", "stopped"}
        /\ text' \in Phrase /\ held' \in Phrase /\ said' \in Phrase
        /\ inside' \in PROTECTED_FENCES \cup {<<>>}
        /\ block' # "stopped" =>
             /\ Settled(held', inside')
             /\ \A u \in Phrase : GoesOn(text', u) /\ ~OddClose(u) =>
                  Agrees(Quoted!Scrubbing(held', inside', <<>>), text', u, said')
        /\ block' = "stopped" =>
             /\ held' = <<>> /\ inside' = <<>>
             /\ ~Quoted!HasOddClose' /\ ~Quoted!EndsUndecided' => said' = Quoted!Sanitize(text')
  BY DEF FenceInv
<1> QED
  BY <1>1, <1>4, <1>5, <1>6, <1>7, <1>8, <1>9

LEMMA StopFence ==
  ASSUME FenceInv, Quoted!BlockStop
  PROVE  FenceInv'
<1>1. /\ block = "open" /\ block' = "stopped" /\ said' = said \o Quoted!Flushed
      /\ held' = <<>> /\ inside' = <<>> /\ text' = text
  BY DEF Quoted!BlockStop
<1>2. ~Quoted!HasOddClose /\ ~Quoted!EndsUndecided => said \o Quoted!Flushed = Quoted!Sanitize(text)
  BY <1>1, FlushIsRest
<1>3. Quoted!HasOddClose' = Quoted!HasOddClose /\ Quoted!EndsUndecided' = Quoted!EndsUndecided
  BY <1>1 DEF Quoted!HasOddClose, Quoted!EndsUndecided
<1>4. said \in Phrase /\ Quoted!Flushed \in Phrase /\ <<>> \in Phrase
  BY EmptySeq DEF FenceInv, Quoted!Flushed, Phrase
<1>5. said \o Quoted!Flushed \in Phrase
  BY <1>4, Joined
<1> QED
  BY <1>1, <1>2, <1>3, <1>4, <1>5 DEF FenceInv

LEMMA NextFence == FenceInv /\ [Quoted!Next]_fenceState => FenceInv'
<1> SUFFICES ASSUME FenceInv, [Quoted!Next]_fenceState PROVE FenceInv'
  OBVIOUS
<1>1. CASE Quoted!BlockStart
  <2>1. /\ block = "none" /\ block' = "open" /\ text' = text /\ held' = held /\ inside' = inside
        /\ said' = said
    BY <1>1 DEF Quoted!BlockStart
  <2> QED
    BY <2>1 DEF FenceInv
<1>2. CASE Quoted!BlockStop
  BY <1>2, StopFence
<1>3. ASSUME NEW c \in Chunk, Quoted!BlockDelta(c) PROVE FenceInv'
  BY <1>3, DeltaFence
<1>4. CASE UNCHANGED fenceState
  BY <1>4 DEF fenceState, FenceInv, Quoted!HasOddClose, Quoted!EndsUndecided
<1> QED
  BY <1>1, <1>2, <1>3, <1>4 DEF Quoted!Next

LEMMA FenceOneShot == FenceInv => Quoted!StreamIsOneShot
<1> SUFFICES ASSUME FenceInv, ~Quoted!HasOddClose
             PROVE  /\ ~Quoted!EndsUndecided => said \o Quoted!Flushed = Quoted!Sanitize(text)
                    /\ block = "open" => Quoted!IsPrefix(said, Quoted!Sanitize(text))
  BY DEF Quoted!StreamIsOneShot
<1>1. CASE block # "stopped"
  BY <1>1, FlushIsRest, PushedIsPrefix
<1>2. CASE block = "stopped"
  <2>1. Quoted!Flushed = <<>> /\ said \o <<>> = said
    BY <1>2, ConcatEmptySeq DEF FenceInv, Quoted!Flushed, Phrase
  <2> QED
    BY <1>2, <2>1 DEF FenceInv
<1> QED
  BY <1>1, <1>2

(* However the provider cuts a text into deltas, in the end the listener   *)
(* and the accumulator have what sanitize_context leaves of it, but for    *)
(* the two cases Fence names, and while the block arrives nothing has gone *)
(* out that would not stay.  For any names, deltas and length of the text. *)
THEOREM StreamOneShot == Spec => []StreamIsOneShot
<1> DEFINE Inv == part = "fence" => FenceInv
<1>1. Init => Inv
  BY InitFence DEF Init
<1>2. Inv /\ [Next]_vars => Inv'
  <2>1. [Next]_vars => part' = part
    BY DEF Next, vars, OnlyThread, OnlyBatch, OnlyMemory, OnlyPool, OnlyText, OnlyCards,
       OnlyLark, OnlySched, OnlyReply, OnlyFiles, OnlyDb, OnlyFence, OnlyTurn, OnlyPlugin,
       OnlyServer
  <2> SUFFICES ASSUME FenceInv, [Next]_vars, part = "fence" PROVE FenceInv'
    BY <2>1
  <2>2. [Quoted!Next]_fenceState
    BY DEF Next, vars, serverState
  <2> QED
    BY <2>2, NextFence
<1>3. Inv => StreamIsOneShot
  BY FenceOneShot DEF StreamIsOneShot
<1> QED
  BY <1>1, <1>2, <1>3, PTL DEF Spec
=============================================================================
