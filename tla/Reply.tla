-------------------------------- MODULE Reply --------------------------------
(***************************************************************************)
(* How the reply of one message reaches the chat: the typing listener that *)
(* streams it (crates/snaca-server/src/typing.rs), the end of              *)
(* process_message (dispatch.rs), the rows it puts into the outbox with    *)
(* their first tries and retries (outbox.rs), and the calls by which the   *)
(* Lark plugin sends and edits messages (crates/snaca-plugin-lark/         *)
(* src/main.rs).                                                           *)
(*                                                                         *)
(* A text is the sequence of its chunks, a chunk the number of the         *)
(* response it came with.  A request and its answer are separate steps,    *)
(* and a caller that gave up leaves its request with the plugin, which     *)
(* serves each request in a task of its own.  What a crash of the server   *)
(* or a lost SQL statement does to a row is the subject of Outbox; here    *)
(* every statement succeeds, and a first try has ended before the worker   *)
(* takes its row.                                                          *)
(***************************************************************************)
EXTENDS Integers, Sequences, FiniteSets

CONSTANTS
  MAX_ATTEMPTS,   \* attempts after which a transport failure is final
  MaxResponses,   \* bound: responses of the turn, repeated ones included
  MaxChunks,      \* bound: text deltas of the turn
  MaxTimeouts     \* bound: calls that time out or lose their plugin

VARIABLES
  editable,   \* capabilities.update_message
  turn,       \* where process_message stands
  response,   \* number of the response that streams
  acc,        \* TypingState.accumulated
  pushed,     \* TypingState.pushed_text
  card,       \* TypingState.message_id: 0 none, -1 an id nobody knows, or a message
  acked,      \* was the listener's last push answered?
  reply,      \* the text the engine returns
  files,      \* has a tool queued a file?
  rows,       \* this reply's rows of the outbox
  requests,   \* requests the plugin works on
  chat,       \* the messages the user sees
  overtaken,  \* did an edit take effect that its caller had given up?
  unanswered, \* did a card or an edit show whose caller does not know it?
  timeouts

typing == <<editable, response, acc, pushed, card, acked>>
peer   == <<requests, chat, overtaken, unanswered>>
vars   == <<typing, turn, reply, files, rows, peer, timeouts>>

RowName == {"reply", "replacement", "file"}
NoRow   == [kind |-> "none", status |-> "none", tries |-> 0]
Note    == <<0>>     \* "error: ..." or "(no reply)"

NewRequest(by, op, text, n) ==
  [by |-> by, op |-> op, text |-> text, n |-> n, heard |-> TRUE, shows |-> 0]

Init ==
  /\ editable \in BOOLEAN
  /\ turn = "streaming" /\ response = 1
  /\ acc = <<>> /\ pushed = <<>> /\ card = 0 /\ acked = TRUE
  /\ reply = <<>> /\ files = FALSE
  /\ rows = [b \in RowName |-> NoRow]
  /\ requests = {} /\ chat = <<>> /\ overtaken = FALSE /\ unanswered = FALSE
  /\ timeouts = 0

-----------------------------------------------------------------------------
(* The listener.  on_event is awaited by the stream: one push at a time.   *)

(* pushed_text is set before the call, whatever becomes of it.  A delta    *)
(* within update_interval of the last push waits for a later one.          *)
Delta ==
  LET text == Append(acc, response) IN
  /\ turn = "streaming" /\ Len(acc) < MaxChunks
  /\ acc' = text
  /\ \/ /\ editable
        /\ pushed' = text
        /\ requests' = requests \cup
             {NewRequest("typing", IF card = 0 THEN "card" ELSE "update", text, Len(text))}
        /\ turn' = "pushing"
     \/ /\ ~editable \/ card # 0
        /\ UNCHANGED <<pushed, requests, turn>>
  /\ UNCHANGED <<editable, response, card, acked, reply, files, rows, chat, overtaken, unanswered, timeouts>>

(* The text of a response so far: the chunks that came with it.            *)
Said == [i \in 1 .. Cardinality({k \in DOMAIN acc : acc[k] = response}) |-> response]

NextResponse ==
  /\ turn = "streaming" /\ response < MaxResponses
  /\ response' = response + 1
  /\ UNCHANGED <<editable, acc, pushed, card, acked, turn, reply, files, rows, peer, timeouts>>

(* on_stream_retry: the card stays, its text is forgotten.                 *)
StreamRetry ==
  /\ turn = "streaming" /\ response < MaxResponses
  /\ response' = response + 1
  /\ acc' = <<>> /\ pushed' = <<>>
  /\ UNCHANGED <<editable, card, acked, turn, reply, files, rows, peer, timeouts>>

-----------------------------------------------------------------------------
(* The end of process_message.                                             *)

Pending(kind) == [kind |-> kind, status |-> "pending", tries |-> 0]

IsStreamed(text) == card # 0 /\ text = pushed

(* typing.finalize: edit the card, unless it shows the text already; send  *)
(* a message if nothing was streamed.                                      *)
Conclude(text, kept) ==
  LET kind == IF card # 0 /\ editable THEN "update" ELSE "send" IN
  /\ reply' = text
  /\ IF IsStreamed(text)
     THEN turn' = "replied" /\ requests' = kept /\ UNCHANGED rows
     ELSE /\ turn' = "replying"
          /\ requests' = kept \cup {NewRequest("reply", kind, text, 0)}
          /\ rows' = [rows EXCEPT !["reply"] = Pending(kind)]

TurnEnds ==
  /\ turn = "streaming"
  /\ Conclude(IF Said = <<>> THEN Note ELSE Said, requests)
  /\ files' \in BOOLEAN
  /\ UNCHANGED <<typing, chat, overtaken, unanswered, timeouts>>

(* The turn fails, is recalled or runs out of time; where it is cancelled  *)
(* during a push, the call is dropped and the request goes on.             *)
TurnFails ==
  /\ turn \in {"streaming", "pushing"}
  /\ Conclude(Note, {[q EXCEPT !.heard = FALSE] : q \in requests})
  /\ acked' = (acked /\ turn = "streaming")
  /\ UNCHANGED <<editable, response, acc, pushed, card, files, chat, overtaken, unanswered, timeouts>>

(* A slash command is answered by a message, and there is no turn.         *)
Command ==
  /\ turn = "streaming" /\ response = 1 /\ acc = <<>>
  /\ Conclude(Note, {})
  /\ UNCHANGED <<typing, files, chat, overtaken, unanswered, timeouts>>

(* A file a tool has queued follows, if the turn succeeded, it can be read *)
(* and the plugin takes files.                                             *)
SendFile ==
  /\ turn = "replied"
  /\ \/ turn' = "over" /\ UNCHANGED <<rows, requests>>
     \/ /\ files /\ turn' = "filing"
        /\ rows' = [rows EXCEPT !["file"] = Pending("file")]
        /\ requests' = requests \cup {NewRequest("file", "send", <<>>, 0)}
  /\ UNCHANGED <<typing, files, reply, chat, overtaken, unanswered, timeouts>>

-----------------------------------------------------------------------------
(* The outbox.                                                             *)

ByActor(q)  == q.by = "replacement" \/ (q.by \in RowName /\ q.n > 0)
ActorIsBusy == \E q \in requests : q.heard /\ ByActor(q)

Op(b) == IF rows[b].kind = "update" THEN "update" ELSE "send"

(* The worker's actor takes a row that came due.  An update keeps the text *)
(* of the row, a replacement has that of the row it replaces.              *)
Retry(b) ==
  /\ rows[b].status = "pending" /\ ~ActorIsBusy
  /\ \A q \in requests : q.by = b => ~q.heard
  /\ requests' = requests \cup
       {NewRequest(b, Op(b), IF b = "file" THEN <<>> ELSE reply, rows[b].tries)}
  /\ UNCHANGED <<typing, turn, reply, files, rows, chat, overtaken, unanswered, timeouts>>

Failed(b) ==
  [r \in RowName |->
     IF r = b THEN [rows[b] EXCEPT !.status = "failed"]
     ELSE IF r = "replacement" /\ rows[b].kind = "update" THEN Pending("send")
     ELSE rows[r]]

(* handle_first_attempt and dispatch_row.  ChannelError::Plugin is final,  *)
(* a transport error is only when the actor made the last attempt.         *)
Recorded(q, outcome) ==
  CASE outcome = "ok" -> [rows EXCEPT ![q.by].status = "delivered"]
    [] outcome = "refused" -> Failed(q.by)
    [] OTHER -> IF ByActor(q) /\ rows[q.by].tries + 1 >= MAX_ATTEMPTS
                THEN Failed(q.by)
                ELSE [rows EXCEPT ![q.by].tries = @ + 1]

AfterFirstTry ==
  CASE turn = "replying" -> "replied" [] turn = "filing" -> "over" [] OTHER -> turn

(* The caller of q hears the outcome and acts on it; id is the message id. *)
Hear(q, outcome, id) ==
  IF q.by = "typing"
  THEN /\ turn' = "streaming"
       /\ card' = IF outcome = "ok" /\ card = 0 THEN id ELSE card
       /\ acked' = (outcome = "ok")
       /\ UNCHANGED rows
  ELSE /\ rows' = Recorded(q, outcome)
       /\ turn' = IF ByActor(q) THEN turn ELSE AfterFirstTry
       /\ UNCHANGED <<card, acked>>

-----------------------------------------------------------------------------
(* The plugin.  A send fetches a token, creates a CardKit card or uploads  *)
(* the file, and posts the message; of these only the last is visible.     *)

(* Mutant: the message is posted without its uuid.                         *)
MutIsKnown(q) == FALSE

(* lark_send_query: the platform shows a uuid once.  The listener has none.*)
IsKnown(q) == q.by \in RowName /\ \E m \in DOMAIN chat : chat[m].by = q.by

Posted(q) ==
  IF q.op = "update" THEN [chat EXCEPT ![card].text = q.text]
  ELSE IF IsKnown(q) THEN chat
  ELSE Append(chat, [by |-> q.by, text |-> q.text])

(* The platform carries a request out.                                     *)
TakesEffect(q) ==
  /\ q.shows = 0
  /\ q.op = "update" => card > 0
  /\ chat' = Posted(q)
  /\ requests' = (requests \ {q}) \cup
       {[q EXCEPT !.shows = IF q.op = "update" THEN card ELSE Len(chat')]}
  /\ overtaken' = (overtaken \/ (q.op = "update" /\ ~q.heard))
  /\ UNCHANGED <<typing, turn, reply, files, rows, unanswered, timeouts>>

Hidden(q) == q.shows > 0 /\ (q.by = "typing" \/ q.op = "update")

(* Without a message_id in the response the plugin invents one.            *)
Accepts(q) ==
  /\ q.shows > 0 /\ q.heard
  /\ requests' = requests \ {q}
  /\ \/ Hear(q, "ok", q.shows) /\ UNCHANGED unanswered
     \/ q.op = "card" /\ Hear(q, "ok", -1) /\ unanswered' = TRUE
  /\ UNCHANGED <<editable, response, acc, pushed, reply, files, chat, overtaken, timeouts>>

(* Every failure of a call of Lark is a PlatformError: no token, no        *)
(* connection, an HTTP status, a code, also when only the answer was lost. *)
Refuses(q) ==
  /\ q.heard
  /\ requests' = requests \ {q}
  /\ Hear(q, "refused", 0)
  /\ unanswered' = (unanswered \/ Hidden(q))
  /\ UNCHANGED <<editable, response, acc, pushed, reply, files, chat, overtaken, timeouts>>

(* The caller waits 30 s; a token and a post may take 15 s and 20 s.  The  *)
(* same for a plugin that exits: its requests then end below.              *)
TimesOut(q) ==
  /\ q.heard /\ timeouts < MaxTimeouts
  /\ timeouts' = timeouts + 1
  /\ requests' = (requests \ {q}) \cup {[q EXCEPT !.heard = FALSE]}
  /\ Hear(q, "transport", 0)
  /\ UNCHANGED <<editable, response, acc, pushed, reply, files, chat, overtaken, unanswered>>

(* A request nobody waits for ends, with or without its effect.            *)
Ends(q) ==
  /\ ~q.heard
  /\ requests' = requests \ {q}
  /\ unanswered' = (unanswered \/ Hidden(q))
  /\ UNCHANGED <<typing, turn, reply, files, rows, chat, overtaken, timeouts>>

Listener == Delta \/ NextResponse \/ StreamRetry
Closing  == TurnEnds \/ TurnFails \/ Command \/ SendFile
Served(q) == TakesEffect(q) \/ Accepts(q) \/ Refuses(q) \/ TimesOut(q) \/ Ends(q)

Next ==
  \/ Listener \/ Closing
  \/ \E b \in RowName : Retry(b)
  \/ \E q \in requests : Served(q)

Spec == Init /\ [][Next]_vars

-----------------------------------------------------------------------------
(* Properties.                                                             *)

Texts == UNION {[1 .. n -> 0 .. MaxResponses] : n \in 0 .. MaxChunks + 1}

(* Every variable stays in its declared range; at most one push waits for  *)
(* an answer, and so does at most one first try.                           *)
TypeOK ==
  /\ turn \in {"streaming", "pushing", "replying", "replied", "filing", "over"}
  /\ {acc, pushed, reply} \subseteq Texts
  /\ card \in -1 .. Len(chat)
  /\ \A b \in RowName : rows[b].tries \in 0 .. MAX_ATTEMPTS
  /\ Cardinality({q \in requests : q.heard /\ ~ByActor(q)}) <= 1
  /\ (\E q \in requests : q.heard /\ q.by = "typing") => turn = "pushing"

Shows(text) == {m \in DOMAIN chat : chat[m].text = text}

IsOver ==
  turn = "over" /\ requests = {} /\ \A b \in RowName : rows[b].status # "pending"

SendFailed ==
  \/ rows["reply"].kind = "send" /\ rows["reply"].status = "failed"
  \/ rows["replacement"].status = "failed"

(* When all is over the user sees the reply, unless every message that     *)
(* would have carried it was refused or given up, or an edit that its      *)
(* caller had given up came last, or the turn ended on a push that failed  *)
(* and whose text was the reply: this one is never pushed again.           *)
ReplyIsShown ==
  IsOver => \/ Shows(reply) # {} \/ SendFailed \/ overtaken
            \/ rows["reply"].kind = "none" /\ ~acked

(* dispatch.rs: the final text is pushed "so the rendered message ends up  *)
(* on the canonical reply".                                                *)
CanonicalIsShown == IsOver => Shows(reply) # {} \/ SendFailed \/ overtaken

(* However often a row is retried, the reply is there twice only when an   *)
(* edit or the listener's card was shown and its caller does not know it;  *)
(* and no half a text is left beside the reply unless this or a            *)
(* replacement is the reason.                                              *)
ShownOnce ==
  IsOver =>
    /\ reply # <<>> /\ Cardinality(Shows(reply)) > 1 => unanswered
    /\ Cardinality({m \in DOMAIN chat : chat[m].by # "file"}) > 1 =>
         unanswered \/ rows["replacement"] # NoRow

(* dispatch.rs: files "ride after the text reply".  A file comes first     *)
(* only when the first try for the text did not deliver it.                *)
FileFollowsReply ==
  \A f \in DOMAIN chat :
    chat[f].by = "file" /\ rows["reply"].status = "delivered" /\ rows["reply"].tries = 0 =>
      f > 1
=============================================================================
