----------------------------- MODULE ToolBatch -----------------------------
(***************************************************************************)
(* One response of the model and the tool calls in it, from the first byte *)
(* of the stream to the last tool result.                                  *)
(*                                                                         *)
(* snaca-llm (deepseek/sse.rs, stream.rs, retry.rs) turns the wire into    *)
(* content blocks; call_llm_and_prerun starts a read-only call as soon as  *)
(* its block ends, while later blocks still stream; run_tool_calls then    *)
(* runs what is left in segments, behind the approval gate, and uses the   *)
(* results computed early.  The tools act on one workspace: a write leaves *)
(* its mark in it, a read returns the marks it saw.                        *)
(***************************************************************************)
EXTENDS Naturals, Sequences, FiniteSets

CONSTANTS
  MAX_CONNECTS,   \* RetryConfig.max_attempts
  MAX_RETRIES,    \* stream_interrupted_max_retries
  TOOL_LIMIT,     \* concurrent_tool_limit
  Kinds,          \* kinds of tools in this instance
  INTERLEAVED,    \* may the wire mix the argument parts of several calls?
  MaxCalls,       \* bound: calls of a response
  MaxParts        \* bound: parts the arguments of a call come in

VARIABLES
  phase,        \* connecting, streaming, joining, resend, running, answered, failed
  connects, attempt,
  calls,        \* the response: [kind, parts]
  arrived,      \* parts received, for every call that was opened
  open,         \* StreamState.current: a call, or 0
  ended,        \* calls whose ContentBlockStop the engine has seen
  barrier,      \* barrier_hit
  stop,         \* stop_reason
  preruns,      \* early executions: [attempt, call, parts, done, saw]
  status,       \* of each call in run_tool_calls
  result,       \* [parts: of the input it ran with, saw: marks in the workspace]
  marks,        \* the writes done
  remembered    \* kinds with a stored Allow decision

stream == <<connects, attempt, calls, arrived, open, ended, barrier, stop>>
batch  == <<status, result, marks, remembered>>
vars   == <<phase, stream, preruns, batch>>

ReadOnly   == {"read", "ask_read"}
Gated      == {"ask_read", "ask_write"}
Streamable == ReadOnly \ Gated       \* is_streamable_tool
Unknown    == {"unknown"}

Responses == UNION {[1 .. n -> [kind : Kinds, parts : 1 .. MaxParts]] : n \in 0 .. MaxCalls}

Call == DOMAIN calls

NoResult == [parts |-> MaxParts + 1, saw |-> {}]     \* not run: an error or nothing yet

(* A proper, non-empty prefix of a JSON object is not JSON; nothing at all *)
(* counts as {}.                                                           *)
Parses(i) == arrived[i] \in {0, calls[i].parts}

Init ==
  /\ phase = "connecting" /\ connects = 0 /\ attempt = 0
  /\ calls = <<>> /\ arrived = <<>> /\ open = 0 /\ ended = {} /\ barrier = FALSE
  /\ stop = "none"
  /\ preruns = {} /\ status = <<>> /\ result = <<>> /\ marks = {}
  /\ remembered = {}

-----------------------------------------------------------------------------
(* RetryingLlmClient: only the establishment of a stream is tried again.   *)

ConnectFails ==
  /\ phase = "connecting"
  /\ connects' = connects + 1
  /\ phase' = IF connects + 1 < MAX_CONNECTS THEN phase ELSE "failed"
  /\ UNCHANGED <<attempt, calls, arrived, open, ended, barrier, stop, preruns, batch>>

Connected(response) ==
  /\ phase = "connecting"
  /\ phase' = "streaming" /\ calls' = response
  /\ connects' = 0 /\ arrived' = <<>> /\ open' = 0 /\ ended' = {} /\ barrier' = FALSE
  /\ stop' = "none"
  /\ UNCHANGED <<attempt, preruns, batch>>

-----------------------------------------------------------------------------
(* process_chunk, and the engine's reaction to a ContentBlockStop.         *)

Prerun(i) == [attempt |-> attempt, call |-> i, parts |-> arrived[i], done |-> FALSE, saw |-> {}]

(* Mutant: a call that may not run early is passed over without a barrier. *)
MutCloseCurrent ==
  LET first == open # 0 /\ open \notin ended IN
  /\ ended' = ended \cup ({open} \ {0})
  /\ barrier' = barrier
  /\ preruns' = preruns \cup
       IF first /\ ~barrier /\ calls[open].kind \in Streamable /\ Parses(open)
       THEN {Prerun(open)} ELSE {}

(* The block ends: an eligible call is spawned, any other one bars those   *)
(* behind it.  A call whose arguments do not parse does neither.           *)
CloseCurrent ==
  LET first == open # 0 /\ open \notin ended IN
  /\ ended' = ended \cup ({open} \ {0})
  /\ barrier' = (barrier \/ (first /\ calls[open].kind \notin Streamable))
  /\ preruns' = preruns \cup
       IF first /\ ~barrier /\ calls[open].kind \in Streamable /\ Parses(open)
       THEN {Prerun(open)} ELSE {}

Complete(i) == arrived[i] = calls[i].parts

(* The first chunk of a call ends the block before it, ...                 *)
OpenCall ==
  /\ phase = "streaming" /\ Len(arrived) < Len(calls)
  /\ INTERLEAVED \/ \A i \in DOMAIN arrived : Complete(i)
  /\ CloseCurrent
  /\ arrived' = Append(arrived, 0) /\ open' = Len(arrived) + 1
  /\ UNCHANGED <<phase, connects, attempt, calls, stop, batch>>

(* ... a later one re-anchors `current` and ends nothing.                  *)
Part(i) ==
  /\ phase = "streaming" /\ i \in DOMAIN arrived /\ ~Complete(i)
  /\ INTERLEAVED \/ open = i
  /\ arrived' = [arrived EXCEPT ![i] = @ + 1] /\ open' = i
  /\ UNCHANGED <<phase, connects, attempt, calls, ended, barrier, stop, preruns, batch>>

(* Text or reasoning between calls.                                        *)
Prose ==
  /\ phase = "streaming" /\ open # 0
  /\ INTERLEAVED \/ Complete(open)
  /\ CloseCurrent
  /\ open' = 0
  /\ UNCHANGED <<phase, connects, attempt, calls, arrived, stop, batch>>

(* finish_reason; max_tokens may cut the arguments of the last call.       *)
FinishReason(reason) ==
  /\ phase = "streaming"
  /\ reason = "tool_use" => Len(arrived) = Len(calls) /\ \A i \in DOMAIN arrived : Complete(i)
  /\ CloseCurrent
  /\ phase' = "joining" /\ stop' = reason
  /\ UNCHANGED <<connects, attempt, calls, arrived, open, batch>>

(* [DONE], or the end of the body, without a finish_reason.                *)
EndOfBody ==
  /\ phase = "streaming"
  /\ phase' = "joining"
  /\ UNCHANGED <<stream, preruns, batch>>

(* The calls spawned so far keep running, detached.                        *)
StreamInterrupted ==
  /\ phase = "streaming"
  /\ IF attempt < MAX_RETRIES
     THEN phase' = "connecting" /\ attempt' = attempt + 1
     ELSE phase' = "failed" /\ UNCHANGED attempt
  /\ UNCHANGED <<connects, calls, arrived, open, ended, barrier, stop, preruns, batch>>

PrerunEnds(p) ==
  /\ p \in preruns /\ ~p.done
  /\ preruns' = (preruns \ {p}) \cup {[p EXCEPT !.done = TRUE, !.saw = marks]}
  /\ UNCHANGED <<phase, stream, batch>>

(* A panicked prerun leaves no result, the call runs in its turn.          *)
PrerunPanics(p) ==
  /\ p \in preruns /\ ~p.done
  /\ preruns' = preruns \ {p}
  /\ UNCHANGED <<phase, stream, batch>>

Joined == \A p \in preruns : p.attempt = attempt => p.done

ToRun(cs) ==
  /\ status' = [i \in DOMAIN cs |-> "todo"]
  /\ result' = [i \in DOMAIN cs |-> NoResult]
  /\ UNCHANGED <<marks, remembered>>

(* The handles are awaited, then the blocks assembled.  max_tokens is a    *)
(* terminal stop: nobody runs the calls; without a stop reason it is       *)
(* inferred from the content.                                              *)
Finalize ==
  /\ phase = "joining" /\ Joined
  /\ calls' = SubSeq(calls, 1, Len(arrived))
  /\ IF \E i \in DOMAIN arrived : ~Parses(i)
     THEN phase' = "resend" /\ UNCHANGED batch
     ELSE IF stop = "max_tokens" \/ arrived = <<>>
     THEN phase' = "answered" /\ UNCHANGED batch
     ELSE phase' = "running" /\ ToRun(arrived)
  /\ UNCHANGED <<connects, attempt, arrived, open, ended, barrier, stop, preruns>>

(* Malformed arguments: the request is sent again without streaming, the   *)
(* results computed early are dropped.                                     *)
Resend(response) ==
  /\ phase = "resend"
  /\ calls' = response /\ arrived' = [i \in DOMAIN response |-> response[i].parts]
  /\ preruns' = {p \in preruns : p.attempt # attempt}
  /\ IF response = <<>> THEN phase' = "answered" /\ UNCHANGED batch
     ELSE phase' = "running" /\ ToRun(response)
  /\ UNCHANGED <<connects, attempt, open, ended, barrier, stop>>

ResendFails ==
  /\ phase = "resend"
  /\ phase' = "failed"
  /\ UNCHANGED <<stream, preruns, batch>>

-----------------------------------------------------------------------------
(* run_tool_calls.                                                         *)

Active == {i \in DOMAIN status : status[i] \in {"asking", "running"}}

(* The guard sees all calls before the first of them runs.                 *)
LoopGuardTrips ==
  /\ phase = "running" /\ \A i \in DOMAIN status : status[i] = "todo"
  /\ phase' = "failed"
  /\ UNCHANGED <<stream, preruns, batch>>

(* A run of read-only calls is one segment; every other call is its own.   *)
SameSegment(i, j) == \A k \in i .. j : calls[k].kind \in ReadOnly

InTurn(i) ==
  /\ \A j \in 1 .. i - 1 : status[j] = "done" \/ (status[j] # "todo" /\ SameSegment(j, i))
  /\ Cardinality(Active) < TOOL_LIMIT

(* execute_one up to the gate; an unknown tool is an error at once.        *)
Start(i) ==
  /\ phase = "running" /\ i \in Call /\ status[i] = "todo" /\ InTurn(i)
  /\ status' = [status EXCEPT ![i] =
       CASE calls[i].kind \in Unknown            -> "done"
         [] calls[i].kind \in Gated \ remembered -> "asking"
         [] OTHER                                -> "running"]
  /\ UNCHANGED <<phase, stream, preruns, result, marks, remembered>>

(* The gate's answer.  A refusal and a gate that fails both become the     *)
(* result of the call.                                                     *)
Decide(i, decision) ==
  /\ phase = "running" /\ i \in Call /\ status[i] = "asking"
  /\ status' = [status EXCEPT ![i] = IF decision \in {"once", "always"} THEN "running" ELSE "done"]
  /\ remembered' = IF decision = "always" THEN remembered \cup {calls[i].kind} ELSE remembered
  /\ UNCHANGED <<phase, stream, preruns, result, marks>>

Prebuilt(i) == {p \in preruns : p.attempt = attempt /\ p.call = i /\ p.done}

Execute(i) ==
  /\ phase = "running" /\ i \in Call /\ status[i] = "running"
  /\ status' = [status EXCEPT ![i] = "done"]
  /\ IF Prebuilt(i) # {}
     THEN \E p \in Prebuilt(i) : result' = [result EXCEPT ![i] = [parts |-> p.parts, saw |-> p.saw]]
     ELSE result' = [result EXCEPT ![i] = [parts |-> arrived[i], saw |-> marks]]
  /\ marks' = IF calls[i].kind \in ReadOnly THEN marks ELSE marks \cup {i}
  /\ UNCHANGED <<phase, stream, preruns, remembered>>

(* Sorted by position and handed to the turn loop.                         *)
BatchDone ==
  /\ phase = "running" /\ \A i \in DOMAIN status : status[i] = "done"
  /\ phase' = "answered"
  /\ UNCHANGED <<stream, preruns, batch>>

(* The turn is cancelled: its future is dropped where it stands.           *)
Cancelled ==
  /\ phase \notin {"answered", "failed"}
  /\ phase' = "failed"
  /\ UNCHANGED <<stream, preruns, batch>>

-----------------------------------------------------------------------------
Wire ==
  \/ ConnectFails \/ \E r \in Responses : Connected(r)
  \/ OpenCall \/ Prose \/ EndOfBody \/ StreamInterrupted
  \/ \E i \in 1 .. MaxCalls : Part(i)
  \/ \E reason \in {"tool_use", "max_tokens"} : FinishReason(reason)
  \/ ResendFails \/ \E r \in Responses : Resend(r)

Tools ==
  \/ Finalize \/ LoopGuardTrips \/ BatchDone
  \/ \E i \in 1 .. MaxCalls :
       \/ Start(i) \/ Execute(i)
       \/ \E d \in {"once", "always", "deny", "error"} : Decide(i, d)

Early == \E p \in preruns : PrerunEnds(p) \/ PrerunPanics(p)

Next == Wire \/ Tools \/ Early \/ Cancelled

Spec == Init /\ [][Next]_vars

-----------------------------------------------------------------------------
(* Properties.                                                             *)

(* Every variable stays in its declared range.                             *)
TypeOK ==
  /\ phase \in {"connecting", "streaming", "joining", "resend", "running", "answered", "failed"}
  /\ connects \in 0 .. MAX_CONNECTS /\ attempt \in 0 .. MAX_RETRIES
  /\ calls \in Responses
  /\ Len(arrived) <= Len(calls) /\ open \in 0 .. MaxCalls
  /\ \A p \in preruns : p.call \in 1 .. MaxCalls /\ p.parts \in 0 .. MaxParts
  /\ \A i \in DOMAIN status : status[i] \in {"todo", "asking", "running", "done"}
  /\ marks \subseteq 1 .. MaxCalls
  /\ Cardinality(Active) <= TOOL_LIMIT

(* call_llm_and_prerun and run_tool_calls: with early execution, parallel  *)
(* segments, retries and refusals, each read returns what it would return  *)
(* if the calls of the response ran one after the other, with the input    *)
(* the response shows: it sees the writes before it and no later one.      *)
Ran(i) == result[i] # NoResult

AsIfInOrder ==
  phase \in {"running", "answered"} =>
    \A i \in DOMAIN status :
      Ran(i) /\ calls[i].kind \in ReadOnly =>
        /\ result[i].parts = arrived[i]
        /\ result[i].saw = marks \cap 1 .. i - 1
=============================================================================
