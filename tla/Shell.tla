------------------------------- MODULE Shell -------------------------------
(***************************************************************************)
(* A command in the foreground (BashTool::execute and read_capped of       *)
(* snaca-tools/src/bash.rs).  /bin/sh runs it, two tasks read its pipes up *)
(* to a cap, and the call waits for the shell, but no longer than the      *)
(* timeout, and then for the two readers, however long that takes: a pipe  *)
(* ends only when every process that has inherited it has closed it.       *)
(*                                                                         *)
(* Abstracted: what the command is, strict mode, the sandbox and the       *)
(* layout of the result.  Output is counted in units, a read takes one.    *)
(* Processes the shell leaves behind are one, the heir.                    *)
(***************************************************************************)
EXTENDS Integers

CONSTANTS
  Stream,             \* stdout and stderr
  MAX_OUTPUT_BYTES,   \* what a reader keeps
  PIPE_BYTES,         \* what a pipe holds (the operating system)
  MaxOutput           \* bound: what is written to a stream

VARIABLES
  call,        \* the tool call: idle, waiting, joining, returned, dropped
  sh,          \* the shell: none, running, and how it ended
  heir,        \* a process the shell left behind with its pipes
  reader,      \* per stream: none, reading, at the end, cut at the cap
  pipe,        \* per stream: what nobody has read
  out,         \* per stream: what the reader has kept
  printed,     \* history: what was written to the stream
  result

vars == <<call, sh, heir, reader, pipe, out, printed, result>>

TypeOK ==
  /\ call \in {"idle", "waiting", "joining", "returned", "dropped"}
  /\ sh \in {"none", "running", "success", "failure", "killed"}
  /\ heir \in {"none", "running", "gone"}
  /\ reader \in [Stream -> {"none", "reading", "eof", "cut"}]
  /\ pipe \in [Stream -> 0 .. PIPE_BYTES]
  /\ out \in [Stream -> 0 .. MAX_OUTPUT_BYTES]
  /\ printed \in [Stream -> 0 .. MaxOutput]
  /\ result \in {"none", "output", "error", "timed_out"}

Ended     == call \in {"returned", "dropped"}
HasWriter == sh = "running" \/ heir = "running"

Init ==
  /\ call = "idle" /\ sh = "none" /\ heir = "none" /\ result = "none"
  /\ reader = [s \in Stream |-> "none"]
  /\ pipe = [s \in Stream |-> 0] /\ out = [s \in Stream |-> 0]
  /\ printed = [s \in Stream |-> 0]

-----------------------------------------------------------------------------
(* The processes.  Nothing is fair about them.                             *)
Prints(s) ==
  /\ HasWriter /\ reader[s] # "cut"
  /\ pipe[s] < PIPE_BYTES /\ printed[s] < MaxOutput
  /\ pipe' = [pipe EXCEPT ![s] = @ + 1]
  /\ printed' = [printed EXCEPT ![s] = @ + 1]
  /\ UNCHANGED <<call, sh, heir, reader, out, result>>

(* A write to a stream whose reader is gone: SIGPIPE, unless the command   *)
(* ignores it.                                                             *)
BreaksOff(s) ==
  /\ reader[s] = "cut"
  /\ \/ sh = "running" /\ sh' = "killed" /\ UNCHANGED heir
     \/ heir = "running" /\ heir' = "gone" /\ UNCHANGED sh
  /\ UNCHANGED <<call, reader, pipe, out, printed, result>>

LeavesHeir ==
  /\ sh = "running" /\ heir = "none"
  /\ heir' = "running"
  /\ UNCHANGED <<call, sh, reader, pipe, out, printed, result>>

ShellEnds ==
  /\ sh = "running"
  /\ sh' \in {"success", "failure"}
  /\ UNCHANGED <<call, heir, reader, pipe, out, printed, result>>

HeirEnds ==
  /\ heir = "running"
  /\ heir' = "gone"
  /\ UNCHANGED <<call, sh, reader, pipe, out, printed, result>>

-----------------------------------------------------------------------------
(* read_capped: the reader of a stream stops at the cap, and drops its end *)
(* of the pipe.                                                            *)
ReadOne(s) ==
  /\ reader[s] = "reading" /\ pipe[s] > 0
  /\ IF out[s] = MAX_OUTPUT_BYTES
       THEN /\ reader' = [reader EXCEPT ![s] = "cut"]
            /\ pipe' = [pipe EXCEPT ![s] = 0]
            /\ UNCHANGED out
       ELSE /\ out' = [out EXCEPT ![s] = @ + 1]
            /\ pipe' = [pipe EXCEPT ![s] = @ - 1]
            /\ UNCHANGED reader
  /\ UNCHANGED <<call, sh, heir, printed, result>>

ReadEnd(s) ==
  /\ reader[s] = "reading" /\ pipe[s] = 0 /\ ~HasWriter
  /\ reader' = [reader EXCEPT ![s] = "eof"]
  /\ UNCHANGED <<call, sh, heir, pipe, out, printed, result>>

ReaderStep(s) == ReadOne(s) \/ ReadEnd(s)

-----------------------------------------------------------------------------
(* execute: spawn fails, or the shell and the readers start.               *)
SpawnFails ==
  /\ call = "idle"
  /\ call' = "returned" /\ result' = "error"
  /\ UNCHANGED <<sh, heir, reader, pipe, out, printed>>

Execute ==
  /\ call = "idle"
  /\ call' = "waiting" /\ sh' = "running"
  /\ reader' = [s \in Stream |-> "reading"]
  /\ UNCHANGED <<heir, pipe, out, printed, result>>

Waited ==
  /\ call = "waiting" /\ sh # "running"
  /\ call' = "joining"
  /\ UNCHANGED <<sh, heir, reader, pipe, out, printed, result>>

(* The shell is killed and reaped; the readers are left to themselves, and *)
(* the heir lives on.  The timer may win against an exit just before it.   *)
TimesOut ==
  /\ call = "waiting"
  /\ call' = "returned" /\ result' = "timed_out"
  /\ sh' = IF sh = "running" THEN "killed" ELSE sh
  /\ UNCHANGED <<heir, reader, pipe, out, printed>>

(* Mutant: the call does not wait for the readers.                         *)
MutReadersDone == TRUE

ReadersDone == \A s \in Stream : reader[s] \in {"eof", "cut"}

Joined ==
  /\ call = "joining" /\ ReadersDone
  /\ call' = "returned"
  /\ result' = IF sh = "success" THEN "output" ELSE "error"
  /\ UNCHANGED <<sh, heir, reader, pipe, out, printed>>

(* The turn is cancelled: kill_on_drop.                                    *)
Dropped ==
  /\ call \in {"waiting", "joining"}
  /\ call' = "dropped"
  /\ sh' = IF sh = "running" THEN "killed" ELSE sh
  /\ UNCHANGED <<heir, reader, pipe, out, printed, result>>

CallStep == Waited \/ Joined

Next ==
  \/ SpawnFails \/ Execute \/ CallStep \/ TimesOut \/ Dropped
  \/ LeavesHeir \/ ShellEnds \/ HeirEnds
  \/ \E s \in Stream : Prints(s) \/ BreaksOff(s) \/ ReaderStep(s)

(* The runtime polls the call and the readers, and the timer fires.        *)
Fairness ==
  /\ WF_vars(CallStep) /\ WF_vars(TimesOut)
  /\ \A s \in Stream : WF_vars(ReaderStep(s))

Spec == Init /\ [][Next]_vars /\ Fairness

-----------------------------------------------------------------------------
(* What execute returns of a stream is all that was written to it, by the  *)
(* shell and by the heir, or the first MAX_OUTPUT_BYTES of more; and no    *)
(* way out of the call leaves the shell running.                           *)
OutputIsWhole ==
  /\ result # "none" /\ call = "returned" /\ result # "timed_out" /\ sh # "none" =>
       \A s \in Stream :
         \/ out[s] = printed[s]
         \/ out[s] = MAX_OUTPUT_BYTES /\ printed[s] > MAX_OUTPUT_BYTES
  /\ Ended => sh # "running"

(* Every call of execute ends, with a command that never ends too.  The    *)
(* timeout covers the shell only: while the heir holds a stream open that  *)
(* is not cut, the call goes on, however long ago the shell ended.         *)
HeldOpen == heir = "running" /\ \E s \in Stream : reader[s] = "reading"

CallEnds ==
  /\ call = "waiting" ~> Ended \/ (call = "joining" /\ HeldOpen)
  /\ call = "joining" /\ ~HeldOpen ~> Ended
=============================================================================
