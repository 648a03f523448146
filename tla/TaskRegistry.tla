---------------------------- MODULE TaskRegistry ----------------------------
(***************************************************************************)
(* Background commands of the Bash tool: crates/snaca-tools/src/           *)
(* task_registry.rs with the tools that spawn (bash.rs), read              *)
(* (task_output.rs) and stop (task_stop.rs) them.                          *)
(*                                                                         *)
(* A task's Child sits behind an async mutex that the reaper keeps while   *)
(* it waits for the exit.  Output is a stream of numbered bytes; stdout    *)
(* and stderr are handled alike, so one of them is modelled.               *)
(***************************************************************************)
EXTENDS Integers, Sequences

CONSTANTS
  Task, Stopper,      \* task ids; calls of TaskStop
  STREAM_CAP_BYTES,
  MaxChunk, MaxBytes  \* bounds: bytes of one read, of a whole stream

VARIABLES
  child,      \* "none", "running", "exited", "signalled": the process
  held,       \* does the handle still hold the Child?
  lock,       \* "free", "reaper": who holds the mutex across an await
  reaper,     \* "none", "starting", "waiting", "done"
  status,     \* TaskStatus; "none" before the spawn
  stop,       \* where a TaskStop call stands
  target,     \* the task it is for
  stopped,    \* history: tasks some stop call has marked
  written, data, truncated \* bytes the process wrote and the pump read; RingBytes

processes == <<child, held, lock, reaper, status>>
stopping  == <<stop, target, stopped>>
output    == <<written, data, truncated>>
taskVars  == <<processes, stopping, output>>

Init ==
  /\ child = [t \in Task |-> "none"] /\ held = [t \in Task |-> FALSE]
  /\ lock = [t \in Task |-> "free"] /\ reaper = [t \in Task |-> "none"]
  /\ status = [t \in Task |-> "none"]
  /\ stop = [s \in Stopper |-> "idle"]
  /\ target = [s \in Stopper |-> CHOOSE t \in Task : TRUE]
  /\ stopped = {}
  /\ written = [t \in Task |-> 0] /\ data = [t \in Task |-> <<>>]
  /\ truncated = [t \in Task |-> FALSE]

Dead(t) == child[t] \in {"exited", "signalled"}

-----------------------------------------------------------------------------
(* spawn, and the process.                                                 *)

Spawn(t) ==
  /\ child[t] = "none"
  /\ child'  = [child  EXCEPT ![t] = "running"]
  /\ held'   = [held   EXCEPT ![t] = TRUE]
  /\ reaper' = [reaper EXCEPT ![t] = "starting"]
  /\ status' = [status EXCEPT ![t] = "running"]
  /\ UNCHANGED <<lock, stopping, output>>

(* It exits with a code or by a signal of its own, or runs on.             *)
ChildEnds(t) ==
  /\ child[t] = "running"
  /\ child' \in {[child EXCEPT ![t] = e] : e \in {"exited", "signalled"}}
  /\ UNCHANGED <<held, lock, reaper, status, stopping, output>>

-----------------------------------------------------------------------------
(* RingBytes.append.                                                       *)

LastOf(s, n) == SubSeq(s, Len(s) - n + 1, Len(s))

Ring(d, chunk) ==
  LET excess == Len(d) + Len(chunk) - STREAM_CAP_BYTES IN
  IF excess <= 0 THEN d \o chunk
  ELSE IF excess >= Len(d)
  THEN LastOf(chunk, IF Len(chunk) < STREAM_CAP_BYTES THEN Len(chunk) ELSE STREAM_CAP_BYTES)
  ELSE SubSeq(d, excess + 1, Len(d)) \o chunk

(* The pump may read after the exit: the pipe still holds bytes, or a      *)
(* grandchild writes on.                                                   *)
Pump(t, n) ==
  /\ child[t] # "none" /\ written[t] + n <= MaxBytes
  /\ written'   = [written EXCEPT ![t] = @ + n]
  /\ data'      = [data EXCEPT ![t] = Ring(@, [k \in 1 .. n |-> written[t] + k])]
  /\ truncated' = [truncated EXCEPT ![t] = @ \/ Len(data[t]) + n > STREAM_CAP_BYTES]
  /\ UNCHANGED <<processes, stopping>>

-----------------------------------------------------------------------------
(* The reaper of a task.                                                   *)

ReaperLocks(t) ==
  /\ reaper[t] = "starting" /\ lock[t] = "free"
  /\ lock'   = [lock   EXCEPT ![t] = "reaper"]
  /\ reaper' = [reaper EXCEPT ![t] = "waiting"]
  /\ UNCHANGED <<child, held, status, stopping, output>>

Final(t) == IF status[t] = "killed" THEN "killed"
            ELSE IF child[t] = "exited" THEN "exited" ELSE "killed"

(* Mutant: the Child is kept after the wait, and the mutex with it.        *)
MutReaperReaps(t) ==
  /\ reaper[t] = "waiting" /\ Dead(t)
  /\ status' = [status EXCEPT ![t] = Final(t)]
  /\ reaper' = [reaper EXCEPT ![t] = "done"]
  /\ UNCHANGED <<child, held, lock, stopping, output>>

ReaperReaps(t) ==
  /\ reaper[t] = "waiting" /\ Dead(t)
  /\ status' = [status EXCEPT ![t] = Final(t)]
  /\ held'   = [held   EXCEPT ![t] = FALSE]
  /\ lock'   = [lock   EXCEPT ![t] = "free"]
  /\ reaper' = [reaper EXCEPT ![t] = "done"]
  /\ UNCHANGED <<child, stopping, output>>

ReaperStep(t) == ReaperLocks(t) \/ ReaperReaps(t)

-----------------------------------------------------------------------------
(* stop.  The mutex is held for the kill only, with no await under it.     *)

StopMarks(s, t) ==
  /\ stop[s] = "idle" /\ child[t] # "none"
  /\ status'  = [status EXCEPT ![t] = "killed"]
  /\ stop'    = [stop   EXCEPT ![s] = "locking"]
  /\ target'  = [target EXCEPT ![s] = t]
  /\ stopped' = stopped \cup {t}
  /\ UNCHANGED <<child, held, lock, reaper, output>>

StopKills(s) ==
  /\ stop[s] = "locking" /\ lock[target[s]] = "free"
  /\ child' = IF held[target[s]] /\ child[target[s]] = "running"
              THEN [child EXCEPT ![target[s]] = "signalled"] ELSE child
  /\ stop'  = [stop EXCEPT ![s] = "returned"]
  /\ UNCHANGED <<held, lock, reaper, status, target, stopped, output>>

(* The turn that called the tool is cancelled.                             *)
StopDropped(s) ==
  /\ stop[s] = "locking"
  /\ stop' = [stop EXCEPT ![s] = "dropped"]
  /\ UNCHANGED <<processes, target, stopped, output>>

Next ==
  \/ \E t \in Task : Spawn(t) \/ ChildEnds(t) \/ ReaperStep(t)
  \/ \E t \in Task, n \in 1 .. MaxChunk : Pump(t, n)
  \/ \E s \in Stopper : StopKills(s) \/ StopDropped(s)
  \/ \E s \in Stopper, t \in Task : StopMarks(s, t)

Spec == Init /\ [][Next]_taskVars

(* The host's tasks run; a command need not end by itself.                 *)
Fairness ==
  /\ \A t \in Task : WF_taskVars(ReaperStep(t))
  /\ \A s \in Stopper : WF_taskVars(StopKills(s))

FairSpec == Spec /\ Fairness

-----------------------------------------------------------------------------
(* Properties.                                                             *)

(* Every variable stays in its declared range, and the mutex is held       *)
(* across an await exactly by a reaper that waits.                         *)
TypeOK ==
  /\ child \in [Task -> {"none", "running", "exited", "signalled"}]
  /\ held \in [Task -> BOOLEAN] /\ lock \in [Task -> {"free", "reaper"}]
  /\ reaper \in [Task -> {"none", "starting", "waiting", "done"}]
  /\ status \in [Task -> {"none", "running", "exited", "killed"}]
  /\ stop \in [Stopper -> {"idle", "locking", "returned", "dropped"}]
  /\ target \in [Stopper -> Task] /\ stopped \subseteq Task
  /\ written \in [Task -> 0 .. MaxBytes] /\ truncated \in [Task -> BOOLEAN]
  /\ \A t \in Task : lock[t] = "reaper" <=> reaper[t] = "waiting"

(* Once a task is reaped its status is final: never running, and unless    *)
(* somebody asked to stop it, how the process really ended.                *)
EndIsReported ==
  \A t \in Task : reaper[t] = "done" =>
    /\ status[t] \in {"exited", "killed"}
    /\ t \notin stopped => (status[t] = "exited" <=> child[t] = "exited")

(* Chunk by chunk, the buffer is the tail of everything written, and it is *)
(* marked truncated exactly when something is missing.                     *)
TailIsKept ==
  \A t \in Task :
    LET kept == IF written[t] < STREAM_CAP_BYTES THEN written[t] ELSE STREAM_CAP_BYTES IN
    /\ data[t] = [k \in 1 .. kept |-> written[t] - kept + k]
    /\ truncated[t] <=> kept < written[t]

(* A process that ended is reaped and its Child released, so neither a     *)
(* zombie nor a blocked TaskStop remains.                                  *)
DeadIsReaped ==
  /\ \A t \in Task : Dead(t) ~> ~held[t]
  /\ \A s \in Stopper : stop[s] = "locking" /\ Dead(target[s]) ~> stop[s] # "locking"

(* task_registry.rs says of stop: "SIGKILL via start_kill"; task_stop.rs:  *)
(* "Terminate a background task".                                          *)
StopTerminates ==
  \A s \in Stopper : stop[s] = "locking" ~> Dead(target[s]) \/ stop[s] = "dropped"
=============================================================================
