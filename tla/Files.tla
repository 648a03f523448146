-------------------------------- MODULE Files ---------------------------------
(***************************************************************************)
(* One file of a project's workspace and the chats that are bound to the   *)
(* project: the tools Read, Edit and MultiEdit with the record of what a   *)
(* thread has read (crates/snaca-tools/src/read.rs, edit.rs, multi_edit.rs,*)
(* crates/snaca-tools-api/src/context.rs), Write (write.rs), and the       *)
(* attachments the dispatcher puts into the workspace (dispatch.rs,        *)
(* engine.rs).  The tool calls of one chat that write do not overlap,      *)
(* those of several chats do.                                              *)
(*                                                                         *)
(* A text never comes back, so of a record and of what a model was shown   *)
(* only matters whether it is still true of the file.  Each access to the  *)
(* disk is a step; a write is one step, the moment in which the file is    *)
(* truncated but not yet written is left out.                              *)
(***************************************************************************)
EXTENDS Integers

CONSTANTS
  Chat,          \* chats bound to the project, each with a thread
  MaxAbandoned   \* bound: writes of cancelled turns on their way at a time

VARIABLES
  exists,
  record,    \* read_trackers[thread]: of all lines or a slice; do mtime and size match?
  shown,     \* is this text one that Read gave the thread whole, or that its tools made of one?
  op,        \* the tool call a chat's turn is in
  abandoned, \* writes of cancelled turns that are still to land
  crossed    \* did a write reach the file of the record that the gate could not notice?

fileVars == <<exists, record, shown, op, abandoned, crossed>>

(* Of a Read: do the metadata it found and the text it read still hold,    *)
(* and did a write escape the metadata?  Of an Edit: was the text that it  *)
(* changes one its thread was shown?                                       *)
Call == [kind : {"none", "read", "edit", "write"},
         at : {"none", "reading", "recording", "writing"},
         meta : BOOLEAN, text : BOOLEAN, blind : BOOLEAN]

At(kind, at) == [kind |-> kind, at |-> at, meta |-> FALSE, text |-> FALSE, blind |-> FALSE]
Idle   == At("none", "none")
Record == [view : {"none", "all", "slice"}, matches : BOOLEAN]
NoRecord == [view |-> "none", matches |-> FALSE]

TypeOK ==
  /\ exists \in BOOLEAN
  /\ record \in [Chat -> Record]
  /\ shown \in [Chat -> BOOLEAN]
  /\ op \in [Chat -> Call]
  /\ abandoned \in 0..MaxAbandoned
  /\ crossed \in [Chat -> BOOLEAN]

Init ==
  /\ exists \in BOOLEAN
  /\ record = [c \in Chat |-> NoRecord]
  /\ shown = [c \in Chat |-> FALSE]
  /\ op = [c \in Chat |-> Idle]
  /\ abandoned = 0
  /\ crossed = [c \in Chat |-> FALSE]

(* What another's write does to the call: a Read in it misses the text.    *)
Disturbed(call, seen) ==
  IF call.kind # "read" THEN call
  ELSE [call EXCEPT !.text = FALSE, !.meta = @ /\ ~seen, !.blind = @ \/ (~seen /\ call.meta)]

(* The file gets another text, which the chats of knowing know.  A write   *)
(* that keeps the size within one tick of the file system's clock is not   *)
(* seen in the metadata; one of another chat that lands while an Edit is   *)
(* past its gate is not looked for.                                        *)
Changes(by, knowing, next) ==
  /\ shown' = [c \in Chat |-> c \in knowing]
  /\ \E seen \in BOOLEAN :
       /\ record' = [c \in Chat |-> [record[c] EXCEPT !.matches = @ /\ ~seen]]
       /\ crossed' = [c \in Chat |->
            \/ crossed[c]
            \/ ~seen /\ record[c].matches
            \/ c \notin by /\ op[c].kind = "edit"]
       /\ op' = [c \in Chat |-> IF c \in by THEN next ELSE Disturbed(op[c], seen)]

Lands(by, knowing, next) == exists' = TRUE /\ Changes(by, knowing, next)

-----------------------------------------------------------------------------
(* Read: the metadata, the bytes, and the record with the metadata of      *)
(* before the bytes.                                                       *)

ReadLooks(c) ==
  /\ op[c] = Idle /\ exists
  /\ op' = [op EXCEPT ![c] = [At("read", "reading") EXCEPT !.meta = TRUE]]
  /\ UNCHANGED <<exists, record, shown, abandoned, crossed>>

ReadReads(c) ==
  /\ op[c].kind = "read" /\ op[c].at = "reading"
  /\ op' = [op EXCEPT ![c] = IF exists THEN [@ EXCEPT !.at = "recording", !.text = TRUE] ELSE Idle]
  /\ UNCHANGED <<exists, record, shown, abandoned, crossed>>

RecordMatches(c) == op[c].meta

(* record_partial_read: with offset, or past limit, it is a slice.         *)
ReadRecords(c) ==
  /\ op[c].kind = "read" /\ op[c].at = "recording"
  /\ \E view \in {"all", "slice"} :
       /\ record' = [record EXCEPT ![c] = [view |-> view, matches |-> RecordMatches(c)]]
       /\ shown' = [shown EXCEPT ![c] = @ \/ (view = "all" /\ op[c].text)]
  /\ crossed' = [crossed EXCEPT ![c] = op[c].blind]
  /\ op' = [op EXCEPT ![c] = Idle]
  /\ UNCHANGED <<exists, abandoned>>

-----------------------------------------------------------------------------
(* Edit and MultiEdit: the metadata and the gate, the bytes, the write,    *)
(* and a record with the metadata of after it.                             *)

(* Read before Edit, of the whole file, and no change since.               *)
MayEdit(c) == exists /\ record[c].view = "all" /\ record[c].matches

EditLooks(c) ==
  /\ op[c] = Idle
  /\ MayEdit(c)
  /\ op' = [op EXCEPT ![c] = At("edit", "reading")]
  /\ UNCHANGED <<exists, record, shown, abandoned, crossed>>

(* The pattern may not be there, or too often.                             *)
EditReads(c) ==
  /\ op[c].kind = "edit" /\ op[c].at = "reading"
  /\ \/ op' = [op EXCEPT ![c] = Idle]
     \/ exists /\ op' = [op EXCEPT ![c] = [At("edit", "writing") EXCEPT !.text = shown[c]]]
  /\ UNCHANGED <<exists, record, shown, abandoned, crossed>>

EditWrites(c) ==
  /\ op[c].kind = "edit" /\ op[c].at = "writing"
  /\ Lands({c}, IF op[c].text THEN {c} ELSE {}, At("edit", "recording"))
  /\ UNCHANGED abandoned

EditRecords(c) ==
  /\ op[c].kind = "edit" /\ op[c].at = "recording"
  /\ record' = IF exists THEN [record EXCEPT ![c] = [view |-> "all", matches |-> TRUE]] ELSE record
  /\ op' = [op EXCEPT ![c] = Idle]
  /\ UNCHANGED <<exists, shown, abandoned, crossed>>

-----------------------------------------------------------------------------
(* Write asks for no Read and records none.                                *)

WriteStarts(c) ==
  /\ op[c] = Idle
  /\ op' = [op EXCEPT ![c] = At("write", "writing")]
  /\ UNCHANGED <<exists, record, shown, abandoned, crossed>>

WriteLands(c) ==
  /\ op[c].kind = "write"
  /\ Lands({c}, {c}, Idle)
  /\ UNCHANGED abandoned

(* stage_attachment overwrites the file of that name.                      *)
Stage == Lands({}, {}, Idle) /\ UNCHANGED abandoned

(* A command of Bash, in the foreground or not, writes or removes it.      *)
Command ==
  /\ \/ Lands({}, {}, Idle)
     \/ exists /\ exists' = FALSE /\ Changes({}, {}, Idle)
  /\ UNCHANGED abandoned

-----------------------------------------------------------------------------
(* A recall, /cancel or the time limit drops the future of the tool call.  *)
(* A write that tokio::fs has handed to its pool is not undone: it lands   *)
(* when it will, perhaps in the thread's next turn.                        *)
Cancel(c) ==
  /\ op[c] # Idle
  /\ op' = [op EXCEPT ![c] = Idle]
  /\ \/ UNCHANGED abandoned
     \/ op[c].at = "writing" /\ abandoned < MaxAbandoned /\ abandoned' = abandoned + 1
  /\ UNCHANGED <<exists, record, shown, crossed>>

AbandonedLands ==
  /\ abandoned > 0
  /\ abandoned' = abandoned - 1
  /\ Lands({}, {}, Idle)

(* The trackers are in memory, the histories in the database.              *)
Restart ==
  /\ record' = [c \in Chat |-> NoRecord]
  /\ op' = [c \in Chat |-> Idle]
  /\ abandoned' = 0
  /\ crossed' = [c \in Chat |-> FALSE]
  /\ UNCHANGED <<exists, shown>>

Next ==
  \/ \E c \in Chat :
       \/ ReadLooks(c) \/ ReadReads(c) \/ ReadRecords(c)
       \/ EditLooks(c) \/ EditReads(c) \/ EditWrites(c) \/ EditRecords(c)
       \/ WriteStarts(c) \/ WriteLands(c) \/ Cancel(c)
  \/ Stage \/ Command \/ AbandonedLands \/ Restart

Spec == Init /\ [][Next]_fileVars

-----------------------------------------------------------------------------
(* edit.rs: the text an Edit changes is one that a Read of the thread gave *)
(* whole or that its own tools made of such a one, unless a write escaped  *)
(* the metadata or another writer came between the gate and the write.     *)
EditsAreInformed ==
  \A c \in Chat : op[c].kind = "edit" /\ op[c].at = "writing" => op[c].text \/ crossed[c]
=============================================================================
