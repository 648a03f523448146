------------------------------- MODULE Memory -------------------------------
(***************************************************************************)
(* The memory tree of one project (snaca-memory/src/store.rs): one file    *)
(* per entry, the index MEMORY.md, and the writes staged for approval      *)
(* (approval.rs).  Turns write through one store they share, which         *)
(* remembers what it last saw of each entry; the post-turn extractor       *)
(* (engine.rs, spawn_memory_extraction) and the command line use stores of *)
(* their own.  Every access to the disk is a step: nothing locks the tree  *)
(* except the extractor's lock, which only extractors take.                *)
(***************************************************************************)
EXTENDS Naturals, FiniteSets

CONSTANTS
  Entry,
  Turn, Task, Cli,  \* tool calls of turns, extraction tasks, operator commands
  None,
  Version, Bad,     \* the contents there are, and those the threat scanner matches
  Id,               \* ids of staged writes; a staged write never reuses one
  MaxOps,           \* bound: operations begun and the crashes before them
  MaxCrashes        \* bound: server restarts, killed commands, cancelled tool calls and
                    \* failed accesses to the disk

VARIABLES
  approval,  \* memory_write_approval, fixed for a run of the server
  file,      \* the content of each entry, or None
  index,     \* the entries MEMORY.md lists
  seen,      \* the shared store's last-known content of each entry
  pending,   \* the staged writes on disk: their ids
  lock,      \* the extraction that holds the project lock, or None
  job,       \* what each actor is doing
  ops, crashes,
  known,     \* per entry, what tools read or wrote since the server started
  raced,     \* entries the index may miss: another actor had listed the tree when they
             \* were created, or their writer did not come to write the index; until an
             \* index that lists them is written
  staged,    \* what was staged under each id
  landed, rejected   \* the staged writes that were written, and refused

vars == <<approval, file, index, seen, pending, lock, job, ops, crashes, known, raced, staged,
          landed, rejected>>

Actor == Turn \cup Task \cup Cli
Write == [entry : Entry, ver : Version]
Files == {e \in Entry : file[e] # None}

Idle == [pc |-> "idle", entry |-> None, ver |-> None, staged |-> None,
         disk |-> None, base |-> None, listed |-> {}]

Init ==
  /\ approval \in BOOLEAN
  /\ file = [e \in Entry |-> None] /\ index = {}
  /\ seen = [e \in Entry |-> None] /\ known = [e \in Entry |-> {}]
  /\ pending = {} /\ lock = None /\ job = [w \in Actor |-> Idle]
  /\ ops = 0 /\ crashes = 0 /\ raced = {}
  /\ staged = [s \in Id |-> None] /\ landed = {} /\ rejected = {}

At(w, pc) == job[w].pc = pc
Late(w) == At(w, "late_land") \/ At(w, "late_index")
Goto(w, pc) == job' = [job EXCEPT ![w].pc = pc]
Undisturbed == UNCHANGED <<approval, ops, crashes>>
Begun == ops + crashes < MaxOps /\ ops' = ops + 1 /\ UNCHANGED <<approval, crashes>>
StagingSame == UNCHANGED <<pending, staged, landed, rejected>>
DiskSame == UNCHANGED <<file, index, raced>>
StoreSame == UNCHANGED <<seen, known>>

-----------------------------------------------------------------------------
(* MemoryStore::write and write_force.                                     *)

(* write refuses a content the scanner matches, write_force does not scan. *)
Scanned(w, e, v, s) ==
  job' = IF v \in Bad THEN job
         ELSE [job EXCEPT ![w] = [Idle EXCEPT !.pc = "check", !.entry = e, !.ver = v,
                                              !.staged = s]]

Forced(w, e, v, s) ==
  job' = [job EXCEPT ![w] = [Idle EXCEPT !.pc = "land", !.entry = e, !.ver = v, !.staged = s]]

(* A store that was just opened remembers nothing.                         *)
Baseline(w, e) == IF w \in Turn THEN seen[e] ELSE None

Drifted(w) ==
  LET e == job[w].entry IN
  file[e] # None /\ Baseline(w, e) # None /\ Baseline(w, e) # file[e]

(* Mutant: the refused write leaves the new content as the baseline.       *)
MutForget(w) == /\ seen' = [seen EXCEPT ![job[w].entry] = file[job[w].entry]]
                /\ UNCHANGED known

(* The refused writer is told to re-read: the store's record stays.        *)
Forget(w) == StoreSame

CheckDrift(w) ==
  /\ At(w, "check")
  /\ IF Drifted(w)
     THEN /\ job' = [job EXCEPT ![w] = Idle]
          /\ Forget(w)
     ELSE /\ job' = [job EXCEPT ![w].pc = "land", ![w].disk = file[job[w].entry],
                                ![w].base = Baseline(w, job[w].entry)]
          /\ StoreSame
  /\ UNCHANGED <<file, index, raced, lock>> /\ Undisturbed /\ StagingSame

(* The tree is listed and the index not written yet: by the actor, or by a *)
(* write of its cancelled call.                                            *)
Indexing(w) == At(w, "index") \/ At(w, "late_index")

Land(w) ==
  /\ At(w, "land")
  /\ LET e == job[w].entry IN
     /\ file' = [file EXCEPT ![e] = job[w].ver]
     /\ raced' = IF file[e] = None /\ \E o \in Actor \ {w} : Indexing(o)
                 THEN raced \cup {e} ELSE raced
     /\ landed' = IF job[w].staged = None THEN landed ELSE landed \cup {job[w].staged}
  /\ job' = [job EXCEPT ![w].pc = "record", ![w].disk = None, ![w].base = None]
  /\ UNCHANGED <<index, lock, pending, staged, rejected>>
  /\ Undisturbed /\ StoreSame

(* record_hash: only the shared store outlives the call.                   *)
Record(w, e, v) ==
  IF w \in Turn THEN /\ seen' = [seen EXCEPT ![e] = v]
                     /\ known' = [known EXCEPT ![e] = @ \cup {v}]
                ELSE StoreSame

(* Mutant: the index is not regenerated after the write.                   *)
MutAfterRecord(w) == IF job[w].staged = None THEN "idle" ELSE "remove"

AfterRecord(w) == "list"

RecordWrite(w) ==
  /\ At(w, "record")
  /\ Record(w, job[w].entry, job[w].ver)
  /\ Goto(w, AfterRecord(w))
  /\ UNCHANGED lock /\ DiskSame /\ Undisturbed /\ StagingSame

(* regenerate_index: the directories are listed, then the file is written. *)
ListTree(w) ==
  /\ At(w, "list")
  /\ job' = [job EXCEPT ![w].pc = "index", ![w].listed = Files]
  /\ UNCHANGED lock /\ DiskSame /\ Undisturbed /\ StoreSame /\ StagingSame

(* An index of a listing that misses an entry is still to be written.      *)
Missed(w, e) == \E o \in Actor \ {w} : Indexing(o) /\ e \notin job[o].listed

WriteIndex(w) ==
  /\ Indexing(w)
  /\ index' = job[w].listed
  /\ raced' = {e \in raced : e \in job[w].listed => Missed(w, e)}
  /\ job' = [job EXCEPT ![w] =
       IF @.staged # None THEN [Idle EXCEPT !.pc = "remove", !.staged = job[w].staged]
       ELSE IF w \in Task THEN [Idle EXCEPT !.pc = "propose"] ELSE Idle]
  /\ UNCHANGED <<file, lock>> /\ Undisturbed /\ StoreSame /\ StagingSame

-----------------------------------------------------------------------------
(* The tools: MemoryRead of an entry, and MemoryWrite, which stages the    *)
(* write when approval is on.                                              *)

ToolReads(t, e) ==
  /\ At(t, "idle") /\ file[e] # None
  /\ job' = [job EXCEPT ![t] = [Idle EXCEPT !.pc = "read", !.entry = e, !.ver = file[e]]]
  /\ UNCHANGED lock /\ DiskSame /\ Begun /\ StoreSame /\ StagingSame

RecordRead(t) ==
  /\ At(t, "read")
  /\ Record(t, job[t].entry, job[t].ver)
  /\ job' = [job EXCEPT ![t] = Idle]
  /\ UNCHANGED lock /\ DiskSame /\ Undisturbed /\ StagingSame

ToolWrites(t, e, v) ==
  /\ At(t, "idle") /\ ~approval
  /\ Scanned(t, e, v, None)
  /\ UNCHANGED lock /\ DiskSame /\ Begun /\ StoreSame /\ StagingSame

ToolStages(t, e, v, s) ==
  /\ At(t, "idle") /\ approval /\ staged[s] = None
  /\ staged' = [staged EXCEPT ![s] = [entry |-> e, ver |-> v]]
  /\ pending' = pending \cup {s}
  /\ UNCHANGED <<job, lock, landed, rejected>> /\ DiskSame /\ Begun /\ StoreSame

-----------------------------------------------------------------------------
(* The extractor: one task per finished turn, serial under the project's   *)
(* lock; each proposal is forced into the tree.                            *)

Extract(x) ==
  /\ At(x, "idle") /\ Goto(x, "queued")
  /\ UNCHANGED lock /\ DiskSame /\ Begun /\ StoreSame /\ StagingSame

TakeLock(x) ==
  /\ At(x, "queued") /\ lock = None
  /\ lock' = x /\ Goto(x, "propose")
  /\ DiskSame /\ Undisturbed /\ StoreSame /\ StagingSame

Propose(x, e, v) ==
  /\ At(x, "propose")
  /\ Forced(x, e, v, None)
  /\ UNCHANGED lock /\ DiskSame /\ Begun /\ StoreSame /\ StagingSame

FinishExtraction(x) ==
  /\ At(x, "propose")
  /\ lock' = None /\ job' = [job EXCEPT ![x] = Idle]
  /\ DiskSame /\ Undisturbed /\ StoreSame /\ StagingSame

-----------------------------------------------------------------------------
(* The operator's commands (snaca-cli memory approve, reject, import).     *)

Approve(c, s, bypass) ==
  /\ At(c, "idle") /\ s \in pending
  /\ IF bypass THEN Forced(c, staged[s].entry, staged[s].ver, s)
     ELSE Scanned(c, staged[s].entry, staged[s].ver, s)
  /\ UNCHANGED lock /\ DiskSame /\ Begun /\ StoreSame /\ StagingSame

(* After the write; a file that is gone already is only logged.            *)
RemoveApproved(c) ==
  /\ At(c, "remove")
  /\ pending' = pending \ {job[c].staged}
  /\ job' = [job EXCEPT ![c] = Idle]
  /\ UNCHANGED <<lock, staged, landed, rejected>>
  /\ DiskSame /\ Undisturbed /\ StoreSame

Reject(c, s) ==
  /\ At(c, "idle") /\ s \in pending
  /\ job' = [job EXCEPT ![c] = [Idle EXCEPT !.pc = "reject", !.staged = s]]
  /\ UNCHANGED lock /\ DiskSame /\ Begun /\ StoreSame /\ StagingSame

RemoveRejected(c) ==
  /\ At(c, "reject")
  /\ pending' = pending \ {job[c].staged}
  /\ rejected' = IF job[c].staged \in pending THEN rejected \cup {job[c].staged} ELSE rejected
  /\ job' = [job EXCEPT ![c] = Idle]
  /\ UNCHANGED <<lock, staged, landed>> /\ DiskSame /\ Undisturbed /\ StoreSame

Import(c, e, v) ==
  /\ At(c, "idle")
  /\ Forced(c, e, v, None)
  /\ UNCHANGED lock /\ DiskSame /\ Begun /\ StoreSame /\ StagingSame

-----------------------------------------------------------------------------
(* The environment.                                                        *)

(* An editor, or git, changes a file behind the stores' back.              *)
Edit(e, v) ==
  /\ file[e] # None
  /\ file' = [file EXCEPT ![e] = v]
  /\ Begun /\ UNCHANGED <<index, raced, lock, job>>
  /\ StoreSame /\ StagingSame

Unindexed(dead) ==
  {job[w].entry : w \in {x \in dead : \E pc \in {"record", "list", "index"} : At(x, pc)}}

(* Cut off in the middle, before the index it owes is written.             *)
CutOff(w) ==
  /\ crashes < MaxCrashes /\ crashes' = crashes + 1
  /\ raced' = raced \cup Unindexed({w})
  /\ UNCHANGED <<approval, ops, lock, file, index>> /\ StoreSame /\ StagingSame

Kill(c) ==
  /\ ~At(c, "idle")
  /\ job' = [job EXCEPT ![c] = Idle]
  /\ CutOff(c)

(* A turn that is cancelled, recalled or timed out drops the call between  *)
(* two accesses; a write already given to the runtime's pool goes on.      *)
Cancel(t) ==
  /\ ~At(t, "idle") /\ ~Late(t)
  /\ \/ job' = [job EXCEPT ![t] = Idle]
     \/ At(t, "land") /\ Goto(t, "late_land")
     \/ At(t, "index") /\ Goto(t, "late_index")
  /\ CutOff(t)

(* What is left of the call: the entry is on the disk, nobody remembers it *)
(* and nobody regenerates the index.                                       *)
LandLate(t) ==
  /\ At(t, "late_land")
  /\ LET e == job[t].entry IN
     /\ file' = [file EXCEPT ![e] = job[t].ver]
     /\ raced' = IF file[e] = None THEN raced \cup {e} ELSE raced
  /\ job' = [job EXCEPT ![t] = Idle]
  /\ UNCHANGED <<index, lock>> /\ Undisturbed /\ StoreSame /\ StagingSame

(* An access to the disk fails and nothing is written: the tool and the    *)
(* command return the error (a staged write stays staged), the extractor   *)
(* goes on with its next proposal.                                         *)
Fail(w) ==
  /\ \E pc \in {"check", "land", "list", "index", "remove", "reject"} : At(w, pc)
  /\ job' = [job EXCEPT ![w] = IF w \in Task THEN [Idle EXCEPT !.pc = "propose"] ELSE Idle]
  /\ CutOff(w)

(* A restart forgets the shared store, the lock, and all work in progress. *)
Restart ==
  /\ crashes < MaxCrashes /\ crashes' = crashes + 1
  /\ seen' = [e \in Entry |-> None] /\ known' = [e \in Entry |-> {}]
  /\ lock' = None
  /\ job' = [w \in Actor |-> IF w \in Cli THEN job[w] ELSE Idle]
  /\ raced' = raced \cup Unindexed(Turn \cup Task)
  /\ UNCHANGED <<approval, ops, file, index>> /\ StagingSame

Next ==
  \/ \E w \in Actor :
       \/ CheckDrift(w) \/ Land(w) \/ RecordWrite(w) \/ ListTree(w) \/ WriteIndex(w)
       \/ Fail(w)
  \/ \E t \in Turn, e \in Entry :
       \/ ToolReads(t, e)
       \/ \E v \in Version :
            ToolWrites(t, e, v) \/ \E s \in Id : ToolStages(t, e, v, s)
  \/ \E t \in Turn : RecordRead(t) \/ Cancel(t) \/ LandLate(t)
  \/ \E x \in Task :
       \/ Extract(x) \/ TakeLock(x) \/ FinishExtraction(x)
       \/ \E e \in Entry, v \in Version : Propose(x, e, v)
  \/ \E c \in Cli :
       \/ RemoveApproved(c) \/ RemoveRejected(c) \/ Kill(c)
       \/ \E s \in pending : Reject(c, s) \/ \E bypass \in BOOLEAN : Approve(c, s, bypass)
       \/ \E e \in Entry, v \in Version : Import(c, e, v)
  \/ \E e \in Entry, v \in Version : Edit(e, v)
  \/ Restart

Spec == Init /\ [][Next]_vars

-----------------------------------------------------------------------------
(* Every variable stays in its declared range, only one extraction at a    *)
(* time works on the tree (extraction_locks).                               *)
TypeOK ==
  /\ approval \in BOOLEAN /\ ops \in 0..MaxOps /\ crashes \in 0..MaxCrashes
  /\ file \in [Entry -> Version \cup {None}] /\ seen \in [Entry -> Version \cup {None}]
  /\ known \in [Entry -> SUBSET Version]
  /\ index \subseteq Entry /\ raced \subseteq Entry
  /\ staged \in [Id -> Write \cup {None}]
  /\ pending \cup landed \cup rejected \subseteq {s \in Id : staged[s] # None}
  /\ lock \in Task \cup {None}
  /\ \A w \in Actor : job[w].pc \in {"idle", "read", "check", "land", "record", "list", "index",
                                      "queued", "propose", "remove", "reject",
                                      "late_land", "late_index"}
  /\ \A x \in Task : At(x, "idle") \/ At(x, "queued") \/ lock = x

(* The drift check of MemoryStore::write: unless an entry changes between  *)
(* the check and the write, or the store remembered nothing of it, a tool  *)
(* never overwrites a content that no tool of this server read or wrote,   *)
(* however reads, writes, refusals, cancellations and retries of several   *)
(* turns interleave with the extractor, an operator and an editor.         *)
OnlyKnownIsOverwritten ==
  [][\A t \in Turn : Land(t) \/ LandLate(t) =>
       LET e == job[t].entry IN
       \/ job[t].base = None \/ file[e] # job[t].disk
       \/ file[e] = None \/ file[e] \in known[e]]_vars

(* MEMORY.md (regenerate_index): when nobody is at work, the index lists   *)
(* every entry, but for those created while another actor's regeneration   *)
(* was under way and those whose writer died, was cancelled or failed      *)
(* before it wrote the index, and for these only until somebody's next     *)
(* regeneration, which heals them.                                         *)
IndexMissesOnlyRaced ==
  (\A w \in Actor : At(w, "idle") \/ At(w, "queued")) => Files \ raced \subseteq index

(* approval.rs: a staged write waits on disk until it was written or       *)
(* rejected, whatever the scanner, a killed command, a restart or two      *)
(* commands at once do in between.                                         *)
StagedIsNotLost == {s \in Id : staged[s] # None} \subseteq pending \cup landed \cup rejected
=============================================================================
