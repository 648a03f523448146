--------------------------- MODULE PluginRegistry ---------------------------
(***************************************************************************)
(* The registry of plugin processes (crates/snaca-server/src/              *)
(* plugin_registry.rs) for one plugin name: start, reload by operators,    *)
(* the supervisor of every instance, the respawn worker, shutdown_all.     *)
(*                                                                         *)
(* An instance is one spawned process with its dispatcher task and its     *)
(* supervisor task.  The slot map is one variable, as one name is          *)
(* modelled.  PluginHandle::spawn and ::shutdown are awaits other tasks    *)
(* run through; what they do inside is module PluginRpc.  Other plugins    *)
(* are there only in that shutdown_all drains the slots of all of them     *)
(* before it gets to this one's.                                           *)
(***************************************************************************)
EXTENDS Naturals, Sequences, FiniteSets

CONSTANTS
  Operators,      \* admin requests to reload
  MaxDeaths,      \* bound: processes that die on their own
  MaxPanics,      \* bound: dispatchers that panic
  MaxFailures     \* bound: spawns that fail

(* The tasks that insert or remove slots.                                  *)
Job == {"startup", "worker", "shutdown"} \cup Operators

ASSUME RegistryAssumption ==
  /\ {"startup", "worker", "shutdown"} \cap Operators = {} /\ IsFiniteSet(Operators)
  /\ {MaxDeaths, MaxPanics, MaxFailures} \subseteq Nat

MaxInstances == 1 + MaxDeaths + MaxPanics + Cardinality(Operators)
Inst   == 1 .. MaxInstances
InstId == 0 .. MaxInstances       \* 0: none

VARIABLES
  slot,          \* the instance in the slot map
  proc,          \* "none", "live" or "dead"
  dispatcher,    \* "none", "running" or "ended"
  asked,         \* shutdown_requested
  supervisor,    \* the supervisor task of an instance
  count,         \* reload_count of an instance
  requests,      \* the respawn channel: restart counts
  pc,            \* where a job stands
  own, next,     \* the instance a job stops or registers; the count it will give
  deaths, panics, failures,
  collided,      \* history: a slot was taken while a respawn was under way
  late           \* history: a restart asked for between drain and flag

instances == <<proc, dispatcher, asked, supervisor, count>>
jobs      == <<pc, own, next>>
bounds    == <<deaths, panics, failures>>
history   == <<collided, late>>
vars == <<slot, instances, requests, jobs, bounds, history>>

Init ==
  /\ slot = 0
  /\ proc = [i \in Inst |-> "none"] /\ dispatcher = [i \in Inst |-> "none"]
  /\ asked = [i \in Inst |-> FALSE] /\ supervisor = [i \in Inst |-> "none"]
  /\ count = [i \in Inst |-> 0]
  /\ requests = <<>>
  /\ pc = [j \in Job |-> IF j = "startup" THEN "spawning" ELSE "idle"]
  /\ own = [j \in Job |-> 0] /\ next = [j \in Job |-> 0]
  /\ deaths = 0 /\ panics = 0 /\ failures = 0
  /\ collided = FALSE /\ late = FALSE

Respawning ==
  \/ requests # <<>> \/ pc["worker"] # "idle"
  \/ \E i \in Inst : supervisor[i] = "sending"

Inserting == Respawning \/ \E j \in Job : pc[j] \in {"spawning", "registering"}

-----------------------------------------------------------------------------
(* insert_with_count.                                                      *)

Spawns(j) ==
  /\ pc[j] = "spawning"
  /\ \E i \in Inst :
       /\ proc[i] = "none" /\ \A k \in Inst : k < i => proc[k] # "none"
       /\ proc' = [proc EXCEPT ![i] = "live"]
       /\ dispatcher' = [dispatcher EXCEPT ![i] = "running"]
       /\ count' = [count EXCEPT ![i] = next[j]]
       /\ own' = [own EXCEPT ![j] = i]
  /\ pc' = [pc EXCEPT ![j] = "registering"]
  /\ UNCHANGED <<slot, asked, supervisor, requests, next, bounds, history>>

(* The error is logged or returned; nothing is put back.                   *)
SpawnFails(j) ==
  /\ pc[j] = "spawning" /\ failures < MaxFailures
  /\ failures' = failures + 1
  /\ pc' = [pc EXCEPT ![j] = IF j = "worker" THEN "idle" ELSE "done"]
  /\ UNCHANGED <<slot, instances, requests, own, next, deaths, panics, history>>

(* Mutant: the supervisor is started only by the startup insert.           *)
MutRegisters(j) ==
  /\ pc[j] = "registering"
  /\ slot' = own[j]
  /\ supervisor' = IF j = "startup" THEN [supervisor EXCEPT ![own[j]] = "watching"] ELSE supervisor
  /\ pc' = [pc EXCEPT ![j] = IF j = "worker" THEN "idle" ELSE "done"]
  /\ UNCHANGED <<proc, dispatcher, asked, count, requests, own, next, bounds, history>>

(* The slot is written whatever it holds, then the supervisor starts.      *)
Registers(j) ==
  /\ pc[j] = "registering"
  /\ slot' = own[j]
  /\ supervisor' = [supervisor EXCEPT ![own[j]] = "watching"]
  /\ pc' = [pc EXCEPT ![j] = IF j = "worker" THEN "idle" ELSE "done"]
  /\ UNCHANGED <<proc, dispatcher, asked, count, requests, own, next, bounds, history>>

-----------------------------------------------------------------------------
(* reload and shutdown_all.  A reload takes the slot and flags the         *)
(* supervisor without an await between them.                               *)

(* An empty slot is answered with an error at once.                        *)
Reload(o) ==
  /\ pc[o] = "idle"
  /\ \/ /\ slot # 0
        /\ slot' = 0
        /\ asked' = [asked EXCEPT ![slot] = TRUE]
        /\ own' = [own EXCEPT ![o] = slot]
        /\ pc' = [pc EXCEPT ![o] = "stopping"]
        /\ next' = [next EXCEPT ![o] = count[slot] + 1]
        /\ collided' = (collided \/ Respawning)
        /\ UNCHANGED <<proc, dispatcher, supervisor, count, requests, bounds, late>>
     \/ /\ slot = 0
        /\ pc' = [pc EXCEPT ![o] = "done"]
        /\ UNCHANGED <<slot, instances, requests, own, next, bounds, history>>

(* The slots of all plugins are drained at once.                           *)
ShutdownAll ==
  /\ pc["shutdown"] = "idle"
  /\ \/ /\ slot # 0 /\ slot' = 0
        /\ own' = [own EXCEPT !["shutdown"] = slot]
        /\ pc' = [pc EXCEPT !["shutdown"] = "drained"]
     \/ /\ slot = 0
        /\ pc' = [pc EXCEPT !["shutdown"] = "done"]
        /\ UNCHANGED <<slot, own>>
  /\ collided' = (collided \/ Inserting \/ \E o \in Operators : pc[o] = "stopping")
  /\ UNCHANGED <<instances, requests, next, bounds, late>>

(* The loop reaches this plugin, after it has awaited the shutdown of      *)
(* those before it.                                                        *)
FlagsDrained ==
  /\ pc["shutdown"] = "drained"
  /\ asked' = [asked EXCEPT ![own["shutdown"]] = TRUE]
  /\ pc' = [pc EXCEPT !["shutdown"] = "stopping"]
  /\ UNCHANGED <<slot, proc, dispatcher, supervisor, count, requests, own, next, bounds, history>>

(* Mutant: only the dispatcher is stopped, the process is left running.    *)
MutStops(j) ==
  /\ pc[j] = "stopping"
  /\ dispatcher' = [dispatcher EXCEPT ![own[j]] = "ended"]
  /\ pc' = [pc EXCEPT ![j] = IF j = "shutdown" THEN "done" ELSE "spawning"]
  /\ UNCHANGED <<slot, proc, asked, supervisor, count, requests, own, next, bounds, history>>

(* shutdown() returns with the process reaped, then the dispatcher is      *)
(* aborted; a reload goes on to spawn.                                     *)
Stops(j) ==
  /\ pc[j] = "stopping"
  /\ proc' = [proc EXCEPT ![own[j]] = "dead"]
  /\ dispatcher' = [dispatcher EXCEPT ![own[j]] = "ended"]
  /\ pc' = [pc EXCEPT ![j] = IF j = "shutdown" THEN "done" ELSE "spawning"]
  /\ UNCHANGED <<slot, asked, supervisor, count, requests, own, next, bounds, history>>

-----------------------------------------------------------------------------
(* An instance: its process, dispatcher and supervisor.                    *)

ProcessDies(i) ==
  /\ proc[i] = "live" /\ deaths < MaxDeaths
  /\ deaths' = deaths + 1
  /\ proc' = [proc EXCEPT ![i] = "dead"]
  /\ UNCHANGED <<slot, dispatcher, asked, supervisor, count, requests, jobs, panics, failures, history>>

DispatcherEnds(i) ==
  /\ proc[i] = "dead" /\ dispatcher[i] = "running"
  /\ dispatcher' = [dispatcher EXCEPT ![i] = "ended"]
  /\ UNCHANGED <<slot, proc, asked, supervisor, count, requests, jobs, bounds, history>>

(* The process lives on until its next event finds the channel closed.     *)
DispatcherPanics(i) ==
  /\ dispatcher[i] = "running" /\ panics < MaxPanics
  /\ panics' = panics + 1
  /\ dispatcher' = [dispatcher EXCEPT ![i] = "ended"]
  /\ UNCHANGED <<slot, proc, asked, supervisor, count, requests, jobs, deaths, failures, history>>

OrphanExits(i) ==
  /\ proc[i] = "live" /\ dispatcher[i] = "ended"
  /\ proc' = [proc EXCEPT ![i] = "dead"]
  /\ UNCHANGED <<slot, dispatcher, asked, supervisor, count, requests, jobs, bounds, history>>

Supervise(i, s) ==
  /\ supervisor' = [supervisor EXCEPT ![i] = s]
  /\ UNCHANGED <<slot, proc, dispatcher, asked, count, jobs, bounds, collided>>

SupervisorSees(i) ==
  /\ supervisor[i] = "watching" /\ dispatcher[i] = "ended"
  /\ Supervise(i, IF asked[i] THEN "done" ELSE "backoff")
  /\ UNCHANGED <<requests, late>>

(* RESPAWN_BACKOFF is over.                                                *)
SupervisorWakes(i) ==
  /\ supervisor[i] = "backoff"
  /\ Supervise(i, IF asked[i] THEN "done" ELSE "sending")
  /\ late' = (late \/ (~asked[i] /\ pc["shutdown"] = "drained" /\ own["shutdown"] = i))
  /\ UNCHANGED requests

SupervisorSends(i) ==
  /\ supervisor[i] = "sending"
  /\ Supervise(i, "done")
  /\ requests' = Append(requests, count[i] + 1)
  /\ UNCHANGED late

WorkerTakes ==
  /\ pc["worker"] = "idle" /\ requests # <<>>
  /\ requests' = Tail(requests)
  /\ next' = [next EXCEPT !["worker"] = Head(requests)]
  /\ pc' = [pc EXCEPT !["worker"] = "spawning"]
  /\ UNCHANGED <<slot, instances, own, bounds, history>>

JobStep(j) == Spawns(j) \/ Registers(j) \/ Stops(j)

InstanceStep(i) ==
  DispatcherEnds(i) \/ SupervisorSees(i) \/ SupervisorWakes(i) \/ SupervisorSends(i)

Next ==
  \/ \E j \in Job : JobStep(j) \/ SpawnFails(j)
  \/ \E o \in Operators : Reload(o)
  \/ ShutdownAll \/ FlagsDrained \/ WorkerTakes
  \/ \E i \in Inst :
       InstanceStep(i) \/ ProcessDies(i) \/ DispatcherPanics(i) \/ OrphanExits(i)

Spec == Init /\ [][Next]_vars

(* Tasks run, spawn and shutdown return (each has timeouts; the one hole   *)
(* in them is module PluginRpc's).                                         *)
Fairness ==
  /\ \A j \in Job : WF_vars(JobStep(j))
  /\ \A i \in Inst : WF_vars(InstanceStep(i))
  /\ WF_vars(FlagsDrained) /\ WF_vars(WorkerTakes)

FairSpec == Spec /\ Fairness

-----------------------------------------------------------------------------
(* Properties.                                                             *)

(* Every variable stays in its declared range; a registered instance has a *)
(* process, a dispatcher and a supervisor.                                 *)
TypeOK ==
  /\ slot \in InstId
  /\ proc \in [Inst -> {"none", "live", "dead"}]
  /\ dispatcher \in [Inst -> {"none", "running", "ended"}]
  /\ asked \in [Inst -> BOOLEAN]
  /\ supervisor \in [Inst -> {"none", "watching", "backoff", "sending", "done"}]
  /\ count \in [Inst -> Nat] /\ requests \in Seq(Nat)
  /\ pc \in [Job -> {"idle", "drained", "stopping", "spawning", "registering", "done"}]
  /\ own \in [Job -> InstId] /\ next \in [Job -> Nat]
  /\ {deaths, panics, failures} \subseteq Nat /\ {collided, late} \subseteq BOOLEAN
  /\ slot # 0 => proc[slot] # "none" /\ supervisor[slot] # "none"

Live == {i \in Inst : proc[i] = "live"}

(* plugin_registry.rs says of reloads that taking the slot leaves the      *)
(* insert "nothing to collide with", and of the flag that the supervisor   *)
(* "doesn't double-respawn": at most one process of a plugin is alive.     *)
OneProcess == panics = 0 => Cardinality(Live) <= 1

(* It holds in every interleaving of reloads, crashes, failed spawns and   *)
(* respawns but one: a slot taken while a respawn is already on its way.   *)
OneProcessUnlessCollided == ~collided => OneProcess

(* After shutdown_all has returned no process is left, and none comes      *)
(* back: the supervisor is told "so it doesn't race in a respawn while     *)
(* the binary is exiting".                                                 *)
StoppedStaysStopped ==
  ~collided /\ panics = 0 /\ pc["shutdown"] = "done" => Live = {}

(* It does when a supervisor wakes between the drain of all slots and the  *)
(* moment the loop reaches its plugin's.                                   *)
StoppedUnlessLate == ~late => StoppedStaysStopped

(* Both: from start-up to shut-down a plugin has one process, also in a    *)
(* shutdown a restart races with; and then none.                           *)
OneProcessUntilStopped == OneProcessUnlessCollided /\ StoppedUnlessLate

(* A plugin that died is back in service eventually, unless a spawn failed *)
(* or the server shuts down.                                               *)
InService == slot # 0 /\ proc[slot] = "live" /\ dispatcher[slot] = "running"

CrashIsRepaired ==
  slot # 0 /\ ~InService ~> InService \/ failures > 0 \/ pc["shutdown"] # "idle"
=============================================================================
