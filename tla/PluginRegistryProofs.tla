------------------------- MODULE PluginRegistryProofs -------------------------
(***************************************************************************)
(* Theorems about PluginRegistry, for every set of operators and every     *)
(* value of the bounds.                                                    *)
(***************************************************************************)
EXTENDS PluginRegistry, TLAPS, FiniteSetTheorems

Active(j) == pc[j] \in {"drained", "stopping", "spawning", "registering"}

(* A job stops or registers an instance that was spawned.  The one it      *)
(* stops is supervised and out of the slot; the one it registers was       *)
(* spawned for it: it has no supervisor yet, nobody asked it to stop, and  *)
(* no other job registers it.                                              *)
OwnIsSpawned ==
  \A j \in Job :
    /\ pc[j] \in {"drained", "stopping", "registering"} => own[j] # 0 /\ proc[own[j]] # "none"
    /\ pc[j] \in {"drained", "stopping"} => supervisor[own[j]] # "none" /\ slot # own[j]

RegisteringIsNew ==
  \A j \in Job : pc[j] = "registering" =>
    /\ supervisor[own[j]] = "none" /\ ~asked[own[j]]
    /\ \A k \in Job : pc[k] = "registering" /\ own[k] = own[j] => k = j

UnusedIsNew == \A i \in Inst : proc[i] = "none" => supervisor[i] = "none" /\ ~asked[i]

(* Where the three fixed jobs can stand; only the shutdown drains.         *)
JobPhases ==
  /\ pc["startup"]  \in {"spawning", "registering", "done"}
  /\ pc["worker"]   \in {"idle", "spawning", "registering"}
  /\ pc["shutdown"] \in {"idle", "drained", "stopping", "done"}
  /\ \A o \in Operators : pc[o] # "drained"

Shape == TypeOK /\ OwnIsSpawned /\ RegisteringIsNew /\ UnusedIsNew /\ JobPhases

(* The rest holds until a slot is taken while a respawn is under way or a  *)
(* dispatcher panics.  A live process is in the slot, or in the hands of a *)
(* job that stops or registers it.                                         *)
LiveIsHeld ==
  \A i \in Live :
    slot = i \/ \E j \in Job : own[j] = i /\ pc[j] \in {"drained", "stopping", "registering"}

(* A shutdown whose flag came late has nothing left to stop: the process   *)
(* it drained is dead.                                                     *)
LateIsDead ==
  late => /\ pc["shutdown"] # "idle"
          /\ pc["shutdown"] # "done" => proc[own["shutdown"]] = "dead"

(* One job at a time is at work, and while start-up, a reload or the       *)
(* shutdown is, the slot is empty and no respawn is on its way.            *)
Busy(j) == Active(j) /\ ~(j = "shutdown" /\ late)

JobsExclude ==
  /\ \A j, k \in Job \ {"worker"} : Busy(j) /\ Busy(k) => j = k
  /\ \A j \in Job \ {"worker"} : Busy(j) => slot = 0 /\ ~Respawning

(* While a restart is requested or the worker is at it, the slot is empty  *)
(* or holds the instance it replaces: dead, its supervisor finished.       *)
Requested == requests # <<>> \/ pc["worker"] # "idle"

RespawnReplaces ==
  /\ Requested /\ slot # 0 => proc[slot] = "dead" /\ supervisor[slot] = "done"
  /\ requests # <<>> => Len(requests) = 1 /\ pc["worker"] = "idle"

(* A supervisor that may still ask for a restart is that of the instance   *)
(* in the slot, or of the one that was drained: before it wakes the flag   *)
(* is still to come, after that it came late.                              *)
Asking(i) ==
  \/ supervisor[i] = "sending"
  \/ supervisor[i] \in {"watching", "backoff"} /\ ~asked[i]

Drained(i) ==
  /\ own["shutdown"] = i /\ slot = 0 /\ ~Requested
  /\ IF supervisor[i] = "sending" THEN late ELSE ~late /\ pc["shutdown"] = "drained"

SupervisorIsCurrent ==
  \A i \in Inst :
    /\ Asking(i) => slot = i \/ Drained(i)
    /\ supervisor[i] \in {"backoff", "sending"} => proc[i] = "dead"

(* Nobody asked the instance in the slot to stop, and only a dead process  *)
(* ends its dispatcher.                                                    *)
SlotIsWanted == slot # 0 => ~asked[slot]
EndedIsDead  == \A i \in Inst : dispatcher[i] = "ended" => proc[i] = "dead"

(* After shutdown_all has taken the slot nothing else is at work, unless a *)
(* supervisor woke before its flag.                                        *)
ShutdownIsLast ==
  pc["shutdown"] # "idle" /\ ~late =>
    slot = 0 /\ ~Respawning /\ \A j \in Job \ {"shutdown"} : ~Active(j)

Calm == ~collided /\ panics = 0
Order == /\ LiveIsHeld /\ LateIsDead /\ JobsExclude /\ RespawnReplaces /\ SupervisorIsCurrent
         /\ SlotIsWanted /\ EndedIsDead /\ ShutdownIsLast

IInv == Shape /\ (Calm => Order)

-----------------------------------------------------------------------------
(* Types, and what is true of own instances in every behaviour.            *)

LEMMA InstType == MaxInstances \in Nat \ {0} /\ Inst \subseteq Nat \ {0} /\ InstId = Inst \cup {0}
<1>1. Cardinality(Operators) \in Nat
  BY FS_CardinalityType, RegistryAssumption
<1>2. MaxInstances \in Nat \ {0}
  BY <1>1, RegistryAssumption DEF MaxInstances
<1>3. QED
  BY <1>2 DEF Inst, InstId

LEMMA ShapeInit == Init => Shape
<1> SUFFICES ASSUME Init PROVE Shape
  OBVIOUS
<1>1. TypeOK
  <2>1. <<>> \in Seq(Nat) /\ 0 \in InstId /\ slot = 0
    BY InstType DEF Init
  <2>2. pc \in [Job -> {"idle", "drained", "stopping", "spawning", "registering", "done"}]
    BY DEF Init
  <2>3. /\ own \in [Job -> InstId] /\ next \in [Job -> Nat]
        /\ {deaths, panics, failures} \subseteq Nat /\ {collided, late} \subseteq BOOLEAN
    <3>1. own \in [Job -> InstId]
      BY <2>1 DEF Init
    <3>2. next \in [Job -> Nat]
      BY DEF Init
    <3>3. {deaths, panics, failures} \subseteq Nat
      BY DEF Init
    <3>4. {collided, late} \subseteq BOOLEAN
      BY DEF Init
    <3>5. QED
      BY <3>1, <3>2, <3>3, <3>4
  <2>4. /\ proc \in [Inst -> {"none", "live", "dead"}]
        /\ dispatcher \in [Inst -> {"none", "running", "ended"}] /\ asked \in [Inst -> BOOLEAN]
        /\ supervisor \in [Inst -> {"none", "watching", "backoff", "sending", "done"}]
        /\ count \in [Inst -> Nat] /\ requests \in Seq(Nat)
    BY <2>1 DEF Init
  <2>5. QED
    BY <2>1, <2>2, <2>3, <2>4 DEF TypeOK
<1>2. QED
  BY <1>1, RegistryAssumption
     DEF Init, Shape, OwnIsSpawned, RegisteringIsNew, UnusedIsNew, JobPhases, Job

(* A job leaves its spawn or its registration for a phase of its own.      *)
LEMMA ShapeSpawns ==
  ASSUME Shape, NEW j \in Job, Spawns(j)
  PROVE  Shape'
<1>1. PICK i \in Inst :
        /\ proc[i] = "none" /\ pc[j] = "spawning"
        /\ proc' = [proc EXCEPT ![i] = "live"]
        /\ dispatcher' = [dispatcher EXCEPT ![i] = "running"]
        /\ count' = [count EXCEPT ![i] = next[j]]
        /\ own' = [own EXCEPT ![j] = i]
        /\ pc' = [pc EXCEPT ![j] = "registering"]
        /\ UNCHANGED <<slot, asked, supervisor, requests, next, bounds, history>>
  BY DEF Spawns
<1>2. i \in InstId /\ i # 0
  BY InstType
<1>3. TypeOK'
  BY <1>1, <1>2, InstType DEF Shape, TypeOK, bounds, history
<1>4. supervisor[i] = "none" /\ ~asked[i]
  BY <1>1 DEF Shape, UnusedIsNew
<1>5. OwnIsSpawned' /\ RegisteringIsNew' /\ UnusedIsNew'
  BY <1>1, <1>2, <1>4 DEF Shape, TypeOK, OwnIsSpawned, RegisteringIsNew, UnusedIsNew
<1>6. JobPhases'
  BY <1>1 DEF Shape, TypeOK, JobPhases
<1>7. QED
  BY <1>3, <1>5, <1>6 DEF Shape

LEMMA ShapeRegisters ==
  ASSUME Shape, NEW j \in Job, Registers(j)
  PROVE  Shape'
<1>1. /\ pc[j] = "registering" /\ slot' = own[j]
      /\ supervisor' = [supervisor EXCEPT ![own[j]] = "watching"]
      /\ UNCHANGED <<proc, dispatcher, asked, count, requests, own, next, bounds, history>>
  BY DEF Registers
<1>2. PICK q \in {"idle", "done"} : pc' = [pc EXCEPT ![j] = q] /\ (q = "idle" <=> j = "worker")
  BY DEF Registers
<1>3. own[j] \in Inst /\ proc[own[j]] # "none"
  BY <1>1, InstType DEF Shape, TypeOK, OwnIsSpawned
<1>4. TypeOK'
  BY <1>1, <1>2, <1>3, InstType DEF Shape, TypeOK, bounds, history
<1>5. OwnIsSpawned'
  BY <1>1, <1>2 DEF Shape, TypeOK, OwnIsSpawned, RegisteringIsNew
<1>6. RegisteringIsNew' /\ UnusedIsNew'
  BY <1>1, <1>2, <1>3, InstType DEF Shape, TypeOK, RegisteringIsNew, UnusedIsNew
<1>7. JobPhases'
  BY <1>1, <1>2, RegistryAssumption DEF Shape, TypeOK, JobPhases
<1>8. QED
  BY <1>4, <1>5, <1>6, <1>7 DEF Shape

(* A reload takes the slot and flags its supervisor, the shutdown takes it *)
(* and does not.                                                           *)
LEMMA ShapeTakesSlot ==
  ASSUME Shape, NEW j \in Operators \cup {"shutdown"}, NEW q \in {"drained", "stopping"},
         q = "drained" => j = "shutdown", slot # 0, slot' = 0,
         asked' \in [Inst -> BOOLEAN], \A i \in Inst : i # slot => asked'[i] = asked[i],
         own' = [own EXCEPT ![j] = slot], pc' = [pc EXCEPT ![j] = q],
         UNCHANGED <<proc, dispatcher, supervisor, count, requests, bounds>>,
         next' \in [Job -> Nat], {collided', late'} \subseteq BOOLEAN
  PROVE  Shape'
<1>1. slot \in Inst /\ proc[slot] # "none" /\ supervisor[slot] # "none" /\ j \in Job
  BY InstType DEF Shape, TypeOK, Job
<1>2. TypeOK'
  BY <1>1, InstType DEF Shape, TypeOK, bounds
<1>3. OwnIsSpawned'
  BY <1>1, InstType DEF Shape, TypeOK, OwnIsSpawned
<1>4. UnusedIsNew'
  BY <1>1 DEF Shape, UnusedIsNew
<1>5. RegisteringIsNew'
  <2>1. ASSUME NEW k \in Job, pc'[k] = "registering"
        PROVE  k # j /\ pc[k] = "registering" /\ own'[k] = own[k] /\ own[k] \in Inst
    BY <1>1, <2>1, InstType DEF Shape, TypeOK, OwnIsSpawned
  <2>2. QED
    BY <1>1, <2>1 DEF Shape, RegisteringIsNew
<1>6. JobPhases'
  BY <1>1, RegistryAssumption DEF Shape, TypeOK, JobPhases
<1>7. QED
  BY <1>2, <1>3, <1>4, <1>5, <1>6 DEF Shape

LEMMA ShapeFlags ==
  ASSUME Shape, FlagsDrained
  PROVE  Shape'
<1>1. /\ pc["shutdown"] = "drained" /\ pc' = [pc EXCEPT !["shutdown"] = "stopping"]
      /\ asked' = [asked EXCEPT ![own["shutdown"]] = TRUE]
      /\ UNCHANGED <<slot, proc, dispatcher, supervisor, count, requests, own, next, bounds, history>>
  BY DEF FlagsDrained
<1>2. /\ "shutdown" \in Job /\ own["shutdown"] \in Inst /\ proc[own["shutdown"]] # "none"
      /\ supervisor[own["shutdown"]] # "none"
  BY <1>1, InstType DEF Shape, TypeOK, OwnIsSpawned, Job
<1>3. TypeOK'
  BY <1>1, <1>2 DEF Shape, TypeOK, bounds, history
<1>4. OwnIsSpawned' /\ UnusedIsNew'
  BY <1>1, <1>2 DEF Shape, TypeOK, OwnIsSpawned, UnusedIsNew
<1>5. RegisteringIsNew'
  BY <1>1, <1>2 DEF Shape, TypeOK, RegisteringIsNew
<1>6. JobPhases'
  BY <1>1, RegistryAssumption DEF Shape, TypeOK, JobPhases
<1>7. QED
  BY <1>3, <1>4, <1>5, <1>6 DEF Shape

(* Instances and supervisors: no job moves.                                *)
LEMMA ShapeInstances ==
  ASSUME Shape, UNCHANGED <<slot, asked, count, jobs, collided>>, late' \in BOOLEAN,
         proc' \in [Inst -> {"none", "live", "dead"}],
         dispatcher' \in [Inst -> {"none", "running", "ended"}],
         supervisor' \in [Inst -> {"none", "watching", "backoff", "sending", "done"}],
         requests' \in Seq(Nat), {deaths', panics', failures'} \subseteq Nat,
         \A i \in Inst : (proc'[i] = "none" <=> proc[i] = "none")
                          /\ (supervisor'[i] = "none" <=> supervisor[i] = "none")
  PROVE  Shape'
<1>1. \A j \in Job : own[j] # 0 => own[j] \in Inst
  BY InstType DEF Shape, TypeOK
<1>2. slot # 0 => slot \in Inst
  BY InstType DEF Shape, TypeOK
<1>3. TypeOK'
  BY <1>2 DEF Shape, TypeOK, jobs
<1>4. OwnIsSpawned' /\ RegisteringIsNew' /\ UnusedIsNew' /\ JobPhases'
  BY <1>1 DEF Shape, OwnIsSpawned, RegisteringIsNew, UnusedIsNew, JobPhases, jobs
<1>5. QED
  BY <1>3, <1>4 DEF Shape

(* A job that goes on without touching an instance other than its own.     *)
LEMMA ShapeMoves ==
  ASSUME Shape, NEW j \in Job, NEW q \in {"idle", "spawning", "done"},
         pc' = [pc EXCEPT ![j] = q],
         j = "startup" => q = "done",
         j = "worker" => q \in {"idle", "spawning"},
         j = "shutdown" => q = "done",
         UNCHANGED <<slot, asked, supervisor, own>>,
         proc' \in [Inst -> {"none", "live", "dead"}],
         \A i \in Inst : (proc'[i] = "none" <=> proc[i] = "none"),
         dispatcher' \in [Inst -> {"none", "running", "ended"}],
         count' \in [Inst -> Nat], requests' \in Seq(Nat), next' \in [Job -> Nat],
         {deaths', panics', failures'} \subseteq Nat, {collided', late'} \subseteq BOOLEAN
  PROVE  Shape'
<1>1. \A k \in Job : own[k] # 0 => own[k] \in Inst
  BY InstType DEF Shape, TypeOK
<1>2. slot # 0 => slot \in Inst
  BY InstType DEF Shape, TypeOK
<1>3. TypeOK'
  BY <1>2 DEF Shape, TypeOK
<1>4. OwnIsSpawned' /\ RegisteringIsNew' /\ UnusedIsNew'
  BY <1>1 DEF Shape, TypeOK, OwnIsSpawned, RegisteringIsNew, UnusedIsNew
<1>5. JobPhases'
  BY RegistryAssumption DEF Shape, TypeOK, JobPhases, Job
<1>6. QED
  BY <1>3, <1>4, <1>5 DEF Shape

LEMMA ShapeStep == Shape /\ [Next]_vars => Shape'
<1> SUFFICES ASSUME Shape, [Next]_vars PROVE Shape'
  OBVIOUS
<1>0. /\ TypeOK /\ \A o \in Operators : o \in Job /\ o \notin {"startup", "worker", "shutdown"}
      /\ {"startup", "worker", "shutdown"} \subseteq Job
  BY RegistryAssumption DEF Shape, Job
<1>1. ASSUME NEW j \in Job, Spawns(j) \/ Registers(j) PROVE Shape'
  BY <1>1, ShapeSpawns, ShapeRegisters
<1>2. ASSUME NEW j \in Job, SpawnFails(j) PROVE Shape'
  <2>1. PICK q \in {"idle", "done"} : pc' = [pc EXCEPT ![j] = q] /\ (q = "idle" <=> j = "worker")
    BY <1>2 DEF SpawnFails
  <2>2. failures' \in Nat
    BY <1>0, <1>2 DEF SpawnFails, TypeOK
  <2>3. UNCHANGED <<slot, proc, dispatcher, asked, supervisor, count, requests, own, next, deaths,
                    panics, collided, late>>
    BY <1>2 DEF SpawnFails, instances, history
  <2>4. j = "startup" => q = "done"
    BY <2>1
  <2>5. j = "shutdown" => q = "done"
    BY <2>1
  <2>6. QED
    BY <1>0, <2>1, <2>2, <2>3, <2>4, <2>5, ShapeMoves DEF TypeOK
<1>3. ASSUME NEW j \in Job, Stops(j) PROVE Shape'
  <2>1. own[j] \in Inst /\ proc[own[j]] # "none"
    BY <1>3, InstType DEF Stops, Shape, OwnIsSpawned, TypeOK
  <2>2. j \notin {"startup", "worker"}
    BY <1>3 DEF Stops, Shape, JobPhases
  <2>3. QED
    BY <1>0, <1>3, <2>1, <2>2, ShapeMoves DEF Stops, TypeOK, bounds, history
<1>4. ASSUME NEW o \in Operators, Reload(o) PROVE Shape'
  <2>1. CASE slot # 0
    <3>1. slot \in Inst
      BY <1>0, <2>1, InstType DEF TypeOK
    <3>2. next' \in [Job -> Nat] /\ {collided', late'} \subseteq BOOLEAN
      <4>1. count[slot] + 1 \in Nat /\ next' = [next EXCEPT ![o] = count[slot] + 1]
        BY <1>0, <1>4, <2>1, <3>1 DEF Reload, TypeOK
      <4>2. collided' = (collided \/ Respawning) /\ late' = late
        BY <1>4, <2>1 DEF Reload
      <4>3. QED
        BY <1>0, <4>1, <4>2 DEF TypeOK
    <3>3. /\ slot' = 0 /\ asked' = [asked EXCEPT ![slot] = TRUE]
          /\ own' = [own EXCEPT ![o] = slot] /\ pc' = [pc EXCEPT ![o] = "stopping"]
          /\ UNCHANGED <<proc, dispatcher, supervisor, count, requests, bounds>>
      BY <1>4, <2>1 DEF Reload
    <3>4. asked' \in [Inst -> BOOLEAN] /\ \A i \in Inst : i # slot => asked'[i] = asked[i]
      BY <1>0, <3>1, <3>3 DEF TypeOK
    <3>5. QED
      BY <2>1, <3>2, <3>3, <3>4, ShapeTakesSlot
  <2>2. CASE slot = 0
    <3>1. /\ pc' = [pc EXCEPT ![o] = "done"]
          /\ UNCHANGED <<slot, proc, dispatcher, asked, supervisor, count, requests, own, next,
                          deaths, panics, failures, collided, late>>
      BY <1>4, <2>2 DEF Reload, instances, bounds, history
    <3>2. QED
      BY <1>0, <3>1, ShapeMoves DEF TypeOK
  <2>3. QED
    BY <2>1, <2>2
<1>5. CASE ShutdownAll
  <2>1. next' \in [Job -> Nat] /\ {collided', late'} \subseteq BOOLEAN
    BY <1>0, <1>5 DEF ShutdownAll, TypeOK, Inserting, Respawning
  <2>2. CASE slot # 0
    <3>1. /\ slot' = 0 /\ own' = [own EXCEPT !["shutdown"] = slot]
          /\ pc' = [pc EXCEPT !["shutdown"] = "drained"]
          /\ UNCHANGED <<proc, dispatcher, asked, supervisor, count, requests, bounds>>
      BY <1>5, <2>2 DEF ShutdownAll, instances
    <3>2. QED
      BY <1>0, <2>1, <2>2, <3>1, ShapeTakesSlot DEF TypeOK
  <2>3. CASE slot = 0
    <3>1. /\ pc' = [pc EXCEPT !["shutdown"] = "done"]
          /\ UNCHANGED <<slot, proc, dispatcher, asked, supervisor, count, requests, own,
                          deaths, panics, failures>>
      BY <1>5, <2>3 DEF ShutdownAll, instances, bounds
    <3>2. QED
      BY <1>0, <2>1, <3>1, ShapeMoves DEF TypeOK
  <2>4. QED
    BY <2>2, <2>3
<1>6. CASE WorkerTakes
  <2>1. Head(requests) \in Nat /\ Tail(requests) \in Seq(Nat)
    BY <1>0, <1>6 DEF WorkerTakes, TypeOK
  <2>2. QED
    BY <1>0, <1>6, <2>1, ShapeMoves DEF WorkerTakes, instances, bounds, history, TypeOK
<1>7. ASSUME NEW i \in Inst, ProcessDies(i) \/ OrphanExits(i) PROVE Shape'
  <2>1. proc[i] = "live" /\ proc' = [proc EXCEPT ![i] = "dead"] /\ deaths' \in Nat
    BY <1>0, <1>7 DEF ProcessDies, OrphanExits, TypeOK, bounds
  <2>2. UNCHANGED <<slot, dispatcher, asked, supervisor, count, requests, jobs, panics, failures,
                    collided, late>>
    BY <1>7 DEF ProcessDies, OrphanExits, bounds, history
  <2>3. QED
    BY <1>0, <2>1, <2>2, ShapeInstances DEF TypeOK
<1>8. ASSUME NEW i \in Inst, DispatcherEnds(i) \/ DispatcherPanics(i) PROVE Shape'
  <2>1. dispatcher' = [dispatcher EXCEPT ![i] = "ended"] /\ panics' \in Nat
    BY <1>0, <1>8 DEF DispatcherEnds, DispatcherPanics, TypeOK, bounds
  <2>2. UNCHANGED <<slot, proc, asked, supervisor, count, requests, jobs, deaths, failures,
                    collided, late>>
    BY <1>8 DEF DispatcherEnds, DispatcherPanics, bounds, history
  <2>3. QED
    BY <1>0, <2>1, <2>2, ShapeInstances DEF TypeOK
<1>9. ASSUME NEW i \in Inst, SupervisorSees(i) \/ SupervisorWakes(i) \/ SupervisorSends(i)
      PROVE  Shape'
  <2>1. requests' \in Seq(Nat)
    <3>1. count[i] + 1 \in Nat /\ requests \in Seq(Nat)
      BY <1>0 DEF TypeOK
    <3>2. requests' = requests \/ requests' = Append(requests, count[i] + 1)
      BY <1>9 DEF SupervisorSees, SupervisorWakes, SupervisorSends
    <3>3. QED
      BY <3>1, <3>2
  <2>2. PICK s \in {"backoff", "sending", "done"} : Supervise(i, s) /\ supervisor[i] # "none"
    BY <1>9 DEF SupervisorSees, SupervisorWakes, SupervisorSends
  <2>3. late' \in BOOLEAN
    BY <1>0, <1>9 DEF SupervisorSees, SupervisorWakes, SupervisorSends, TypeOK
  <2>4. QED
    BY <1>0, <2>1, <2>2, <2>3, ShapeInstances DEF Supervise, TypeOK, bounds
<1>10. CASE FlagsDrained
  BY <1>10, ShapeFlags
<1>11. CASE UNCHANGED vars
  BY <1>0, <1>11, ShapeInstances DEF vars, instances, bounds, history, TypeOK
<1>12. QED
  BY <1>1, <1>2, <1>3, <1>4, <1>5, <1>6, <1>7, <1>8, <1>9, <1>10, <1>11
     DEF Next, JobStep, InstanceStep

(* Every variable of the registry stays in its range, and what the slot    *)
(* map holds was spawned and is supervised.                                *)
THEOREM TypeCorrect == Spec => []TypeOK
<1>1. Init => Shape
  BY ShapeInit
<1>2. Shape /\ [Next]_vars => Shape'
  BY ShapeStep
<1>3. Shape => TypeOK
  BY DEF Shape
<1>4. QED
  BY <1>1, <1>2, <1>3, PTL DEF Spec

-----------------------------------------------------------------------------
(* One process.                                                            *)

(* What every proof about a step starts from.                              *)
LEMMA JobsOf ==
  /\ {"startup", "worker", "shutdown"} \subseteq Job /\ Operators \subseteq Job
  /\ Operators \cap {"startup", "worker", "shutdown"} = {}
BY RegistryAssumption DEF Job

LEMMA OrderSpawns ==
  ASSUME Shape, Order, NEW j \in Job, Spawns(j)
  PROVE  Order'
<1>1. PICK i \in Inst :
        /\ proc[i] = "none" /\ pc[j] = "spawning"
        /\ proc' = [proc EXCEPT ![i] = "live"]
        /\ dispatcher' = [dispatcher EXCEPT ![i] = "running"]
        /\ own' = [own EXCEPT ![j] = i]
        /\ pc' = [pc EXCEPT ![j] = "registering"]
        /\ UNCHANGED <<slot, asked, supervisor, requests, collided, late>>
  BY DEF Spawns, history
<1>2. TypeOK /\ supervisor[i] = "none" /\ i # slot /\ j # "shutdown"
  BY <1>1, InstType DEF Shape, UnusedIsNew, TypeOK, JobPhases
<1>3. /\ \A k \in Job : (Active(k)' <=> Active(k)) /\ (pc'[k] = "idle" <=> pc[k] = "idle")
      /\ \A k \in Job : Busy(k)' <=> Busy(k)
      /\ pc'["shutdown"] = pc["shutdown"] /\ own'["shutdown"] = own["shutdown"]
  BY <1>1, <1>2, JobsOf DEF Active, Busy, TypeOK
<1>4. (Respawning' <=> Respawning) /\ (Requested' <=> Requested)
  BY <1>1, <1>3, JobsOf DEF Respawning, Requested
<1>5. LiveIsHeld'
  <2>1. own'[j] = i /\ pc'[j] = "registering"
    BY <1>1, <1>2 DEF TypeOK
  <2>2. \A k \in Live' : k = i \/ k \in Live
    BY <1>1, <1>2 DEF Live, TypeOK
  <2>3. \A k \in Job : pc[k] \in {"drained", "stopping", "registering"}
                        => own'[k] = own[k] /\ pc'[k] = pc[k]
    BY <1>1, <1>2 DEF TypeOK
  <2>4. QED
    BY <1>1, <2>1, <2>2, <2>3 DEF Order, LiveIsHeld
<1>6. JobsExclude' /\ ShutdownIsLast'
  BY <1>1, <1>3, <1>4, JobsOf DEF Order, JobsExclude, ShutdownIsLast
<1>7. RespawnReplaces' /\ LateIsDead'
  <2>1. late /\ pc["shutdown"] # "done" => own["shutdown"] # i
    BY <1>1 DEF Order, LateIsDead
  <2>2. late /\ pc["shutdown"] # "done" => own["shutdown"] \in Inst
    BY JobsOf, InstType DEF Order, LateIsDead, Shape, TypeOK, OwnIsSpawned, JobPhases
  <2>3. LateIsDead'
    BY <1>1, <1>2, <1>3, <2>1, <2>2 DEF Order, LateIsDead, TypeOK
  <2>4. RespawnReplaces'
    BY <1>1, <1>2, <1>3, <1>4, JobsOf, InstType DEF Order, RespawnReplaces, TypeOK
  <2>5. QED
    BY <2>3, <2>4
<1>8. SupervisorIsCurrent'
  BY <1>1, <1>2, <1>3, <1>4 DEF Order, SupervisorIsCurrent, Asking, Drained, TypeOK
<1>9. SlotIsWanted' /\ EndedIsDead'
  BY <1>1, <1>2 DEF Order, SlotIsWanted, EndedIsDead, TypeOK
<1>10. QED
  BY <1>5, <1>6, <1>7, <1>8, <1>9 DEF Order

(* Only the slot is written: the instance in it before, if any, was the    *)
(* one being replaced.                                                     *)
LEMMA OrderRegisters ==
  ASSUME Shape, Order, NEW j \in Job, Registers(j)
  PROVE  Order'
<1>1. /\ pc[j] = "registering" /\ slot' = own[j]
      /\ supervisor' = [supervisor EXCEPT ![own[j]] = "watching"]
      /\ UNCHANGED <<proc, dispatcher, asked, requests, own, collided, late>>
  BY DEF Registers, history
<1>2. PICK q \in {"idle", "done"} : pc' = [pc EXCEPT ![j] = q] /\ (q = "idle" <=> j = "worker")
  BY DEF Registers
<1>3. /\ TypeOK /\ own[j] \in Inst /\ own[j] # 0 /\ ~asked[own[j]] /\ Active(j)
      /\ supervisor[own[j]] = "none" /\ j # "shutdown" /\ Busy(j)
  BY <1>1, InstType DEF Shape, TypeOK, OwnIsSpawned, RegisteringIsNew, Active, Busy, JobPhases
<1>4. \A k \in Job \ {j} : ~Busy(k) /\ pc'[k] = pc[k]
  <2>1. CASE j = "worker"
    <3>1. Respawning
      BY <1>1, <2>1 DEF Respawning
    <3>2. QED
      BY <1>2, <2>1, <3>1 DEF Order, JobsExclude, Shape, TypeOK
  <2>2. CASE j # "worker"
    <3>1. pc["worker"] = "idle"
      BY <1>3, <2>2 DEF Order, JobsExclude, Respawning
    <3>2. QED
      BY <1>2, <1>3, <2>2, <3>1 DEF Order, JobsExclude, Shape, TypeOK, Active, Busy
  <2>3. QED
    BY <2>1, <2>2
<1>5. requests = <<>> /\ pc'["worker"] = "idle" /\ (pc["shutdown"] = "idle" \/ late)
  <2>1. pc["shutdown"] = "idle" \/ late
    BY <1>3, JobsOf DEF Order, ShutdownIsLast
  <2>2. CASE j = "worker"
    BY <1>1, <1>2, <2>1, <2>2, JobsOf DEF Order, RespawnReplaces, TypeOK, Shape
  <2>3. CASE j # "worker"
    BY <1>2, <1>3, <2>1, <2>3, JobsOf DEF Order, JobsExclude, Respawning, TypeOK
  <2>4. QED
    BY <2>2, <2>3
<1>6. \A i \in Inst : ~Asking(i)
  <2>1. CASE j = "worker"
    <3>1. Requested
      BY <1>1, <2>1 DEF Requested
    <3>2. QED
      BY <3>1, InstType DEF Order, RespawnReplaces, SupervisorIsCurrent, Asking, Drained
  <2>2. CASE j # "worker"
    <3>1. slot = 0 /\ ~Respawning
      BY <1>3, <2>2 DEF Order, JobsExclude
    <3>2. pc["shutdown"] = "drained" => late
      BY <1>5
    <3>3. QED
      BY <3>1, <3>2, InstType DEF Order, SupervisorIsCurrent, Drained, Asking, Respawning
  <2>3. QED
    BY <2>1, <2>2
<1>7. \A i \in Live : i = own[j]
  <2> SUFFICES ASSUME NEW i \in Live, i # own[j] PROVE FALSE
    OBVIOUS
  <2>1. \A k \in Job : own[k] = i /\ pc[k] \in {"drained", "stopping", "registering"}
                        => k = "shutdown" /\ late
    BY <1>4 DEF Busy, Active
  <2>2. ~(late /\ own["shutdown"] = i /\ pc["shutdown"] \in {"drained", "stopping", "registering"})
    BY DEF Order, LateIsDead, Live
  <2>3. slot = i
    BY <2>1, <2>2 DEF Order, LiveIsHeld
  <2>4. slot # 0 /\ proc[slot] = "live"
    BY <2>3, InstType DEF Live
  <2>5. j = "worker" /\ Requested
    BY <1>1, <1>3, <2>4 DEF Order, JobsExclude, Requested
  <2>6. QED
    BY <2>4, <2>5 DEF Order, RespawnReplaces
<1>8. LiveIsHeld' /\ SlotIsWanted' /\ EndedIsDead'
  BY <1>1, <1>3, <1>7 DEF Order, LiveIsHeld, Live, SlotIsWanted, EndedIsDead
<1>9. JobsExclude' /\ ShutdownIsLast' /\ RespawnReplaces' /\ LateIsDead'
  <2>1. \A k \in Job : ~Busy(k)'
    BY <1>1, <1>2, <1>4 DEF Busy, Active, Shape, TypeOK
  <2>2. pc'["shutdown"] = pc["shutdown"] /\ own'["shutdown"] = own["shutdown"]
    BY <1>1, <1>3, <1>4, JobsOf
  <2>3. JobsExclude' /\ RespawnReplaces'
    BY <1>1, <1>5, <2>1 DEF JobsExclude, RespawnReplaces, Requested
  <2>4. ShutdownIsLast' /\ LateIsDead'
    BY <1>1, <1>5, <2>2 DEF Order, ShutdownIsLast, LateIsDead
  <2>5. QED
    BY <2>3, <2>4
<1>10. SupervisorIsCurrent'
  <2>1. \A i \in Inst : i # own[j] => ~Asking(i)'
    BY <1>1, <1>3, <1>6 DEF Asking, TypeOK
  <2>2. \A i \in Inst : supervisor'[i] \in {"backoff", "sending"} => proc'[i] = "dead"
    BY <1>1, <1>3 DEF Order, SupervisorIsCurrent, TypeOK
  <2>3. QED
    BY <1>1, <2>1, <2>2 DEF SupervisorIsCurrent
<1>11. QED
  BY <1>8, <1>9, <1>10 DEF Order

(* A job that stops its instance, fails to spawn or finds the slot empty.      *)
LEMMA OrderMoves ==
  ASSUME Shape, Order, NEW j \in Job, NEW q \in {"idle", "spawning", "done"},
         pc' = [pc EXCEPT ![j] = q],
         q = "spawning" => Active(j),
         j = "worker" => q = "idle",
         j = "shutdown" => pc[j] \notin {"idle", "drained"} /\ q = "done",
         UNCHANGED <<slot, asked, supervisor, requests, own, late>>,
         \A i \in Inst : proc'[i] = proc[i] \/ proc'[i] = "dead",
         \A i \in Inst : dispatcher'[i] = "ended" => proc'[i] = "dead",
         pc[j] \in {"stopping", "registering"} => proc'[own[j]] # "live"
  PROVE  Order'
<1>0. /\ \A k \in Job : k # j => pc'[k] = pc[k]
      /\ pc'[j] = q /\ (pc[j] = "drained" => j = "shutdown")
      /\ pc["worker"] = "idle" => pc'["worker"] = "idle"
  BY JobsOf DEF Shape, TypeOK, JobPhases, Job
<1>1. \A k \in Job : (Active(k)' => Active(k)) /\ (Busy(k)' => Busy(k))
  BY <1>0 DEF Active, Busy
<1>2. Requested' => Requested
  BY <1>0 DEF Requested
<1>3. Respawning' => Respawning
  BY <1>0 DEF Respawning
<1>4. LiveIsHeld'
  <2> SUFFICES ASSUME NEW i \in Live'
               PROVE  slot = i \/ \E k \in Job : own[k] = i
                                   /\ pc'[k] \in {"drained", "stopping", "registering"}
    BY DEF LiveIsHeld
  <2>1. i \in Live /\ i \in Inst /\ proc'[i] = "live"
    BY DEF Live
  <2>2. ASSUME NEW k \in Job, own[k] = i, pc[k] \in {"drained", "stopping", "registering"}
        PROVE  pc'[k] = pc[k]
    BY <1>0, <2>1, <2>2
  <2>3. QED
    BY <2>1, <2>2 DEF Order, LiveIsHeld
<1>5. JobsExclude'
  BY <1>1, <1>3 DEF Order, JobsExclude
<1>6. ShutdownIsLast' /\ LateIsDead'
  <2>1. pc'["shutdown"] # "idle" <=> pc["shutdown"] # "idle"
    BY <1>0, JobsOf
  <2>2. ShutdownIsLast'
    BY <1>1, <1>3, <2>1 DEF Order, ShutdownIsLast
  <2>3. pc'["shutdown"] # "done" => pc["shutdown"] # "done"
    BY <1>0, JobsOf
  <2>4. late /\ pc["shutdown"] # "done" => own["shutdown"] \in Inst
    BY JobsOf, InstType DEF Order, LateIsDead, Shape, TypeOK, OwnIsSpawned, JobPhases
  <2>5. LateIsDead'
    BY <2>1, <2>3, <2>4 DEF Order, LateIsDead
  <2>6. QED
    BY <2>2, <2>5
<1>7. RespawnReplaces'
  <2>1. slot # 0 => slot \in Inst
    BY InstType DEF Shape, TypeOK
  <2>2. QED
    BY <1>0, <1>2, <2>1 DEF Order, RespawnReplaces
<1>8. SupervisorIsCurrent'
  <2>1. pc["shutdown"] = "drained" => pc'["shutdown"] = "drained"
    BY <1>0, JobsOf
  <2>2. \A i \in Inst : Drained(i) => Drained(i)'
    BY <1>2, <2>1 DEF Drained
  <2>3. QED
    BY <2>2 DEF Order, SupervisorIsCurrent, Asking
<1>9. SlotIsWanted' /\ EndedIsDead'
  BY DEF Order, SlotIsWanted, EndedIsDead
<1>10. QED
  BY <1>4, <1>5, <1>6, <1>7, <1>8, <1>9 DEF Order

(* A process dies, its dispatcher sees it.                                 *)
LEMMA OrderInstances ==
  ASSUME Shape, Order, UNCHANGED <<slot, asked, supervisor, requests, jobs, late>>,
         \A i \in Inst : proc'[i] = proc[i] \/ proc'[i] = "dead",
         \A i \in Inst : dispatcher'[i] = "ended" => proc'[i] = "dead"
  PROVE  Order'
<1>1. slot # 0 => slot \in Inst
  BY InstType DEF Shape, TypeOK
<1>2. /\ (Respawning' <=> Respawning) /\ (Requested' <=> Requested)
      /\ \A j \in Job : (Active(j)' <=> Active(j)) /\ (Busy(j)' <=> Busy(j))
  BY DEF Respawning, Requested, Active, Busy, jobs
<1>3. LiveIsHeld' /\ JobsExclude' /\ ShutdownIsLast'
  BY <1>2 DEF Order, LiveIsHeld, Live, JobsExclude, ShutdownIsLast, jobs
<1>4. LateIsDead'
  <2>1. late /\ pc["shutdown"] # "done" => own["shutdown"] \in Inst
    BY JobsOf, InstType DEF Order, LateIsDead, Shape, TypeOK, OwnIsSpawned, JobPhases
  <2>2. QED
    BY <2>1 DEF Order, LateIsDead, jobs
<1>5. RespawnReplaces' /\ SlotIsWanted' /\ EndedIsDead'
  BY <1>1, <1>2 DEF Order, RespawnReplaces, SlotIsWanted, EndedIsDead, jobs
<1>6. SupervisorIsCurrent'
  BY <1>2 DEF Order, SupervisorIsCurrent, Asking, Drained, jobs
<1>7. QED
  BY <1>3, <1>4, <1>5, <1>6 DEF Order

(* A slot is taken when nothing else is at work: the supervisor of the     *)
(* instance in it will find that it was asked to stop, or will be once the *)
(* shutdown comes to it.                                                   *)
LEMMA OrderTakesSlot ==
  ASSUME Shape, Order, NEW j \in Operators \cup {"shutdown"}, NEW q \in {"drained", "stopping"},
         q = "drained" <=> j = "shutdown", slot # 0, slot' = 0,
         q = "stopping" => asked' = [asked EXCEPT ![slot] = TRUE],
         q = "drained" => UNCHANGED asked,
         own' = [own EXCEPT ![j] = slot], pc' = [pc EXCEPT ![j] = q],
         UNCHANGED <<proc, dispatcher, supervisor, requests, late>>,
         ~Respawning, j = "shutdown" => pc[j] = "idle"
  PROVE  Order'
<1>1. /\ TypeOK /\ slot \in Inst /\ j \in Job /\ j # "worker"
      /\ requests = <<>> /\ pc["worker"] = "idle" /\ \A i \in Inst : supervisor[i] # "sending"
  BY InstType, JobsOf DEF Shape, TypeOK, Respawning
<1>2. pc["shutdown"] = "idle" \/ late
  BY DEF Order, ShutdownIsLast
<1>3. j = "shutdown" => ~late
  BY DEF Order, LateIsDead
<1>4. \A k \in Job : ~Busy(k) /\ (Active(k) => k = "shutdown" /\ late)
  BY <1>1 DEF Order, JobsExclude, Active, Busy
<1>5. \A k \in Job : Busy(k)' => k = j
  BY <1>1, <1>4 DEF Active, Busy, TypeOK
<1>6. requests' = <<>> /\ pc'["worker"] = "idle" /\ ~Respawning' /\ ~Requested'
  BY <1>1, JobsOf DEF Respawning, Requested, TypeOK
<1>7. LiveIsHeld'
  <2>1. \A i \in Live : i = slot
    BY <1>4 DEF Order, LiveIsHeld, LateIsDead, Live, Active
  <2>2. own'[j] = slot /\ pc'[j] = q
    BY <1>1 DEF TypeOK
  <2>3. QED
    BY <1>1, <2>1, <2>2 DEF LiveIsHeld, Live
<1>8. JobsExclude' /\ RespawnReplaces'
  BY <1>5, <1>6 DEF JobsExclude, RespawnReplaces
<1>9. SupervisorIsCurrent'
  <2> SUFFICES ASSUME NEW i \in Inst, Asking(i)' PROVE Drained(i)'
    BY DEF Order, SupervisorIsCurrent
  <2>1. supervisor[i] \in {"watching", "backoff"} /\ ~asked'[i]
    BY <1>1 DEF Asking
  <2>2. ~asked[i] /\ Asking(i)
    BY <1>1, <2>1 DEF Asking, TypeOK
  <2>3. i = slot
    BY <2>2 DEF Order, SupervisorIsCurrent, Drained
  <2>4. q = "drained" /\ j = "shutdown"
    BY <1>1, <2>1, <2>3 DEF TypeOK
  <2>5. own'["shutdown"] = i /\ pc'["shutdown"] = "drained"
    BY <1>1, <2>3, <2>4 DEF TypeOK
  <2>6. QED
    BY <1>3, <1>6, <2>1, <2>4, <2>5 DEF Drained
<1>10. SlotIsWanted' /\ EndedIsDead'
  BY DEF Order, SlotIsWanted, EndedIsDead
<1>11. ShutdownIsLast'
  <2>1. CASE j # "shutdown"
    <3>1. pc'["shutdown"] = pc["shutdown"]
      BY <1>1, <2>1, JobsOf DEF TypeOK
    <3>2. QED
      BY <1>2, <3>1 DEF ShutdownIsLast
  <2>2. CASE j = "shutdown"
    <3>1. \A k \in Job \ {"shutdown"} : ~Active(k)'
      BY <1>1, <1>4, <2>2 DEF Active, TypeOK
    <3>2. QED
      BY <1>6, <3>1 DEF ShutdownIsLast
  <2>3. QED
    BY <2>1, <2>2
<1>12. LateIsDead'
  <2>1. late => pc'["shutdown"] = pc["shutdown"] /\ own'["shutdown"] = own["shutdown"]
    BY <1>1, <1>3, JobsOf DEF TypeOK
  <2>2. QED
    BY <2>1 DEF Order, LateIsDead
<1>13. QED
  BY <1>7, <1>8, <1>9, <1>10, <1>11, <1>12 DEF Order

(* The flag comes late for a supervisor that sends, in time for another.   *)
LEMMA OrderFlags ==
  ASSUME Shape, Order, FlagsDrained
  PROVE  Order'
<1>1. /\ pc["shutdown"] = "drained" /\ pc' = [pc EXCEPT !["shutdown"] = "stopping"]
      /\ asked' = [asked EXCEPT ![own["shutdown"]] = TRUE]
      /\ UNCHANGED <<slot, proc, dispatcher, supervisor, requests, own, collided, late>>
  BY DEF FlagsDrained, history
<1>2. /\ TypeOK /\ "shutdown" \in Job /\ own["shutdown"] \in Inst /\ slot # own["shutdown"]
      /\ \A k \in Job : k # "shutdown" => pc'[k] = pc[k]
      /\ pc'["shutdown"] = "stopping" /\ pc'["worker"] = pc["worker"]
  BY <1>1, InstType, JobsOf DEF Shape, TypeOK, OwnIsSpawned
<1>3. \A k \in Job : (Active(k)' <=> Active(k)) /\ (Busy(k)' <=> Busy(k))
  BY <1>1, <1>2 DEF Active, Busy
<1>4. (Respawning' <=> Respawning) /\ (Requested' <=> Requested)
  BY <1>1, <1>2 DEF Respawning, Requested
<1>5. LiveIsHeld'
  <2>1. \A k \in Job : pc[k] \in {"drained", "stopping", "registering"}
                        => pc'[k] \in {"drained", "stopping", "registering"}
    BY <1>2
  <2>2. QED
    BY <1>1, <2>1 DEF Order, LiveIsHeld, Live
<1>6. JobsExclude' /\ ShutdownIsLast' /\ LateIsDead' /\ RespawnReplaces'
  BY <1>1, <1>2, <1>3, <1>4 DEF Order, JobsExclude, ShutdownIsLast, LateIsDead, RespawnReplaces
<1>7. SupervisorIsCurrent'
  <2> SUFFICES ASSUME NEW i \in Inst, Asking(i)' PROVE slot' = i \/ Drained(i)'
    BY <1>1 DEF Order, SupervisorIsCurrent
  <2>1. Asking(i) /\ (supervisor[i] = "sending" \/ i # own["shutdown"])
    BY <1>1, <1>2 DEF Asking, TypeOK
  <2>2. QED
    BY <1>1, <1>4, <2>1 DEF Order, SupervisorIsCurrent, Drained
<1>8. SlotIsWanted' /\ EndedIsDead'
  BY <1>1, <1>2 DEF Order, SlotIsWanted, EndedIsDead, TypeOK
<1>9. QED
  BY <1>5, <1>6, <1>7, <1>8 DEF Order

(* A supervisor asks for a restart: no other one can be about to.          *)
LEMMA OrderSends ==
  ASSUME Shape, Order, NEW i \in Inst, SupervisorSends(i)
  PROVE  Order'
<1>1. /\ supervisor[i] = "sending" /\ supervisor' = [supervisor EXCEPT ![i] = "done"]
      /\ requests' = Append(requests, count[i] + 1)
      /\ UNCHANGED <<slot, proc, dispatcher, asked, pc, own, late>>
  BY DEF SupervisorSends, Supervise, jobs
<1>2. TypeOK /\ i # 0 /\ Respawning /\ Asking(i) /\ proc[i] = "dead" /\ (slot = i \/ Drained(i))
  BY <1>1, InstType DEF Shape, Respawning, Asking, Order, SupervisorIsCurrent
<1>3. ~Requested /\ (slot = i \/ slot = 0)
  BY <1>1, <1>2 DEF Order, RespawnReplaces, Drained
<1>4. requests' # <<>> /\ Len(requests') = 1 /\ pc'["worker"] = "idle"
  <2>1. requests = <<>> /\ count[i] + 1 \in Nat
    BY <1>2, <1>3 DEF Requested, TypeOK
  <2>2. requests' = <<count[i] + 1>>
    BY <1>1, <2>1
  <2>3. QED
    BY <1>1, <1>3, <2>2 DEF Requested
<1>5. \A j \in Job \ {"worker"} : ~Busy(j)'
  BY <1>1, <1>2 DEF Order, JobsExclude, Busy, Active
<1>6. LiveIsHeld' /\ LateIsDead' /\ JobsExclude' /\ SlotIsWanted' /\ EndedIsDead'
  BY <1>1, <1>5 DEF Order, LiveIsHeld, Live, LateIsDead, JobsExclude, SlotIsWanted, EndedIsDead
<1>7. ShutdownIsLast'
  BY <1>1, <1>2 DEF Order, ShutdownIsLast
<1>8. RespawnReplaces'
  BY <1>1, <1>2, <1>3, <1>4 DEF RespawnReplaces, TypeOK
<1>9. SupervisorIsCurrent'
  <2>1. \A k \in Inst \ {i} : ~Asking(k)
    BY <1>2, <1>3, InstType DEF Order, SupervisorIsCurrent, Drained
  <2>2. \A k \in Inst : ~Asking(k)'
    BY <1>1, <1>2, <2>1 DEF Asking, TypeOK
  <2>3. QED
    BY <1>1, <1>2, <2>2 DEF Order, SupervisorIsCurrent, TypeOK
<1>10. QED
  BY <1>6, <1>7, <1>8, <1>9 DEF Order

(* A supervisor wakes to ask for one: its instance is in the slot, or was  *)
(* drained, and then the flag will come late.                              *)
LEMMA OrderWakes ==
  ASSUME Shape, Order, NEW i \in Inst, SupervisorWakes(i), ~asked[i]
  PROVE  Order'
<1>1. /\ supervisor[i] = "backoff" /\ supervisor' = [supervisor EXCEPT ![i] = "sending"]
      /\ late' = (late \/ (pc["shutdown"] = "drained" /\ own["shutdown"] = i))
      /\ UNCHANGED <<slot, proc, dispatcher, asked, requests, pc, own>>
  BY DEF SupervisorWakes, Supervise, jobs
<1>2. /\ TypeOK /\ i # 0 /\ Asking(i) /\ proc[i] = "dead" /\ (slot = i \/ Drained(i))
      /\ (Requested' <=> Requested)
  BY <1>1, InstType DEF Shape, Asking, Order, SupervisorIsCurrent, Requested
<1>3. \A k \in Inst \ {i} : ~Asking(k)
  BY <1>2, InstType DEF Order, SupervisorIsCurrent, Drained
<1>4. LiveIsHeld' /\ SlotIsWanted' /\ EndedIsDead'
  BY <1>1 DEF Order, LiveIsHeld, Live, SlotIsWanted, EndedIsDead
<1>5. SupervisorIsCurrent'
  <2>1. \A k \in Inst \ {i} : ~Asking(k)'
    BY <1>1, <1>3 DEF Asking, TypeOK
  <2>2. slot' = i \/ Drained(i)'
    BY <1>1, <1>2 DEF Drained, TypeOK
  <2>3. \A k \in Inst : supervisor'[k] \in {"backoff", "sending"} => proc'[k] = "dead"
    BY <1>1, <1>2 DEF Order, SupervisorIsCurrent, TypeOK
  <2>4. QED
    BY <2>1, <2>2, <2>3 DEF SupervisorIsCurrent
<1>6. RespawnReplaces'
  BY <1>1, <1>2 DEF Order, RespawnReplaces, Drained, TypeOK
<1>7. CASE slot = i
  <2>1. late' = late
    BY <1>1, <1>7, JobsOf DEF Shape, OwnIsSpawned, TypeOK
  <2>2. \A j \in Job \ {"worker"} : ~Busy(j)'
    BY <1>1, <1>2, <1>7, <2>1 DEF Order, JobsExclude, Busy, Active
  <2>3. JobsExclude' /\ ShutdownIsLast' /\ LateIsDead'
    BY <1>1, <1>2, <1>7, <2>1, <2>2 DEF Order, JobsExclude, ShutdownIsLast, LateIsDead
  <2>4. QED
    BY <1>4, <1>5, <1>6, <2>3 DEF Order
<1>8. CASE Drained(i)
  <2>1. ~late /\ late' /\ pc["shutdown"] = "drained" /\ own["shutdown"] = i
    BY <1>1, <1>8 DEF Drained
  <2>2. Busy("shutdown") /\ \A j \in Job \ {"worker", "shutdown"} : ~Busy(j)
    BY <2>1, JobsOf DEF Order, JobsExclude, Busy, Active
  <2>3. \A j \in Job \ {"worker"} : ~Busy(j)'
    BY <1>1, <2>1, <2>2 DEF Busy, Active
  <2>4. JobsExclude' /\ ShutdownIsLast' /\ LateIsDead'
    BY <1>1, <1>2, <2>1, <2>3 DEF JobsExclude, ShutdownIsLast, LateIsDead
  <2>5. QED
    BY <1>4, <1>5, <1>6, <2>4 DEF Order
<1>9. QED
  BY <1>2, <1>7, <1>8

(* It finds the dispatcher ended and backs off, or is told to leave.       *)
LEMMA OrderSupervise ==
  ASSUME Shape, Order, NEW i \in Inst,
         SupervisorSees(i) \/ (SupervisorWakes(i) /\ asked[i])
  PROVE  Order'
<1>1. PICK s \in {"backoff", "done"} :
        /\ supervisor' = [supervisor EXCEPT ![i] = s]
        /\ s = "backoff" => supervisor[i] = "watching" /\ dispatcher[i] = "ended" /\ ~asked[i]
  BY DEF SupervisorSees, SupervisorWakes, Supervise
<1>2. /\ UNCHANGED <<slot, proc, dispatcher, asked, requests, pc, own>>
      /\ late' = late /\ supervisor[i] \in {"watching", "backoff"}
  BY DEF SupervisorSees, SupervisorWakes, Supervise, jobs, Shape, TypeOK
<1>3. TypeOK /\ (slot # 0 => slot \in Inst)
  BY InstType DEF Shape, TypeOK
<1>4. (Requested' <=> Requested) /\ (Respawning' => Respawning)
  BY <1>1, <1>2, <1>3 DEF Requested, Respawning, TypeOK
<1>5. \A j \in Job : (Active(j)' <=> Active(j)) /\ (Busy(j)' <=> Busy(j))
  BY <1>2 DEF Active, Busy
<1>6. LiveIsHeld' /\ LateIsDead' /\ SlotIsWanted' /\ EndedIsDead'
  BY <1>2 DEF Order, LiveIsHeld, Live, LateIsDead, SlotIsWanted, EndedIsDead
<1>7. JobsExclude' /\ ShutdownIsLast'
  BY <1>2, <1>4, <1>5 DEF Order, JobsExclude, ShutdownIsLast
<1>8. RespawnReplaces'
  <2>1. Requested /\ slot # 0 => slot # i
    BY <1>2 DEF Order, RespawnReplaces
  <2>2. QED
    BY <1>1, <1>2, <1>3, <1>4, <2>1 DEF Order, RespawnReplaces, TypeOK
<1>9. SupervisorIsCurrent'
  <2>1. \A k \in Inst : Asking(k)' => Asking(k)
    BY <1>1, <1>2, <1>3 DEF Asking, TypeOK
  <2>2. \A k \in Inst : Drained(k) => Drained(k)'
    BY <1>1, <1>2, <1>3, <1>4 DEF Drained, TypeOK
  <2>3. \A k \in Inst : supervisor'[k] \in {"backoff", "sending"} => proc'[k] = "dead"
    BY <1>1, <1>2, <1>3 DEF Order, SupervisorIsCurrent, EndedIsDead, TypeOK
  <2>4. QED
    BY <1>2, <2>1, <2>2, <2>3 DEF Order, SupervisorIsCurrent
<1>10. QED
  BY <1>6, <1>7, <1>8, <1>9 DEF Order

LEMMA OrderWorkerTakes ==
  ASSUME Shape, Order, WorkerTakes
  PROVE  Order'
<1>1. /\ requests # <<>> /\ requests' = Tail(requests) /\ pc' = [pc EXCEPT !["worker"] = "spawning"]
      /\ UNCHANGED <<slot, proc, dispatcher, asked, supervisor, own, late>>
  BY DEF WorkerTakes, instances, history
<1>2. TypeOK /\ Len(requests) = 1 /\ Requested /\ Respawning
  BY <1>1 DEF Shape, Order, RespawnReplaces, Requested, Respawning
<1>3. requests' = <<>> /\ pc'["worker"] = "spawning"
  <2>1. requests \in Seq(Nat) /\ pc \in [Job -> {"idle", "drained", "stopping", "spawning", "registering", "done"}]
    BY <1>2 DEF TypeOK
  <2>2. pc'["worker"] = "spawning"
    BY <1>1, <2>1, JobsOf
  <2>3. requests' = <<>>
    BY <1>1, <1>2, <2>1
  <2> QED
    BY <2>2, <2>3
<1>4. \A j \in Job \ {"worker"} : pc'[j] = pc[j] /\ ~Busy(j) /\ ~Busy(j)'
  BY <1>1, <1>2 DEF Order, JobsExclude, TypeOK, Active, Busy
<1>5. pc'["shutdown"] = pc["shutdown"] /\ (pc["shutdown"] = "idle" \/ late) /\ Requested'
  BY <1>2, <1>3, <1>4, JobsOf DEF Order, ShutdownIsLast, Requested
<1>6. LiveIsHeld'
  BY <1>1, <1>4 DEF Order, LiveIsHeld, Live, WorkerTakes, TypeOK
<1>7. JobsExclude' /\ ShutdownIsLast' /\ LateIsDead'
  BY <1>1, <1>4, <1>5 DEF Order, JobsExclude, ShutdownIsLast, LateIsDead
<1>8. RespawnReplaces' /\ SlotIsWanted' /\ EndedIsDead'
  BY <1>1, <1>2, <1>3 DEF Order, RespawnReplaces, SlotIsWanted, EndedIsDead
<1>9. SupervisorIsCurrent'
  <2>1. \A i \in Inst : Asking(i)' => Asking(i) /\ ~Drained(i)
    BY <1>1, <1>2 DEF Asking, Drained
  <2>2. QED
    BY <1>1, <2>1 DEF Order, SupervisorIsCurrent
<1>10. QED
  BY <1>6, <1>7, <1>8, <1>9 DEF Order

(* Nothing but a collision and a dispatcher's panic ends the order.        *)
LEMMA OrderStep == Shape /\ Order /\ [Next]_vars /\ Calm' => Order'
<1> SUFFICES ASSUME Shape, Order, [Next]_vars, ~collided', panics' = 0 PROVE Order'
  BY DEF Calm
<1>1. ASSUME NEW j \in Job, JobStep(j) PROVE Order'
  <2>1. CASE Spawns(j)
    BY <2>1, OrderSpawns
  <2>2. CASE Registers(j)
    BY <2>2, OrderRegisters
  <2>3. CASE Stops(j)
    <3>1. own[j] \in Inst /\ j \notin {"startup", "worker"} /\ pc[j] = "stopping"
      BY <2>3, InstType DEF Stops, Shape, OwnIsSpawned, TypeOK, JobPhases
    <3>2. PICK q \in {"spawning", "done"} : pc' = [pc EXCEPT ![j] = q]
      BY <2>3 DEF Stops
    <3>3. /\ proc' = [proc EXCEPT ![own[j]] = "dead"]
          /\ dispatcher' = [dispatcher EXCEPT ![own[j]] = "ended"]
          /\ UNCHANGED <<slot, asked, supervisor, requests, own, late>>
          /\ j = "shutdown" => q = "done"
      BY <2>3, <3>2, JobsOf DEF Stops, history, Shape, TypeOK
    <3>4. \A i \in Inst : (proc'[i] = proc[i] \/ proc'[i] = "dead")
                           /\ (dispatcher'[i] = "ended" => proc'[i] = "dead")
      BY <3>1, <3>3 DEF Order, EndedIsDead, Shape, TypeOK
    <3>5. proc'[own[j]] # "live" /\ Active(j)
      BY <3>1, <3>3 DEF Shape, TypeOK, Active
    <3>6. QED
      BY <3>1, <3>2, <3>3, <3>4, <3>5, OrderMoves
  <2>4. QED
    BY <1>1, <2>1, <2>2, <2>3 DEF JobStep
<1>2. ASSUME NEW j \in Job, SpawnFails(j) PROVE Order'
  <2>1. PICK q \in {"idle", "done"} : pc' = [pc EXCEPT ![j] = q] /\ (q = "idle" <=> j = "worker")
    BY <1>2 DEF SpawnFails
  <2>2. /\ UNCHANGED <<slot, proc, dispatcher, asked, supervisor, requests, own, late>>
        /\ pc[j] = "spawning" /\ j # "shutdown"
    BY <1>2 DEF SpawnFails, instances, history, Shape, JobPhases
  <2>3. \A i \in Inst : dispatcher'[i] = "ended" => proc'[i] = "dead"
    BY <2>2 DEF Order, EndedIsDead
  <2>4. QED
    BY <2>1, <2>2, <2>3, OrderMoves
<1>3. ASSUME NEW o \in Operators, Reload(o) PROVE Order'
  <2>1. CASE slot # 0
    <3>1. collided' = (collided \/ Respawning) /\ late' = late
      BY <1>3, <2>1 DEF Reload
    <3>2. /\ slot' = 0 /\ asked' = [asked EXCEPT ![slot] = TRUE]
          /\ own' = [own EXCEPT ![o] = slot] /\ pc' = [pc EXCEPT ![o] = "stopping"]
          /\ UNCHANGED <<proc, dispatcher, supervisor, requests>>
      BY <1>3, <2>1 DEF Reload
    <3>3. o # "shutdown"
      BY JobsOf
    <3>4. QED
      BY <2>1, <3>1, <3>2, <3>3, OrderTakesSlot
  <2>2. CASE slot = 0
    <3>1. UNCHANGED <<slot, proc, dispatcher, asked, supervisor, requests, own, late>>
          /\ pc[o] = "idle" /\ pc' = [pc EXCEPT ![o] = "done"]
      BY <1>3, <2>2 DEF Reload, instances, history
    <3>2. o \in Job /\ o # "worker" /\ o # "shutdown"
      BY JobsOf
    <3>3. \A i \in Inst : dispatcher'[i] = "ended" => proc'[i] = "dead"
      BY <3>1 DEF Order, EndedIsDead
    <3>4. QED
      BY <3>1, <3>2, <3>3, OrderMoves
  <2>3. QED
    BY <2>1, <2>2
<1>4. CASE ShutdownAll
  <2>1. ~Inserting /\ \A o \in Operators : pc[o] # "stopping"
    BY <1>4 DEF ShutdownAll
  <2>2. ~Respawning
    BY <2>1 DEF Inserting
  <2>3. CASE slot # 0
    <3>1. /\ slot' = 0 /\ own' = [own EXCEPT !["shutdown"] = slot]
          /\ pc["shutdown"] = "idle" /\ pc' = [pc EXCEPT !["shutdown"] = "drained"]
          /\ UNCHANGED <<proc, dispatcher, asked, supervisor, requests, late>>
      BY <1>4, <2>3 DEF ShutdownAll, instances
    <3>2. QED
      BY <2>2, <2>3, <3>1, OrderTakesSlot
  <2>4. CASE slot = 0
    <3>1. /\ pc["shutdown"] = "idle" /\ pc' = [pc EXCEPT !["shutdown"] = "done"]
          /\ UNCHANGED <<slot, proc, dispatcher, asked, supervisor, requests, own, late>>
      BY <1>4, <2>4 DEF ShutdownAll, instances
    <3>2. ~late /\ \A j \in Job : ~Active(j)
      BY <2>1, <3>1 DEF Inserting, Active, Shape, JobPhases, Job, Order, LateIsDead
    <3>3. \A j \in Job : ~Active(j)'
      BY <3>1, <3>2, JobsOf DEF Active, Shape, TypeOK
    <3>4. ~Respawning' /\ ~Requested'
      BY <2>2, <3>1, JobsOf DEF Respawning, Requested, Shape, TypeOK
    <3>5. \A i \in Inst : proc[i] # "live"
      BY <2>4, <3>2, InstType DEF Order, LiveIsHeld, Live, Active
    <3>6. LiveIsHeld' /\ JobsExclude' /\ ShutdownIsLast' /\ LateIsDead'
      BY <2>4, <3>1, <3>2, <3>3, <3>4, <3>5
         DEF LiveIsHeld, Live, JobsExclude, Busy, ShutdownIsLast, LateIsDead
    <3>7. RespawnReplaces' /\ SlotIsWanted' /\ EndedIsDead'
      BY <2>4, <3>1, <3>4 DEF Order, RespawnReplaces, Requested, SlotIsWanted, EndedIsDead
    <3>8. SupervisorIsCurrent'
      <4>1. \A i \in Inst : ~Asking(i)
        BY <2>2, <2>4, <3>1, <3>2, InstType DEF Order, SupervisorIsCurrent, Drained, Respawning
      <4>2. QED
        BY <3>1, <4>1 DEF Order, SupervisorIsCurrent, Asking
    <3>9. QED
      BY <3>6, <3>7, <3>8 DEF Order
  <2>5. QED
    BY <2>3, <2>4
<1>5. CASE WorkerTakes
  BY <1>5, OrderWorkerTakes
<1>6. ASSUME NEW i \in Inst, SupervisorSees(i) \/ SupervisorWakes(i) \/ SupervisorSends(i)
      PROVE  Order'
  BY <1>6, OrderSupervise, OrderWakes, OrderSends
<1>7. ASSUME NEW i \in Inst, ProcessDies(i) \/ OrphanExits(i) PROVE Order'
  <2>1. proc' = [proc EXCEPT ![i] = "dead"]
        /\ UNCHANGED <<slot, dispatcher, asked, supervisor, requests, jobs, late>>
    BY <1>7 DEF ProcessDies, OrphanExits, history
  <2>2. QED
    BY <2>1, OrderInstances DEF Order, EndedIsDead, Shape, TypeOK
<1>8. ASSUME NEW i \in Inst, DispatcherEnds(i) PROVE Order'
  <2>1. proc[i] = "dead" /\ dispatcher' = [dispatcher EXCEPT ![i] = "ended"]
        /\ UNCHANGED <<slot, proc, asked, supervisor, requests, jobs, late>>
    BY <1>8 DEF DispatcherEnds, history
  <2>2. QED
    BY <2>1, OrderInstances DEF Order, EndedIsDead, Shape, TypeOK
<1>9. ASSUME NEW i \in Inst, DispatcherPanics(i) PROVE FALSE
  BY <1>9 DEF DispatcherPanics, Shape, TypeOK
<1>10. CASE FlagsDrained
  BY <1>10, OrderFlags
<1>11. CASE UNCHANGED vars
  BY <1>11, OrderInstances DEF vars, instances, history, Order, EndedIsDead
<1>12. QED
  BY <1>1, <1>2, <1>3, <1>4, <1>5, <1>6, <1>7, <1>8, <1>9, <1>10, <1>11 DEF Next, InstanceStep

(* Once lost, calm does not come back.                                     *)
LEMMA CalmBefore == Shape /\ [Next]_vars /\ Calm' => Calm
<1> SUFFICES ASSUME Shape, [Next]_vars, Calm' PROVE Calm
  OBVIOUS
<1>1. panics \in Nat /\ collided \in BOOLEAN /\ ~collided' /\ panics' = 0
  BY DEF Shape, TypeOK, Calm
<1>2. collided => collided'
  BY DEF Next, JobStep, InstanceStep, Spawns, SpawnFails, Registers, Stops, Reload, ShutdownAll,
         FlagsDrained, WorkerTakes, DispatcherEnds, SupervisorSees, SupervisorWakes,
         SupervisorSends, Supervise, ProcessDies, DispatcherPanics, OrphanExits, vars, history
<1>3. panics' = panics \/ panics' = panics + 1
  BY DEF Next, JobStep, InstanceStep, Spawns, SpawnFails, Registers, Stops, Reload, ShutdownAll,
         FlagsDrained, WorkerTakes, DispatcherEnds, SupervisorSees, SupervisorWakes, SupervisorSends,
         Supervise, ProcessDies, DispatcherPanics, OrphanExits, vars, bounds
<1>4. QED
  BY <1>1, <1>2, <1>3 DEF Calm

LEMMA IInvHolds == Spec => []IInv
<1>1. Init => IInv
  <2>1. Init => Order
    <3> SUFFICES ASSUME Init PROVE Order
      OBVIOUS
    <3>1. ~Respawning /\ ~Requested
      BY JobsOf DEF Init, Respawning, Requested
    <3>2. QED
      BY <3>1, JobsOf DEF Init, Order, LiveIsHeld, Live, LateIsDead, JobsExclude, Busy, Active,
                          RespawnReplaces, Requested, SupervisorIsCurrent, Asking, SlotIsWanted,
                          EndedIsDead, ShutdownIsLast
  <2>2. QED
    BY <2>1, ShapeInit DEF IInv
<1>2. IInv /\ [Next]_vars => IInv'
  BY ShapeStep, OrderStep, CalmBefore DEF IInv
<1>3. QED
  BY <1>1, <1>2, PTL DEF Spec

(* Whatever a slot that is not taken mid-respawn goes through, reloads,    *)
(* crashes, failed spawns, restarts and the shutdown never leave two       *)
(* processes of the plugin alive, not even when a restart races with the   *)
(* shutdown; when none does, there is none alive after the shutdown.       *)
THEOREM OneProcessAtATime == Spec => []OneProcessUntilStopped
<1>1. ASSUME Shape, Order PROVE Cardinality(Live) <= 1
  <2>1. \A i, k \in Live : i = k
    <3> SUFFICES ASSUME NEW i \in Live, NEW k \in Live PROVE i = k
      OBVIOUS
    <3>1. \A j \in Job : Busy(j) /\ j # "worker" => slot = 0 /\ pc["worker"] = "idle"
      BY <1>1 DEF Order, JobsExclude, Respawning
    <3>2. pc["worker"] # "idle" /\ slot # 0 => proc[slot] = "dead"
      BY <1>1 DEF Order, RespawnReplaces, Requested
    <3>3. \A j, l \in Job : Busy(j) /\ Busy(l) => j = l
      BY <1>1, <3>1 DEF Order, JobsExclude, Active, Busy
    <3>4. \A x \in Live : x # 0 /\ (slot = x \/ \E j \in Job : own[j] = x /\ Busy(j))
      BY <1>1, InstType DEF Order, LiveIsHeld, LateIsDead, Live, Active, Busy
    <3>5. \A j \in Job : Busy(j) => slot = 0 \/ proc[slot] = "dead"
      BY <3>1, <3>2 DEF Busy, Active
    <3>6. QED
      BY <3>3, <3>4, <3>5 DEF Live
  <2>2. CASE Live = {}
    BY <2>2, FS_EmptySet
  <2>3. ASSUME NEW i \in Live PROVE Cardinality(Live) <= 1
    <3>1. Live = {i}
      BY <2>1
    <3>2. QED
      BY <3>1, FS_Singleton
  <2>4. QED
    BY <2>2, <2>3
<1>2. ASSUME Shape, Order, pc["shutdown"] = "done", ~late PROVE Live = {}
  <2>1. slot = 0 /\ \A j \in Job : ~Active(j)
    BY <1>2 DEF Order, ShutdownIsLast, Active
  <2>2. QED
    BY <1>2, <2>1, InstType DEF Order, LiveIsHeld, Live, Active
<1>3. IInv => OneProcessUntilStopped
  BY <1>1, <1>2 DEF IInv, Calm, OneProcessUntilStopped, OneProcessUnlessCollided, OneProcess,
                    StoppedUnlessLate, StoppedStaysStopped
<1>4. QED
  BY <1>3, IInvHolds, PTL
=============================================================================
