---------------------------- MODULE ServicesProofs ----------------------------
(***************************************************************************)
(* Proofs about the services that MCServices puts side by side: what a     *)
(* command leaves behind, in the background and in the foreground, and the *)
(* types of all five.  A behaviour is one of one service, so an invariant  *)
(* of a service is proved for the behaviours of that service.              *)
(***************************************************************************)
EXTENDS MCServices, SequenceTheorems, FiniteSetTheorems, FunctionTheorems, WellFoundedInduction,
        TLAPS

(* The last k of the first w bytes.                                        *)
LastBytes(w, k) == [i \in 1 .. k |-> w - k + i]

Kept(w) == IF w < STREAM_CAP_BYTES THEN w ELSE STREAM_CAP_BYTES

LEMMA LastIsSeq ==
  ASSUME NEW w \in Nat, NEW k \in Nat
  PROVE  /\ LastBytes(w, k) \in Seq(Int) /\ Len(LastBytes(w, k)) = k
         /\ DOMAIN LastBytes(w, k) = 1 .. k
         /\ \A i \in 1 .. k : LastBytes(w, k)[i] = w - k + i
<1>1. LastBytes(w, k) \in [1 .. k -> Int]
  BY DEF LastBytes
<1>2. LastBytes(w, k) \in Seq(Int)
  BY <1>1, SeqDef
<1>3. DOMAIN LastBytes(w, k) = 1 .. k
  BY <1>1
<1>4. Len(LastBytes(w, k)) = k
  BY <1>2, <1>3, LenProperties
<1> QED
  BY <1>2, <1>3, <1>4 DEF LastBytes

(* RingBytes.append keeps the tail, whether the chunk fits, replaces part  *)
(* of what is there or all of it.                                          *)
LEMMA RingKeepsTail ==
  ASSUME STREAM_CAP_BYTES \in Nat, NEW w \in Nat, NEW n \in Nat
  PROVE  Bg!Ring(LastBytes(w, Kept(w)), [i \in 1 .. n |-> w + i]) = LastBytes(w + n, Kept(w + n))
<1> DEFINE k == Kept(w)
           d == LastBytes(w, k)
           chunk == LastBytes(w + n, n)
           l == Kept(w + n)
           e == LastBytes(w + n, l)
           excess == k + n - STREAM_CAP_BYTES
<1>1. k \in Nat /\ l \in Nat /\ k <= w /\ l <= w + n /\ k <= STREAM_CAP_BYTES
  BY DEF Kept
<1>2. [i \in 1 .. n |-> w + i] = chunk
  BY DEF LastBytes
<1>3. /\ d \in Seq(Int) /\ Len(d) = k /\ \A i \in 1 .. k : d[i] = w - k + i
      /\ chunk \in Seq(Int) /\ Len(chunk) = n /\ \A i \in 1 .. n : chunk[i] = w + i
      /\ e \in Seq(Int) /\ Len(e) = l /\ \A i \in 1 .. l : e[i] = w + n - l + i
  <2>0. w + n \in Nat
    OBVIOUS
  <2>1. d \in Seq(Int) /\ Len(d) = k /\ \A i \in 1 .. k : d[i] = w - k + i
    BY <1>1, LastIsSeq
  <2>2. chunk \in Seq(Int) /\ Len(chunk) = n /\ \A i \in 1 .. n : chunk[i] = (w + n) - n + i
    BY <2>0, LastIsSeq
  <2>3. e \in Seq(Int) /\ Len(e) = l /\ \A i \in 1 .. l : e[i] = (w + n) - l + i
    BY <1>1, <2>0, LastIsSeq
  <2> QED
    BY <2>1, <2>2, <2>3
<1>4. Bg!Ring(d, chunk) =
        IF excess <= 0 THEN d \o chunk
        ELSE IF excess >= k
        THEN Bg!LastOf(chunk, IF n < STREAM_CAP_BYTES THEN n ELSE STREAM_CAP_BYTES)
        ELSE SubSeq(d, excess + 1, k) \o chunk
  BY <1>3 DEF Bg!Ring
<1>5. /\ excess <= 0 => l = k + n
      /\ excess > 0 => l = STREAM_CAP_BYTES
  BY <1>1 DEF Kept
<1> HIDE DEF k, d, chunk, l, e
<1>6. CASE excess <= 0
  <2> DEFINE c == d \o chunk
  <2>1. /\ c \in Seq(Int) /\ Len(c) = k + n
        /\ \A i \in 1 .. k + n : c[i] = IF i <= k THEN d[i] ELSE chunk[i - k]
    <3>1. /\ c \in Seq(Int) /\ Len(c) = Len(d) + Len(chunk)
          /\ \A i \in 1 .. Len(d) + Len(chunk) :
               c[i] = IF i <= Len(d) THEN d[i] ELSE chunk[i - Len(d)]
      BY <1>3, ConcatProperties, ZenonT(60)
    <3> HIDE DEF c
    <3> QED
      BY <1>1, <1>3, <3>1
  <2> HIDE DEF c
  <2>2. \A i \in 1 .. k + n : c[i] = e[i]
    <3> SUFFICES ASSUME NEW i \in 1 .. k + n PROVE c[i] = e[i]
      OBVIOUS
    <3>1. e[i] = w + n - l + i
      BY <1>1, <1>3, <1>5, <1>6
    <3>2. CASE i <= k
      BY <1>1, <1>3, <1>5, <1>6, <2>1, <3>1, <3>2
    <3>3. CASE i > k
      <4>1. i - k \in 1 .. n
        BY <1>1, <3>3
      <4>2. chunk[i - k] = w + (i - k)
        BY <1>3, <4>1
      <4> QED
        BY <1>1, <1>5, <1>6, <2>1, <3>1, <3>3, <4>2
    <3> QED
      BY <1>1, <3>2, <3>3
  <2>3. c = e
    BY <1>1, <1>3, <1>5, <1>6, <2>1, <2>2, SeqEqual
  <2>4. Bg!Ring(d, chunk) = c
    BY <1>4, <1>6 DEF c
  <2> QED
    BY <1>2, <2>3, <2>4 DEF d, e, k, l
<1>7. CASE excess > 0 /\ excess >= k
  <2>1. n >= STREAM_CAP_BYTES /\ l = STREAM_CAP_BYTES
    BY <1>1, <1>5, <1>7
  <2>2. Bg!Ring(d, chunk) = SubSeq(chunk, n - l + 1, n)
    BY <1>1, <1>3, <1>4, <1>7, <2>1 DEF Bg!LastOf
  <2> DEFINE p == SubSeq(chunk, n - l + 1, n)
  <2>3. p \in Seq(Int) /\ Len(p) = l /\ \A i \in 1 .. l : p[i] = chunk[n - l + i]
    <3>1. \A i \in n - l + 1 .. n : chunk[i] \in Int
      BY <1>1, <1>3, <2>1
    <3>2. /\ n - l + 1 \in Int /\ (n - l + 1 <= n => n - (n - l + 1) + 1 = l)
          /\ (~(n - l + 1 <= n) => l = 0)
          /\ n - (n - l + 1) + 1 = l /\ \A i \in Int : n - l + 1 + i - 1 = n - l + i
      BY <1>1
    <3>3. /\ p \in Seq(Int) /\ Len(p) = IF n - l + 1 <= n THEN n - (n - l + 1) + 1 ELSE 0
          /\ \A i \in 1 .. n - (n - l + 1) + 1 : p[i] = chunk[n - l + 1 + i - 1]
      BY <3>1, <3>2, SubSeqProperties
    <3> HIDE DEF p
    <3>4. Len(p) = l
      BY <1>1, <3>2, <3>3
    <3>5. \A i \in 1 .. l : p[i] = chunk[n - l + i]
      <4> SUFFICES ASSUME NEW i \in 1 .. l PROVE p[i] = chunk[n - l + i]
        OBVIOUS
      <4>1. i \in 1 .. n - (n - l + 1) + 1 /\ n - l + 1 + i - 1 = n - l + i
        BY <1>1, <3>2
      <4> QED
        BY <3>3, <4>1
    <3> QED
      BY <3>3, <3>4, <3>5
  <2> HIDE DEF p
  <2>4. \A i \in 1 .. l : p[i] = e[i]
    <3> SUFFICES ASSUME NEW i \in 1 .. l PROVE p[i] = e[i]
      OBVIOUS
    <3>1. n - l + i \in 1 .. n
      BY <1>1, <2>1
    <3>2. chunk[n - l + i] = w + (n - l + i)
      BY <1>3, <3>1
    <3> QED
      BY <1>1, <1>3, <2>3, <3>2
  <2>5. p = e
    BY <1>3, <2>3, <2>4, SeqEqual
  <2> QED
    BY <1>2, <2>2, <2>5 DEF d, e, k, l, p
<1>8. CASE excess > 0 /\ excess < k
  <2> DEFINE p == SubSeq(d, excess + 1, k)
             m == k - excess
  <2>1. m \in Nat /\ m + n = STREAM_CAP_BYTES /\ l = m + n
    BY <1>1, <1>5, <1>8
  <2>2. p \in Seq(Int) /\ Len(p) = m /\ \A i \in 1 .. m : p[i] = d[excess + i]
    <3>1. \A i \in excess + 1 .. k : d[i] \in Int
      BY <1>1, <1>3, <1>8
    <3>2. /\ excess + 1 \in Int /\ excess + 1 <= k /\ k - (excess + 1) + 1 = m
          /\ \A i \in Int : excess + 1 + i - 1 = excess + i
      BY <1>1, <1>8
    <3>3. /\ p \in Seq(Int) /\ Len(p) = IF excess + 1 <= k THEN k - (excess + 1) + 1 ELSE 0
          /\ \A i \in 1 .. k - (excess + 1) + 1 : p[i] = d[excess + 1 + i - 1]
      BY <1>1, <3>1, <3>2, SubSeqProperties
    <3> HIDE DEF p, m
    <3>4. Len(p) = m
      BY <3>2, <3>3
    <3>5. \A i \in 1 .. m : p[i] = d[excess + i]
      <4> SUFFICES ASSUME NEW i \in 1 .. m PROVE p[i] = d[excess + i]
        OBVIOUS
      <4>1. i \in 1 .. k - (excess + 1) + 1 /\ excess + 1 + i - 1 = excess + i
        BY <1>1, <2>1, <3>2
      <4> QED
        BY <3>3, <4>1
    <3> QED
      BY <3>3, <3>4, <3>5
  <2> HIDE DEF p
  <2> DEFINE c == p \o chunk
  <2>3. /\ c \in Seq(Int) /\ Len(c) = m + n
        /\ \A i \in 1 .. m + n : c[i] = IF i <= m THEN p[i] ELSE chunk[i - m]
    <3>1. /\ c \in Seq(Int) /\ Len(c) = Len(p) + Len(chunk)
          /\ \A i \in 1 .. Len(p) + Len(chunk) :
               c[i] = IF i <= Len(p) THEN p[i] ELSE chunk[i - Len(p)]
      <4>1. p \in Seq(Int) /\ chunk \in Seq(Int)
        BY <1>3, <2>2
      <4> QED
        BY <4>1, ConcatProperties
    <3> HIDE DEF c
    <3> QED
      BY <1>3, <2>1, <2>2, <3>1
  <2> HIDE DEF c
  <2>4. \A i \in 1 .. m + n : c[i] = e[i]
    <3> SUFFICES ASSUME NEW i \in 1 .. m + n PROVE c[i] = e[i]
      OBVIOUS
    <3>1. e[i] = w + n - l + i
      BY <1>1, <1>3, <2>1
    <3>2. CASE i <= m
      <4>1. excess + i \in 1 .. k /\ i \in 1 .. m
        BY <1>1, <1>8, <2>1, <3>2
      <4>2. p[i] = w - k + (excess + i)
        BY <1>3, <2>2, <4>1
      <4> QED
        BY <1>1, <2>1, <2>3, <3>1, <3>2, <4>2
    <3>3. CASE i > m
      <4>1. i - m \in 1 .. n
        BY <2>1, <3>3
      <4>2. chunk[i - m] = w + (i - m)
        BY <1>3, <4>1
      <4> QED
        BY <1>1, <2>1, <2>3, <3>1, <3>3, <4>2
    <3> QED
      BY <2>1, <3>2, <3>3
  <2>5. c = e
    BY <1>3, <2>1, <2>3, <2>4, SeqEqual
  <2>6. Bg!Ring(d, chunk) = c
    BY <1>1, <1>4, <1>8 DEF c, p
  <2> QED
    BY <1>2, <2>5, <2>6 DEF d, e, k, l
<1> QED
  BY <1>1, <1>6, <1>7, <1>8

-----------------------------------------------------------------------------
(* TaskRegistry: how a background command ended, and what it printed.      *)

(* A reaped process is dead, and what was marked without a reap was marked *)
(* by somebody who asked to stop it.                                       *)
EndsAreTrue ==
  /\ \A t \in Task :
       /\ reaper[t] = "done" => Bg!Dead(t) /\ status[t] \in {"exited", "killed"}
       /\ status[t] = "killed" /\ t \notin stopped => reaper[t] = "done"
  /\ Bg!EndIsReported

TaskTypes ==
  /\ child \in [Task -> {"none", "running", "exited", "signalled"}]
  /\ DOMAIN reaper = Task /\ DOMAIN status = Task
  /\ written \in [Task -> Nat] /\ DOMAIN data = Task /\ truncated \in [Task -> BOOLEAN]

(* The buffer holds the tail of what was written.                          *)
BufferIsTail ==
  \A t \in Task : /\ data[t] = LastBytes(written[t], Kept(written[t]))
                  /\ truncated[t] <=> Kept(written[t]) < written[t]

TaskInv == TaskTypes /\ EndsAreTrue /\ BufferIsTail

LEMMA TasksBegin == Bg!Init => TaskInv
<1> SUFFICES ASSUME Bg!Init PROVE TaskInv
  OBVIOUS
<1> USE DEF Bg!Init
<1>1. TaskTypes /\ EndsAreTrue
  BY DEF TaskTypes, EndsAreTrue, Bg!EndIsReported, Bg!Dead
<1>2. Kept(0) = 0
  BY ServicesAssumption DEF Kept
<1>3. LastBytes(0, 0) = <<>>
  BY LastIsSeq, EmptySeq
<1>4. BufferIsTail
  BY <1>2, <1>3 DEF BufferIsTail
<1> QED
  BY <1>1, <1>4 DEF TaskInv

(* Processes, reapers and stops do not touch the output.                   *)
LEMMA EndsKeepTasks ==
  ASSUME TaskInv, UNCHANGED <<written, data, truncated>>, TaskTypes', EndsAreTrue'
  PROVE  TaskInv'
  BY DEF TaskInv, BufferIsTail

LEMMA ProcessKeepsTasks ==
  ASSUME TaskInv, NEW t \in Task, Bg!Spawn(t) \/ Bg!ChildEnds(t) PROVE TaskInv'
<1>1. UNCHANGED <<written, data, truncated>>
  BY DEF Bg!Spawn, Bg!ChildEnds, Bg!output
<1>2. TaskTypes'
  <2>1. CASE Bg!Spawn(t)
    BY <2>1 DEF TaskInv, TaskTypes, Bg!Spawn, Bg!output
  <2>2. CASE Bg!ChildEnds(t)
    BY <2>2 DEF TaskInv, TaskTypes, Bg!ChildEnds, Bg!output
  <2> QED
    BY <2>1, <2>2
<1>3. EndsAreTrue'
  <2>1. CASE Bg!Spawn(t)
    <3>1. /\ child[t] = "none" /\ child' = [child EXCEPT ![t] = "running"]
          /\ reaper' = [reaper EXCEPT ![t] = "starting"] /\ stopped' = stopped
          /\ status' = [status EXCEPT ![t] = "running"]
      BY <2>1 DEF Bg!Spawn, Bg!stopping
    <3> QED
      BY <3>1 DEF TaskInv, TaskTypes, EndsAreTrue, Bg!EndIsReported, Bg!Dead
  <2>2. CASE Bg!ChildEnds(t)
    <3>1. PICK e \in {"exited", "signalled"} :
            /\ child[t] = "running" /\ child' = [child EXCEPT ![t] = e]
            /\ UNCHANGED <<reaper, status, stopped>>
      BY <2>2 DEF Bg!ChildEnds, Bg!stopping
    <3> QED
      BY <3>1 DEF TaskInv, TaskTypes, EndsAreTrue, Bg!EndIsReported, Bg!Dead
  <2> QED
    BY <2>1, <2>2
<1> QED
  BY <1>1, <1>2, <1>3, EndsKeepTasks

LEMMA ReaperKeepsTasks == ASSUME TaskInv, NEW t \in Task, Bg!ReaperStep(t) PROVE TaskInv'
<1>1. UNCHANGED <<written, data, truncated, child, stopped>>
  BY DEF Bg!ReaperStep, Bg!ReaperLocks, Bg!ReaperReaps, Bg!output, Bg!stopping
<1>2. TaskTypes' /\ EndsAreTrue'
  <2>1. CASE Bg!ReaperLocks(t)
    <3>1. reaper[t] = "starting" /\ reaper' = [reaper EXCEPT ![t] = "waiting"] /\ status' = status
      BY <2>1 DEF Bg!ReaperLocks
    <3> QED
      BY <1>1, <3>1 DEF TaskInv, TaskTypes, EndsAreTrue, Bg!EndIsReported, Bg!Dead
  <2>2. CASE Bg!ReaperReaps(t)
    <3>1. /\ reaper[t] = "waiting" /\ Bg!Dead(t) /\ reaper' = [reaper EXCEPT ![t] = "done"]
          /\ status' = [status EXCEPT ![t] = Bg!Final(t)]
      BY <2>2 DEF Bg!ReaperReaps
    <3>2. /\ Bg!Final(t) \in {"exited", "killed"}
          /\ t \notin stopped => (Bg!Final(t) = "exited" <=> child[t] = "exited")
      BY <3>1 DEF TaskInv, EndsAreTrue, Bg!Final
    <3> QED
      BY <1>1, <3>1, <3>2 DEF TaskInv, TaskTypes, EndsAreTrue, Bg!EndIsReported, Bg!Dead
  <2> QED
    BY <2>1, <2>2 DEF Bg!ReaperStep
<1> QED
  BY <1>1, <1>2, EndsKeepTasks

LEMMA StopKeepsTasks ==
  ASSUME TaskInv, NEW s \in Stopper,
         Bg!StopKills(s) \/ Bg!StopDropped(s) \/ \E t \in Task : Bg!StopMarks(s, t)
  PROVE  TaskInv'
<1>1. UNCHANGED <<written, data, truncated, reaper>>
  BY DEF Bg!StopKills, Bg!StopDropped, Bg!StopMarks, Bg!output, Bg!processes
<1>2. TaskTypes' /\ EndsAreTrue'
  <2>1. CASE Bg!StopKills(s)
    <3>1. /\ UNCHANGED <<status, stopped>>
          /\ \/ child' = child
             \/ child[target[s]] = "running" /\ child' = [child EXCEPT ![target[s]] = "signalled"]
      BY <2>1 DEF Bg!StopKills
    <3> QED
      BY <1>1, <3>1 DEF TaskInv, TaskTypes, EndsAreTrue, Bg!EndIsReported, Bg!Dead
  <2>2. CASE Bg!StopDropped(s)
    BY <1>1, <2>2 DEF Bg!StopDropped, Bg!processes, TaskInv, TaskTypes, EndsAreTrue,
       Bg!EndIsReported, Bg!Dead
  <2>3. ASSUME NEW t \in Task, Bg!StopMarks(s, t) PROVE TaskTypes' /\ EndsAreTrue'
    <3>1. /\ child' = child /\ status' = [status EXCEPT ![t] = "killed"]
          /\ stopped' = stopped \cup {t}
      BY <2>3 DEF Bg!StopMarks
    <3> QED
      BY <1>1, <3>1 DEF TaskInv, TaskTypes, EndsAreTrue, Bg!EndIsReported, Bg!Dead
  <2> QED
    BY <2>1, <2>2, <2>3
<1> QED
  BY <1>1, <1>2, EndsKeepTasks

LEMMA PumpKeepsTasks ==
  ASSUME TaskInv, NEW t \in Task, NEW n \in 1 .. MaxChunk, Bg!Pump(t, n) PROVE TaskInv'
<1>1. /\ written' = [written EXCEPT ![t] = @ + n]
      /\ data' = [data EXCEPT ![t] = Bg!Ring(@, [k \in 1 .. n |-> written[t] + k])]
      /\ truncated' = [truncated EXCEPT ![t] = @ \/ Len(data[t]) + n > STREAM_CAP_BYTES]
      /\ UNCHANGED <<child, reaper, status, stopped>>
  BY DEF Bg!Pump, Bg!processes, Bg!stopping
<1>2. n \in Nat /\ STREAM_CAP_BYTES \in Nat /\ written[t] \in Nat
  BY ServicesAssumption DEF TaskInv, TaskTypes
<1>3. TaskTypes'
  BY <1>1, <1>2 DEF TaskInv, TaskTypes
<1>4. EndsAreTrue'
  BY <1>1 DEF TaskInv, EndsAreTrue, Bg!EndIsReported, Bg!Dead
<1>5. BufferIsTail'
  <2>1. data[t] = LastBytes(written[t], Kept(written[t]))
        /\ (truncated[t] <=> Kept(written[t]) < written[t])
    BY DEF TaskInv, BufferIsTail
  <2>2. data'[t] = LastBytes(written[t] + n, Kept(written[t] + n))
    <3>1. data'[t] = Bg!Ring(data[t], [k \in 1 .. n |-> written[t] + k])
      BY <1>1 DEF TaskInv, TaskTypes
    <3> QED
      BY <1>2, <2>1, <3>1, RingKeepsTail
  <2>3. Len(data[t]) = Kept(written[t])
    <3>1. Kept(written[t]) \in Nat
      BY <1>2 DEF Kept
    <3> QED
      BY <1>2, <2>1, <3>1, LastIsSeq
  <2>4. truncated'[t] <=> Kept(written[t] + n) < written[t] + n
    <3>1. truncated'[t] = (truncated[t] \/ Kept(written[t]) + n > STREAM_CAP_BYTES)
      BY <1>1, <2>3 DEF TaskInv, TaskTypes
    <3>2. Kept(written[t]) < written[t] \/ Kept(written[t]) + n > STREAM_CAP_BYTES
            <=> Kept(written[t] + n) < written[t] + n
      BY <1>2 DEF Kept
    <3> QED
      BY <2>1, <3>1, <3>2
  <2>5. written'[t] = written[t] + n
    BY <1>1 DEF TaskInv, TaskTypes
  <2>6. \A o \in Task \ {t} : /\ written'[o] = written[o] /\ data'[o] = data[o]
                              /\ truncated'[o] = truncated[o]
    BY <1>1 DEF TaskInv, TaskTypes
  <2> QED
    BY <2>2, <2>4, <2>5, <2>6 DEF TaskInv, BufferIsTail, Kept
<1> QED
  BY <1>3, <1>4, <1>5 DEF TaskInv

LEMMA TaskStep == ASSUME TaskInv, [Bg!Next]_tasksState PROVE TaskInv'
<1>1. CASE UNCHANGED tasksState
  BY <1>1 DEF tasksState, TaskInv, TaskTypes, EndsAreTrue, BufferIsTail, Bg!EndIsReported, Bg!Dead
<1> QED
  BY <1>1, ProcessKeepsTasks, ReaperKeepsTasks, StopKeepsTasks, PumpKeepsTasks DEF Bg!Next

-----------------------------------------------------------------------------
(* Shell: what a command in the foreground returns.                        *)

(* What a reader did not cut is in its hands or in the pipe.               *)
NothingLeaks ==
  \A s \in Stream :
    /\ reader[s] # "cut" => out[s] + pipe[s] = printed[s]
    /\ reader[s] = "cut" => out[s] = MAX_OUTPUT_BYTES /\ printed[s] > MAX_OUTPUT_BYTES
    /\ reader[s] = "eof" => pipe[s] = 0 /\ ~Fg!HasWriter

(* The shell runs only while the call waits for it; a pipe is read from    *)
(* the start of the shell on.                                              *)
ShellIsWaitedFor ==
  /\ sh = "running" => call = "waiting"
  /\ call = "idle" => sh = "none" /\ result = "none"
  /\ sh = "none" => heir = "none" /\ call \in {"idle", "returned"}
  /\ \A s \in Stream : reader[s] = "none" <=> sh = "none"
  /\ result \in {"output", "error"} /\ sh # "none" => Fg!ReadersDone

ShellTypes ==
  /\ pipe \in [Stream -> Nat] /\ out \in [Stream -> Nat] /\ printed \in [Stream -> Nat]
  /\ DOMAIN reader = Stream /\ heir \in {"none", "running", "gone"}
  /\ result \in {"none", "output", "error", "timed_out"}

ShellInv == ShellTypes /\ NothingLeaks /\ ShellIsWaitedFor

LEMMA ShellBegins == Fg!Init => ShellInv
  BY DEF Fg!Init, ShellInv, ShellTypes, NothingLeaks, ShellIsWaitedFor

LEMMA WritersKeepShell ==
  ASSUME ShellInv, NEW s \in Stream, Fg!Prints(s) \/ Fg!BreaksOff(s) PROVE ShellInv'
<1>1. CASE Fg!Prints(s)
  <2>1. /\ Fg!HasWriter /\ reader[s] # "cut"
        /\ pipe' = [pipe EXCEPT ![s] = @ + 1] /\ printed' = [printed EXCEPT ![s] = @ + 1]
        /\ UNCHANGED <<call, sh, heir, reader, out, result>>
    BY <1>1 DEF Fg!Prints
  <2>2. ShellTypes'
    BY <2>1 DEF ShellInv, ShellTypes
  <2>3. NothingLeaks'
    BY <2>1 DEF ShellInv, ShellTypes, NothingLeaks, Fg!HasWriter
  <2>4. ShellIsWaitedFor'
    BY <2>1 DEF ShellInv, ShellIsWaitedFor, Fg!ReadersDone
  <2> QED
    BY <2>2, <2>3, <2>4 DEF ShellInv
<1>2. CASE Fg!BreaksOff(s)
  <2>1. /\ UNCHANGED <<call, reader, pipe, out, printed, result>>
        /\ \/ sh = "running" /\ sh' = "killed" /\ heir' = heir
           \/ heir = "running" /\ heir' = "gone" /\ sh' = sh
    BY <1>2 DEF Fg!BreaksOff
  <2> QED
    BY <2>1 DEF ShellInv, ShellTypes, NothingLeaks, ShellIsWaitedFor, Fg!HasWriter,
       Fg!ReadersDone
<1> QED
  BY <1>1, <1>2

LEMMA ProcessesKeepShell ==
  ASSUME ShellInv, Fg!LeavesHeir \/ Fg!ShellEnds \/ Fg!HeirEnds PROVE ShellInv'
<1>1. /\ UNCHANGED <<call, reader, pipe, out, printed, result>>
      /\ \/ sh = "running" /\ heir' = "running" /\ sh' = sh
         \/ sh = "running" /\ sh' \in {"success", "failure"} /\ heir' = heir
         \/ heir = "running" /\ heir' = "gone" /\ sh' = sh
  BY DEF Fg!LeavesHeir, Fg!ShellEnds, Fg!HeirEnds
<1> QED
  BY <1>1 DEF ShellInv, ShellTypes, NothingLeaks, ShellIsWaitedFor, Fg!HasWriter, Fg!ReadersDone

LEMMA ReadersKeepShell ==
  ASSUME ShellInv, NEW s \in Stream, Fg!ReaderStep(s) PROVE ShellInv'
<1>1. /\ reader[s] = "reading" /\ UNCHANGED <<call, sh, heir, printed, result>>
      /\ \/ /\ pipe[s] > 0 /\ out[s] = MAX_OUTPUT_BYTES /\ out' = out
            /\ reader' = [reader EXCEPT ![s] = "cut"] /\ pipe' = [pipe EXCEPT ![s] = 0]
         \/ /\ pipe[s] > 0 /\ reader' = reader
            /\ out' = [out EXCEPT ![s] = @ + 1] /\ pipe' = [pipe EXCEPT ![s] = @ - 1]
         \/ /\ pipe[s] = 0 /\ ~Fg!HasWriter /\ UNCHANGED <<pipe, out>>
            /\ reader' = [reader EXCEPT ![s] = "eof"]
  BY DEF Fg!ReaderStep, Fg!ReadOne, Fg!ReadEnd
<1>2. ShellTypes'
  BY <1>1 DEF ShellInv, ShellTypes
<1>3. NothingLeaks'
  BY <1>1 DEF ShellInv, ShellTypes, NothingLeaks, Fg!HasWriter
<1>4. ShellIsWaitedFor'
  BY <1>1 DEF ShellInv, ShellTypes, ShellIsWaitedFor, Fg!ReadersDone
<1> QED
  BY <1>2, <1>3, <1>4 DEF ShellInv

LEMMA CallKeepsShell ==
  ASSUME ShellInv,
         Fg!SpawnFails \/ Fg!Execute \/ Fg!CallStep \/ Fg!TimesOut \/ Fg!Dropped
  PROVE  ShellInv'
<1>1. CASE Fg!Execute
  <2>1. /\ call = "idle" /\ call' = "waiting" /\ sh' = "running"
        /\ reader' = [s \in Stream |-> "reading"]
        /\ UNCHANGED <<heir, pipe, out, printed, result>>
    BY <1>1 DEF Fg!Execute
  <2>2. \A s \in Stream : reader[s] = "none" /\ reader'[s] = "reading"
    BY <2>1 DEF ShellInv, ShellIsWaitedFor
  <2> QED
    BY <2>1, <2>2 DEF ShellInv, ShellTypes, NothingLeaks, ShellIsWaitedFor
<1>2. CASE Fg!Joined
  <2>1. /\ call = "joining" /\ Fg!ReadersDone /\ call' = "returned"
        /\ result' \in {"output", "error"} /\ UNCHANGED <<sh, heir, reader, pipe, out, printed>>
    BY <1>2 DEF Fg!Joined
  <2> QED
    BY <2>1 DEF ShellInv, ShellTypes, NothingLeaks, ShellIsWaitedFor, Fg!HasWriter,
       Fg!ReadersDone
<1>3. CASE Fg!SpawnFails \/ Fg!Waited
  BY <1>3 DEF Fg!SpawnFails, Fg!Waited, ShellInv, ShellTypes, NothingLeaks, ShellIsWaitedFor,
     Fg!HasWriter, Fg!ReadersDone
<1>4. CASE Fg!TimesOut \/ Fg!Dropped
  <2>1. /\ call \in {"waiting", "joining"} /\ call' \in {"returned", "dropped"}
        /\ result' \in {result, "timed_out"} /\ UNCHANGED <<heir, reader, pipe, out, printed>>
        /\ sh' = IF sh = "running" THEN "killed" ELSE sh
    BY <1>4 DEF Fg!TimesOut, Fg!Dropped
  <2> QED
    BY <2>1 DEF ShellInv, ShellTypes, NothingLeaks, ShellIsWaitedFor, Fg!HasWriter,
       Fg!ReadersDone
<1> QED
  BY <1>1, <1>2, <1>3, <1>4 DEF Fg!CallStep

LEMMA ShellStep == ASSUME ShellInv, [Fg!Next]_shellState PROVE ShellInv'
<1>1. CASE UNCHANGED shellState
  BY <1>1 DEF shellState, ShellInv, ShellTypes, NothingLeaks, ShellIsWaitedFor, Fg!HasWriter,
     Fg!ReadersDone
<1> QED
  BY <1>1, WritersKeepShell, ProcessesKeepShell, ReadersKeepShell, CallKeepsShell DEF Fg!Next

LEMMA InvOutputIsWhole == ASSUME ShellInv PROVE Fg!OutputIsWhole
<1>1. Fg!Ended => sh # "running"
  BY DEF ShellInv, ShellIsWaitedFor, Fg!Ended
<1>2. ASSUME result \in {"output", "error"}, sh # "none", NEW s \in Stream
      PROVE  out[s] = printed[s] \/ (out[s] = MAX_OUTPUT_BYTES /\ printed[s] > MAX_OUTPUT_BYTES)
  <2>1. reader[s] \in {"eof", "cut"}
    BY <1>2 DEF ShellInv, ShellIsWaitedFor, Fg!ReadersDone
  <2> QED
    BY <2>1 DEF ShellInv, ShellTypes, NothingLeaks
<1> QED
  BY <1>1, <1>2 DEF Fg!OutputIsWhole, ShellInv, ShellTypes

(* Whatever reaper, stop and cancelled stops do to the status of a         *)
(* background command, a reaped one is reported as it ended unless somebody*)
(* asked to stop it, and its buffer is the tail of its output; and a       *)
(* command in the foreground returns all that it and what it left behind   *)
(* have written, up to the cap, and no shell outlives its call.  For any   *)
(* number of commands, stops and streams, and caps and pipes of any size.  *)
THEOREM EndReported == Spec => []EndIsReported
<1> DEFINE Inv == (service = "tasks" => TaskInv) /\ (service = "shell" => ShellInv)
<1>1. Init => Inv
  BY TasksBegin, ShellBegins DEF Init
<1>2. Inv /\ [Next]_vars => Inv'
  <2> SUFFICES ASSUME Inv, [Next]_vars PROVE Inv'
    OBVIOUS
  <2>1. service' = service
    BY DEF Next, vars, OnlyScheduler, OnlyTasks, OnlyOutbox, OnlyLark, OnlyShell
  <2>2. service = "tasks" => [Bg!Next]_tasksState
    BY DEF Next, vars, OnlyScheduler, OnlyOutbox, OnlyLark, OnlyShell
  <2>3. service = "shell" => [Fg!Next]_shellState
    BY DEF Next, vars, OnlyScheduler, OnlyTasks, OnlyOutbox, OnlyLark
  <2> QED
    BY <2>1, <2>2, <2>3, TaskStep, ShellStep
<1>3. Inv => EndIsReported
  <2>1. TaskInv => Bg!EndIsReported /\ Bg!TailIsKept
    BY DEF TaskInv, EndsAreTrue, BufferIsTail, LastBytes, Kept, Bg!TailIsKept
  <2> QED
    BY <2>1, InvOutputIsWhole DEF EndIsReported
<1> QED
  BY <1>1, <1>2, <1>3, PTL DEF Spec
-----------------------------------------------------------------------------
(* The types of the five services.  What the others take from a service is *)
(* nothing, so each is a matter of its own.                                *)

(* Scheduler: the row in hand is not in the batch, and was due.            *)
RowInHand ==
  tick = "advancing" => /\ current \notin batch /\ row[current] # "absent"
                        /\ nextFire[current] <= tickNow

SchedShape == Sched!TypeOK /\ RowInHand

LEMMA SchedTypesBegin == Sched!Init => SchedShape
<1>1. Sched!AnyTask \in Tasks
  BY TypesAssumption DEF Sched!AnyTask
<1>2. Sched!Cardinality({}) = 0
  BY FS_EmptySet DEF Sched!Cardinality
<1> QED
  BY <1>1, <1>2, TypesAssumption DEF Sched!Init, SchedShape, Sched!TypeOK, RowInHand

LEMMA NextSlotIsNumber ==
  ASSUME NEW first \in Nat, NEW i \in Nat \ {0}, NEW at \in Nat, first <= at
  PROVE  Sched!Advance(first, i, at) \in Nat
<1>1. (at - first) \div i \in Nat
  OBVIOUS
<1>2. ((at - first) \div i + 1) * i \in Nat
  BY <1>1
<1> QED
  BY <1>1, <1>2 DEF Sched!Advance

LEMMA OperatorsKeepTypes ==
  ASSUME SchedShape,
         \/ \E t \in Tasks : Sched!Pause(t) \/ Sched!Resume(t) \/ Sched!Delete(t)
         \/ \E t \in Tasks, i \in Intervals, at \in 0 .. MaxTime : Sched!Create(t, i, at)
         \/ Sched!TimePasses
  PROVE  SchedShape'
<1> USE TypesAssumption
    DEF SchedShape, Sched!TypeOK, RowInHand, Sched!tasks, Sched!ticking, Sched!counts
<1>1. ASSUME NEW t \in Tasks, Sched!Pause(t) \/ Sched!Resume(t) \/ Sched!Delete(t)
      PROVE  SchedShape'
  BY <1>1 DEF Sched!Pause, Sched!Resume, Sched!Delete
<1>2. ASSUME NEW t \in Tasks, NEW i \in Intervals, NEW at \in 0 .. MaxTime, Sched!Create(t, i, at)
      PROVE  SchedShape'
  <2>1. /\ row[t] = "absent" /\ row' = [row EXCEPT ![t] = "enabled"]
        /\ interval' = [interval EXCEPT ![t] = i] /\ nextFire' = [nextFire EXCEPT ![t] = at]
        /\ UNCHANGED <<now, tick, tickNow, batch, current, fires, lateFires, resumed, stops,
                       edits>>
    BY <1>2 DEF Sched!Create
  <2>2. i \in Nat /\ at \in Nat
    OBVIOUS
  <2>3. row' \in [Tasks -> {"absent", "enabled", "disabled", "deleted"}]
    BY <2>1
  <2>4. interval' \in [Tasks -> Nat]
    BY <2>1, <2>2
  <2>5. nextFire' \in [Tasks -> Nat]
    BY <2>1, <2>2
  <2>6. \A u \in batch : row'[u] # "absent" /\ nextFire'[u] <= tickNow
    BY <2>1
  <2>7. RowInHand'
    BY <2>1
  <2> QED
    BY <2>1, <2>3, <2>4, <2>5, <2>6, <2>7
<1>3. CASE Sched!TimePasses
  BY <1>3 DEF Sched!TimePasses
<1> QED
  BY <1>1, <1>2, <1>3

LEMMA TickKeepsTypes ==
  ASSUME SchedShape, Sched!SchedulerStep \/ Sched!Crash PROVE SchedShape'
<1>1. IsFiniteSet(batch) /\ \A S \in SUBSET Tasks : IsFiniteSet(S)
  BY TypesAssumption, FS_Subset DEF SchedShape, Sched!TypeOK
<1>2. \A S \in SUBSET Tasks : Sched!Cardinality(S) = Cardinality(S) /\ Cardinality(S) \in Nat
  BY <1>1, FS_CardinalityType DEF Sched!Cardinality, Cardinality
<1>3. Sched!AnyTask \in Tasks /\ Cardinality({}) = 0
  BY TypesAssumption, FS_EmptySet DEF Sched!AnyTask
<1> USE TypesAssumption DEF SchedShape, Sched!TypeOK, RowInHand, Sched!Sleep, Sched!tasks,
                            Sched!ticking, Sched!counts
<1>4. CASE Sched!Tick
  <2>1. PICK B \in SUBSET Sched!Due(now) :
          /\ batch' = B
          /\ Sched!Cardinality(B) = IF Sched!Cardinality(Sched!Due(now)) < BATCH
                                    THEN Sched!Cardinality(Sched!Due(now)) ELSE BATCH
    BY <1>4 DEF Sched!Tick
  <2>2. Sched!Due(now) \subseteq Tasks /\ \A t \in B : row[t] = "enabled" /\ nextFire[t] <= now
    BY DEF Sched!Due, Sched!IsDue
  <2>3. Cardinality(B) <= BATCH
    BY <1>2, <2>1, <2>2
  <2> QED
    BY <1>2, <1>4, <2>1, <2>2, <2>3 DEF Sched!Tick
<1>5. CASE Sched!Fire
  <2>1. PICK t \in batch :
          /\ tick' = "advancing" /\ current' = t /\ batch' = batch \ {t}
          /\ fires' = [fires EXCEPT ![t] = @ + 1]
          /\ lateFires' = IF row[t] = "enabled" THEN lateFires
                         ELSE [lateFires EXCEPT ![t] = @ + 1]
          /\ UNCHANGED <<now, row, interval, nextFire, tickNow, resumed, stops, edits>>
    BY <1>5 DEF Sched!Fire
  <2>2. Cardinality(batch \ {t}) <= BATCH
    <3>1. Cardinality(batch) <= BATCH /\ Cardinality(batch) \in Nat
      BY <1>2
    <3>2. Cardinality(batch \ {t}) = Cardinality(batch) - 1
      BY <1>1, FS_RemoveElement
    <3> QED
      BY <3>1, <3>2
  <2> QED
    BY <1>2, <2>1, <2>2
<1>6. CASE Sched!Reschedule
  <2>1. interval[current] > 0 /\ tick = "advancing" =>
          Sched!Advance(nextFire[current], interval[current], tickNow) \in Nat
    BY NextSlotIsNumber
  <2> QED
    BY <1>3, <1>6, <2>1 DEF Sched!Reschedule, Sched!Update
<1>7. CASE Sched!Crash
  BY <1>2, <1>3, <1>7 DEF Sched!Crash
<1> QED
  BY <1>4, <1>5, <1>6, <1>7 DEF Sched!SchedulerStep

LEMMA SchedTypesStep == ASSUME SchedShape, [Sched!Next]_schedulerState PROVE SchedShape'
<1>1. CASE UNCHANGED schedulerState
  BY <1>1 DEF schedulerState, SchedShape, Sched!TypeOK, RowInHand
<1> QED
  BY <1>1, OperatorsKeepTypes, TickKeepsTypes DEF Sched!Next

(* TaskRegistry: a reaper is that of a child.                              *)
TasksShape == Bg!TypeOK /\ \A t \in Task : child[t] = "none" => reaper[t] = "none"

LEMMA TasksTypesBegin == Bg!Init => TasksShape
  BY TypesAssumption DEF Bg!Init, TasksShape, Bg!TypeOK

LEMMA TasksTypesStep == ASSUME TasksShape, [Bg!Next]_tasksState PROVE TasksShape'
<1> USE DEF TasksShape, Bg!TypeOK, Bg!processes, Bg!stopping, Bg!output
<1>1. ASSUME NEW t \in Task, Bg!Spawn(t) PROVE TasksShape'
  <2>1. /\ child[t] = "none" /\ child' = [child EXCEPT ![t] = "running"]
        /\ held' = [held EXCEPT ![t] = TRUE] /\ reaper' = [reaper EXCEPT ![t] = "starting"]
        /\ status' = [status EXCEPT ![t] = "running"]
        /\ UNCHANGED <<lock, stop, target, stopped, written, data, truncated>>
    BY <1>1 DEF Bg!Spawn
  <2>2. /\ child' \in [Task -> {"none", "running", "exited", "signalled"}]
        /\ status' \in [Task -> {"none", "running", "exited", "killed"}]
    BY <2>1
  <2>3. /\ held' \in [Task -> BOOLEAN]
        /\ reaper' \in [Task -> {"none", "starting", "waiting", "done"}]
    BY <2>1
  <2>4. reaper[t] = "none"
    BY <2>1
  <2>5. \A u \in Task : /\ lock'[u] = "reaper" <=> reaper'[u] = "waiting"
                        /\ child'[u] = "none" => reaper'[u] = "none"
    BY <2>1, <2>4
  <2> QED
    BY <2>1, <2>2, <2>3, <2>5
<1>2. ASSUME NEW t \in Task, Bg!ChildEnds(t) PROVE TasksShape'
  <2>1. PICK e \in {"exited", "signalled"} :
          /\ child' = [child EXCEPT ![t] = e] /\ child[t] = "running"
          /\ UNCHANGED <<held, lock, reaper, status, stop, target, stopped, written, data,
                         truncated>>
    BY <1>2 DEF Bg!ChildEnds
  <2>2. child' \in [Task -> {"none", "running", "exited", "signalled"}]
    BY <2>1
  <2>3. \A u \in Task : child'[u] = "none" => reaper[u] = "none"
    BY <2>1
  <2> QED
    BY <2>1, <2>2, <2>3
<1>3. ASSUME NEW t \in Task, Bg!ReaperLocks(t) PROVE TasksShape'
  <2>1. /\ reaper[t] = "starting" /\ lock' = [lock EXCEPT ![t] = "reaper"]
        /\ reaper' = [reaper EXCEPT ![t] = "waiting"]
        /\ UNCHANGED <<child, held, status, stop, target, stopped, written, data, truncated>>
    BY <1>3 DEF Bg!ReaperLocks
  <2> QED
    BY <2>1
<1>4. ASSUME NEW t \in Task, Bg!ReaperReaps(t) PROVE TasksShape'
  <2>1. /\ reaper[t] = "waiting" /\ status' = [status EXCEPT ![t] = Bg!Final(t)]
        /\ held' = [held EXCEPT ![t] = FALSE] /\ lock' = [lock EXCEPT ![t] = "free"]
        /\ reaper' = [reaper EXCEPT ![t] = "done"]
        /\ UNCHANGED <<child, stop, target, stopped, written, data, truncated>>
    BY <1>4 DEF Bg!ReaperReaps
  <2>2. status' \in [Task -> {"none", "running", "exited", "killed"}]
    BY <2>1 DEF Bg!Final
  <2>3. /\ held' \in [Task -> BOOLEAN] /\ lock' \in [Task -> {"free", "reaper"}]
        /\ reaper' \in [Task -> {"none", "starting", "waiting", "done"}]
    BY <2>1
  <2>4. \A u \in Task : /\ lock'[u] = "reaper" <=> reaper'[u] = "waiting"
                        /\ child[u] = "none" => reaper'[u] = "none"
    BY <2>1
  <2> QED
    BY <2>1, <2>2, <2>3, <2>4
<1>5. ASSUME NEW t \in Task, NEW n \in 1 .. MaxChunk, Bg!Pump(t, n) PROVE TasksShape'
  <2>1. /\ written[t] + n <= MaxBytes /\ written' = [written EXCEPT ![t] = @ + n]
        /\ truncated' = [truncated EXCEPT ![t] = @ \/ Len(data[t]) + n > STREAM_CAP_BYTES]
        /\ UNCHANGED <<child, held, lock, reaper, status, stop, target, stopped>>
    BY <1>5 DEF Bg!Pump
  <2>2. written[t] + n \in 0 .. MaxBytes
    <3>1. MaxBytes \in Nat /\ MaxChunk \in Nat
      BY TypesAssumption, ServicesAssumption
    <3> QED
      BY <2>1, <3>1
  <2>3. written' \in [Task -> 0 .. MaxBytes]
    BY <2>1, <2>2
  <2>4. truncated' \in [Task -> BOOLEAN]
    <3> DEFINE more == Len(data[t]) + n > STREAM_CAP_BYTES
    <3>1. truncated' = [truncated EXCEPT ![t] = truncated[t] \/ more]
      BY <2>1
    <3>2. (truncated[t] \/ more) \in BOOLEAN
      OBVIOUS
    <3> HIDE DEF more
    <3> QED
      BY <3>1, <3>2
  <2> QED
    BY <2>1, <2>3, <2>4
<1>6. ASSUME NEW s \in Stopper, Bg!StopKills(s) \/ Bg!StopDropped(s) PROVE TasksShape'
  BY <1>6 DEF Bg!StopKills, Bg!StopDropped
<1>7. ASSUME NEW s \in Stopper, NEW t \in Task, Bg!StopMarks(s, t) PROVE TasksShape'
  BY <1>7 DEF Bg!StopMarks
<1>8. CASE UNCHANGED tasksState
  BY <1>8 DEF tasksState
<1> QED
  BY <1>1, <1>2, <1>3, <1>4, <1>5, <1>6, <1>7, <1>8 DEF Bg!Next, Bg!ReaperStep

(* Shell.                                                                  *)
LEMMA ShellTypesBegin == Fg!Init => Fg!TypeOK
  BY TypesAssumption DEF Fg!Init, Fg!TypeOK

LEMMA ShellTypesStep == ASSUME Fg!TypeOK, [Fg!Next]_shellState PROVE Fg!TypeOK'
<1> USE TypesAssumption DEF Fg!TypeOK
<1>1. ASSUME NEW s \in Stream, Fg!Prints(s) \/ Fg!BreaksOff(s) \/ Fg!ReaderStep(s)
      PROVE  Fg!TypeOK'
  BY <1>1 DEF Fg!Prints, Fg!BreaksOff, Fg!ReaderStep, Fg!ReadOne, Fg!ReadEnd
<1>2. CASE Fg!SpawnFails \/ Fg!Execute \/ Fg!CallStep \/ Fg!TimesOut \/ Fg!Dropped
  BY <1>2 DEF Fg!SpawnFails, Fg!Execute, Fg!CallStep, Fg!Waited, Fg!Joined, Fg!TimesOut, Fg!Dropped
<1>3. CASE Fg!LeavesHeir \/ Fg!ShellEnds \/ Fg!HeirEnds
  BY <1>3 DEF Fg!LeavesHeir, Fg!ShellEnds, Fg!HeirEnds
<1>4. CASE UNCHANGED shellState
  BY <1>4 DEF shellState
<1> QED
  BY <1>1, <1>2, <1>3, <1>4 DEF Fg!Next

(* LarkInbound: the dedup holds no message twice, and what waits in the    *)
(* channel other than a click is about a message.                          *)
Distinct(s) == s \in Seq(Message) /\ \A i, j \in 1 .. Len(s) : s[i] = s[j] => i = j

Payloads == Seq([type : {"message", "recall", "other"}, msg : Message \cup {None}])

LarkShape ==
  /\ Lark!TypeOK /\ Distinct(order) /\ queue \in Payloads
  /\ \A i \in 1 .. Len(queue) : queue[i].type # "other" => queue[i].msg \in Message

Bounds ==
  /\ EXPIRY \in Nat /\ DEDUP_TTL \in Nat /\ RECONNECT_GOOD_SESSION \in Nat
  /\ WS_WATCHDOG_SILENCE \in Nat /\ RECONNECT_BACKOFF_MIN \in Nat /\ RECONNECT_BACKOFF_MAX \in Nat
  /\ RECONNECT_BACKOFF_MIN <= RECONNECT_BACKOFF_MAX /\ DEDUP_MAX_ENTRIES \in Nat \ {0}

LEMMA BoundsHold == Bounds
  BY TypesAssumption DEF Bounds

LEMMA OlderIsBounded ==
  ASSUME NEW bound \in Nat, NEW n \in Nat PROVE Lark!Older(n, bound) \in 0 .. (bound + 1)
  BY DEF Lark!Older, Lark!Low

LEMMA CountDistinct ==
  ASSUME NEW s, Distinct(s)
  PROVE  Lark!Cardinality({s[i] : i \in 1 .. Len(s)}) = Len(s)
<1> DEFINE T == {s[i] : i \in 1 .. Len(s)}
           f == [i \in 1 .. Len(s) |-> s[i]]
<1>1. Len(s) \in Nat
  BY DEF Distinct
<1>2. IsFiniteSet(1 .. Len(s)) /\ Cardinality(1 .. Len(s)) = Len(s)
  <2> DEFINE n == Len(s)
  <2>1. 1 \in Int /\ n \in Int /\ n >= 0
    BY <1>1
  <2> HIDE DEF n
  <2>2. IsFiniteSet(1 .. n) /\ Cardinality(1 .. n) = IF 1 > n THEN 0 ELSE n - 1 + 1
    BY <2>1, FS_Interval
  <2>3. Cardinality(1 .. n) = n
    BY <2>1, <2>2
  <2> QED
    BY <2>2, <2>3 DEF n
<1>3. f \in Bijection(1 .. Len(s), T)
  BY DEF Distinct, Bijection, Injection, Surjection, IsInjective
<1>4. Cardinality(T) = Cardinality(1 .. Len(s))
  <2>1. ExistsBijection(1 .. Len(s), T)
    BY <1>3 DEF ExistsBijection
  <2> HIDE DEF T, f
  <2> QED
    BY <1>2, <2>1, FS_Bijection
<1> QED
  BY <1>2, <1>4 DEF Lark!Cardinality, Cardinality

LEMMA LarkTypesBegin == Lark!Init => LarkShape
<1> SUFFICES ASSUME Lark!Init PROVE LarkShape
  OBVIOUS
<1>1. Len(order) = 0 /\ order = <<>> /\ queue = <<>> /\ DOMAIN seen = {}
  BY DEF Lark!Init
<1>2. Distinct(order)
  BY <1>1 DEF Distinct
<1>3. DOMAIN seen = {order[i] : i \in 1 .. Len(order)}
  BY <1>1
<1>4. Len(order) = Lark!Cardinality(DOMAIN seen)
  BY <1>2, <1>3, CountDistinct
<1> QED
  BY <1>1, <1>2, <1>3, <1>4, BoundsHold DEF Bounds, Lark!Init, LarkShape, Lark!TypeOK, Payloads

LEMMA TimeKeepsLarkTypes == ASSUME LarkShape, Lark!Tick PROVE LarkShape'
<1> USE BoundsHold DEF Lark!Tick, Lark!output, LarkShape, Lark!TypeOK
<1>1. uptime' \in 0 .. RECONNECT_GOOD_SESSION /\ wait' \in 0 .. RECONNECT_BACKOFF_MAX
  BY DEF Bounds, Lark!Low
<1>2. silence' \in 0 .. (WS_WATCHDOG_SILENCE + 1)
  BY OlderIsBounded DEF Bounds
<1>3. age' \in [Message -> {None} \cup 0 .. (EXPIRY + 1)]
  <2>1. ASSUME NEW m \in Message
        PROVE  (IF age[m] = None THEN None ELSE Lark!Older(age[m], EXPIRY))
                 \in {None} \cup 0 .. (EXPIRY + 1)
    <3>1. CASE age[m] = None
      BY <3>1
    <3>2. CASE age[m] # None
      <4>1. age[m] \in Nat
        BY <3>2 DEF Bounds
      <4> QED
        BY <3>2, <4>1, OlderIsBounded DEF Bounds
    <3> QED
      BY <3>1, <3>2
  <2> QED
    BY <2>1
<1>4. DOMAIN seen' = DOMAIN seen
  OBVIOUS
<1> QED
  BY <1>1, <1>2, <1>3, <1>4

LEMMA SessionKeepsLarkTypes ==
  ASSUME LarkShape,
         Lark!OpenSession \/ Lark!EndSession \/ Lark!Reconnect \/ Lark!Watchdog
  PROVE  LarkShape'
<1> USE BoundsHold DEF Bounds, LarkShape, Lark!TypeOK, Lark!ws, Lark!dedup, Lark!output
<1>1. CASE Lark!OpenSession
  BY <1>1 DEF Lark!OpenSession
<1>2. CASE Lark!EndSession
  <2>1. /\ backoff' \in RECONNECT_BACKOFF_MIN .. RECONNECT_BACKOFF_MAX /\ wait' = backoff'
        /\ silence' = 0 /\ uptime' = 0 /\ session' = "backoff"
        /\ UNCHANGED <<alive, age, delivered, queue, pump, seen, order, sweep, evicted, forwarded,
                       recalled>>
    BY <1>2 DEF Lark!EndSession
  <2>2. wait' \in 0 .. RECONNECT_BACKOFF_MAX
    BY <2>1
  <2>3. silence' \in 0 .. (WS_WATCHDOG_SILENCE + 1) /\ uptime' \in 0 .. RECONNECT_GOOD_SESSION
    BY <2>1
  <2> QED
    BY <2>1, <2>2, <2>3
<1>3. CASE Lark!Reconnect
  <2>1. backoff' \in RECONNECT_BACKOFF_MIN .. RECONNECT_BACKOFF_MAX
    BY <1>3 DEF Lark!Reconnect, Lark!Low
  <2> QED
    BY <1>3, <2>1 DEF Lark!Reconnect
<1>4. CASE Lark!Watchdog
  BY <1>4 DEF Lark!Watchdog
<1> QED
  BY <1>1, <1>2, <1>3, <1>4

LEMMA PushKeepsQueue ==
  ASSUME LarkShape,
         NEW event \in [type : {"message", "recall", "other"}, msg : Message \cup {None}],
         event.type # "other" => event.msg \in Message, Lark!Push(event)
  PROVE  /\ queue' \in Payloads
         /\ \A i \in 1 .. Len(queue') : queue'[i].type # "other" => queue'[i].msg \in Message
<1>1. queue' = Append(queue, event) /\ queue \in Payloads
  BY DEF Lark!Push, LarkShape
<1>2. /\ queue' \in Payloads /\ Len(queue') = Len(queue) + 1
      /\ queue'[Len(queue) + 1] = event /\ \A i \in 1 .. Len(queue) : queue'[i] = queue[i]
  BY <1>1 DEF Payloads
<1>3. Len(queue) \in Nat
  BY <1>1 DEF Payloads
<1> QED
  BY <1>2, <1>3 DEF LarkShape

LEMMA DeliveryKeepsLarkTypes ==
  ASSUME LarkShape,
         \/ Lark!DeliverOther
         \/ \E m \in Message : Lark!DeliverMessage(m) \/ Lark!DeliverRecall(m)
  PROVE  LarkShape'
<1> USE DEF LarkShape, Lark!TypeOK, Lark!ws, Lark!dedup, Lark!output
<1>1. CASE Lark!DeliverOther
  BY <1>1, PushKeepsQueue DEF Lark!DeliverOther, Lark!Push
<1>2. ASSUME NEW m \in Message, Lark!DeliverMessage(m) PROVE LarkShape'
  <2>1. age' \in [Message -> {None} \cup 0 .. (EXPIRY + 1)]
    BY <1>2, BoundsHold DEF Lark!DeliverMessage, Bounds
  <2> QED
    BY <1>2, <2>1, PushKeepsQueue DEF Lark!DeliverMessage, Lark!Push
<1>3. ASSUME NEW m \in Message, Lark!DeliverRecall(m) PROVE LarkShape'
  BY <1>3, PushKeepsQueue DEF Lark!DeliverRecall, Lark!Push
<1> QED
  BY <1>1, <1>2, <1>3

LEMMA LeastIndex ==
  ASSUME NEW S \in SUBSET Nat, S # {}
  PROVE  \E i \in S : \A j \in S : i <= j
<1>1. PICK i \in S : \A j \in S : <<j, i>> \notin OpToRel(<, Nat)
  BY NatLessThanWellFounded, WFMin
<1>2. \A x, y \in Nat : x < y => <<x, y>> \in OpToRel(<, Nat)
  BY DEF OpToRel
<1>3. \A j \in S : ~(j < i)
  BY <1>1, <1>2
<1> QED
  BY <1>3

(* sweep_expired leaves an end of the queue, ...                           *)
LEMMA SweptIsDistinct ==
  ASSUME LarkShape
  PROVE  Distinct(Lark!Swept) /\ Len(Lark!Swept) <= Len(order)
<1> DEFINE keep == {i \in 1 .. Len(order) : ~Lark!Stale(order[i])}
           from == IF keep = {} THEN Len(order) + 1
                   ELSE CHOOSE i \in keep : \A j \in keep : i <= j
<1> order \in Seq(Message) /\ Len(order) \in Nat
  BY DEF LarkShape, Distinct
<1>1. from \in 1 .. (Len(order) + 1)
  <2>1. CASE keep # {}
    <3>1. \E i \in keep : \A j \in keep : i <= j
      <4>1. keep \subseteq Nat
        OBVIOUS
      <4> HIDE DEF keep
      <4> QED
        BY <2>1, <4>1, LeastIndex
    <3>2. from = CHOOSE i \in keep : \A j \in keep : i <= j
      BY <2>1
    <3> HIDE DEF keep, from
    <3>3. from \in keep
      BY <3>1, <3>2
    <3> QED
      BY <3>3 DEF keep
  <2>2. CASE keep = {}
    BY <2>2
  <2> QED
    BY <2>1, <2>2
<1>2. Lark!Swept = order \/ Lark!Swept = SubSeq(order, from, Len(order))
  BY DEF Lark!Swept
<1> HIDE DEF from, keep
<1>3. CASE Lark!Swept = order
  BY <1>3 DEF LarkShape
<1>4. CASE Lark!Swept = SubSeq(order, from, Len(order))
  <2>1. /\ Lark!Swept \in Seq(Message)
        /\ Len(Lark!Swept) = Len(order) + 1 - from
        /\ \A i \in 1 .. Len(Lark!Swept) : Lark!Swept[i] = order[from + i - 1]
    BY <1>1, <1>4, SubSeqProperties
  <2>2. \A i \in 1 .. Len(Lark!Swept) : from + i - 1 \in 1 .. Len(order)
    BY <1>1, <2>1
  <2>3. ASSUME NEW i \in 1 .. Len(Lark!Swept), NEW j \in 1 .. Len(Lark!Swept),
               Lark!Swept[i] = Lark!Swept[j]
        PROVE  i = j
    <3>1. order[from + i - 1] = order[from + j - 1]
      BY <2>1, <2>3
    <3>2. from + i - 1 = from + j - 1
      BY <2>2, <3>1 DEF LarkShape, Distinct
    <3> QED
      BY <1>1, <3>2
  <2> QED
    BY <1>1, <2>1, <2>3 DEF Distinct
<1> QED
  BY <1>2, <1>3, <1>4

(* ... and check_and_record adds what is not in it, within the cap.        *)
LEMMA RememberKeepsDistinct ==
  ASSUME LarkShape, NEW m \in Message, Lark!Remember(m)
  PROVE  /\ Distinct(order') /\ Len(order') <= DEDUP_MAX_ENTRIES
         /\ DOMAIN seen' = {order'[i] : i \in 1 .. Len(order')}
         /\ Len(order') = Lark!Cardinality(DOMAIN seen') /\ evicted' \subseteq Message
<1> DEFINE full == Len(Lark!Swept) >= DEDUP_MAX_ENTRIES
           kept == IF full THEN Tail(Lark!Swept) ELSE Lark!Swept
           next == IF Lark!Duplicate(m) THEN Lark!Swept ELSE Append(kept, m)
<1>1. /\ Distinct(Lark!Swept) /\ Len(Lark!Swept) <= DEDUP_MAX_ENTRIES
      /\ Lark!Swept \in Seq(Message) /\ Len(Lark!Swept) \in Nat /\ DEDUP_MAX_ENTRIES \in Nat \ {0}
  <2>1. Distinct(Lark!Swept) /\ Len(Lark!Swept) <= Len(order)
    BY SweptIsDistinct
  <2>2. Lark!Swept \in Seq(Message) /\ order \in Seq(Message)
    BY <2>1 DEF Distinct, LarkShape
  <2>3. Len(order) <= DEDUP_MAX_ENTRIES /\ DEDUP_MAX_ENTRIES \in Nat \ {0}
    BY BoundsHold DEF Bounds, LarkShape, Lark!TypeOK
  <2>4. Len(Lark!Swept) \in Nat /\ Len(order) \in Nat
    BY <2>2
  <2> QED
    BY <2>1, <2>2, <2>3, <2>4
<1>2. /\ order' = next /\ DOMAIN seen' = {next[i] : i \in 1 .. Len(next)}
      /\ evicted' = IF full /\ ~Lark!Duplicate(m) THEN evicted \cup {Head(Lark!Swept)} ELSE evicted
  BY DEF Lark!Remember
<1>3. /\ Distinct(kept) /\ Len(kept) < DEDUP_MAX_ENTRIES
      /\ \A i \in 1 .. Len(kept) : \E j \in 1 .. Len(Lark!Swept) : kept[i] = Lark!Swept[j]
      /\ full => Head(Lark!Swept) \in Message
  <2>1. CASE ~full
    BY <1>1, <2>1
  <2>2. CASE full
    <3>1. Lark!Swept # <<>>
      BY <1>1, <2>2
    <3>2. /\ kept \in Seq(Message) /\ Len(kept) = Len(Lark!Swept) - 1
          /\ \A i \in 1 .. Len(kept) : kept[i] = Lark!Swept[i + 1]
          /\ Head(Lark!Swept) \in Message
      BY <1>1, <2>2, <3>1
    <3>3. \A i \in 1 .. Len(kept) : i + 1 \in 1 .. Len(Lark!Swept)
      BY <1>1, <3>2
    <3>4. ASSUME NEW i \in 1 .. Len(kept), NEW j \in 1 .. Len(kept), kept[i] = kept[j] PROVE i = j
      <4>1. Lark!Swept[i + 1] = Lark!Swept[j + 1]
        BY <3>2, <3>4
      <4>2. i + 1 = j + 1
        BY <1>1, <3>3, <4>1 DEF Distinct
      <4> QED
        BY <4>2
    <3> HIDE DEF kept, full
    <3> QED
      BY <1>1, <3>2, <3>3, <3>4 DEF Distinct
  <2> QED
    BY <2>1, <2>2
<1> HIDE DEF kept, full
<1>4. Distinct(next) /\ Len(next) <= DEDUP_MAX_ENTRIES
  <2>1. CASE Lark!Duplicate(m)
    BY <1>1, <2>1
  <2>2. CASE ~Lark!Duplicate(m)
    <3>1. kept \in Seq(Message) /\ Len(kept) \in Nat
      BY <1>3 DEF Distinct
    <3>2. /\ next \in Seq(Message) /\ Len(next) = Len(kept) + 1
          /\ next[Len(kept) + 1] = m
          /\ \A i \in 1 .. Len(kept) : next[i] = kept[i]
      BY <2>2, <3>1
    <3>3. \A i \in 1 .. Len(kept) : kept[i] # m
      BY <1>3, <2>2 DEF Lark!Duplicate
    <3> HIDE DEF next
    <3>4. ASSUME NEW i \in 1 .. Len(next), NEW j \in 1 .. Len(next), next[i] = next[j] PROVE i = j
      <4>1. CASE i \in 1 .. Len(kept) /\ j \in 1 .. Len(kept)
        BY <1>3, <3>2, <3>4, <4>1 DEF Distinct
      <4>2. CASE i \in 1 .. Len(kept) /\ j = Len(kept) + 1
        BY <3>2, <3>3, <3>4, <4>2
      <4>3. CASE j \in 1 .. Len(kept) /\ i = Len(kept) + 1
        BY <3>2, <3>3, <3>4, <4>3
      <4> QED
        BY <3>1, <3>2, <4>1, <4>2, <4>3
    <3>5. Len(next) <= DEDUP_MAX_ENTRIES
      BY <1>1, <1>3, <3>1, <3>2
    <3> QED
      BY <3>2, <3>4, <3>5 DEF Distinct
  <2> QED
    BY <2>1, <2>2
<1>5. Lark!Cardinality({next[i] : i \in 1 .. Len(next)}) = Len(next)
  <2> HIDE DEF next
  <2> QED
    BY <1>4, CountDistinct
<1>6. evicted' \subseteq Message
  BY <1>2, <1>3 DEF LarkShape, Lark!TypeOK
<1> HIDE DEF next
<1> QED
  BY <1>2, <1>4, <1>5, <1>6

LEMMA PumpKeepsLarkTypes ==
  ASSUME LarkShape, Lark!TakeMessage \/ Lark!TakeOther \/ Lark!Forward \/ Lark!Drop
  PROVE  LarkShape'
<1>0. ASSUME queue # <<>>
      PROVE  /\ Head(queue) \in [type : {"message", "recall", "other"}, msg : Message \cup {None}]
             /\ Head(queue).type # "other" => Head(queue).msg \in Message
             /\ Tail(queue) \in Payloads
             /\ \A i \in 1 .. Len(Tail(queue)) :
                  Tail(queue)[i].type # "other" => Tail(queue)[i].msg \in Message
  <2>1. queue \in Payloads
    BY DEF LarkShape
  <2>2. /\ Len(queue) \in Nat \ {0} /\ Head(queue) = queue[1]
        /\ Head(queue) \in [type : {"message", "recall", "other"}, msg : Message \cup {None}]
        /\ Tail(queue) \in Payloads /\ Len(Tail(queue)) = Len(queue) - 1
        /\ \A i \in 1 .. Len(Tail(queue)) : Tail(queue)[i] = queue[i + 1]
    <3> DEFINE P == [type : {"message", "recall", "other"}, msg : Message \cup {None}]
    <3>1. queue \in Seq(P) /\ Payloads = Seq(P)
      BY <2>1 DEF Payloads
    <3> HIDE DEF P
    <3>2. /\ Len(queue) \in Nat \ {0} /\ Head(queue) = queue[1] /\ Head(queue) \in P
          /\ Tail(queue) \in Seq(P) /\ Len(Tail(queue)) = Len(queue) - 1
          /\ \A i \in 1 .. Len(Tail(queue)) : Tail(queue)[i] = queue[i + 1]
      BY <1>0, <3>1
    <3> QED
      BY <3>1, <3>2 DEF P
  <2>3. 1 \in 1 .. Len(queue) /\ \A i \in 1 .. Len(Tail(queue)) : i + 1 \in 1 .. Len(queue)
    BY <2>2
  <2> QED
    BY <2>2, <2>3 DEF LarkShape
<1>1. CASE Lark!TakeMessage
  <2> DEFINE m == Head(queue).msg
  <2>1. /\ queue # <<>> /\ Head(queue).type = "message" /\ queue' = Tail(queue) /\ silence' = 0
        /\ UNCHANGED <<alive, session, uptime, backoff, wait, age, delivered, forwarded, recalled>>
    BY <1>1 DEF Lark!TakeMessage, Lark!output
  <2>2. m \in Message
    BY <1>0, <2>1
  <2>3. \/ UNCHANGED <<pump, seen, order, sweep, evicted>>
        \/ Lark!Remember(m) /\ pump' \in {None, m}
    BY <1>1 DEF Lark!TakeMessage, Lark!dedup
  <2> HIDE DEF m
  <2>4. /\ Distinct(order') /\ Len(order') <= DEDUP_MAX_ENTRIES
        /\ DOMAIN seen' = {order'[i] : i \in 1 .. Len(order')}
        /\ Len(order') = Lark!Cardinality(DOMAIN seen') /\ evicted' \subseteq Message
    <3>1. CASE UNCHANGED <<seen, order, evicted>>
      BY <3>1 DEF LarkShape, Lark!TypeOK
    <3> QED
      BY <2>2, <2>3, <3>1, RememberKeepsDistinct
  <2>5. pump' \in Message \cup {None}
    BY <2>2, <2>3 DEF LarkShape, Lark!TypeOK
  <2>6. silence' \in 0 .. (WS_WATCHDOG_SILENCE + 1)
    BY <2>1, BoundsHold DEF Bounds
  <2> QED
    BY <1>0, <2>1, <2>4, <2>5, <2>6 DEF LarkShape, Lark!TypeOK
<1>2. CASE Lark!TakeOther
  <2>1. /\ queue # <<>> /\ queue' = Tail(queue) /\ silence' = 0
        /\ recalled' = IF Head(queue).type = "recall" THEN recalled \cup {Head(queue).msg}
                       ELSE recalled
        /\ UNCHANGED <<alive, session, uptime, backoff, wait, age, delivered, pump, seen, order,
                       sweep, evicted, forwarded>>
    BY <1>2 DEF Lark!TakeOther, Lark!dedup
  <2>2. recalled' \subseteq Message
    BY <1>0, <2>1 DEF LarkShape, Lark!TypeOK
  <2>3. silence' \in 0 .. (WS_WATCHDOG_SILENCE + 1)
    BY <2>1, BoundsHold DEF Bounds
  <2> QED
    BY <1>0, <2>1, <2>2, <2>3 DEF LarkShape, Lark!TypeOK
<1>3. CASE Lark!Forward
  <2>1. pump \in Message /\ forwarded[pump] \in 0 .. 2
    BY <1>3 DEF Lark!Forward, LarkShape, Lark!TypeOK
  <2>2. Lark!Low(forwarded[pump] + 1, 2) \in 0 .. 2
    BY <2>1 DEF Lark!Low
  <2>3. forwarded' \in [Message -> 0 .. 2]
    BY <1>3, <2>1, <2>2 DEF Lark!Forward, LarkShape, Lark!TypeOK
  <2> QED
    BY <1>3, <2>3 DEF Lark!Forward, LarkShape, Lark!TypeOK, Lark!ws, Lark!dedup
<1>4. CASE Lark!Drop
  BY <1>4 DEF Lark!Drop, LarkShape, Lark!TypeOK, Lark!ws, Lark!dedup, Lark!output
<1> QED
  BY <1>1, <1>2, <1>3, <1>4

LEMMA LarkTypesStep == ASSUME LarkShape, [Lark!Next]_larkState PROVE LarkShape'
<1>1. CASE UNCHANGED larkState
  BY <1>1 DEF larkState, LarkShape, Lark!TypeOK
<1> QED
  BY <1>1, TimeKeepsLarkTypes, SessionKeepsLarkTypes, DeliveryKeepsLarkTypes, PumpKeepsLarkTypes
  DEF Lark!Next

(* Outbox: its types are proved in OutboxProofs.                           *)
Posted == INSTANCE OutboxProofs WITH status <- rowStatus, batch <- claimed, BATCH <- OUTBOX_BATCH

LEMMA SameTypes == Posted!TypeOK <=> Out!TypeOK
  BY DEF Posted!TypeOK, Out!TypeOK, Posted!TableOK, Out!TableOK, Posted!WorkersOK, Out!WorkersOK,
     Posted!PeerOK, Out!PeerOK, Posted!Row, Out!Row, Posted!Status, Out!Status, Posted!Kind,
     Out!Kind, Posted!Phase, Out!Phase, Posted!RowId, Out!RowId, Posted!Job, Out!Job

LEMMA SameInit == Posted!Init <=> Out!Init
  BY DEF Posted!Init, Out!Init, Posted!Row, Out!Row, Posted!NoWork, Out!NoWork

LEMMA SameVars == UNCHANGED Posted!vars <=> UNCHANGED outboxState
  BY DEF Posted!vars, outboxState, Posted!table, Posted!workers, Posted!peer

LEMMA SameNext == Posted!Next <=> Out!Next
  BY DEF
     Posted!Enqueue, Out!Enqueue, Posted!InlineStep, Out!InlineStep,
     Posted!InlineDelivered, Out!InlineDelivered, Posted!InlineTransport,
     Out!InlineTransport, Posted!InlineTerminal, Out!InlineTerminal,
     Posted!InlineFallback, Out!InlineFallback, Posted!TimePasses,
     Out!TimePasses, Posted!ForceRetry, Out!ForceRetry, Posted!Purge, Out!Purge,
     Posted!ActorStep, Out!ActorStep, Posted!ActorTake, Out!ActorTake,
     Posted!ActorDelivered, Out!ActorDelivered, Posted!ActorReschedule,
     Out!ActorReschedule, Posted!ActorExhausted, Out!ActorExhausted,
     Posted!ActorTerminal, Out!ActorTerminal, Posted!ActorFallback,
     Out!ActorFallback, Posted!FailWork, Out!FailWork, Posted!ActorIdle,
     Out!ActorIdle, Posted!Tick, Out!Tick, Posted!Route, Out!Route,
     Posted!PluginAccepts, Out!PluginAccepts, Posted!PluginRejects,
     Out!PluginRejects, Posted!LimboEnds, Out!LimboEnds, Posted!Crash,
     Out!Crash, Posted!SlotTaken, Out!SlotTaken, Posted!SlotFilled,
     Out!SlotFilled, Posted!Insert, Out!Insert, Posted!Fresh, Out!Fresh,
     Posted!SetStatus, Out!SetStatus, Posted!MarkDelivered, Out!MarkDelivered,
     Posted!MarkFailed, Out!MarkFailed, Posted!Reschedule, Out!Reschedule,
     Posted!Stored, Out!Stored, Posted!Write, Out!Write, Posted!LostWrite,
     Out!LostWrite, Posted!MayFail, Out!MayFail, Posted!GiveUpOn, Out!GiveUpOn,
     Posted!AfterFailure, Out!AfterFailure, Posted!FallbackFor, Out!FallbackFor,
     Posted!Rest, Out!Rest, Posted!NoWork, Out!NoWork, Posted!AnswerInline,
     Out!AnswerInline, Posted!AnswerActor, Out!AnswerActor, Posted!InUse,
     Out!InUse, Posted!Claimed, Out!Claimed, Posted!Claimable, Out!Claimable,
     Posted!Copies, Out!Copies, Posted!Cardinality, Out!Cardinality, Posted!Row,
     Out!Row, Posted!table, Out!table, Posted!workers, Out!workers, Posted!peer,
     Out!peer, Posted!Next, Out!Next

LEMMA OutboxTypes ==
  /\ Out!Init => Out!TypeOK
  /\ Out!TypeOK /\ [Out!Next]_outboxState => Out!TypeOK'
<1>1. Posted!OutboxAssumption
  BY TypesAssumption DEF Posted!OutboxAssumption, Out!OutboxAssumption, Posted!Kind, Out!Kind
<1>2. Posted!Init => Posted!TypeOK
  BY <1>1, Posted!TypeInit
<1>3. Posted!TypeOK /\ [Posted!Next]_(Posted!vars) => Posted!TypeOK'
  BY <1>1, Posted!TypeStep
<1>4. Posted!TypeOK' <=> Out!TypeOK'
  BY SameTypes, PTL
<1>5. [Out!Next]_outboxState => [Posted!Next]_(Posted!vars)
  BY SameNext, SameVars
<1> QED
  BY <1>2, <1>3, <1>4, <1>5, SameTypes, SameInit

(* Whatever the five services do, each variable stays in its range: a tick *)
(* of the scheduler never has more rows in hand than its batch, the reaper *)
(* keeps the mutex exactly while it waits, the outbox dispatches only rows *)
(* that exist, the two halves of the dedup of the Lark plugin hold the     *)
(* same messages, none twice and never more than the cap, and no reader    *)
(* goes past its cap.  For any table, sizes and ages, and any number of    *)
(* tasks, stops, chats, messages and streams.                              *)
THEOREM ServicesTyped == Spec => []ServicesTypeOK
<1> DEFINE Inv == /\ service \in {"scheduler", "tasks", "outbox", "lark", "shell"}
                  /\ service = "scheduler" => SchedShape
                  /\ service = "tasks" => TasksShape
                  /\ service = "outbox" => Out!TypeOK
                  /\ service = "lark" => LarkShape
                  /\ service = "shell" => Fg!TypeOK
<1>1. Init => Inv
  BY TypesAssumption, SchedTypesBegin, TasksTypesBegin, OutboxTypes, LarkTypesBegin,
     ShellTypesBegin DEF Init
<1>2. Inv /\ [Next]_vars => Inv'
  <2> SUFFICES ASSUME Inv, [Next]_vars PROVE Inv'
    OBVIOUS
  <2>1. service' = service
    BY DEF Next, vars, OnlyScheduler, OnlyTasks, OnlyOutbox, OnlyLark, OnlyShell
  <2>2. service = "scheduler" => [Sched!Next]_schedulerState
    BY DEF Next, vars, OnlyTasks, OnlyOutbox, OnlyLark, OnlyShell
  <2>3. service = "tasks" => [Bg!Next]_tasksState
    BY DEF Next, vars, OnlyScheduler, OnlyOutbox, OnlyLark, OnlyShell
  <2>4. service = "outbox" => [Out!Next]_outboxState
    BY DEF Next, vars, OnlyScheduler, OnlyTasks, OnlyLark, OnlyShell
  <2>5. service = "lark" => [Lark!Next]_larkState
    BY DEF Next, vars, OnlyScheduler, OnlyTasks, OnlyOutbox, OnlyShell
  <2>6. service = "shell" => [Fg!Next]_shellState
    BY DEF Next, vars, OnlyScheduler, OnlyTasks, OnlyOutbox, OnlyLark
  <2> QED
    BY <2>1, <2>2, <2>3, <2>4, <2>5, <2>6, SchedTypesStep, TasksTypesStep, OutboxTypes,
       LarkTypesStep, ShellTypesStep
<1>3. Inv => ServicesTypeOK
  BY DEF ServicesTypeOK, SchedShape, TasksShape, LarkShape
<1> QED
  BY <1>1, <1>2, <1>3, PTL DEF Spec
=============================================================================
