------------------------------ MODULE McpPool ------------------------------
(***************************************************************************)
(* The client cache of one MCP server: one connection per (tenant,         *)
(* project), made on first use, dropped when idle or dead, with a backoff  *)
(* after a failed start (snaca-mcp/src/pool.rs), and the reaper that       *)
(* sweeps and probes it (manager.rs).                                      *)
(*                                                                         *)
(* client_for takes the backoff lock, then the clients lock, connects      *)
(* without either, and takes each again; every lock section is a step.     *)
(***************************************************************************)
EXTENDS Naturals, FiniteSets

CONSTANTS
  Key,          \* (tenant, project) pairs
  Turn,         \* turns that ask for a client
  None,
  IDLE_TTL, BACKOFF_BASE, BACKOFF_MAX,
  MaxTime,      \* bound: clock
  MaxClients,   \* bound: connections made
  MaxFailures,  \* bound: consecutive failures of a key
  MaxDeaths     \* bound: servers that die

Client == 1 .. MaxClients

VARIABLES
  now,
  clients,     \* cache: key -> client, or None
  lastUsed,
  failures, retryAfter,    \* the backoff slot of a key; failures = 0: none
  turn,        \* [at, key, asked: when client_for was entered, client]
  owner,       \* the key each connection was made for; None: not made yet
  dead,        \* connections whose server is gone
  reaper,      \* sweep, probe or evict
  snapshot,    \* what is left to probe: set of <<key, client>>
  failed       \* keys whose probe failed

pool  == <<clients, lastUsed, failures, retryAfter>>
reap  == <<reaper, snapshot, failed>>
vars  == <<now, pool, turn, owner, dead, reap>>

NoTurn == [at |-> "idle", key |-> None, asked |-> 0, client |-> None]

Init ==
  /\ now = 0 /\ clients = [k \in Key |-> None] /\ lastUsed = [k \in Key |-> 0]
  /\ failures = [k \in Key |-> 0] /\ retryAfter = [k \in Key |-> 0]
  /\ turn = [t \in Turn |-> NoTurn]
  /\ owner = [c \in Client |-> None] /\ dead = {}
  /\ reaper = "sweep" /\ snapshot = {} /\ failed = {}

Cached == {k \in Key : clients[k] # None}

(* backoff_duration: the base, times 1.5 for every further failure.        *)
BackoffDuration(n) ==
  LET raw == (BACKOFF_BASE * 3 ^ (n - 1)) \div (2 ^ (n - 1))
  IN IF raw < BACKOFF_MAX THEN raw ELSE BACKOFF_MAX

Idle(at, keep) ==
  {k \in Cached \ keep : IDLE_TTL > 0 /\ at >= lastUsed[k] + IDLE_TTL}

Evict(keys) == clients' = [k \in Key |-> IF k \in keys THEN None ELSE clients[k]]

-----------------------------------------------------------------------------
(* client_for.                                                             *)

At(t, where) == turn[t].at = where
GoTo(t, where) == turn' = [turn EXCEPT ![t].at = where]
Key_(t) == turn[t].key

(* The backoff gate; a key in backoff has no tools this turn.              *)
Asks(t, k) ==
  /\ At(t, "idle")
  /\ turn' = IF failures[k] > 0 /\ retryAfter[k] > now THEN turn
             ELSE [turn EXCEPT ![t] = [at |-> "lookup", key |-> k, asked |-> now, client |-> None]]
  /\ UNCHANGED <<now, pool, owner, dead, reap>>

(* Sweep the others, then hit or miss.                                     *)
LooksUp(t) ==
  /\ At(t, "lookup")
  /\ Evict(Idle(turn[t].asked, {Key_(t)}))
  /\ IF clients[Key_(t)] # None
     THEN /\ lastUsed' = [lastUsed EXCEPT ![Key_(t)] = turn[t].asked]
          /\ turn' = [turn EXCEPT ![t].at = "using", ![t].client = clients[Key_(t)]]
     ELSE GoTo(t, "connecting") /\ UNCHANGED lastUsed
  /\ UNCHANGED <<now, failures, retryAfter, owner, dead, reap>>

Connects(t) ==
  /\ At(t, "connecting")
  /\ \E c \in Client :
       /\ owner[c] = None /\ \A d \in 1 .. c - 1 : owner[d] # None
       /\ owner' = [owner EXCEPT ![c] = Key_(t)]
       /\ turn' = [turn EXCEPT ![t].at = "clearing", ![t].client = c]
  /\ UNCHANGED <<now, pool, dead, reap>>

ConnectFails(t) ==
  /\ At(t, "connecting") /\ failures[Key_(t)] < MaxFailures
  /\ failures' = [failures EXCEPT ![Key_(t)] = @ + 1]
  /\ retryAfter' = [retryAfter EXCEPT ![Key_(t)] = now + BackoffDuration(failures'[Key_(t)])]
  /\ turn' = [turn EXCEPT ![t] = NoTurn]
  /\ UNCHANGED <<now, clients, lastUsed, owner, dead, reap>>

ClearsBackoff(t) ==
  /\ At(t, "clearing")
  /\ failures' = [failures EXCEPT ![Key_(t)] = 0]
  /\ GoTo(t, "inserting")
  /\ UNCHANGED <<now, clients, lastUsed, retryAfter, owner, dead, reap>>

(* Mutant: the connection just made replaces the one of a faster caller.   *)
MutInserts(t) ==
  /\ At(t, "inserting")
  /\ lastUsed' = [lastUsed EXCEPT ![Key_(t)] = now]
  /\ clients' = [clients EXCEPT ![Key_(t)] = turn[t].client]
  /\ GoTo(t, "using")
  /\ UNCHANGED <<now, failures, retryAfter, owner, dead, reap>>

(* Whoever lost the race drops its own connection.                         *)
Inserts(t) ==
  /\ At(t, "inserting")
  /\ lastUsed' = [lastUsed EXCEPT ![Key_(t)] = now]
  /\ IF clients[Key_(t)] # None
     THEN /\ turn' = [turn EXCEPT ![t].at = "using", ![t].client = clients[Key_(t)]]
          /\ UNCHANGED clients
     ELSE /\ clients' = [clients EXCEPT ![Key_(t)] = turn[t].client]
          /\ GoTo(t, "using")
  /\ UNCHANGED <<now, failures, retryAfter, owner, dead, reap>>

(* The turn ends, or is dropped wherever it waits.                         *)
TurnEnds(t) ==
  /\ ~At(t, "idle")
  /\ turn' = [turn EXCEPT ![t] = NoTurn]
  /\ UNCHANGED <<now, pool, owner, dead, reap>>

-----------------------------------------------------------------------------
(* The reaper: sweep_idle, then health_check, over and over.               *)

Sweeps ==
  /\ reaper = "sweep"
  /\ LET gone == Idle(now, {}) IN
       /\ Evict(gone)
       /\ snapshot' = {<<k, clients[k]>> : k \in Cached \ gone}
  /\ reaper' = "probe" /\ failed' = {}
  /\ UNCHANGED <<now, lastUsed, failures, retryAfter, turn, owner, dead>>

(* One tools/list per client of the snapshot, no lock held.                *)
Probes(k, c) ==
  /\ reaper = "probe" /\ <<k, c>> \in snapshot
  /\ snapshot' = snapshot \ {<<k, c>>}
  /\ failed' = IF c \in dead THEN failed \cup {k} ELSE failed
  /\ UNCHANGED <<now, pool, turn, owner, dead, reaper>>

(* By key: whatever client the key has now is evicted.                     *)
EvictsDead ==
  /\ reaper = "probe" /\ snapshot = {}
  /\ Evict(failed)
  /\ reaper' = "sweep" /\ failed' = {}
  /\ UNCHANGED <<now, lastUsed, failures, retryAfter, turn, owner, dead, snapshot>>

ServerDies(c) ==
  /\ owner[c] # None /\ c \notin dead /\ Cardinality(dead) < MaxDeaths
  /\ dead' = dead \cup {c}
  /\ UNCHANGED <<now, pool, turn, owner, reap>>

Tick == now < MaxTime /\ now' = now + 1 /\ UNCHANGED <<pool, turn, owner, dead, reap>>

ReaperStep == Sweeps \/ EvictsDead \/ \E k \in Key, c \in Client : Probes(k, c)

Next ==
  \/ \E t \in Turn :
       \/ \E k \in Key : Asks(t, k)
       \/ LooksUp(t) \/ Connects(t) \/ ConnectFails(t) \/ ClearsBackoff(t) \/ Inserts(t)
       \/ TurnEnds(t)
  \/ ReaperStep \/ Tick
  \/ \E c \in Client : ServerDies(c)

Spec == Init /\ [][Next]_vars

-----------------------------------------------------------------------------
(* Properties.                                                             *)

(* Every variable stays in its declared range.                             *)
TypeOK ==
  /\ now \in 0 .. MaxTime
  /\ clients \in [Key -> Client \cup {None}] /\ lastUsed \in [Key -> 0 .. MaxTime]
  /\ \A k \in Cached : owner[clients[k]] = k
  /\ owner \in [Client -> Key \cup {None}]
  /\ \A t \in Turn : turn[t].client \in Client \cup {None}
  /\ dead \subseteq Client /\ failed \subseteq Key

(* sweep_idle, health_check: a connection leaves the pool only when it was *)
(* idle for IDLE_TTL, or dead; or, EvictsDead goes by key, when its key    *)
(* had a dead connection as the reaper looked and was given a new one.     *)
EvictedForCause ==
  [][\A k \in Key :
       clients[k] # None /\ clients'[k] # clients[k] =>
         \/ now >= lastUsed[k] + IDLE_TTL
         \/ clients[k] \in dead
         \/ k \in failed /\ \E c \in dead : owner[c] = k]_vars
=============================================================================
