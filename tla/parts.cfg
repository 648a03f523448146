SPECIFICATION Spec
CONSTANTS
  Parts = {"thread", "capped", "batch", "memory", "pool", "text", "cards", "lark", "scheduler", "reply", "files", "database", "fence"}
  LIMIT = 2
  KEEP = 2
  FIRST = 1
  MAX_POOL = 2000
  MAX_ITERATIONS = 2
  COMPACT_RETRIES = 1
  MALFORMED_RETRIES = 1
  FILTER_RETRIES = 1
  ESCALATIONS = 1
  PROBE_CAP = 24
  MaxUses = 1
  MaxRows = 5
  MaxBad = 1
  MaxJobs = 1
  SUMMARY_TOTAL = 4
  CAP_BYTES = 6
  CAP_RESULT = 2
  CAP_COLLAPSE = 2
  CAP_ROWS = 4
  MAX_CONNECTS = 2
  MAX_RETRIES = 1
  TOOL_LIMIT = 2
  Kinds = {"read", "write", "ask_read"}
  INTERLEAVED = FALSE
  MaxCalls = 2
  MaxParts = 2
  Entry = {"e1", "e2"}
  Turn = {"t1", "t2"}
  Task = {"x1"}
  Cli = {"c1"}
  None = None
  Version = {"v1", "v2"}
  Bad = {"v2"}
  Id = {"p1"}
  MaxOps = 4
  MaxCrashes = 1
  Key = {"k1", "k2"}
  PoolTurn = {"t1", "t2"}
  IDLE_TTL = 1
  BACKOFF_BASE = 1
  BACKOFF_MAX = 2
  MaxClock = 1
  MaxClients = 2
  MaxFailures = 1
  MaxDeaths = 1
  Ask = {"q1", "q2", "q3"}
  Message = {"m1", "m2"}
  Card = {"a", "f"}
  Approval = {"a"}
  Form = {"f"}
  MaxClicks = 3
  Undated = {"m2"}
  EXPIRY = 1
  DEDUP_TTL = 2
  DEDUP_SWEEP_INTERVAL = 0
  DEDUP_MAX_ENTRIES = 1
  RECONNECT_BACKOFF_MIN = 1
  RECONNECT_BACKOFF_MAX = 1
  RECONNECT_GOOD_SESSION = 1
  WS_WATCHDOG_SILENCE = 2
  MaxQueue = 1
  a = a
  b = b
  Tasks = {a, b}
  Intervals = {0, 2}
  BATCH = 1
  MAX_HOPS = 1
  MaxTime = 3
  MaxStops = 1
  MaxEdits = 2
  MAX_ATTEMPTS = 2
  MaxResponses = 2
  MaxChunks = 2
  MaxTimeouts = 1
  Chat = {"g1", "g2"}
  Opener = {"server", "cli"}
  Host = "server"
  Input = {"i1", "i2"}
  CatchAll = "every"
  Msg = {"m1", "m2"}
  Use = {"u1"}
  MaxKills = 1
  PROTECTED_FENCES <- Names
  Chunk <- Deltas
  MaxText = 11
  MaxAbandoned = 1
CHECK_DEADLOCK FALSE
INVARIANT PartsTypeOK
INVARIANT RequestIsPaired
INVARIANT HistoryIsKept
INVARIANT AsIfInOrder
INVARIANT MemoryIsKept
INVARIANT NobodyIsForgotten
INVARIANT StoredIsKept
INVARIANT ForwardedOnceInOrder
INVARIANT ReplyIsShownOnce
INVARIANT StreamIsOneShot
PROPERTY OnlyKnownIsOverwritten
PROPERTY EvictedForCause
PROPERTY CardsTellTheTruth
PROPERTY FiresAreDue
