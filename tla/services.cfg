SPECIFICATION Spec
CONSTANTS
  Services = {"scheduler", "tasks", "outbox", "lark", "shell"}
  a = a
  b = b
  s1 = s1
  s2 = s2
  c1 = c1
  Tasks = {a, b}
  Intervals = {0, 2}
  BATCH = 1
  MAX_HOPS = 2
  MaxTime = 3
  MaxStops = 1
  MaxEdits = 1
  Task = {a}
  Stopper = {s1, s2}
  STREAM_CAP_BYTES = 3
  MaxChunk = 4
  MaxBytes = 8
  Chats = {c1}
  InputKinds = {"send_message"}
  MAX_ATTEMPTS = 3
  OUTBOX_BATCH = 2
  MaxRow = 1
  MaxMessages = 1
  MaxCopies = 1
  MaxFaults = 1
  MaxMishaps = 2
  MaxForced = 1
  Message = {"m1"}
  None = None
  Undated = {}
  EXPIRY = 1
  DEDUP_TTL = 2
  DEDUP_SWEEP_INTERVAL = 0
  DEDUP_MAX_ENTRIES = 1
  RECONNECT_BACKOFF_MIN = 1
  RECONNECT_BACKOFF_MAX = 2
  RECONNECT_GOOD_SESSION = 1
  WS_WATCHDOG_SILENCE = 2
  MaxQueue = 1
  Stream = {"stdout", "stderr"}
  MAX_OUTPUT_BYTES = 1
  PIPE_BYTES = 1
  MaxOutput = 3
CHECK_DEADLOCK FALSE
INVARIANT ServicesTypeOK
INVARIANT EndIsReported
PROPERTY DueIsServed
PROPERTY PendingIsSettled
PROPERTY DeadIsReaped
PROPERTY NeverDeaf
