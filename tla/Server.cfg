SPECIFICATION MCSpec
CONSTANTS
  v = v
  w = w
  Topics = {t1}
  Project = project
  Kinds = {"Sync", "Optimize"}
  Tokens = {1, 2}
  NoRow = NoRow
  MaxAttempts = 2
  Batch = 2
  Contents = {x}
  Gone = Gone
  Torn = Torn
  Drains = {}
  Owed = {}
  Upkeep = {up}
  NoOne = NoOne
  AwaitingDurability = 1
  Projects = {1, 2}
  Broken = {1}
  Callers = {v, w}
  Calls <- MCCalls
  Loop = Loop
  Nobody = Nobody
  Capacity = 1
  IdleTicks = 1
  ReopenAfter = 3
  MaxRequests = 2
  MaxOwed = 1
INVARIANTS
  OneEngineEach
  CacheIsTrue
PROPERTIES
  KeepsThePromise
  CatchesUp
  NothingStarves
