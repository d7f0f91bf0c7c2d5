SPECIFICATION MCSpec
CONSTANTS
  v = v
  w = w
  Topics = {t1, t2}
  Project = project
  Kinds = {"Sync"}
  Tokens = {1, 2}
  NoRow = NoRow
  MaxAttempts = 1
  Batch = 2
  Contents = {x}
  Gone = Gone
  Torn = Torn
  Drains = {d1}
  Owed = {"Everything"}
  Upkeep = {}
  NoOne = NoOne
  AwaitingDurability = 1
  Clients = {v, w}
  Servers = {s1, s2}
  Stoppers = {v}
  BuildOf <- MCBuild
  StoreOf <- MCBuild
  NoSocket = NoSocket
  Leftover = Leftover
  NoServer = NoServer
  NoRecord = NoRecord
  MaxKills = 2
  weights = weights
  vocabulary = vocabulary
  x = x
  y = y
  z = z
  Loads = {v, w}
  Commits = {1, 2}
  Files = {weights, vocabulary}
  Content <- MCContent
  Main = main
  NoCommit = NoCommit
  Broken = Broken
  Nobody = Nobody
INVARIANTS
  CascadeInv
  OneStarts
  Reachable
  SettingsAreHonoured
  OneCommit
  NothingDangles
