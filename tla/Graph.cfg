SPECIFICATION MCSpec
CONSTANTS
  a = a
  b = b
  Topics <- MCTopics
  Texts <- MCTexts
  Width <- MCWidth
  Pairs <- MCPairs
  Gone = Gone
  Absent = Absent
  Drains = {d1, d2}
  MaxChanges = 4
  MaxBatch = 2
  MaxEdge = 2
  Derived = {d}
  Linked = {l}
  Callers = {v, w}
  NoClaim = NoClaim
  MaxVersions = 3
  Nodes = 4
  Graphs <- MCGraphs
  Questions <- MCQuestions
  PerTopic = 1
  MaxFrontier = 3
  MaxSeeds = 2
  Discount <- MCDiscount
  Asks <- MCAsks
  ChannelDepth = 2
  GraphDepth = 2
  Deepest = 4
  Rescore = 2
  K = 1
  Unit = 1000
  Weight <- MCWeight
  FullWorth = 6
  ShownFrom = 3
  ShownAtMost = 1
  FusionShare = 1
  Shares = 5
  Ratings = {0, 1, 2}
  Tokens <- MCTokens
  ViewTokens = 6
  Limits = {1, 2, 3, 4}
SYMMETRY MCSymmetry
INVARIANTS
  OnlyWhatIsSaid
  NothingUnnamed
  OneLiveVersion
  NobodyWaitsInACircle
  BoundedIsExact
  RecallIsExact
  RecallsAreDeep
  AgreementWins
  HitsAreSound
