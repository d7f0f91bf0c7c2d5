SPECIFICATION Spec
CONSTANTS
  Topics = {t1}
  Project = project
  Kinds = {"Sync"}
  Tokens = {1, 2}
  NoRow = NoRow
  MaxAttempts = 2
  Batch = 1
  Contents = {x, y}
  Gone = Gone
  Torn = Torn
  Drains = {d1}
  Owed = {"WhatAMemoryNeeds"}
  Upkeep = {}
  NoOne = NoOne
  AwaitingDurability = 2
INVARIANT ReportedFindable
