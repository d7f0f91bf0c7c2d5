SPECIFICATION FairSpec
CONSTANTS
  Topics = {t1}
  Project = project
  Kinds = {"Sync", "Optimize"}
  Tokens = {1, 2}
  NoRow = NoRow
  MaxAttempts = 1
  Batch = 1
  Contents = {x, y}
  Gone = Gone
  Torn = Torn
  Drains = {d1}
  Owed = {"Everything", "WhatAMemoryNeeds"}
  Upkeep = {}
  NoOne = NoOne
  AwaitingDurability = 1
PROPERTIES
  DrainsEnd
