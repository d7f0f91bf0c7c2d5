SPECIFICATION Spec
CONSTANTS
  Topics = {t1}
  Project = project
  Kinds = {"Sync"}
  Tokens = {1, 2}
  NoRow = NoRow
  MaxAttempts = 2
  Batch = 1
  Contents = {x}
  Gone = Gone
  Torn = Torn
  Drains = {d1, d2}
  Owed = {"WhatAMemoryNeeds"}
  Upkeep = {}
  NoOne = NoOne
  AwaitingDurability = 2
PROPERTY FailureIsItsOwn
