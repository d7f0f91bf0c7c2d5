SPECIFICATION ResidenceSpec
CONSTANTS
  Projects = {1, 2}
  Broken = {1}
  Callers = {}
  Calls = {}
  Loop = Loop
  Nobody = Nobody
  Capacity = 2
  IdleTicks = 2
  ReopenAfter = 3
  MaxRequests = 0
  MaxOwed = 1
PROPERTIES
  RefusedForAWhile
