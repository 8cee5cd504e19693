SPECIFICATION Spec
CONSTANTS
  Node = a
  Nodes = {a, b, c}
  MAX_ROUTE_ENTRIES = 3
  PURGE_TIMEOUT = 1
  SeqMod = 2
  CntMod = 3
  TimeMod = 3
  MaxHeard = 2
INVARIANTS
  OneEntryPerPair
  HeardMost
PROPERTY ImplementsRouteMap
