SPECIFICATION FairSpec
CONSTANTS
  a = a
  b = b
  c = c
  Nodes = {a, b, c}
  Instances <- ThreeNodes
  From = a
  To = c
  MAX_ROUTE_ENTRIES = 4
  PURGE_TIMEOUT = 0
  SeqMod = 1
  CntMod = 2
  TimeMod = 2
  None = None
INVARIANTS
  RoutesLead
  FramesLead
PROPERTIES
  FloodEnds
  ImplementsCustody
CHECK_DEADLOCK FALSE
