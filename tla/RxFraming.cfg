SPECIFICATION FairSpec
CONSTANTS
  LLC_HEADER_SIZE = 2
  PACKET_MAX_SIZE = 4
  CntMod = 12
  LenMax = 3
  short = short
  full = full
  long = long
  NoFrame = NoFrame
  Frames <- ThreeFrames
  SentLen <- Lengths
  RssiFlags = {TRUE, FALSE}
INVARIANTS
  CopiedWhole
  HandedOverFits
  ReadyWhenQuiet
PROPERTIES
  CleanFrameTaken
  HandedOn
