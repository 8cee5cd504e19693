SPECIFICATION Spec
CONSTANTS
  LLC_HEADER_SIZE = 1
  BATMAN_HEADER_SIZE = 2
  OGM_HEADER_SIZE = 1
  MessageLen = 1
  RxLens = {3}
  LenMod = 8
  SeqMod = 2
  PreambleLen = 2
  PostambleLen = 2
  CollisionFlags = {TRUE}
  RssiFlags = {TRUE}
  RxKinds <- KindsAll
INVARIANT LengthKept
