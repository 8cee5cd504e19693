SPECIFICATION Spec
CONSTANTS
  max = 3
  CharMod = 6
  MaxUnread = 5
INVARIANTS
  NoSilentOverrun
