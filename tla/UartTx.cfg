SPECIFICATION FairSpec
CONSTANTS
  max = 2
  StrLen = 3
  MaxStrings = 2
INVARIANTS
  TypeOK
  StringOfHolder
PROPERTIES
  MessagesWhole
  RxPrints
  MessagesEnd
  ImplementsFifo
