SPECIFICATION FairSpec
CONSTANTS
  Second = 3
  Wdto = 2
  BootTicks = 1
  PollTicks = 1
  Errors = {e1, e2}
  Erased = Erased
  None = None
  Configs = {0}
  Byte = {0, 1}
  Zero = 0
  PowerLosses = 2
INVARIANTS
  TypeOK
  SecondsCounted
  ErrorReported
  SettingsSurvive
PROPERTY BackInService
