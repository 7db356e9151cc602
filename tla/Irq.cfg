SPECIFICATION LiveSpec
CONSTANTS
  Levels = {2, 6, 7}
  Timer = 7
  Eth = 6
  IE = 9
  MaxAttach = 2
  MaxCalls = 3
INVARIANTS
  MasksSettled SavedNotStale HandlersExcluded
PROPERTIES
  InterruptsServed
