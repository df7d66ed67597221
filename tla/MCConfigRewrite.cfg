SPECIFICATION Spec
CONSTANTS
  Settings = {mode, method}
  NoOne = none
  MaxSets = 2
  MaxEdits = 2
  MaxCrashes = 2
INVARIANTS NoLostUpdate FileWhole
CHECK_DEADLOCK FALSE
