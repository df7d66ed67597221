SPECIFICATION FairSpec
CONSTANTS
  Hosts = {1, 2}
  Daemon = d
  Old = old
  Clients = {c1}
  NoOne = none
  MaxInputs = 2
  MaxCrashes = 1
INVARIANTS TypeOK OwnsWhatItUses ToggledOnce
PROPERTIES ShutdownEnds SetupEnds
CHECK_DEADLOCK FALSE
