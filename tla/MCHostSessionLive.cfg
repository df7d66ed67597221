SPECIFICATION FairSpec
CONSTANTS
  Clients = {a, b}
  Host = host
  MaxPresses = 2
PROPERTIES
  CallsReturn
  RestartHonoured
  ContractServed
  ShutdownExits
