SPECIFICATION Spec
CONSTANTS
  Clients = {a, b}
  Host = host
  MaxPresses = 3
SYMMETRY ClientSymmetry
INVARIANTS
  TypeOK
  AdmissionHeld
  ReservationHeld
  OneMutation
  MicrophoneShown
  DeliveredOnce
  CancelNotLost
  RestartServesItsGeneration
  TerminalTimed
PROPERTY ContractKept
