SPECIFICATION Spec
CONSTANTS
  Clients = {a, b}
  Host = host
  MaxPresses = 4
INVARIANT CancelledNeverDelivered
