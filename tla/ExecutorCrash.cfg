SPECIFICATION FairSpec
CONSTANTS
  Attempts = {a1}
  MaxRequests = 5
  Cap = 10
  Reservation = 2
  Procs = {p1}
  NoProc = none
  MaxRetries = 1
  Bills = {1, 2}
  Luna = FALSE
  StallPoints = {}
  MaxFaults = 3
INVARIANTS
  TypeOK
  ChargesAreBills
  ToldIsSettled
PROPERTIES
  EventuallyDecided
