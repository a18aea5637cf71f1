SPECIFICATION Spec
CONSTANTS
  Attempts = {a1, a2}
  MaxRequests = 2
  Cap = 4
  Reservation = 2
  Procs = {p1, p2}
  NoProc = none
  MaxRetries = 1
  Bills = {1, 2}
  Luna = TRUE
  StallPoints = {"reserve","outcome", "finish"}
  MaxFaults = 1
SYMMETRY Symmetry
INVARIANTS
  WithinCap
  SendsAreRecorded
  AbandonedNeverSent
PROPERTIES
  ImplementsPaidAttempts
