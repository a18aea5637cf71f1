SPECIFICATION Spec
CONSTANTS
  Attempts = {a1}
  MaxRequests = 3
  Cap = 5
  Reservation = 2
  Procs = {p1, p2}
  NoProc = none
  MaxRetries = 1
  Bills = {1, 2}
  Luna = FALSE
  StallPoints = {"read", "create", "receipts", "reconcile", "restore", "open"}
  MaxFaults = 2
SYMMETRY Symmetry
INVARIANTS
  AbandonedNeverSent
