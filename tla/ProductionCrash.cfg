SPECIFICATION FairSpec
CONSTANTS
  Runs = {r1, r2}
  NoRun = norun
  Procs = {p1}
  NoProc = noproc
  Identities = {1}
  Kinds = {"normal"}
  Fresh = {TRUE}
  Trials = 2
  MaxFaults = 2
  Stalls = FALSE
CHECK_DEADLOCK FALSE
INVARIANTS
  TypeOK
  ResultsEvidenced
  OneLiveRun
PROPERTIES
  ClaimFreed
