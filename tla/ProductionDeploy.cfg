SPECIFICATION Spec
CONSTANTS
  Runs = {r1, r2}
  NoRun = norun
  Procs = {p1, p2}
  NoProc = noproc
  Identities = {1, 2}
  Kinds = {"normal", "appropriateness", "usefulness"}
  Fresh = {FALSE}
  Trials = 1
  MaxFaults = 1
  Stalls = TRUE
SYMMETRY Symmetry
CHECK_DEADLOCK FALSE
INVARIANTS
  TerminalReleases
  AcceptedIsAuthorized
PROPERTIES
  FinalRuns
  AuthorizedWhileSelected
