SPECIFICATION Spec
CONSTANTS
  Runs = {r0, r1, r2}
  First = r0
  NoRun = norun
  Procs = {p1, p2}
  NoProc = noproc
  Plans = {empty, a, b}
  Empty = empty
  Codes = {c1, c2}
  StallPoints = {"choose", "execute", "commit", "stop", "paused"}
  MaxFaults = 2
SYMMETRY Symmetry
CHECK_DEADLOCK FALSE
INVARIANTS
  TypeOK
  SelectedStands
  OpenKeepsOwner
PROPERTIES
  LessonFollowsPlan
