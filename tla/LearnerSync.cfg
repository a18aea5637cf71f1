SPECIFICATION FairSpec
CONSTANTS
  Devices = {d1}
  MaxProfiles = 2
  MaxOps = 3
  OutboxLimit = 2
  MaxFaults = 1
  MaxCalls = 2
  Allowed = {"skip", "link", "lost_save"}
INVARIANTS TypeOK NothingForgotten
PROPERTIES ReconcileShows ImplementsLearnerLog Drained
CHECK_DEADLOCK FALSE
