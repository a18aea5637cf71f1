SPECIFICATION MCSpec
CONSTANTS
  Experiments = {"gate", "plan", "reread", "lesson"}
  StageOf <- MCStage
  Configuration <- MCConfiguration
  Source = "reread"
  Reread = "planner"
  Required = 2
  Desks = {d1, d2}
  MaxReviews = 3
  MaxDecisions = 3
  MaxStarts = 5
SYMMETRY Symmetry
CHECK_DEADLOCK FALSE
INVARIANTS
  PermissionIsEarned
