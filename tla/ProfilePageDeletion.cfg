SPECIFICATION Spec
CONSTANTS
  Profiles = {pr1}
  Browsers = {b1}
  Keys = {k1, k2}
  Emails = {e1}
  NoProfile = none
  NoKey = noKey
  NoEmail = noEmail
  MaxSessions = 2
  MaxTickets = 2
  MaxCalls = 2
  WithPage = TRUE
INVARIANT ShownDeletedIsDeleted
CHECK_DEADLOCK FALSE
