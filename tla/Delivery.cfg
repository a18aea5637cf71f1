SPECIFICATION MCSpec
CONSTANTS
  Candidates <- MCCandidates
  Legacy <- MCLegacy
  Items <- MCItems
  Reviewed <- MCReviewed
  Publishers = {p1, p2}
  MaxReviews = 2
  MaxPublishes = 2
  MaxWithdrawals = 1
  QueueSize = 2
  MaxDays = 2
  Zones = {0, 1}
  MaxRequests = 3
INVARIANTS WordsOnce OnlyLateSkipsFail PublishedOnce BankMatches
PROPERTY UpcomingInOrder
SYMMETRY Symmetry
CHECK_DEADLOCK FALSE
