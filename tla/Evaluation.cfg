SPECIFICATION MCSpec
CONSTANTS
  Locks = {".write-lock", ".freeze-lock"}
  Tabs = {t1, t2}
  MaxLives = 2
  Cases = {c1, c2}
  Words = {"well-worn", "wellworn", "lucid"}
  Groups = {g1, g2}
  Normalized <- MCNormalized
  Versions = {1}
  MaxRevision = 3
  Runners = {q1, q2}
  Expected <- MCExpected
  Answers = {40, 70}
  Threshold = 50
  Trials = 2
  MaxSent = 2
SYMMETRY Symmetry
CHECK_DEADLOCK FALSE
INVARIANTS
  TypeOK
  UnseenHeldOut
  SummaryIsEvidence
PROPERTIES
  AtomicEdits
  StopsOnFailure
