CONSTANTS
  Turn = {t1, t2}
  p1 = p1
  p2 = p2
  Process = {p1, p2}
  ProcessOf <- Spread
  WindowTurns = 1
  RawTextFits = TRUE
  Faults = {"turnFails", "loadFails", "jobFails", "indexFails", "crash", "delete"}

SPECIFICATION FairSpec
CHECK_DEADLOCK FALSE
INVARIANTS TypeOK
PROPERTIES LogSpec LockIsFreed AgedOutGetsFolded
