CONSTANTS
  Turn = {t1, t2, t3}
  p1 = p1
  p2 = p2
  Process = {p1, p2}
  ProcessOf <- Spread
  WindowTurns = 1
  RawTextFits = TRUE
  Faults = {"turnFails", "loadFails", "jobFails", "crash"}

SPECIFICATION Spec
CHECK_DEADLOCK FALSE
INVARIANTS SummaryIsPrefix WindowStaysVerbatim PromptTiles OneJobPerProcess
PROPERTIES ThroughNeverRegresses
