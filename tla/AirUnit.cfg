CONSTANTS
  Attitude = {"zero", "left", "right"}
  Position = {"p1", "p2"}
  Signals <- MCSignals
  MbSize = 2
  SemValues = 3
  Polls = 1
  Budgets <- MCBudgets
SPECIFICATION FairSpec
INVARIANTS TypeOK UsedWhenReady RoundEndsOnBetter
CHECK_DEADLOCK FALSE
PROPERTIES StatusOfOneReading AntennaSettles LatestPositionSent StatusReceived
