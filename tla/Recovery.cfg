CONSTANTS
  QueueLength = 10
  Rests <- BrokenOff
  Program <- MCProgram
  Entry <- MCEntry
  Cost <- MCCost
  MaxLate = 12
  Threads = {"ui"}
  Starts = {"boot"}
  Hands = {"uart"}
  Orders = {"estop", "other"}
  MaxOrders = 1
  TofReadings = {"far"}
  Prompt = TRUE
SPECIFICATION FairSpec
INVARIANTS CoverClosesOverScoopIn
PROPERTIES EstopStops
