CONSTANTS
  QueueLength = 10
  Rests <- Ready
  Program <- MCProgram
  Entry <- MCEntry
  Cost <- MCCost
  MaxLate = 12
  Threads = {"ui"}
  Starts = {"clean"}
  Hands = {"key"}
  Orders = {"toggle"}
  MaxOrders = 1
  TofReadings = {"far"}
  Prompt = TRUE
SPECIFICATION Spec
INVARIANTS Quiescent CoverClosesOverScoopIn
