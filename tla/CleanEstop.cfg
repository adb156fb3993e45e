CONSTANTS
  QueueLength = 10
  Rests <- Anywhere
  Program <- MCProgram
  Entry <- MCEntry
  Cost <- MCCost
  MaxLate = 7
  Threads = {"ui"}
  Starts = {"clean"}
  Hands = {"uart"}
  Orders = {"estop", "other"}
  MaxOrders = 1
  TofReadings = {"far"}
  Prompt = TRUE
SPECIFICATION Spec
INVARIANTS Quiescent ScoopNeedsOpenCover WasteClosedAfterClean DriverReleased EstopBudget
