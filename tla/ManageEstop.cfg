CONSTANTS
  QueueLength = 10
  Rests <- Anywhere
  Program <- MCProgram
  Entry <- MCEntry
  Cost <- MCCost
  MaxLate = 7
  Threads = {"ui"}
  Starts = {"manageStart", "manageFinish"}
  Hands = {"uart"}
  Orders = {"estop"}
  MaxOrders = 1
  TofReadings = {"far"}
  Prompt = TRUE
SPECIFICATION Spec
INVARIANTS EstopLeavesNothingRunning
