CONSTANTS
  QueueLength = 10
  Rests <- Anywhere
  Program <- MCProgram
  Entry <- MCEntry
  Cost <- MCCost
  MaxLate = 7
  Threads = {"ui"}
  Starts = {"clean", "manageStart", "manageFinish", "calibration"}
  Hands = {"key"}
  Orders = {"toggle"}
  MaxOrders = 0
  TofReadings = {"near", "far", "zero", "invalid"}
  Prompt = TRUE
SPECIFICATION FairSpec
INVARIANTS TypeOK ScoopNeedsOpenCover
PROPERTIES ScenarioEnds
