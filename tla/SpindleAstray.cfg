SPECIFICATION Spec
CONSTANTS
  QueueLength = 1
  Steps = 3
  Together = {{"spin"}}
INVARIANTS StopEndsTurning
