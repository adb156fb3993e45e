CONSTANTS
  Tasks = {t1, t2}
  QueueLength = 2
  Prompt = TRUE
SPECIFICATION Spec
INVARIANTS PressEndsPause
