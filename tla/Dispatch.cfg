CONSTANTS
  Tasks = {t1, t2}
  QueueLength = 2
  Prompt = TRUE
SPECIFICATION FairSpec
INVARIANTS TypeOK OneUiTask NothingElseInManagement
PROPERTIES CleanableAgain
