CONSTANTS
  MaxUid = 1
  Upsets <- Recoverable
  MaxUpsets = 1
  MaxMailbox = 1
  MaxTimers = 1
  MaxTasks = 1
  Deletable = {1}
  Cases <- HeldOnWorker
SPECIFICATION FairSpec
PROPERTIES
  DeletedPodsGo
CHECK_DEADLOCK FALSE
