CONSTANTS
  MaxUid = 2
  Upsets <- Alike
  MaxUpsets = 2
  MaxMailbox = 2
  MaxTimers = 1
  MaxTasks = 1
  Deletable = {1}
  Cases <- WorkerAndLeader
SPECIFICATION Spec
INVARIANTS
  TypeOK
  WantedHoldsSlot
  OnlyDoomedStopped
  
PROPERTIES
  OnlyRetriesOverlap
CHECK_DEADLOCK FALSE
