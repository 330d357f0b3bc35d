SPECIFICATION FairSpec
CONSTANTS
  Message = {search, select, other}
  QueueOf <- MCQueueOf
  Options = {{0}}
  Foreign = {}
  MaxLosses = 1
  MaxDeletions = 1
  MaxDeliveries = 8
  search = search
  select = select
  other = other
CHECK_DEADLOCK FALSE
INVARIANTS
  TypeOK
  HandlersMatchDeliveries
  DeliveriesBounded
  DeadAfterAttempts
  DuplicatesNeedLosses
  AckedMeansAnswered
PROPERTIES
  RetriesWindDown
  EventuallySettled
