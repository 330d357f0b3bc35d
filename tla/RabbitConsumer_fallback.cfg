SPECIFICATION Spec
CONSTANTS
  Message = {search}
  QueueOf <- MCQueueOf
  Options = {{}}
  Foreign = {search}
  MaxLosses = 1
  MaxDeletions = 1
  MaxDeliveries = 4
  search = search
  select = select
  other = other
CHECK_DEADLOCK FALSE
INVARIANT FallbackToThree
