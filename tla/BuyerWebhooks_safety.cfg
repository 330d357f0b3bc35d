SPECIFICATION FairWebhookSpec
CONSTANTS
  Message = {searched, tracked}
  Declare = Declare
  QueueOf <- MCQueueOf
  MaxLosses = 1
  MaxDeletions = 1
  MaxDeliveries = 8
  searched = searched
  tracked = tracked
CHECK_DEADLOCK FALSE
INVARIANTS
  OneFate
  AnswersFollowWebhooks
  GoneForCause
PROPERTIES
  OnlyPrototypesGiveUp
  ConsumerSpec
  LossFreezesQueues
  ImplementsPromise
  WebhookServed
