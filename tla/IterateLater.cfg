CONSTANTS
  Value = {v1, v2}
  Pending = Pending
  Completed = Completed
  Rejected = Rejected
  MaxNext = 4
SPECIFICATION Spec
CHECK_DEADLOCK FALSE
INVARIANT DeliversInOrder
PROPERTY ImplementsChannel
PROPERTY CompletionReachesConsumer
