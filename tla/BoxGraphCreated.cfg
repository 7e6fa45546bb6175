\* One creation, one subscription, nobody else.
SPECIFICATION Spec
CONSTANTS
  Writers = {w1}
  Subscriber = sub
  Ids = {i1}
  Nobody = nobody
  Remote = remote
  MaxRemote = 0
INVARIANT GotCreatedItem
CHECK_DEADLOCK FALSE
