\* Two mutations of one document, a subscription, one write of another box.
SPECIFICATION Spec
CONSTANTS
  Writers = {w1, w2}
  Subscriber = sub
  Ids = {i1}
  Nobody = nobody
  Remote = remote
  MaxRemote = 1
INVARIANTS OneDatabase SubscriberConverges SnapshotsInOrder
PROPERTY MutationsAnswered
CHECK_DEADLOCK FALSE
