SPECIFICATION ConnectionSpec
CONSTANTS
  Peers = {p1, p2}
  Objects = {o1, o2}
  MaxTimers = 3
INVARIANT StatusAgrees
PROPERTY StayingPeerMeansOnline
