\* The wifi: two starts of the process, and a request of either kind; or the
\* server: three requests of any kinds.
SPECIFICATION MCSpec
CONSTANTS
  Boots = {b1, b2}
  Requests = {r1}
  Preset = preset
  None = none
  MaxUnderWay = 1
  Request = {q1, q2, q3}
  PropertiesSize <- MCPropertiesSize
INVARIANTS NobodyWaitsInVain SettledRight ConnectedToOwn StopsAsAsked SavedUnlessDisturbed
PROPERTIES EveryChainEnds
CHECK_DEADLOCK FALSE
