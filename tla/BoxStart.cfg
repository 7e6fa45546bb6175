\* Two boxes that start up to twice each, with one collection.
CONSTANTS
  Box = {a, b}
  Collection = {n}
  Limit = 2
  MaxStarts = 2
SPECIFICATION Spec
INVARIANTS OneIdentity LearnsCollections
PROPERTIES StartEnds
CHECK_DEADLOCK FALSE
