\* One call, to the page of this repository.
CONSTANTS
  Call = {c1}
  Field = "func"
  Content = 5
  Amount = 2
  Stored = 5
SPECIFICATION Spec
PROPERTIES StartSettles
CHECK_DEADLOCK FALSE
