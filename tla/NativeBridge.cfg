\* Three calls of any kinds; five groups sent in chunks of two; five chunks
\* received.  The page reads the field in which RPCRequest declares the function.
CONSTANTS
  Call = {c1, c2, c3}
  Field = "function"
  Content = 5
  Amount = 2
  Stored = 5
SPECIFICATION Spec
INVARIANTS TypeOK UploadedUnlessLate ReceivedIsStored
PROPERTIES SettlesUnlessLost
CHECK_DEADLOCK FALSE
