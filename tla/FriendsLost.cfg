SPECIFICATION Spec
CONSTANTS
  a = a
  b = b
  v1 = v1
  v2 = v2
  None = None
  Server = {v1, v2}
  Old = {v2}
  User = {a, b}
  Conn = {c1, c2}
  Ask <- BothAsk
  Place <- FirstStays
  Faults = {}
  LoginLimit = 3
  FailureLimit = 0
CHECK_DEADLOCK FALSE
INVARIANT AckedStored
