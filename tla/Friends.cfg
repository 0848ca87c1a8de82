SPECIFICATION Spec
CONSTANTS
  a = a
  b = b
  v1 = v1
  v2 = v2
  None = None
  Server = {v1, v2}
  Old = {v2}
  User = {a, b}
  Conn = {c1, c2}
  Ask <- OneAsks
  Place <- FirstStays
  Faults = {"sql_error", "con_lost", "rpc_lost", "crash"}
  LoginLimit = 3
  FailureLimit = 1
CHECK_DEADLOCK FALSE
INVARIANTS TypeOK FriendsMutual ShownAreFriends AgreedAreFriends  FriendRowsUnlocked LogicGoesOn
