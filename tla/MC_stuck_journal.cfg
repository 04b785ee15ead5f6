SPECIFICATION RemoteSpec
CONSTANTS
  Chats = {m1}
  Runs = {}
  Consumers = {c1}
  Sweepers = {s1}
  Outcomes = {"completed"}
  None = None
  Budgets <- Reliable
PROPERTY NeverSentIsReleased
CHECK_DEADLOCK FALSE
