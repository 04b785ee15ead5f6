SPECIFICATION RemoteSpec
CONSTANTS
  Chats = {m1}
  Runs = {t1}
  Consumers = {c1, c2}
  Sweepers = {s1}
  Outcomes = {"completed", "canceled"}
  None = None
  Budgets <- AnyFailure
INVARIANT OneSubmission
INVARIANT OneRemoteTask
INVARIANT ActionsOnce
INVARIANT ReleasedIsSettled
PROPERTY WorkEnds
PROPERTY RemoteReleased
CHECK_DEADLOCK FALSE
