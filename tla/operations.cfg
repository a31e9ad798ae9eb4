\* The inbox under ticks, reconciliations, reviews, importers and faults.
CONSTANTS
  Account = {1, 2}
  Accounts <- MCAccounts
  Msg = {"ask", "own", "stop", "elsewhere"}
  Of <- MCOf
  Kind <- MCKind
  Lag = 1
  Overlap = 1
  Budgets <- MCBudgets
  Notified = {1}
  PageLimit = 1
SPECIFICATION Spec
INVARIANTS
  TypeOK
  OneEventPerMessage
  NothingBehindCursor
  LabelTruth
  OptOutsActedOn
  ListsAreFresh
  AnnouncedOnce
PROPERTIES
  OutboxSpec
  EventuallyRecorded
  EventuallyHeard
CHECK_DEADLOCK FALSE
