\* Plans under commands, ticks and crashes.
CONSTANTS
  DaySlots = 4
  Campaign = {1, 2}
  Lead = {1, 2}
  Account = {1, 2}
  Steps = 2
  Delay <- MCDelay
  LeadZone <- MCLeadZone
  StaleDays = 2
  Settings <- MCSettings
  Edits <- MCEdits
  Rotations <- MCRotations
  Batches <- MCBatches
  Dates <- MCDates
  Limits = {1, 2}
  Budgets <- MCBudgets
  TickZone = 2
  Strides = {2, 3}
SPECIFICATION Spec
INVARIANTS
  TypeOK
  PlanFitsLimit
  PlanKeepsGaps
  PlanIsSendable
  PlanKeepsDelays
  CohortWaits
  NothingStranded
  AnnouncedOnce
PROPERTIES
  DailyCap
  IdleOncePerDay
  Announced
CHECK_DEADLOCK FALSE
