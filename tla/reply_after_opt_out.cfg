\* An opt-out the refresh finds, with a later answer behind it.
CONSTANTS
  ann = ann
  bo = bo
  c1 = c1
  c2 = c2
  m1 = m1
  m2 = m2
  m3 = m3
  hey = hey
  Msg = {m1, m2, m3}
  Kind <- MCKind
  From <- FromLead
  Caller = {c1}
  Address = {ann, bo}
  First = First
  LeadAddress = ann
  NoMsg = NoMsg
  MaxArrivals = 3
  MaxFaults = 0
  Cli = {c1}
  Confirmed <- MCConfirm
  Text <- MCText
  Handle <- NoHandles
  NoHandle = NoHandle
  NoAddress = NoAddress
SPECIFICATION Spec
INVARIANT
  DiscoveredOptOutBlocks
CHECK_DEADLOCK FALSE
