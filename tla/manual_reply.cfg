\* Two invocations of one reply next to a tick, with a crash or lost outcome.
CONSTANTS
  ann = ann
  bo = bo
  c1 = c1
  c2 = c2
  m1 = m1
  m2 = m2
  m3 = m3
  hey = hey
  Msg = {m1, m2, m3}
  Kind <- MCKind
  From <- MCFrom
  Caller = {c1, c2}
  Address = {ann, bo}
  First = First
  LeadAddress = ann
  NoMsg = NoMsg
  MaxArrivals = 2
  MaxFaults = 1
  Cli = {c1}
  Confirmed <- MCConfirm
  Text <- MCText
  Handle <- NoHandles
  NoHandle = NoHandle
  NoAddress = NoAddress
SPECIFICATION Spec
INVARIANTS
  TypeOK
  RecordsAgree
  RecordedOptOutBlocks
PROPERTY
  OneDeliveryPerKey
CHECK_DEADLOCK FALSE
