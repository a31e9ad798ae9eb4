\* An answer from somebody else between the confirmation and the send.
CONSTANTS
  ann = ann
  bo = bo
  c1 = c1
  c2 = c2
  m1 = m1
  m2 = m2
  m3 = m3
  hey = hey
  Msg = {m1}
  Kind <- MCKind
  From <- MCFrom
  Caller = {c1}
  Address = {ann, bo}
  First = First
  LeadAddress = ann
  NoMsg = NoMsg
  MaxArrivals = 1
  MaxFaults = 0
  Cli = {c1}
  Confirmed <- MCConfirm
  Text <- MCText
  Handle <- NoHandles
  NoHandle = NoHandle
  NoAddress = NoAddress
SPECIFICATION Spec
INVARIANT
  ConfirmedRecipient
CHECK_DEADLOCK FALSE
