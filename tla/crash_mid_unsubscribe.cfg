\* The tick dies between recording an unsubscribe request and blacklisting.
CONSTANTS
  alice = alice
  bob = bob
  camp = camp
  other = other
  acct = acct
  box = box
  a1 = a1
  a2 = a2
  b1 = b1
  x1 = x1
  m1 = m1
  m2 = m2
  m3 = m3
  Lead = {alice}
  Campaign = {camp, other}
  Account = {acct, box}
  Send = {a1, a2}
  LeadOf <- MCLeadOf
  CampaignOf <- MCCampaignOf
  AccountOf <- MCAccountOf
  StepOf <- MCStepOf
  DomainOf <- MCDomainOf
  StopOnDomainReply = {camp}
  Commands = {}
  MaxCommands = 0
  MaxFaults = 1
  Msg = {m3}
  Kind <- Answers
  ReplyTo <- MCReplyTo
  NoMsg = NoMsg
  NoSend = NoSend
  NoDelay = {}
SPECIFICATION Spec
INVARIANT
  UnsubscribeTakesEffect
