\* Order and delays of a three-step sequence; its last step has no delay.
CONSTANTS
  alice = alice
  bob = bob
  camp = camp
  acct = acct
  a1 = a1
  a2 = a2
  a3 = a3
  b1 = b1
  m1 = m1
  m2 = m2
  Lead <- MCLead
  Campaign = {camp}
  Account = {acct}
  Send = {a1, a2, a3, b1}
  LeadOf <- MCLeadOf
  CampaignOf <- MCCampaignOf
  AccountOf <- MCAccountOf
  StepOf <- MCStepOf
  DomainOf <- MCDomainOf
  StopOnDomainReply = {camp}
  Commands = {"activate", "pause_campaign", "resume_campaign", "send_now", "remove_lead", "tick_now"}
  MaxCommands = 2
  MaxFaults = 0
  Msg = {m1, m2}
  Kind <- MCKind
  ReplyTo <- MCReplyTo
  NoMsg = NoMsg
  NoSend = NoSend
  NoDelay = {a3}
SPECIFICATION Spec
INVARIANTS
  DelaysHold
  StepOrder
  FollowUpsThreaded
  DomainReplyStops
