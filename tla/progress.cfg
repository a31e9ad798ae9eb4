\* Liveness: ticks end and campaigns complete.
CONSTANTS
  alice = alice
  bob = bob
  camp = camp
  acct = acct
  a1 = a1
  a2 = a2
  a3 = a3
  b1 = b1
  m1 = m1
  m2 = m2
  Lead = {alice}
  Campaign = {camp}
  Account = {acct}
  Send = {a1, a2}
  LeadOf <- MCLeadOf
  CampaignOf <- MCCampaignOf
  AccountOf <- MCAccountOf
  StepOf <- MCStepOf
  DomainOf <- MCDomainOf
  StopOnDomainReply = {}
  Commands = {"activate", "pause_lead", "resume_lead", "retry", "send_now", "dry_run"}
  MaxCommands = 2
  MaxFaults = 1
  Msg = {}
  Kind <- NoMessages
  ReplyTo <- NoMessages
  NoMsg = NoMsg
  NoSend = NoSend
  NoDelay = {}
SPECIFICATION FairSpec
PROPERTIES
  TicksFinish
  CampaignsComplete
