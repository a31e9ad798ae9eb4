\* Faults, retries, pauses and resumes against the send loop.
CONSTANTS
  alice = alice
  bob = bob
  camp = camp
  acct = acct
  a1 = a1
  a2 = a2
  a3 = a3
  b1 = b1
  m1 = m1
  m2 = m2
  Lead <- MCLead
  Campaign = {camp}
  Account = {acct}
  Send = {a1, a2, b1}
  LeadOf <- MCLeadOf
  CampaignOf <- MCCampaignOf
  AccountOf <- MCAccountOf
  StepOf <- MCStepOf
  DomainOf <- MCDomainOf
  StopOnDomainReply = {}
  Commands = {"pause_lead", "resume_lead", "retry", "pause_campaign", "resume_campaign"}
  MaxCommands = 2
  MaxFaults = 1
  Msg = {}
  Kind <- NoMessages
  ReplyTo <- NoMessages
  NoMsg = NoMsg
  NoSend = NoSend
  NoDelay = {}
SPECIFICATION Spec
INVARIANTS
  TypeOK
  LedgerBalances
  CompletedMeansDone
PROPERTY
  RowLifecycle
