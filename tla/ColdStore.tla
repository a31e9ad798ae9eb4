----------------------------- MODULE ColdStore -----------------------------
(* The tables a campaign lives in (internal/db.go) and the commands an      *)
(* operator types against them while the sender may be running: lead,       *)
(* account and campaign state changes (internal/lead.go, account.go,        *)
(* campaign.go).                                                            *)
(*                                                                          *)
(* One action is one database transaction.  Commands that look a status up  *)
(* BEFORE they open their transaction are two actions, a check and a        *)
(* commit; `inFlight' holds the commands that stand between the two.        *)
EXTENDS Naturals, FiniteSets

CONSTANTS
  Lead, Campaign, Account,
  Send,              \* the rows of scheduled_sends
  LeadOf, CampaignOf, AccountOf, StepOf,   \* the immutable columns of a row
  DomainOf,          \* leads.domain
  StopOnDomainReply, \* the campaigns with stop_on_domain_reply = 1
  Commands,          \* the commands the operator uses in this instance
  MaxCommands        \* bound: how many commands are typed in one behaviour

\* Every row joins existing rows of the other tables (foreign keys), and the
\* round-robin gives all steps of one lead in one campaign to one account.
ASSUME RowsAssumption ==
  /\ LeadOf \in [Send -> Lead]
  /\ CampaignOf \in [Send -> Campaign]
  /\ AccountOf \in [Send -> Account]
  /\ StepOf \in [Send -> Nat \ {0}]
  /\ \A s, t \in Send :
       LeadOf[s] = LeadOf[t] /\ CampaignOf[s] = CampaignOf[t]
         => /\ AccountOf[s] = AccountOf[t]
            /\ StepOf[s] = StepOf[t] => s = t

ASSUME BoundsAssumption ==
  StopOnDomainReply \subseteq Campaign /\ MaxCommands \in Nat

VARIABLES
  leads,      \* leads.global_status
  members,    \* campaign_leads.status, "none" where there is no row
  campaigns,  \* campaigns.status
  accounts,   \* accounts.status
  rotation,   \* campaign_accounts: the accounts a campaign sends from
  sends,      \* scheduled_sends.status
  inFlight,   \* commands that passed their check and have yet to commit
  issued      \* how many commands have been typed

storeVars == <<leads, members, campaigns, accounts, rotation, sends,
               inFlight, issued>>

LeadStatus     == {"active", "blacklisted", "bounced"}
MemberStatus   == {"active", "paused", "replied", "bounced", "none"}
CampaignStatus == {"draft", "active", "paused", "completed",
                   "completed_with_failures"}
AccountStatus  == {"active", "paused", "removed"}
SendStatus     == {"pending", "sent", "skipped", "cancelled", "failed"}

\* The commands that check first, and what they are about.
TwoStep == {"resume_lead", "remove_lead", "pause_account", "resume_account",
            "activate", "pause_campaign", "resume_campaign", "send_now"}

Target == Lead \cup Account \cup Campaign \cup (Campaign \X Lead)

StoreTypeOK ==
  /\ leads \in [Lead -> LeadStatus]
  /\ members \in [Campaign -> [Lead -> MemberStatus]]
  /\ campaigns \in [Campaign -> CampaignStatus]
  /\ accounts \in [Account -> AccountStatus]
  /\ rotation \in [Campaign -> SUBSET Account]
  /\ sends \in [Send -> SendStatus]
  /\ inFlight \subseteq [op : TwoStep, on : Target]
  /\ issued \in Nat

-----------------------------------------------------------------------------
(* The WHERE clauses the handlers share. *)

OfLead(l)          == {s \in Send : LeadOf[s] = l}
OfAccount(a)       == {s \in Send : AccountOf[s] = a}
OfCampaign(c)      == {s \in Send : CampaignOf[s] = c}
Conversation(c, l) == OfCampaign(c) \cap OfLead(l)
OnDomain(d)        == {l \in Lead : DomainOf[l] = d}
WithStatus(st)     == {s \in Send : sends[s] = st}
Open(c)            == campaigns[c] \in {"active", "draft"}

\* UPDATE scheduled_sends SET status = st WHERE the row is in S.
SetRows(S, st) ==
  sends' = [s \in Send |-> IF s \in S THEN st ELSE sends[s]]

\* UPDATE campaign_leads SET status = st WHERE campaign in C, lead in L and
\* the present status is `from'.
SetMembers(C, L, from, st) ==
  members' = [c \in Campaign |-> [l \in Lead |->
    IF c \in C /\ l \in L /\ members[c][l] = from THEN st ELSE members[c][l]]]

-----------------------------------------------------------------------------
(* Typing a command, and its two halves. *)

Issue(op) ==
  /\ op \in Commands
  /\ issued < MaxCommands
  /\ issued' = issued + 1

\* The check passed: the command goes on to open its transaction.
Begin(op, on) ==
  /\ Issue(op)
  /\ inFlight' = inFlight \cup {[op |-> op, on |-> on]}
  /\ UNCHANGED <<leads, members, campaigns, accounts, rotation, sends>>

\* The command's transaction commits, whatever became of what it checked.
End(op, on) ==
  /\ [op |-> op, on |-> on] \in inFlight
  /\ inFlight' = inFlight \ {[op |-> op, on |-> on]}
  /\ UNCHANGED issued

-----------------------------------------------------------------------------
(* cold-cli lead ... *)

\* A slip: the member status written to the rows.
PauseLeadMixedUp(l) ==
  /\ Issue("pause_lead")
  /\ SetMembers(Campaign, {l}, "active", "paused")
  /\ SetRows(OfLead(l) \cap WithStatus("pending"), "paused")
  /\ UNCHANGED <<leads, campaigns, accounts, rotation, inFlight>>

PauseLead(l) ==
  /\ Issue("pause_lead")
  /\ SetMembers(Campaign, {l}, "active", "paused")
  /\ SetRows(OfLead(l) \cap WithStatus("pending"), "cancelled")
  /\ UNCHANGED <<leads, campaigns, accounts, rotation, inFlight>>

ResumeLeadCheck(l) ==
  /\ leads[l] \notin {"blacklisted", "bounced"}
  /\ Begin("resume_lead", l)

\* A slip: without the status filter every row comes back.
ResumeLeadUnfiltered(l) ==
  /\ End("resume_lead", l)
  /\ SetMembers({c \in Campaign : Open(c)}, {l}, "paused", "active")
  /\ SetRows({s \in OfLead(l) : Open(CampaignOf[s])}, "pending")
  /\ UNCHANGED <<leads, campaigns, accounts, rotation>>

\* Restores every cancelled row of the lead, whoever cancelled it.
ResumeLead(l) ==
  /\ End("resume_lead", l)
  /\ SetMembers({c \in Campaign : Open(c)}, {l}, "paused", "active")
  /\ SetRows({s \in OfLead(l) \cap WithStatus("cancelled") :
                Open(CampaignOf[s])}, "pending")
  /\ UNCHANGED <<leads, campaigns, accounts, rotation>>

RemoveLeadCheck(c, l) ==
  /\ members[c][l] # "none"
  /\ Begin("remove_lead", <<c, l>>)

RemoveLeadFromCampaign(c, l) ==
  /\ End("remove_lead", <<c, l>>)
  /\ SetRows(Conversation(c, l) \cap WithStatus("pending"), "cancelled")
  /\ members' = [members EXCEPT ![c][l] = "none"]
  /\ UNCHANGED <<leads, campaigns, accounts, rotation>>

\* The body of BlacklistLead, which the inbox handling calls as well.
Blacklisted(L) ==
  /\ leads' = [l \in Lead |-> IF l \in L THEN "blacklisted" ELSE leads[l]]
  /\ SetRows({s \in WithStatus("pending") : LeadOf[s] \in L}, "cancelled")
  /\ SetMembers(Campaign, L, "active", "paused")

\* By address it refuses a lead that already is blacklisted.
BlacklistLead(l) ==
  /\ Issue("blacklist_lead")
  /\ leads[l] # "blacklisted"
  /\ Blacklisted({l})
  /\ UNCHANGED <<campaigns, accounts, rotation, inFlight>>

BlacklistDomain(d) ==
  /\ Issue("blacklist_domain")
  /\ Blacklisted(OnDomain(d))
  /\ UNCHANGED <<campaigns, accounts, rotation, inFlight>>

-----------------------------------------------------------------------------
(* cold-cli account ... *)

PauseAccountCheck(a) ==
  /\ accounts[a] = "active"
  /\ Begin("pause_account", a)

PauseAccount(a) ==
  /\ End("pause_account", a)
  /\ accounts' = [accounts EXCEPT ![a] = "paused"]
  /\ SetRows(OfAccount(a) \cap WithStatus("pending"), "cancelled")
  /\ UNCHANGED <<leads, members, campaigns, rotation>>

ResumeAccountCheck(a) ==
  /\ accounts[a] = "paused"
  /\ Begin("resume_account", a)

\* A slip: the membership of the rows' leads is not looked at.
ResumeAccountForAll(a) ==
  /\ End("resume_account", a)
  /\ accounts' = [accounts EXCEPT ![a] = "active"]
  /\ SetRows({s \in OfAccount(a) \cap WithStatus("cancelled") :
                Open(CampaignOf[s]) /\ leads[LeadOf[s]] = "active"}, "pending")
  /\ UNCHANGED <<leads, members, campaigns, rotation>>

\* Restores only the rows of leads that may still be mailed.
ResumeAccount(a) ==
  /\ End("resume_account", a)
  /\ accounts' = [accounts EXCEPT ![a] = "active"]
  /\ SetRows({s \in OfAccount(a) \cap WithStatus("cancelled") :
                /\ Open(CampaignOf[s])
                /\ members[CampaignOf[s]][LeadOf[s]] = "active"
                /\ leads[LeadOf[s]] = "active"}, "pending")
  /\ UNCHANGED <<leads, members, campaigns, rotation>>

\* A slip: the account's status written to its rows.
RemoveAccountMixedUp(a) ==
  /\ Issue("remove_account")
  /\ SetRows(OfAccount(a) \cap WithStatus("pending"), "removed")
  /\ rotation' = [c \in Campaign |-> rotation[c] \ {a}]
  /\ accounts' = [accounts EXCEPT ![a] = "removed"]
  /\ UNCHANGED <<leads, members, campaigns, inFlight>>

RemoveAccount(a) ==
  /\ Issue("remove_account")
  /\ SetRows(OfAccount(a) \cap WithStatus("pending"), "cancelled")
  /\ rotation' = [c \in Campaign |-> rotation[c] \ {a}]
  /\ accounts' = [accounts EXCEPT ![a] = "removed"]
  /\ UNCHANGED <<leads, members, campaigns, inFlight>>

-----------------------------------------------------------------------------
(* cold-cli campaign ... *)

\* The command, the status it expects and the status it writes.
Transition == {[op |-> "activate",        from |-> "draft",  to |-> "active"],
               [op |-> "pause_campaign",  from |-> "active", to |-> "paused"],
               [op |-> "resume_campaign", from |-> "paused", to |-> "active"]}

CampaignStateCheck(c, tr) ==
  /\ campaigns[c] = tr.from
  /\ Begin(tr.op, c)

\* The UPDATE names the campaign only, not the status that was checked.
CampaignStateTransition(c, tr) ==
  /\ End(tr.op, c)
  /\ campaigns' = [campaigns EXCEPT ![c] = tr.to]
  /\ UNCHANGED <<leads, members, accounts, rotation, sends>>

SendNowCheck(c) ==
  /\ campaigns[c] = "active"
  /\ Begin("send_now", c)

\* Only send_at changes: see TickEngine, which carries it as `due'.
SendNowCampaign(c) ==
  /\ End("send_now", c)
  /\ UNCHANGED <<leads, members, campaigns, accounts, rotation, sends>>

\* A slip: a campaign that ended with failures is not reopened.
RetryBehindTheScenes(c, retried) ==
  /\ Issue("retry")
  /\ retried = OfCampaign(c) \cap WithStatus("failed")
  /\ SetRows(retried, "pending")
  /\ UNCHANGED <<leads, members, campaigns, accounts, rotation, inFlight>>

\* `retried' is the failed rows of the campaign, or of one of its steps.
RetryCampaign(c, retried) ==
  /\ Issue("retry")
  /\ \/ retried = OfCampaign(c) \cap WithStatus("failed")
     \/ \E s \in Send : retried = {t \in OfCampaign(c) \cap WithStatus("failed") :
                                     StepOf[t] = StepOf[s]}
  /\ SetRows(retried, "pending")
  /\ campaigns' =
       IF retried # {} /\ campaigns[c] = "completed_with_failures"
         THEN [campaigns EXCEPT ![c] = "active"] ELSE campaigns
  /\ UNCHANGED <<leads, members, accounts, rotation, inFlight>>

-----------------------------------------------------------------------------
(* Campaigns just created or activated, nothing sent yet. *)
StoreInit ==
  /\ leads = [l \in Lead |-> "active"]
  /\ members = [c \in Campaign |-> [l \in Lead |->
       IF Conversation(c, l) = {} THEN "none" ELSE "active"]]
  /\ campaigns \in [Campaign -> {"draft", "active"}]
  /\ accounts = [a \in Account |-> "active"]
  /\ rotation = [c \in Campaign |-> {AccountOf[s] : s \in OfCampaign(c)}]
  /\ sends = [s \in Send |-> "pending"]
  /\ inFlight = {}
  /\ issued = 0

\* The commands that leave every send_at alone.  The two that rewrite it,
\* send-now and retry, and the three that rebalance are joined to the
\* schedule in TickEngine.
QuietCommand ==
  \/ \E l \in Lead : \/ PauseLead(l) \/ ResumeLeadCheck(l) \/ ResumeLead(l)
                     \/ BlacklistLead(l)
  \/ \E d \in {DomainOf[l] : l \in Lead} : BlacklistDomain(d)
  \/ \E c \in Campaign, l \in Lead :
       RemoveLeadCheck(c, l) \/ RemoveLeadFromCampaign(c, l)
  \/ \E a \in Account : \/ PauseAccountCheck(a) \/ PauseAccount(a)
                        \/ ResumeAccountCheck(a) \/ RemoveAccount(a)
  \/ \E c \in Campaign, tr \in Transition : CampaignStateCheck(c, tr)
  \/ \E c \in Campaign : SendNowCheck(c)
=============================================================================
