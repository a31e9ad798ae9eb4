----------------------------- MODULE TickProofs -----------------------------
(* The tick engine, for every set of leads, campaigns, accounts, rows and   *)
(* messages and every bound: its types; its delivery ledger and the status  *)
(* machine of the rows; what has been stopped stays stopped.                *)
EXTENDS TickProperties, TLAPS

LEMMA SetRowsType ==
  ASSUME sends \in [Send -> SendStatus], NEW S, NEW st \in SendStatus,
         SetRows(S, st)
  PROVE  sends' \in [Send -> SendStatus]
BY DEF SetRows

LEMMA SetMembersType ==
  ASSUME members \in [Campaign -> [Lead -> MemberStatus]],
         NEW C, NEW L, NEW from, NEW st \in MemberStatus,
         SetMembers(C, L, from, st)
  PROVE  members' \in [Campaign -> [Lead -> MemberStatus]]
BY DEF SetMembers

LEMMA RebalancedType ==
  ASSUME due \subseteq Send, NEW A, NEW was \in SUBSET Send, Rebalanced(A, was)
  PROVE  due' \subseteq Send
BY DEF Rebalanced

LEMMA BlacklistedType ==
  ASSUME StoreTypeOK, NEW L, Blacklisted(L)
  PROVE  /\ leads' \in [Lead -> LeadStatus]
         /\ sends' \in [Send -> SendStatus]
         /\ members' \in [Campaign -> [Lead -> MemberStatus]]
<1>1. "cancelled" \in SendStatus /\ "paused" \in MemberStatus
  BY DEF SendStatus, MemberStatus
<1>2. leads' \in [Lead -> LeadStatus]
  BY DEF Blacklisted, StoreTypeOK, LeadStatus
<1>3. sends' \in [Send -> SendStatus]
  BY <1>1, SetRowsType DEF Blacklisted, StoreTypeOK
<1>4. members' \in [Campaign -> [Lead -> MemberStatus]]
  BY <1>1, SetMembersType DEF Blacklisted, StoreTypeOK
<1> QED BY <1>2, <1>3, <1>4

LEMMA BeginType ==
  ASSUME StoreTypeOK, NEW op \in TwoStep, NEW on \in Target, Begin(op, on)
  PROVE  StoreTypeOK'
<1>1. [op |-> op, on |-> on] \in [op : TwoStep, on : Target]
  OBVIOUS
<1>2. inFlight' \subseteq [op : TwoStep, on : Target]
  BY <1>1 DEF Begin, StoreTypeOK
<1>3. issued' \in Nat
  BY DEF Begin, Issue, StoreTypeOK
<1> QED BY <1>2, <1>3 DEF Begin, StoreTypeOK

LEMMA QuietCommandType ==
  ASSUME StoreTypeOK, QuietCommand
  PROVE  StoreTypeOK'
<1>0. /\ {"cancelled", "pending"} \subseteq SendStatus
      /\ {"paused", "active", "none"} \subseteq MemberStatus
  BY DEF SendStatus, MemberStatus
<1>a. /\ Lead \subseteq Target /\ Account \subseteq Target
      /\ Campaign \subseteq Target /\ Campaign \X Lead \subseteq Target
  BY DEF Target
<1>b. /\ {"resume_lead", "remove_lead", "pause_account", "resume_account",
          "send_now"} \subseteq TwoStep
      /\ \A tr \in Transition : tr.op \in TwoStep
  BY DEF TwoStep, Transition
<1>1. ASSUME NEW l \in Lead, PauseLead(l) PROVE StoreTypeOK'
  BY <1>0, <1>1, SetRowsType, SetMembersType DEF StoreTypeOK, PauseLead, Issue
<1>2. ASSUME NEW l \in Lead, ResumeLeadCheck(l) PROVE StoreTypeOK'
  BY <1>a, <1>b, <1>2, BeginType DEF ResumeLeadCheck
<1>3. ASSUME NEW l \in Lead, ResumeLead(l) PROVE StoreTypeOK'
  BY <1>0, <1>3, SetRowsType, SetMembersType DEF StoreTypeOK, ResumeLead, End
<1>4. ASSUME NEW l \in Lead, BlacklistLead(l) PROVE StoreTypeOK'
  BY <1>4, BlacklistedType DEF StoreTypeOK, BlacklistLead, Issue
<1>5. ASSUME NEW d, BlacklistDomain(d) PROVE StoreTypeOK'
  BY <1>5, BlacklistedType DEF StoreTypeOK, BlacklistDomain, Issue
<1>6. ASSUME NEW c \in Campaign, NEW l \in Lead, RemoveLeadCheck(c, l)
      PROVE StoreTypeOK'
  <2>1. <<c, l>> \in Target
    BY <1>a
  <2> QED BY <1>b, <1>6, <2>1, BeginType DEF RemoveLeadCheck
<1>7. ASSUME NEW c \in Campaign, NEW l \in Lead, RemoveLeadFromCampaign(c, l)
      PROVE StoreTypeOK'
  BY <1>0, <1>7, SetRowsType DEF StoreTypeOK, RemoveLeadFromCampaign, End
<1>8. ASSUME NEW a \in Account, PauseAccountCheck(a) PROVE StoreTypeOK'
  BY <1>a, <1>b, <1>8, BeginType DEF PauseAccountCheck
<1>9. ASSUME NEW a \in Account, PauseAccount(a) PROVE StoreTypeOK'
  BY <1>0, <1>9, SetRowsType DEF StoreTypeOK, PauseAccount, End, AccountStatus
<1>10. ASSUME NEW a \in Account, ResumeAccountCheck(a) PROVE StoreTypeOK'
  BY <1>a, <1>b, <1>10, BeginType DEF ResumeAccountCheck
<1>11. ASSUME NEW a \in Account, RemoveAccount(a) PROVE StoreTypeOK'
  <2>1. sends' \in [Send -> SendStatus]
    BY <1>0, <1>11, SetRowsType DEF StoreTypeOK, RemoveAccount
  <2>2. rotation' \in [Campaign -> SUBSET Account]
    BY <1>11 DEF StoreTypeOK, RemoveAccount
  <2>3. accounts' \in [Account -> AccountStatus]
    BY <1>11 DEF StoreTypeOK, RemoveAccount, AccountStatus
  <2> QED BY <1>11, <2>1, <2>2, <2>3 DEF StoreTypeOK, RemoveAccount, Issue
<1>12. ASSUME NEW c \in Campaign, NEW tr \in Transition, CampaignStateCheck(c, tr)
       PROVE StoreTypeOK'
  BY <1>a, <1>b, <1>12, BeginType DEF CampaignStateCheck
<1>13. ASSUME NEW c \in Campaign, SendNowCheck(c) PROVE StoreTypeOK'
  BY <1>a, <1>b, <1>13, BeginType DEF SendNowCheck
<1> QED
  BY <1>1, <1>2, <1>3, <1>4, <1>5, <1>6, <1>7, <1>8, <1>9, <1>10, <1>11, <1>12,
     <1>13 DEF QuietCommand

LEMMA OperatorStepType ==
  ASSUME TypeOK, OperatorStep
  PROVE  TypeOK'
<1>0. StoreTypeOK /\ due \subseteq Send
  BY DEF TypeOK
<1>a. /\ "pending" \in SendStatus /\ "active" \in AccountStatus
      /\ \A tr \in Transition : tr.to \in CampaignStatus
      /\ "active" \in CampaignStatus
  BY DEF SendStatus, AccountStatus, Transition, CampaignStatus
<1>b. SUFFICES StoreTypeOK' /\ due' \subseteq Send
  BY DEF OperatorStep, TypeOK, InboxTypeOK, inboxVars, sentVars, tickVars
<1>1. CASE QuietCommand /\ UNCHANGED due
  BY <1>0, <1>1, QuietCommandType
<1>2. ASSUME NEW a \in Account, ResumeAccount(a), Rebalanced({a}, due)
      PROVE  StoreTypeOK' /\ due' \subseteq Send
  BY <1>0, <1>a, <1>2, SetRowsType, RebalancedType
     DEF StoreTypeOK, ResumeAccount, End
<1>3. ASSUME NEW c \in Campaign, NEW tr \in Transition,
             CampaignStateTransition(c, tr),
             Rebalanced(rotation[c], due) \/ UNCHANGED due
      PROVE  StoreTypeOK' /\ due' \subseteq Send
  <2>1. due' \subseteq Send
    BY <1>0, <1>3, RebalancedType
  <2>2. campaigns' \in [Campaign -> CampaignStatus]
    BY <1>0, <1>a, <1>3 DEF StoreTypeOK, CampaignStateTransition
  <2> QED BY <1>0, <1>3, <2>1, <2>2 DEF StoreTypeOK, CampaignStateTransition, End
<1>4. ASSUME NEW c \in Campaign, SendNowCampaign(c),
             due' = Without(OfCampaign(c) \cap WithStatus("pending"))
      PROVE  StoreTypeOK' /\ due' \subseteq Send
  BY <1>0, <1>4 DEF StoreTypeOK, SendNowCampaign, End, Without
<1>5. ASSUME NEW c \in Campaign, NEW R \in SUBSET WithStatus("failed"),
             RetryCampaign(c, R), Rebalanced(rotation[c], Without(R))
      PROVE  StoreTypeOK' /\ due' \subseteq Send
  <2>1. Without(R) \in SUBSET Send
    BY <1>0 DEF Without
  <2>2. due' \subseteq Send
    BY <1>0, <1>5, <2>1, RebalancedType
  <2>3. sends' \in [Send -> SendStatus]
    BY <1>0, <1>a, <1>5, SetRowsType DEF StoreTypeOK, RetryCampaign
  <2>4. campaigns' \in [Campaign -> CampaignStatus]
    BY <1>0, <1>a, <1>5 DEF StoreTypeOK, RetryCampaign
  <2> QED BY <1>0, <1>5, <2>2, <2>3, <2>4 DEF StoreTypeOK, RetryCampaign, Issue
<1> QED
  BY <1>1, <1>2, <1>3, <1>4, <1>5 DEF OperatorStep

LEMMA HandleMailType ==
  ASSUME TypeOK, HandleMail, UNCHANGED <<tickVars, due>>
  PROVE  TypeOK'
<1>0. StoreTypeOK /\ InboxTypeOK
  BY DEF TypeOK
<1>a. /\ {"cancelled", "skipped"} \subseteq SendStatus
      /\ {"replied", "paused", "bounced"} \subseteq MemberStatus
      /\ "bounced" \in LeadStatus
  BY DEF SendStatus, MemberStatus, LeadStatus
<1>b. /\ HandlerPc \cap Sending = {} /\ "poll" \in TickPc \ Sending
      /\ "poll" \notin HandlerPc /\ NoMsg \notin Msg
  BY MessagesAssumption DEF HandlerPc, Sending, TickPc
<1> DEFINE Goal == /\ StoreTypeOK' /\ InboxTypeOK'
                   /\ pc \in HandlerPc \cup {"poll"}
                   /\ pc' \in HandlerPc \cup {"poll"}
                   /\ (msg' \in Msg) <=> (pc' \in HandlerPc)
<1>c. SUFFICES Goal
  BY <1>b DEF TypeOK, tickVars
<1>h. (msg \in Msg) <=> (pc \in HandlerPc)
  BY DEF TypeOK
<1>d. UNCHANGED snap
  BY DEF HandleMail
<1>e. ASSUME NEW m, RecordEvent(m), m \in Msg
      PROVE  recorded' \subseteq Msg /\ faults' \in Nat
  BY <1>0, <1>e DEF RecordEvent, Either, Fault, InboxTypeOK
<1>1. ASSUME NEW m \in Msg, ReplyEvent(m) PROVE Goal
  BY <1>0, <1>1, <1>b, <1>h, <1>d, <1>e
     DEF ReplyEvent, TakeUp, StoreTypeOK, storeVars, InboxTypeOK, sentVars, HandlerPc
<1>2. ASSUME NEW m \in Msg, UnsubscribeEvent(m) PROVE Goal
  BY <1>0, <1>2, <1>b, <1>h, <1>d, <1>e
     DEF UnsubscribeEvent, TakeUp, StoreTypeOK, storeVars, InboxTypeOK, sentVars,
         HandlerPc
<1>3. ASSUME NEW m \in Msg, AutoReply(m) PROVE Goal
  BY <1>0, <1>3, <1>b, <1>h, <1>d, <1>e
     DEF AutoReply, TakeUp, StoreTypeOK, storeVars, InboxTypeOK, sentVars
<1>4. ASSUME NEW m \in Msg, BounceLead(m) PROVE Goal
  BY <1>0, <1>a, <1>4, <1>b, <1>h, <1>d
     DEF BounceLead, Either, Fault, StoreTypeOK, InboxTypeOK, sentVars, HandlerPc
<1>5. CASE ReplyMember
  <2>1. members' \in [Campaign -> [Lead -> MemberStatus]]
    BY <1>0, <1>a, <1>5, SetMembersType DEF ReplyMember, Either, StoreTypeOK
  <2> QED BY <1>0, <1>5, <1>b, <1>h, <1>d, <2>1
          DEF ReplyMember, Either, Fault, StoreTypeOK, InboxTypeOK, inboxVars,
              sentVars, HandlerPc
<1>6. CASE ReplyRows
  <2>1. sends' \in [Send -> SendStatus]
    BY <1>0, <1>a, <1>6, SetRowsType DEF ReplyRows, Either, StoreTypeOK
  <2> QED BY <1>0, <1>6, <1>b, <1>h, <1>d, <2>1
          DEF ReplyRows, Either, Fault, StoreTypeOK, InboxTypeOK, sentVars, HandlerPc
<1>7. CASE DomainRows
  <2>1. sends' \in [Send -> SendStatus]
    BY <1>0, <1>a, <1>7, SetRowsType DEF DomainRows, Either, StoreTypeOK
  <2> QED BY <1>0, <1>7, <1>b, <1>h, <1>d, <2>1
          DEF DomainRows, Either, Fault, StoreTypeOK, InboxTypeOK, inboxVars,
              sentVars, HandlerPc
<1>8. CASE DomainMembers
  <2>1. members' \in [Campaign -> [Lead -> MemberStatus]]
    BY <1>0, <1>a, <1>8, SetMembersType DEF DomainMembers, Either, StoreTypeOK
  <2> QED BY <1>0, <1>8, <1>b, <1>h, <1>d, <2>1
          DEF DomainMembers, Either, Fault, StoreTypeOK, InboxTypeOK, sentVars,
              HandlerPc
<1>9. CASE UnsubscribeBlacklist
  <2>1. /\ leads' \in [Lead -> LeadStatus]
        /\ sends' \in [Send -> SendStatus]
        /\ members' \in [Campaign -> [Lead -> MemberStatus]]
    BY <1>0, <1>9, BlacklistedType DEF UnsubscribeBlacklist, Either, StoreTypeOK
  <2> QED BY <1>0, <1>9, <1>b, <1>h, <1>d, <2>1
          DEF UnsubscribeBlacklist, Either, Fault, StoreTypeOK, InboxTypeOK,
              sentVars, HandlerPc
<1>10. CASE BounceMember
  <2>1. members' \in [Campaign -> [Lead -> MemberStatus]]
    BY <1>0, <1>a, <1>10, SetMembersType DEF BounceMember, Either, StoreTypeOK
  <2> QED BY <1>0, <1>10, <1>b, <1>h, <1>d, <2>1
          DEF BounceMember, Either, Fault, StoreTypeOK, InboxTypeOK, inboxVars,
              sentVars, HandlerPc
<1>11. CASE BounceRows
  <2>1. sends' \in [Send -> SendStatus]
    BY <1>0, <1>a, <1>11, SetRowsType DEF BounceRows, Either, StoreTypeOK
  <2> QED BY <1>0, <1>11, <1>b, <1>h, <1>d, <2>1
          DEF BounceRows, Either, Fault, StoreTypeOK, InboxTypeOK, inboxVars,
              sentVars, HandlerPc
<1>12. CASE BounceEvent
  <2>1. recorded' \subseteq Msg /\ faults' \in Nat
    BY <1>0, <1>h, <1>12
       DEF BounceEvent, RecordEvent, Either, Fault, InboxTypeOK, HandlerPc
  <2> QED BY <1>0, <1>12, <1>b, <1>h, <1>d, <2>1
          DEF BounceEvent, StoreTypeOK, storeVars, InboxTypeOK, sentVars, HandlerPc
<1> QED
  BY <1>1, <1>2, <1>3, <1>4, <1>5, <1>6, <1>7, <1>8, <1>9, <1>10, <1>11, <1>12
     DEF HandleMail

LEMMA RestType ==
  ASSUME TypeOK, Rest, StoreTypeOK', faults' \in Nat, lost' \in [Send -> Nat]
  PROVE  TypeOK'
BY MessagesAssumption
   DEF TypeOK, Rest, InboxTypeOK, sentVars, TickPc, HandlerPc, Sending

LEMMA CompleteFinishedType ==
  ASSUME campaigns \in [Campaign -> CampaignStatus], CompleteFinished
  PROVE  campaigns' \in [Campaign -> CampaignStatus]
BY DEF CompleteFinished, CampaignStatus

\* The first half of a tick, up to the loaded rows.
LEMMA FirstHalfType ==
  ASSUME TypeOK,
         TickStart \/ LoadAccounts \/ PollInboxes \/ PollDone
           \/ CompleteAfterPoll \/ RebalanceAll \/ LoadSends
  PROVE  TypeOK'
<1> USE DEF TickPc, HandlerPc, Sending
<1>0. StoreTypeOK /\ InboxTypeOK
  BY DEF TypeOK
<1>1. CASE TickStart
  <2>1. campaigns' \in [Campaign -> CampaignStatus]
    BY <1>0, <1>1, CompleteFinishedType DEF TickStart, CompleteAndGo, StoreTypeOK
  <2>2. force' \in BOOLEAN
    BY <1>1 DEF TickStart
  <2>3. /\ pc = "idle" /\ pc' = "accounts"
        /\ UNCHANGED <<leads, members, accounts, rotation, sends, inFlight,
                      issued, snap, inboxVars, sentVars, faults, due, todo,
                      passed, cur, sentNow, lost>>
    BY <1>1 DEF TickStart, CompleteAndGo
  <2> QED BY <2>1, <2>2, <2>3 DEF TypeOK, StoreTypeOK, InboxTypeOK, inboxVars,
                                  sentVars
<1>2. CASE LoadAccounts
  BY <1>2 DEF LoadAccounts, TypeOK, StoreTypeOK, storeVars, InboxTypeOK,
              inboxVars, sentVars
<1>3. CASE PollInboxes
  BY <1>3, HandleMailType DEF PollInboxes
<1>4. CASE PollDone
  BY <1>4 DEF PollDone, Either, Fault, TypeOK, StoreTypeOK, storeVars,
              InboxTypeOK, inboxVars, sentVars, tickVars
<1>5. CASE CompleteAfterPoll
  <2>1. campaigns' \in [Campaign -> CampaignStatus]
    BY <1>0, <1>5, CompleteFinishedType
       DEF CompleteAfterPoll, CompleteAndGo, StoreTypeOK
  <2> QED BY <1>5, <2>1 DEF CompleteAfterPoll, CompleteAndGo, TypeOK,
                            StoreTypeOK, InboxTypeOK, inboxVars, sentVars
<1>6. CASE RebalanceAll
  <2>1. due' \subseteq Send
    BY <1>6 DEF RebalanceAll, WithStatus
  <2> QED BY <1>6, <2>1 DEF RebalanceAll, TypeOK, StoreTypeOK, storeVars,
                            InboxTypeOK, inboxVars, sentVars, tickVars
<1>7. CASE LoadSends
  <2>1. StoreTypeOK' /\ faults' \in Nat /\ lost' \in [Send -> Nat]
    BY <1>0, <1>7 DEF LoadSends, TypeOK, StoreTypeOK, storeVars, InboxTypeOK
  <2>2. CASE Rest
    BY <2>1, <2>2, RestType
  <2>3. CASE ~Rest
    <3>1. todo' \subseteq Send /\ pc' = "loop" /\ pc = "load"
          /\ UNCHANGED <<snap, inboxVars, sentVars, force, due, passed, cur, sentNow>>
      BY <1>7, <2>3 DEF LoadSends, WithStatus
    <3> QED BY <2>1, <3>1 DEF TypeOK, InboxTypeOK, inboxVars, sentVars
  <2> QED BY <2>2, <2>3
<1> QED
  BY <1>1, <1>2, <1>3, <1>4, <1>5, <1>6, <1>7

LEMMA SendLoopType ==
  ASSUME TypeOK, SendLoop
  PROVE  TypeOK'
<1> USE DEF TickPc, HandlerPc, Sending
<1>0. StoreTypeOK /\ due \subseteq Send /\ NoSend \notin Send
  BY MessagesAssumption DEF TypeOK
<1>a. {"skipped", "failed", "sent"} \subseteq SendStatus
  BY DEF SendStatus
<1> USE DEF TypeOK, StoreTypeOK, storeVars, InboxTypeOK, inboxVars, sentVars, tickVars
<1>1. ASSUME NEW s \in Send, SkipStale(s) PROVE TypeOK'
  BY <1>0, <1>1 DEF SkipStale, Reach
<1>2. ASSUME NEW s \in Send, Defer(s) PROVE TypeOK'
  <2>1. due' \subseteq Send
    BY <1>0, <1>2, RebalancedType DEF Defer
  <2> QED BY <1>0, <1>2, <2>1 DEF Defer, Reach
<1>3. ASSUME NEW s \in Send, CannotLoad(s) PROVE TypeOK'
  BY <1>0, <1>3 DEF CannotLoad, Reach, Fault
<1>4. ASSUME NEW s \in Send, PickUp(s) PROVE TypeOK'
  BY <1>0, <1>4 DEF PickUp, Reach
<1>5. CASE Refuse
  BY <1>0, <1>5 DEF Refuse
<1>6. CASE Suppress
  <2>1. sends' \in [Send -> SendStatus]
    BY <1>0, <1>a, <1>6, SetRowsType DEF Suppress
  <2>2. members' \in [Campaign -> [Lead -> MemberStatus]]
    BY <1>0, <1>6 DEF Suppress, MemberStatus
  <2> QED BY <1>0, <1>6, <2>1, <2>2 DEF Suppress
<1>7. CASE Accept
  BY <1>0, <1>7 DEF Accept, Deliver
<1>8. CASE AcceptUnknown
  BY <1>0, <1>8 DEF AcceptUnknown, Fault, Deliver, Lose
<1>9. CASE MarkFailed
  <2>1. sends' \in [Send -> SendStatus]
    BY <1>0, <1>a, <1>9, SetRowsType DEF MarkFailed, Either
  <2> QED BY <1>0, <1>9, <2>1 DEF MarkFailed, Either, Fault
<1>10. CASE MarkSent
  <2>1. sends' \in [Send -> SendStatus]
    BY <1>0, <1>a, <1>10, SetRowsType DEF MarkSent, Either
  <2>2. /\ sentNow' \subseteq Send
        /\ lost' \in [Send -> Nat]
        /\ faults' \in Nat
    BY <1>0, <1>10 DEF MarkSent, Either, Fault, Lose
  <2> QED BY <1>0, <1>10, <2>1, <2>2 DEF MarkSent
<1>11. CASE SentEvent
  BY <1>0, <1>11 DEF SentEvent, Either, Fault
<1>12. CASE Backfill
  BY <1>0, <1>12 DEF Backfill, Either, Fault, WithStatus
<1>13. CASE Settle
  <2>1. due' \subseteq Send
    BY <1>0, <1>13, RebalancedType DEF Settle
  <2> QED BY <1>0, <1>13, <2>1 DEF Settle
<1> QED
  BY <1>1, <1>2, <1>3, <1>4, <1>5, <1>6, <1>7, <1>8, <1>9, <1>10, <1>11,
     <1>12, <1>13 DEF SendLoop

LEMMA FinishType ==
  ASSUME TypeOK, Finish
  PROVE  TypeOK'
<1>1. campaigns' \in [Campaign -> CampaignStatus]
  BY CompleteFinishedType DEF Finish, TypeOK, StoreTypeOK
<1>2. StoreTypeOK' /\ faults' \in Nat /\ lost' \in [Send -> Nat]
  BY <1>1 DEF Finish, TypeOK, StoreTypeOK, InboxTypeOK
<1> QED BY <1>2, RestType DEF Finish

LEMMA StopType ==
  ASSUME TypeOK, Stop
  PROVE  TypeOK'
<1>1. lost' \in [Send -> Nat]
  BY DEF Stop, Lose, TypeOK
<1>2. StoreTypeOK' /\ faults' \in Nat
  BY DEF Stop, Fault, TypeOK, StoreTypeOK, storeVars, InboxTypeOK
<1> QED BY <1>1, <1>2, RestType DEF Stop

LEMMA InitType == Init => TypeOK
<1> SUFFICES ASSUME Init PROVE TypeOK
  OBVIOUS
<1>1. StoreTypeOK
  BY RowsAssumption DEF Init, StoreInit, StoreTypeOK, LeadStatus, MemberStatus,
     CampaignStatus, AccountStatus, SendStatus, OfCampaign, Conversation
<1>2. InboxTypeOK
  BY MessagesAssumption DEF Init, InboxInit, InboxTypeOK
<1> QED
  BY <1>1, <1>2, MessagesAssumption
     DEF Init, InboxInit, TypeOK, TickPc, HandlerPc, Sending

LEMMA NextType == TypeOK /\ [Next]_vars => TypeOK'
<1> SUFFICES ASSUME TypeOK, [Next]_vars PROVE TypeOK'
  OBVIOUS
<1>1. CASE OperatorStep
  BY <1>1, OperatorStepType
<1>2. CASE TickStep
  BY <1>2, FirstHalfType, SendLoopType, FinishType DEF TickStep
<1>3. CASE MailArrives
  BY <1>3 DEF MailArrives, Arrive, TypeOK, StoreTypeOK, storeVars, InboxTypeOK,
              sentVars, tickVars
<1>4. CASE Stop
  BY <1>4, StopType
<1>5. CASE DryRunTick
  <2>1. CASE DryRunCompletes
    <3>1. campaigns' \in [Campaign -> CampaignStatus]
      BY <2>1, CompleteFinishedType DEF DryRunCompletes, TypeOK, StoreTypeOK
    <3> QED BY <2>1, <3>1 DEF DryRunCompletes, TypeOK, StoreTypeOK, InboxTypeOK,
                              inboxVars, sentVars, tickVars
  <2>2. ASSUME NEW s \in Send, DryRunFails(s) PROVE TypeOK'
    <3>1. sends' \in [Send -> SendStatus]
      BY <2>2, SetRowsType DEF DryRunFails, TypeOK, StoreTypeOK, SendStatus
    <3> QED BY <2>2, <3>1 DEF DryRunFails, TypeOK, StoreTypeOK, InboxTypeOK,
                              inboxVars, sentVars, tickVars
  <2> QED BY <1>5, <2>1, <2>2 DEF DryRunTick
<1>6. CASE UNCHANGED vars
  BY <1>6 DEF vars, TypeOK, StoreTypeOK, storeVars, InboxTypeOK, inboxVars,
              sentVars, tickVars
<1> QED BY <1>1, <1>2, <1>3, <1>4, <1>5, <1>6 DEF Next

\* Every variable keeps its type, a row is being sent exactly while the
\* engine is between picking it up and settling it, and a message is being
\* handled exactly while the engine is inside a handler.
THEOREM TypeCorrect == Spec => []TypeOK
BY InitType, NextType, PTL DEF Spec

-----------------------------------------------------------------------------
(* The delivery ledger balances in every reachable state, and every row     *)
(* keeps to its status machine.                                             *)
(*                                                                          *)
(* The ledger alone is not inductive: if the row in flight could be `sent'  *)
(* already, delivering it would count its mail twice.  IInv adds that it    *)
(* cannot.                                                                  *)

IInv == TypeOK /\ LedgerBalances /\ InFlightUnsent

InFlight == {"attempt", "fail", "mark"}

\* No row becomes `sent' or stops being `sent'.
SentRowsStay == \A s \in Send : sends'[s] = "sent" <=> sends[s] = "sent"

\* No row is picked up, and none that is about to be marked is dropped.
FlightStays ==
  /\ pc' \in InFlight => pc' = pc /\ cur' = cur
  /\ pc = "mark" => pc' = "mark" /\ cur' = cur

-----------------------------------------------------------------------------
\* The commands and the inbox handling keep to the status machine and leave
\* sent rows alone: they write only over pending rows, or write pending over
\* cancelled and failed ones.

LEMMA SetRowsLegal ==
  ASSUME TypeOK, NEW S \in SUBSET Send, NEW st \in SendStatus \ {"sent"},
         SetRows(S, st),
         \/ \A s \in S : sends[s] = "pending"
         \/ st = "pending" /\ \A s \in S : sends[s] \in {"cancelled", "failed"}
  PROVE  SentRowsStay /\ LegalRowStep
BY DEF TypeOK, StoreTypeOK, SetRows, SentRowsStay, LegalRowStep

LEMMA SameRowsLegal ==
  ASSUME UNCHANGED sends
  PROVE  SentRowsStay /\ LegalRowStep
BY DEF SentRowsStay, LegalRowStep

LEMMA StopRowsLegal ==
  ASSUME TypeOK, NEW S \in SUBSET WithStatus("pending"),
         NEW st \in {"cancelled", "skipped", "failed"}, SetRows(S, st)
  PROVE  SentRowsStay /\ LegalRowStep
BY SetRowsLegal DEF WithStatus, SendStatus

LEMMA RestoreRowsLegal ==
  ASSUME TypeOK,
         NEW S \in SUBSET (WithStatus("cancelled") \cup WithStatus("failed")),
         SetRows(S, "pending")
  PROVE  SentRowsStay /\ LegalRowStep
BY SetRowsLegal DEF WithStatus, SendStatus

LEMMA QuietCommandLegal ==
  ASSUME TypeOK, QuietCommand
  PROVE  SentRowsStay /\ LegalRowStep
<1>1. ASSUME NEW l \in Lead, PauseLead(l) PROVE SentRowsStay /\ LegalRowStep
  BY <1>1, StopRowsLegal DEF PauseLead
<1>2. ASSUME NEW l \in Lead, ResumeLead(l) PROVE SentRowsStay /\ LegalRowStep
  BY <1>2, RestoreRowsLegal DEF ResumeLead
<1>3. ASSUME NEW L, Blacklisted(L) PROVE SentRowsStay /\ LegalRowStep
  BY <1>3, StopRowsLegal DEF Blacklisted
<1>4. ASSUME NEW c \in Campaign, NEW l \in Lead, RemoveLeadFromCampaign(c, l)
      PROVE SentRowsStay /\ LegalRowStep
  BY <1>4, StopRowsLegal DEF RemoveLeadFromCampaign
<1>5. ASSUME NEW a \in Account, PauseAccount(a) \/ RemoveAccount(a)
      PROVE SentRowsStay /\ LegalRowStep
  BY <1>5, StopRowsLegal DEF PauseAccount, RemoveAccount
<1>6. ASSUME UNCHANGED sends PROVE SentRowsStay /\ LegalRowStep
  BY <1>6, SameRowsLegal
<1> QED
  BY <1>1, <1>2, <1>3, <1>4, <1>5, <1>6
     DEF QuietCommand, BlacklistLead, BlacklistDomain, Begin, ResumeLeadCheck,
         RemoveLeadCheck, PauseAccountCheck, ResumeAccountCheck,
         CampaignStateCheck, SendNowCheck

LEMMA OperatorStepLegal ==
  ASSUME TypeOK, OperatorStep
  PROVE  /\ SentRowsStay /\ LegalRowStep /\ FlightStays
         /\ UNCHANGED <<delivered, lost>>
<1>1. FlightStays /\ UNCHANGED <<delivered, lost>>
  BY DEF OperatorStep, FlightStays, tickVars, sentVars
<1>2. ASSUME NEW a \in Account, ResumeAccount(a) PROVE SentRowsStay /\ LegalRowStep
  BY <1>2, RestoreRowsLegal DEF ResumeAccount
<1>3. ASSUME NEW c \in Campaign, NEW R \in SUBSET WithStatus("failed"),
             RetryCampaign(c, R)
      PROVE SentRowsStay /\ LegalRowStep
  BY <1>3, RestoreRowsLegal DEF RetryCampaign
<1>4. ASSUME UNCHANGED sends PROVE SentRowsStay /\ LegalRowStep
  BY <1>4, SameRowsLegal
<1> QED
  BY <1>1, <1>2, <1>3, <1>4, QuietCommandLegal
     DEF OperatorStep, CampaignStateTransition, SendNowCampaign

LEMMA HandleMailLegal ==
  ASSUME TypeOK, HandleMail, UNCHANGED tickVars
  PROVE  /\ SentRowsStay /\ LegalRowStep /\ FlightStays
         /\ UNCHANGED <<delivered, lost>>
<1>1. FlightStays /\ UNCHANGED <<delivered, lost>>
  BY DEF HandleMail, FlightStays, InFlight, tickVars, sentVars, ReplyEvent,
         UnsubscribeEvent, AutoReply, TakeUp, BounceLead, ReplyMember, ReplyRows,
         DomainRows, DomainMembers, UnsubscribeBlacklist, BounceMember,
         BounceRows, BounceEvent
<1>2. ASSUME ReplyRows PROVE SentRowsStay /\ LegalRowStep
  BY <1>2, StopRowsLegal, SameRowsLegal DEF ReplyRows, Either
<1>3. ASSUME DomainRows PROVE SentRowsStay /\ LegalRowStep
  <2>1. {s \in OfCampaign(CampaignFor(msg)) \cap WithStatus("pending") :
           LeadOf[s] \in Colleagues(msg)} \subseteq WithStatus("pending")
    OBVIOUS
  <2> QED BY <1>3, <2>1, StopRowsLegal, SameRowsLegal DEF DomainRows, Either
<1>4. ASSUME UnsubscribeBlacklist PROVE SentRowsStay /\ LegalRowStep
  BY <1>4, StopRowsLegal, SameRowsLegal
     DEF UnsubscribeBlacklist, Either, Blacklisted
<1>5. ASSUME BounceRows PROVE SentRowsStay /\ LegalRowStep
  BY <1>5, StopRowsLegal, SameRowsLegal DEF BounceRows, Either
<1>6. ASSUME UNCHANGED sends PROVE SentRowsStay /\ LegalRowStep
  BY <1>6, SameRowsLegal
<1> QED
  BY <1>1, <1>2, <1>3, <1>4, <1>5, <1>6
     DEF HandleMail, storeVars, ReplyEvent, UnsubscribeEvent, AutoReply,
         BounceLead, ReplyMember, DomainMembers, BounceMember, BounceEvent

-----------------------------------------------------------------------------
\* Steps that deliver nothing, mark nothing sent and pick nothing up keep
\* the ledger.
LEMMA LedgerKept ==
  ASSUME IInv, SentRowsStay, FlightStays, UNCHANGED <<delivered, lost>>
  PROVE  LedgerBalances' /\ InFlightUnsent'
<1>1. LedgerBalances'
  BY DEF IInv, LedgerBalances, SentRowsStay, FlightStays, InFlight
<1>2. InFlightUnsent'
  <2>1. SUFFICES ASSUME pc' \in InFlight PROVE sends'[cur'] # "sent"
    BY DEF InFlightUnsent, InFlight
  <2>2. pc \in InFlight /\ cur' = cur
    BY <2>1 DEF FlightStays
  <2>3. cur \in Send /\ sends[cur] # "sent"
    BY <2>2 DEF IInv, TypeOK, InFlight, Sending, InFlightUnsent
  <2> QED BY <2>2, <2>3 DEF SentRowsStay
<1> QED BY <1>1, <1>2

\* The tick up to its loop, and its end, touch no row.
LEMMA TickFrameLegal ==
  ASSUME TypeOK,
         TickStart \/ LoadAccounts \/ PollInboxes \/ PollDone
           \/ CompleteAfterPoll \/ RebalanceAll \/ LoadSends \/ Finish
  PROVE  /\ SentRowsStay /\ LegalRowStep /\ FlightStays
         /\ UNCHANGED <<delivered, lost>>
<1>1. CASE PollInboxes
  BY <1>1, HandleMailLegal DEF PollInboxes
<1>2. CASE ~PollInboxes
  <2>1. UNCHANGED <<sends, delivered, lost>>
    BY <1>2 DEF TickStart, CompleteAndGo, LoadAccounts, PollDone,
       CompleteAfterPoll, RebalanceAll, LoadSends, Rest, Finish, storeVars,
       sentVars, tickVars
  <2>2. FlightStays
    BY <1>2 DEF TickStart, CompleteAndGo, LoadAccounts, PollDone,
       CompleteAfterPoll, RebalanceAll, LoadSends, Rest, Finish, FlightStays,
       InFlight
  <2> QED BY <2>1, <2>2, SameRowsLegal
<1> QED BY <1>1, <1>2

\* The ledger through the send loop: a step either keeps out of the way of
\* the row in flight, or moves it along.
LEMMA SendLoopLedger ==
  ASSUME IInv, SendLoop
  PROVE  LegalRowStep /\ LedgerBalances' /\ InFlightUnsent'
<1>0. /\ TypeOK /\ LedgerBalances /\ InFlightUnsent
      /\ sends \in [Send -> SendStatus]
      /\ delivered \in [Send -> Nat] /\ lost \in [Send -> Nat]
  BY DEF IInv, TypeOK, StoreTypeOK, InboxTypeOK
<1>f. pc \in InFlight => cur \in Send /\ sends[cur] # "sent"
  BY <1>0 DEF TypeOK, InFlight, Sending, InFlightUnsent
<1> DEFINE Kept == LegalRowStep /\ LedgerBalances' /\ InFlightUnsent'
<1>a. ASSUME UNCHANGED <<sends, delivered, lost>>, FlightStays PROVE Kept
  BY <1>a, SameRowsLegal, LedgerKept
<1>1. ASSUME NEW s \in Send, SkipStale(s) \/ Defer(s) \/ CannotLoad(s) PROVE Kept
  <2>1. UNCHANGED <<sends, delivered, lost>> /\ FlightStays
    BY <1>1 DEF SkipStale, Defer, CannotLoad, Reach, storeVars, sentVars,
       FlightStays, InFlight
  <2> QED BY <2>1, <1>a
<1>2. ASSUME NEW s \in Send, PickUp(s) PROVE Kept
  <2>1. /\ UNCHANGED <<sends, delivered, lost>>
        /\ pc = "loop" /\ pc' = "attempt" /\ cur' = s /\ sends[s] = "pending"
    BY <1>2 DEF PickUp, Reach, StillDue, storeVars, sentVars
  <2>2. LedgerBalances'
    BY <1>0, <2>1 DEF LedgerBalances
  <2>3. InFlightUnsent'
    BY <2>1 DEF InFlightUnsent
  <2> QED BY <2>1, <2>2, <2>3, SameRowsLegal
<1>3. CASE Refuse
  <2>1. /\ UNCHANGED <<sends, delivered, lost, cur>>
        /\ pc = "attempt" /\ pc' = "fail"
    BY <1>3 DEF Refuse, storeVars, sentVars, tickVars
  <2>2. LedgerBalances' /\ InFlightUnsent'
    BY <1>0, <1>f, <2>1 DEF LedgerBalances, InFlightUnsent, InFlight
  <2> QED BY <2>1, <2>2, SameRowsLegal
<1>4. CASE Suppress
  <2>1. SentRowsStay /\ LegalRowStep
    BY <1>0, <1>4, StopRowsLegal DEF Suppress
  <2>2. FlightStays /\ UNCHANGED <<delivered, lost>>
    BY <1>4 DEF Suppress, sentVars, FlightStays, InFlight
  <2> QED BY <2>1, <2>2, LedgerKept
<1>5. CASE Accept
  <2>1. /\ UNCHANGED <<sends, lost, cur>> /\ pc = "attempt" /\ pc' = "mark"
        /\ delivered' = [delivered EXCEPT ![cur] = @ + 1]
    BY <1>5 DEF Accept, Deliver, storeVars, tickVars
  <2>2. LedgerBalances' /\ InFlightUnsent'
    BY <1>0, <1>f, <2>1 DEF LedgerBalances, InFlightUnsent, InFlight
  <2> QED BY <2>1, <2>2, SameRowsLegal
<1>6. CASE AcceptUnknown
  <2>1. /\ UNCHANGED <<sends, cur>> /\ pc = "attempt" /\ pc' = "fail"
        /\ delivered' = [delivered EXCEPT ![cur] = @ + 1]
        /\ lost' = [lost EXCEPT ![cur] = @ + 1]
    BY <1>6 DEF AcceptUnknown, Deliver, Lose, storeVars
  <2>2. LedgerBalances' /\ InFlightUnsent'
    BY <1>0, <1>f, <2>1 DEF LedgerBalances, InFlightUnsent, InFlight
  <2> QED BY <2>1, <2>2, SameRowsLegal
<1>7. CASE MarkFailed
  <2>1. /\ pc = "fail" /\ pc' = "loop" /\ UNCHANGED <<delivered, lost>>
        /\ SetRows({cur}, "failed") \/ UNCHANGED sends
    BY <1>7 DEF MarkFailed, Either, sentVars
  <2>2. cur \in Send /\ sends[cur] # "sent"
    BY <1>f, <2>1 DEF InFlight
  <2>3. SentRowsStay /\ LegalRowStep
    BY <1>0, <2>1, <2>2 DEF SetRows, SentRowsStay, LegalRowStep
  <2>4. FlightStays
    BY <2>1 DEF FlightStays, InFlight
  <2> QED BY <2>1, <2>3, <2>4, LedgerKept
<1>8. CASE MarkSent
  <2>1. /\ pc = "mark" /\ pc' = "event" /\ UNCHANGED <<delivered, cur>>
        /\ \/ SetRows({cur}, "sent") /\ UNCHANGED lost
           \/ lost' = [lost EXCEPT ![cur] = @ + 1] /\ UNCHANGED sends
    BY <1>8 DEF MarkSent, Either, Lose, sentVars
  <2>2. cur \in Send /\ sends[cur] # "sent"
    BY <1>f, <2>1 DEF InFlight
  <2>3. LegalRowStep
    BY <1>0, <2>1, <2>2 DEF SetRows, LegalRowStep
  <2>4. LedgerBalances'
    BY <1>0, <2>1, <2>2 DEF LedgerBalances, SetRows
  <2>5. InFlightUnsent'
    BY <2>1 DEF InFlightUnsent
  <2> QED BY <2>3, <2>4, <2>5
<1>9. CASE SentEvent \/ Backfill \/ Settle
  <2>1. UNCHANGED <<sends, delivered, lost>> /\ FlightStays
    BY <1>9 DEF SentEvent, Backfill, Settle, storeVars, sentVars, tickVars,
       FlightStays, InFlight
  <2> QED BY <2>1, <1>a
<1> QED
  BY <1>1, <1>2, <1>3, <1>4, <1>5, <1>6, <1>7, <1>8, <1>9 DEF SendLoop

LEMMA StopLedger ==
  ASSUME IInv, Stop
  PROVE  LegalRowStep /\ LedgerBalances' /\ InFlightUnsent'
<1>1. /\ UNCHANGED <<sends, delivered>> /\ pc' = "idle"
      /\ IF pc = "mark" THEN lost' = [lost EXCEPT ![cur] = @ + 1]
                        ELSE UNCHANGED lost
  BY DEF Stop, Rest, Lose, storeVars, sentVars
<1>2. pc = "mark" => cur \in Send /\ sends[cur] # "sent"
  BY DEF IInv, TypeOK, Sending, InFlightUnsent
<1>3. LedgerBalances'
  BY <1>1, <1>2 DEF IInv, TypeOK, InboxTypeOK, LedgerBalances
<1>4. InFlightUnsent'
  BY <1>1 DEF InFlightUnsent
<1> QED BY <1>1, <1>3, <1>4, SameRowsLegal

LEMMA InitIInv == Init => IInv
<1> SUFFICES ASSUME Init PROVE IInv
  OBVIOUS
<1>1. LedgerBalances /\ InFlightUnsent
  BY DEF Init, StoreInit, InboxInit, LedgerBalances, InFlightUnsent
<1> QED BY <1>1, InitType DEF IInv

LEMMA NextIInv == IInv /\ [Next]_vars => IInv' /\ [LegalRowStep]_vars
<1> SUFFICES ASSUME IInv, [Next]_vars
             PROVE  LedgerBalances' /\ InFlightUnsent' /\ LegalRowStep
  BY NextType DEF IInv
<1>0. TypeOK
  BY DEF IInv
<1>1. CASE OperatorStep
  BY <1>0, <1>1, OperatorStepLegal, LedgerKept
<1>2. CASE TickStep
  BY <1>0, <1>2, TickFrameLegal, LedgerKept, SendLoopLedger DEF TickStep
<1>3. CASE Stop
  BY <1>3, StopLedger
<1>4. CASE MailArrives \/ DryRunCompletes \/ UNCHANGED vars
  <2>1. UNCHANGED <<sends, delivered, lost>> /\ FlightStays
    BY <1>4 DEF MailArrives, Arrive, DryRunCompletes, vars, storeVars, sentVars,
       tickVars, FlightStays
  <2> QED BY <2>1, SameRowsLegal, LedgerKept
<1>5. ASSUME NEW s \in Send, DryRunFails(s)
      PROVE  LedgerBalances' /\ InFlightUnsent' /\ LegalRowStep
  <2>1. SentRowsStay /\ LegalRowStep
    BY <1>0, <1>5, StopRowsLegal DEF DryRunFails, WithStatus
  <2>2. UNCHANGED <<delivered, lost>> /\ FlightStays
    BY <1>5 DEF DryRunFails, sentVars, tickVars, FlightStays
  <2> QED BY <2>1, <2>2, LedgerKept
<1> QED BY <1>1, <1>2, <1>3, <1>4, <1>5 DEF Next, DryRunTick

-----------------------------------------------------------------------------
\* Whatever commands, retries, answers, faults and crashes come in between,
\* every mail that left is either on its row as `sent' or is one of the
\* deliveries whose outcome never reached the row.
THEOREM LedgerAlwaysBalances == Spec => []LedgerBalances
<1>1. IInv => LedgerBalances
  BY DEF IInv
<1> QED BY <1>1, InitIInv, NextIInv, PTL DEF Spec

\* No step takes a row off its status machine: in particular a sent row is
\* never written again.
THEOREM RowsKeepTheirLifecycle == Spec => RowLifecycle
BY InitIInv, NextIInv, PTL DEF Spec, RowLifecycle

\* A step none of whose outcomes was lost reaches its recipient once at most.
THEOREM AtMostOnce ==
  Spec => [](\A s \in Send : lost[s] = 0 => delivered[s] <= 1)
<1>1. IInv => \A s \in Send : lost[s] = 0 => delivered[s] <= 1
  BY DEF IInv, LedgerBalances
<1> QED BY <1>1, InitIInv, NextIInv, PTL DEF Spec

-----------------------------------------------------------------------------
(* What has been stopped stays stopped: completed campaigns, suppressed     *)
(* leads, answered conversations, their colleagues, and follow-ups outside  *)
(* their thread.                                                            *)
(*                                                                          *)
(* The four about mail hold as long as every statement of the handlers took *)
(* effect (faults = 0), and for operators who do not type the commands that *)
(* put rows back: the runs retry_after_unsubscribe and reply_then_resume    *)
(* show what those commands do.                                             *)

\* A command in flight is one the operator uses.
OnlyUsed == \A i \in inFlight : i.op \in Commands

LEMMA BeginUsed ==
  ASSUME OnlyUsed, NEW op, NEW on, Begin(op, on)
  PROVE  OnlyUsed'
BY DEF OnlyUsed, Begin, Issue

LEMMA FewerUsed ==
  ASSUME OnlyUsed, inFlight' \subseteq inFlight
  PROVE  OnlyUsed'
BY DEF OnlyUsed

LEMMA UsedStep == OnlyUsed /\ [Next]_vars => OnlyUsed'
<1> SUFFICES ASSUME OnlyUsed, [Next]_vars PROVE OnlyUsed'
  OBVIOUS
<1>1. ASSUME NEW op, NEW on, Begin(op, on) PROVE OnlyUsed'
  BY <1>1, BeginUsed
<1>2. ASSUME inFlight' \subseteq inFlight PROVE OnlyUsed'
  BY <1>2, FewerUsed
<1>3. CASE OperatorStep
  <2>1. CASE QuietCommand
    BY <1>1, <1>2, <2>1 DEF QuietCommand, PauseLead, ResumeLeadCheck,
       ResumeLead, BlacklistLead, BlacklistDomain, RemoveLeadCheck,
       RemoveLeadFromCampaign, PauseAccountCheck, PauseAccount,
       ResumeAccountCheck, RemoveAccount, CampaignStateCheck, SendNowCheck, End
  <2>2. CASE ~QuietCommand
    BY <1>2, <1>3, <2>2 DEF OperatorStep, ResumeAccount,
       CampaignStateTransition, SendNowCampaign, RetryCampaign, End
  <2> QED BY <2>1, <2>2
<1>4. CASE PollInboxes
  BY <1>2, <1>4 DEF PollInboxes, HandleMail, storeVars, ReplyEvent,
     UnsubscribeEvent, AutoReply, BounceLead, ReplyMember, ReplyRows,
     DomainRows, DomainMembers, UnsubscribeBlacklist, BounceMember, BounceRows,
     BounceEvent
<1>5. CASE SendLoop
  BY <1>2, <1>5 DEF SendLoop, SkipStale, Defer, CannotLoad, PickUp, Refuse,
     Suppress, Accept, AcceptUnknown, MarkFailed, MarkSent, SentEvent, Backfill,
     Settle, storeVars
<1>6. CASE TickStep /\ ~PollInboxes /\ ~SendLoop
  BY <1>2, <1>6 DEF TickStep, TickStart, LoadAccounts, PollDone,
     CompleteAfterPoll, CompleteAndGo, RebalanceAll, LoadSends, Finish, storeVars
<1>7. CASE MailArrives \/ Stop \/ DryRunTick \/ UNCHANGED vars
  BY <1>2, <1>7 DEF MailArrives, Arrive, Stop, DryRunTick, DryRunCompletes,
     DryRunFails, vars, storeVars
<1> QED BY <1>3, <1>4, <1>5, <1>6, <1>7 DEF Next, TickStep

-----------------------------------------------------------------------------
(* Completed campaigns. *)

Final == {"completed", "completed_with_failures"}

\* The row being sent is of a campaign that has not ended: the tick that
\* sends it is also the only one to complete campaigns.
FlightOpen == pc \in InFlight => campaigns[CampaignOf[cur]] \notin Final

DoneInv == TypeOK /\ OnlyUsed /\ CompletedMeansDone /\ FlightOpen

\* No campaign ends in this step, and no row of an ended one turns pending
\* or failed.
StaysDone ==
  /\ \A c \in Campaign : campaigns'[c] \in Final => campaigns'[c] = campaigns[c]
  /\ \A s \in Send : sends'[s] \in {"pending", "failed"}
       => sends'[s] = sends[s] \/ campaigns'[CampaignOf[s]] \notin Final

LEMMA StaysDoneKeeps ==
  ASSUME DoneInv, StaysDone
  PROVE  CompletedMeansDone'
BY DEF StaysDone, Final, DoneInv, CompletedMeansDone, Pending, WithStatus, OfCampaign

\* Outside the send loop, and in its steps that pick nothing up.
LEMMA FlightOpenKept ==
  ASSUME DoneInv, FlightStays,
         \A c \in Campaign : campaigns'[c] \in Final => campaigns'[c] = campaigns[c]
  PROVE  FlightOpen'
<1> SUFFICES ASSUME pc' \in InFlight PROVE campaigns'[CampaignOf[cur']] \notin Final
  BY DEF FlightOpen
<1>1. pc \in InFlight /\ cur' = cur
  BY DEF FlightStays
<1>2. cur \in Send
  BY <1>1 DEF DoneInv, TypeOK, InFlight, Sending
<1>3. CampaignOf[cur] \in Campaign
  BY <1>2, RowsAssumption
<1> QED BY <1>1, <1>3 DEF DoneInv, FlightOpen

LEMMA SameCampaigns ==
  ASSUME DoneInv, UNCHANGED campaigns, FlightStays, NEW S \in SUBSET Send,
         NEW st \in SendStatus \ {"pending", "failed"},
         SetRows(S, st) \/ UNCHANGED sends
  PROVE  CompletedMeansDone' /\ FlightOpen'
<1>1. StaysDone
  BY DEF StaysDone, SetRows, DoneInv, TypeOK, StoreTypeOK
<1> QED BY <1>1, StaysDoneKeeps, FlightOpenKept

\* Completing: only campaigns without pending rows, and as completed only
\* those without failed rows; nothing is in flight.
LEMMA CompletingKeeps ==
  ASSUME DoneInv, CompleteFinished, UNCHANGED sends, pc' \notin InFlight
  PROVE  CompletedMeansDone' /\ FlightOpen'
<1>1. ASSUME NEW c \in Campaign
      PROVE  /\ campaigns'[c] \in Final => OfCampaign(c) \cap Pending' = {}
             /\ campaigns'[c] = "completed"
                  => OfCampaign(c) \cap WithStatus("failed")' = {}
  BY <1>1 DEF DoneInv, CompletedMeansDone, CompleteFinished, Finished, Final,
     Pending, WithStatus
<1>2. CompletedMeansDone'
  BY <1>1 DEF CompletedMeansDone, Final, OfCampaign
<1> QED BY <1>2 DEF FlightOpen

LEMMA OperatorDone ==
  ASSUME DoneInv, OperatorStep
  PROVE  CompletedMeansDone' /\ FlightOpen'
<1>0. /\ TypeOK /\ FlightStays
      /\ campaigns \in [Campaign -> CampaignStatus]
  BY OperatorStepLegal DEF DoneInv, TypeOK, StoreTypeOK
<1>a. SUFFICES StaysDone
  BY <1>0, StaysDoneKeeps, FlightOpenKept DEF StaysDone
<1>s. ASSUME NEW S, NEW st \in {"cancelled", "skipped"}, SetRows(S, st),
             UNCHANGED campaigns
      PROVE  StaysDone
  BY <1>s DEF StaysDone, SetRows
<1>r. ASSUME NEW S, SetRows(S, "pending"), UNCHANGED campaigns,
             \A s \in S : Open(CampaignOf[s])
      PROVE  StaysDone
  BY <1>r DEF StaysDone, SetRows, Open, Final
<1>u. ASSUME UNCHANGED <<sends, campaigns>> PROVE StaysDone
  BY <1>u DEF StaysDone
<1>1. CASE QuietCommand
  <2>1. ASSUME NEW l \in Lead, PauseLead(l) PROVE StaysDone
    BY <2>1, <1>s DEF PauseLead
  <2>2. ASSUME NEW l \in Lead, ResumeLead(l) PROVE StaysDone
    BY <2>2, <1>r DEF ResumeLead
  <2>3. ASSUME NEW L, Blacklisted(L), UNCHANGED campaigns PROVE StaysDone
    BY <2>3, <1>s DEF Blacklisted
  <2>4. ASSUME NEW c \in Campaign, NEW l \in Lead, RemoveLeadFromCampaign(c, l)
        PROVE StaysDone
    BY <2>4, <1>s DEF RemoveLeadFromCampaign
  <2>5. ASSUME NEW a \in Account, PauseAccount(a) \/ RemoveAccount(a)
        PROVE StaysDone
    BY <2>5, <1>s DEF PauseAccount, RemoveAccount
  <2> QED
    BY <1>1, <1>u, <2>1, <2>2, <2>3, <2>4, <2>5
       DEF QuietCommand, BlacklistLead, BlacklistDomain, Begin, ResumeLeadCheck,
           RemoveLeadCheck, PauseAccountCheck, ResumeAccountCheck,
           CampaignStateCheck, SendNowCheck
<1>2. ASSUME NEW a \in Account, ResumeAccount(a) PROVE StaysDone
  BY <1>2, <1>r DEF ResumeAccount
<1>3. ASSUME NEW c \in Campaign, NEW tr \in Transition,
             CampaignStateTransition(c, tr)
      PROVE StaysDone
  <2>1. tr.to \notin Final
    BY DEF Transition, Final
  <2> QED BY <1>0, <1>3, <2>1 DEF CampaignStateTransition, StaysDone
<1>4. ASSUME NEW c \in Campaign, SendNowCampaign(c) PROVE StaysDone
  BY <1>4, <1>u DEF SendNowCampaign
<1>5. ASSUME NEW c \in Campaign, NEW R \in SUBSET WithStatus("failed"),
             RetryCampaign(c, R)
      PROVE StaysDone
  <2>1. R \subseteq OfCampaign(c) \cap WithStatus("failed")
    BY <1>5 DEF RetryCampaign
  <2>2. campaigns[c] = "completed" => R = {}
    BY <2>1 DEF DoneInv, CompletedMeansDone
  <2>3. R # {} => campaigns'[c] \notin Final
    BY <1>0, <1>5, <2>2 DEF RetryCampaign, Final
  <2>4. \A b \in Campaign : campaigns'[b] \in Final => campaigns'[b] = campaigns[b]
    BY <1>0, <1>5 DEF RetryCampaign, Final
  <2>5. \A s \in R : CampaignOf[s] = c
    BY <2>1 DEF OfCampaign
  <2> QED BY <1>5, <2>3, <2>4, <2>5 DEF RetryCampaign, SetRows, StaysDone
<1> QED
  BY <1>1, <1>2, <1>3, <1>4, <1>5 DEF OperatorStep

LEMMA TickDone ==
  ASSUME DoneInv, TickStep
  PROVE  CompletedMeansDone' /\ FlightOpen'
<1>0. TypeOK /\ CompletedMeansDone /\ FlightOpen
  BY DEF DoneInv
<1> DEFINE Kept == CompletedMeansDone' /\ FlightOpen'
<1>s. ASSUME UNCHANGED campaigns, FlightStays, NEW S \in SUBSET Send,
             SetRows(S, "cancelled") \/ SetRows(S, "skipped") \/ UNCHANGED sends
      PROVE  Kept
  BY <1>s, SameCampaigns DEF SendStatus
<1>u. ASSUME UNCHANGED <<campaigns, sends>>, FlightStays PROVE Kept
  BY <1>u, <1>s
<1>1. CASE TickStart \/ CompleteAfterPoll \/ Finish
  <2>1. CompleteFinished /\ UNCHANGED sends /\ pc' \notin InFlight
    BY <1>1 DEF TickStart, CompleteAfterPoll, CompleteAndGo, Finish, Rest, InFlight
  <2> QED BY <2>1, CompletingKeeps
<1>2. CASE PollInboxes
  <2>1. FlightStays /\ UNCHANGED campaigns
    BY <1>0, <1>2, HandleMailLegal
       DEF PollInboxes, HandleMail, storeVars, ReplyEvent, UnsubscribeEvent,
           AutoReply, BounceLead, ReplyMember, ReplyRows, DomainRows,
           DomainMembers, UnsubscribeBlacklist, BounceMember, BounceRows,
           BounceEvent
  <2>2. \E S \in SUBSET Send : SetRows(S, "cancelled") \/ SetRows(S, "skipped")
                                 \/ UNCHANGED sends
    <3>1. CASE ReplyRows
      BY <3>1 DEF ReplyRows, Either, WithStatus
    <3>2. CASE DomainRows
      BY <3>2 DEF DomainRows, Either, WithStatus, OfCampaign
    <3>3. CASE UnsubscribeBlacklist
      BY <3>3 DEF UnsubscribeBlacklist, Either, Blacklisted, WithStatus
    <3>4. CASE BounceRows
      BY <3>4 DEF BounceRows, Either, WithStatus
    <3>5. CASE UNCHANGED sends
      BY <3>5
    <3> QED
      BY <1>2, <3>1, <3>2, <3>3, <3>4, <3>5
         DEF PollInboxes, HandleMail, storeVars, ReplyEvent, UnsubscribeEvent,
             AutoReply, BounceLead, ReplyMember, DomainMembers, BounceMember,
             BounceEvent
  <2> QED BY <2>1, <2>2, <1>s
<1>3. CASE LoadAccounts \/ PollDone \/ RebalanceAll \/ LoadSends
  BY <1>0, <1>3, <1>u, TickFrameLegal
     DEF LoadAccounts, PollDone, RebalanceAll, LoadSends, storeVars
<1>4. ASSUME NEW s \in Send, SkipStale(s) \/ Defer(s) \/ CannotLoad(s) PROVE Kept
  <2>1. UNCHANGED <<sends, campaigns>> /\ FlightStays
    BY <1>4 DEF SkipStale, Defer, CannotLoad, Reach, storeVars, FlightStays, InFlight
  <2> QED BY <2>1, <1>u
<1>5. ASSUME NEW s \in Send, PickUp(s) PROVE Kept
  <2>1. /\ UNCHANGED <<sends, campaigns>> /\ cur' = s
        /\ campaigns[CampaignOf[s]] = "active"
    BY <1>5 DEF PickUp, StillDue, storeVars
  <2>2. FlightOpen'
    BY <2>1 DEF FlightOpen, Final
  <2>3. StaysDone
    BY <2>1 DEF StaysDone
  <2> QED BY <2>2, <2>3, StaysDoneKeeps
<1>6. CASE Refuse \/ Accept \/ AcceptUnknown
  <2>1. /\ UNCHANGED <<sends, campaigns, cur>> /\ pc \in InFlight
    BY <1>6 DEF Refuse, Accept, AcceptUnknown, storeVars, tickVars, InFlight
  <2>2. FlightOpen'
    BY <1>0, <2>1 DEF FlightOpen
  <2>3. StaysDone
    BY <2>1 DEF StaysDone
  <2> QED BY <2>2, <2>3, StaysDoneKeeps
<1>7. CASE Suppress
  <2>1. FlightStays
    BY <1>7 DEF Suppress, FlightStays, InFlight
  <2>2. Peers(cur) \cap WithStatus("pending") \in SUBSET Send
    BY DEF WithStatus
  <2> QED BY <1>7, <2>1, <2>2, <1>s DEF Suppress
<1>8. CASE MarkFailed
  <2>1. /\ pc \in InFlight /\ pc' \notin InFlight /\ UNCHANGED campaigns
        /\ SetRows({cur}, "failed") \/ UNCHANGED sends
    BY <1>8 DEF MarkFailed, Either, InFlight
  <2>2. StaysDone
    BY <1>0, <2>1 DEF StaysDone, FlightOpen, SetRows
  <2> QED BY <2>1, <2>2, StaysDoneKeeps DEF FlightOpen
<1>9. CASE MarkSent
  <2>1. /\ pc' \notin InFlight /\ UNCHANGED campaigns
        /\ SetRows({cur}, "sent") \/ UNCHANGED sends
    BY <1>9 DEF MarkSent, Either, InFlight
  <2>2. StaysDone
    BY <1>0, <2>1 DEF StaysDone, SetRows
  <2> QED BY <2>1, <2>2, StaysDoneKeeps DEF FlightOpen
<1>10. CASE SentEvent \/ Backfill \/ Settle
  <2>1. UNCHANGED <<sends, campaigns>> /\ FlightStays
    BY <1>10 DEF SentEvent, Backfill, Settle, storeVars, FlightStays, InFlight
  <2> QED BY <2>1, <1>u
<1> QED
  BY <1>1, <1>2, <1>3, <1>4, <1>5, <1>6, <1>7, <1>8, <1>9, <1>10
     DEF TickStep, SendLoop

LEMMA InitDone == Init => DoneInv
BY InitType DEF Init, StoreInit, OnlyUsed, FlightOpen, InFlight, DoneInv,
   CompletedMeansDone

LEMMA NextDone ==
  ASSUME "dry_run" \notin Commands
  PROVE  DoneInv /\ [Next]_vars => DoneInv'
<1> SUFFICES ASSUME DoneInv, [Next]_vars PROVE CompletedMeansDone' /\ FlightOpen'
  BY NextType, UsedStep DEF DoneInv
<1>1. CASE OperatorStep
  BY <1>1, OperatorDone
<1>2. CASE TickStep
  BY <1>2, TickDone
<1>3. CASE MailArrives \/ Stop \/ UNCHANGED vars
  <2>1. FlightStays \/ pc' \notin InFlight
    BY <1>3 DEF MailArrives, Arrive, Stop, Rest, vars, storeVars, tickVars,
       FlightStays, InFlight
  <2>2. UNCHANGED <<sends, campaigns>>
    BY <1>3 DEF MailArrives, Arrive, Stop, vars, storeVars
  <2>3. StaysDone
    BY <2>2 DEF StaysDone
  <2> QED BY <2>1, <2>2, <2>3, StaysDoneKeeps, FlightOpenKept DEF FlightOpen
<1>4. ~DryRunTick
  BY DEF DryRunTick, DryRunCompletes, DryRunFails
<1> QED BY <1>1, <1>2, <1>3, <1>4 DEF Next

\* Unless a dry run falls into a tick, a campaign that completed has nothing
\* left to send and, if it completed without failures, no failed row: neither
\* retry nor the resumes, nor a send that fails while its campaign is paused
\* or resumed, leave a row behind a campaign no tick looks at.
THEOREM CompletedIsDone ==
  ASSUME "dry_run" \notin Commands
  PROVE  Spec => []CompletedMeansDone
<1>1. DoneInv => CompletedMeansDone
  BY DEF DoneInv
<1> QED BY <1>1, InitDone, NextDone, PTL DEF Spec

-----------------------------------------------------------------------------
(* What the steps do to rows, memberships and messages as long as every     *)
(* statement takes effect.                                                  *)

\* No row comes back to pending, and no membership back to active.
NothingBack == \A s \in Send : sends'[s] = "pending" => sends[s] = "pending"

MembersStop ==
  \A c \in Campaign, l \in Lead :
    members'[c][l] = "active" => members[c][l] = "active"

\* A step that handles no message and brings nothing back.
Elsewhere ==
  /\ UNCHANGED <<leads, recorded>>
  /\ NothingBack /\ MembersStop
  /\ \/ UNCHANGED <<pc, msg>>
     \/ pc \notin HandlerPc /\ pc' \notin HandlerPc

LEMMA RowsOnlyStop ==
  ASSUME NEW S, NEW st, SetRows(S, st), st # "pending"
  PROVE  NothingBack
BY DEF SetRows, NothingBack

LEMMA MembersOnlyStop ==
  ASSUME NEW C, NEW L, NEW st, SetMembers(C, L, "active", st)
  PROVE  MembersStop
BY DEF SetMembers, MembersStop

LEMMA BlacklistedStops ==
  ASSUME NEW L, Blacklisted(L)
  PROVE  NothingBack /\ MembersStop
BY RowsOnlyStop, MembersOnlyStop DEF Blacklisted

\* A step that fails a statement is over the bound of the theorems here.
LEMMA Calm ==
  ASSUME TypeOK, faults' = 0
  PROVE  ~Fault
BY DEF TypeOK, InboxTypeOK, Fault

\* With neither lead resume nor retry, only account resume restores rows.
LEMMA OperatorStops ==
  ASSUME OnlyUsed, TypeOK, OperatorStep,
         "resume_lead" \notin Commands, "retry" \notin Commands
  PROVE  /\ MembersStop
         /\ UNCHANGED <<pc, msg, recorded, faults>>
         /\ \/ NothingBack
            \/ \E a \in Account : ResumeAccount(a)
<1>1. UNCHANGED <<pc, msg, recorded, faults>>
  BY DEF OperatorStep, inboxVars
<1>m. MembersStop \/ members' # members
  BY DEF MembersStop
<1>n. NothingBack \/ sends' # sends
  BY DEF NothingBack
<1>2. CASE QuietCommand
  <2>1. ASSUME NEW l \in Lead, PauseLead(l) PROVE NothingBack /\ MembersStop
    BY <2>1, RowsOnlyStop, MembersOnlyStop DEF PauseLead
  <2>2. ASSUME NEW l \in Lead, ResumeLead(l) PROVE FALSE
    BY <2>2 DEF ResumeLead, End, OnlyUsed
  <2>3. ASSUME NEW c \in Campaign, NEW l \in Lead, RemoveLeadFromCampaign(c, l)
        PROVE NothingBack /\ MembersStop
    <3>1. NothingBack
      BY <2>3, RowsOnlyStop DEF RemoveLeadFromCampaign
    <3>2. MembersStop
      BY <2>3 DEF RemoveLeadFromCampaign, MembersStop, TypeOK, StoreTypeOK
    <3> QED BY <3>1, <3>2
  <2>4. ASSUME NEW a \in Account, PauseAccount(a) \/ RemoveAccount(a)
        PROVE NothingBack /\ MembersStop
    BY <2>4, <1>m, RowsOnlyStop DEF PauseAccount, RemoveAccount
  <2>5. ASSUME UNCHANGED <<sends, members>> PROVE NothingBack /\ MembersStop
    BY <2>5, <1>m, <1>n
  <2> QED
    BY <1>1, <1>2, <2>1, <2>2, <2>3, <2>4, <2>5, BlacklistedStops
       DEF QuietCommand, BlacklistLead, BlacklistDomain, Begin, ResumeLeadCheck,
           RemoveLeadCheck, PauseAccountCheck, ResumeAccountCheck,
           CampaignStateCheck, SendNowCheck
<1>3. ASSUME NEW a \in Account, ResumeAccount(a) PROVE MembersStop
  BY <1>3, <1>m DEF ResumeAccount
<1>4. CASE ~QuietCommand
  BY <1>1, <1>3, <1>4, <1>m, <1>n DEF OperatorStep, CampaignStateTransition,
     SendNowCampaign, RetryCampaign, Issue
<1> QED BY <1>2, <1>4

\* The steps of the tick outside its inbox handling.
LEMMA TickElsewhere ==
  ASSUME TypeOK, TickStep, ~PollInboxes, faults' = 0
  PROVE  Elsewhere
<1>0. ~Fault
  BY Calm
<1>p. UNCHANGED <<leads, recorded>> /\ pc \notin HandlerPc /\ pc' \notin HandlerPc
  BY DEF TickStep, TickStart, LoadAccounts, PollDone, CompleteAfterPoll,
     CompleteAndGo, RebalanceAll, LoadSends, Finish, Rest, SendLoop, SkipStale,
     Defer, CannotLoad, PickUp, Reach, Refuse, Suppress, Accept, AcceptUnknown,
     MarkFailed, MarkSent, SentEvent, Backfill, Settle, storeVars, inboxVars,
     HandlerPc
<1>m. UNCHANGED members => MembersStop
  BY DEF MembersStop
<1>n. UNCHANGED sends => NothingBack
  BY DEF NothingBack
<1>1. CASE Suppress
  <2>1. NothingBack
    BY <1>1, RowsOnlyStop DEF Suppress
  <2>2. MembersStop
    BY <1>1 DEF Suppress, MembersStop, TypeOK, StoreTypeOK
  <2> QED BY <1>p, <2>1, <2>2 DEF Elsewhere
<1>2. CASE MarkFailed \/ MarkSent
  <2>1. NothingBack
    BY <1>2, <1>n, RowsOnlyStop DEF MarkFailed, MarkSent, Either
  <2>2. UNCHANGED members
    BY <1>2 DEF MarkFailed, MarkSent
  <2> QED BY <1>m, <1>p, <2>1, <2>2 DEF Elsewhere
<1>3. CASE ~(Suppress \/ MarkFailed \/ MarkSent)
  <2>1. UNCHANGED <<sends, members>>
    BY <1>3 DEF TickStep, TickStart, LoadAccounts, PollDone, CompleteAfterPoll,
       CompleteAndGo, RebalanceAll, LoadSends, Finish, SendLoop, SkipStale,
       Defer, CannotLoad, PickUp, Refuse, Accept, AcceptUnknown, SentEvent,
       Backfill, Settle, storeVars
  <2> QED BY <1>m, <1>n, <1>p, <2>1 DEF Elsewhere
<1> QED BY <1>1, <1>2, <1>3

\* What a step can be while nothing has failed.
LEMMA CalmSteps ==
  ASSUME TypeOK, [Next]_vars, faults' = 0
  PROVE  faults = 0 /\ (OperatorStep \/ PollInboxes \/ Elsewhere)
<1>0. ~Fault
  BY Calm
<1>1. CASE OperatorStep
  BY <1>1 DEF OperatorStep
<1>2. CASE PollInboxes
  BY <1>0, <1>2 DEF PollInboxes, HandleMail, ReplyEvent, UnsubscribeEvent,
     AutoReply, BounceLead, ReplyMember, ReplyRows, DomainRows, DomainMembers,
     UnsubscribeBlacklist, BounceMember, BounceRows, BounceEvent, RecordEvent,
     Either
<1>3. CASE TickStep /\ ~PollInboxes
  <2>1. Elsewhere
    BY <1>3, TickElsewhere
  <2>2. UNCHANGED faults
    BY <1>0, <1>3 DEF TickStep, TickStart, LoadAccounts, PollDone,
       CompleteAfterPoll, CompleteAndGo, RebalanceAll, LoadSends, Finish,
       SendLoop, SkipStale, Defer, CannotLoad, PickUp, Refuse, Suppress, Accept,
       AcceptUnknown, MarkFailed, MarkSent, SentEvent, Backfill, Settle, Either
  <2> QED BY <2>1, <2>2
<1>4. CASE MailArrives \/ DryRunTick \/ UNCHANGED vars
  <2>1. UNCHANGED <<leads, members, recorded, pc, msg, faults>>
    BY <1>4 DEF MailArrives, Arrive, DryRunTick, DryRunCompletes, DryRunFails,
       vars, storeVars, inboxVars
  <2>2. NothingBack
    BY <1>4, RowsOnlyStop DEF MailArrives, Arrive, DryRunTick, DryRunCompletes,
       DryRunFails, vars, storeVars, NothingBack
  <2> QED BY <2>1, <2>2 DEF Elsewhere, MembersStop
<1>5. ~Stop
  BY <1>0 DEF Stop
<1> QED BY <1>1, <1>2, <1>3, <1>4, <1>5 DEF Next

-----------------------------------------------------------------------------
(* Suppressed leads. *)

QuietInv == TypeOK /\ OnlyUsed /\ (faults = 0 => SuppressedLeadIsQuiet)

\* The statements that record a bounce of l are under way.
Recording(l) == pc \in {"bounce_member", "bounce_rows"} /\ LeadFor(msg) = l

\* Nothing of the lead is pending, or it need not be.
LeadQuiet(l) == leads[l] # "active" /\ ~Recording(l) => OfLead(l) \cap Pending = {}

LEMMA QuietLeads == SuppressedLeadIsQuiet <=> \A l \in Lead : LeadQuiet(l)
BY DEF SuppressedLeadIsQuiet, LeadQuiet, Recording

LEMMA QuietKept ==
  ASSUME NEW l \in Lead, LeadQuiet(l), leads'[l] = leads[l], NothingBack,
         Recording(l) => Recording(l)'
  PROVE  LeadQuiet(l)'
BY DEF LeadQuiet, NothingBack, OfLead, Pending, WithStatus

LEMMA OperatorQuiet ==
  ASSUME QuietInv, OperatorStep, faults = 0, NEW l \in Lead,
         "resume_lead" \notin Commands, "retry" \notin Commands
  PROVE  LeadQuiet(l)'
<1>0. TypeOK /\ OnlyUsed /\ LeadQuiet(l)
  BY QuietLeads DEF QuietInv
<1>1. UNCHANGED <<pc, msg>>
  BY DEF OperatorStep, inboxVars
<1>2. Recording(l) => Recording(l)'
  BY <1>1 DEF Recording
<1>3. ASSUME NEW a \in Account, ResumeAccount(a) PROVE LeadQuiet(l)'
  <2>1. /\ UNCHANGED leads
        /\ \A s \in Send : sends'[s] = "pending"
             => sends[s] = "pending" \/ leads[LeadOf[s]] = "active"
    BY <1>3 DEF ResumeAccount, SetRows
  <2> QED BY <1>0, <1>2, <2>1 DEF LeadQuiet, OfLead, Pending, WithStatus
<1>4. ASSUME NEW L, Blacklisted(L) PROVE LeadQuiet(l)'
  <2>1. CASE l \in L
    <3>1. \A s \in OfLead(l) : sends'[s] # "pending"
      BY <1>4, <2>1 DEF Blacklisted, SetRows, OfLead, WithStatus
    <3> QED BY <3>1 DEF LeadQuiet, OfLead, Pending, WithStatus
  <2>2. CASE l \notin L
    <3>1. leads'[l] = leads[l]
      BY <1>4, <2>2 DEF Blacklisted
    <3> QED BY <1>0, <1>2, <1>4, <3>1, BlacklistedStops, QuietKept
  <2> QED BY <2>1, <2>2
<1>5. CASE UNCHANGED leads
  <2>1. NothingBack \/ \E a \in Account : ResumeAccount(a)
    BY <1>0, OperatorStops
  <2> QED BY <1>0, <1>2, <1>3, <1>5, <2>1, QuietKept
<1>6. UNCHANGED leads \/ \E L : Blacklisted(L)
  BY DEF OperatorStep, QuietCommand, PauseLead, ResumeLeadCheck, ResumeLead,
     BlacklistLead, BlacklistDomain, RemoveLeadCheck, RemoveLeadFromCampaign,
     PauseAccountCheck, PauseAccount, ResumeAccountCheck, RemoveAccount,
     CampaignStateCheck, SendNowCheck, Begin, ResumeAccount,
     CampaignStateTransition, SendNowCampaign, RetryCampaign
<1> QED BY <1>4, <1>5, <1>6

LEMMA MailQuiet ==
  ASSUME QuietInv, PollInboxes, faults = 0, faults' = 0, NEW l \in Lead
  PROVE  LeadQuiet(l)'
<1>0. TypeOK /\ LeadQuiet(l) /\ ~Fault
  BY Calm, QuietLeads DEF QuietInv
<1>h. (msg \in Msg) <=> (pc \in HandlerPc)
  BY <1>0 DEF TypeOK
<1>n. UNCHANGED sends => NothingBack
  BY DEF NothingBack
<1>1. ASSUME NEW m \in Msg, BounceLead(m) PROVE LeadQuiet(l)'
  <2>1. /\ leads' = [leads EXCEPT ![LeadFor(m)] = "bounced"] /\ UNCHANGED sends
        /\ pc = "poll" /\ pc' = "bounce_member" /\ msg' = m
    BY <1>0, <1>1 DEF BounceLead, Either
  <2>2. CASE LeadFor(m) = l
    BY <2>1, <2>2 DEF LeadQuiet, Recording, LeadFor
  <2>3. CASE LeadFor(m) # l
    <3>1. leads'[l] = leads[l] /\ ~Recording(l)
      BY <1>0, <2>1, <2>3 DEF Recording, TypeOK, StoreTypeOK
    <3> QED BY <1>0, <1>n, <2>1, <3>1, QuietKept
  <2> QED BY <2>2, <2>3
<1>2. CASE BounceRows
  <2>1. /\ SetRows(OfLead(LeadFor(msg)) \cap WithStatus("pending"), "skipped")
        /\ UNCHANGED leads
    BY <1>0, <1>2 DEF BounceRows, Either
  <2>2. CASE LeadFor(msg) = l
    <3>1. \A s \in OfLead(l) : sends'[s] # "pending"
      BY <2>1, <2>2 DEF SetRows, OfLead, WithStatus
    <3> QED BY <3>1 DEF LeadQuiet, OfLead, Pending, WithStatus
  <2>3. CASE LeadFor(msg) # l
    <3>1. ~Recording(l)
      BY <2>3 DEF Recording
    <3> QED BY <1>0, <2>1, <3>1, RowsOnlyStop, QuietKept
  <2> QED BY <2>2, <2>3
<1>3. CASE BounceMember
  <2>1. UNCHANGED <<leads, sends, msg>> /\ pc' = "bounce_rows"
    BY <1>3 DEF BounceMember, inboxVars
  <2>2. Recording(l) => Recording(l)'
    BY <2>1 DEF Recording, LeadFor
  <2> QED BY <1>0, <1>n, <2>1, <2>2, QuietKept
<1>4. CASE UnsubscribeBlacklist
  <2>1. ~Recording(l)
    BY <1>4 DEF UnsubscribeBlacklist, Recording
  <2>2. CASE UNCHANGED <<leads, sends>>
    BY <1>0, <1>n, <2>1, <2>2, QuietKept
  <2>3. CASE Blacklisted({LeadFor(msg)})
    <3>1. CASE LeadFor(msg) = l
      <4>1. \A s \in OfLead(l) : sends'[s] # "pending"
        BY <2>3, <3>1 DEF Blacklisted, SetRows, OfLead, WithStatus
      <4> QED BY <4>1 DEF LeadQuiet, OfLead, Pending, WithStatus
    <3>2. CASE LeadFor(msg) # l
      <4>1. leads'[l] = leads[l]
        BY <2>3, <3>2 DEF Blacklisted
      <4> QED BY <1>0, <2>1, <2>3, <4>1, BlacklistedStops, QuietKept
    <3> QED BY <3>1, <3>2
  <2> QED BY <1>4, <2>2, <2>3 DEF UnsubscribeBlacklist, Either
<1>5. CASE ReplyRows \/ DomainRows
  <2>1. NothingBack /\ UNCHANGED leads /\ ~Recording(l)
    BY <1>5, <1>n, RowsOnlyStop DEF ReplyRows, DomainRows, Either, Recording
  <2> QED BY <1>0, <2>1, QuietKept
<1>6. ASSUME NEW m \in Msg, ReplyEvent(m) \/ UnsubscribeEvent(m) \/ AutoReply(m)
      PROVE LeadQuiet(l)'
  <2>1. UNCHANGED <<leads, sends>> /\ ~Recording(l)
    BY <1>6 DEF ReplyEvent, UnsubscribeEvent, AutoReply, TakeUp, storeVars,
       Recording
  <2> QED BY <1>0, <1>n, <2>1, QuietKept
<1>7. CASE ReplyMember \/ DomainMembers \/ BounceEvent
  <2>1. UNCHANGED <<leads, sends>> /\ ~Recording(l)
    BY <1>7 DEF ReplyMember, DomainMembers, BounceEvent, storeVars, Recording
  <2> QED BY <1>0, <1>n, <2>1, QuietKept
<1> QED
  BY <1>1, <1>2, <1>3, <1>4, <1>5, <1>6, <1>7 DEF PollInboxes, HandleMail

LEMMA NextQuiet ==
  ASSUME "resume_lead" \notin Commands, "retry" \notin Commands
  PROVE  QuietInv /\ [Next]_vars => QuietInv'
<1> SUFFICES ASSUME QuietInv, [Next]_vars, faults' = 0, NEW l \in Lead
             PROVE  LeadQuiet(l)'
  BY NextType, UsedStep, QuietLeads DEF QuietInv, SuppressedLeadIsQuiet,
     LeadQuiet, Recording
<1>0. TypeOK
  BY DEF QuietInv
<1>1. faults = 0 /\ (OperatorStep \/ PollInboxes \/ Elsewhere)
  BY <1>0, CalmSteps
<1>2. CASE Elsewhere
  <2>1. Recording(l) => Recording(l)'
    BY <1>2 DEF Elsewhere, Recording, HandlerPc, LeadFor
  <2>2. LeadQuiet(l)
    BY <1>1, QuietLeads DEF QuietInv
  <2> QED BY <1>2, <2>1, <2>2, QuietKept DEF Elsewhere
<1> QED BY <1>1, <1>2, OperatorQuiet, MailQuiet

\* As long as no statement of a handler fails, a blacklisted or bounced lead
\* has no pending row in any campaign, whatever the sender, the other commands
\* and account resume do: only lead resume, which checks the lead before its
\* transaction, and retry, which does not check it, can give it one.
THEOREM SuppressedStaysQuiet ==
  ASSUME "resume_lead" \notin Commands, "retry" \notin Commands
  PROVE  Spec => [](faults = 0 => SuppressedLeadIsQuiet)
<1>1. Init => QuietInv
  BY InitType DEF Init, StoreInit, OnlyUsed, QuietInv, SuppressedLeadIsQuiet
<1>2. QuietInv => (faults = 0 => SuppressedLeadIsQuiet)
  BY DEF QuietInv
<1> QED BY <1>1, <1>2, NextQuiet, PTL DEF Spec

-----------------------------------------------------------------------------
(* Answered conversations and their colleagues. *)

ReplyPc == {"reply_member", "reply_rows", "domain_rows", "domain_members"}

\* The handler under way is the one for the kind of the message in hand.
KindFits == msg \in Msg => (Kind[msg] = "reply" <=> pc \in ReplyPc)

\* The conversation of a reply that was recorded: its membership is no
\* longer active once the second statement took effect, which keeps account
\* resume off its rows, and its rows are stopped once the third did.
AnswerHeld(m) ==
  /\ msg # m \/ pc # "reply_member"
       => members[CampaignFor(m)][LeadFor(m)] # "active"
  /\ msg # m \/ pc \in {"domain_rows", "domain_members"}
       => Peers(ReplyTo[m]) \cap Pending = {}

\* The rows of its colleagues are stopped by the fourth.
ColleaguesOf(m) == {s \in OfCampaign(CampaignFor(m)) : LeadOf[s] \in Colleagues(m)}

ColleaguesHeld(m) ==
  CampaignFor(m) \in StopOnDomainReply /\ (msg # m \/ pc = "domain_members")
    => ColleaguesOf(m) \cap Pending = {}

Replies == {m \in recorded : Kind[m] = "reply"}

LEMMA KindStep == TypeOK /\ KindFits /\ [Next]_vars => KindFits'
<1> SUFFICES ASSUME TypeOK, KindFits, [Next]_vars PROVE KindFits'
  OBVIOUS
<1>0. /\ (msg \in Msg) <=> (pc \in HandlerPc) /\ NoMsg \notin Msg
      /\ (msg' \in Msg) <=> (pc' \in HandlerPc)
  BY NextType, MessagesAssumption DEF TypeOK
<1>1. CASE PollInboxes
  BY <1>0, <1>1 DEF PollInboxes, HandleMail, KindFits, ReplyPc, HandlerPc,
     ReplyEvent, UnsubscribeEvent, AutoReply, TakeUp, BounceLead, ReplyMember,
     ReplyRows, DomainRows, DomainMembers, UnsubscribeBlacklist, BounceMember,
     BounceRows, BounceEvent, inboxVars
<1>2. CASE TickStep /\ ~PollInboxes
  <2>1. pc' \notin HandlerPc
    BY <1>2 DEF TickStep, TickStart, LoadAccounts, PollDone, CompleteAfterPoll,
       CompleteAndGo, RebalanceAll, LoadSends, Finish, Rest, SendLoop, SkipStale,
       Defer, CannotLoad, PickUp, Reach, Refuse, Suppress, Accept, AcceptUnknown,
       MarkFailed, MarkSent, SentEvent, Backfill, Settle, HandlerPc
  <2> QED BY <1>0, <2>1 DEF KindFits
<1>3. CASE OperatorStep \/ MailArrives \/ DryRunTick \/ UNCHANGED vars
  BY <1>3 DEF OperatorStep, MailArrives, Arrive, DryRunTick, DryRunCompletes,
     DryRunFails, vars, inboxVars, KindFits
<1>4. CASE Stop
  <2>1. msg' \notin Msg
    BY <1>4, MessagesAssumption DEF Stop, Rest
  <2> QED BY <2>1 DEF KindFits
<1> QED BY <1>1, <1>2, <1>3, <1>4 DEF Next

\* A step that leaves the messages alone.
LEMMA AnswerKept ==
  ASSUME NEW m \in Msg, AnswerHeld(m), MembersStop,
         UNCHANGED <<pc, msg>> \/ (msg # m /\ msg' # m),
         \A s \in Peers(ReplyTo[m]) : sends'[s] = "pending" => sends[s] = "pending"
  PROVE  AnswerHeld(m)'
<1>1. CampaignFor(m) \in Campaign /\ LeadFor(m) \in Lead
  BY RowsAssumption, MessagesAssumption DEF CampaignFor, LeadFor
<1>2. members'[CampaignFor(m)][LeadFor(m)] = "active"
        => members[CampaignFor(m)][LeadFor(m)] = "active"
  BY <1>1 DEF MembersStop
<1> QED BY <1>2 DEF AnswerHeld, Pending, WithStatus, Peers, Conversation,
           OfCampaign, CampaignFor, LeadFor

LEMMA ColleaguesKept ==
  ASSUME NEW m \in Msg, ColleaguesHeld(m), NothingBack,
         UNCHANGED <<pc, msg>> \/ (msg # m /\ msg' # m)
  PROVE  ColleaguesHeld(m)'
BY DEF ColleaguesHeld, NothingBack, Pending, WithStatus, ColleaguesOf,
   OfCampaign, CampaignFor, Colleagues, LeadFor

\* Account resume looks at the membership.
LEMMA ResumeSparesAnswered ==
  ASSUME NEW m \in Msg, NEW a, ResumeAccount(a),
         members[CampaignFor(m)][LeadFor(m)] # "active"
  PROVE  \A s \in Peers(ReplyTo[m]) : sends'[s] = "pending" => sends[s] = "pending"
BY DEF ResumeAccount, SetRows, Peers, Conversation, OfCampaign, OfLead,
   CampaignFor, LeadFor

\* What the handlers do to an answered conversation.
LEMMA MailAnswers ==
  ASSUME TypeOK, KindFits, PollInboxes, ~Fault, NEW m \in Msg, Kind[m] = "reply",
         m \in recorded => AnswerHeld(m), m \in recorded'
  PROVE  AnswerHeld(m)'
<1>h. (msg \in Msg) <=> (pc \in HandlerPc)
  BY DEF TypeOK
<1>n. NoMsg # m
  BY MessagesAssumption
<1>1. CASE ReplyEvent(m)
  BY <1>1 DEF ReplyEvent, AnswerHeld
<1>2. ASSUME m \in recorded, msg # m, msg' # m, NothingBack, MembersStop
      PROVE AnswerHeld(m)'
  <2>1. \A s \in Peers(ReplyTo[m]) : sends'[s] = "pending" => sends[s] = "pending"
    BY <1>2 DEF NothingBack, Peers, Conversation, OfCampaign
  <2> QED BY <1>2, <2>1, AnswerKept
<1>3. ASSUME NEW n \in Msg, n # m,
             ReplyEvent(n) \/ UnsubscribeEvent(n) \/ AutoReply(n) \/ BounceLead(n)
      PROVE AnswerHeld(m)'
  <2>1. UNCHANGED <<sends, members>> /\ m \in recorded
    BY <1>3 DEF ReplyEvent, UnsubscribeEvent, AutoReply, BounceLead, RecordEvent,
       Either, storeVars
  <2>2. msg # m /\ msg' # m
    BY <1>3, <1>h, <1>n DEF ReplyEvent, UnsubscribeEvent, AutoReply, BounceLead,
       TakeUp, HandlerPc
  <2> QED BY <1>2, <2>1, <2>2 DEF NothingBack, MembersStop
<1>4. ~(UnsubscribeEvent(m) \/ AutoReply(m) \/ BounceLead(m))
  BY DEF UnsubscribeEvent, AutoReply, BounceLead, TakeUp
<1>5. CASE ReplyMember
  <2>1. /\ SetMembers({CampaignFor(msg)}, {LeadFor(msg)}, "active", "replied")
        /\ UNCHANGED <<sends, msg, recorded>> /\ pc = "reply_member"
        /\ pc' = "reply_rows"
    BY <1>5 DEF ReplyMember, Either, inboxVars
  <2>2. CASE msg = m
    <3>1. CampaignFor(m) \in Campaign /\ LeadFor(m) \in Lead
      BY RowsAssumption, MessagesAssumption DEF CampaignFor, LeadFor
    <3>2. members'[CampaignFor(m)][LeadFor(m)] # "active"
      BY <2>1, <2>2, <3>1 DEF SetMembers
    <3> QED BY <2>1, <2>2, <3>2 DEF AnswerHeld, CampaignFor, LeadFor
  <2>3. CASE msg # m
    BY <1>2, <2>1, <2>3, MembersOnlyStop DEF NothingBack
  <2> QED BY <2>2, <2>3
<1>6. CASE ReplyRows
  <2>1. /\ SetRows(Peers(ReplyTo[msg]) \cap WithStatus("pending"), "skipped")
        /\ UNCHANGED <<members, recorded>> /\ pc = "reply_rows"
        /\ msg' \in {msg, NoMsg}
    BY <1>6 DEF ReplyRows, Either
  <2>2. CASE msg = m
    <3>1. \A s \in Peers(ReplyTo[m]) : sends'[s] # "pending"
      BY <2>1, <2>2 DEF SetRows, WithStatus, Peers, Conversation, OfCampaign
    <3> QED BY <2>1, <2>2, <3>1 DEF AnswerHeld, CampaignFor, LeadFor, Pending,
            WithStatus, Peers, Conversation, OfCampaign
  <2>3. CASE msg # m
    BY <1>2, <1>n, <2>1, <2>3, RowsOnlyStop DEF MembersStop
  <2> QED BY <2>2, <2>3
<1>7. CASE DomainRows \/ DomainMembers
  <2>1. /\ NothingBack /\ MembersStop /\ UNCHANGED recorded
        /\ pc \in {"domain_rows", "domain_members"}
    BY <1>7, RowsOnlyStop, MembersOnlyStop
       DEF DomainRows, DomainMembers, Either, inboxVars, NothingBack, MembersStop
  <2>2. AnswerHeld(m)
    BY <2>1
  <2>3. CampaignFor(m) \in Campaign /\ LeadFor(m) \in Lead
    BY RowsAssumption, MessagesAssumption DEF CampaignFor, LeadFor
  <2>4. members'[CampaignFor(m)][LeadFor(m)] # "active"
    BY <2>1, <2>2, <2>3 DEF AnswerHeld, MembersStop
  <2>5. Peers(ReplyTo[m]) \cap Pending' = {}
    BY <2>1, <2>2 DEF AnswerHeld, NothingBack, Pending, WithStatus
  <2> QED BY <2>4, <2>5 DEF AnswerHeld, CampaignFor, LeadFor, Peers,
          Conversation, OfCampaign
<1>8. CASE UnsubscribeBlacklist \/ BounceMember \/ BounceRows \/ BounceEvent
  <2>1. pc \notin ReplyPc /\ pc \in HandlerPc
    BY <1>8 DEF UnsubscribeBlacklist, BounceMember, BounceRows, BounceEvent,
       ReplyPc, HandlerPc
  <2>2. msg # m /\ msg' # m
    BY <1>8, <1>n, <2>1 DEF KindFits, UnsubscribeBlacklist, BounceMember,
       BounceRows, BounceEvent, inboxVars
  <2>3. m \in recorded
    BY <1>8, <2>2 DEF UnsubscribeBlacklist, BounceMember, BounceRows,
       BounceEvent, RecordEvent, Either, inboxVars
  <2>4. NothingBack
    BY <1>8, RowsOnlyStop, BlacklistedStops DEF UnsubscribeBlacklist,
       BounceMember, BounceRows, BounceEvent, Either, storeVars, NothingBack
  <2>5. MembersStop
    BY <1>8, MembersOnlyStop, BlacklistedStops DEF UnsubscribeBlacklist,
       BounceMember, BounceRows, BounceEvent, Either, storeVars, MembersStop
  <2> QED BY <1>2, <2>2, <2>3, <2>4, <2>5
<1> QED
  BY <1>1, <1>3, <1>4, <1>5, <1>6, <1>7, <1>8 DEF PollInboxes, HandleMail

RepliedInv ==
  TypeOK /\ OnlyUsed /\ KindFits /\ (faults = 0 => \A m \in Replies : AnswerHeld(m))

LEMMA NextReplied ==
  ASSUME "resume_lead" \notin Commands, "retry" \notin Commands
  PROVE  RepliedInv /\ [Next]_vars => RepliedInv'
<1> SUFFICES ASSUME RepliedInv, [Next]_vars, faults' = 0, NEW m \in Replies'
             PROVE  AnswerHeld(m)'
  BY NextType, UsedStep, KindStep DEF RepliedInv
<1>0. TypeOK /\ OnlyUsed /\ KindFits /\ ~Fault
  BY Calm DEF RepliedInv
<1>1. faults = 0 /\ (OperatorStep \/ PollInboxes \/ Elsewhere)
  BY <1>0, CalmSteps
<1>2. /\ m \in Msg /\ Kind[m] = "reply" /\ m \in recorded'
      /\ m \in recorded => AnswerHeld(m)
  BY <1>1, NextType DEF RepliedInv, Replies, TypeOK, InboxTypeOK
<1>3. CASE PollInboxes
  BY <1>0, <1>2, <1>3, MailAnswers
<1>4. CASE Elsewhere
  <2>1. UNCHANGED <<pc, msg>> \/ (msg # m /\ msg' # m)
    BY <1>0, <1>2, <1>4, NextType DEF Elsewhere, TypeOK
  <2>2. AnswerHeld(m)
    BY <1>2, <1>4 DEF Elsewhere
  <2>3. \A s \in Peers(ReplyTo[m]) : sends'[s] = "pending" => sends[s] = "pending"
    BY <1>4 DEF Elsewhere, NothingBack, Peers, Conversation, OfCampaign
  <2> QED BY <1>2, <1>4, <2>1, <2>2, <2>3, AnswerKept DEF Elsewhere
<1>5. CASE OperatorStep
  <2>1. /\ MembersStop /\ UNCHANGED <<pc, msg, recorded>>
        /\ NothingBack \/ \E a \in Account : ResumeAccount(a)
    BY <1>0, <1>5, OperatorStops
  <2>2. AnswerHeld(m)
    BY <1>2, <2>1
  <2>3. CASE NothingBack
    <3>1. \A s \in Peers(ReplyTo[m]) : sends'[s] = "pending" => sends[s] = "pending"
      BY <2>3 DEF NothingBack, Peers, Conversation, OfCampaign
    <3> QED BY <1>2, <2>1, <2>2, <3>1, AnswerKept
  <2>4. ASSUME NEW a \in Account, ResumeAccount(a) PROVE AnswerHeld(m)'
    <3>1. CASE members[CampaignFor(m)][LeadFor(m)] # "active"
      BY <1>2, <2>1, <2>2, <2>4, <3>1, ResumeSparesAnswered, AnswerKept
    <3>2. CASE members[CampaignFor(m)][LeadFor(m)] = "active"
      BY <2>1, <2>2, <3>2 DEF AnswerHeld
    <3> QED BY <3>1, <3>2
  <2> QED BY <2>1, <2>3, <2>4
<1> QED BY <1>1, <1>3, <1>4, <1>5

\* As long as no statement of a handler fails, a conversation whose reply has
\* been handled never has a pending row again, whatever accounts are paused
\* and resumed and whatever else is answered, bounced or blacklisted: only
\* lead resume and retry, which ask for nobody's answer, can give it one.
THEOREM AnsweredStaysQuiet ==
  ASSUME "resume_lead" \notin Commands, "retry" \notin Commands
  PROVE  Spec => [](faults = 0 => RepliedStaysQuiet)
<1>1. Init => RepliedInv
  BY InitType, MessagesAssumption DEF Init, StoreInit, InboxInit, OnlyUsed,
     KindFits, Replies, RepliedInv
<1>2. RepliedInv => (faults = 0 => RepliedStaysQuiet)
  BY DEF RepliedInv, RepliedStaysQuiet, Replies, AnswerHeld
<1> QED BY <1>1, <1>2, NextReplied, PTL DEF Spec

\* With none of the three restoring commands, rows only leave pending.
LEMMA OnlyStops ==
  ASSUME TypeOK, OnlyUsed, OperatorStep,
         {"resume_lead", "resume_account", "retry"} \cap Commands = {}
  PROVE  NothingBack /\ UNCHANGED <<pc, msg, recorded, faults>>
<1>1. ASSUME NEW a \in Account, ResumeAccount(a) PROVE FALSE
  BY <1>1 DEF ResumeAccount, End, OnlyUsed
<1> QED BY <1>1, OperatorStops

\* Handling a message brings no row back.
LEMMA MailStops ==
  ASSUME PollInboxes
  PROVE  NothingBack
<1>1. UNCHANGED sends => NothingBack
  BY DEF NothingBack
<1> QED BY <1>1, RowsOnlyStop, BlacklistedStops
        DEF PollInboxes, HandleMail, ReplyEvent, UnsubscribeEvent, AutoReply,
            BounceLead, ReplyMember, ReplyRows, DomainRows, DomainMembers,
            UnsubscribeBlacklist, BounceMember, BounceRows, BounceEvent, Either,
            storeVars

LEMMA MailColleagues ==
  ASSUME TypeOK, KindFits, PollInboxes, ~Fault, NEW m \in Msg, Kind[m] = "reply",
         m \in recorded => ColleaguesHeld(m), m \in recorded'
  PROVE  ColleaguesHeld(m)'
<1>h. (msg \in Msg) <=> (pc \in HandlerPc)
  BY DEF TypeOK
<1>n. NoMsg # m /\ NothingBack
  BY MessagesAssumption, MailStops
<1>1. CASE ReplyEvent(m)
  BY <1>1 DEF ReplyEvent, ColleaguesHeld
<1>2. ASSUME m \in recorded, msg # m, msg' # m PROVE ColleaguesHeld(m)'
  BY <1>2, <1>n, ColleaguesKept
<1>3. ASSUME NEW n \in Msg, n # m,
             ReplyEvent(n) \/ UnsubscribeEvent(n) \/ AutoReply(n) \/ BounceLead(n)
      PROVE ColleaguesHeld(m)'
  <2>1. m \in recorded
    BY <1>3 DEF ReplyEvent, UnsubscribeEvent, AutoReply, BounceLead, RecordEvent,
       Either
  <2>2. msg # m /\ msg' # m
    BY <1>3, <1>h, <1>n DEF ReplyEvent, UnsubscribeEvent, AutoReply, BounceLead,
       TakeUp, HandlerPc
  <2> QED BY <1>2, <2>1, <2>2
<1>4. ~(UnsubscribeEvent(m) \/ AutoReply(m) \/ BounceLead(m))
  BY DEF UnsubscribeEvent, AutoReply, BounceLead, TakeUp
<1>5. CASE ReplyMember \/ ReplyRows
  <2>1. /\ UNCHANGED recorded /\ pc' # "domain_members"
        /\ pc # "domain_members"
        /\ \/ msg' = msg
           \/ msg' = NoMsg /\ CampaignFor(msg) \notin StopOnDomainReply
    BY <1>5 DEF ReplyMember, ReplyRows, inboxVars
  <2>2. CASE msg = m
    BY <2>1, <2>2 DEF ColleaguesHeld, CampaignFor
  <2>3. CASE msg # m
    BY <1>2, <1>n, <2>1, <2>3
  <2> QED BY <2>2, <2>3
<1>6. CASE DomainRows
  <2>1. /\ SetRows({s \in OfCampaign(CampaignFor(msg)) \cap WithStatus("pending") :
                      LeadOf[s] \in Colleagues(msg)}, "skipped")
        /\ UNCHANGED <<msg, recorded>>
    BY <1>6 DEF DomainRows, Either, inboxVars
  <2>2. CASE msg = m
    <3>1. \A s \in ColleaguesOf(m) : sends'[s] # "pending"
      BY <2>1, <2>2 DEF SetRows, WithStatus, ColleaguesOf, OfCampaign
    <3> QED BY <3>1 DEF ColleaguesHeld, Pending, WithStatus, ColleaguesOf,
            OfCampaign, CampaignFor, Colleagues, LeadFor
  <2>3. CASE msg # m
    BY <1>2, <2>1, <2>3
  <2> QED BY <2>2, <2>3
<1>7. CASE DomainMembers
  <2>1. UNCHANGED recorded /\ pc = "domain_members"
    BY <1>7 DEF DomainMembers
  <2>2. CampaignFor(m) \in StopOnDomainReply => ColleaguesOf(m) \cap Pending = {}
    BY <2>1 DEF ColleaguesHeld
  <2> QED BY <1>n, <2>2 DEF ColleaguesHeld, NothingBack, Pending, WithStatus,
          ColleaguesOf, OfCampaign, CampaignFor, Colleagues, LeadFor
<1>8. CASE UnsubscribeBlacklist \/ BounceMember \/ BounceRows \/ BounceEvent
  <2>1. pc \notin ReplyPc /\ pc \in HandlerPc
    BY <1>8 DEF UnsubscribeBlacklist, BounceMember, BounceRows, BounceEvent,
       ReplyPc, HandlerPc
  <2>2. msg # m /\ msg' # m
    BY <1>8, <1>n, <2>1 DEF KindFits, UnsubscribeBlacklist, BounceMember,
       BounceRows, BounceEvent, inboxVars
  <2>3. m \in recorded
    BY <1>8, <2>2 DEF UnsubscribeBlacklist, BounceMember, BounceRows,
       BounceEvent, RecordEvent, Either, inboxVars
  <2> QED BY <1>2, <2>2, <2>3
<1> QED
  BY <1>1, <1>3, <1>4, <1>5, <1>6, <1>7, <1>8 DEF PollInboxes, HandleMail

DomainInv ==
  TypeOK /\ OnlyUsed /\ KindFits
    /\ (faults = 0 => \A m \in Replies : ColleaguesHeld(m))

LEMMA NextDomain ==
  ASSUME {"resume_lead", "resume_account", "retry"} \cap Commands = {}
  PROVE  DomainInv /\ [Next]_vars => DomainInv'
<1> SUFFICES ASSUME DomainInv, [Next]_vars, faults' = 0, NEW m \in Replies'
             PROVE  ColleaguesHeld(m)'
  BY NextType, UsedStep, KindStep DEF DomainInv
<1>0. TypeOK /\ OnlyUsed /\ KindFits /\ ~Fault
  BY Calm DEF DomainInv
<1>1. faults = 0 /\ (OperatorStep \/ PollInboxes \/ Elsewhere)
  BY <1>0, CalmSteps
<1>2. /\ m \in Msg /\ Kind[m] = "reply" /\ m \in recorded'
      /\ m \in recorded => ColleaguesHeld(m)
  BY <1>1, NextType DEF DomainInv, Replies, TypeOK, InboxTypeOK
<1>3. CASE PollInboxes
  BY <1>0, <1>2, <1>3, MailColleagues
<1>4. CASE Elsewhere \/ OperatorStep
  <2>1. UNCHANGED recorded /\ NothingBack
    BY <1>0, <1>4, OnlyStops DEF Elsewhere
  <2>2. UNCHANGED <<pc, msg>> \/ (msg # m /\ msg' # m)
    BY <1>0, <1>2, <1>4, OnlyStops, NextType DEF Elsewhere, TypeOK
  <2> QED BY <1>2, <2>1, <2>2, ColleaguesKept
<1> QED BY <1>1, <1>3, <1>4

\* As long as no statement of a handler fails, a reply handled in a campaign
\* with stop_on_domain_reply leaves no colleague of the lead with a pending
\* row in that campaign, while the sender runs and other mail is handled: only
\* lead resume, account resume and retry can give one back.
THEOREM ColleaguesStop ==
  ASSUME {"resume_lead", "resume_account", "retry"} \cap Commands = {}
  PROVE  Spec => [](faults = 0 => DomainReplyStops)
<1>1. Init => DomainInv
  BY InitType, MessagesAssumption DEF Init, StoreInit, InboxInit, OnlyUsed,
     KindFits, Replies, DomainInv
<1>2. DomainInv => (faults = 0 => DomainReplyStops)
  BY DEF DomainInv, DomainReplyStops, Replies, ColleaguesHeld, ColleaguesOf
<1> QED BY <1>1, <1>2, NextDomain, PTL DEF Spec

-----------------------------------------------------------------------------
(* Threads. *)

\* A follow-up that can still go out, or is going out, carries the thread of
\* its first step if that one was sent, unless the tick is about to see to it.
Attempting(s) == pc \in {"attempt", "mark"} /\ cur = s

ThreadHeld(s, t) ==
  StepOf[s] > 1 /\ StepOf[t] = 1 /\ (sends[s] = "pending" \/ Attempting(s))
      /\ sends[t] = "sent"
    => s \in threaded \/ (pc \in {"event", "thread"} /\ cur = t)

ThreadInv ==
  TypeOK /\ OnlyUsed
    /\ (faults = 0 => \A s \in Send : \A t \in Peers(s) : ThreadHeld(s, t))

\* A step that neither sends, picks up nor threads.
Unthreaded ==
  /\ NothingBack
  /\ \A s \in Send : sends'[s] = "sent" => sends[s] = "sent"
  /\ threaded \subseteq threaded'
  /\ \A s \in Send : Attempting(s)' => Attempting(s)
  /\ pc \in {"event", "thread"} => pc' \in {"event", "thread"} /\ cur' = cur

LEMMA ThreadKept ==
  ASSUME NEW s \in Send, NEW t \in Send, ThreadHeld(s, t), Unthreaded
  PROVE  ThreadHeld(s, t)'
BY DEF ThreadHeld, Unthreaded, NothingBack

\* All but four steps of the send loop are of that kind.
LEMMA StepThreads ==
  ASSUME TypeOK, OnlyUsed, [Next]_vars, faults' = 0,
         {"resume_lead", "resume_account", "retry"} \cap Commands = {}
  PROVE  \/ Unthreaded
         \/ MarkSent \/ SentEvent \/ Backfill \/ \E s \in Send : PickUp(s)
<1>0. ~Fault
  BY Calm
<1>1. ASSUME NothingBack, SentRowsStay, UNCHANGED threaded, UNCHANGED <<pc, cur>>
      PROVE Unthreaded
  BY <1>1 DEF Unthreaded, SentRowsStay, Attempting
<1>2. ASSUME NothingBack, SentRowsStay, UNCHANGED threaded,
             pc \notin {"event", "thread"}, pc' \notin {"attempt", "mark"}
      PROVE Unthreaded
  BY <1>2 DEF Unthreaded, SentRowsStay, Attempting
<1>n. UNCHANGED sends => NothingBack /\ SentRowsStay
  BY DEF NothingBack, SentRowsStay
<1>3. CASE OperatorStep
  BY <1>1, <1>3, OnlyStops, OperatorStepLegal DEF OperatorStep, sentVars, tickVars
<1>4. CASE PollInboxes
  <2>1. UNCHANGED threaded /\ pc \in HandlerPc \cup {"poll"} /\ pc' \in HandlerPc \cup {"poll"}
    BY <1>4 DEF PollInboxes, HandleMail, ReplyEvent, UnsubscribeEvent, AutoReply,
       TakeUp, BounceLead, ReplyMember, ReplyRows, DomainRows, DomainMembers,
       UnsubscribeBlacklist, BounceMember, BounceRows, BounceEvent, sentVars,
       HandlerPc
  <2>2. NothingBack /\ SentRowsStay
    BY <1>4, MailStops, TickFrameLegal
  <2> QED BY <1>2, <2>1, <2>2 DEF HandlerPc
<1>5. CASE \/ TickStart \/ LoadAccounts \/ PollDone \/ CompleteAfterPoll
           \/ RebalanceAll \/ LoadSends \/ Finish
  <2>1. /\ UNCHANGED <<sends, threaded>>
        /\ pc \notin {"event", "thread"} /\ pc' \notin {"attempt", "mark"}
    BY <1>5 DEF TickStart, LoadAccounts, PollDone, CompleteAfterPoll,
       CompleteAndGo, RebalanceAll, LoadSends, Finish, Rest, storeVars, sentVars
  <2> QED BY <1>2, <1>n, <2>1
<1>6. CASE \/ \E s \in Send : SkipStale(s) \/ Defer(s) \/ CannotLoad(s)
           \/ Refuse \/ Settle \/ AcceptUnknown
  <2>1. /\ UNCHANGED <<sends, threaded>>
        /\ pc \notin {"event", "thread"} /\ pc' \notin {"attempt", "mark"}
    BY <1>6 DEF SkipStale, Defer, CannotLoad, Reach, Refuse, Settle,
       AcceptUnknown, storeVars, sentVars
  <2> QED BY <1>2, <1>n, <2>1
<1>7. CASE Suppress \/ MarkFailed
  <2>1. /\ UNCHANGED threaded
        /\ pc \notin {"event", "thread"} /\ pc' \notin {"attempt", "mark"}
    BY <1>7 DEF Suppress, MarkFailed, sentVars
  <2>2. NothingBack
    BY <1>7, <1>n, RowsOnlyStop DEF Suppress, MarkFailed, Either
  <2>3. \A s \in Send : sends'[s] = "sent" => sends[s] = "sent"
    BY <1>7 DEF Suppress, MarkFailed, Either, SetRows
  <2> QED BY <2>1, <2>2, <2>3 DEF Unthreaded, Attempting
<1>8. CASE Accept
  <2>1. UNCHANGED <<sends, threaded, cur>> /\ pc = "attempt" /\ pc' = "mark"
    BY <1>8 DEF Accept, storeVars, tickVars
  <2> QED BY <2>1, <1>n DEF Unthreaded, SentRowsStay, Attempting
<1>9. CASE MailArrives \/ UNCHANGED vars
  <2>1. UNCHANGED <<sends, threaded, pc, cur>>
    BY <1>9 DEF MailArrives, Arrive, vars, storeVars, sentVars, tickVars
  <2> QED BY <1>1, <1>n, <2>1
<1>10. CASE DryRunTick
  <2>1. UNCHANGED <<threaded, pc, cur>>
    BY <1>10 DEF DryRunTick, DryRunCompletes, DryRunFails, sentVars, tickVars
  <2>2. NothingBack
    BY <1>10, <1>n, RowsOnlyStop DEF DryRunTick, DryRunCompletes, DryRunFails
  <2>3. SentRowsStay
    BY <1>10, <1>n, StopRowsLegal DEF DryRunTick, DryRunCompletes, DryRunFails,
       WithStatus
  <2> QED BY <1>1, <2>1, <2>2, <2>3
<1>11. ~Stop
  BY <1>0 DEF Stop
<1> QED
  BY <1>3, <1>4, <1>5, <1>6, <1>7, <1>8, <1>9, <1>10, <1>11
     DEF Next, TickStep, SendLoop

LEMMA NextThread ==
  ASSUME {"resume_lead", "resume_account", "retry"} \cap Commands = {}
  PROVE  ThreadInv /\ [Next]_vars => ThreadInv'
<1> SUFFICES ASSUME ThreadInv, [Next]_vars, faults' = 0,
                    NEW s \in Send, NEW t \in Peers(s)
             PROVE  ThreadHeld(s, t)'
  BY NextType, UsedStep DEF ThreadInv, Peers, Conversation, OfCampaign, OfLead
<1>0. TypeOK /\ OnlyUsed /\ ~Fault
  BY Calm DEF ThreadInv
<1>1. ThreadHeld(s, t) /\ t \in Send
  BY <1>0, CalmSteps DEF ThreadInv, Peers, Conversation, OfCampaign
<1>2. CASE Unthreaded
  BY <1>1, <1>2, ThreadKept
<1>3. ASSUME NEW u \in Send, PickUp(u) PROVE ThreadHeld(s, t)'
  <2>1. /\ UNCHANGED <<sends, threaded>> /\ sends[u] = "pending" /\ cur' = u
        /\ pc = "loop"
    BY <1>3 DEF PickUp, Reach, StillDue, storeVars, sentVars
  <2> QED BY <1>1, <2>1 DEF ThreadHeld, Attempting
<1>4. CASE MarkSent
  <2>1. /\ SetRows({cur}, "sent") /\ UNCHANGED <<threaded, cur>>
        /\ pc = "mark" /\ pc' = "event"
    BY <1>0, <1>4 DEF MarkSent, Either, sentVars
  <2>2. CASE cur = t
    BY <2>1, <2>2 DEF ThreadHeld
  <2>3. CASE cur # t
    BY <1>1, <2>1, <2>3 DEF ThreadHeld, Attempting, SetRows
  <2> QED BY <2>2, <2>3
<1>5. CASE SentEvent
  <2>1. /\ UNCHANGED <<sends, threaded, cur>> /\ pc = "event"
        /\ pc' = IF StepOf[cur] = 1 THEN "thread" ELSE "settle"
    BY <1>5 DEF SentEvent, storeVars, tickVars
  <2> QED BY <1>1, <2>1 DEF ThreadHeld, Attempting
<1>6. CASE Backfill
  <2>1. /\ threaded' = threaded \cup (After(cur) \cap WithStatus("pending"))
        /\ UNCHANGED sends /\ pc = "thread" /\ pc' = "settle"
    BY <1>0, <1>6 DEF Backfill, Either, storeVars
  <2>2. CASE cur = t
    <3>1. StepOf[s] > 1 /\ StepOf[t] = 1 => s \in After(t)
      BY RowsAssumption, <1>1 DEF After, Peers, Conversation, OfCampaign, OfLead
    <3> QED BY <2>1, <2>2, <3>1 DEF ThreadHeld, Attempting, WithStatus
  <2>3. CASE cur # t
    BY <1>1, <2>1, <2>3 DEF ThreadHeld, Attempting
  <2> QED BY <2>2, <2>3
<1> QED BY <1>0, <1>2, <1>3, <1>4, <1>5, <1>6, StepThreads

\* As long as no statement fails, a follow-up whose first step went out never
\* leaves outside its thread, whichever commands fall between the delivery of
\* the first step, its two UPDATEs and the backfill, and however many ticks
\* later it leaves: unless a command brings back follow-ups that were
\* cancelled while the backfill ran.
THEOREM FollowUpsStayThreaded ==
  ASSUME {"resume_lead", "resume_account", "retry"} \cap Commands = {}
  PROVE  Spec => [](faults = 0 => FollowUpsThreaded)
<1>1. Init => ThreadInv
  BY InitType, MessagesAssumption DEF Init, StoreInit, OnlyUsed, ThreadInv,
     ThreadHeld, Peers, Conversation, OfCampaign
<1>2. ThreadInv => (faults = 0 => FollowUpsThreaded)
  BY DEF ThreadInv, FollowUpsThreaded, ThreadHeld, Attempting, TypeOK, Sending
<1> QED BY <1>1, <1>2, NextThread, PTL DEF Spec
=============================================================================
