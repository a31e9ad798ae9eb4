--------------------------- MODULE ScheduleProofs ---------------------------
(* Steps leave in order, and a step waits for its delay after the step      *)
(* before it, for all values of the constants.                              *)
(*                                                                          *)
(* Both hold as long as every statement took effect (faults = 0) and nobody *)
(* types lead resume or campaign retry, which bring back rows that the loop *)
(* has dealt with; all other commands may come in between.                  *)
EXTENDS TickProofs

\* The send loop is under way.
Looping == pc = "loop" \/ pc \in Sending

\* Nothing is left over from an earlier loop.
LoopFresh == ~Looping => todo = {} /\ passed = {} /\ sentNow = {}

\* Rows that wait, or would if their account were resumed.
Live ==
  {s \in Send :
     \/ sends[s] = "pending"
     \/ sends[s] = "cancelled" /\ members[CampaignOf[s]][LeadOf[s]] = "active"}

\* The rows of a conversation are cancelled and restored together.
Apart == \A s \in Send : \A t \in Peers(s) : ~(sends[s] = "pending" /\ sends[t] = "cancelled")

\* What is loaded as due, is so with the steps before it.
DueInOrder ==
  pc = "load" /\ ~force => \A s \in due \cap Pending : Before(s) \cap Pending \subseteq due

\* A step still to be reached has no live step before it that the loop will
\* not reach first, has not gone past, and is not sending.
OrderHeld ==
  \A s \in todo :
    Before(s) \cap Live
      \subseteq todo \cup passed \cup (IF pc \in InFlight THEN {cur} ELSE {})

CurInOrder == pc \in InFlight => Before(cur) \cap Live \subseteq passed

\* A row this tick sent had nothing live before it either.
SentInOrder == \A x \in sentNow : Before(x) \cap Live \subseteq passed

\* Nobody resumes an account that was removed between the two halves of the
\* command.
NoneResumedRemoved == "resume_account" \notin Commands \/ "remove_account" \notin Commands

\* A campaign sends from the accounts of its waiting rows.
Rotated ==
  NoneResumedRemoved =>
    \A s \in Send : sends[s] = "pending" \/ "remove_account" \notin Commands
      => AccountOf[s] \in rotation[CampaignOf[s]]

\* Only a draft is being activated, and no draft paused or resumed.
DraftsKept ==
  \A i \in inFlight :
    /\ i.op = "activate" => i.on \in Campaign /\ campaigns[i.on] = "draft"
    /\ i.op \in {"pause_campaign", "resume_campaign"}
         => i.on \in Campaign /\ campaigns[i.on] # "draft"

\* The row just sent is before s, and the schedule is yet to hear of it.
Unsettled(s) == pc \in {"event", "thread", "settle"} /\ cur \in Before(s)

\* The loop may still send s, right after a step that this tick sent.
Hasty(s) ==
  /\ NoneResumedRemoved
  /\ ~force
  /\ Before(s) \cap passed = {}
  /\ LastSent(s) \cap sentNow # {}

DelayHeld ==
  \A s \in todo \cap due \cap Pending :
    Open(CampaignOf[s]) /\ Hasty(s) /\ ~Unsettled(s) => s \in NoDelay

CurDelayed == pc \in InFlight /\ Hasty(cur) => cur \in NoDelay

OrderInv == DueInOrder /\ OrderHeld /\ CurInOrder /\ SentInOrder

ScheduleInv ==
  IInv /\ OnlyUsed /\ LoopFresh /\ DraftsKept
    /\ (faults = 0 => Apart /\ OrderInv /\ Rotated /\ DelayHeld /\ CurDelayed)

-----------------------------------------------------------------------------
(* Conversations. *)

LEMMA PeersAgree ==
  ASSUME NEW s \in Send, NEW t \in Peers(s)
  PROVE  /\ t \in Send /\ s \in Peers(t) /\ Peers(t) = Peers(s)
         /\ CampaignOf[t] = CampaignOf[s] /\ AccountOf[t] = AccountOf[s]
BY RowsAssumption DEF Peers, Conversation, OfCampaign, OfLead

LEMMA BeforeIsThere ==
  ASSUME NEW s \in Send, NEW t \in Before(s)
  PROVE  /\ t \in Send /\ t \in Peers(s) /\ t # s
         /\ CampaignOf[t] = CampaignOf[s] /\ AccountOf[t] = AccountOf[s]
         /\ Before(t) \subseteq Before(s)
<1>1. t \in Peers(s) /\ StepOf[t] < StepOf[s]
  BY DEF Before
<1>2. StepOf[t] \in Nat /\ StepOf[s] \in Nat /\ t \in Send
  BY <1>1, PeersAgree, RowsAssumption
<1>3. t # s
  BY <1>1, <1>2
<1>4. ASSUME NEW u \in Before(t) PROVE u \in Before(s)
  <2>1. u \in Peers(s) /\ StepOf[u] < StepOf[t]
    BY <1>1, <1>4, PeersAgree DEF Before
  <2>2. StepOf[u] \in Nat
    BY <2>1, PeersAgree, RowsAssumption
  <2> QED BY <1>1, <1>2, <2>1, <2>2 DEF Before
<1> QED BY <1>1, <1>2, <1>3, <1>4, PeersAgree

LEMMA PendingThere ==
  Pending \subseteq Send /\ \A s \in Send : s \in Pending <=> sends[s] = "pending"
BY DEF Pending, WithStatus

LEMMA FewerPending ==
  ASSUME NothingBack
  PROVE  Pending' \subseteq Pending
BY DEF Pending, WithStatus, NothingBack

LEMMA PendingLive == Pending \subseteq Live /\ Pending' \subseteq Live'
BY DEF Pending, WithStatus, Live

-----------------------------------------------------------------------------
(* Rows of a conversation are cancelled and restored together.              *)

\* A row is cancelled with whatever of its conversation waits.
Whole ==
  \A s \in Send : sends'[s] = "cancelled" /\ sends[s] # "cancelled"
    => sends[s] = "pending" /\ \A t \in Peers(s) : sends'[t] # "pending"

LEMMA LiveKept ==
  ASSUME NothingBack, MembersStop, Whole
  PROVE  Live' \subseteq Live
BY RowsAssumption DEF Live, NothingBack, MembersStop, Whole

LEMMA ApartKept ==
  ASSUME Apart, NothingBack, Whole
  PROVE  Apart'
<1>1. SUFFICES ASSUME NEW s \in Send, NEW t \in Peers(s), sends'[s] = "pending",
                      sends'[t] = "cancelled"
               PROVE  FALSE
  BY DEF Apart, Peers, Conversation, OfCampaign, OfLead
<1>2. t \in Send /\ s \in Peers(t) /\ sends[s] = "pending"
  BY <1>1, PeersAgree DEF NothingBack
<1> QED BY <1>1, <1>2 DEF Apart, Whole

LEMMA OtherwiseWhole ==
  ASSUME NEW S, NEW st, SetRows(S, st), st # "cancelled"
  PROVE  Whole
BY DEF SetRows, Whole

LEMMA CancelledWhole ==
  ASSUME NEW S \in SUBSET Pending, SetRows(S, "cancelled"),
         \A s \in S : Peers(s) \cap Pending \subseteq S
  PROVE  Whole
<1>1. SUFFICES ASSUME NEW s \in Send, sends'[s] = "cancelled", sends[s] # "cancelled"
               PROVE  sends[s] = "pending" /\ \A t \in Peers(s) : sends'[t] # "pending"
  BY DEF Whole
<1>2. s \in S /\ sends[s] = "pending"
  BY <1>1 DEF SetRows, Pending, WithStatus
<1>3. ASSUME NEW t \in Peers(s), sends'[t] = "pending" PROVE FALSE
  <2>1. t \in Send
    BY PeersAgree
  <2>2. t \notin S /\ sends[t] = "pending"
    BY <1>3, <2>1 DEF SetRows
  <2> QED BY <1>2, <2>1, <2>2 DEF Pending, WithStatus
<1> QED BY <1>2, <1>3

LEMMA BlacklistedWhole ==
  ASSUME NEW L, Blacklisted(L)
  PROVE  Whole
<1> DEFINE S == {s \in WithStatus("pending") : LeadOf[s] \in L}
<1>1. S \subseteq Pending /\ SetRows(S, "cancelled")
  BY DEF Blacklisted, Pending
<1>2. \A s \in S : Peers(s) \cap Pending \subseteq S
  BY DEF Peers, Conversation, OfCampaign, OfLead, Pending, WithStatus
<1> QED BY <1>1, <1>2, CancelledWhole

\* Account resume restores rows of conversations that are cancelled, and of
\* memberships that are active.
LEMMA ResumedTogether ==
  ASSUME NEW a \in Account, ResumeAccount(a)
  PROVE  /\ Live' \subseteq Live
         /\ Apart => Apart'
         /\ \A s \in Pending' : s \in Pending \/ (AccountOf[s] = a /\ Open(CampaignOf[s])')
<1> DEFINE Restored(s) ==
      /\ AccountOf[s] = a /\ sends[s] = "cancelled" /\ Open(CampaignOf[s])
      /\ members[CampaignOf[s]][LeadOf[s]] = "active" /\ leads[LeadOf[s]] = "active"
<1>1. \A s \in Send : sends'[s] = IF Restored(s) THEN "pending" ELSE sends[s]
  BY DEF ResumeAccount, SetRows, OfAccount, WithStatus
<1>2. UNCHANGED <<members, campaigns>>
  BY DEF ResumeAccount
<1>3. Live' \subseteq Live
  BY <1>1, <1>2 DEF Live
<1>4. ASSUME Apart, NEW s \in Send, NEW t \in Peers(s), sends'[s] = "pending",
             sends'[t] = "cancelled"
      PROVE  FALSE
  <2>1. t \in Send /\ CampaignOf[t] = CampaignOf[s] /\ AccountOf[t] = AccountOf[s]
        /\ LeadOf[t] = LeadOf[s]
    BY <1>4, PeersAgree DEF Peers, Conversation, OfLead
  <2>2. sends[t] = "cancelled" /\ ~Restored(t)
    BY <1>1, <1>4, <2>1
  <2>3. sends[s] # "pending"
    BY <1>4, <2>2 DEF Apart
  <2>4. Restored(s)
    BY <1>1, <1>4, <2>3
  <2> QED BY <2>1, <2>2, <2>4
<1>5. \A s \in Pending' : s \in Pending \/ (AccountOf[s] = a /\ Open(CampaignOf[s])')
  BY <1>1, <1>2 DEF Pending, WithStatus, Open
<1>6. Apart => Apart'
  BY <1>4 DEF Apart, Peers, Conversation, OfCampaign, OfLead
<1> QED BY <1>3, <1>5, <1>6

LEMMA OperatorWhole ==
  ASSUME OnlyUsed, OperatorStep,
         "resume_lead" \notin Commands, "retry" \notin Commands
  PROVE  Whole
<1>u. ASSUME UNCHANGED sends PROVE Whole
  BY <1>u DEF Whole
<1>1. ASSUME NEW l \in Lead, PauseLead(l) PROVE Whole
  <2>1. \A s \in OfLead(l) \cap Pending : Peers(s) \cap Pending \subseteq OfLead(l) \cap Pending
    BY DEF Peers, Conversation, OfCampaign, OfLead
  <2> QED BY <1>1, <2>1, CancelledWhole DEF PauseLead, Pending
<1>2. ASSUME NEW l \in Lead, ResumeLead(l) PROVE FALSE
  BY <1>2 DEF ResumeLead, End, OnlyUsed
<1>3. ASSUME NEW c \in Campaign, NEW l \in Lead, RemoveLeadFromCampaign(c, l) PROVE Whole
  <2>1. \A s \in Conversation(c, l) \cap Pending :
          Peers(s) \cap Pending \subseteq Conversation(c, l) \cap Pending
    BY DEF Peers, Conversation, OfCampaign, OfLead
  <2> QED BY <1>3, <2>1, CancelledWhole DEF RemoveLeadFromCampaign, Pending
<1>4. ASSUME NEW a \in Account, PauseAccount(a) \/ RemoveAccount(a) PROVE Whole
  <2>1. \A s \in OfAccount(a) \cap Pending :
          Peers(s) \cap Pending \subseteq OfAccount(a) \cap Pending
    BY PeersAgree DEF OfAccount, Pending, WithStatus
  <2> QED BY <1>4, <2>1, CancelledWhole DEF PauseAccount, RemoveAccount, Pending
<1>5. ASSUME NEW a \in Account, ResumeAccount(a) PROVE Whole
  BY <1>5, OtherwiseWhole DEF ResumeAccount
<1>6. CASE QuietCommand
  BY <1>u, <1>1, <1>2, <1>3, <1>4, <1>6, BlacklistedWhole
     DEF QuietCommand, BlacklistLead, BlacklistDomain, Begin, ResumeLeadCheck,
         RemoveLeadCheck, PauseAccountCheck, ResumeAccountCheck,
         CampaignStateCheck, SendNowCheck
<1>7. CASE ~QuietCommand
  BY <1>u, <1>5, <1>7 DEF OperatorStep, CampaignStateTransition,
     SendNowCampaign, RetryCampaign, Issue
<1> QED BY <1>6, <1>7

LEMMA MailWhole ==
  ASSUME TypeOK, PollInboxes
  PROVE  Whole /\ MembersStop
<1>1. UNCHANGED sends => Whole
  BY DEF Whole
<1>2. UNCHANGED members => MembersStop
  BY DEF MembersStop
<1>3. Whole
  BY <1>1, OtherwiseWhole, BlacklistedWhole
     DEF PollInboxes, HandleMail, ReplyEvent, UnsubscribeEvent, AutoReply,
         BounceLead, ReplyMember, ReplyRows, DomainRows, DomainMembers,
         UnsubscribeBlacklist, BounceMember, BounceRows, BounceEvent, Either,
         storeVars
<1>4. MembersStop
  BY <1>2, MembersOnlyStop, BlacklistedStops
     DEF PollInboxes, HandleMail, ReplyEvent, UnsubscribeEvent, AutoReply,
         BounceLead, ReplyMember, ReplyRows, DomainRows, DomainMembers,
         UnsubscribeBlacklist, BounceMember, BounceRows, BounceEvent, Either,
         storeVars
<1> QED BY <1>3, <1>4

LEMMA ElsewhereWhole ==
  ASSUME TypeOK, [Next]_vars, ~OperatorStep, ~PollInboxes
  PROVE  Whole
<1>1. UNCHANGED sends => Whole
  BY DEF Whole
<1>2. CASE Suppress \/ MarkFailed \/ MarkSent \/ \E s \in Send : DryRunFails(s)
  BY <1>1, <1>2, OtherwiseWhole DEF Suppress, MarkFailed, MarkSent, DryRunFails, Either
<1>3. CASE ~(Suppress \/ MarkFailed \/ MarkSent \/ \E s \in Send : DryRunFails(s))
  <2>1. UNCHANGED sends
    BY <1>3 DEF Next, TickStep, TickStart, LoadAccounts, PollDone, CompleteAfterPoll,
       CompleteAndGo, RebalanceAll, LoadSends, Finish, SendLoop, SkipStale, Defer,
       CannotLoad, PickUp, Refuse, Accept, AcceptUnknown, SentEvent, Backfill,
       Settle, MailArrives, Arrive, Stop, DryRunTick, DryRunCompletes, vars, storeVars
  <2> QED BY <1>1, <2>1
<1> QED BY <1>2, <1>3

LEMMA CalmLive ==
  ASSUME TypeOK, OnlyUsed, [Next]_vars, faults' = 0,
         "resume_lead" \notin Commands, "retry" \notin Commands
  PROVE  Live' \subseteq Live /\ (Apart => Apart')
<1>1. ASSUME NEW a \in Account, ResumeAccount(a)
      PROVE  Live' \subseteq Live /\ (Apart => Apart')
  BY <1>1, ResumedTogether
<1>2. ASSUME NothingBack, MembersStop, Whole
      PROVE  Live' \subseteq Live /\ (Apart => Apart')
  BY <1>2, LiveKept, ApartKept
<1>3. CASE OperatorStep
  BY <1>1, <1>2, <1>3, OperatorStops, OperatorWhole
<1>4. CASE PollInboxes
  BY <1>2, <1>4, MailStops, MailWhole
<1>5. CASE ~OperatorStep /\ ~PollInboxes
  BY <1>2, <1>5, CalmSteps, ElsewhereWhole DEF Elsewhere
<1> QED BY <1>3, <1>4, <1>5

-----------------------------------------------------------------------------
(* What a rebalance does to what is due. *)

\* The rows of s that wait with it are rebalanced with it or not at all.
LEMMA RebalancedInOrder ==
  ASSUME NEW A, NEW was, Rebalanced(A, was), pc \in Clocked, ~force,
         \A s \in Pending' : s \in Pending \/ (AccountOf[s] \in A /\ Open(CampaignOf[s])'),
         \A s \in was \cap Pending : Before(s) \cap Pending \subseteq was
  PROVE  \A s \in due' \cap Pending' : Before(s) \cap Pending' \subseteq due'
<1> DEFINE scope == {s \in Send : /\ sends'[s] = "pending"
                                 /\ AccountOf[s] \in A
                                 /\ campaigns'[CampaignOf[s]] \in {"active", "draft"}}
<1>1. /\ due' \in {(was \ scope) \cup D : D \in SUBSET scope}
      /\ \A s \in scope \cap due' : Before(s) \cap scope \subseteq due'
  BY DEF Rebalanced
<1>2. SUFFICES ASSUME NEW s \in due' \cap Pending', NEW t \in Before(s) \cap Pending'
               PROVE  t \in due'
  OBVIOUS
<1>3. s \in Send /\ t \in Send /\ (t \in scope <=> s \in scope)
  BY <1>2, BeforeIsThere DEF Pending, WithStatus
<1>4. CASE s \in scope
  BY <1>1, <1>2, <1>3, <1>4
<1>5. CASE s \notin scope
  <2>1. s \in was
    BY <1>1, <1>2, <1>5
  <2>2. s \in Pending /\ t \in Pending
    BY <1>2, <1>3, <1>5 DEF Open, Pending, WithStatus
  <2>3. t \in was
    BY <1>2, <2>1, <2>2
  <2> QED BY <1>1, <1>3, <1>5, <2>3
<1> QED BY <1>4, <1>5

\* A step sent in this tick that is the last one sent before s is what the
\* rebalance anchors s at.
LEMMA LastSentAnchors ==
  ASSUME NEW s \in Pending', SentInOrder', Before(s) \cap passed' = {},
         NEW x \in LastSent(s)' \cap sentNow'
  PROVE  x \in Anchor(s, sends')
<1>1. s \in Send /\ sends'[s] = "pending"
  BY DEF Pending, WithStatus
<1>2. /\ x \in Before(s) /\ sends'[x] = "sent"
      /\ \A b \in Before(s) : sends'[b] = "sent" => b \notin After(x)
  <2>1. /\ x \in Before(s) \cap WithStatus("sent")'
        /\ After(x) \cap (Before(s) \cap WithStatus("sent")') = {}
    BY DEF LastSent
  <2>2. Before(s) \subseteq Send
    BY <1>1, BeforeIsThere
  <2> QED BY <2>1, <2>2 DEF WithStatus
<1>3. x \in Send /\ x \in Peers(s) /\ Before(x) \subseteq Before(s)
  BY <1>1, <1>2, BeforeIsThere
<1>4. \A t \in Before(x) : sends'[t] # "pending"
  <2>1. Before(x) \subseteq Send /\ Before(x) \cap Pending' \subseteq passed'
    BY <1>3, BeforeIsThere, PendingLive DEF SentInOrder
  <2> QED BY <1>3, <2>1 DEF Pending, WithStatus
<1>5. x \in SentPrefix(s, sends')
  BY <1>2, <1>3, <1>4 DEF SentPrefix
<1>6. ASSUME NEW b \in SentPrefix(s, sends'), b \in After(x) PROVE FALSE
  <2>1. /\ b \in Peers(s) /\ sends'[b] = "sent"
        /\ \A t \in Before(b) : sends'[t] # "pending"
    BY <1>6 DEF SentPrefix
  <2>2. b \in Send /\ s \in Peers(b) /\ StepOf[b] \in Nat /\ StepOf[s] \in Nat
    BY <1>1, <2>1, PeersAgree, RowsAssumption
  <2>3. b \notin Before(s)
    BY <1>2, <1>6, <2>1
  <2>4. StepOf[s] <= StepOf[b]
    BY <2>1, <2>2, <2>3 DEF Before
  <2>5. s \notin Before(b)
    BY <1>1, <2>1
  <2>6. StepOf[s] = StepOf[b]
    BY <2>2, <2>4, <2>5 DEF Before
  <2>7. s = b
    BY <1>1, <2>1, <2>2, <2>6, RowsAssumption
       DEF Peers, Conversation, OfCampaign, OfLead
  <2> QED BY <1>1, <2>1, <2>7
<1> QED BY <1>5, <1>6 DEF Anchor

\* So a rebalanced step that is due and would be hasty has no delay.
LEMMA RebalancedDelays ==
  ASSUME NEW A, NEW was, Rebalanced(A, was), pc \in Clocked, ~force,
         UNCHANGED sentNow, SentInOrder', NEW s \in due' \cap Pending', Hasty(s)'
  PROVE  \/ s \in NoDelay
         \/ s \in was /\ ~(AccountOf[s] \in A /\ Open(CampaignOf[s])')
<1> DEFINE scope == {r \in Send : /\ sends'[r] = "pending"
                                 /\ AccountOf[r] \in A
                                 /\ campaigns'[CampaignOf[r]] \in {"active", "draft"}}
<1>1. /\ due' \in {(was \ scope) \cup D : D \in SUBSET scope}
      /\ \A r \in scope \cap due' : Anchor(r, sends') \cap sentNow # {} => r \in NoDelay
  BY DEF Rebalanced
<1>2. CASE s \in scope
  <2>1. PICK x \in LastSent(s)' \cap sentNow' : TRUE
    BY DEF Hasty
  <2>2. x \in Anchor(s, sends')
    BY <2>1, LastSentAnchors DEF Hasty
  <2> QED BY <1>1, <1>2, <2>1, <2>2
<1>3. CASE s \notin scope
  <2>1. s \in was
    BY <1>1, <1>3
  <2>2. s \in Send /\ sends'[s] = "pending"
    BY DEF Pending, WithStatus
  <2> QED BY <1>3, <2>1, <2>2 DEF Open
<1> QED BY <1>2, <1>3

\* A step becomes hasty only when the tick sends another one.
LEMMA HastyStays ==
  ASSUME NEW s \in Send, SentRowsStay, UNCHANGED <<force, sentNow>>,
         passed \subseteq passed', Hasty(s)'
  PROVE  Hasty(s)
<1>1. WithStatus("sent")' = WithStatus("sent")
  BY DEF WithStatus, SentRowsStay
<1>2. LastSent(s)' = LastSent(s)
  BY <1>1 DEF LastSent
<1> QED BY <1>2 DEF Hasty

-----------------------------------------------------------------------------
(* The parts that do not depend on faults. *)

LEMMA FreshStep ==
  ASSUME LoopFresh, [Next]_vars
  PROVE  LoopFresh'
<1>1. CASE UNCHANGED <<pc, todo, passed, sentNow>>
  BY <1>1 DEF LoopFresh, Looping
<1>2. CASE OperatorStep \/ MailArrives \/ DryRunTick \/ UNCHANGED vars
  BY <1>1, <1>2 DEF OperatorStep, MailArrives, Arrive, DryRunTick,
     DryRunCompletes, DryRunFails, vars, tickVars
<1>3. CASE PollInboxes
  <2>1. UNCHANGED <<todo, passed, sentNow>> /\ pc \notin {"loop"} \cup Sending
    BY <1>3 DEF PollInboxes, HandleMail, ReplyEvent, UnsubscribeEvent, AutoReply,
       TakeUp, BounceLead, ReplyMember, ReplyRows, DomainRows, DomainMembers,
       UnsubscribeBlacklist, BounceMember, BounceRows, BounceEvent, tickVars,
       Sending
  <2> QED BY <2>1 DEF LoopFresh, Looping
<1>4. CASE Stop \/ Finish
  BY <1>4 DEF Stop, Finish, Rest, LoopFresh
<1>5. CASE TickStart \/ LoadAccounts \/ PollDone \/ CompleteAfterPoll \/ RebalanceAll
  <2>1. UNCHANGED <<todo, passed, sentNow>> /\ pc \notin {"loop"} \cup Sending
    BY <1>5 DEF TickStart, LoadAccounts, PollDone, CompleteAfterPoll,
       CompleteAndGo, RebalanceAll, tickVars, Sending
  <2> QED BY <2>1 DEF LoopFresh, Looping
<1>6. CASE LoadSends
  BY <1>6 DEF LoadSends, Rest, LoopFresh, Looping
<1>7. CASE SendLoop
  <2>1. pc' \in {"loop"} \cup Sending
    BY <1>7 DEF SendLoop, SkipStale, Defer, CannotLoad, PickUp, Reach, Refuse,
       Suppress, Accept, AcceptUnknown, MarkFailed, MarkSent, SentEvent,
       Backfill, Settle, Sending
  <2> QED BY <2>1 DEF LoopFresh, Looping
<1> QED BY <1>2, <1>3, <1>4, <1>5, <1>6, <1>7 DEF Next, TickStep

\* No campaign becomes a draft, and only its activation ends a draft.
DraftsStay == \A c \in Campaign : campaigns'[c] = "draft" <=> campaigns[c] = "draft"

LEMMA DraftsStayKeeps ==
  ASSUME DraftsKept, DraftsStay, inFlight' \subseteq inFlight
  PROVE  DraftsKept'
BY DEF DraftsKept, DraftsStay

LEMMA CompletingSparesDrafts ==
  ASSUME TypeOK, CompleteFinished
  PROVE  DraftsStay
BY DEF TypeOK, StoreTypeOK, CompleteFinished, Finished, DraftsStay

LEMMA BeginDrafts ==
  ASSUME DraftsKept, NEW op, NEW on, Begin(op, on),
         op = "activate" => on \in Campaign /\ campaigns[on] = "draft",
         op \in {"pause_campaign", "resume_campaign"}
           => on \in Campaign /\ campaigns[on] # "draft"
  PROVE  DraftsKept'
BY DEF DraftsKept, Begin

LEMMA TransitionDrafts ==
  ASSUME TypeOK, DraftsKept, NEW c \in Campaign, NEW tr \in Transition,
         CampaignStateTransition(c, tr)
  PROVE  DraftsKept'
<1> DEFINE done == [op |-> tr.op, on |-> c]
<1>1. /\ done \in inFlight /\ inFlight' = inFlight \ {done}
      /\ campaigns' = [campaigns EXCEPT ![c] = tr.to]
      /\ done.op = tr.op /\ done.on = c
  BY DEF CampaignStateTransition, End
<1>2. campaigns \in [Campaign -> CampaignStatus]
  BY DEF TypeOK, StoreTypeOK
<1>3. /\ tr.to # "draft"
      /\ tr.op \in {"activate", "pause_campaign", "resume_campaign"}
  BY DEF Transition
<1>4. SUFFICES ASSUME NEW i \in inFlight'
               PROVE  /\ i.op = "activate" => i.on \in Campaign /\ campaigns'[i.on] = "draft"
                      /\ i.op \in {"pause_campaign", "resume_campaign"}
                           => i.on \in Campaign /\ campaigns'[i.on] # "draft"
  BY DEF DraftsKept
<1>5. i \in inFlight /\ i # done
  BY <1>1, <1>4
<1>6. i = [op |-> i.op, on |-> i.on]
  BY <1>5 DEF TypeOK, StoreTypeOK
<1>7. ASSUME i.op = "activate" PROVE i.on # c
  <2>1. SUFFICES ASSUME i.on = c PROVE FALSE
    OBVIOUS
  <2>2. campaigns[c] = "draft"
    BY <1>5, <1>7, <2>1 DEF DraftsKept
  <2>3. tr.op = "activate"
    BY <1>1, <1>3, <2>2 DEF DraftsKept
  <2> QED BY <1>5, <1>6, <1>7, <2>1, <2>3
<1> HIDE DEF done
<1> QED BY <1>1, <1>2, <1>3, <1>5, <1>7 DEF DraftsKept

LEMMA DraftsStep ==
  ASSUME TypeOK, DraftsKept, [Next]_vars
  PROVE  DraftsKept'
<1>u. ASSUME UNCHANGED campaigns, inFlight' \subseteq inFlight PROVE DraftsKept'
  BY <1>u, DraftsStayKeeps DEF DraftsStay
<1>1. CASE QuietCommand
  <2>1. ASSUME NEW op, NEW on, Begin(op, on),
               op \notin {"activate", "pause_campaign", "resume_campaign"}
        PROVE DraftsKept'
    BY <2>1, BeginDrafts
  <2>2. ASSUME NEW c \in Campaign, NEW tr \in Transition, CampaignStateCheck(c, tr)
        PROVE DraftsKept'
    BY <2>2, BeginDrafts DEF CampaignStateCheck, Transition
  <2> QED
    BY <1>1, <1>u, <2>1, <2>2
       DEF QuietCommand, PauseLead, ResumeLeadCheck, ResumeLead, BlacklistLead,
           BlacklistDomain, RemoveLeadCheck, RemoveLeadFromCampaign,
           PauseAccountCheck, PauseAccount, ResumeAccountCheck, RemoveAccount,
           SendNowCheck, End
<1>2. ASSUME NEW c \in Campaign, NEW R, RetryCampaign(c, R) PROVE DraftsKept'
  <2>1. DraftsStay /\ inFlight' = inFlight
    BY <1>2 DEF RetryCampaign, DraftsStay, TypeOK, StoreTypeOK
  <2> QED BY <2>1, DraftsStayKeeps
<1>3. CASE OperatorStep /\ ~QuietCommand
  BY <1>2, <1>3, <1>u, TransitionDrafts
     DEF OperatorStep, ResumeAccount, SendNowCampaign, End
<1>4. CASE TickStart \/ CompleteAfterPoll \/ Finish \/ DryRunCompletes
  <2>1. CompleteFinished /\ UNCHANGED inFlight
    BY <1>4 DEF TickStart, CompleteAfterPoll, CompleteAndGo, Finish, DryRunCompletes
  <2> QED BY <2>1, CompletingSparesDrafts, DraftsStayKeeps
<1>5. CASE PollInboxes
  <2>1. UNCHANGED <<campaigns, inFlight>>
    BY <1>5 DEF PollInboxes, HandleMail, storeVars, ReplyEvent, UnsubscribeEvent,
       AutoReply, BounceLead, ReplyMember, ReplyRows, DomainRows, DomainMembers,
       UnsubscribeBlacklist, BounceMember, BounceRows, BounceEvent
  <2> QED BY <1>u, <2>1
<1>6. CASE LoadAccounts \/ PollDone \/ RebalanceAll \/ LoadSends \/ SendLoop
  <2>1. UNCHANGED <<campaigns, inFlight>>
    BY <1>6 DEF LoadAccounts, PollDone, RebalanceAll, LoadSends, SendLoop,
       SkipStale, Defer, CannotLoad, PickUp, Refuse, Suppress, Accept,
       AcceptUnknown, MarkFailed, MarkSent, SentEvent, Backfill, Settle, storeVars
  <2> QED BY <1>u, <2>1
<1>7. CASE MailArrives \/ Stop \/ UNCHANGED vars \/ \E s \in Send : DryRunFails(s)
  <2>1. UNCHANGED <<campaigns, inFlight>>
    BY <1>7 DEF MailArrives, Arrive, Stop, DryRunFails, vars, storeVars
  <2> QED BY <1>u, <2>1
<1> QED
  BY <1>1, <1>3, <1>4, <1>5, <1>6, <1>7 DEF Next, TickStep, DryRunTick

-----------------------------------------------------------------------------
(* The rotation. *)

LEMMA RotatedKept ==
  ASSUME Rotated, UNCHANGED rotation,
         NothingBack \/ "resume_account" \in Commands
  PROVE  Rotated'
BY DEF Rotated, NoneResumedRemoved, NothingBack

LEMMA OperatorRotated ==
  ASSUME TypeOK, OnlyUsed, Rotated, OperatorStep,
         "resume_lead" \notin Commands, "retry" \notin Commands
  PROVE  Rotated'
<1>0. NothingBack \/ "resume_account" \in Commands
  <2>1. ASSUME NEW a \in Account, ResumeAccount(a) PROVE "resume_account" \in Commands
    BY <2>1 DEF ResumeAccount, End, OnlyUsed
  <2> QED BY <2>1, OperatorStops
<1>1. ASSUME NEW a \in Account, RemoveAccount(a) PROVE Rotated'
  <2>1. SUFFICES ASSUME NoneResumedRemoved, NEW s \in Send, sends'[s] = "pending"
                 PROVE  AccountOf[s] \in rotation'[CampaignOf[s]]
    BY <1>1 DEF Rotated, RemoveAccount, Issue
  <2>2. sends[s] = "pending" /\ AccountOf[s] # a
    BY <1>1, <2>1 DEF RemoveAccount, SetRows, WithStatus, OfAccount
  <2>3. AccountOf[s] \in rotation[CampaignOf[s]] /\ CampaignOf[s] \in Campaign
    BY <2>1, <2>2, RowsAssumption DEF Rotated
  <2> QED BY <1>1, <2>2, <2>3 DEF RemoveAccount
<1>2. CASE UNCHANGED rotation
  BY <1>0, <1>2, RotatedKept
<1> QED
  BY <1>1, <1>2
     DEF OperatorStep, QuietCommand, PauseLead, ResumeLeadCheck, ResumeLead,
         BlacklistLead, BlacklistDomain, RemoveLeadCheck, RemoveLeadFromCampaign,
         PauseAccountCheck, PauseAccount, ResumeAccountCheck, CampaignStateCheck,
         SendNowCheck, Begin, ResumeAccount, CampaignStateTransition,
         SendNowCampaign, RetryCampaign

-----------------------------------------------------------------------------
(* Steps outside the send loop. *)

LEMMA OrderKept ==
  ASSUME OrderInv, Live' \subseteq Live, UNCHANGED <<todo, passed, sentNow, pc, cur>>
  PROVE  OrderHeld' /\ CurInOrder' /\ SentInOrder'
<1>1. OrderHeld'
  BY DEF OrderInv, OrderHeld
<1>2. CurInOrder'
  BY DEF OrderInv, CurInOrder
<1>3. SentInOrder'
  BY DEF OrderInv, SentInOrder
<1> QED BY <1>1, <1>2, <1>3

LEMMA DueKept ==
  ASSUME OrderInv, NothingBack, UNCHANGED <<pc, force, due>>
  PROVE  DueInOrder'
BY FewerPending DEF OrderInv, DueInOrder

LEMMA DelayStays ==
  ASSUME DelayHeld, NothingBack, SentRowsStay, UNCHANGED <<force, sentNow>>,
         passed \subseteq passed', NEW s \in Pending', s \in todo, s \in due,
         Open(CampaignOf[s]), Hasty(s)', ~Unsettled(s)
  PROVE  s \in NoDelay
<1>1. s \in Pending /\ s \in Send
  BY FewerPending DEF Pending, WithStatus
<1>2. Hasty(s)
  BY <1>1, HastyStays
<1> QED BY <1>1, <1>2 DEF DelayHeld

LEMMA CurStays ==
  ASSUME TypeOK, CurDelayed, SentRowsStay, UNCHANGED <<force, sentNow, cur>>,
         passed \subseteq passed', pc' \in InFlight, pc \in InFlight
  PROVE  CurDelayed'
<1>1. cur \in Send
  BY DEF TypeOK, InFlight, Sending
<1>2. Hasty(cur)' => Hasty(cur)
  <2>1. SUFFICES ASSUME NEW c \in Send, c = cur, Hasty(c)' PROVE Hasty(c)
    BY <1>1 DEF Hasty, LastSent, Before, WithStatus
  <2> QED BY <2>1, HastyStays
<1> QED BY <1>2 DEF CurDelayed

\* The commands that keep every row where it is, or stop some.
LEMMA OperatorSchedule ==
  ASSUME ScheduleInv, faults = 0, OperatorStep, Live' \subseteq Live,
         "resume_lead" \notin Commands, "retry" \notin Commands,
         \A a \in Account : ~ResumeAccount(a)
  PROVE  OrderInv' /\ DelayHeld' /\ CurDelayed'
<1>0. /\ TypeOK /\ OnlyUsed /\ OrderInv /\ Rotated /\ DraftsKept /\ DelayHeld
      /\ CurDelayed /\ LoopFresh
  BY DEF ScheduleInv, IInv
<1>1. /\ NothingBack /\ SentRowsStay
      /\ UNCHANGED <<pc, force, todo, passed, cur, sentNow>>
  BY <1>0, OperatorStops, OperatorStepLegal DEF OperatorStep, tickVars
<1>2. OrderHeld' /\ CurInOrder' /\ SentInOrder'
  BY <1>0, <1>1, OrderKept
<1>3. CurDelayed'
  <2>1. CASE pc' \in InFlight
    BY <1>0, <1>1, <2>1, CurStays
  <2>2. CASE pc' \notin InFlight
    BY <2>2 DEF CurDelayed
  <2> QED BY <2>1, <2>2
<1> DEFINE Goes(s) == /\ s \in todo' \cap due' \cap Pending'
                      /\ Open(CampaignOf[s])' /\ Hasty(s)' /\ ~Unsettled(s)'
<1>4. SUFFICES DueInOrder' /\ \A s : Goes(s) => s \in NoDelay
  BY <1>2, <1>3 DEF OrderInv, DelayHeld
<1>5. ASSUME NEW s, Goes(s)
      PROVE  /\ s \in todo /\ s \in Pending /\ s \in Send /\ ~Unsettled(s)
             /\ CampaignOf[s] \in Campaign /\ s \in Pending' /\ s \in due'
             /\ Open(CampaignOf[s])' /\ Hasty(s)'
             /\ ~force /\ pc \in Clocked /\ NoneResumedRemoved
  <2>1. s \in todo /\ s \in Pending /\ s \in Send
    BY <1>1, <1>5, FewerPending DEF Pending, WithStatus
  <2>2. pc \in Clocked
    BY <1>0, <2>1 DEF LoopFresh, Looping, Clocked
  <2>3. ~force /\ ~Unsettled(s) /\ NoneResumedRemoved
    BY <1>1, <1>5 DEF Hasty, Unsettled
  <2> QED BY <1>5, <2>1, <2>2, <2>3, RowsAssumption
<1> HIDE DEF Goes
\* Nothing due that was not, and no campaign open that was not.
<1>6. ASSUME UNCHANGED <<due, campaigns>>
      PROVE  DueInOrder' /\ \A s : Goes(s) => s \in NoDelay
  <2>1. DueInOrder'
    BY <1>0, <1>1, <1>6, DueKept
  <2>2. ASSUME NEW s, Goes(s) PROVE s \in NoDelay
    <3>1. s \in due /\ Open(CampaignOf[s])
      BY <1>5, <1>6, <2>2 DEF Open
    <3> QED BY <1>0, <1>1, <1>5, <2>2, <3>1, DelayStays
  <2> QED BY <2>1, <2>2
<1>7. ASSUME NEW c \in Campaign, SendNowCampaign(c),
             due' = Without(OfCampaign(c) \cap WithStatus("pending"))
      PROVE  DueInOrder' /\ \A s : Goes(s) => s \in NoDelay
  <2>0. UNCHANGED <<campaigns, sends>> /\ due' = due \ (OfCampaign(c) \cap Pending)
    BY <1>7 DEF SendNowCampaign, Without, Pending
  <2>1. ASSUME pc' = "load", ~force', NEW s \in due' \cap Pending',
               NEW t \in Before(s) \cap Pending'
        PROVE  t \in due'
    <3>1. s \in Pending /\ t \in Pending /\ s \in Send /\ t \in Send
      BY <1>1, <2>1, FewerPending, PendingThere
    <3>2. CampaignOf[t] = CampaignOf[s] /\ t \in due
      BY <1>0, <1>1, <2>0, <2>1, <3>1, BeforeIsThere DEF OrderInv, DueInOrder
    <3> QED BY <2>0, <2>1, <3>1, <3>2 DEF OfCampaign
  <2>2. ASSUME NEW s, Goes(s) PROVE s \in NoDelay
    <3>1. s \in due /\ Open(CampaignOf[s])
      BY <1>5, <2>0, <2>2 DEF Open
    <3> QED BY <1>0, <1>1, <1>5, <2>2, <3>1, DelayStays
  <2> QED BY <2>1, <2>2 DEF DueInOrder
<1>8. ASSUME NEW c \in Campaign, NEW tr \in Transition,
             CampaignStateTransition(c, tr), "paused" \in {tr.from, tr.to},
             Rebalanced(rotation[c], due)
      PROVE  DueInOrder' /\ \A s : Goes(s) => s \in NoDelay
  <2>1. DueInOrder'
    <3>1. CASE pc' = "load" /\ ~force'
      <4>1. \A s \in due \cap Pending : Before(s) \cap Pending \subseteq due
        BY <1>0, <1>1, <3>1 DEF OrderInv, DueInOrder
      <4>2. pc \in Clocked /\ ~force /\ \A s \in Pending' : s \in Pending
        BY <1>1, <3>1, FewerPending DEF Clocked
      <4> QED BY <1>1, <1>8, <4>1, <4>2, RebalancedInOrder DEF DueInOrder
    <3> QED BY <3>1 DEF DueInOrder
  <2>2. ASSUME NEW s, Goes(s) PROVE s \in NoDelay
    <3>1. s \in NoDelay \/ (s \in due /\ AccountOf[s] \notin rotation[c])
      BY <1>1, <1>2, <1>5, <1>8, <2>2, RebalancedDelays
    <3>2. ASSUME s \in due, AccountOf[s] \notin rotation[c] PROVE s \in NoDelay
      <4>1. CampaignOf[s] # c
        BY <1>0, <1>5, <2>2, <3>2 DEF Rotated, Pending, WithStatus
      <4>2. Open(CampaignOf[s])
        BY <1>0, <1>5, <1>8, <2>2, <4>1
           DEF CampaignStateTransition, Open, TypeOK, StoreTypeOK
      <4> QED BY <1>0, <1>1, <1>5, <2>2, <3>2, <4>2, DelayStays
    <3> QED BY <3>1, <3>2
  <2> QED BY <2>1, <2>2
<1>9. ASSUME NEW c \in Campaign, NEW tr \in Transition,
             CampaignStateTransition(c, tr), "paused" \notin {tr.from, tr.to},
             UNCHANGED due
      PROVE  DueInOrder' /\ \A s : Goes(s) => s \in NoDelay
  <2>1. DueInOrder'
    BY <1>0, <1>1, <1>9, DueKept
  <2>2. campaigns[c] = "draft"
    <3>1. tr.op = "activate"
      BY <1>9 DEF Transition
    <3> QED BY <1>0, <1>9, <3>1 DEF CampaignStateTransition, End, DraftsKept
  <2>3. ASSUME NEW s, Goes(s) PROVE s \in NoDelay
    <3>1. Open(CampaignOf[s])
      BY <1>0, <1>5, <1>9, <2>2, <2>3
         DEF CampaignStateTransition, Open, TypeOK, StoreTypeOK
    <3> QED BY <1>0, <1>1, <1>5, <1>9, <2>3, <3>1, DelayStays
  <2> QED BY <2>1, <2>3
<1>10. ASSUME NEW c \in Campaign, NEW R, RetryCampaign(c, R) PROVE FALSE
  BY <1>10 DEF RetryCampaign, Issue
<1>11. QuietCommand => UNCHANGED campaigns
  BY DEF QuietCommand, PauseLead, ResumeLeadCheck, ResumeLead, BlacklistLead,
     BlacklistDomain, RemoveLeadCheck, RemoveLeadFromCampaign, PauseAccountCheck,
     PauseAccount, ResumeAccountCheck, RemoveAccount, CampaignStateCheck,
     SendNowCheck, Begin
<1> QED
  BY <1>6, <1>7, <1>8, <1>9, <1>10, <1>11 DEF OperatorStep

\* Rows that account resume restores are rebalanced in the same transaction.
LEMMA ResumeSchedule ==
  ASSUME ScheduleInv, faults = 0, NEW a \in Account, ResumeAccount(a),
         Rebalanced({a}, due), UNCHANGED <<pc, tickVars>>
  PROVE  OrderInv' /\ DelayHeld' /\ CurDelayed'
<1>0. TypeOK /\ OrderInv /\ DelayHeld /\ CurDelayed /\ LoopFresh
  BY DEF ScheduleInv, IInv
<1>1. /\ UNCHANGED <<pc, force, todo, passed, cur, sentNow, campaigns>>
      /\ SentRowsStay /\ Live' \subseteq Live
      /\ \A s \in Pending' : s \in Pending \/ (AccountOf[s] = a /\ Open(CampaignOf[s])')
  <2>1. SentRowsStay
    BY <1>0, RestoreRowsLegal DEF ResumeAccount
  <2> QED BY <2>1, ResumedTogether DEF ResumeAccount, tickVars
<1>2. OrderHeld' /\ CurInOrder' /\ SentInOrder'
  BY <1>0, <1>1, OrderKept
<1>3. DueInOrder'
  <2>1. CASE pc' = "load" /\ ~force'
    <3>1. \A s \in due \cap Pending : Before(s) \cap Pending \subseteq due
      BY <1>0, <1>1, <2>1 DEF OrderInv, DueInOrder
    <3>2. pc \in Clocked /\ ~force
      BY <1>1, <2>1 DEF Clocked
    <3> QED BY <1>1, <3>1, <3>2, RebalancedInOrder DEF DueInOrder
  <2> QED BY <2>1 DEF DueInOrder
<1>4. CurDelayed'
  <2>1. CASE pc' \in InFlight
    BY <1>0, <1>1, <2>1, CurStays
  <2>2. CASE pc' \notin InFlight
    BY <2>2 DEF CurDelayed
  <2> QED BY <2>1, <2>2
<1>5. DelayHeld'
  <2>1. SUFFICES ASSUME NEW s \in todo' \cap due' \cap Pending',
                        Open(CampaignOf[s])', Hasty(s)', ~Unsettled(s)'
                 PROVE  s \in NoDelay
    BY DEF DelayHeld
  <2>2. /\ s \in todo /\ s \in Send /\ Open(CampaignOf[s]) /\ ~Unsettled(s)
        /\ ~force /\ pc \in Clocked
    BY <1>0, <1>1, <2>1
       DEF TypeOK, Open, Unsettled, Hasty, LoopFresh, Looping, Clocked
  <2>3. s \in NoDelay \/ (s \in due /\ AccountOf[s] # a)
    BY <1>1, <1>2, <2>1, <2>2, RebalancedDelays
  <2>4. ASSUME s \in due, AccountOf[s] # a PROVE s \in NoDelay
    <3>1. s \in Pending
      BY <1>1, <2>1, <2>4
    <3>2. Hasty(s)
      BY <1>1, <2>1, <2>2, HastyStays
    <3> QED BY <1>0, <2>2, <2>4, <3>1, <3>2 DEF DelayHeld
  <2> QED BY <2>3, <2>4
<1> QED BY <1>2, <1>3, <1>4, <1>5 DEF OrderInv

\* A step that is account resume is it together with its rebalance.
LEMMA ResumeRebalances ==
  ASSUME OperatorStep, NEW a \in Account, ResumeAccount(a)
  PROVE  Rebalanced({a}, due) /\ UNCHANGED <<pc, tickVars>>
<1> DEFINE r == [op |-> "resume_account", on |-> a]
<1>1. r \in inFlight /\ r \notin inFlight'
  BY DEF ResumeAccount, End
<1>2. ASSUME NEW op, NEW on, End(op, on) PROVE op = "resume_account" /\ on = a
  <2>1. r = [op |-> op, on |-> on]
    BY <1>1, <1>2 DEF End
  <2>2. r.op = op /\ r.on = on
    BY <2>1
  <2> QED BY <2>2
<1>3. inFlight' # inFlight /\ \A op, on : ~Begin(op, on)
  BY <1>1 DEF Begin
<1> HIDE DEF r
<1>4. ~QuietCommand
  <2>1. \A l \in Lead : ~(PauseLead(l) \/ ResumeLead(l) \/ BlacklistLead(l))
    BY <1>2, <1>3 DEF PauseLead, ResumeLead, BlacklistLead
  <2>2. \A c \in Campaign, l \in Lead : ~RemoveLeadFromCampaign(c, l)
    BY <1>2 DEF RemoveLeadFromCampaign
  <2>3. \A b \in Account : ~(PauseAccount(b) \/ RemoveAccount(b))
    BY <1>2, <1>3 DEF PauseAccount, RemoveAccount
  <2>4. \A d : ~BlacklistDomain(d)
    BY <1>3 DEF BlacklistDomain
  <2> QED
    BY <1>3, <2>1, <2>2, <2>3, <2>4
       DEF QuietCommand, ResumeLeadCheck, RemoveLeadCheck, PauseAccountCheck,
           ResumeAccountCheck, CampaignStateCheck, SendNowCheck
<1>5. \A c \in Campaign : ~SendNowCampaign(c) /\ \A R : ~RetryCampaign(c, R)
  BY <1>2, <1>3 DEF SendNowCampaign, RetryCampaign
<1>6. \A c \in Campaign, tr \in Transition : ~CampaignStateTransition(c, tr)
  BY <1>2 DEF CampaignStateTransition, Transition
<1>7. ASSUME NEW b \in Account, ResumeAccount(b) PROVE b = a
  BY <1>2, <1>7 DEF ResumeAccount
<1> QED BY <1>4, <1>5, <1>6, <1>7 DEF OperatorStep

-----------------------------------------------------------------------------
(* The send loop. *)

LEMMA LoopDelays ==
  ASSUME DelayHeld, NothingBack, SentRowsStay,
         UNCHANGED <<force, sentNow, due, campaigns>>,
         passed \subseteq passed', todo' \subseteq todo,
         pc \in {"event", "thread", "settle"}
           => pc' \in {"event", "thread", "settle"} /\ cur' = cur
  PROVE  DelayHeld'
<1>1. SUFFICES ASSUME NEW s \in todo' \cap due' \cap Pending',
                      Open(CampaignOf[s])', Hasty(s)', ~Unsettled(s)'
               PROVE  s \in NoDelay
  BY DEF DelayHeld
<1>2. ~Unsettled(s) /\ Open(CampaignOf[s]) /\ s \in todo /\ s \in due
  BY <1>1 DEF Unsettled, Open
<1> QED BY <1>1, <1>2, DelayStays

\* No row is passed to or from the one being sent, and none is rescheduled.
LEMMA LoopSkips ==
  ASSUME ScheduleInv, faults = 0, Live' \subseteq Live, NEW u \in Send, SkipStale(u)
  PROVE  OrderInv' /\ DelayHeld' /\ CurDelayed'
<1>0. TypeOK /\ OrderInv /\ DelayHeld /\ CurDelayed
  BY DEF ScheduleInv, IInv
<1>1. /\ pc = "loop" /\ todo' = todo \ {u} /\ passed' = passed \cup {u}
      /\ UNCHANGED <<sends, campaigns, pc, force, due, cur, sentNow>>
  BY DEF SkipStale, Reach, storeVars
<1>2. /\ NothingBack /\ SentRowsStay /\ Pending' = Pending
  BY <1>1 DEF NothingBack, SentRowsStay, Pending, WithStatus
<1>3. OrderHeld'
  BY <1>0, <1>1, <1>2 DEF OrderInv, OrderHeld
<1>4. SentInOrder'
  BY <1>0, <1>1, <1>2 DEF OrderInv, SentInOrder
<1>5. DueInOrder' /\ CurInOrder' /\ CurDelayed'
  BY <1>1 DEF DueInOrder, CurInOrder, CurDelayed, InFlight
<1>6. DelayHeld'
  BY <1>0, <1>1, <1>2, LoopDelays
<1> QED BY <1>3, <1>4, <1>5, <1>6 DEF OrderInv

\* What a rebalance inside the loop leaves due is not hasty.
LEMMA LoopRebalances ==
  ASSUME ScheduleInv, faults = 0, NEW A, Rebalanced(A, due), pc \in Clocked,
         UNCHANGED <<sends, campaigns, force, passed, sentNow>>,
         todo' \subseteq todo,
         \A s \in todo' : Unsettled(s) => AccountOf[s] \in A,
         SentInOrder'
  PROVE  DelayHeld'
<1>0. TypeOK /\ DelayHeld
  BY DEF ScheduleInv, IInv
<1>1. SUFFICES ASSUME NEW s \in todo' \cap due' \cap Pending',
                      Open(CampaignOf[s])', Hasty(s)'
               PROVE  s \in NoDelay
  BY DEF DelayHeld
<1>2. NothingBack /\ SentRowsStay /\ ~force
  BY <1>1 DEF NothingBack, SentRowsStay, Hasty
<1>3. s \in NoDelay \/ (s \in due /\ AccountOf[s] \notin A)
  BY <1>1, <1>2, RebalancedDelays
<1>4. ASSUME s \in due, AccountOf[s] \notin A PROVE s \in NoDelay
  <2>1. Open(CampaignOf[s]) /\ ~Unsettled(s) /\ s \in todo
    BY <1>1, <1>4 DEF Open
  <2> QED BY <1>0, <1>1, <1>2, <1>4, <2>1, DelayStays
<1> QED BY <1>3, <1>4

LEMMA LoopDefers ==
  ASSUME ScheduleInv, faults = 0, Live' \subseteq Live, NEW u \in Send, Defer(u)
  PROVE  OrderInv' /\ DelayHeld' /\ CurDelayed'
<1>0. TypeOK /\ OrderInv /\ DelayHeld
  BY DEF ScheduleInv, IInv
<1>1. /\ pc = "loop" /\ todo' = todo \ Peers(u)
      /\ UNCHANGED <<sends, campaigns, pc, force, passed, cur, sentNow>>
      /\ Rebalanced({AccountOf[u]}, due) \/ UNCHANGED due
  BY DEF Defer, Reach, storeVars
<1>2. /\ NothingBack /\ SentRowsStay /\ Pending' = Pending
  BY <1>1 DEF NothingBack, SentRowsStay, Pending, WithStatus
<1>3. OrderHeld'
  <2>1. SUFFICES ASSUME NEW s \in todo', NEW t \in Before(s) \cap Live'
                 PROVE  t \in todo' \cup passed'
    BY DEF OrderHeld
  <2>2. s \in Send /\ s \notin Peers(u) /\ s \in todo
    BY <1>0, <1>1, <2>1 DEF TypeOK
  <2>3. t \in todo \cup passed
    BY <1>0, <1>1, <1>2, <2>1, <2>2 DEF OrderInv, OrderHeld, InFlight
  <2>4. t \notin Peers(u)
    <3>1. s \in Peers(t)
      BY <2>1, <2>2, BeforeIsThere, PeersAgree
    <3> QED BY <2>2, <3>1, PeersAgree
  <2> QED BY <1>1, <2>3, <2>4
<1>4. SentInOrder'
  BY <1>0, <1>1, <1>2 DEF OrderInv, SentInOrder
<1>5. DueInOrder' /\ CurInOrder' /\ CurDelayed'
  BY <1>1 DEF DueInOrder, CurInOrder, CurDelayed, InFlight
<1>6. DelayHeld'
  <2>1. CASE UNCHANGED due
    BY <1>0, <1>1, <1>2, <2>1, LoopDelays
  <2>2. CASE Rebalanced({AccountOf[u]}, due)
    <3>1. pc \in Clocked /\ \A s \in todo' : ~Unsettled(s)
      BY <1>1 DEF Clocked, Unsettled
    <3> QED BY <1>1, <1>4, <2>2, <3>1, LoopRebalances
  <2> QED BY <1>1, <2>1, <2>2
<1> QED BY <1>3, <1>4, <1>5, <1>6 DEF OrderInv

LEMMA LoopPicks ==
  ASSUME ScheduleInv, faults = 0, Live' \subseteq Live, NEW u \in Send, PickUp(u)
  PROVE  OrderInv' /\ DelayHeld' /\ CurDelayed'
<1>0. TypeOK /\ OrderInv /\ DelayHeld
  BY DEF ScheduleInv, IInv
<1>1. /\ pc = "loop" /\ pc' = "attempt" /\ u \in todo /\ todo' = todo \ {u}
      /\ cur' = u /\ Before(u) \cap todo = {}
      /\ UNCHANGED <<sends, campaigns, force, passed, sentNow, due>>
      /\ u \in Pending /\ campaigns[CampaignOf[u]] = "active" /\ (force \/ u \in due)
  BY DEF PickUp, Reach, StillDue, storeVars, Pending, WithStatus
<1>2. /\ NothingBack /\ SentRowsStay /\ Pending' = Pending
  BY <1>1 DEF NothingBack, SentRowsStay, Pending, WithStatus
<1>3. OrderHeld'
  BY <1>0, <1>1, <1>2 DEF OrderInv, OrderHeld, InFlight
<1>4. CurInOrder'
  BY <1>0, <1>1, <1>2 DEF OrderInv, OrderHeld, CurInOrder, InFlight
<1>5. SentInOrder' /\ DueInOrder'
  BY <1>0, <1>1, <1>2 DEF OrderInv, SentInOrder, DueInOrder
<1>6. CurDelayed'
  <2>1. Hasty(cur)' => Hasty(u)
    <3>1. SUFFICES ASSUME Hasty(cur)' PROVE Hasty(u)
      OBVIOUS
    <3>2. WithStatus("sent")' = WithStatus("sent")
      BY <1>1 DEF WithStatus
    <3> QED BY <1>1, <3>1, <3>2 DEF Hasty, LastSent, Before
  <2>2. Hasty(u) => u \in NoDelay
    BY <1>0, <1>1 DEF DelayHeld, Open, Unsettled, Hasty
  <2> QED BY <1>1, <2>1, <2>2 DEF CurDelayed
<1>7. DelayHeld'
  BY <1>0, <1>1, <1>2, LoopDelays
<1> QED BY <1>3, <1>4, <1>5, <1>6, <1>7 DEF OrderInv

\* Nothing changes but how far the sending has come.
LEMMA LoopGoesOn ==
  ASSUME ScheduleInv, faults = 0, Live' \subseteq Live, Refuse \/ Accept \/ SentEvent \/ Backfill
  PROVE  OrderInv' /\ DelayHeld' /\ CurDelayed'
<1>0. TypeOK /\ OrderInv /\ DelayHeld /\ CurDelayed
  BY DEF ScheduleInv, IInv
<1>1. /\ UNCHANGED <<sends, campaigns, force, todo, passed, cur, sentNow, due>>
      /\ \/ pc \in InFlight /\ pc' \in InFlight
         \/ pc \in {"event", "thread", "settle"} /\ pc' \in {"event", "thread", "settle"}
  BY DEF Refuse, Accept, SentEvent, Backfill, storeVars, tickVars, InFlight
<1>2. /\ NothingBack /\ SentRowsStay /\ Pending' = Pending
  BY <1>1 DEF NothingBack, SentRowsStay, Pending, WithStatus
<1>3. OrderHeld'
  BY <1>0, <1>1, <1>2 DEF OrderInv, OrderHeld, InFlight
<1>4. CurInOrder'
  BY <1>0, <1>1, <1>2 DEF OrderInv, CurInOrder, InFlight
<1>5. SentInOrder' /\ DueInOrder'
  <2>1. SentInOrder'
    BY <1>0, <1>1, <1>2 DEF OrderInv, SentInOrder
  <2>2. DueInOrder'
    BY <1>1 DEF DueInOrder, InFlight
  <2> QED BY <2>1, <2>2
<1>6. CurDelayed'
  <2>1. CASE pc \in InFlight
    <3>1. pc' \in InFlight
      BY <1>1, <2>1 DEF InFlight
    <3> QED BY <1>0, <1>1, <1>2, <2>1, <3>1, CurStays
  <2>2. CASE pc \notin InFlight
    BY <1>1, <2>2 DEF CurDelayed, InFlight
  <2> QED BY <2>1, <2>2
<1>7. DelayHeld'
  <2>1. pc \in {"event", "thread", "settle"}
          => pc' \in {"event", "thread", "settle"} /\ cur' = cur
    BY <1>1 DEF InFlight
  <2> QED BY <1>0, <1>1, <1>2, <2>1, LoopDelays
<1> QED BY <1>3, <1>4, <1>5, <1>6, <1>7 DEF OrderInv

\* The row being sent is dropped, and is waiting no longer.
LEMMA LoopDrops ==
  ASSUME ScheduleInv, faults = 0, Live' \subseteq Live, ~Fault, Suppress \/ MarkFailed
  PROVE  OrderInv' /\ DelayHeld' /\ CurDelayed'
<1>0. TypeOK /\ OrderInv /\ DelayHeld
  BY DEF ScheduleInv, IInv
<1>1. /\ pc \in InFlight /\ pc' = "loop" /\ cur \in Send
      /\ UNCHANGED <<campaigns, force, todo, passed, sentNow, due>>
  BY <1>0 DEF Suppress, MarkFailed, InFlight, TypeOK, Sending
<1>2. NothingBack /\ SentRowsStay
  <2>1. CASE Suppress
    BY <1>0, <2>1, StopRowsLegal, RowsOnlyStop DEF Suppress
  <2>2. CASE MarkFailed
    <3>1. sends[cur] # "sent" /\ SetRows({cur}, "failed")
      BY <2>2 DEF ScheduleInv, IInv, InFlightUnsent, MarkFailed, Either
    <3>2. SentRowsStay
      BY <1>1, <3>1 DEF SentRowsStay, SetRows
    <3> QED BY <3>1, <3>2, RowsOnlyStop
  <2> QED BY <2>1, <2>2
<1>3. Live' \subseteq Live \ {cur}
  <2>1. CASE Suppress
    <3>1. cur \in Peers(cur)
      BY <1>1 DEF Peers, Conversation, OfCampaign, OfLead
    <3>2. sends'[cur] # "pending"
      BY <1>1, <2>1, <3>1 DEF Suppress, SetRows, WithStatus
    <3>3. members'[CampaignOf[cur]][LeadOf[cur]] # "active"
      BY <1>0, <1>1, <2>1, RowsAssumption DEF Suppress, TypeOK, StoreTypeOK
    <3> QED BY <3>2, <3>3 DEF Live
  <2>2. CASE MarkFailed
    <3>1. sends'[cur] = "failed"
      BY <1>1, <2>2 DEF MarkFailed, Either, SetRows
    <3> QED BY <3>1 DEF Live
  <2> QED BY <2>1, <2>2
<1>4. OrderHeld'
  BY <1>0, <1>1, <1>3 DEF OrderInv, OrderHeld
<1>5. SentInOrder'
  BY <1>0, <1>1, <1>3 DEF OrderInv, SentInOrder
<1>6. DueInOrder' /\ CurInOrder' /\ CurDelayed'
  BY <1>1 DEF DueInOrder, CurInOrder, CurDelayed, InFlight
<1>7. DelayHeld'
  <2>1. pc \notin {"event", "thread", "settle"}
    BY <1>1 DEF InFlight
  <2> QED BY <1>0, <1>1, <1>2, <2>1, LoopDelays
<1> QED BY <1>4, <1>5, <1>6, <1>7 DEF OrderInv

\* The row being sent becomes one that this tick sent: what follows it in its
\* conversation waits for the rebalance.
LEMMA LoopMarks ==
  ASSUME ScheduleInv, faults = 0, Live' \subseteq Live, ~Fault, MarkSent
  PROVE  OrderInv' /\ DelayHeld' /\ CurDelayed'
<1>0. TypeOK /\ OrderInv /\ DelayHeld
  BY DEF ScheduleInv, IInv
<1>1. /\ pc = "mark" /\ pc' = "event" /\ cur \in Send
      /\ SetRows({cur}, "sent") /\ sentNow' = sentNow \cup {cur}
      /\ UNCHANGED <<campaigns, force, todo, passed, cur, due>>
  BY <1>0 DEF MarkSent, Either, TypeOK, Sending
<1>2. Live' \subseteq Live \ {cur}
  BY <1>1 DEF Live, SetRows
<1>3. OrderHeld'
  BY <1>0, <1>1, <1>2 DEF OrderInv, OrderHeld, InFlight
<1>4. SentInOrder'
  BY <1>0, <1>1, <1>2 DEF OrderInv, SentInOrder, CurInOrder, InFlight
<1>5. DueInOrder' /\ CurInOrder' /\ CurDelayed'
  BY <1>1 DEF DueInOrder, CurInOrder, CurDelayed, InFlight
<1>6. DelayHeld'
  <2>1. SUFFICES ASSUME NEW s \in todo' \cap due' \cap Pending',
                        Open(CampaignOf[s])', Hasty(s)', ~Unsettled(s)'
                 PROVE  s \in NoDelay
    BY DEF DelayHeld
  <2>2. /\ s \in todo \cap due \cap Pending /\ s \in Send /\ Open(CampaignOf[s])
        /\ ~Unsettled(s) /\ cur \notin Before(s)
    BY <1>1, <2>1 DEF Unsettled, Open, Pending, WithStatus, SetRows
  <2>3. Before(s) \cap WithStatus("sent")' = Before(s) \cap WithStatus("sent")
    BY <1>1, <2>2 DEF WithStatus, SetRows
  <2>4. LastSent(s)' = LastSent(s) /\ cur \notin LastSent(s)
    BY <2>2, <2>3 DEF LastSent
  <2>5. Hasty(s)
    BY <1>1, <2>1, <2>4 DEF Hasty
  <2> QED BY <1>0, <2>2, <2>5 DEF DelayHeld
<1> QED BY <1>3, <1>4, <1>5, <1>6 DEF OrderInv

\* The rebalance after a send re-anchors what follows.
LEMMA LoopSettles ==
  ASSUME ScheduleInv, faults = 0, Live' \subseteq Live, Settle
  PROVE  OrderInv' /\ DelayHeld' /\ CurDelayed'
<1>0. TypeOK /\ OrderInv
  BY DEF ScheduleInv, IInv
<1>1. /\ pc = "settle" /\ pc' = "loop" /\ cur \in Send
      /\ UNCHANGED <<sends, campaigns, force, todo, passed, sentNow>>
      /\ Rebalanced({AccountOf[cur]}, due)
  BY <1>0 DEF Settle, storeVars, TypeOK, Sending
<1>2. Pending' = Pending
  BY <1>1 DEF Pending, WithStatus
<1>3. OrderHeld'
  BY <1>0, <1>1, <1>2 DEF OrderInv, OrderHeld, InFlight
<1>4. SentInOrder'
  BY <1>0, <1>1, <1>2 DEF OrderInv, SentInOrder
<1>5. DueInOrder' /\ CurInOrder' /\ CurDelayed'
  BY <1>1 DEF DueInOrder, CurInOrder, CurDelayed, InFlight
<1>6. DelayHeld'
  <2>1. ASSUME NEW s \in todo', Unsettled(s) PROVE AccountOf[s] = AccountOf[cur]
    BY <1>0, <1>1, <2>1, BeforeIsThere DEF TypeOK, Unsettled
  <2>2. pc \in Clocked
    BY <1>1 DEF Clocked, Sending
  <2> QED BY <1>1, <1>4, <2>1, <2>2, LoopRebalances
<1> QED BY <1>3, <1>4, <1>5, <1>6 DEF OrderInv

LEMMA LoopSchedule ==
  ASSUME ScheduleInv, faults = 0, Live' \subseteq Live, ~Fault, SendLoop
  PROVE  OrderInv' /\ DelayHeld' /\ CurDelayed'
BY LoopSkips, LoopDefers, LoopPicks, LoopGoesOn, LoopDrops, LoopMarks,
   LoopSettles DEF SendLoop, CannotLoad, AcceptUnknown

\* Before the loop and after it nothing is loaded.
LEMMA NothingLoaded ==
  ASSUME LoopFresh', pc' \notin {"load", "loop"} \cup Sending
  PROVE  OrderInv' /\ DelayHeld' /\ CurDelayed'
BY DEF LoopFresh, Looping, OrderInv, DueInOrder, OrderHeld, CurInOrder,
   SentInOrder, DelayHeld, CurDelayed, InFlight, Sending

\* The rebalance of a tick makes the steps of a conversation due in order.
LEMMA RebalanceSchedule ==
  ASSUME LoopFresh', RebalanceAll
  PROVE  OrderInv' /\ DelayHeld' /\ CurDelayed'
<1>1. /\ pc' = "load" /\ UNCHANGED sends
      /\ \A s \in due' \cap Pending : Before(s) \cap Pending \subseteq due'
  BY DEF RebalanceAll, storeVars, Pending
<1>2. DueInOrder'
  BY <1>1 DEF DueInOrder, Pending, WithStatus
<1>3. todo' = {} /\ sentNow' = {}
  BY <1>1 DEF LoopFresh, Looping, Sending
<1> QED BY <1>1, <1>2, <1>3 DEF OrderInv, OrderHeld, CurInOrder, SentInOrder,
        DelayHeld, CurDelayed, InFlight

\* What is loaded is loaded with everything that waits before it.
LEMMA LoadSchedule ==
  ASSUME ScheduleInv, faults = 0, Live' \subseteq Live, LoopFresh', LoadSends
  PROVE  OrderInv' /\ DelayHeld' /\ CurDelayed'
<1>1. CASE Rest
  BY <1>1, NothingLoaded DEF Rest, Sending
<1>2. CASE ~Rest
  <2> DEFINE rows == {s \in WithStatus("pending") :
                        campaigns[CampaignOf[s]] = "active" /\ (force \/ s \in due)}
  <2>1. /\ pc = "load" /\ pc' = "loop" /\ todo' = rows
        /\ UNCHANGED <<sends, passed, sentNow>>
    BY <1>2 DEF LoadSends, storeVars
  <2>2. sentNow = {} /\ Pending' = Pending
    BY <2>1 DEF ScheduleInv, LoopFresh, Looping, Sending, Pending, WithStatus
  <2>3. OrderHeld'
    <3>1. SUFFICES ASSUME NEW s \in rows, NEW t \in Before(s) \cap Live
                   PROVE  t \in rows
      BY <2>1 DEF OrderHeld
    <3>2. s \in Send /\ s \in Pending
      BY DEF Pending, WithStatus
    <3>3. t \in Pending
      <4>1. t \in Send /\ t \in Peers(s)
        BY <3>1, <3>2, BeforeIsThere
      <4>2. sends[t] # "cancelled"
        BY <3>2, <4>1 DEF ScheduleInv, Apart, Pending, WithStatus
      <4> QED BY <3>1, <4>1, <4>2 DEF Live, Pending, WithStatus
    <3>4. CampaignOf[t] = CampaignOf[s] /\ (s \in due /\ ~force => t \in due)
      BY <2>1, <3>1, <3>2, <3>3, BeforeIsThere DEF ScheduleInv, OrderInv, DueInOrder
    <3> QED BY <3>1, <3>3, <3>4 DEF Pending
  <2>4. OrderInv'
    BY <2>1, <2>2, <2>3 DEF OrderInv, DueInOrder, CurInOrder, SentInOrder, InFlight
  <2>5. DelayHeld' /\ CurDelayed'
    BY <2>1, <2>2 DEF DelayHeld, CurDelayed, Hasty, InFlight
  <2> QED BY <2>4, <2>5
<1> QED BY <1>1, <1>2

\* Rows may stop and campaigns may end without the tick taking part.
LEMMA AsideSchedule ==
  ASSUME ScheduleInv, faults = 0, Live' \subseteq Live,
         MailArrives \/ DryRunTick \/ UNCHANGED vars
  PROVE  OrderInv' /\ DelayHeld' /\ CurDelayed'
<1>0. TypeOK /\ OrderInv /\ DelayHeld /\ CurDelayed
  BY DEF ScheduleInv, IInv
<1>1. /\ UNCHANGED <<pc, force, due, todo, passed, cur, sentNow>>
      /\ \A c \in Campaign : campaigns'[c] # campaigns[c]
           => campaigns'[c] \in {"completed", "completed_with_failures"}
  BY <1>0 DEF MailArrives, Arrive, DryRunTick, DryRunCompletes, DryRunFails,
     CompleteFinished, vars, storeVars, tickVars, TypeOK, StoreTypeOK
<1>2. NothingBack /\ SentRowsStay
  <2>1. UNCHANGED sends => NothingBack /\ SentRowsStay
    BY DEF NothingBack, SentRowsStay
  <2>2. ASSUME NEW s \in Send, DryRunFails(s) PROVE NothingBack /\ SentRowsStay
    BY <1>0, <2>2, StopRowsLegal, RowsOnlyStop DEF DryRunFails, WithStatus
  <2> QED BY <2>1, <2>2 DEF MailArrives, Arrive, DryRunTick, DryRunCompletes,
          vars, storeVars
<1>3. OrderInv'
  BY <1>0, <1>1, <1>2, OrderKept, DueKept DEF OrderInv
<1>4. DelayHeld'
  <2>1. SUFFICES ASSUME NEW s \in todo' \cap due' \cap Pending',
                        Open(CampaignOf[s])', Hasty(s)', ~Unsettled(s)'
                 PROVE  s \in NoDelay
    BY DEF DelayHeld
  <2>2. s \in todo /\ s \in due /\ ~Unsettled(s) /\ s \in Send
    BY <1>0, <1>1, <2>1 DEF Unsettled, TypeOK
  <2>3. Open(CampaignOf[s])
    BY <1>1, <2>1, <2>2, RowsAssumption DEF Open
  <2> QED BY <1>0, <1>1, <1>2, <2>1, <2>2, <2>3, DelayStays
<1>5. CurDelayed'
  <2>1. CASE pc' \in InFlight
    BY <1>0, <1>1, <1>2, <2>1, CurStays
  <2>2. CASE pc' \notin InFlight
    BY <2>2 DEF CurDelayed
  <2> QED BY <2>1, <2>2
<1> QED BY <1>3, <1>4, <1>5

\* Only account remove changes the rotation, and nothing brings a row back.
LEMMA RotatedStep ==
  ASSUME TypeOK, OnlyUsed, Rotated, [Next]_vars, faults' = 0,
         "resume_lead" \notin Commands, "retry" \notin Commands
  PROVE  Rotated'
<1>1. CASE OperatorStep
  BY <1>1, OperatorRotated
<1>2. CASE PollInboxes
  <2>1. UNCHANGED rotation
    BY <1>2 DEF PollInboxes, HandleMail, storeVars, ReplyEvent, UnsubscribeEvent,
       AutoReply, BounceLead, ReplyMember, ReplyRows, DomainRows, DomainMembers,
       UnsubscribeBlacklist, BounceMember, BounceRows, BounceEvent
  <2> QED BY <1>2, <2>1, MailStops, RotatedKept
<1>3. CASE TickStep /\ ~PollInboxes
  <2>1. UNCHANGED rotation
    BY <1>3 DEF TickStep, TickStart, LoadAccounts, PollDone, CompleteAfterPoll,
       CompleteAndGo, RebalanceAll, LoadSends, Finish, SendLoop, SkipStale, Defer,
       CannotLoad, PickUp, Refuse, Suppress, Accept, AcceptUnknown, MarkFailed,
       MarkSent, SentEvent, Backfill, Settle, storeVars
  <2> QED BY <1>3, <2>1, TickElsewhere, RotatedKept DEF Elsewhere
<1>4. CASE MailArrives \/ Stop \/ DryRunTick \/ UNCHANGED vars
  <2>1. UNCHANGED rotation
    BY <1>4 DEF MailArrives, Arrive, Stop, DryRunTick, DryRunCompletes,
       DryRunFails, vars, storeVars
  <2>2. NothingBack
    BY <1>4, RowsOnlyStop DEF MailArrives, Arrive, Stop, DryRunTick,
       DryRunCompletes, DryRunFails, vars, storeVars, NothingBack
  <2> QED BY <2>1, <2>2, RotatedKept
<1> QED BY <1>1, <1>2, <1>3, <1>4 DEF Next

LEMMA NextSchedule ==
  ASSUME "resume_lead" \notin Commands, "retry" \notin Commands
  PROVE  ScheduleInv /\ [Next]_vars => ScheduleInv'
<1> SUFFICES ASSUME ScheduleInv, [Next]_vars, faults' = 0,
                    LoopFresh', DraftsKept', IInv', OnlyUsed'
             PROVE  Apart' /\ OrderInv' /\ Rotated' /\ DelayHeld' /\ CurDelayed'
  BY NextIInv, UsedStep, FreshStep, DraftsStep DEF ScheduleInv, IInv
<1>0. TypeOK /\ OnlyUsed /\ ~Fault
  BY Calm DEF ScheduleInv, IInv
<1>1. faults = 0
  BY <1>0, CalmSteps
<1>2. Rotated' /\ Apart' /\ Live' \subseteq Live
  BY <1>0, <1>1, RotatedStep, CalmLive DEF ScheduleInv
<1>3. CASE OperatorStep
  <2>1. CASE \A a \in Account : ~ResumeAccount(a)
    BY <1>1, <1>2, <1>3, <2>1, OperatorSchedule
  <2>2. ASSUME NEW a \in Account, ResumeAccount(a)
        PROVE  Apart' /\ OrderInv' /\ Rotated' /\ DelayHeld' /\ CurDelayed'
    <3>1. Rebalanced({a}, due) /\ UNCHANGED <<pc, tickVars>>
      BY <1>0, <1>3, <2>2, ResumeRebalances
    <3> QED BY <1>1, <1>2, <2>2, <3>1, ResumeSchedule
  <2> QED BY <2>1, <2>2
<1>4. CASE PollInboxes
  <2>1. pc' \notin {"load", "loop"} \cup Sending
    BY <1>4 DEF PollInboxes, HandleMail, ReplyEvent, UnsubscribeEvent, AutoReply,
       TakeUp, BounceLead, ReplyMember, ReplyRows, DomainRows, DomainMembers,
       UnsubscribeBlacklist, BounceMember, BounceRows, BounceEvent, Sending
  <2> QED BY <1>2, <2>1, NothingLoaded
<1>5. CASE TickStart \/ LoadAccounts \/ PollDone \/ CompleteAfterPoll \/ Finish
  <2>1. pc' \notin {"load", "loop"} \cup Sending
    BY <1>5 DEF TickStart, LoadAccounts, PollDone, CompleteAfterPoll,
       CompleteAndGo, Finish, Rest, Sending
  <2> QED BY <1>2, <2>1, NothingLoaded
<1>6. CASE RebalanceAll
  BY <1>2, <1>6, RebalanceSchedule
<1>7. CASE LoadSends
  BY <1>1, <1>2, <1>7, LoadSchedule
<1>8. CASE SendLoop
  BY <1>0, <1>1, <1>2, <1>8, LoopSchedule
<1>9. CASE MailArrives \/ DryRunTick \/ UNCHANGED vars
  BY <1>1, <1>2, <1>9, AsideSchedule
<1>10. ~Stop
  BY <1>0 DEF Stop
<1> QED
  BY <1>3, <1>4, <1>5, <1>6, <1>7, <1>8, <1>9, <1>10 DEF Next, TickStep

LEMMA InitSchedule == Init => ScheduleInv
<1> SUFFICES ASSUME Init PROVE ScheduleInv
  OBVIOUS
<1>1. Rotated /\ Apart
  BY RowsAssumption, PeersAgree DEF Init, StoreInit, Rotated, Apart, OfCampaign
<1>2. OrderInv /\ DelayHeld /\ CurDelayed /\ LoopFresh
  BY DEF Init, OrderInv, DueInOrder, OrderHeld, CurInOrder, SentInOrder,
     DelayHeld, CurDelayed, LoopFresh, InFlight
<1>3. OnlyUsed /\ DraftsKept
  BY DEF Init, StoreInit, OnlyUsed, DraftsKept
<1> QED BY <1>1, <1>2, <1>3, InitIInv DEF ScheduleInv

-----------------------------------------------------------------------------
\* As long as no statement fails, a step never leaves while an earlier step
\* of its conversation waits, except one that was loaded with it and that the
\* loop went past because a command or a rebalance had made it not due:
\* however campaigns and accounts are paused and resumed, leads stopped, mails
\* sent at once, run with --now or run dry while the loop is under way.
THEOREM StepsLeaveInOrder ==
  ASSUME "resume_lead" \notin Commands, "retry" \notin Commands
  PROVE  Spec => [](faults = 0 => StepOrder)
<1>1. ScheduleInv => (faults = 0 => StepOrder)
  BY PendingLive DEF ScheduleInv, OrderInv, CurInOrder, StepOrder, InFlight
<1> QED BY <1>1, InitSchedule, NextSchedule, PTL DEF Spec

\* Under the same conditions a step with a delay never leaves in the tick that
\* sent the step before it, unless the loop went past an earlier step of the
\* conversation: although its row was loaded as due, and although pausing and
\* resuming its campaign or its account rebalances it between any two
\* statements of the send.  An account that is removed while it is being
\* resumed is excluded: its rows are pending again, and outside the rotation
\* that campaign resume rebalances.
THEOREM StepsKeepTheirDelays ==
  ASSUME "resume_lead" \notin Commands, "retry" \notin Commands,
         "resume_account" \notin Commands \/ "remove_account" \notin Commands
  PROVE  Spec => [](faults = 0 => DelaysHold)
<1>1. ScheduleInv => (faults = 0 => DelaysHold)
  BY DEF ScheduleInv, CurDelayed, Hasty, DelaysHold, InFlight, NoneResumedRemoved
<1> QED BY <1>1, InitSchedule, NextSchedule, PTL DEF Spec
=============================================================================
