--------------------------- MODULE InboxHandling ---------------------------
(* What a tick does with inbound mail (internal/reply.go): match a message  *)
(* to the conversation it answers, classify it, and stop the conversation.  *)
(*                                                                          *)
(* Only a blacklisting is a transaction.  Everything else is a series of    *)
(* autocommitted statements, each an action here: commands come between     *)
(* them, a statement that fails is logged and the handler goes on, and a    *)
(* crash leaves the rest undone.                                            *)
EXTENDS ColdStore

CONSTANTS
  Msg,        \* messages that recipients may send back
  Kind,       \* what classifyInboundMessage says of each
  ReplyTo,    \* the row whose mail the message answers
  NoMsg, NoSend,
  MaxFaults   \* bound: failed statements, lost outcomes and crashes

ASSUME MessagesAssumption ==
  /\ Kind \in [Msg -> {"reply", "unsubscribe", "auto_reply", "bounce"}]
  /\ ReplyTo \in [Msg -> Send]
  /\ NoMsg \notin Msg /\ NoSend \notin Send
  /\ MaxFaults \in Nat

VARIABLES
  pc,          \* what the process that holds the tick lock does next
  snap,        \* the accounts the tick loaded as active
  msg,         \* the message it is handling
  arrived,     \* messages in the inboxes
  seen,        \* messages this poll has taken up
  recorded,    \* events.message_id of inbound events: the dedup key
  sentEvents,  \* rows with a 'sent' event
  threaded,    \* follow-ups that carry the first step's thread and parent
  delivered,   \* how many times a row's mail left through the provider
  faults

inboxVars == <<msg, seen, arrived, recorded>>
sentVars  == <<sentEvents, threaded, delivered>>

HandlerPc == {"reply_member", "reply_rows", "domain_rows", "domain_members",
              "unsub_blacklist", "bounce_member", "bounce_rows",
              "bounce_event"}

InboxTypeOK ==
  /\ snap \subseteq Account
  /\ msg \in Msg \cup {NoMsg}
  /\ seen \subseteq Msg
  /\ arrived \subseteq Msg
  /\ recorded \subseteq Msg
  /\ sentEvents \subseteq Send
  /\ threaded \subseteq Send
  /\ delivered \in [Send -> Nat]
  /\ faults \in Nat

-----------------------------------------------------------------------------

Fault == faults < MaxFaults /\ faults' = faults + 1

\* A single statement: it takes effect, or it fails, is logged, and the
\* handler goes on.  `Effect' and `Lost' change the same variables.
Either(Effect, Lost) == (Effect /\ UNCHANGED faults) \/ (Fault /\ Lost)

LeadFor(m)     == LeadOf[ReplyTo[m]]
CampaignFor(m) == CampaignOf[ReplyTo[m]]
Peers(s)       == Conversation(CampaignOf[s], LeadOf[s])

\* The thread of a mail is its first step's if it went out threaded.
SameThread(s, t) ==
  /\ t \in Peers(s)
  /\ {s, t} \subseteq {u \in Send : StepOf[u] = 1} \cup threaded

\* In-Reply-To against the sent events' message ids, then the thread.
Matched(m) ==
  \E s \in sentEvents : s = ReplyTo[m] \/ SameThread(s, ReplyTo[m])

\* Only the inboxes of the accounts loaded as active are listed.
Listed(m) == m \in arrived /\ AccountOf[ReplyTo[m]] \in snap

\* processReplyMessages takes up a message it has no event for.
TakeUp(m, kind) ==
  /\ pc = "poll"
  /\ Listed(m) /\ m \notin recorded \cup seen
  /\ seen' = seen \cup {m}
  /\ Matched(m)
  /\ Kind[m] = kind

RecordEvent(m) ==
  Either(recorded' = recorded \cup {m}, UNCHANGED recorded)

-----------------------------------------------------------------------------
(* A reply. *)

ReplyEvent(m) ==
  /\ TakeUp(m, "reply")
  /\ RecordEvent(m)
  /\ msg' = m /\ pc' = "reply_member"
  /\ UNCHANGED <<storeVars, sentVars, arrived>>

ReplyMember ==
  /\ pc = "reply_member"
  /\ Either(SetMembers({CampaignFor(msg)}, {LeadFor(msg)}, "active", "replied"),
            UNCHANGED members)
  /\ pc' = "reply_rows"
  /\ UNCHANGED <<inboxVars, sentVars, leads, campaigns, accounts, rotation,
                 sends, inFlight, issued>>

\* A slip: nothing of the lead's own to skip, so its colleagues are forgotten.
ReplyRowsEarlyReturn ==
  /\ pc = "reply_rows"
  /\ Either(SetRows(Peers(ReplyTo[msg]) \cap WithStatus("pending"), "skipped"),
            UNCHANGED sends)
  /\ IF /\ CampaignFor(msg) \in StopOnDomainReply
        /\ Peers(ReplyTo[msg]) \cap WithStatus("pending") # {}
       THEN pc' = "domain_rows" /\ msg' = msg
       ELSE pc' = "poll" /\ msg' = NoMsg
  /\ UNCHANGED <<seen, arrived, recorded, sentVars, leads, members, campaigns,
                 accounts, rotation, inFlight, issued>>

ReplyRows ==
  /\ pc = "reply_rows"
  /\ Either(SetRows(Peers(ReplyTo[msg]) \cap WithStatus("pending"), "skipped"),
            UNCHANGED sends)
  /\ IF CampaignFor(msg) \in StopOnDomainReply
       THEN pc' = "domain_rows" /\ msg' = msg
       ELSE pc' = "poll" /\ msg' = NoMsg
  /\ UNCHANGED <<seen, arrived, recorded, sentVars, leads, members, campaigns,
                 accounts, rotation, inFlight, issued>>

Colleagues(m) == OnDomain(DomainOf[LeadFor(m)]) \ {LeadFor(m)}

DomainRows ==
  /\ pc = "domain_rows"
  /\ Either(SetRows({s \in OfCampaign(CampaignFor(msg)) \cap WithStatus("pending") :
                       LeadOf[s] \in Colleagues(msg)}, "skipped"),
            UNCHANGED sends)
  /\ pc' = "domain_members"
  /\ UNCHANGED <<inboxVars, sentVars, leads, members, campaigns, accounts,
                 rotation, inFlight, issued>>

DomainMembers ==
  /\ pc = "domain_members"
  /\ Either(SetMembers({CampaignFor(msg)}, Colleagues(msg), "active", "paused"),
            UNCHANGED members)
  /\ pc' = "poll" /\ msg' = NoMsg
  /\ UNCHANGED <<seen, arrived, recorded, sentVars, leads, campaigns, accounts,
                 rotation, sends, inFlight, issued>>

-----------------------------------------------------------------------------
(* An unsubscribe request, and an automatic answer. *)

UnsubscribeEvent(m) ==
  /\ TakeUp(m, "unsubscribe")
  /\ RecordEvent(m)
  /\ msg' = m /\ pc' = "unsub_blacklist"
  /\ UNCHANGED <<storeVars, sentVars, arrived>>

UnsubscribeBlacklist ==
  /\ pc = "unsub_blacklist"
  /\ Either(IF leads[LeadFor(msg)] = "blacklisted"
              THEN UNCHANGED <<leads, sends, members>>
              ELSE Blacklisted({LeadFor(msg)}),
            UNCHANGED <<leads, sends, members>>)
  /\ pc' = "poll" /\ msg' = NoMsg
  /\ UNCHANGED <<seen, arrived, recorded, sentVars, campaigns, accounts, rotation,
                 inFlight, issued>>

AutoReply(m) ==
  /\ TakeUp(m, "auto_reply")
  /\ RecordEvent(m)
  /\ UNCHANGED <<storeVars, sentVars, arrived, msg, pc>>

-----------------------------------------------------------------------------
(* A bounce.  The bounce poll finds the lead in the notice itself, so it    *)
(* needs no sent event, and the lead's status is its only dedup.  The       *)
(* notice is listed by both polls of a tick and stays in the window of      *)
(* later ones, so a lead that left 'bounced' is recorded again.             *)

BounceLead(m) ==
  /\ pc = "poll"
  /\ Listed(m) /\ Kind[m] = "bounce"
  /\ leads[LeadFor(m)] # "bounced"
  /\ Either(leads' = [leads EXCEPT ![LeadFor(m)] = "bounced"], UNCHANGED leads)
  /\ msg' = m /\ pc' = "bounce_member" /\ seen' = seen \cup {m}
  /\ UNCHANGED <<arrived, recorded, sentVars, members, campaigns, accounts,
                 rotation, sends, inFlight, issued>>

BounceMember ==
  /\ pc = "bounce_member"
  /\ Either(SetMembers(Campaign, {LeadFor(msg)}, "active", "bounced"),
            UNCHANGED members)
  /\ pc' = "bounce_rows"
  /\ UNCHANGED <<inboxVars, sentVars, leads, campaigns, accounts, rotation,
                 sends, inFlight, issued>>

\* A slip: only the campaign that bounced is cleaned up.
BounceRowsHere ==
  /\ pc = "bounce_rows"
  /\ Either(SetRows(Peers(ReplyTo[msg]) \cap WithStatus("pending"), "skipped"),
            UNCHANGED sends)
  /\ pc' = "bounce_event"
  /\ UNCHANGED <<inboxVars, sentVars, leads, members, campaigns, accounts,
                 rotation, inFlight, issued>>

BounceRows ==
  /\ pc = "bounce_rows"
  /\ Either(SetRows(OfLead(LeadFor(msg)) \cap WithStatus("pending"), "skipped"),
            UNCHANGED sends)
  /\ pc' = "bounce_event"
  /\ UNCHANGED <<inboxVars, sentVars, leads, members, campaigns, accounts,
                 rotation, inFlight, issued>>

\* An event needs a campaign: that of a sent event or a membership.
BounceEvent ==
  /\ pc = "bounce_event"
  /\ IF /\ sentEvents \cap OfLead(LeadFor(msg)) = {}
        /\ \A c \in Campaign : members[c][LeadFor(msg)] = "none"
       THEN UNCHANGED <<recorded, faults>>
       ELSE RecordEvent(msg)
  /\ pc' = "poll" /\ msg' = NoMsg
  /\ UNCHANGED <<storeVars, sentVars, seen, arrived>>

-----------------------------------------------------------------------------
(* The recipient's side: mail comes back only for mail that got out. *)

Arrive(m) ==
  /\ m \notin arrived
  /\ delivered[ReplyTo[m]] > 0
  /\ arrived' = arrived \cup {m}
  /\ UNCHANGED <<storeVars, sentVars, pc, snap, msg, seen, recorded, faults>>

\* Mail the poll has yet to act on.
Unhandled ==
  {m \in Msg \ seen : Listed(m) /\
     IF Kind[m] = "bounce" THEN leads[LeadFor(m)] # "bounced"
     ELSE m \notin recorded /\ Matched(m)}

InboxInit ==
  /\ snap = {}
  /\ msg = NoMsg
  /\ seen = {}
  /\ arrived = {}
  /\ recorded = {}
  /\ sentEvents = {}
  /\ threaded = {}
  /\ delivered = [s \in Send |-> 0]
  /\ faults = 0

HandleMail ==
  /\ UNCHANGED snap
  /\ \/ \E m \in Msg : \/ ReplyEvent(m) \/ UnsubscribeEvent(m) \/ AutoReply(m)
                       \/ BounceLead(m)
     \/ ReplyMember \/ ReplyRows \/ DomainRows \/ DomainMembers
     \/ UnsubscribeBlacklist
     \/ BounceMember \/ BounceRows \/ BounceEvent
=============================================================================
