--------------------------- MODULE TickProperties ---------------------------
(* What the tick engine promises, over several ticks, commands that fall    *)
(* between its statements, answers from recipients, faults and crashes.     *)
EXTENDS TickEngine

Pending == WithStatus("pending")

-----------------------------------------------------------------------------
(* Delivery. *)

\* Every mail that left is accounted for.  A row that is marked sent, or is
\* about to be, left once more than its outcome was lost; any other row left
\* only as often as its outcome was lost.  So a recipient gets a step twice
\* only through a crash or an ambiguous provider answer between the delivery
\* and the UPDATE, whatever commands, retries and later ticks do to the row.
LedgerBalances ==
  \A s \in Send :
    delivered[s] = lost[s] +
      (IF sends[s] = "sent" \/ (pc = "mark" /\ cur = s) THEN 1 ELSE 0)

\* The row in flight has not been sent: what makes the ledger inductive.
InFlightUnsent == pc \in {"attempt", "fail", "mark"} => sends[cur] # "sent"

\* The status machine: `sent' is final, and a row leaves `skipped' only as
\* the row in flight, whose outcome overwrites what a command or a reply
\* wrote meanwhile.  Only cancelled and failed rows come back to pending.
\* A step that keeps to it:
LegalRowStep ==
  \A s \in Send : sends'[s] # sends[s] =>
    \/ sends[s] = "pending"
    \/ sends[s] \in {"cancelled", "failed"} /\ sends'[s] = "pending"
    \/ s = cur /\ sends[s] # "sent" /\ sends'[s] \in {"sent", "failed"}

\* No step of the engine, the operator or a crash leaves the status machine.
RowLifecycle == [][LegalRowStep]_vars

\* A completed campaign has nothing left to send, and one that completed
\* without failures has no failed row: retry and the resumes never put a row
\* back behind a campaign no tick looks at.
CompletedMeansDone ==
  \A c \in Campaign :
    /\ campaigns[c] \in {"completed", "completed_with_failures"}
         => OfCampaign(c) \cap Pending = {}
    /\ campaigns[c] = "completed" => OfCampaign(c) \cap WithStatus("failed") = {}

-----------------------------------------------------------------------------
(* Stopping. *)

\* A blacklisted or bounced lead has no pending row, in any campaign, once
\* the statements that record a bounce are through.
SuppressedLeadIsQuiet ==
  \A l \in Lead :
    leads[l] # "active" /\ ~(pc \in {"bounce_member", "bounce_rows"} /\ LeadFor(msg) = l)
      => OfLead(l) \cap Pending = {}

\* Once a reply has been handled its conversation has no pending row.
RepliedStaysQuiet ==
  \A m \in recorded :
    Kind[m] = "reply" /\ msg # m => Peers(ReplyTo[m]) \cap Pending = {}

\* In a campaign with stop_on_domain_reply, once a reply has been handled no
\* colleague of the lead has a pending row.
DomainReplyStops ==
  \A m \in recorded :
    Kind[m] = "reply" /\ msg # m /\ CampaignFor(m) \in StopOnDomainReply
      => {s \in OfCampaign(CampaignFor(m)) : LeadOf[s] \in Colleagues(m)}
           \cap Pending = {}

\* Once an unsubscribe request has been handled its lead is suppressed.
UnsubscribeTakesEffect ==
  \A m \in recorded :
    Kind[m] = "unsubscribe" /\ msg # m => leads[LeadFor(m)] # "active"

-----------------------------------------------------------------------------
(* The schedule. *)

\* The last step of the conversation that went out before s.
LastSent(s) ==
  LET earlier == Before(s) \cap WithStatus("sent")
  IN {t \in earlier : After(t) \cap earlier = {}}

\* A step does not leave in the tick that sent the step before it unless it
\* has no delay: the rebalance after a send anchors the follow-up at the
\* actual sent_at, and the re-check just before a send sees it.  Exempt are
\* tick --now, a send whose sent_at was not written, and a conversation the
\* loop has gone past an earlier step of.
DelaysHold ==
  pc = "mark" /\ ~force /\ Before(cur) \cap passed = {}
    => LastSent(cur) \cap sentNow = {} \/ cur \in NoDelay

\* No earlier step is waiting when a step leaves, save one that was loaded
\* with it and that the loop went past.
StepOrder == pc \in {"attempt", "mark"} => Before(cur) \cap Pending \subseteq passed

\* A follow-up to a first step that went out goes out in its thread.
FollowUpsThreaded ==
  pc = "mark" /\ StepOf[cur] > 1
    => \A t \in Peers(cur) : StepOf[t] = 1 /\ sends[t] = "sent" => cur \in threaded

-----------------------------------------------------------------------------
(* Progress. *)

\* cron runs ticks for ever and a tick runs to its end unless it is stopped.
\* Time passes and limits and windows reopen: a pending row comes due again
\* and again, and is not for ever among those put off when it is.
Fairness ==
  /\ WF_vars(TickStep)
  /\ \A s \in Send : /\ SF_vars(RebalanceAll /\ s \in due')
                     /\ SF_vars(PickUp(s))

FairSpec == Spec /\ Fairness

\* Every tick ends.
TicksFinish == pc # "idle" ~> pc = "idle"

\* An active campaign comes to its end.
CampaignsComplete ==
  \A c \in Campaign : campaigns[c] = "active" ~> campaigns[c] # "active"
=============================================================================
