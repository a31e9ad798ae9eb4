----------------------------- MODULE TickEngine -----------------------------
(* One `cold-cli tick' after another (internal/tick.go), against the tables *)
(* of ColdStore, with the inbox handling of InboxHandling as its first half *)
(* and the send loop as its second.  The tick lock (internal/store.go) lets *)
(* one process tick at a time, hence one program counter; the operator's    *)
(* commands take no lock and fall between any two statements.               *)
(*                                                                          *)
(* Time is abstract.  A tick compares send_at with the one `now' it took    *)
(* when it started, so all it can tell apart is `due': the rows whose       *)
(* send_at is not after that now.  What rebalancing does to send_at is      *)
(* modelled by what it guarantees about `due' (Rebalanced).                 *)
EXTENDS InboxHandling

CONSTANT NoDelay   \* rows of steps with delay 0, which may follow at once

ASSUME DelayAssumption == NoDelay \subseteq Send

VARIABLES
  force,    \* tick --now
  due,      \* rows with send_at <= this tick's now
  todo,     \* loaded rows the send loop has yet to reach
  passed,   \* loaded rows it went past: no longer due, or unreadable
  cur,      \* the row being sent
  sentNow,  \* rows this tick stamped with its now as sent_at
  lost      \* deliveries whose outcome was never written to the row

tickVars  == <<force, todo, passed, cur, sentNow, lost>>
vars      == <<storeVars, pc, snap, inboxVars, sentVars, faults, tickVars, due>>

TickPc == {"idle", "accounts", "poll", "polled", "rebalance", "load", "loop",
           "attempt", "fail", "mark", "event", "thread", "settle"}

Sending == {"attempt", "fail", "mark", "event", "thread", "settle"}

TypeOK ==
  /\ StoreTypeOK
  /\ InboxTypeOK
  /\ pc \in TickPc \cup HandlerPc
  /\ force \in BOOLEAN
  /\ due \subseteq Send
  /\ todo \subseteq Send
  /\ passed \subseteq Send
  /\ cur \in Send \cup {NoSend}
  /\ (cur \in Send) <=> (pc \in Sending)
  /\ (msg \in Msg) <=> (pc \in HandlerPc)
  /\ sentNow \subseteq Send
  /\ lost \in [Send -> Nat]

-----------------------------------------------------------------------------
(* What a tick sees of the schedule. *)

\* The schedule is read from the moment it is rebalanced to the end.
Clocked == {"load", "loop"} \cup Sending

\* Rows of the conversation before and after s.
Before(s) == {t \in Peers(s) : StepOf[t] < StepOf[s]}
After(s)  == {t \in Peers(s) : StepOf[t] > StepOf[s]}

\* With statuses st: the last sent row before the first pending one of the
\* conversation of s, which newLeadScheduleQueue anchors the queue at.
SentPrefix(s, st) ==
  {a \in Peers(s) : st[a] = "sent" /\ \A t \in Before(a) : st[t] # "pending"}

Anchor(s, st) ==
  {a \in SentPrefix(s, st) : \A b \in SentPrefix(s, st) : b \notin After(a)}

\* rebalancePendingSchedulesTx over the accounts A.  It rewrites the pending
\* rows of open campaigns on those accounts: each conversation's rows in step
\* order, from the sent_at of its anchor plus the step's delay, or, with no
\* anchor, from a time no earlier than the first row already had.  `was' is
\* what was due in the transaction before it rebalanced.
Rebalanced(A, was) ==
  LET scope == {s \in Send : /\ sends'[s] = "pending"
                             /\ AccountOf[s] \in A
                             /\ campaigns'[CampaignOf[s]] \in {"active", "draft"}}
  IN IF pc \notin Clocked \/ force THEN due' = was
     ELSE /\ due' \in {(was \ scope) \cup D : D \in SUBSET scope}
          /\ \A s \in scope \cap due' :
               /\ Before(s) \cap scope \subseteq due'
               /\ Anchor(s, sends') \cap sentNow # {} => s \in NoDelay
               /\ Anchor(s, sends') = {} /\ Before(s) \cap scope = {} => s \in was

\* What is due once the rows in R have the present second as send_at, which
\* is after the now of a tick that is under way.
Without(R) == due \ R

-----------------------------------------------------------------------------
(* The commands, joined to the schedule. *)

OperatorStep ==
  /\ UNCHANGED <<pc, snap, inboxVars, sentVars, faults, tickVars>>
  /\ \/ QuietCommand /\ UNCHANGED due
     \/ \E a \in Account : ResumeAccount(a) /\ Rebalanced({a}, due)
     \/ \E c \in Campaign, tr \in Transition :
          /\ CampaignStateTransition(c, tr)
          /\ IF "paused" \in {tr.from, tr.to}
               THEN Rebalanced(rotation[c], due) ELSE UNCHANGED due
     \/ \E c \in Campaign :
          /\ SendNowCampaign(c)
          /\ due' = Without(OfCampaign(c) \cap WithStatus("pending"))
     \/ \E c \in Campaign, R \in SUBSET WithStatus("failed") :
          RetryCampaign(c, R) /\ Rebalanced(rotation[c], Without(R))

-----------------------------------------------------------------------------
(* The first half of a tick. *)

\* A slip: failed rows still count as work to do.
FinishedWithoutFailures ==
  {c \in Campaign :
     /\ campaigns[c] = "active"
     /\ OfCampaign(c) # {}
     /\ OfCampaign(c) \cap (WithStatus("pending") \cup WithStatus("failed")) = {}}

\* completeFinishedCampaignsAt: active campaigns with rows, none pending.
Finished == {c \in Campaign : /\ campaigns[c] = "active"
                              /\ OfCampaign(c) # {}
                              /\ OfCampaign(c) \cap WithStatus("pending") = {}}

CompleteFinished ==
  campaigns' = [c \in Campaign |->
    IF c \notin Finished THEN campaigns[c]
    ELSE IF OfCampaign(c) \cap WithStatus("failed") # {}
      THEN "completed_with_failures" ELSE "completed"]

CompleteAndGo(to) ==
  /\ CompleteFinished
  /\ pc' = to
  /\ UNCHANGED <<leads, members, accounts, rotation, sends, inFlight, issued,
                 snap, inboxVars, sentVars, faults, due, todo, passed, cur,
                 sentNow, lost>>

TickStart ==
  /\ pc = "idle"
  /\ CompleteAndGo("accounts")
  /\ force' \in BOOLEAN
  /\ force' => "tick_now" \in Commands

LoadAccounts ==
  /\ pc = "accounts"
  /\ snap' = {a \in Account : accounts[a] = "active"}
  /\ IF snap' = {} THEN pc' = "idle" /\ force' = FALSE
                   ELSE pc' = "poll" /\ force' = force
  /\ UNCHANGED <<storeVars, inboxVars, sentVars, faults, due, todo, passed,
                 cur, sentNow, lost>>

PollInboxes == HandleMail /\ UNCHANGED <<tickVars, due>>

\* Every listed message was handled, or listing an inbox failed.
PollDone ==
  /\ pc = "poll"
  /\ Either(Unhandled = {}, TRUE)
  /\ pc' = "polled" /\ seen' = {}
  /\ UNCHANGED <<storeVars, msg, arrived, recorded, sentVars, snap, tickVars, due>>

CompleteAfterPoll ==
  /\ pc = "polled"
  /\ CompleteAndGo("rebalance")
  /\ UNCHANGED force
-----------------------------------------------------------------------------
(* The second half: rebalance, load what is due, send. *)

\* RebalancePendingSchedules over the loaded accounts.  Time has gone by: any
\* rows may have come due, first steps before later ones.  A cancelled row
\* keeps the send_at it had, for lead resume to bring back.
RebalanceAll ==
  /\ pc = "rebalance"
  /\ due' \in IF force THEN {{}}
              ELSE SUBSET (WithStatus("pending") \cup WithStatus("cancelled"))
  /\ \A s \in due' \cap WithStatus("pending") :
       Before(s) \cap WithStatus("pending") \subseteq due'
  /\ pc' = "load"
  /\ UNCHANGED <<storeVars, snap, inboxVars, sentVars, faults, tickVars>>

\* The process is done or dead: a new one starts with fresh variables.
Rest ==
  /\ pc' = "idle" /\ msg' = NoMsg /\ seen' = {} /\ snap' = {} /\ force' = FALSE
  /\ due' = {} /\ todo' = {} /\ passed' = {} /\ cur' = NoSend /\ sentNow' = {}
  /\ UNCHANGED <<arrived, recorded, sentVars>>

\* loadDueSends, or loadAllPendingSends for tick --now.  Nothing to send
\* ends the tick on the spot.
LoadSends ==
  /\ pc = "load"
  /\ LET rows == {s \in WithStatus("pending") :
                    campaigns[CampaignOf[s]] = "active" /\ (force \/ s \in due)}
     IN IF rows = {} THEN Rest
        ELSE /\ pc' = "loop" /\ todo' = rows
             /\ UNCHANGED <<snap, inboxVars, sentVars, force, due, passed, cur,
                            sentNow>>
  /\ UNCHANGED <<storeVars, faults, lost>>

\* A slip: rows are sent in whatever order they were loaded.
ReachAny(s) == pc = "loop" /\ s \in todo

\* Rows are loaded in send_at order, so a conversation's in step order.
Reach(s) ==
  /\ pc = "loop"
  /\ s \in todo
  /\ Before(s) \cap todo = {}

\* refreshPendingSend, and the account the tick loaded.
StillDue(s) ==
  /\ sends[s] = "pending"
  /\ campaigns[CampaignOf[s]] = "active"
  /\ force \/ s \in due

\* A slip: a stale row is looked at again and again.
SkipStaleForever(s) ==
  /\ Reach(s)
  /\ ~StillDue(s) \/ AccountOf[s] \notin snap
  /\ UNCHANGED <<storeVars, pc, snap, inboxVars, sentVars, faults, tickVars, due>>

SkipStale(s) ==
  /\ Reach(s)
  /\ ~StillDue(s) \/ AccountOf[s] \notin snap
  /\ todo' = todo \ {s} /\ passed' = passed \cup {s}
  /\ UNCHANGED <<storeVars, pc, snap, inboxVars, sentVars, faults, force, due,
                 cur, sentNow, lost>>

\* Left pending: the daily limit is reached, which rebalances the account,
\* or the lead's send window is closed.  Either stands for the rest of the
\* tick, so the conversation's later rows meet the same answer.
Defer(s) ==
  /\ Reach(s)
  /\ StillDue(s) /\ AccountOf[s] \in snap
  /\ todo' = todo \ Peers(s)
  /\ UNCHANGED <<storeVars, pc, snap, inboxVars, sentVars, faults, force, passed,
                 cur, sentNow, lost>>
  /\ Rebalanced({AccountOf[s]}, due) \/ UNCHANGED due

\* Left pending because its sequence or its lead could not be read.
CannotLoad(s) ==
  /\ Reach(s)
  /\ StillDue(s) /\ AccountOf[s] \in snap
  /\ Fault
  /\ todo' = todo \ {s} /\ passed' = passed \cup {s}
  /\ UNCHANGED <<storeVars, pc, snap, inboxVars, sentVars, force, due, cur,
                 sentNow, lost>>

\* The last look at the tables before the mail goes out.
PickUp(s) ==
  /\ Reach(s)
  /\ StillDue(s) /\ AccountOf[s] \in snap
  /\ todo' = todo \ {s}
  /\ cur' = s
  /\ pc' = "attempt"
  /\ UNCHANGED <<storeVars, snap, inboxVars, sentVars, faults, force, due,
                 passed, sentNow, lost>>

-----------------------------------------------------------------------------
(* Sending one row: sendRenderedEmail and what is written afterwards. *)

\* Rendering, header validation, the pre-send check or the provider fails.
Refuse ==
  /\ pc = "attempt" /\ pc' = "fail"
  /\ UNCHANGED <<storeVars, snap, inboxVars, sentVars, faults, tickVars, due>>

\* The pre-send check answers "suppressed".  The membership is paused
\* whatever its status is.
Suppress ==
  /\ pc = "attempt" /\ pc' = "loop" /\ cur' = NoSend
  /\ SetRows(Peers(cur) \cap WithStatus("pending"), "skipped")
  /\ members' = [members EXCEPT ![CampaignOf[cur]][LeadOf[cur]] =
       IF @ = "none" THEN "none" ELSE "paused"]
  /\ UNCHANGED <<leads, campaigns, accounts, rotation, inFlight, issued, snap,
                 inboxVars, sentVars, faults, force, due, todo, passed, sentNow,
                 lost>>

Deliver == delivered' = [delivered EXCEPT ![cur] = @ + 1]
Lose(s) == lost' = [lost EXCEPT ![s] = @ + 1]

Accept ==
  /\ pc = "attempt" /\ pc' = "mark"
  /\ Deliver
  /\ UNCHANGED <<storeVars, snap, inboxVars, sentEvents, threaded, faults,
                 tickVars, due>>

\* The mail is out but the provider's answer is an error, a timeout or a
\* result without ids: the row is taken for failed.
AcceptUnknown ==
  /\ pc = "attempt" /\ pc' = "fail"
  /\ Fault
  /\ Deliver /\ Lose(cur)
  /\ UNCHANGED <<storeVars, snap, inboxVars, sentEvents, threaded, force, todo,
                 passed, cur, sentNow, due>>

\* UPDATE ... WHERE id = ?, whatever the row's status has become.
MarkFailed ==
  /\ pc = "fail" /\ pc' = "loop" /\ cur' = NoSend
  /\ Either(SetRows({cur}, "failed"), UNCHANGED sends)
  /\ UNCHANGED <<leads, members, campaigns, accounts, rotation, inFlight,
                 issued, snap, inboxVars, sentVars, force, todo, passed, sentNow,
                 lost, due>>

\* A slip: only a row that still is pending is marked sent.
MarkSentIfPending ==
  /\ pc = "mark" /\ pc' = "event"
  /\ Either(SetRows({cur} \cap WithStatus("pending"), "sent")
              /\ sentNow' = sentNow \cup {cur} /\ UNCHANGED lost,
            Lose(cur) /\ UNCHANGED <<sends, sentNow>>)
  /\ UNCHANGED <<leads, members, campaigns, accounts, rotation, inFlight,
                 issued, snap, inboxVars, sentVars, force, todo, passed, cur,
                 due>>

\* The same for the row that was sent; a failed UPDATE is only logged.
MarkSent ==
  /\ pc = "mark" /\ pc' = "event"
  /\ Either(SetRows({cur}, "sent") /\ sentNow' = sentNow \cup {cur}
              /\ UNCHANGED lost,
            Lose(cur) /\ UNCHANGED <<sends, sentNow>>)
  /\ UNCHANGED <<leads, members, campaigns, accounts, rotation, inFlight,
                 issued, snap, inboxVars, sentVars, force, todo, passed, cur,
                 due>>

SentEvent ==
  /\ pc = "event"
  /\ pc' = IF StepOf[cur] = 1 THEN "thread" ELSE "settle"
  /\ Either(sentEvents' = sentEvents \cup {cur}, UNCHANGED sentEvents)
  /\ UNCHANGED <<storeVars, snap, inboxVars, threaded, delivered, tickVars, due>>

\* A slip: only the next step is threaded.
BackfillNext ==
  /\ pc = "thread" /\ pc' = "settle"
  /\ Either(threaded' = threaded \cup {s \in After(cur) \cap WithStatus("pending") :
                                       StepOf[s] = 2},
            UNCHANGED threaded)
  /\ UNCHANGED <<storeVars, snap, inboxVars, sentEvents, delivered, tickVars, due>>

\* thread_id and parent_message_id for the follow-ups that are pending now.
Backfill ==
  /\ pc = "thread" /\ pc' = "settle"
  /\ Either(threaded' = threaded \cup (After(cur) \cap WithStatus("pending")),
            UNCHANGED threaded)
  /\ UNCHANGED <<storeVars, snap, inboxVars, sentEvents, delivered, tickVars, due>>

\* A slip: follow-ups are not re-anchored after a send.
SettleAsPlanned ==
  /\ pc = "settle" /\ pc' = "loop" /\ cur' = NoSend
  /\ UNCHANGED <<storeVars, snap, inboxVars, sentVars, faults, force, todo,
                 passed, sentNow, lost, due>>

Settle ==
  /\ pc = "settle" /\ pc' = "loop" /\ cur' = NoSend
  /\ UNCHANGED <<storeVars, snap, inboxVars, sentVars, faults, force, todo,
                 passed, sentNow, lost>>
  /\ Rebalanced({AccountOf[cur]}, due)

Finish ==
  /\ pc = "loop" /\ todo = {}
  /\ CompleteFinished
  /\ Rest
  /\ UNCHANGED <<leads, members, accounts, rotation, sends, inFlight, issued,
                 faults, lost>>

-----------------------------------------------------------------------------
(* What else may happen. *)

\* The process is killed, or a statement whose error ends the tick fails.
Stop ==
  /\ pc # "idle"
  /\ Fault
  /\ Rest
  /\ IF pc = "mark" THEN Lose(cur) ELSE UNCHANGED lost
  /\ UNCHANGED storeVars

\* tick --dry-run takes no lock.  It still completes campaigns, and it still
\* marks a row failed that it cannot render (a row no tick could send).
DryRunCompletes ==
  /\ "dry_run" \in Commands
  /\ CompleteFinished
  /\ UNCHANGED <<leads, members, accounts, rotation, sends, inFlight, issued,
                 pc, snap, inboxVars, sentVars, faults, tickVars, due>>

DryRunFails(s) ==
  /\ "dry_run" \in Commands
  /\ sends[s] = "pending"
  /\ campaigns[CampaignOf[s]] = "active" /\ accounts[AccountOf[s]] = "active"
  /\ SetRows({s}, "failed")
  /\ UNCHANGED <<leads, members, campaigns, accounts, rotation, inFlight,
                 issued, pc, snap, inboxVars, sentVars, faults, tickVars, due>>

DryRunTick == DryRunCompletes \/ \E s \in Send : DryRunFails(s)

MailArrives == (\E m \in Msg : Arrive(m)) /\ UNCHANGED <<tickVars, due>>

SendLoop ==
  \/ \E s \in Send : SkipStale(s) \/ Defer(s) \/ CannotLoad(s) \/ PickUp(s)
  \/ Refuse \/ Suppress \/ Accept \/ AcceptUnknown
  \/ MarkFailed \/ MarkSent \/ SentEvent \/ Backfill \/ Settle

TickStep ==
  \/ TickStart \/ LoadAccounts \/ PollInboxes \/ PollDone \/ CompleteAfterPoll
  \/ RebalanceAll \/ LoadSends \/ SendLoop \/ Finish

Init ==
  /\ StoreInit
  /\ InboxInit
  /\ pc = "idle"
  /\ force = FALSE
  /\ due = {} /\ todo = {} /\ passed = {} /\ cur = NoSend /\ sentNow = {}
  /\ lost = [s \in Send |-> 0]

Next == OperatorStep \/ TickStep \/ MailArrives \/ Stop \/ DryRunTick

Spec == Init /\ [][Next]_vars
=============================================================================
