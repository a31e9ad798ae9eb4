--------------------------- MODULE CampaignAlerts ---------------------------
(* The tick (internal/tick.go) as the plan and the operator's channel see   *)
(* it: three times a round of "complete what is finished, announce it, tell *)
(* of accounts that stand idle" (internal/discord_notify.go), and between   *)
(* the second and the third the sends that are due.  A tick may die         *)
(* anywhere; a dry run completes campaigns beside it, without the lock and  *)
(* without announcing anything.                                             *)
EXTENDS CampaignPlans

CONSTANTS
  TickZone,  \* the zone the sender counts its days in
  Strides    \* bound: by how many slots time passes

ASSUME TickAssumption == TickZone \in Int /\ Strides \subseteq Nat

VARIABLES
  tick,      \* what the tick does next, in which round, and what it holds
  counts,    \* sends of today by account, as it counted them
  caps,      \* the daily limits, as it read them when it started
  idle,      \* accounts: is idle_since set, and idle_notified_at
  posts,     \* alerts of a campaign's present completion
  pings,     \* when an account was last called idle, unless it had work since
  slipped,   \* campaigns completed anew while an alert was on its way
  unnoted,   \* something was announced and the tick failed to write that down
  dropped    \* accounts whose events were deleted with a campaign

tickVars == <<tick, counts, caps>>
alertVars == <<idle, posts, pings, slipped, unnoted>>
vars      == <<planVars, deskVars, tickVars, alertVars, dropped>>

\* What the tick works through: items of an order, and the one it is at.
Off == [pc |-> "off", round |-> 0, todo |-> {}, on |-> 0, idle |-> {}]

Goto(pc) == tick' = [tick EXCEPT !.pc = pc]

\* The items that may come first: `at' decides, then `rank'.
Leading(T) == {i \in T : \A j \in T : i.at < j.at \/ (i.at = j.at /\ i.rank <= j.rank)}

\* On to the next item of T at pc, or to what comes after the last.
Proceed(T, pc, after) ==
  IF T = {} THEN tick' = after
  ELSE \E i \in Leading(T) :
         tick' = [tick EXCEPT !.pc = pc, !.todo = T \ {i}, !.on = i.id, !.idle = {}]

\* What follows a round of announcements.
AfterAlerts == CASE tick.round = 1 -> [Off EXCEPT !.pc = "complete", !.round = 2]
                 [] tick.round = 2 -> [Off EXCEPT !.pc = "rebalance", !.round = 2]
                 [] tick.round = 3 -> Off

NotIdle == [since |-> FALSE, told |-> NoTime]

Busy(a) == \E k \in Row : /\ rows[k].status = "pending" /\ rows[k].acct = a
                          /\ camp[k[1]].status = "active"

-----------------------------------------------------------------------------
(* completeFinishedCampaignsAt *)

\* A slip: what is not due yet does not count.
FinishedForNow(c) == /\ camp[c].status = "active" /\ RowsIn(c) # {}
                     /\ \A k \in RowsIn(c) : rows[k].status = "pending" => rows[k].at > now

Finished(c) == /\ camp[c].status = "active" /\ RowsIn(c) # {}
               /\ \A k \in RowsIn(c) : rows[k].status # "pending"

Outcome(c) == IF \E k \in RowsIn(c) : rows[k].status = "failed"
                THEN "completed_with_failures" ELSE "completed"

\* A slip: what was announced of an earlier completion is not forgotten.
CompleteKeepingTold ==
  /\ camp' = [c \in Campaign |-> IF Finished(c)
                THEN [camp[c] EXCEPT !.status = Outcome(c), !.done = now] ELSE camp[c]]
  /\ posts' = [c \in Campaign |-> IF Finished(c) THEN 0 ELSE posts[c]]
  /\ slipped' = slipped \cup {c \in Campaign : Finished(c) /\ tick.pc = "mark" /\ c = tick.on}
  /\ UNCHANGED <<now, links, cohort, rows, events, limit, jobs, balanced, overtaken,
                 counts, caps, idle, pings, unnoted, dropped>>

CompleteFinished ==
  /\ camp' = [c \in Campaign |-> IF Finished(c)
                THEN [camp[c] EXCEPT !.status = Outcome(c), !.done = now, !.told = FALSE]
                ELSE camp[c]]
  /\ posts' = [c \in Campaign |-> IF Finished(c) THEN 0 ELSE posts[c]]
  /\ slipped' = slipped \cup {c \in Campaign : Finished(c) /\ tick.pc = "mark" /\ c = tick.on}
  /\ UNCHANGED <<now, links, cohort, rows, events, limit, jobs, balanced, overtaken,
                 counts, caps, idle, pings, unnoted, dropped>>

TickCompletes ==
  /\ tick.pc = "complete" /\ Goto("list")
  /\ CompleteFinished /\ UNCHANGED left

DryRunCompletes ==
  /\ \E c \in Campaign : Finished(c)
  /\ Spend("dryruns") /\ CompleteFinished /\ UNCHANGED tick

-----------------------------------------------------------------------------
(* ProcessDiscordOperationalNotifications: completions ... *)

KeepStore == UNCHANGED <<planVars, jobs, balanced, overtaken, counts, caps, slipped, dropped>>

\* A slip: those with failures are forgotten.
UnannouncedClean ==
  {c \in Campaign : camp[c].status = "completed" /\ camp[c].done # NoTime /\ ~camp[c].told}

\* listUnnotifiedCampaignCompletions.
Unannounced ==
  {c \in Campaign : camp[c].status \in Completed /\ camp[c].done # NoTime /\ ~camp[c].told}

NextCompletion(T) == Proceed(T, "post", [Off EXCEPT !.pc = "clear", !.round = tick.round])

NextPing(T) == Proceed(T, "ping", AfterAlerts)

\* The oldest completion first.
ListCompletions ==
  /\ tick.pc = "list"
  /\ NextCompletion({[id |-> c, at |-> camp[c].done, rank |-> c] : c \in Unannounced})
  /\ KeepStore /\ UNCHANGED <<left, idle, posts, pings, unnoted>>

\* NotifyDiscord: the alert goes out with the accounts the campaign leaves
\* idle ...
PostCompletion ==
  LET c == tick.on IN
    /\ tick.pc = "post"
    /\ posts' = [posts EXCEPT ![c] = @ + 1]
    /\ tick' = [tick EXCEPT !.pc = "mark", !.idle = {a \in links[c] : ~Busy(a)}]
    /\ KeepStore /\ UNCHANGED <<left, idle, pings, unnoted>>

\* ... or there is no webhook for its workspace: it is passed over ...
PassOver ==
  /\ Spend("faults")
  /\ \/ tick.pc = "post" /\ NextCompletion(tick.todo)
     \/ tick.pc = "ping" /\ NextPing(tick.todo)
  /\ KeepStore /\ UNCHANGED <<idle, posts, pings, unnoted>>

\* ... or Discord refuses: nothing more is announced in this round.
PostFails ==
  /\ tick.pc \in {"post", "ping"} /\ Spend("faults") /\ tick' = AfterAlerts
  /\ KeepStore /\ UNCHANGED <<idle, posts, pings, unnoted>>

\* markDiscordCampaignCompletionNotified: whichever completion stands there now.
MarkAnnounced ==
  LET c == tick.on IN
    /\ tick.pc = "mark" /\ NextCompletion(tick.todo)
    /\ camp' = [camp EXCEPT ![c].told = @ \/ camp[c].done # NoTime]
    /\ idle' = [a \in Account |-> IF a \in tick.idle
                  THEN [since |-> TRUE, told |-> now] ELSE idle[a]]
    /\ UNCHANGED <<now, links, cohort, rows, events, limit, deskVars, counts, caps, posts,
                   pings, slipped, unnoted, dropped>>

-----------------------------------------------------------------------------
(* ... and idle accounts: syncDiscordIdleAccountState, two statements, ... *)

ClearIdle ==
  /\ tick.pc = "clear" /\ Goto("fill")
  /\ idle' = [a \in Account |-> IF Busy(a) THEN NotIdle ELSE idle[a]]
  /\ pings' = [a \in Account |-> IF Busy(a) THEN NoTime ELSE pings[a]]
  /\ KeepStore /\ UNCHANGED <<left, posts, unnoted>>

FillIdle ==
  /\ tick.pc = "fill" /\ Goto("pick")
  /\ idle' = [a \in Account |-> IF Busy(a) THEN idle[a] ELSE [idle[a] EXCEPT !.since = TRUE]]
  /\ KeepStore /\ UNCHANGED <<left, posts, pings, unnoted>>

\* ... then the accounts to tell of: once, and again after a day.
\* A slip: the reminder is due at once.
Overdue ==
  {a \in Account : idle[a].since /\ ~Busy(a)
                   /\ (idle[a].told = NoTime \/ idle[a].told <= now)}

ToPing ==
  {a \in Account : idle[a].since /\ ~Busy(a)
                   /\ (idle[a].told = NoTime \/ idle[a].told <= now - DaySlots)}

PickIdle ==
  /\ tick.pc = "pick"
  /\ NextPing({[id |-> a, at |-> 0, rank |-> a] : a \in ToPing})
  /\ KeepStore /\ UNCHANGED <<left, idle, posts, pings, unnoted>>

PingIdle ==
  /\ tick.pc = "ping" /\ Goto("note")
  /\ pings' = [pings EXCEPT ![tick.on] = now]
  /\ KeepStore /\ UNCHANGED <<left, idle, posts, unnoted>>

NoteIdle ==
  LET a == tick.on IN
    /\ tick.pc = "note"
    /\ idle' = [idle EXCEPT ![a].told = IF idle[a].since THEN now ELSE @]
    /\ NextPing(tick.todo)
    /\ KeepStore /\ UNCHANGED <<left, posts, pings, unnoted>>

-----------------------------------------------------------------------------
(* The sends. *)

SendZone == [zone |-> TickZone]
Today(t) == LocalDay(t, SendZone)

\* A slip: the sender's day is the UTC day.
CountedByUTC(a) == Cardinality({e \in events : e.acct = a /\ UTCDay(e.at) = UTCDay(now)})

\* preloadDailyCounts.
Counted(a) == Cardinality({e \in events : e.acct = a /\ Today(e.at) = Today(now)})

KeepAlerts == UNCHANGED <<alertVars, dropped>>

\* Counts, then the rebalance of all accounts.
RebalanceAll ==
  /\ tick.pc = "rebalance" /\ Goto("load")
  /\ counts' = [a \in Account |-> Counted(a)]
  /\ UNCHANGED <<now, camp, links, cohort, events, limit, jobs, left, overtaken, caps>>
  /\ Rebalance(Account, rows)
  /\ KeepAlerts

NextSend(T) == Proceed(T, "send", [Off EXCEPT !.pc = "complete", !.round = 3])

\* loadDueSends: by time alone, rows due at the same time in any order.
Due == {k \in RowsWith("pending") : rows[k].at <= now /\ camp[k[1]].status = "active"}

LoadDue ==
  /\ tick.pc = "load"
  /\ IF Due = {} THEN tick' = Off
     ELSE NextSend({[id |-> k, at |-> rows[k].at, rank |-> 0] : k \in Due})
  /\ UNCHANGED <<planVars, deskVars, counts, caps>> /\ KeepAlerts

\* refreshPendingSend, and the checks up to the transport.
Ripe(k) == /\ rows[k].status = "pending" /\ rows[k].at <= now
           /\ camp[k[1]].status = "active"
Capped(k) == counts[rows[k].acct] >= caps[rows[k].acct]
Sendable(k) == InWindow(now, RulesFor(k[2], camp[k[1]].rules))

\* No longer due, or outside its window: left for another tick.
PassBy ==
  LET k == tick.on IN
    /\ tick.pc = "send"
    /\ Ripe(k) => ~Capped(k) /\ ~Sendable(k)
    /\ NextSend(tick.todo)
    /\ UNCHANGED <<planVars, deskVars, counts, caps>> /\ KeepAlerts

\* The account has had its day: it is rebalanced.
PutOff ==
  LET k == tick.on IN
    /\ tick.pc = "send" /\ Ripe(k) /\ Capped(k) /\ NextSend(tick.todo)
    /\ UNCHANGED <<now, camp, links, cohort, events, limit, jobs, left, overtaken, counts, caps>>
    /\ Rebalance({rows[k].acct}, rows)
    /\ KeepAlerts

Deliver ==
  LET k == tick.on
      a == rows[k].acct
  IN /\ tick.pc = "send" /\ Ripe(k) /\ ~Capped(k) /\ Sendable(k)
     /\ rows' = [rows EXCEPT ![k].status = "sent", ![k].sent = now]
     /\ events' = events \cup {[key |-> k, at |-> now, acct |-> a]}
     /\ counts' = [counts EXCEPT ![a] = @ + 1]
     /\ Goto("tidy") /\ Balances({}, {a})
     /\ UNCHANGED <<now, camp, links, cohort, limit, jobs, left, overtaken, caps>>
     /\ KeepAlerts

\* The rebalance after a send.
Tidy ==
  /\ tick.pc = "tidy" /\ NextSend(tick.todo)
  /\ UNCHANGED <<now, camp, links, cohort, events, limit, jobs, left, overtaken, counts, caps>>
  /\ Rebalance({rows[tick.on].acct}, rows)
  /\ KeepAlerts

\* markSendFailed: no rebalance, be it that a later mail of the lead left
\* already and the next ones were laid out from this one.
Fail ==
  LET k == tick.on IN
    /\ tick.pc = "send" /\ Ripe(k) /\ ~Capped(k) /\ Sendable(k) /\ Spend("failures")
    /\ rows' = [rows EXCEPT ![k].status = "failed"]
    /\ NextSend(tick.todo)
    /\ Balances({}, AccountsOf(After(k, RowsWith("sent"))))
    /\ UNCHANGED <<now, camp, links, cohort, events, limit, jobs, overtaken, counts, caps>>
    /\ KeepAlerts

-----------------------------------------------------------------------------

TickStart ==
  /\ tick.pc = "off" /\ left.cron > 0
  /\ tick' = [Off EXCEPT !.pc = "complete", !.round = 1]
  /\ caps' = limit
  /\ UNCHANGED <<planVars, deskVars, counts>> /\ KeepAlerts

Announce ==
  \/ ListCompletions \/ PostCompletion \/ PassOver \/ PostFails \/ MarkAnnounced
  \/ ClearIdle \/ FillIdle \/ PickIdle \/ PingIdle \/ NoteIdle

Dispatch == RebalanceAll \/ LoadDue \/ PassBy \/ PutOff \/ Deliver \/ Tidy \/ Fail

TickStep == TickCompletes \/ Announce \/ Dispatch

Die ==
  /\ tick.pc # "off" /\ Spend("faults")
  /\ tick' = Off
  /\ unnoted' = (unnoted \/ tick.pc \in {"mark", "note"})
  /\ KeepStore /\ UNCHANGED <<idle, posts, pings>>

\* A tick or a command takes less than a slot.
Pass ==
  /\ tick.pc = "off" /\ jobs = {} /\ Spend("time")
  /\ \E d \in Strides : now' = now + d
  /\ UNCHANGED <<camp, links, cohort, rows, events, limit, jobs, balanced, overtaken, tickVars>>
  /\ KeepAlerts

\* A retried campaign starts over; a deleted one takes its events along.
Desk ==
  /\ Operator
  /\ posts' = [c \in Campaign |-> IF camp'[c].done = NoTime THEN 0 ELSE posts[c]]
  /\ dropped' = dropped \cup {e.acct : e \in events \ events'}
  /\ UNCHANGED <<tickVars, idle, pings, slipped, unnoted>>

Init ==
  /\ PlanInit
  /\ tick = Off /\ caps = limit
  /\ counts = [a \in Account |-> 0]
  /\ idle = [a \in Account |-> NotIdle]
  /\ posts = [c \in Campaign |-> 0]
  /\ pings = [a \in Account |-> NoTime]
  /\ slipped = {} /\ unnoted = FALSE /\ dropped = {}

Next == Desk \/ TickStart \/ TickStep \/ DryRunCompletes \/ Die \/ Pass

\* Cron starts a tick whenever none runs, and a tick, a program without
\* endless loops, comes to its end.
Spec == Init /\ [][Next]_vars /\ WF_vars(TickStart) /\ []<>(tick.pc = "off")
=============================================================================
