# Verification of cold-cli

TLA+ models of cold-cli, a command-line cold-email sender: a cron-driven *tick*
polls inboxes, stops the conversations that were answered, and sends what is
due; an operator types commands against the same database at any moment. The
models are translated from the Go source; `PROJECT.json` maps every definition
to the lines it stands for.

## The system

One SQLite (or Postgres) database is the only shared state. The actors:

- **the tick** (`internal/tick.go`), one process at a time under a lock
  (`internal/store.go`): complete finished campaigns, load the active accounts,
  poll their inboxes, complete again, rebalance the schedule, load the due rows,
  re-check and send each, complete again;
- **the inbox handlers** inside the tick (`internal/reply.go`): match a message
  to a conversation, classify it, record an event, stop the conversation;
- **operator commands** (`internal/lead.go`, `account.go`, `campaign.go`,
  `cmd/cold-cli/main.go`): each is a transaction, and *none takes the tick lock*;
  many look a status up before they open their transaction;
- **manual replies** (`email_message.go`, `email_thread_sync.go`): a process each,
  without the lock, that refreshes a thread, sends one mail and records it;
- **the notifier** inside the tick (`discord_notify.go`): inbox events by a cursor,
  finished campaigns, accounts that stand idle;
- **the dry run** of the tick, without the lock: it completes campaigns, fails rows
  it cannot render, and writes the notifier's cursor if it finds none;
- **reconciliation** (`inbox_audit.go`), at night and by hand, under the tick's
  lock: compare each mailbox with the database, import what is missing, compare
  again; and **reviews** (`inbox_followups.go`, `inbox_needs_reply.go`), which
  compare without the lock and then list whom to write to;
- **importers** (`email_thread_sync.go`, `email_message_backfill.go`), without the
  lock: they store snapshots of messages and no events;
- **outside**: mail provider (SMTP/Gmail), IMAP servers, the pre-send check
  command, recipients, cron.

They interact through table rows only: a command changes the rows the running
tick has in memory, and the tick protects itself by re-reading each row just
before it sends (`refreshPendingSend`). There are no transactions across a
provider call, so every delivery is followed by a series of separate statements.

### Inventory

| Component | State it keeps | Operations | What makes it correct |
|---|---|---|---|
| Lead commands | `leads.global_status`, `campaign_leads.status`, rows | pause, resume, remove-lead, blacklist (address, domain) | a suppressed lead is never mailed; nothing comes back that must not |
| Account lifecycle | `accounts.status`, `daily_limit`, `campaign_accounts`, rows | pause, resume, remove, update, (add) | resume restores only rows of leads that may still be mailed; a new limit holds for the whole plan |
| Campaign commands | `campaigns`, `campaign_accounts`, `campaign_leads`, rows | create, create-draft, clone, add-leads, update, activate, pause, resume, send-now, retry, preview, delete | completed means done; whatever is added or moved, the plan stays one the accounts can keep |
| Tick engine | the loop's variables, row statuses, `events`, `campaigns.status` | one tick | at most one delivery unless the outcome is lost; step order; delays; ticks and campaigns end |
| Inbox handling | `events`, statuses, rows | reply, domain stop, unsubscribe, auto reply, bounce | handled once, and the conversation stops for good |
| Schedule rebalancing | `scheduled_sends.send_at` | rebalance per account set | order, delays, gaps, anchors, cohort dates, daily limits, windows |
| Tick lock | a lock file / advisory lock | acquire, wait, release, be lost | one tick or reconciliation at a time |
| Database layer | the connection | transactions, busy retries, migrations | a retried transaction takes effect once |
| Manual replies | `manual_reply_attempts`, messages | preview, reserve, send, persist | an idempotency key is sent at most once |
| Discord notifications | the event cursor, `completion_notified_at`, `idle_since`, `idle_notified_at` | inbox events, completions, idle accounts | nothing is skipped; first announcements are in order; repeats are bounded |
| Poll cursors | `reply_poll_at` per account, `last_poll_at` | list since, advance | no message is left behind |
| Snapshots, backfill, reconciliation | `email_messages`, `events` | sync, backfill, reconcile | missed messages are found, handled once, and clean means clean |
| Follow-up and needs-reply lists | none | review | whoever answered or opted out is not asked again |
| Transports, pre-send check | none (external) | send, list, check | modelled by their answers |
| Statistics, templates, imports, configuration, facade | none of interest | | |

The hard behaviours: commands between two statements of a tick; a crash or a
failed statement between delivery and bookkeeping; an ambiguous provider
answer; check-then-act commands; several-statement handlers that are
deduplicated by the first of them; rows restored by one command that another
one had cancelled; several workers on one inbox, where mail is listed later than
it is dated; a lock that can be lost; post-then-write-the-cursor; two campaigns
that share an account's days, in different zones. `PROJECT.json` "hazards" lists them line by line.

## The modules

| Module | Models | Built on |
|---|---|---|
| `ColdStore` | the tables and the operator's commands | |
| `InboxHandling` | reply.go's handlers, statement by statement | `ColdStore` |
| `TickEngine` | the whole tick composed with commands, inboxes, faults and crashes | `InboxHandling` |
| `TickProperties` | what it promises; the fairness | `TickEngine` |
| `TickProofs` | theorems: types, at most one delivery, row lifecycle; what was stopped stays stopped | `TickProperties`, `TLAPS` |
| `ScheduleProofs` | theorems: order and delays of the steps | `TickProofs` |
| `MCTick`, `MCInbox` | the small instances TLC checks | `TickProperties` |
| `ThreadStore` | one conversation: snapshots, events, lead status, and the tick's poll that writes them | |
| `ManualReply` | `inbox reply --send`: refresh, preview, reservation, delivery, record | `ThreadStore` |
| `OneDelivery` | what an idempotency key promises, abstractly | |
| `ReplyProofs` | theorems: the refinement of `OneDelivery`, records, opt-outs on record | `ManualReply`, `TLAPS` |
| `MCReply` | the small instances TLC checks | `ManualReply` |
| `Calendar` | zones, days, windows, send days: which instants are admissible | |
| `Planner` | `ComputeSchedule` and `rebalancePendingSchedulesTx`, exactly | `Calendar` |
| `CampaignPlans` | the commands that lay out or move a plan | `Planner` |
| `CampaignAlerts` | the tick as the plan and the channel see it: completion, alerts, counts, caps, sends | `CampaignPlans` |
| `PlanningProperties`, `MCPlanning` | what a plan and its alerts promise; the instance | `CampaignAlerts` |
| `PlacementProofs` | theorems: the placement loop ends, and what the plan it makes keeps to | `Planner`, `TLAPS` |
| `PlanningProofs` | theorems: types, plans, caps, completion and alerts under commands, ticks and crashes | `PlanningProperties`, `PlacementProofs` |
| `InboxLedger` | mailboxes, events, snapshots; the statements of handlers and importers; the two lists | |
| `InboxWorkers` | ticks, reconciliation, reviews, the notifier, their lock and the dry runs without it, on one ledger | `InboxLedger` |
| `Outbox` | what the channel is promised of the inbox, abstractly | |
| `InboxProperties`, `MCOperations` | what the operator may rely on; the instance | `InboxWorkers`, `Outbox` |
| `InboxProofs` | theorems: types, one event to a message | `InboxProperties`, `TLAPS` |
| `OutboxProofs` | theorems: the refinement of `Outbox`, announcements once and rightly labelled | `InboxProofs` |
| `PollProofs` | theorems: nothing is left behind a cursor, clean means opt-outs were acted upon, lists are fresh | `OutboxProofs` |

Four groups look at one program. `TickEngine` follows each row through the tick
and knows of time only what is due; `CampaignAlerts` has the clock, the plan and
the limits, and a delivery is one step. `InboxHandling` follows the handlers
through rows and memberships for many leads; `ThreadStore` the same statements
through what a manual reply reads; `InboxLedger` the same again, message by
message, through what is read to tell whether a message is known. Each group
leaves out what its properties do not tell apart, and every statement of
`reply.go` and `tick.go` is in one at least.

### State

`leads`, `members`, `campaigns`, `accounts`, `rotation` and `sends` are the
status columns of `leads`, `campaign_leads`, `campaigns`, `accounts`,
`campaign_accounts` and `scheduled_sends`. A row's lead, campaign, account and
step never change and are constants. `recorded` and `sentEvents` are the inbound
and the `sent` rows of `events`; `threaded` says which follow-ups carry the
first step's thread. `pc`, `force`, `snap`, `todo`, `cur`, `msg`, `seen` are the
tick process's memory: a crash clears exactly those. `delivered` counts what left
through the provider and `lost` the deliveries whose outcome the row was never
told; `passed` are the loaded rows the loop went past without sending them. The
three are history: no action reads them, except the recipient's `Arrive`.

Of a manual reply, `pc[p]`, `listed[p]` and `to[p]` are what invocation `p`
keeps in memory: where it is, the mail its refresh has yet to store, the recipient
it resolved last. `attempts` is `manual_reply_attempts.status` by key, where
`"none"` is no row. `stored` is `email_messages`, `recorded` the inbound and
`noted` the `manual_reply` rows of `events`, `lead` the global status, `mailbox`
what the provider holds. A mail of ours is named by the invocation that sends it.
`copies`, `gone`, `warned` and `found` are history: no guard reads them.

In the planning group `camp` holds the rules of `campaigns` (start date, window,
days, zone, smallest gap), its status, `completed_at` (`done`) and whether
`completion_notified_at` is set (`told`); `links` and `cohort` are
`campaign_accounts` and `campaign_leads` with `cohort_start_date`; `rows` is
`scheduled_sends` with `send_at`, `sent_at` and the account; `events` the usage,
`sent` and `manual_reply`. `jobs` are commands that have read and not yet
committed. `tick`, `counts` and `caps` are the tick's memory, `idle` the idle
columns of `accounts`. `balanced` says which accounts had their plan laid out
since the last change to it, so that a property of the plan is asked only of
those; `posts`, `pings`, `slipped`, `unnoted`, `overtaken`, `dropped` are history.

In the operations group `date`, `shown` and `filed` are the mailboxes: the date a
message bears, whether it is listed, whether it left INBOX. `log` is `events` in
the order of their ids with the label in `metadata`; `snaps` is `email_messages`;
`cursors`, `lastPoll` and `cursor` are the rows of `kv`; `job[w]` is the memory of
worker `w` and lost when it dies: its batch of messages, those of them it has
without a body (`bare`), the newest event as it read it before writing a first
cursor (`base`). `by`, `botched`, `unasked`, `misread`, `imported`, `origin`, `heard`,
`passed`, `posts`, `unnoted`, `severed` are history. `botched` are the messages a
statement failed for, `unasked` those taken for new because the lookup failed and
its error was dropped; `passed` the events that lay behind a first cursor when it
was written; `origin` where the latest listing of an account began that had no
cursor of its own to begin at, or none it could read.

The first cursor takes a subscriber, a tick or a dry run, three steps: `Ensure` looks
for it, `Baseline` reads the newest event, `Subscribe` writes, whatever the cursor is
by then. No transaction holds them together in the code.

### One action is one commit

A transaction is one action, and so is a statement that commits by itself.
A handler that runs several statements outside a transaction is several actions
chained by `pc` (`reply_member`, `reply_rows`, ...), and each of these statements
may fail (`Either`): the code logs the error and goes on. A command that checks a
status before its transaction is two actions, `...Check` and the commit, with
the command in `inFlight` between them; anything may happen in between, and the
commit does not check again, as in the code. `Stop` is a crash, or an error that
ends the tick, at any point of it.

Operators marked "A slip" are variants of the definition that follows them, each
with a mistake such code is prone to. No specification uses them; they show that
the properties tell the code from its near misses.

### Time

A tick takes one `now` and compares every `send_at` with it, so the model keeps
`due`, the rows whose `send_at` is not after that now, and no clock.
`RebalanceAll` starts a tick's schedule: any rows may have come due, earlier
steps before later ones. `Rebalanced` is what `rebalancePendingSchedulesTx`
guarantees when it runs again inside a tick (after each send, at a daily limit,
in commands): it rewrites only pending rows of open campaigns on the accounts in
question; a follow-up is due only if the earlier pending rows are; a row anchored
at a step sent in this very tick is not due unless its delay is zero; an
unanchored first row does not become due earlier than it was. Limits, gaps and
windows may push any row later, hence the free choice of a subset. That the exact
plan of `Planner` does no more than this is the theorem `TickSeesRebalanced`, with one
case `TickEngine` leaves out: a first row more than 30 days off is pulled back to the
present, and is due at once if the rebalance runs in the very second the tick began.

The planning group has the clock `TickEngine` leaves out. An instant is a number
of slots, `DaySlots` to a day, a zone an offset; `now` passes in strides while no
tick runs and no command is half-way, because both take less than a slot. The
operations group counts coarse units too: `Overlap` and `Lag` of them; time
passes there also while a tick lists a mailbox, since the cursor is set to when
the poll began.

### What is abstracted

- SQLite's transactions are serial; Postgres runs READ COMMITTED, where a
  transaction could see two states. Not modelled.
- The classifier's verdict on a message is a constant of the message. Every
  recipient has a domain that is not empty.
- In `InboxHandling` a listed message stays listed; cursors, overlap and listing
  failures are `InboxWorkers`'.
- `TickEngine` leaves out snapshots and posts: none of its properties reads them.
- `stop_on_reply` is stored by the code but no handler reads it; every campaign
  stops on a reply, in the model too.
- The dry run's row failure is one action although it reads and writes in two
  statements.
- `ManualReply` has one conversation of one lead. That the account is active, the
  membership exists, the headers parse and the queries succeed is the choice not to
  take `Reject`. Date headers follow the order in which mails are made, so no two
  snapshots tie. Cc and Reply-To lists are left out: a mail has one sender and one
  recipient. Snapshots are a set, so a duplicate row cannot be seen.
- A caller outside `Cli` stands for a host that calls `SendInboxReply` with
  `RefreshThread` set; it has shown nobody a preview to confirm.
- In `ThreadStore` blacklisting by the poll is one statement; memberships and rows,
  which no manual reply reads for its decision, are `InboxHandling`'s.
- The plan: the random part of a gap is nil, so gaps are the smallest ones allowed;
  all campaigns have the same steps and delays; a zone has no daylight saving.
  Windows with their end before their start, which the code accepts, are in the
  type of the rules, and so in what is proved, but not in what the run sets up. A
  limit below 1 is treated as 1 by the code and is not set. Gaps and
  delays below zero, which the code does not reject, are not set either: under them
  mails would be planned before those placed already.
- `campaign add-leads` takes nobody a second time whose rows outlived a
  `campaign delete` that failed.
- A delivery is one step of `CampaignAlerts`; its bookkeeping is `TickEngine`'s.
  `campaign delete` chooses whether a snapshot keeps the events from going.
- The inbox: one conversation to an account, bounces and automatic answers aside
  (`InboxHandling`). Messages of the operator's own are those sent past cold-cli.
  `List` returns the messages in any order, reconciliation takes them oldest first,
  and messages that go opposite ways never bear the same date. All accounts are
  polled in one batch, so one beginning serves for their cursors and for
  `last_poll_at`; the code has a batch for each provider.
- Reconciliation as a command of its own or with `--reconcile` before a list is one
  worker; `inbox audit --apply` is one that ends after the first pass. An importer
  stores one snapshot in one step.
- Events are numbered in the order they commit. With Postgres and two writers a
  lower number may commit later, and a notifier in between would pass it over: not
  modelled.

## What the runs check

| Run | Instance | Checks |
|---|---|---|
| `delivery` | sequence of two and a single mail, one account; 2 commands of pause/resume lead, retry, pause/resume campaign; 1 fault | `LedgerBalances`, `CompletedMeansDone`, `RowLifecycle`, `TypeOK` |
| `schedule` | sequence of three with an immediate last step, and a colleague; a reply and an automatic answer; 2 commands of activate, pause/resume campaign, send-now, remove lead; `tick --now` | `StepOrder`, `DelaysHold`, `FollowUpsThreaded`, `DomainReplyStops` |
| `progress` | sequence of two; 2 commands, 1 fault, dry runs; with fairness | `TicksFinish`, `CampaignsComplete` |
| `stopping` | one lead in two campaigns on two accounts, answering with a reply, a bounce and an unsubscribe; 2 commands of blacklist lead/domain, pause/resume/remove account | `SuppressedLeadIsQuiet`, `RepliedStaysQuiet`, `TypeOK` |
| `reply_then_resume` | as `stopping` with pause and resume lead | `RepliedStaysQuiet` **fails** |
| `retry_after_unsubscribe` | as `stopping` with retry | `SuppressedLeadIsQuiet` **fails** |
| `crash_mid_unsubscribe` | no commands, one crash | `UnsubscribeTakesEffect` **fails** |
| `manual_reply` | the same reply from the command line and from a host, next to a poll; two of a reply by a colleague, an unsubscribe and a bounce arrive; 1 fault; Gmail or SMTP | `OneDeliveryPerKey`, `RecordsAgree`, `RecordedOptOutBlocks`, `TypeOK` |
| `misdirected_reply` | one command, one reply by a colleague | `ConfirmedRecipient` **fails** |
| `reply_after_opt_out` | one command; a reply, an unsubscribe and a bounce | `DiscoveredOptOutBlocks` **fails** |
| `planning` | two campaigns of two leads and two steps, two accounts, days of four slots, three zones; twelve stories of commands, ticks and faults | `PlanFitsLimit`, `PlanKeepsGaps`, `PlanIsSendable`, `PlanKeepsDelays`, `CohortWaits`, `NothingStranded`, `AnnouncedOnce`, `DailyCap`, `IdleOncePerDay`, `Announced`, `TypeOK` |
| `operations` | two accounts, one of them announced; a reply, an own answer, an opt-out and a reply elsewhere; two ticks, a dry run, a reconciliation, a review, importers; sixteen stories | `OneEventPerMessage`, `NothingBehindCursor`, `LabelTruth`, `OptOutsActedOn`, `ListsAreFresh`, `AnnouncedOnce`, `OutboxSpec`, `EventuallyRecorded`, `EventuallyHeard`, `TypeOK` |

- **`LedgerBalances`** is the at-most-once promise with its exact exception: a
  row's deliveries are those whose outcome was lost, plus one if it says `sent`.
- **`RowLifecycle`**: `sent` is final; only `cancelled` and `failed` rows come
  back; a `skipped` row changes only as the row in flight.
- **`CompletedMeansDone`**: no command puts work behind a completed campaign.
- **`StepOrder`, `DelaysHold`, `FollowUpsThreaded`**: rows are loaded once and
  sent much later; the re-check and the rebalance after each send keep order,
  delay and thread. Order and delay have one exception: a conversation of which the
  loop went past an earlier step, as paused or as no longer due (`passed`). Delays are
  not asked of `tick --now`, nor after a send whose `sent_at` could not be written.
- **`SuppressedLeadIsQuiet`, `RepliedStaysQuiet`, `DomainReplyStops`**: what was
  stopped stays stopped whatever the operator resumes meanwhile.
- **`TicksFinish`, `CampaignsComplete`**: progress under fairness.
- **`OneDeliveryPerKey`** is the refinement `ManualReply => OneDelivery!OneSpec`: a
  key is claimed once, its mail leaves once at most, its outcome is written once,
  and `sent` only of a mail that left, whatever crashes and whoever repeats it.
- **`RecordsAgree`**: attempt, event and snapshot are there together or not at all,
  and only a recorded delivery is answered with "already sent".
- **`RecordedOptOutBlocks`**: an opt-out on record before the command starts blocks
  it, also where the tick died between the event and the status.
- **`PlanFitsLimit`, `PlanKeepsGaps`, `PlanIsSendable`, `PlanKeepsDelays`,
  `CohortWaits`**: a plan laid out for campaigns with different rules, whatever was
  sent, stopped, added or edited before, is one the sender will accept, fits the
  days of the account and keeps distance. They are asked of the accounts in
  `balanced`; `send now`, a manual reply or a stop in between takes an account
  out until the next rebalance.
- **`DailyCap`**: the plan counts UTC days, the sender days of its own zone; yet no
  mail leaves an account that had sent as many that day as the limit the tick read.
- **`NothingStranded`**: a completed campaign keeps no pending row.
- **`AnnouncedOnce`, `Announced`, `IdleOncePerDay`** (planning): the marks in the
  database and the alerts on the channel agree across retries, dry runs and
  crashes.
- **`OneEventPerMessage`**: two cursors overlap, importers store snapshots beside,
  and reconciliation handles what the poll would handle. While the
  lock is not lost, only a message whose lookup failed is excepted.
- **`NothingBehindCursor`, `EventuallyRecorded`**: late mail, failing listings and
  dying ticks do not make the poll skip a message.
- **`OutboxSpec`** is the refinement `InboxWorkers => Outbox!BoxSpec`: every
  concerned event is heard, first in order, and the cursor passes none that was
  not, but by the hand of a subscriber that found no cursor and writes one; it holds
  also when two notifiers run because a lock was lost, and with dry runs beside them.
  That such a write may come too late is one of the behaviours listed below (`passed`).
  **`AnnouncedOnce`** (operations) bounds the repeats, **`EventuallyHeard`** is its
  liveness, **`LabelTruth`** says the alert tells a recovered reply from a new one.
- **`OptOutsActedOn`, `ListsAreFresh`**: what a clean verification entitles one to
  believe, with the exceptions named in the definitions; each exception is a
  behaviour of the code found by TLC, listed below.

### Bounds

`MaxCommands` (2) caps commands typed per behaviour, `MaxFaults` (at most 1)
failed statements, lost outcomes and crashes; rows, leads and messages are the
sets of each instance. Ticks, deliveries and dry runs are not capped. Two
commands are what a hazard of this code takes: one that takes rows away and one
that brings them back, each in two halves, around a tick that is itself cut into
a dozen steps. One fault per behaviour still leaves any number of clean ticks to
expose what it left behind. Two steps show every order problem between an earlier
and a later row; the third is there for threading beyond the next step and for
the step with no delay. Two campaigns and two accounts are needed for global
suppression; no property relates three.

`MaxArrivals` caps the answers of a conversation. Two invocations show every race
for a key: a third finds it as the second one does. A single fault is a crash of
either invocation or of the poll, a lost outcome or a failed statement; two answers
make a newest one and one it hides.

`Budgets` of `planning` and `operations` is a set of *stories*: how often a
behaviour may do each kind of thing. A story has room for the hazard it is about
and one thing more; one budget for all would be the sum of them, which TLC cannot
exhaust. Two limits, two gaps, two windows and three zones are what a plan can get
wrong between two neighbours; days of four slots make overfull days, a window that
ends inside a day and carry-over happen within two rows. `StaleDays` is 2 instead
of 30. In `operations` a page of the notifier has one event, so that paging
happens; `Lag` and `Overlap` are equal, the least overlap for which nothing is
lost. Ticks are not capped where a story has cron.

No symmetry is declared: rows, leads and campaigns differ in role in each
instance. Deadlock is checked in every run of the tick, and there is none: a tick
can always start. The runs of `MCReply` do not check it, because an invocation
ends and mail stops arriving: their behaviours really stop. Nor do `planning` and
`operations`, where a story without cron ends.

### Fairness

`WF(TickStep)`: cron starts ticks for ever (the documented `*/10` entry of
`ops/`), and a process that runs takes its next step. `SF` of "a rebalance
makes this row due" and of `PickUp(s)`: time passes, daily limits reset and send
windows reopen, so a row that is pending time and again is due time and again and
not put off every time. No fairness is assumed of operators, recipients, faults
or the second half of a command. Under it a tick ends and an active campaign is
left, whatever fails, is skipped or cancelled.

`planning` and `operations` assume less of the tick: `WF(TickStart)`, cron again,
and that a tick comes to its end (`[]<>(tick.pc = "off")`), which `TicksFinish`
shows of the engine. `operations` adds `[]<>(holder = Nobody)`: every command that
takes the lock is a program without endless loops. No fairness is assumed of mail,
operators, reviews, importers or reconciliation: the poll and the notifier alone
must get there.

## Where the code and its documents part

1. `lead resume` restores every cancelled row of the lead (`lead.go:106`). A reply
   that comes while the lead is paused leaves no trace in the columns it reads, so
   the conversation goes on after a reply (README:433). Run `reply_then_resume`.
2. `campaign retry` resets every failed row (`campaign.go:1839`) and the tick does
   not read `global_status` before it sends, so a lead that unsubscribed (README:435)
   is mailed again. Run `retry_after_unsubscribe`.
3. The event that deduplicates an unsubscribe is inserted before the lead is
   blacklisted (`reply.go:250`); a crash in between loses the request for good
   (ARCHITECTURE:259). Run `crash_mid_unsubscribe`.
4. `--confirm-to` is compared with one preview (`main.go:2040`) and the mail goes to
   what a second one resolves (`email_message.go:443`). A tick that stores a newer
   answer from another address in between redirects the reply (README:460). Run
   `misdirected_reply`.
5. An opt-out that the refresh discovers blocks the send only if it is the newest
   mail of the thread (`email_message.go:371`), against README:465: the refresh
   stores snapshots, and opt-outs are looked up in events. Run `reply_after_opt_out`.

Also met, and kept out of the passing runs by their choice of `Commands` or of
`MaxFaults`:

- lead pause while a first step is in flight, then lead resume: the follow-up
  misses its thread and the re-anchoring (`FollowUpsThreaded`, `DelaysHold`); account
  pause and resume, or a retry behind a forced tick, cost it its thread too; resume and
  retry bring rows back that the loop has dealt with (`StepOrder`);
- lead resume checks the blacklist before its transaction: an unsubscribe in
  between is undone (`SuppressedLeadIsQuiet`);
- account remove between the two halves of account resume: rows come back outside the
  rotation, so campaign resume does not rebalance them; a follow-up may then leave in
  the tick that sent the step before it (`DelaysHold`);
- account remove, then lead resume: rows come back on an account no tick loads and
  the campaign never ends (`CampaignsComplete`);
- account resume between the two statements of a domain stop restores a colleague's
  row (`DomainReplyStops`); retry brings a colleague's failed row back;
- a fault between the statements of a bounce leaves pending rows of a bounced lead,
  and the first statement is the dedup (`SuppressedLeadIsQuiet`);
- a dry run completes a campaign while its last row is in flight (it takes no lock),
  and marks rows it cannot render as failed although it is described as a preview
  (README:202).

Named as an exception in the property concerned:

- Pause and resume of a campaign inside one loop: the first step is skipped as
  paused, the second, reached after the resume, is sent first, and so without its
  delay. The same when a first step that had been put off falls due again while the
  loop runs (`passed`; run `schedule` has all of this).
- `campaign delete` ignores the errors of its five statements (`campaign.go:985`).
  With SQLite, once a mail was sent its snapshot refers to the campaign and to the
  row: both stay while memberships and account links go, and the command reports
  success. Rows that are pending then are still sent, and the events that went are
  missing from the daily count (`dropped`). With Postgres the transaction fails.
- A campaign that is retried and completes again while its first alert is being
  posted is marked as announced, and the second alert never goes out (`slipped`).
- `campaign add-leads` without `--reactivate` checks the status before its
  transaction: leads added to a campaign that completes in between stay pending
  behind it (`overtaken`).
- `campaign preview` and the daily-limit warnings rebalance, although they are reads.
- A snapshot stored by a refresh or a backfill makes reconciliation regard the
  message as known (`inbox_audit.go:578`): an opt-out outside INBOX is then never
  acted upon, and the state is called clean (`imported`).
- When IMAP refuses the bodies (`inbox_audit.go:184`) messages are imported from
  their headers, and an opt-out as a reply; that run fails, the next one finds
  nothing missing (`misread`). The backfill reads the rest of a thread likewise.
- The label of a recovered event is a second statement (`inbox_audit.go:289`
  follows `reply.go:250`): dying between the two has it announced as new
  (`botched`).
- When the event of an imported own message cannot be written, its snapshot makes
  it known, and the event is never written.
- An account without a cursor of its own starts from `last_poll_at`, which advances
  although its listing failed (`tick.go:148`); what came before is left to
  reconciliation (`origin`).
- A review may see the event of an answer before its snapshot; it then lists the
  conversation by the message before (the condition `Stored` in `ListsAreFresh`).
- Nobody checks that a window opens before it closes: a campaign with an inverted or
  empty window is planned all the same, and none of its mails is ever sent. Hence the
  condition `r.from < r.to` in `PlanIsSendable`.
- The notifier's first cursor is looked for, the newest event read and the cursor
  written in three statements, and a dry run does all that without the lock
  (`discord_notify.go:323`, `main.go:1834`, `tick.go:80`). Begun before the first tick
  has written its cursor, it may write one past a reply that tick has recorded, which
  is then never announced (`passed`), although "replies found during that tick still
  notify" (`discord_notify.go:321`): TLC finds this without the exception. The same
  write with an older number moves the cursor back, and events are announced again
  (`unnoted`). Two ticks after a lost lock can do either too.
- Two notifiers after a lost lock can also move the cursor back by what each notes:
  events are announced again, none is lost.
- The error of the deduplicating COUNT is ignored (`reply.go:176`), and so are those of
  the two lookups of `auditMessageAlreadyStored` (`inbox_audit.go:578`); no index
  keeps a second event out. When such a lookup fails, a message that is recorded is
  handled again, with a second event and a second announcement (`unasked`). Of the
  lookup by thread (`reply.go:205`) the error is dropped as well: the message is then
  taken for a stranger's and passed by (`botched`).
- A cursor that cannot be read counts as none (`reply.go:43`): the poll falls back on
  `last_poll_at`, or on the last day, and then advances the cursor past what it did
  not list (`origin`).
- An IMAP server that does not return a body it lists leaves the message with its
  headers and no error (`inbox_audit.go:252`): it is imported from them, an opt-out as
  a reply, and the run is called clean (`misread`).

## What is proved

With TLAPS, for every set of rows, leads, campaigns, accounts and messages, every
choice of commands and every bound:

- `TypeCorrect` (`TickProofs`): `Spec => []TypeOK`. `TypeOK` is inductive by
  itself: it also says that `cur` is a row exactly while one is being sent and
  `msg` a message exactly inside a handler. The proof has a step per action;
  the commands, the inbox handlers and the tick have a lemma each.
- `LedgerAlwaysBalances`: `Spec => []LedgerBalances`. The ledger
  alone is not inductive: the UPDATE after a delivery is unconditional, so
  `MarkSent` on a row that already said `sent` would lose a delivery. The
  strengthening is `IInv == TypeOK /\ LedgerBalances /\ InFlightUnsent`; the last
  conjunct says that the row in flight is not `sent`. It survives because the
  tick picks up only `pending` rows and no command ever writes `sent`: lemmas
  say which rows each group of actions can move and where to.
- `RowsKeepTheirLifecycle`: `Spec => RowLifecycle`, from the same invariant.
- `AtMostOnce`: a row with no lost outcome was delivered at most once.

What was stopped stays stopped, and the steps of a sequence keep their order
(`TickProofs`, `ScheduleProofs`). These have hypotheses on `Commands`, because
without them they are false: each excluded command has a run or an entry of the list
above that shows how. `Commands` is otherwise arbitrary, and so is their number. Where
a theorem says `faults = 0 =>`, it is about behaviours in which every statement of the
handlers took effect, no outcome was lost and no tick died so far, which is what the
runs check with `MaxFaults = 0`; the counterexamples with one fault are in that list too.

| Theorem | States | Hypotheses | Invariant |
|---|---|---|---|
| `CompletedIsDone` | `CompletedMeansDone` | no `dry_run` | `DoneInv` |
| `SuppressedStaysQuiet` | `SuppressedLeadIsQuiet` | no `resume_lead`, `retry`; no fault | `QuietInv` |
| `AnsweredStaysQuiet` | `RepliedStaysQuiet` | no `resume_lead`, `retry`; no fault | `RepliedInv` |
| `ColleaguesStop` | `DomainReplyStops` | no `resume_lead`, `resume_account`, `retry`; no fault | `DomainInv` |
| `FollowUpsStayThreaded` | `FollowUpsThreaded` | the same | `ThreadInv` |
| `StepsLeaveInOrder` | `StepOrder` | no `resume_lead`, `retry`; no fault | `ScheduleInv` |
| `StepsKeepTheirDelays` | `DelaysHold` | as before, and not both `resume_account` and `remove_account` | `ScheduleInv` |

- `DoneInv` adds to the property that the row in flight belongs to a campaign that
  has not ended (`FlightOpen`): a failed delivery puts that row back to pending or
  failed, and would otherwise do so behind an end. A dry run takes no lock, so it may
  end the campaign of a row in flight. `UsedStep` says that a command in flight is one
  of `Commands`, through which the hypotheses reach the second half of a command.
- `QuietInv`, `RepliedInv`, `DomainInv` say of a lead, an answer, or an answer's
  colleagues that no row of them is pending, save while the statements of the handler
  are under way. `NothingBack` and its likes say what any step can bring back.
- `ThreadInv` follows a pair of a first step and a follow-up: before the first is
  sent, while its bookkeeping is under way, after it.
- `ScheduleInv == IInv /\ OnlyUsed /\ LoopFresh /\ DraftsKept /\ (faults = 0 =>
  Apart /\ OrderInv /\ Rotated /\ DelayHeld /\ CurDelayed)`. `OrderInv` says of every
  row still to be reached that a live step before it is also to be reached, was gone
  past, or is in flight: the re-check happens at one row, and this is what it rests on
  for the others. *Live* is what is pending and also what is cancelled while its
  membership is active, because account resume brings that back; counted so, no step
  makes a row live. `Apart` says that a conversation never has pending and cancelled
  rows at once: every command that cancels one cancels all that wait. `DelayHeld` says
  that a step with a delay is not due in the loop that sent the step before it, once
  the schedule was told of that; `Rotated` that the rebalance of a campaign resume
  reaches it, since its account is in the campaign's rotation.

- `OptOutsOnRecordBlock`: `Spec => []RecordedOptOutBlocks`, with `OptOutInv == IInv /\
  Warned`: an invocation that met an opt-out on record when it began is on its way to a
  gate that will read it, and the record stays.

Of the inbox (`InboxProofs`, `OutboxProofs`, `PollProofs`), for every number of accounts and
messages, every order the mailboxes list them in, every page limit and every budget:

- `InboxTypes`: `Spec => []TypeOK`. What the types rest on is `Fit`: a worker that
  handles a message, an account or an announcement has one in hand, the message goes
  the way its handler is meant for, and (`PagesThere`) what is about to be announced
  is an event. Mailboxes are not assumed finite: `shown` grows by a message at a time.
- `OneEvent`: `Spec => []OneEventPerMessage`: while the lock was not lost, two events of one
  message mean that a lookup of it failed. Every step is first reduced to what it
  means to the lock and the log (`EveryStep`: somebody begins, ends, finds a message
  without an event, writes one, relabels, or rests). The invariant adds three parts:
  `Alone`, a worker at work has the lock unless one was lost; `NoneYet`, a message that
  was looked up and not found still has no event when it is written, unless that lookup
  failed, which is where the lock is needed; and `TypesAgree`, the type of an event tells which way its message
  went, without which the handler's lookup (by type) would not exclude the event the
  reconciliation wrote (of another type).
- `InboxIsOutbox`: `Spec => OutboxSpec`, also after a lock was lost. `FeedInv` says that
  the cursor is behind whatever waits (`Behind`), that what waits is on the page in a
  tick's hand or after that page (`Paged`), and that only a tick which found or made a
  cursor announces (`Subscribed`). `Record` and `Echo` are a `Write`, `Mark` a `Label`,
  `Post` a `Hear`, `NoteEvent` a `Note`; `Ensure` without a cursor is a `Look`, `Subscribe` a
  `Subscribe`, and whoever fails or dies in between does a `GiveUp`. What waits are the
  events neither heard nor passed over, so a late first cursor, ahead or back, leaves
  `Behind` and `Paged` as they are. A second tick may move the cursor back by its notes,
  never past what waits: that is `Paged` once more.
- `SaidOnlyOnce`, `LabelsTellTheTruth`: `AnnouncedOnce` and `LabelTruth`, from
  `ChannelInv`. While no lock was lost one worker is at work at a time, and at most dry
  runs beside it, which only write a cursor (`Turns`). What they write it over is
  `unnoted`; a message whose lookup failed is `unasked` and may be said twice. Then
  reconciliation relabels only an event of its own that no tick has announced
  (`AuditInv`), and what a notifier has on its page is what the log says, ahead of what
  was said before (`SayInv`). Once a lock was lost the properties ask nothing more, and
  what they asked before is kept.
- `NoMessageIsLeftBehind`: `Spec => []NothingBehindCursor`, also after a lock was lost.
  `Covered(w)` says that between listing an account and advancing its cursor, whatever
  will be behind the new cursor is settled or still in `w`'s batch. Its hypothesis
  `Lag <= Overlap` is about the mailboxes: one that lists a message later than the
  overlap of `tick.go` allows for is beyond what the code promises.
- `CleanMeansHeeded`: `Spec => []OptOutsActedOn`, from `HeedInv`: an opt-out that is
  known has stopped the lead or a worker is at it, short of the imported, misread and
  botched (`OptKnown`); a handler has read the message rightly, with the same exceptions
  (`ReadRight`); what a verification saw without finding fault is known (`SeenKnown`);
  and `Alone`, since a worker still at it would hold the lock that a reconciliation
  holds when it calls the state clean.

`Covered` was not inductive at first, and that was a mistake of the model: `origin` was
set when a cursor is first written. Of two ticks after a lost lock the later writer may
have begun earlier, and the property then asked for messages before either's listing.
`List` sets it now.

- `ListsStayFresh`: `Spec => []ListsAreFresh`, from `FreshInv == HeedInv /\ TypedRight /\
  LogStored /\ EchoStored /\ SnapsLogged /\ KeptLogged`. The lists are built from snapshots,
  what the verification saw was compared with events *or* snapshots; the added parts say
  how the two hang together: an event bears the type of its message, is followed by a
  snapshot unless its writer is still at it or failed, and a snapshot without an event is
  an importer's. `StaysOut` says that a lead
  who is blacklisted stays so, and that no excuse is withdrawn.

Of the plans (`PlacementProofs`, `PlanningProofs`), for all campaigns, leads, accounts, steps,
delays, rules, zones, limits and day lengths, and every budget:

- `PlacedIs` and `RebalancedIs` are about the operators alone. The loop of
  `rebalancePendingSchedulesTx` is a recursive function over its progress, the search for a
  free day another one. The library's induction theorems cannot be used, so the two facts
  they would give are proved from sets (`IterationExists`, `IterationEnds`): such a function
  exists, because from each argument one final state at most is reached; and it returns
  the value of a final state reached, because each round leaves a smaller finite set of
  rows to place. What a round keeps (`Going`) is in parts: the days hold no more than the
  limit (`Fits`), no mail was placed after the last nor too near (`Spaced`, `Paced`), each
  lies in a window (`Windowed`), follows the step before (`Delayed`, `DueDelayed`) and waits
  for its anchor (`Anchored`); of every lead, the earliest row not placed is the one due
  (`Sorted`). So the loop places every pending row once, and the plan keeps to everything.
  `RebalancedIs`: the accounts of one rebalance do not disturb one another, and nothing
  but times of pending rows is written.
- `TickSeesRebalanced`, `LoopSeesRebalanced`: what such a rebalance does to the rows due by
  the now of a running tick is what `TickEngine` assumes of it (see *Time*). The first is
  about the operator, the second about every step of `Spec` that rebalances.
- `PlanningTypes`: `Spec => []TypeOK`, from `Base == TypeOK /\ RowsOfCampaigns /\ SentStays /\
  OneAccount`: rows belong to campaigns that were created, the row a tick tidies up after
  is sent, and a lead's rows of a campaign share an account. Each command is first reduced
  to what it does to the rows (`Cases`: it enrols leads, rearranges times, retries, or does
  something smaller), so that the later proofs meet a few shapes and not every command.
- `PlanFitsLimitHolds`, `PlanKeepsGapsHolds`, `PlanIsSendableHolds`, `PlanKeepsDelaysHolds`,
  `CohortWaitsHolds`: five invariants from one, `Plans`: every account in `balanced` has a
  plan that is good (`GoodPlan`). A rebalance makes one (`FreshPlan`); a step that is not a
  rebalance leaves it good or takes the account out. The care is in the second: mails
  that leave, fail or are stopped take rows out of a plan and change anchors
  (`KeptAfterSent`, `FailPlans`), and `Touched` must name every account whose rows or rules
  changed (`UntouchedPlan`).
- `NothingStrandedHolds`: by `Settled`, which also says that a campaign which completed
  without failures has none left to retry, or a retry would bring rows back behind it.
- `DailyCapHolds`: the sender counts events once, before it sends, and then adds up. The
  invariant says that each sent row has its event unless a deleted campaign took it along
  (`Recorded`), and that the counts of a running tick are no less than what was sent that
  day (`CountsCover`), since no time passes while it runs.
- `AnnouncedOnceHolds`, `IdleOncePerDayHolds`: `AlertsInOrder` and `PingsInOrder` follow an alert
  from the list to its mark: what is still on the tick's list has not been announced, what
  was announced is marked or about to be.

`PlanIsSendable` had to learn something from its proof: it is false of rules whose window is
empty, which the code does not exclude, and holds of all others.

They rest on the named assumptions of the modules (`RowsAssumption`,
`BoundsAssumption`, `MessagesAssumption`, `DelayAssumption`, `ThreadAssumption`,
`CallerAssumption`, `LedgerAssumption`, `WorkersAssumption`, `DaySlotsAssumption`,
`PlannerAssumption`, `InputsAssumption`, `TickAssumption`) and nothing else. The last four
say what the code or the database makes sure of: ids are numbers, there are finitely many
accounts, leads and campaigns, a window lies within a day, there is a send day, limits are
positive. Two parts restrict what operators type, because no check enforces them: gaps
and delays are not negative.

Every invariant and every safety action property that a passing run checks is stated by
a theorem, and so are both refinements. What is only model-checked is liveness
(`TicksFinish`, `CampaignsComplete`, `Announced`, `EventuallyRecorded`, `EventuallyHeard`):
it needs fairness, and with it `ENABLED`, which these provers do not reason about.

## Plan

1. An abstract send contract (each row: waiting, sent, dropped) that `TickEngine`
   refines, from `IInv`.
2. Changing a sequence under a running campaign; the repair of account ids by the
   backfill.

## Not modelled

Templates, imports, configuration, statistics and the facade are pure or read-only
and covered by unit tests; the provider protocols are external. Adding accounts and
editing credentials touch no row. The schema migrations and the busy retries of
`db.go` are taken for what they promise: a transaction happens once or not at all.
