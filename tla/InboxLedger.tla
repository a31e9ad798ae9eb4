----------------------------- MODULE InboxLedger -----------------------------
(* The inbox as the mailboxes and the database hold it, one conversation to *)
(* an account: what a mailbox lists and when, the events and the snapshots  *)
(* made of it, what is known of a message, and the statements of the        *)
(* handler of inbound messages (internal/reply.go) and of the importers     *)
(* that hold no lock (internal/email_thread_sync.go,                        *)
(* internal/email_message_backfill.go).                                     *)
EXTENDS Integers, Sequences, FiniteSets

CONSTANTS
  Account, Msg,
  Accounts,  \* the accounts in the order the workers take them
  Of,        \* the account whose conversation a message belongs to
  Kind,      \* "reply" and "unsubscribe" come in; the operator sends an "own"
             \* one from the mailbox, past the program
  Lag,       \* how long a mailbox may take to list what it dates
  Overlap,   \* replyPollOverlap
  Budgets    \* bounds: how often a behaviour does what

ASSUME LedgerAssumption ==
  /\ Accounts \in Seq(Account)
  /\ Of \in [Msg -> Account]
  /\ Kind \in [Msg -> {"reply", "unsubscribe", "own"}]
  /\ Lag \in Nat /\ Overlap \in Nat

VARIABLES
  now, date,     \* the date a message bears; NoTime until it is sent
  shown,         \* messages their mailbox lists
  filed,         \* those moved out of INBOX: the poll does not see them
  log,           \* events: msg, type, the source in its metadata, and by whom
  snaps,         \* email_messages: msg and type
  member, lead,  \* campaign_leads.status, leads.global_status
  botched,       \* messages a statement failed for
  unasked,       \* messages taken for new, the lookup having failed
  misread,       \* opt-outs written down as replies
  imported,      \* messages first written down by an importer
  left           \* what is left of the budget

ledgerVars == <<now, date, shown, filed, log, snaps, member, lead, botched, unasked,
               misread, imported, left>>

NoTime == -1

Spend(what) == left[what] > 0 /\ left' = [left EXCEPT ![what] = @ - 1]

-----------------------------------------------------------------------------
(* Mailboxes. *)

Inbound(m) == Kind[m] # "own"

\* No message bears the date of one that goes the other way.
Arrive(m) ==
  /\ date[m] = NoTime /\ Spend("mail")
  /\ \A n \in Msg : Of[n] = Of[m] /\ date[n] = now => Inbound(n) = Inbound(m)
  /\ date' = [date EXCEPT ![m] = now]
  /\ UNCHANGED <<now, shown, filed, log, snaps, member, lead, botched, unasked, misread, imported>>

Show(m) ==
  /\ date[m] # NoTime /\ m \notin shown
  /\ shown' = shown \cup {m}
  /\ UNCHANGED <<now, date, filed, log, snaps, member, lead, botched, unasked, misread, imported, left>>

MoveOut(m) ==
  /\ m \in shown \ filed /\ Spend("moves")
  /\ filed' = filed \cup {m}
  /\ UNCHANGED <<now, date, shown, log, snaps, member, lead, botched, unasked, misread, imported>>

\* Time passes, but not past the lag of a message still to be listed.
Tock ==
  /\ Spend("time")
  /\ \A m \in Msg : date[m] # NoTime /\ m \notin shown => now < date[m] + Lag
  /\ now' = now + 1
  /\ UNCHANGED <<date, shown, filed, log, snaps, member, lead, botched, unasked, misread, imported>>

\* The elements of S, each once, in any order.
Orders(S) == {s \in [1 .. Cardinality(S) -> S] : \A i, j \in DOMAIN s : s[i] = s[j] => i = j}

ByDate(s) == \A i, j \in DOMAIN s : i < j => date[s[i]] <= date[s[j]]

\* "to:me -from:me after:...", or INBOX since.
Listed(a, since) == {m \in shown \ filed : Of[m] = a /\ Inbound(m) /\ date[m] >= since}

-----------------------------------------------------------------------------
(* What is known of a message. *)

InboundTypes == {"reply", "unsubscribe"}

Stored(m) == \E i \in DOMAIN snaps : snaps[i].msg = m

\* A slip: looks for the snapshot.
RecordedIfStored(m) == Stored(m)

\* processReplyMessages: "already recorded".
Recorded(m) == \E i \in DOMAIN log : log[i].msg = m /\ log[i].type \in InboundTypes

\* auditMessageAlreadyStored.
Known(m) == Stored(m) \/ \E i \in DOMAIN log : log[i].msg = m

\* A slip: what was filed away is not looked for.
MissingInInbox(a) == {m \in shown \ filed : Of[m] = a /\ ~Known(m)}

\* What the audit misses in a mailbox, INBOX or not.
MissingIn(a) == {m \in shown : Of[m] = a /\ ~Known(m)}

-----------------------------------------------------------------------------
(* The statements of a handler.  Each may fail; that is logged at best. *)

Insert(m, type, by) ==
  log' = Append(log, [msg |-> m, type |-> type, source |-> "poll", by |-> by])

Snapshot(m, type) == snaps' = Append(snaps, [msg |-> m, type |-> type])

\* A slip: the opt-out goes to the row of the campaign.
HeedInCampaign(a, type) ==
  /\ member' = [member EXCEPT ![a] =
                  IF @ # "active" THEN @ ELSE IF type = "reply" THEN "replied" ELSE "blacklisted"]
  /\ UNCHANGED lead

\* UPDATE campaign_leads after a reply; BlacklistLead after an opt-out, which
\* fails when the lead is suppressed already.
Heed(a, type) ==
  IF type = "reply"
    THEN /\ member' = [member EXCEPT ![a] = IF @ = "active" THEN "replied" ELSE @]
         /\ UNCHANGED lead
    ELSE /\ lead' = [lead EXCEPT ![a] = "blacklisted"]
         /\ member' = [member EXCEPT ![a] =
                         IF lead[a] # "blacklisted" /\ @ = "active" THEN "paused" ELSE @]

\* A slip: every event of the conversation is labelled.
RelabelledAll(m, type) ==
  [i \in DOMAIN log |-> IF Of[log[i].msg] = Of[m]
                          THEN [log[i] EXCEPT !.source = "reconciled"] ELSE log[i]]

\* markReconciledInboundEvent.
Relabelled(m, type) ==
  [i \in DOMAIN log |-> IF log[i].msg = m /\ log[i].type = type
                          THEN [log[i] EXCEPT !.source = "reconciled"] ELSE log[i]]

Matching(m, type) == {i \in DOMAIN log : log[i].msg = m /\ log[i].type = type}

-----------------------------------------------------------------------------
(* The importers add one snapshot at a time, and no event. *)

Import(m, type) ==
  /\ Spend("imports")
  /\ m \in shown /\ ~Stored(m)
  /\ Snapshot(m, type)
  /\ imported' = IF Known(m) THEN imported ELSE imported \cup {m}
  /\ misread' = IF type = "reply" /\ Kind[m] = "unsubscribe" THEN misread \cup {m} ELSE misread
  /\ UNCHANGED <<now, date, shown, filed, log, member, lead, botched, unasked>>

TypeOf(m) == IF Kind[m] = "own" THEN "manual_reply" ELSE Kind[m]

\* SyncEmailThread.
Refresh(m) == Import(m, TypeOf(m))

\* BackfillEmailMessages: from an inbound event, its message as the event has
\* it, and the rest of its thread; what comes in there is a reply.
Backfill(m, i) ==
  LET own == log[i].msg = m IN
    /\ log[i].type \in InboundTypes /\ Of[log[i].msg] = Of[m]
    /\ Import(m, IF own THEN log[i].type
                 ELSE IF Inbound(m) THEN "reply" ELSE "manual_reply")

Importers == \E m \in Msg : Refresh(m) \/ \E i \in DOMAIN log : Backfill(m, i)

-----------------------------------------------------------------------------
(* What the lists for the operator say of a conversation
   (internal/inbox_followups.go, internal/inbox_needs_reply.go). *)

In(a) == {i \in DOMAIN snaps : Of[snaps[i].msg] = a}

Later(i, j) == LET d == date[snaps[i].msg]
                   e == date[snaps[j].msg]
               IN d > e \/ (d = e /\ i > j)

\* A slip: ordered by id.
NewestById(a) == {i \in In(a) : \A j \in In(a) : j <= i}

\* ORDER BY occurred_at DESC, id DESC LIMIT 1.
Newest(a) == {i \in In(a) : \A j \in In(a) \ {i} : Later(i, j)}

Eligible(a) ==
  /\ member[a] = "replied" /\ lead[a] = "active"
  /\ \A i \in DOMAIN log : Of[log[i].msg] = a => log[i].type # "unsubscribe"

\* FindFollowupCandidates: we wrote last, after a reply.
Followup(a) ==
  /\ Eligible(a)
  /\ \E i \in Newest(a) : snaps[i].type = "manual_reply"
  /\ \E i \in In(a) : snaps[i].type = "reply"

\* FindNeedsReplyCandidates: a reply is the last word.
NeedsReply(a) == Eligible(a) /\ \E i \in Newest(a) : snaps[i].type = "reply"

LedgerInit ==
  /\ now = 0
  /\ date = [m \in Msg |-> NoTime] /\ shown = {} /\ filed = {}
  /\ log = <<>> /\ snaps = <<>>
  /\ member = [a \in Account |-> "active"]
  /\ lead = [a \in Account |-> "active"]
  /\ botched = {} /\ unasked = {} /\ misread = {} /\ imported = {}
  /\ left \in Budgets
=============================================================================
