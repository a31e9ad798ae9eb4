---------------------------- MODULE InboxWorkers ----------------------------
(* Those who work through the inbox: the tick's poll and its announcements  *)
(* (internal/tick.go, reply.go, discord_notify.go), the reconciliation of   *)
(* the mailboxes with the database and the lists compiled after it          *)
(* (inbox_audit.go, inbox_followups.go, inbox_needs_reply.go), and the lock *)
(* the first two share (store.go).  A review reads without the lock, and a  *)
(* dry run of the tick opens the channel without it.                        *)
EXTENDS InboxLedger

CONSTANTS
  Notified,   \* accounts whose provider is announced
  PageLimit   \* DiscordNotifyLimit

\* Without an active account a tick ends before it polls.
ASSUME WorkersAssumption ==
  /\ Accounts # <<>>
  /\ Notified \subseteq Account /\ PageLimit \in Nat \ {0}

VARIABLES
  cursors,    \* reply_poll_at of each account
  lastPoll,   \* last_poll_at
  origin,     \* where the latest of the listings began that an account had
              \* no cursor for, or none that could be read
  cursor,     \* discord_notify_last_event_id
  heard,      \* events announced, or refused for want of a destination
  passed,     \* events that lay behind the first cursor when it was written
  posts,      \* announcements: event and label
  holder,     \* who has the tick lock
  severed,    \* has the session that held the lock ever dropped
  job,        \* what a worker does next, and what it holds
  unnoted     \* events heard of which the cursor does not say so: the tick
              \* failed to write it, or a first cursor was written over it

lineVars == <<cursors, lastPoll, origin>>
feedVars == <<cursor, heard, passed, posts, unnoted>>
lockVars == <<holder, severed>>
vars     == <<ledgerVars, lineVars, feedVars, lockVars, job>>

Unset  == -1
Nobody == "nobody"
Ticks  == {"tick", "next tick"}
Locked == Ticks \cup {"audit"}
Worker == Locked \cup {"review", "dry run"}

Subscribers == Ticks \cup {"dry run"}

\* pass: 1 imports, 2 verifies.  failed: an error was met; to a tick, that
\* there is nothing to announce from.  bare: messages without their bodies.
\* base: the newest event, as a subscriber read it.
Off == [pc |-> "off", accts |-> <<>>, batch |-> <<>>, page |-> <<>>, pass |-> 0,
        failed |-> FALSE, bare |-> {}, base |-> 0, began |-> NoTime, seen |-> {}]

Become(w, r) == job' = [job EXCEPT ![w] = r]
Goto(w, pc)  == Become(w, [job[w] EXCEPT !.pc = pc])
At(w, pc)    == job[w].pc = pc
Hand(w)      == Head(job[w].batch)
Here(w)      == Head(job[w].accts)

KeepMail    == UNCHANGED <<now, date, shown, filed>>
KeepStore   == UNCHANGED <<log, snaps, member, lead, unasked, misread, imported>>
KeepAround  == UNCHANGED <<lineVars, feedVars, lockVars>>

-----------------------------------------------------------------------------
(* From message to message and from account to account. *)

\* Reconciliation: an error in either pass, or a message missing in the second,
\* and it has failed.
Then(w, r) ==
  IF r.accts # <<>> THEN [r EXCEPT !.pc = IF w \in Ticks THEN "list" ELSE "scan"]
  ELSE IF w \in Ticks THEN [r EXCEPT !.pc = IF r.failed THEN "close" ELSE "page"]
  ELSE IF r.failed THEN [r EXCEPT !.pc = "close"]
  ELSE IF r.pass = 1 THEN [r EXCEPT !.pc = "scan", !.pass = 2, !.accts = Accounts]
  ELSE [r EXCEPT !.pc = "find"]

NextAccount(w, r) == Then(w, [r EXCEPT !.accts = Tail(@), !.batch = <<>>, !.bare = {}])

NextMessage(w, r) ==
  LET rest == Tail(r.batch) IN
  IF rest = <<>> /\ w \notin Ticks THEN NextAccount(w, r)
  ELSE [r EXCEPT !.batch = rest,
                 !.pc = IF rest = <<>> THEN "advance"
                        ELSE IF w \in Ticks THEN "handle" ELSE "apply"]

Failed(w) == [job[w] EXCEPT !.failed = TRUE]

-----------------------------------------------------------------------------
(* The lock. *)

Acquire(w) == holder = Nobody /\ holder' = w /\ UNCHANGED severed

\* Unlocking what another session holds by now does nothing.
Release(w) == holder' = (IF holder = w THEN Nobody ELSE holder) /\ UNCHANGED severed

\* Postgres: the lock lives in a session of its own.  Its holder goes on.
Sever ==
  /\ holder # Nobody /\ Spend("severs")
  /\ holder' = Nobody /\ severed' = TRUE
  /\ KeepMail /\ KeepStore
  /\ UNCHANGED <<botched, lineVars, feedVars, job>>

-----------------------------------------------------------------------------
(* The handler of inbound messages: processReplyMessages. *)

\* What the message is taken for: headers alone do not tell an opt-out.
TypeRead(w) == IF Hand(w) \in job[w].bare THEN "reply" ELSE Kind[Hand(w)]

Fails(m) == Spend("faults") /\ botched' = botched \cup {m}
Holds    == UNCHANGED <<left, botched>>

\* A lookup failed and nobody looked at its error.
Forgets(m) == Spend("faults") /\ unasked' = unasked \cup {m} /\ UNCHANGED botched

\* The handler is through with the message.
HandBack(w) ==
  Become(w, IF w \in Ticks THEN NextMessage(w, job[w]) ELSE [job[w] EXCEPT !.pc = "mark"])

\* The errors of two lookups are dropped: of the one for the event, and then
\* the message is taken for a new one; of the one for its thread, and then it
\* is taken for a stranger's.
Check(w) ==
  LET m == Hand(w) IN
  /\ At(w, "handle")
  /\ \/ ~Recorded(m) /\ Goto(w, "record") /\ Holds /\ UNCHANGED unasked
     \/ Recorded(m) /\ HandBack(w) /\ Holds /\ UNCHANGED unasked
     \/ Recorded(m) /\ Forgets(m) /\ Goto(w, "record")
     \/ ~Recorded(m) /\ Fails(m) /\ HandBack(w) /\ UNCHANGED unasked
  /\ UNCHANGED <<log, snaps, member, lead, misread, imported>> /\ KeepMail /\ KeepAround

Record(w) ==
  LET m == Hand(w) IN
  /\ At(w, "record") /\ Goto(w, "keep")
  /\ \/ /\ Insert(m, TypeRead(w), IF w \in Ticks THEN "tick" ELSE w) /\ Holds
        /\ misread' = IF TypeRead(w) # Kind[m] THEN misread \cup {m} ELSE misread
     \/ Fails(m) /\ UNCHANGED <<log, misread>>
  /\ UNCHANGED <<snaps, member, lead, unasked, imported>> /\ KeepMail /\ KeepAround

Store(w) ==
  LET m == Hand(w) IN
  /\ At(w, "keep") /\ Goto(w, "heed")
  /\ \/ Snapshot(m, TypeRead(w)) /\ Holds
     \/ Fails(m) /\ UNCHANGED snaps
  /\ UNCHANGED <<log, member, lead, unasked, misread, imported>> /\ KeepMail /\ KeepAround

Stop(w) ==
  LET m == Hand(w) IN
  /\ At(w, "heed") /\ HandBack(w)
  /\ \/ Heed(Of[m], TypeRead(w)) /\ Holds
     \/ Fails(m) /\ UNCHANGED <<member, lead>>
  /\ UNCHANGED <<log, snaps, unasked, misread, imported>> /\ KeepMail /\ KeepAround

Handle(w) == Check(w) \/ Record(w) \/ Store(w) \/ Stop(w)

-----------------------------------------------------------------------------
(* EnsureDiscordNotifyCursor, before the poll of a tick, and all a dry run  *)
(* does here: is there a cursor, which is the newest event, then the cursor *)
(* is written.  No transaction holds the three together.                    *)

DryStart ==
  /\ At("dry run", "off") /\ Spend("dries") /\ Become("dry run", [Off EXCEPT !.pc = "ensure"])
  /\ UNCHANGED botched /\ KeepMail /\ KeepStore /\ KeepAround

Ensured(w, r) ==
  Become(w, IF w \in Ticks THEN [r EXCEPT !.pc = "list", !.base = 0] ELSE Off)

\* That is logged; the tick announces nothing.
EnsureFails(w) ==
  /\ At(w, "ensure") \/ At(w, "baseline") \/ At(w, "subscribe")
  /\ Spend("faults") /\ Ensured(w, Failed(w))
  /\ UNCHANGED botched /\ KeepMail /\ KeepStore /\ KeepAround

Ensure(w) ==
  /\ At(w, "ensure")
  /\ IF cursor = Unset THEN Goto(w, "baseline") ELSE Ensured(w, job[w])
  /\ UNCHANGED ledgerVars /\ KeepAround

Baseline(w) ==
  /\ At(w, "baseline")
  /\ Become(w, [job[w] EXCEPT !.pc = "subscribe", !.base = Len(log)])
  /\ UNCHANGED ledgerVars /\ KeepAround

\* Whatever the cursor may be by now.
Subscribe(w) ==
  /\ At(w, "subscribe") /\ Ensured(w, job[w])
  /\ cursor' = job[w].base
  /\ passed' = passed \cup (1 .. job[w].base \ heard)
  /\ unnoted' = unnoted \cup {i \in heard : i > job[w].base}
  /\ UNCHANGED <<ledgerVars, heard, posts, lineVars, lockVars>>

SubscriberStep(w) == Ensure(w) \/ Baseline(w) \/ Subscribe(w) \/ EnsureFails(w)

-----------------------------------------------------------------------------
(* The tick. *)

TickStart(w) ==
  /\ At(w, "off") /\ left.cron > 0
  /\ w = "next tick" => ~At("tick", "off")
  /\ Acquire(w)
  /\ Become(w, [Off EXCEPT !.pc = "ensure", !.began = now, !.accts = Accounts])
  /\ UNCHANGED <<ledgerVars, lineVars, feedVars>>

\* GetLastPollAt, less the overlap; in the beginning the last day is looked at.
SinceShared == IF lastPoll # NoTime THEN lastPoll - Overlap ELSE 0

\* A slip: no overlap.
SinceCursor(a) == IF cursors[a] # NoTime THEN cursors[a] ELSE SinceShared

\* getReplyPollAt, less the overlap; an account without a cursor of its own
\* shares last_poll_at.
Since(a) == IF cursors[a] # NoTime THEN cursors[a] - Overlap ELSE SinceShared

\* In the order the provider gives them.
Poll(w, since) ==
  \E batch \in Orders(Listed(Here(w), since)) :
    Become(w, [job[w] EXCEPT !.batch = batch,
                         !.pc = IF batch = <<>> THEN "advance" ELSE "handle"])

WatchFrom(a, since) == origin' = [origin EXCEPT ![a] = IF @ < since THEN since ELSE @]

\* A cursor that cannot be read counts as none, and so does the shared one.
List(w) ==
  LET a == Here(w) IN
  /\ At(w, "list")
  /\ \/ /\ Poll(w, Since(a)) /\ UNCHANGED left
        /\ IF cursors[a] = NoTime THEN WatchFrom(a, Since(a)) ELSE UNCHANGED origin
     \/ /\ Spend("faults")
        /\ \E since \in {SinceShared, 0} : Poll(w, since) /\ WatchFrom(a, since)
  /\ UNCHANGED <<botched, cursors, lastPoll, feedVars, lockVars>> /\ KeepMail /\ KeepStore

\* The mailbox cannot be listed, or a lookup fails half-way: the account's
\* cursor stays where it is.
BreakOff(w) ==
  /\ At(w, "list") \/ At(w, "handle")
  /\ Spend("faults") /\ Become(w, NextAccount(w, job[w]))
  /\ UNCHANGED botched /\ KeepMail /\ KeepStore /\ KeepAround

\* setReplyPollAt: to when the poll began, not to when it ends.
Advance(w) ==
  /\ At(w, "advance") /\ Become(w, NextAccount(w, job[w]))
  /\ \/ cursors' = [cursors EXCEPT ![Here(w)] = job[w].began] /\ UNCHANGED left
     \/ Spend("faults") /\ UNCHANGED cursors
  /\ UNCHANGED <<botched, lastPoll, origin, feedVars, lockVars>> /\ KeepMail /\ KeepStore

-----------------------------------------------------------------------------
(* ProcessDiscordNotifications. *)

Concerns(e) == e.type \in InboundTypes /\ Of[e.msg] \in Notified

\* A slip: what reconciliation found is left out.
PageOfNew ==
  {i \in DOMAIN log : i > cursor /\ Concerns(log[i]) /\ log[i].source = "poll"}

\* A slip: the cursor's own event is announced again.
PageFromCursor == {i \in DOMAIN log : i >= cursor /\ Concerns(log[i])}

Fresh == {i \in DOMAIN log : i > cursor /\ Concerns(log[i])}

Least(m, n) == IF m < n THEN m ELSE n

\* A slip: the newest first.
PagesOfNewest(S) ==
  {s \in [1 .. Least(PageLimit, Cardinality(S)) -> S] :
     /\ \A i, j \in DOMAIN s : i < j => s[i] > s[j]
     /\ \A e \in S : (\A i \in DOMAIN s : s[i] # e) => \A i \in DOMAIN s : s[i] > e}

\* ORDER BY e.id LIMIT n.
Pages(S) ==
  {s \in [1 .. Least(PageLimit, Cardinality(S)) -> S] :
     /\ \A i, j \in DOMAIN s : i < j => s[i] < s[j]
     /\ \A e \in S : (\A i \in DOMAIN s : s[i] # e) => \A i \in DOMAIN s : s[i] < e}

\* listDiscordNotificationEvents: with the label as it stands.
LoadPage(w) ==
  /\ At(w, "page")
  /\ \E ids \in Pages(Fresh) :
       Become(w, [job[w] EXCEPT
         !.page = [n \in DOMAIN ids |-> [id |-> ids[n], source |-> log[ids[n]].source]],
         !.pc = IF ids = <<>> THEN "close" ELSE "post"])
  /\ UNCHANGED ledgerVars /\ KeepAround

InHand(w) == Head(job[w].page)

\* NotifyDiscord: announced, without a destination, or refused.
Post(w) ==
  /\ At(w, "post")
  /\ \/ /\ posts' = Append(posts, InHand(w)) /\ heard' = heard \cup {InHand(w).id}
        /\ Goto(w, "note") /\ UNCHANGED left
     \/ /\ Spend("faults") /\ heard' = heard \cup {InHand(w).id}
        /\ Goto(w, "note") /\ UNCHANGED posts
     \/ Spend("faults") /\ Goto(w, "close") /\ UNCHANGED <<posts, heard>>
  /\ UNCHANGED <<botched, cursor, passed, unnoted, lineVars, lockVars>> /\ KeepMail /\ KeepStore

NoteEvent(w) ==
  /\ At(w, "note")
  /\ \/ /\ cursor' = InHand(w).id
        /\ Become(w, [job[w] EXCEPT !.page = Tail(@),
                             !.pc = IF Len(job[w].page) = 1 THEN "close" ELSE "post"])
        /\ UNCHANGED <<left, unnoted>>
     \/ /\ Spend("faults") /\ unnoted' = unnoted \cup {InHand(w).id}
        /\ Goto(w, "close") /\ UNCHANGED cursor
  /\ UNCHANGED <<botched, heard, passed, posts, lineVars, lockVars>> /\ KeepMail /\ KeepStore

\* SetLastPollAt, whatever became of the poll.  What follows is the sending.
TickClose(w) ==
  /\ At(w, "close") /\ Become(w, Off) /\ Release(w)
  /\ lastPoll' = job[w].began
  /\ UNCHANGED <<ledgerVars, cursors, origin, feedVars>>

TickStep(w) ==
  \/ List(w) \/ BreakOff(w) \/ Advance(w) \/ LoadPage(w) \/ Post(w)
  \/ NoteEvent(w) \/ TickClose(w) \/ Handle(w)

-----------------------------------------------------------------------------
(* ReconcileInboxHistory: an importing pass and a verifying one, under the  *)
(* lock.  A review is the verifying pass alone.  Either ends in a list.     *)

AuditStart ==
  /\ At("audit", "off") /\ Spend("audits") /\ Acquire("audit")
  /\ Become("audit", [Off EXCEPT !.pc = "scan", !.pass = 1, !.accts = Accounts])
  /\ UNCHANGED <<botched, lineVars, feedVars>> /\ KeepMail /\ KeepStore

ReviewStart ==
  /\ At("review", "off") /\ Spend("reviews")
  /\ Become("review", [Off EXCEPT !.pc = "scan", !.pass = 2, !.accts = Accounts])
  /\ UNCHANGED botched /\ KeepMail /\ KeepStore /\ KeepAround

Misses(w) == MissingIn(Here(w))

\* The mailbox cannot be listed.
Unlisted(w) == Failed(w)

Verify(w) ==
  /\ At(w, "scan") /\ job[w].pass = 2
  /\ Become(w, NextAccount(w, [job[w] EXCEPT
       !.failed = @ \/ Misses(w) # {},
       !.seen = @ \cup {m \in shown : Of[m] = Here(w)}]))
  /\ UNCHANGED ledgerVars /\ KeepAround

\* Oldest first, to be imported.
Found(w, S, bare, failed) ==
  \E batch \in Orders(S) :
    /\ ByDate(batch)
    /\ LET r == [job[w] EXCEPT !.failed = @ \/ failed] IN
         Become(w, IF batch = <<>> THEN NextAccount(w, r)
                   ELSE [r EXCEPT !.batch = batch, !.bare = bare, !.pc = "apply"])

\* When lookups fail, what the audit misses may not be matched with a thread,
\* which is an error, and what is stored is taken for missing, which is none.
\* An IMAP mailbox gives headers; bodies may be refused, which is an error, or
\* not returned, which is none: those messages are imported without.
Discover ==
  LET w == "audit" IN
  /\ At(w, "scan") /\ job[w].pass = 1
  /\ \/ Found(w, Misses(w), {}, FALSE) /\ UNCHANGED left
     \/ /\ Spend("faults")
        /\ \E S \in SUBSET {m \in shown : Of[m] = Here(w)}, failed \in BOOLEAN :
             /\ Misses(w) \subseteq S \/ failed
             /\ \E bare \in SUBSET S : Found(w, S, bare, failed)
  /\ UNCHANGED botched /\ KeepMail /\ KeepStore /\ KeepAround

\* In the verifying pass a lookup that fails, too, has the pass fail.
ScanFails(w) ==
  /\ At(w, "scan") /\ Spend("faults") /\ Become(w, NextAccount(w, Unlisted(w)))
  /\ UNCHANGED botched /\ KeepMail /\ KeepStore /\ KeepAround

\* applyAuditMessage.  A lookup that fails is an error of this message.
ApplyFails ==
  /\ At("audit", "handle") /\ Spend("faults")
  /\ Become("audit", NextMessage("audit", Failed("audit")))
  /\ UNCHANGED botched /\ KeepMail /\ KeepStore /\ KeepAround

\* auditMessageAlreadyStored drops the errors of its lookups.
Apply ==
  LET w == "audit"
      m == Hand(w)
      import == Goto(w, IF Inbound(m) THEN "handle" ELSE "copy")
  IN /\ At(w, "apply")
     /\ \/ ~Known(m) /\ import /\ Holds /\ UNCHANGED unasked
        \/ Known(m) /\ Become(w, NextMessage(w, job[w])) /\ Holds /\ UNCHANGED unasked
        \/ Known(m) /\ Forgets(m) /\ import
     /\ UNCHANGED <<log, snaps, member, lead, misread, imported>> /\ KeepMail /\ KeepAround

\* The label is written after the event was, by another statement.  Then the
\* message is looked for, and an error of that is one of the message.
Mark ==
  LET w == "audit"
      m == Hand(w)
      one == Cardinality(Matching(m, TypeRead(w))) = 1
  IN /\ At(w, "mark")
     /\ \/ /\ log' = Relabelled(m, TypeRead(w)) /\ Holds
           /\ Become(w, NextMessage(w, IF one THEN job[w] ELSE Failed(w)))
        \/ /\ log' = Relabelled(m, TypeRead(w)) /\ Spend("faults") /\ UNCHANGED botched
           /\ Become(w, NextMessage(w, Failed(w)))
        \/ /\ Fails(m) /\ UNCHANGED log
           /\ Become(w, NextMessage(w, Failed(w)))
     /\ UNCHANGED <<snaps, member, lead, unasked, misread, imported>> /\ KeepMail /\ KeepAround

\* A message of the operator's own: its snapshot, then an event.
Copy ==
  /\ At("audit", "copy")
  /\ \/ Snapshot(Hand("audit"), "manual_reply") /\ Goto("audit", "echo") /\ UNCHANGED left
     \/ /\ Spend("faults") /\ UNCHANGED snaps
        /\ Become("audit", NextMessage("audit", Failed("audit")))
  /\ UNCHANGED <<botched, log, member, lead, unasked, misread, imported>> /\ KeepMail /\ KeepAround

Echo ==
  /\ At("audit", "echo")
  /\ \/ /\ Insert(Hand("audit"), "manual_reply", "audit") /\ UNCHANGED left
        /\ Become("audit", NextMessage("audit", job["audit"]))
     \/ /\ Spend("faults") /\ UNCHANGED log
        /\ Become("audit", NextMessage("audit", Failed("audit")))
  /\ UNCHANGED <<botched, snaps, member, lead, unasked, misread, imported>> /\ KeepMail /\ KeepAround

\* The list is compiled and shown, or there is none: the command ends.
Find(w) ==
  /\ At(w, "find") \/ At(w, "close")
  /\ Become(w, Off) /\ Release(w)
  /\ UNCHANGED <<ledgerVars, lineVars, feedVars>>

AuditStep ==
  Discover \/ Apply \/ ApplyFails \/ Handle("audit") \/ Mark \/ Copy \/ Echo

ReaderStep(w) == Verify(w) \/ ScanFails(w) \/ Find(w)

-----------------------------------------------------------------------------

Halfway(w) == At(w, "keep") \/ At(w, "heed") \/ At(w, "mark")

Die(w) ==
  /\ ~At(w, "off") /\ Spend("crashes")
  /\ Become(w, Off) /\ Release(w)
  /\ botched' = IF Halfway(w) THEN botched \cup {Hand(w)} ELSE botched
  /\ unnoted' = IF At(w, "note") THEN unnoted \cup {InHand(w).id} ELSE unnoted
  /\ UNCHANGED <<cursor, heard, passed, posts, lineVars>> /\ KeepMail /\ KeepStore

Outside ==
  /\ \/ \E m \in Msg : Arrive(m) \/ Show(m) \/ MoveOut(m)
     \/ Importers
     \/ (\A w \in Ticks : At(w, "off") \/ At(w, "list")) /\ Tock
  /\ KeepAround /\ UNCHANGED job

Init ==
  /\ LedgerInit
  /\ cursors = [a \in Account |-> NoTime] /\ lastPoll = NoTime
  /\ origin = [a \in Account |-> 0]
  /\ cursor = Unset /\ heard = {} /\ passed = {} /\ posts = <<>> /\ unnoted = {}
  /\ holder = Nobody /\ severed = FALSE
  /\ job = [w \in Worker |-> Off]

Next ==
  \/ Outside \/ Sever
  \/ DryStart \/ \E w \in Subscribers : SubscriberStep(w)
  \/ \E w \in Ticks : TickStart(w) \/ TickStep(w)
  \/ AuditStart \/ AuditStep \/ ReviewStart
  \/ \E w \in {"audit", "review"} : ReaderStep(w)
  \/ \E w \in Worker : Die(w)

\* Cron starts a tick whenever none runs, and no command, a program without
\* endless loops, keeps the lock for ever.
Spec ==
  /\ Init /\ [][Next]_vars
  /\ WF_vars(TickStart("tick"))
  /\ []<>At("tick", "off") /\ []<>(holder = Nobody)
=============================================================================
