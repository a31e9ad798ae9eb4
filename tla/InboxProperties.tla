-------------------------- MODULE InboxProperties --------------------------
(* What the operator may rely on when several workers go through the same   *)
(* inbox, with mail that is listed late, statements that fail, workers that *)
(* die and a lock that may drop.                                            *)
EXTENDS InboxWorkers

Entry == [msg : Msg, type : InboundTypes \cup {"manual_reply"},
          source : {"poll", "reconciled"}, by : {"tick", "audit"}]
Copied == [msg : Msg, type : InboundTypes \cup {"manual_reply"}]

TypeOK ==
  /\ now \in Nat /\ date \in [Msg -> Nat \cup {NoTime}]
  /\ shown \subseteq Msg /\ filed \subseteq shown
  /\ log \in Seq(Entry)
  /\ snaps \in Seq(Copied)
  /\ member \in [Account -> {"active", "replied", "paused"}]
  /\ lead \in [Account -> {"active", "blacklisted"}]
  /\ cursors \in [Account -> Nat \cup {NoTime}] /\ lastPoll \in Nat \cup {NoTime}
  /\ cursor \in {Unset} \cup 0 .. Len(log)
  /\ heard \subseteq DOMAIN log /\ passed \subseteq DOMAIN log
  /\ holder \in Locked \cup {Nobody}

\* One event to a message: the poll looks again at what lies in the overlap,
\* ticks die half-way, importers write snapshots beside them and
\* reconciliation handles the same message; only a lost lock lets two in, and
\* a lookup whose error was dropped.
OneEventPerMessage ==
  severed \/ \A i, j \in DOMAIN log :
    log[i].msg = log[j].msg => i = j \/ log[i].msg \in unasked

\* No message is left behind: what an account's poll will not look at again
\* has been recorded, unless its handler met an error, or it is older than
\* the watch over the account: than the last poll that read no cursor.
NothingBehindCursor ==
  \A m \in shown \ (filed \cup botched) :
    Inbound(m) /\ cursors[Of[m]] # NoTime /\ origin[Of[m]] <= date[m] /\ date[m] < Since(Of[m])
      => Recorded(m)

\* A reply is announced as new if a poll found it and as recovered if
\* reconciliation did, whoever announces it and when, unless a statement or
\* a lookup of its handler failed.
LabelTruth ==
  severed \/ \A n \in DOMAIN posts :
    LET e == log[posts[n].id] IN
    \/ posts[n].source = IF e.by = "tick" THEN "poll" ELSE "reconciled"
    \/ e.msg \in botched \cup unasked

\* When reconciliation calls the state clean, every opt-out its verification
\* saw in a mailbox has stopped the lead; short of those an importer wrote
\* down first, those it read without their bodies, and failed statements.
OptOutsActedOn ==
  At("audit", "find") /\ ~severed =>
    \A m \in job["audit"].seen \ (imported \cup misread \cup botched) :
      Kind[m] = "unsubscribe" => lead[Of[m]] = "blacklisted"

\* A list compiled after a clean verification knows whatever the verification
\* saw: a conversation is up for a follow-up if the newest message of it all
\* is ours, and waits for an answer if it is a reply; and on neither list is
\* one who opted out, unless an importer wrote that down first.  A review runs
\* beside the tick, and may have seen an event before its snapshot.
ListsAreFresh ==
  \A w \in {"audit", "review"}, a \in Account :
    LET seen   == {m \in job[w].seen : Of[m] = a}
        all    == seen \cup {snaps[i].msg : i \in In(a)}
        newest == {m \in all : \A n \in all : date[n] <= date[m]}
        sure   == /\ all \cap (botched \cup misread) = {}
                  /\ w = "review" \/ severed => \A m \in seen : Stored(m)
    IN At(w, "find") /\ sure =>
         /\ Followup(a) => \E m \in newest : Kind[m] = "own"
         /\ NeedsReply(a) => \E m \in newest : Kind[m] = "reply"
         /\ Followup(a) \/ NeedsReply(a) =>
              \A m \in seen \ imported : Kind[m] # "unsubscribe"

\* A message is announced once, unless the cursor does not say so: a tick could
\* not write it, or a first cursor, read earlier, was written over it; or the
\* message has a second event, its lookup having failed.
AnnouncedOnce ==
  severed \/ \A i, j \in DOMAIN posts :
    log[posts[i].id].msg = log[posts[j].id].msg /\ i # j =>
      posts[i].id \in unnoted \/ log[posts[i].id].msg \in unasked

\* Together, the poll, reconciliation, the notifier and its cursor are an
\* outbox: also with two notifiers after a lock was lost, and with dry runs
\* beside them.
Looking == {w \in Subscribers : job[w].pc \in {"baseline", "subscribe"}}
Box == INSTANCE Outbox WITH
  Subscriber <- Subscribers, Concerns <- Concerns,
  log <- log, cursor <- cursor, heard <- heard, passed <- passed, looking <- Looking
OutboxSpec == Box!BoxSpec

\* What INBOX lists of an account that is watched is recorded in the end.
EventuallyRecorded ==
  \A m \in Msg :
    Inbound(m) /\ m \in shown /\ left.cron > 0
      ~> Recorded(m) \/ m \in botched \cup filed \/ date[m] < origin[Of[m]]

\* What no first cursor passed over is heard of in the end.
Unheard(m) ==
  \E i \in DOMAIN log \ (heard \cup passed) : log[i].msg = m /\ Concerns(log[i]) /\ cursor # Unset

EventuallyHeard ==
  \A m \in Msg : Unheard(m) /\ left.cron > 0 ~> ~Unheard(m)
=============================================================================
