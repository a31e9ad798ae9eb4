---------------------------- MODULE MCOperations ----------------------------
(* Account 1 is announced, account 2 is not; in conversation 1 a reply, the *)
(* operator's own answer and an opt-out may come in any order.              *)
EXTENDS InboxProperties

MCAccounts == <<1, 2>>

MCOf   == [m \in Msg |-> IF m = "elsewhere" THEN 2 ELSE 1]
MCKind == [m \in Msg |-> CASE m = "stop" -> "unsubscribe" [] m = "own" -> "own"
                           [] OTHER -> "reply"]

Operations == {"cron", "mail", "audits", "reviews", "dries", "imports", "faults", "crashes",
               "severs", "time", "moves"}

Budget(f) == [o \in Operations |-> IF o \in DOMAIN f THEN f[o] ELSE 0]

\* What a behaviour may spend, by the question it puts.
MCBudgets == {
  \* late mail, failing ticks and a channel that fails
  Budget([cron |-> 1, mail |-> 1, time |-> 2, faults |-> 1]),
  Budget([cron |-> 1, mail |-> 2, faults |-> 1]),
  Budget([cron |-> 1, mail |-> 1, audits |-> 1, faults |-> 2]),
  \* a tick or a reconciliation dies
  Budget([cron |-> 1, mail |-> 2, audits |-> 1, crashes |-> 1]),
  \* mail filed away, importers and reviews beside the rest
  Budget([cron |-> 1, mail |-> 1, audits |-> 1, moves |-> 1, faults |-> 1]),
  Budget([cron |-> 1, mail |-> 2, imports |-> 1, audits |-> 1]),
  Budget([cron |-> 1, mail |-> 2, imports |-> 1, reviews |-> 1]),
  Budget([mail |-> 2, time |-> 1, reviews |-> 1, audits |-> 1]),
  Budget([mail |-> 2, time |-> 1, audits |-> 1, faults |-> 1, imports |-> 1]),
  Budget([mail |-> 3, time |-> 2, audits |-> 1]),
  \* a dry run beside a tick
  Budget([cron |-> 1, mail |-> 2, dries |-> 1]),
  Budget([cron |-> 1, mail |-> 1, dries |-> 1, faults |-> 1]),
  Budget([cron |-> 1, mail |-> 1, dries |-> 1, crashes |-> 1]),
  \* the lock is lost
  Budget([cron |-> 1, mail |-> 1, severs |-> 1, audits |-> 1]),
  Budget([cron |-> 1, mail |-> 2, severs |-> 1]),
  Budget([cron |-> 1, mail |-> 1, severs |-> 1, dries |-> 1]) }
=============================================================================
