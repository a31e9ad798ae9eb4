------------------------------ MODULE Planner ------------------------------
(* How the pending sends of an account are laid out in time                 *)
(* (internal/scheduler.go): ComputeSchedule gives a new lead its rows,      *)
(* rebalancePendingSchedulesTx moves all pending rows of the affected       *)
(* accounts so that no day holds more than the account may send.            *)
(*                                                                          *)
(* The tables are the variables; the operators return what a transaction    *)
(* writes.  Identifiers are numbers: ties are broken by them.               *)
EXTENDS Calendar, FiniteSets

CONSTANTS
  Campaign, Lead, Account,   \* sets of ids
  Steps, Delay,              \* the steps of a sequence, days between them
  LeadZone,                  \* leads with a time zone of their own
  StaleDays                  \* after how long an unsent first step is stale (30)

ASSUME PlannerAssumption ==
  /\ Campaign \cup Lead \cup Account \subseteq Nat
  /\ IsFiniteSet(Campaign) /\ IsFiniteSet(Lead) /\ IsFiniteSet(Account)
  /\ Steps \in Nat \ {0} /\ Delay \in [1 .. Steps -> Nat]
  /\ DOMAIN LeadZone \subseteq Lead /\ \A l \in DOMAIN LeadZone : LeadZone[l] \in Int
  /\ StaleDays \in Nat

Step == 1 .. Steps
Pair == Campaign \X Lead
Row  == Campaign \X Lead \X Step

\* The rules of a campaign.  ParseSendDays returns one day at least; that the
\* window opens before it closes nobody checks.
RuleSet == [start : Nat \cup {NoDate}, from : 0 .. (DaySlots - 1), to : 0 .. DaySlots,
            days : (SUBSET (0 .. (Week - 1))) \ {{}}, zone : Int, gap : Nat]

VARIABLES
  now,
  camp,    \* campaigns: status, rules and what was announced
  links,   \* campaign_accounts
  cohort,  \* campaign_leads, with cohort_start_date
  rows,    \* scheduled_sends
  events,  \* `sent' and `manual_reply' events: what counts as usage
  limit    \* accounts.daily_limit

planVars == <<now, camp, links, cohort, rows, events, limit>>

NoTime == -1
NotIn  == -2
Time   == Nat \cup {NoTime}
NoRow  == [status |-> "none", at |-> 0, sent |-> NoTime, acct |-> 0]

RowRecord == [status : {"none", "pending", "sent", "failed", "skipped"}, at : Nat,
              sent : Time, acct : Account \cup {NoRow.acct}]

\* A plan is a time for some rows, and NoTime for the others.
NoPlan     == [k \in Row |-> NoTime]
In(plan)   == {k \in Row : plan[k] # NoTime}

-----------------------------------------------------------------------------
(* ComputeSchedule: every lead of the batch in turn, the i-th one on the    *)
(* i-th account, round and round; its first mail a few gaps after the       *)
(* start, the next ones by the delays of the sequence.                      *)

RulesFor(l, r) == IF l \in DOMAIN LeadZone THEN [r EXCEPT !.zone = LeadZone[l]] ELSE r

FirstTimes(l, place, date, r) ==
  LET own   == RulesFor(l, r)
      start == StartAnchor(now, date, own) + place * r.gap
      at[s \in Step] == IF s = 1 THEN Clamp(start, own)
                        ELSE NextTime(at[s - 1], Delay[s], own)
  IN at

Turn(place, accounts) ==
  CHOOSE a \in accounts :
    Cardinality({b \in accounts : b < a}) = place % Cardinality(accounts)

\* The rows a batch of leads gets in campaign c, beside those there are.
Scheduled(c, L, accounts, date, r) ==
  [k \in Row |->
     LET place == Cardinality({l \in L : l < k[2]}) IN
     IF k[1] = c /\ k[2] \in L
       THEN [status |-> "pending", at |-> FirstTimes(k[2], place, date, r)[k[3]],
             sent |-> NoTime, acct |-> Turn(place, accounts)]
       ELSE rows[k]]

-----------------------------------------------------------------------------
(* rebalancePendingSchedulesTx, for one account.  It reads the tables as    *)
(* the transaction has them: cs, co, rs, lim.                               *)

Open(cs, c) == cs[c].status \in {"active", "draft"}

Pending(cs, rs, a) ==
  {k \in Row : rs[k].status = "pending" /\ rs[k].acct = a /\ Open(cs, k[1])}

\* shouldPullStep1AnchorBack: only what is stranded far in the future.
PullBack(existing, fresh) == existing > fresh + StaleDays * DaySlots

\* A slip: the cohort's own start is no floor.
NoFloor(k, date, r) == {}

\* The cohort's start date: none where there is no campaign_leads row.
CohortDate(k, co) == IF co[<<k[1], k[2]>>] = NotIn THEN NoDate ELSE co[<<k[1], k[2]>>]

\* An explicit cohort date holds the first mail back.
CohortFloor(k, date, r) ==
  IF k[3] = 1 /\ date # NoDate THEN {Clamp(Opening(date, r), r)} ELSE {}

\* Step s of the lead that k is a step of.
Sibling(k, s) == <<k[1], k[2], s>>

\* A slip: nobody looks at what the lead got already.
NoneSent(k, rs) == {}

SentBefore(k, rs) == {s \in 1 .. (k[3] - 1) : rs[Sibling(k, s)].sent # NoTime}

\* firstPendingAnchorForRow: from the last mail that left; without one from
\* where the row stands, no earlier than the cohort, and pulled back when
\* stale.
FirstAnchor(k, cs, co, rs) ==
  LET r        == RulesFor(k[2], cs[k[1]].rules)
      before   == SentBefore(k, rs)
      date     == CohortDate(k, co)
      existing == Max({Clamp(rs[k].at, r)} \cup CohortFloor(k, date, r))
      fresh    == LeadAnchor(now, date, r)
  IN IF before # {} THEN NextTime(rs[Sibling(k, Max(before))].sent, Delay[k[3]], r)
     ELSE IF k[3] = 1 /\ (r.start # NoDate \/ date # NoDate) /\ PullBack(existing, fresh)
       THEN fresh
     ELSE existing

\* loadSentUsageByAccountTx and the rows planned so far: sends of a UTC day.
UsedOn(a, day, plan) ==
  Cardinality({e \in events : e.acct = a /\ UTCDay(e.at) = day}) +
  Cardinality({k \in In(plan) : UTCDay(plan[k]) = day})

\* A slip: a day may be filled once more than the limit says.
AllocateOneMore(t, r, a, plan, lim) ==
  LET slide[u \in Nat] == IF UsedOn(a, UTCDay(u), plan) > lim[a]
                          THEN slide[NextTime(u, 1, r)] ELSE u
  IN slide[Clamp(t, r)]

\* allocateDailyLimitedSendAt: the first day from t on that is not full.
Allocate(t, r, a, plan, lim) ==
  LET slide[u \in Nat] == IF UsedOn(a, UTCDay(u), plan) >= lim[a]
                          THEN slide[NextTime(u, 1, r)] ELSE u
  IN slide[Clamp(t, r)]

\* Which of two rows is placed first: the one due sooner, then the one that
\* stood sooner, then by campaign, lead and step.
Precedes(k, j, due, rs) ==
  \/ due[k] < due[j]
  \/ due[k] = due[j] /\ rs[k].at < rs[j].at
  \/ due[k] = due[j] /\ rs[k].at = rs[j].at
       /\ \/ k[1] < j[1]
          \/ k[1] = j[1] /\ k[2] < j[2]
          \/ k[1] = j[1] /\ k[2] = j[2] /\ k[3] < j[3]

\* The earliest row of every lead among K.
Foremost(K) == {k \in K : \A j \in K : j[1] = k[1] /\ j[2] = k[2] => j[3] >= k[3]}

\* The rows of the same lead that come after k.
After(k, K) == {j \in K : j[1] = k[1] /\ j[2] = k[2] /\ j[3] > k[3]}

\* A slip: the gap of the campaign that was served before is forgotten.
ApartByOwnGap(due, s, r) == IF s.last = NoTime THEN due ELSE Max({due, s.last + r.gap})

\* Not before it is due, nor sooner after the last mail than either gap.
Apart(due, s, r) ==
  IF s.last = NoTime THEN due ELSE Max({due, s.last + r.gap, s.last + s.gap})

\* Rows are placed one by one.  due: the next row of every lead and when it
\* may go; done: the rows placed; last, gap: the latest of them.
Progress == [due : [Row -> Time], done : [Row -> Time], last : Time, gap : Nat]

Chosen(s, rs) ==
  CHOOSE k \in In(s.due) : \A j \in In(s.due) \ {k} : Precedes(k, j, s.due, rs)

PlaceNext(s, a, cs, rs, lim) ==
  LET k    == Chosen(s, rs)
      r    == RulesFor(k[2], cs[k[1]].rules)
      t    == Allocate(Apart(s.due[k], s, r), r, a, s.done, lim)
      next == Foremost(After(k, Pending(cs, rs, a)))
  IN [due  |-> [j \in Row |-> IF j = k THEN NoTime
                              ELSE IF j \in next THEN NextTime(t, Delay[j[3]], r)
                              ELSE s.due[j]],
      done |-> [s.done EXCEPT ![k] = t], last |-> t, gap |-> r.gap]

PlaceFirst(a, cs, co, rs) ==
  [due  |-> [k \in Row |-> IF k \in Foremost(Pending(cs, rs, a))
                             THEN FirstAnchor(k, cs, co, rs) ELSE NoTime],
   done |-> NoPlan, last |-> NoTime, gap |-> 0]

Placed(a, cs, co, rs, lim) ==
  LET place[s \in Progress] == IF In(s.due) = {} THEN s.done
                               ELSE place[PlaceNext(s, a, cs, rs, lim)]
  IN place[PlaceFirst(a, cs, co, rs)]

\* rebalancePendingSchedulesTx: account by account, and what it writes.
Rebalanced(A, cs, co, rs, lim) ==
  LET plans == {Placed(a, cs, co, rs, lim) : a \in A}
  IN [k \in Row |-> LET at == {plan[k] : plan \in plans} \ {NoTime}
                    IN IF at = {} THEN rs[k] ELSE [rs[k] EXCEPT !.at = Max(at)]]
=============================================================================
