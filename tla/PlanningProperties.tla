------------------------- MODULE PlanningProperties -------------------------
(* What a plan owes the accounts and the leads it is made for, and what the *)
(* operator's channel may rely on, whatever commands, ticks and crashes     *)
(* come between.                                                            *)
EXTENDS CampaignAlerts

\* The tables, what the commands hold, what the tick holds, and the channel.
Statuses == {"none", "deleted", "draft", "active", "paused"} \cup Completed

CampaignRecord == [rules : RuleSet, status : Statuses, done : Time, told : BOOLEAN]
SentEvent  == [key : Campaign \X Lead \X (0 .. Steps), at : Nat, acct : Account]
AlertPcs   == {"post", "mark"}
PingPcs    == {"ping", "note"}
SendPcs    == {"send", "tidy"}
TickPcs    == {"off", "complete", "list", "clear", "fill", "pick", "rebalance", "load"}
                \cup AlertPcs \cup PingPcs \cup SendPcs

\* What the items of the present list are.
Items == CASE tick.pc \in AlertPcs -> Campaign
           [] tick.pc \in PingPcs  -> Account
           [] tick.pc \in SendPcs  -> Row
           [] OTHER                -> {}

RowsOK(rs) ==
  /\ rs \in [Row -> RowRecord]
  /\ \A k \in Row : /\ rs[k].status # "none" => rs[k].acct \in Account
                    /\ rs[k].sent # NoTime <=> rs[k].status = "sent"

TablesOK ==
  /\ now \in Nat
  /\ camp \in [Campaign -> CampaignRecord]
  /\ links \in [Campaign -> SUBSET Account]
  /\ cohort \in [Pair -> Nat \cup {NoDate, NotIn}]
  /\ RowsOK(rows)
  /\ IsFiniteSet(events) /\ \A e \in events : e \in SentEvent
  /\ limit \in [Account -> Nat \ {0}]

DeskOK ==
  /\ \A j \in jobs : j \in AddJob \/ j \in UpdateJob \/ j \in StateJob \/ j \in NowJob
  /\ balanced \subseteq Account /\ overtaken \subseteq Campaign

TickOK ==
  /\ tick = [pc |-> tick.pc, round |-> tick.round, todo |-> tick.todo, on |-> tick.on,
             idle |-> tick.idle]
  /\ tick.pc \in TickPcs /\ tick.idle \subseteq Account
  /\ tick.round \in IF tick.pc = "off" THEN {0} ELSE 1 .. 3
  /\ tick.pc \in AlertPcs \cup PingPcs \cup SendPcs => tick.on \in Items
  /\ \A i \in tick.todo : i.id \in Items
  /\ counts \in [Account -> Nat] /\ caps \in [Account -> Nat]

AlertsOK ==
  /\ idle \in [Account -> [since : BOOLEAN, told : Time]]
  /\ posts \in [Campaign -> Nat]
  /\ pings \in [Account -> Time]
  /\ slipped \subseteq Campaign /\ unnoted \in BOOLEAN /\ dropped \subseteq Account

TypeOK == TablesOK /\ DeskOK /\ TickOK /\ AlertsOK

Planned(a) == Pending(camp, rows, a)

\* No day holds more than the account may send: neither a new cohort, nor a
\* moved campaign, a lowered limit, a late send or another campaign on the
\* same account leaves a day overbooked.
PlanFitsLimit ==
  \A a \in balanced :
    LET plan == [k \in Row |-> IF k \in Planned(a) THEN rows[k].at ELSE NoTime] IN
    \A k \in Planned(a) : UsedOn(a, UTCDay(rows[k].at), plan) <= limit[a]

\* Two mails of one account stand apart by the gap of either campaign.
PlanKeepsGaps ==
  \A a \in balanced : \A j, k \in Planned(a) :
    j # k /\ rows[j].at <= rows[k].at
      => rows[k].at - rows[j].at >= Max({camp[j[1]].rules.gap, camp[k[1]].rules.gap})

\* A planned time is one the sender will accept: in the window, on a send
\* day, in the lead's own zone, by the rules the campaign has now, if these
\* have a window at all.
PlanIsSendable ==
  \A a \in balanced : \A k \in Planned(a) :
    LET r == RulesFor(k[2], camp[k[1]].rules) IN
    r.from < r.to => InWindow(rows[k].at, r)

\* A follow-up is planned no sooner than its delay after the mail planned
\* before it and, when none is, after the last mail that left before it.
PlanKeepsDelays ==
  \A a \in balanced : \A k \in Planned(a) :
    LET With(st) == {s \in 1 .. (k[3] - 1) : rows[Sibling(k, s)].status = st}
        Mail(s)   == rows[Sibling(k, s)]
    IN IF With("pending") # {} THEN rows[k].at >= Mail(Max(With("pending"))).at + Delay[k[3]] * DaySlots
       ELSE With("sent") # {} => rows[k].at >= Mail(Max(With("sent"))).sent + Delay[k[3]] * DaySlots

\* A cohort added with a start date is not written to before that date.
CohortWaits ==
  \A a \in balanced : \A k \in Planned(a) :
    LET r == RulesFor(k[2], camp[k[1]].rules) IN
    k[3] = 1 /\ cohort[<<k[1], k[2]>>] \notin {NotIn, NoDate}
      => LocalDay(rows[k].at, r) >= cohort[<<k[1], k[2]>>]

\* A campaign is complete when nothing of it is left to send, but for leads
\* that were being added when it completed.
NothingStranded ==
  \A c \in Campaign \ overtaken :
    camp[c].status \in Completed => \A k \in RowsIn(c) : rows[k].status # "pending"

\* A mail leaves only while its account has sent fewer mails today, as the
\* operator counts days, than the limit was when the tick began: over
\* several ticks, retries, campaigns and late sends; unless a deleted
\* campaign took the count along.
DailyCap ==
  [][\A a \in Account \ dropped :
       Deliver /\ a = rows[tick.on].acct
         => Cardinality({k \in RowsWith("sent") : rows[k].acct = a
                                                 /\ Today(rows[k].sent) = Today(now)}) < caps[a]]_vars

\* Announced means announced: the alert of this very completion went out,
\* and once unless a tick failed to note it.
AnnouncedOnce ==
  \A c \in Campaign \ slipped :
    /\ camp[c].told /\ camp[c].status \in Completed => posts[c] > 0
    /\ ~unnoted => posts[c] <= 1

\* An idle account is called idle once, and then once a day.
IdleOncePerDay ==
  [][\A a \in Account : PingIdle /\ a = tick.on /\ pings[a] # NoTime /\ ~unnoted
       => now >= pings[a] + DaySlots]_vars

\* A campaign that is complete is announced, sooner or later.
Announced ==
  \A c \in Campaign :
    camp[c].status \in Completed ~> (camp[c].told \/ camp[c].status \notin Completed)
=============================================================================
