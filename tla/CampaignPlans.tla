--------------------------- MODULE CampaignPlans ---------------------------
(* The commands that lay out or move the plan of a campaign                 *)
(* (internal/campaign.go, internal/account.go).  Each ends in one           *)
(* transaction that rebalances the accounts it knows of.  Those that look   *)
(* at the campaign BEFORE they open it are two actions; `jobs' holds what   *)
(* they saw.                                                                *)
EXTENDS Planner

CONSTANTS
  Settings,   \* the rules a campaign may be created with
  Edits,      \* what `campaign update' may change: some of the rules
  Rotations,  \* the accounts a campaign may be given
  Batches,    \* the leads a file may hold
  Dates,      \* the start dates an operator may give
  Limits,     \* the daily limits an operator may set
  Budgets     \* bounds: how often a behaviour does what

RuleNames == {"start", "from", "to", "days", "zone", "gap"}
NoRules   == [start |-> NoDate, from |-> 0, to |-> 0, days |-> 0 .. (Week - 1),
              zone |-> 0, gap |-> 0]

\* An edit replaces the rules it names.
Revised(r, e) == [n \in RuleNames |-> IF n \in DOMAIN e THEN e[n] ELSE r[n]]

ASSUME InputsAssumption ==
  /\ Settings \subseteq RuleSet /\ \A e \in Edits : Revised(NoRules, e) \in RuleSet
  /\ Rotations \subseteq SUBSET Account /\ Batches \subseteq SUBSET Lead
  /\ Dates \subseteq Nat \cup {NoDate} /\ Limits \subseteq Nat \ {0}

VARIABLES
  jobs,       \* commands between their reads and their transaction
  left,       \* what is left of the budget
  balanced,   \* accounts whose plan was laid out after the last change to it
  overtaken   \* campaigns that completed while leads were being added

deskVars == <<jobs, left, balanced, overtaken>>

Completed == {"completed", "completed_with_failures"}
Exists(c) == camp[c].status \notin {"none", "deleted"}
\* AUTOINCREMENT: no id is given twice.
NextId(c) == \A d \in Campaign : camp[d].status # "none" <=> d < c

CampaignRow(st, r) == [rules |-> r, status |-> st, done |-> NoTime, told |-> FALSE]
RowsWith(st)  == {k \in Row : rows[k].status = st}
RowsIn(c)     == {k \in Row : k[1] = c /\ rows[k].status # "none"}
AccountsOf(K) == {rows[k].acct : k \in K}

Spend(what) == left[what] > 0 /\ left' = [left EXCEPT ![what] = @ - 1]

\* The jobs of the commands that read first.
AddJob    == [op : {"add"}, c : Campaign, leads : SUBSET Lead, date : Nat \cup {NoDate},
              rules : RuleSet, accounts : (SUBSET Account) \ {{}}, revive : BOOLEAN]
UpdateJob == [op : {"update"}, c : Campaign, edit : Edits, rules : RuleSet, moves : BOOLEAN]
StateJob  == [op : {"state"}, c : Campaign, from : {"draft", "active", "paused"},
              to : {"active", "paused"}]
NowJob    == [op : {"now"}, c : Campaign]

\* A change touches the plans of accounts T, accounts A are rebalanced.
Balances(A, T) == balanced' = (balanced \ T) \cup A

\* What a change to rs touches: the accounts of the rows it makes or moves,
\* and of campaigns that open, close, or get other rules.
Touched(rs) ==
  LET K == {k \in Row : \/ rs[k] # rows[k]
                        \/ camp'[k[1]].rules # camp[k[1]].rules
                        \/ Open(camp', k[1]) # Open(camp, k[1])}
  IN AccountsOf(K) \cup {rs[k].acct : k \in K}

\* The transaction makes rs of the rows and ends with
\* rebalancePendingSchedulesTx.
Rebalance(A, rs) ==
  /\ rows' = Rebalanced(A, camp', cohort', rs, limit')
  /\ Balances(A, Touched(rs))

-----------------------------------------------------------------------------
(* campaign create, create-draft, clone *)

\* CreateDraftCampaign: no leads yet, and no start date.
CreateDraftCampaign(c, r, A) ==
  /\ NextId(c) /\ Spend("create") /\ A # {} /\ r.start = NoDate
  /\ camp' = [camp EXCEPT ![c] = CampaignRow("draft", r)]
  /\ links' = [links EXCEPT ![c] = A]
  /\ UNCHANGED <<now, cohort, rows, events, limit, jobs, balanced, overtaken>>

\* CreateCampaign: L are the leads of the file that are not suppressed.
CreateCampaign(c, r, L, A) ==
  /\ NextId(c) /\ Spend("create") /\ A # {}
  /\ camp' = [camp EXCEPT ![c] = CampaignRow("draft", r)]
  /\ links' = [links EXCEPT ![c] = A]
  /\ cohort' = [p \in Pair |-> IF p[1] = c /\ p[2] \in L THEN NoDate ELSE cohort[p]]
  /\ UNCHANGED <<now, events, limit, jobs, overtaken>>
  /\ Rebalance(A, Scheduled(c, L, A, r.start, r))

\* CloneCampaign: the rules of the source but its start date.
CloneCampaign(c, src, L, date) ==
  /\ NextId(c) /\ Exists(src) /\ links[src] # {} /\ Spend("clone")
  /\ UNCHANGED <<now, events, limit, jobs, overtaken>>
  /\ LET r == [camp[src].rules EXCEPT !.start = date] IN
       /\ camp' = [camp EXCEPT ![c] = CampaignRow("draft", r)]
       /\ links' = [links EXCEPT ![c] = links[src]]
       /\ cohort' = [p \in Pair |-> IF p[1] = c /\ p[2] \in L THEN NoDate ELSE cohort[p]]
       /\ Rebalance(links[src], Scheduled(c, L, links[src], date, r))

-----------------------------------------------------------------------------
(* Commands that read first. *)

Read(j) ==
  /\ Spend(j.op)
  /\ jobs' = jobs \cup {j}
  /\ UNCHANGED <<planVars, balanced, overtaken>>

Commit(j) ==
  /\ j \in jobs /\ Exists(j.c)
  /\ jobs' = jobs \ {j} /\ UNCHANGED left

\* The campaign is gone: the statements find nothing, or fail.
InVain(j) ==
  /\ j \in jobs /\ ~Exists(j.c)
  /\ jobs' = jobs \ {j}
  /\ UNCHANGED <<planVars, left, balanced, overtaken>>

\* AddLeadsToCampaignWithOpts, up to its transaction.
AddLeadsRead(c, L, date, reactivate) ==
  /\ Exists(c) /\ links[c] # {}
  /\ LET st     == camp[c].status
         revive == st \in Completed
     IN /\ IF date # NoDate THEN date > LocalDay(now, camp[c].rules)
           ELSE st = "draft" \/ ~Arrived(camp[c].rules.start, now, camp[c].rules)
        /\ revive => reactivate
        /\ reactivate => revive \/ st \in {"active", "draft"}
        /\ Read([op |-> "add", c |-> c, leads |-> L, date |-> date, rules |-> camp[c].rules,
                 accounts |-> links[c], revive |-> revive])

\* ... and the transaction: leads that are in the campaign already are left
\* out.  Nobody looks at the campaign's status again.  Bound: no lead is
\* added a second time whose rows outlived a failed DeleteCampaign.
AddLeadsCommit(j) ==
  /\ j.op = "add" /\ Commit(j)
  /\ UNCHANGED <<now, links, events, limit>>
  /\ LET new  == {l \in j.leads : cohort[<<j.c, l>>] = NotIn}
         from == IF j.date # NoDate THEN j.date ELSE j.rules.start
     IN /\ \A k \in RowsIn(j.c) : k[2] \notin new
        /\ camp' = IF j.revive THEN [camp EXCEPT ![j.c].status = "active"] ELSE camp
        /\ cohort' = [p \in Pair |-> IF p[1] = j.c /\ p[2] \in new THEN j.date ELSE cohort[p]]
        /\ Rebalance(j.accounts, Scheduled(j.c, new, j.accounts, from, j.rules))
        /\ overtaken' = IF camp'[j.c].status \in Completed /\ new # {}
                          THEN overtaken \cup {j.c} ELSE overtaken

\* UpdateCampaign, up to its transaction.  A new gap alone moves nothing here.
UpdateRead(c, e) ==
  /\ Exists(c)
  /\ Read([op |-> "update", c |-> c, edit |-> e, rules |-> Revised(camp[c].rules, e),
           moves |-> /\ DOMAIN e # {"gap"}
                     /\ \E k \in RowsIn(c) : rows[k].status = "pending"])

\* reschedulePendingSends: a lead without a mail starts afresh, another one
\* goes on from its last row, whatever became of that row.
Rescheduled(c, r) ==
  LET Mine(l)    == {s \in Step : rows[<<c, l, s>>].status # "none"}
      History(l) == \E s \in Mine(l) : rows[<<c, l, s>>].sent # NoTime
      Counts(l)  == {s \in Mine(l) : History(l) \/ rows[<<c, l, s>>].status = "pending"}
      At(l) ==
        LET own == RulesFor(l, r)
            at[s \in Step] ==
              LET row  == rows[<<c, l, s>>]
                  prev == {q \in Counts(l) : q < s}
              IN CASE row.status = "pending" /\ prev # {} -> NextTime(at[Max(prev)], Delay[s], own)
                   [] row.status = "pending" /\ prev = {} ->
                        Clamp(IF History(l) THEN row.at ELSE LeadAnchor(now, CohortDate(<<c, l>>, cohort), own), own)
                   [] row.status # "pending" -> IF row.sent # NoTime THEN row.sent ELSE row.at
        IN at
  IN [k \in Row |-> IF k \in RowsIn(c) /\ rows[k].status = "pending"
                     THEN [rows[k] EXCEPT !.at = At(k[2])[k[3]]] ELSE rows[k]]

UpdateCommit(j) ==
  /\ j.op = "update" /\ Commit(j)
  /\ camp' = [camp EXCEPT ![j.c].rules = Revised(@, j.edit)]
  /\ UNCHANGED <<now, links, cohort, events, limit, overtaken>>
  /\ Rebalance(links[j.c], IF j.moves THEN Rescheduled(j.c, j.rules) ELSE rows)

\* CampaignStateTransition: activate, pause, resume.
StateRead(c, from, to) ==
  /\ camp[c].status = from
  /\ Read([op |-> "state", c |-> c, from |-> from, to |-> to])

StateCommit(j) ==
  /\ j.op = "state" /\ Commit(j)
  /\ camp' = [camp EXCEPT ![j.c].status = j.to]
  /\ UNCHANGED <<now, links, cohort, events, limit, overtaken>>
  /\ Rebalance(IF "paused" \in {j.from, j.to} THEN links[j.c] ELSE {}, rows)

\* SendNowCampaign: everything pending is due, and nothing is rebalanced.
SendNowRead(c) ==
  camp[c].status = "active" /\ Read([op |-> "now", c |-> c])

SendNowCommit(j) ==
  /\ j.op = "now" /\ Commit(j)
  /\ LET due == RowsIn(j.c) \cap RowsWith("pending") IN
       /\ rows' = [k \in Row |-> IF k \in due THEN [rows[k] EXCEPT !.at = now] ELSE rows[k]]
       /\ Balances({}, AccountsOf(due))
  /\ UNCHANGED <<now, camp, links, cohort, events, limit, overtaken>>

-----------------------------------------------------------------------------
(* Commands of one transaction. *)

\* RetryCampaign: every failed row, or those of one step.
RetryCampaign(c, S) ==
  /\ Exists(c) /\ Spend("retry")
  /\ LET failed == {k \in RowsIn(c) \cap RowsWith("failed") : k[3] \in S}
         again  == [k \in Row |-> IF k \in failed
                      THEN [rows[k] EXCEPT !.status = "pending", !.at = now] ELSE rows[k]]
     IN /\ camp' = IF failed # {} /\ camp[c].status = "completed_with_failures"
                     THEN [camp EXCEPT ![c].status = "active", ![c].done = NoTime,
                                       ![c].told = FALSE]
                     ELSE camp
        /\ UNCHANGED <<now, links, cohort, events, limit, jobs, overtaken>>
        /\ Rebalance(links[c], again)

\* UpdateAccount, UpdateSMTPIMAPAccount: the daily limit.
SetLimit(a, n) ==
  /\ Spend("limit") /\ limit[a] # n
  /\ limit' = [limit EXCEPT ![a] = n]
  /\ UNCHANGED <<now, camp, links, cohort, events, jobs, overtaken>>
  /\ Rebalance({a}, rows)

\* GetCampaignPreview, GetDailyLimitWarnings: they only show, but they
\* rebalance first.
Preview(A) ==
  /\ A # {} /\ Spend("preview")
  /\ UNCHANGED <<now, camp, links, cohort, events, limit, jobs, overtaken>>
  /\ Rebalance(A, rows)

\* DeleteCampaign.  Once a mail left, its snapshot refers to the campaign and
\* to the row: the deletes of both fail, nobody looks, and the rest commits.
\* The events go as well unless a snapshot refers to one of them.
DeleteCampaign(c) ==
  /\ Exists(c) /\ Spend("delete")
  /\ links' = [links EXCEPT ![c] = {}]
  /\ cohort' = [p \in Pair |-> IF p[1] = c THEN NotIn ELSE cohort[p]]
  /\ IF \E k \in RowsIn(c) : rows[k].status = "sent"
       THEN UNCHANGED <<camp, rows>>
       ELSE /\ camp' = [camp EXCEPT ![c] = CampaignRow("deleted", NoRules)]
            /\ rows' = [k \in Row |-> IF k[1] = c THEN NoRow ELSE rows[k]]
  /\ \/ events' = {e \in events : e.key[1] # c}
     \/ UNCHANGED events /\ \E e \in events : e.key[1] = c
  /\ UNCHANGED <<now, limit, jobs, balanced, overtaken>>

-----------------------------------------------------------------------------
(* What happens elsewhere, as far as the plan is concerned. *)

\* A slip: all its rows are closed, the sent ones too.
StopLeadAll(c, l) ==
  /\ Spend("stops") /\ cohort[<<c, l>>] # NotIn
  /\ rows' = [k \in Row |-> IF k \in RowsIn(c) /\ k[2] = l
                              THEN [rows[k] EXCEPT !.status = "skipped"] ELSE rows[k]]
  /\ UNCHANGED <<now, camp, links, cohort, events, limit, jobs, balanced, overtaken>>

\* A lead answered, opted out or was taken out: its pending rows are closed.
StopLead(c, l) ==
  /\ Spend("stops") /\ cohort[<<c, l>>] # NotIn
  /\ \E k \in RowsIn(c) : k[2] = l /\ rows[k].status = "pending"
  /\ rows' = [k \in Row |-> IF k[1] = c /\ k[2] = l /\ rows[k].status = "pending"
                              THEN [rows[k] EXCEPT !.status = "skipped"] ELSE rows[k]]
  /\ UNCHANGED <<now, camp, links, cohort, events, limit, jobs, balanced, overtaken>>

\* An operator answers a lead: an event that counts, and no rebalance.
ManualReply(c, l) ==
  /\ Spend("replies") /\ cohort[<<c, l>>] # NotIn
  /\ rows[<<c, l, 1>>].status = "sent" /\ \A e \in events : e.key # <<c, l, 0>>
  /\ events' = events \cup {[key |-> <<c, l, 0>>, at |-> now, acct |-> rows[<<c, l, 1>>].acct]}
  /\ Balances({}, {rows[<<c, l, 1>>].acct})
  /\ UNCHANGED <<now, camp, links, cohort, rows, limit, jobs, overtaken>>

Operator ==
  \/ \E c \in Campaign :
       \/ \E r \in Settings, A \in Rotations :
            CreateDraftCampaign(c, r, A) \/ \E L \in Batches : CreateCampaign(c, r, L, A)
       \/ \E src \in Campaign, L \in Batches, d \in Dates : CloneCampaign(c, src, L, d)
       \/ \E L \in Batches, d \in Dates, v \in BOOLEAN : AddLeadsRead(c, L, d, v)
       \/ \E e \in Edits : UpdateRead(c, e)
       \/ StateRead(c, "draft", "active") \/ StateRead(c, "active", "paused")
       \/ StateRead(c, "paused", "active") \/ SendNowRead(c)
       \/ RetryCampaign(c, Step) \/ \E s \in Step : RetryCampaign(c, {s})
       \/ DeleteCampaign(c)
       \/ \E l \in Lead : StopLead(c, l) \/ ManualReply(c, l)
  \/ \E j \in jobs : AddLeadsCommit(j) \/ UpdateCommit(j) \/ StateCommit(j) \/ SendNowCommit(j)
                    \/ InVain(j)
  \/ \E a \in Account, n \in Limits : SetLimit(a, n)
  \/ \E c \in Campaign : Preview(links[c])

PlanInit ==
  /\ now = 0
  /\ camp = [c \in Campaign |-> CampaignRow("none", NoRules)]
  /\ links = [c \in Campaign |-> {}]
  /\ cohort = [p \in Pair |-> NotIn]
  /\ rows = [k \in Row |-> NoRow]
  /\ events = {}
  /\ \E n \in Limits : /\ \A m \in Limits : n <= m
                       /\ limit = [a \in Account |-> n]
  /\ jobs = {} /\ balanced = Account /\ overtaken = {}
  /\ left \in Budgets
=============================================================================
