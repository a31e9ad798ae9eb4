--------------------------- MODULE PlanningProofs ---------------------------
(* Plans, completions and alerts, for all campaigns, leads, accounts, steps *)
(* and rules: what the properties say holds of every behaviour.             *)
EXTENDS PlanningProperties, PlacementProofs

-----------------------------------------------------------------------------
(* The tables. *)

LEMMA UsageIs ==
  ASSUME TablesOK
  PROVE  UsageKnown
BY DEF TablesOK, UsageKnown, SentEvent

LEMMA TablesAre ==
  ASSUME now \in Nat, NEW cs \in [Campaign -> CampaignRecord],
         NEW co \in [Pair -> Nat \cup {NoDate, NotIn}], NEW rs, RowsOK(rs)
  PROVE  Tables(cs, co, rs)
<1>1. \A c \in Campaign : cs[c].rules \in RuleSet
  BY DEF CampaignRecord
<1>2. \A k \in Row : rs[k].at \in Nat /\ rs[k].sent \in Time
  BY DEF RowsOK, RowRecord
<1> QED BY <1>1, <1>2 DEF Tables

\* The tables a transaction leaves to the rebalance.
Given(cs, co, lim) ==
  /\ cs \in [Campaign -> CampaignRecord]
  /\ co \in [Pair -> Nat \cup {NoDate, NotIn}]
  /\ lim \in [Account -> Nat \ {0}]

\* The rebalance at the end of a transaction.
LEMMA RebalanceIs ==
  ASSUME TablesOK, Given(camp', cohort', limit'), NEW A, A \subseteq Account,
         NEW rs, RowsOK(rs), Rebalance(A, rs)
  PROVE  /\ Moves(rows', A, camp', rs) /\ RowsOK(rows')
         /\ balanced' = (balanced \ Touched(rs)) \cup A
         /\ \A a \in A : WellPlaced(PlanOf(a, camp', rows'), a, camp', cohort', rs, limit')
<1>1. UsageKnown /\ SomeLimit(limit')
  BY UsageIs DEF Given, SomeLimit
<1>2. Tables(camp', cohort', rs)
  <2>1. now \in Nat
    BY DEF TablesOK
  <2>2. camp' \in [Campaign -> CampaignRecord] /\ cohort' \in [Pair -> Nat \cup {NoDate, NotIn}]
    BY DEF Given
  <2> QED BY <2>1, <2>2, TablesAre
<1>3. rs \in [Row -> RowRecord]
  BY DEF RowsOK
<1>4. rows' = Rebalanced(A, camp', cohort', rs, limit')
  BY DEF Rebalance
<1>5. /\ Moves(rows', A, camp', rs)
      /\ \A a \in A : WellPlaced(PlanOf(a, camp', rows'), a, camp', cohort', rs, limit')
  <2>1. /\ Moves(Rebalanced(A, camp', cohort', rs, limit'), A, camp', rs)
        /\ \A a \in A : WellPlaced(PlanOf(a, camp', Rebalanced(A, camp', cohort', rs, limit')),
                                   a, camp', cohort', rs, limit')
    BY <1>1, <1>2, <1>3, RebalancedIs
  <2> QED BY <1>4, <2>1
<1>6. RowsOK(rows')
  BY <1>5 DEF Moves, RowsOK
<1>7. balanced' = (balanced \ Touched(rs)) \cup A
  BY DEF Rebalance, Balances
<1> QED BY <1>5, <1>6, <1>7


\* An edit of rules leaves rules.
LEMMA RevisedIs ==
  ASSUME NEW e \in Edits, NEW r \in RuleSet
  PROVE  Revised(r, e) \in RuleSet
<1> DEFINE g == Revised(r, e)
           n == Revised(NoRules, e)
<1>1. n \in RuleSet
  BY InputsAssumption
<1>2. g = [x \in RuleNames |-> IF x \in DOMAIN e THEN e[x] ELSE r[x]]
      /\ n = [x \in RuleNames |-> IF x \in DOMAIN e THEN e[x] ELSE NoRules[x]]
  BY DEF Revised
<1>3. \A x \in RuleNames : g[x] = n[x] \/ g[x] = r[x]
  <2> HIDE DEF g, n
  <2> QED BY <1>2
<1>4. g = [x \in RuleNames |-> g[x]]
  BY DEF Revised
<1> HIDE DEF g, n
<1>5. ASSUME NEW q \in RuleSet
      PROVE  /\ q["start"] \in Nat \cup {NoDate} /\ q["from"] \in 0 .. (DaySlots - 1)
             /\ q["to"] \in 0 .. DaySlots /\ q["days"] \in (SUBSET (0 .. (Week - 1))) \ {{}}
             /\ q["zone"] \in Int /\ q["gap"] \in Nat
  BY DEF RuleSet
<1>6. /\ g["start"] \in Nat \cup {NoDate} /\ g["from"] \in 0 .. (DaySlots - 1)
      /\ g["to"] \in 0 .. DaySlots /\ g["days"] \in (SUBSET (0 .. (Week - 1))) \ {{}}
      /\ g["zone"] \in Int /\ g["gap"] \in Nat
  <2>1. \A x \in {"start", "from", "to", "days", "zone", "gap"} : g[x] = n[x] \/ g[x] = r[x]
    BY <1>3 DEF RuleNames
  <2>2. /\ g["start"] = n["start"] \/ g["start"] = r["start"]
        /\ g["from"] = n["from"] \/ g["from"] = r["from"]
        /\ g["to"] = n["to"] \/ g["to"] = r["to"]
        /\ g["days"] = n["days"] \/ g["days"] = r["days"]
        /\ g["zone"] = n["zone"] \/ g["zone"] = r["zone"]
        /\ g["gap"] = n["gap"] \/ g["gap"] = r["gap"]
    BY <2>1
  <2> QED BY <1>1, <1>5, <2>2
<1> QED BY <1>4, <1>6 DEF RuleSet, RuleNames, g

\* Rows that differ in nothing but their times.
Retimes(rs) ==
  /\ rs \in [Row -> RowRecord]
  /\ \A k \in Row : /\ rs[k].status = rows[k].status /\ rs[k].sent = rows[k].sent
                    /\ rs[k].acct = rows[k].acct
                    /\ rows[k].status # "pending" => rs[k] = rows[k]

\* reschedulePendingSends: every row of a lead after the one before it.
LEMMA RescheduledIs ==
  ASSUME TablesOK, NEW c \in Campaign, NEW r \in RuleSet
  PROVE  Retimes(Rescheduled(c, r))
<1> DEFINE Mine(l)    == {s \in Step : rows[<<c, l, s>>].status # "none"}
           History(l) == \E s \in Mine(l) : rows[<<c, l, s>>].sent # NoTime
           Counts(l)  == {s \in Mine(l) : History(l) \/ rows[<<c, l, s>>].status = "pending"}
           own(l)     == RulesFor(l, r)
           row(l, s)  == rows[<<c, l, s>>]
           Prev(l, s) == {q \in Counts(l) : q < s}
           Anew(l, s) == Clamp(IF History(l) THEN row(l, s).at
                               ELSE LeadAnchor(now, CohortDate(<<c, l>>, cohort), own(l)), own(l))
           Kept(l, s) == IF row(l, s).sent # NoTime THEN row(l, s).sent ELSE row(l, s).at
           After1(l, s, x) == NextTime(x, Delay[s], own(l))
           Body(l, f, s) ==
             CASE row(l, s).status = "pending" /\ Prev(l, s) # {} -> After1(l, s, f[Max(Prev(l, s))])
               [] row(l, s).status = "pending" /\ Prev(l, s) = {} -> Anew(l, s)
               [] row(l, s).status # "pending" -> Kept(l, s)
           Loops(l, f) == f = [s \in Step |-> Body(l, f, s)]
           At(l) == CHOOSE f : Loops(l, f)
           new   == Rescheduled(c, r)
<1>1. /\ now \in Nat /\ cohort \in [Pair -> Nat \cup {NoDate, NotIn}]
      /\ rows \in [Row -> RowRecord]
  BY DEF TablesOK, RowsOK
<1>2. ASSUME NEW l \in Lead
      PROVE  own(l) \in RuleSet
  BY RulesForType
<1>3. ASSUME NEW l \in Lead, NEW s \in Step
      PROVE  /\ row(l, s) \in RowRecord /\ row(l, s).at \in Nat /\ Kept(l, s) \in Nat
             /\ Delay[s] \in Nat /\ s \in Nat /\ s >= 1
  <2>1. <<c, l, s>> \in Row
    BY DEF Row
  <2>2. row(l, s) \in RowRecord
    BY <1>1, <2>1
  <2> HIDE DEF row
  <2> QED BY <2>2, PlannerAssumption DEF RowRecord, Time, Step
<1>4. ASSUME NEW l \in Lead, NEW s \in Step
      PROVE  Anew(l, s) \in Nat
  <2> DEFINE start == LeadAnchor(now, CohortDate(<<c, l>>, cohort), own(l))
             t     == IF History(l) THEN row(l, s).at ELSE start
  <2>1. CohortDate(<<c, l>>, cohort) \in Nat \cup {NoDate}
    <3>1. <<c, l>> \in Pair
      BY DEF Pair
    <3>2. cohort[<<c, l>>] \in Nat \cup {NoDate, NotIn}
      BY <1>1, <3>1
    <3> QED BY <3>2 DEF CohortDate
  <2>2. start \in Nat
    <3> HIDE DEF own
    <3> QED BY <1>1, <1>2, <2>1, LeadAnchorIs
  <2>3. t \in Nat
    <3> HIDE DEF start, row, History
    <3> QED BY <1>3, <2>2
  <2> HIDE DEF t, own
  <2>4. Clamp(t, own(l)) \in Int /\ Clamp(t, own(l)) >= t
    <3>1. t \in Int
      BY <2>3
    <3> QED BY <1>2, <3>1, ClampIs
  <2>5. Clamp(t, own(l)) \in Nat
    BY <2>3, <2>4
  <2> QED BY <2>5 DEF t
<1>5. ASSUME NEW l \in Lead, NEW s \in Step, NEW x \in Nat
      PROVE  After1(l, s, x) \in Nat
  <2> HIDE DEF own, row
  <2>1. NextTime(x, Delay[s], own(l)) \in Int /\ NextTime(x, Delay[s], own(l)) >= x
    BY <1>2, <1>3, NextTimeIs
  <2> QED BY <2>1
<1>6. ASSUME NEW l \in Lead, NEW s \in Step, Prev(l, s) # {}
      PROVE  Max(Prev(l, s)) \in Step /\ Max(Prev(l, s)) < s
  <2> DEFINE P == Prev(l, s)
  <2>1. P \subseteq Step /\ Step \subseteq Int /\ IsFiniteSet(Step) /\ \A q \in P : q < s
    BY PlannerAssumption, FS_Interval DEF Step
  <2>2. P \in SUBSET Int /\ IsFiniteSet(P) /\ P # {}
    <3> HIDE DEF P
    <3>1. P # {}
      BY <1>6 DEF P
    <3> QED BY <2>1, <3>1, FS_Subset
  <2> HIDE DEF P
  <2>3. Max(P) \in P
    BY <2>2, MaxIs
  <2> QED BY <2>1, <2>3 DEF P
<1>7. ASSUME NEW l \in Lead
      PROVE  \A s \in Step : At(l)[s] \in Nat
  <2> DEFINE p == [s \in Step |-> IF row(l, s).status = "pending" /\ Prev(l, s) # {}
                                    THEN Max(Prev(l, s)) ELSE 0]
             v == [s \in Step |-> IF row(l, s).status = "pending" THEN Anew(l, s) ELSE Kept(l, s)]
             h == [q \in Nat \X Step |-> After1(l, q[2], q[1])]
  <2>1. Chain(p, v, h)
    <3> HIDE DEF Prev, Anew, Kept, After1, row, Mine, History, Counts, own
    <3>1. \A s \in Step : p[s] \in 0 .. (s - 1)
      <4> SUFFICES ASSUME NEW s \in Step PROVE p[s] \in 0 .. (s - 1)
        OBVIOUS
      <4>1. Prev(l, s) # {} => Max(Prev(l, s)) \in Nat /\ Max(Prev(l, s)) < s
        BY <1>3, <1>6
      <4> QED BY <1>3, <4>1
    <3>2. \A s \in Step : v[s] \in Nat
      BY <1>3, <1>4
    <3>3. \A s \in Step, x \in Nat : h[<<x, s>>] \in Nat
      BY <1>5
    <3> QED BY <3>1, <3>2, <3>3 DEF Chain
  <2>2. ASSUME NEW f, NEW s \in Step
        PROVE  Body(l, f, s) = IF p[s] = 0 THEN v[s] ELSE After1(l, s, f[p[s]])
    <3> HIDE DEF Prev, Anew, Kept, After1, row, Mine, History, Counts, own
    <3>1. Prev(l, s) # {} => Max(Prev(l, s)) # 0
      <4>1. Prev(l, s) # {} => Max(Prev(l, s)) \in Step
        BY <1>6
      <4> QED BY <1>3, <4>1
    <3>2. /\ p[s] = IF row(l, s).status = "pending" /\ Prev(l, s) # {} THEN Max(Prev(l, s)) ELSE 0
          /\ v[s] = IF row(l, s).status = "pending" THEN Anew(l, s) ELSE Kept(l, s)
      OBVIOUS
    <3> HIDE DEF p, v
    <3>3. Body(l, f, s) =
            IF row(l, s).status = "pending" /\ Prev(l, s) # {} THEN After1(l, s, f[Max(Prev(l, s))])
            ELSE IF row(l, s).status = "pending" THEN Anew(l, s) ELSE Kept(l, s)
      OBVIOUS
    <3> HIDE DEF Body
    <3>4. CASE row(l, s).status = "pending" /\ Prev(l, s) # {}
      <4>1. p[s] = Max(Prev(l, s)) /\ p[s] # 0
        BY <3>1, <3>2, <3>4
      <4>2. Body(l, f, s) = After1(l, s, f[Max(Prev(l, s))])
        BY <3>3, <3>4
      <4> QED BY <4>1, <4>2
    <3>5. CASE ~(row(l, s).status = "pending" /\ Prev(l, s) # {})
      BY <3>2, <3>3, <3>5
    <3> QED BY <3>4, <3>5
  <2>3. \E f : Loops(l, f)
    <3>1. PICK f : Links(f, Step, p, v, h) /\ \A s \in Step : f[s] \in Nat
      <4> HIDE DEF p, v, h
      <4> QED BY <2>1, ChainExists
    <3>2. \A s \in Step : p[s] # 0 => p[s] \in Step
      <4>1. \A s \in Step : p[s] \in 0 .. (s - 1)
        BY <2>1 DEF Chain
      <4>2. \A s \in Step : s \in Nat /\ s <= Steps
        BY PlannerAssumption DEF Step
      <4>3. \A n \in Nat : n # 0 /\ n <= Steps => n \in Step
        BY PlannerAssumption DEF Step
      <4> HIDE DEF p
      <4> QED BY <4>1, <4>2, <4>3, PlannerAssumption
    <3> HIDE DEF p, v, After1, Body
    <3>3. \A s \in Step : (IF p[s] = 0 THEN v[s] ELSE h[<<f[p[s]], s>>]) = Body(l, f, s)
      BY <2>2, <3>1, <3>2
    <3>4. f = [s \in Step |-> IF p[s] = 0 THEN v[s] ELSE h[<<f[p[s]], s>>]]
      BY <3>1 DEF Links
    <3> HIDE DEF h
    <3>5. Loops(l, f)
      BY <3>3, <3>4
    <3> HIDE DEF Loops
    <3> QED BY <3>5
  <2>4. Loops(l, At(l))
    <3> HIDE DEF Loops
    <3> QED BY <2>3
  <2> DEFINE at == At(l)
  <2>5. \A s \in Step : at[s] = Body(l, at, s)
    <3> HIDE DEF at, Body
    <3>1. at = [s \in Step |-> Body(l, at, s)]
      BY <2>4 DEF at
    <3> QED BY <3>1
  <2> HIDE DEF at, Body, After1
  <2>6. \A s \in Step : p[s] \in 0 .. (s - 1) /\ v[s] \in Nat
    BY <2>1 DEF Chain
  <2> HIDE DEF p, v, h
  <2>7. \A s \in Step : (p[s] = 0 \/ at[p[s]] \in Nat) => at[s] \in Nat
    BY <1>5, <2>2, <2>5, <2>6
  <2>8. \A s \in Step : at[s] \in Nat
    BY <2>6, <2>7, StepInduction
  <2> QED BY <2>8 DEF at
<1>8. new = [k \in Row |-> IF k \in RowsIn(c) /\ rows[k].status = "pending"
                             THEN [rows[k] EXCEPT !.at = At(k[2])[k[3]]] ELSE rows[k]]
  BY Zenon DEF Rescheduled
<1> HIDE DEF At, new
<1>9. ASSUME NEW k \in Row
      PROVE  /\ new[k] \in RowRecord /\ new[k].status = rows[k].status
             /\ new[k].sent = rows[k].sent /\ new[k].acct = rows[k].acct
             /\ rows[k].status # "pending" => new[k] = rows[k]
  <2> DEFINE t == At(k[2])[k[3]]
  <2>1. t \in Nat
    BY <1>7 DEF Row
  <2>2. rows[k] \in RowRecord
    BY <1>1
  <2>3. \/ new[k] = rows[k]
        \/ new[k] = [rows[k] EXCEPT !.at = t] /\ rows[k].status = "pending"
    BY <1>8
  <2> HIDE DEF t
  <2> QED BY <2>1, <2>2, <2>3 DEF RowRecord
<1>10. new = [k \in Row |-> new[k]]
  BY <1>8
<1>11. Retimes(new)
  BY <1>9, <1>10 DEF Retimes
<1> QED BY <1>11 DEF new


-----------------------------------------------------------------------------
(* What a step does to the tables. *)

Gone == {"none", "deleted"}

\* A campaign that is gone has no rows.
RowsOfCampaigns == \A k \in Row : camp[k[1]].status \in Gone => rows[k].status = "none"

\* A mail that left stays so while the tick tidies up after it.
SentStays == tick.pc = "tidy" => rows[tick.on].status = "sent"

\* A transaction makes rs of the rows and rebalances A.
Replans(rs, A) ==
  /\ A \subseteq Account /\ RowsOK(rs) /\ RowsOK(rows')
  /\ Given(camp', cohort', limit') /\ links' \in [Campaign -> SUBSET Account]
  /\ Moves(rows', A, camp', rs)
  /\ balanced' = (balanced \ Touched(rs)) \cup A
  /\ \A a \in A : WellPlaced(PlanOf(a, camp', rows'), a, camp', cohort', rs, limit')
  /\ UNCHANGED <<now, events>>

LEMMA ReplansIs ==
  ASSUME TablesOK, Given(camp', cohort', limit'), links' \in [Campaign -> SUBSET Account],
         UNCHANGED <<now, events>>, NEW A, A \subseteq Account,
         NEW rs, RowsOK(rs), Rebalance(A, rs)
  PROVE  Replans(rs, A)
<1>1. /\ Moves(rows', A, camp', rs) /\ RowsOK(rows')
      /\ balanced' = (balanced \ Touched(rs)) \cup A
      /\ \A a \in A : WellPlaced(PlanOf(a, camp', rows'), a, camp', cohort', rs, limit')
  BY RebalanceIs
<1> QED BY <1>1 DEF Replans

\* Leads L join campaign c.
Enrols(c, L, A, rs, d) ==
  /\ Replans(rs, A) /\ Lays(rs, c, L, A)
  /\ c \in Campaign /\ L \subseteq Lead /\ \A k \in RowsIn(c) : k[2] \notin L
  /\ camp'[c].status \notin Gone /\ \A b \in Campaign \ {c} : camp'[b] = camp[b]
  /\ camp'[c].status \in Completed
       => camp[c].status = camp'[c].status /\ (L = {} \/ c \in overtaken')
  /\ overtaken \subseteq overtaken' /\ overtaken' \subseteq Campaign
  /\ cohort' = [p \in Pair |-> IF p[1] = c /\ p[2] \in L THEN d ELSE cohort[p]]
  /\ limit' = limit

LEMMA LaysRows ==
  ASSUME TablesOK, NEW c \in Campaign, NEW L, L \subseteq Lead,
         NEW accounts, accounts \subseteq Account, accounts # {} \/ L = {},
         NEW date \in Nat \cup {NoDate}, NEW r \in RuleSet
  PROVE  /\ Lays(Scheduled(c, L, accounts, date, r), c, L, accounts)
         /\ RowsOK(Scheduled(c, L, accounts, date, r))
<1> DEFINE rs == Scheduled(c, L, accounts, date, r)
<1>1. now \in Nat /\ rows \in [Row -> RowRecord] /\ RowsOK(rows)
  BY DEF TablesOK, RowsOK
<1>2. Lays(rs, c, L, accounts)
  BY <1>1, ScheduledIs
<1> HIDE DEF rs
<1>3. RowsOK(rs)
  BY <1>1, <1>2 DEF Lays, RowsOK
<1> QED BY <1>2, <1>3 DEF rs

\* An id that was not given yet.
LEMMA NextIdIs ==
  ASSUME NEW c \in Campaign, NextId(c)
  PROVE  camp[c].status = "none"
<1>1. c \in Nat
  BY PlannerAssumption
<1>2. camp[c].status # "none" <=> c < c
  BY DEF NextId
<1> QED BY <1>1, <1>2

LEMMA CreateEnrols ==
  ASSUME TypeOK, RowsOfCampaigns, NEW c \in Campaign, NEW r \in Settings,
         NEW L \in Batches, NEW A \in Rotations, CreateCampaign(c, r, L, A)
  PROVE  Enrols(c, L, A, Scheduled(c, L, A, r.start, r), NoDate)
<1> DEFINE rs == Scheduled(c, L, A, r.start, r)
<1>1. /\ r \in RuleSet /\ L \subseteq Lead /\ A \subseteq Account /\ A # {}
      /\ r.start \in Nat \cup {NoDate}
  BY InputsAssumption DEF RuleSet, CreateCampaign
<1>2. TablesOK /\ DeskOK
  BY DEF TypeOK
<1>3. Lays(rs, c, L, A) /\ RowsOK(rs)
  BY <1>1, <1>2, LaysRows
<1>4. Rebalance(A, rs) /\ UNCHANGED <<now, events, limit, overtaken>>
  BY DEF CreateCampaign
<1> HIDE DEF rs
<1>5. /\ camp' = [camp EXCEPT ![c] = CampaignRow("draft", r)] /\ links' = [links EXCEPT ![c] = A]
      /\ cohort' = [p \in Pair |-> IF p[1] = c /\ p[2] \in L THEN NoDate ELSE cohort[p]]
      /\ NextId(c)
  BY DEF CreateCampaign
<1>6. camp' \in [Campaign -> CampaignRecord]
  BY <1>1, <1>2, <1>5 DEF TablesOK, CampaignRow, CampaignRecord, Statuses, Time
<1>7. Given(camp', cohort', limit') /\ links' \in [Campaign -> SUBSET Account]
  BY <1>1, <1>2, <1>4, <1>5, <1>6 DEF TablesOK, Given
<1>8. Replans(rs, A)
  BY <1>1, <1>2, <1>3, <1>4, <1>7, ReplansIs
<1>9. /\ camp'[c].status = "draft" /\ \A b \in Campaign \ {c} : camp'[b] = camp[b]
  BY <1>2, <1>5 DEF TablesOK, CampaignRow
<1>10. \A k \in RowsIn(c) : k[2] \notin L
  BY <1>5, NextIdIs DEF RowsOfCampaigns, RowsIn, Gone
<1>11. overtaken \subseteq overtaken' /\ overtaken' \subseteq Campaign
  BY <1>2, <1>4 DEF DeskOK
<1> QED BY <1>1, <1>3, <1>4, <1>5, <1>8, <1>9, <1>10, <1>11 DEF Enrols, Gone, Completed, rs


LEMMA CloneEnrols ==
  ASSUME TypeOK, RowsOfCampaigns, NEW c \in Campaign, NEW src \in Campaign,
         NEW L \in Batches, NEW date \in Dates, CloneCampaign(c, src, L, date)
  PROVE  \E A, rs : Enrols(c, L, A, rs, NoDate)
<1> DEFINE r  == [camp[src].rules EXCEPT !.start = date]
           A  == links[src]
           rs == Scheduled(c, L, A, date, r)
<1>1. L \subseteq Lead /\ date \in Nat \cup {NoDate}
  BY InputsAssumption
<1>2. TablesOK /\ DeskOK
  BY DEF TypeOK
<1>3. A \subseteq Account /\ A # {} /\ r \in RuleSet
  <2>1. camp[src].rules \in RuleSet
    BY <1>2 DEF TablesOK, CampaignRecord
  <2>2. r \in RuleSet
    BY <1>1, <2>1 DEF RuleSet
  <2> QED BY <1>2, <2>2 DEF CloneCampaign, TablesOK
<1>4. /\ Rebalance(A, rs) /\ UNCHANGED <<now, events, limit, overtaken>>
      /\ camp' = [camp EXCEPT ![c] = CampaignRow("draft", r)] /\ links' = [links EXCEPT ![c] = A]
      /\ cohort' = [p \in Pair |-> IF p[1] = c /\ p[2] \in L THEN NoDate ELSE cohort[p]]
      /\ NextId(c)
  BY DEF CloneCampaign
<1> HIDE DEF r, A
<1>5. Lays(rs, c, L, A) /\ RowsOK(rs)
  BY <1>1, <1>2, <1>3, LaysRows
<1> HIDE DEF rs
<1>6. camp' \in [Campaign -> CampaignRecord]
  BY <1>2, <1>3, <1>4 DEF TablesOK, CampaignRow, CampaignRecord, Statuses, Time
<1>7. Given(camp', cohort', limit') /\ links' \in [Campaign -> SUBSET Account]
  BY <1>2, <1>3, <1>4, <1>6 DEF TablesOK, Given
<1>8. Replans(rs, A)
  BY <1>2, <1>3, <1>4, <1>5, <1>7, ReplansIs
<1>9. /\ camp'[c].status = "draft" /\ \A b \in Campaign \ {c} : camp'[b] = camp[b]
  BY <1>2, <1>4 DEF TablesOK, CampaignRow
<1>10. \A k \in RowsIn(c) : k[2] \notin L
  BY <1>4, NextIdIs DEF RowsOfCampaigns, RowsIn, Gone
<1>11. overtaken \subseteq overtaken' /\ overtaken' \subseteq Campaign
  BY <1>2, <1>4 DEF DeskOK
<1> QED BY <1>1, <1>4, <1>5, <1>8, <1>9, <1>10, <1>11 DEF Enrols, Gone, Completed

LEMMA AddEnrols ==
  ASSUME TypeOK, NEW j \in jobs, AddLeadsCommit(j)
  PROVE  \E L, A, rs, d : Enrols(j.c, L, A, rs, d)
<1> DEFINE c    == j.c
           A    == j.accounts
           L    == {l \in j.leads : cohort[<<j.c, l>>] = NotIn}
           from == IF j.date # NoDate THEN j.date ELSE j.rules.start
           rs   == Scheduled(j.c, L, j.accounts, from, j.rules)
<1>1. TablesOK /\ DeskOK
  BY DEF TypeOK
<1>2. j \in AddJob
  BY <1>1 DEF DeskOK, AddLeadsCommit, UpdateJob, StateJob, NowJob
<1>3. /\ c \in Campaign /\ L \subseteq Lead /\ A \subseteq Account /\ A # {}
      /\ j.rules \in RuleSet /\ from \in Nat \cup {NoDate} /\ j.date \in Nat \cup {NoDate}
  BY <1>2 DEF AddJob, RuleSet
<1>4. /\ Rebalance(A, rs) /\ UNCHANGED <<now, events, limit, links>>
      /\ camp' = IF j.revive THEN [camp EXCEPT ![j.c].status = "active"] ELSE camp
      /\ cohort' = [p \in Pair |-> IF p[1] = j.c /\ p[2] \in L THEN j.date ELSE cohort[p]]
      /\ overtaken' = IF camp'[j.c].status \in Completed /\ L # {}
                        THEN overtaken \cup {j.c} ELSE overtaken
      /\ \A k \in RowsIn(j.c) : k[2] \notin L
      /\ Exists(j.c)
  BY DEF AddLeadsCommit, Commit
<1> HIDE DEF L, from
<1>5. Lays(rs, c, L, A) /\ RowsOK(rs)
  BY <1>1, <1>3, LaysRows
<1> HIDE DEF rs
<1>6. camp' \in [Campaign -> CampaignRecord]
  BY <1>1, <1>3, <1>4 DEF TablesOK, CampaignRecord, Statuses
<1>7. Given(camp', cohort', limit') /\ links' \in [Campaign -> SUBSET Account]
  BY <1>1, <1>3, <1>4, <1>6 DEF TablesOK, Given
<1>8. Replans(rs, A)
  BY <1>1, <1>3, <1>4, <1>5, <1>7, ReplansIs
<1>9. /\ camp'[c].status \in {"active", camp[c].status}
      /\ camp'[c].status # camp[c].status => camp'[c].status = "active"
      /\ \A b \in Campaign \ {c} : camp'[b] = camp[b]
  BY <1>1, <1>3, <1>4 DEF TablesOK, CampaignRecord
<1>10. camp'[c].status \notin Gone
  BY <1>4, <1>9 DEF Exists, Gone
<1>11. /\ overtaken \subseteq overtaken' /\ overtaken' \subseteq Campaign
       /\ camp'[c].status \in Completed
            => camp[c].status = camp'[c].status /\ (L = {} \/ c \in overtaken')
  BY <1>1, <1>3, <1>4, <1>9 DEF DeskOK, Completed
<1>12. Enrols(j.c, L, A, rs, j.date)
  BY <1>3, <1>4, <1>5, <1>8, <1>9, <1>10, <1>11 DEF Enrols
<1> QED BY <1>12


\* Rows move, and campaigns start, stop or change their rules.
Rearranges(A, rs) ==
  /\ Replans(rs, A) /\ Retimes(rs)
  /\ cohort' = cohort /\ overtaken' = overtaken
  /\ \A a \in Account \ A : limit'[a] = limit[a]
  /\ \A c \in Campaign :
       \/ camp'[c].status = camp[c].status
       \/ camp[c].status \notin Gone /\ camp'[c].status \in {"active", "paused"}

LEMMA RowsRetime ==
  ASSUME TablesOK
  PROVE  Retimes(rows) /\ RowsOK(rows)
BY DEF TablesOK, RowsOK, Retimes

LEMMA UpdateRearranges ==
  ASSUME TypeOK, NEW j \in jobs, UpdateCommit(j)
  PROVE  \E A, rs : Rearranges(A, rs)
<1> DEFINE A  == links[j.c]
           rs == IF j.moves THEN Rescheduled(j.c, j.rules) ELSE rows
<1>1. TablesOK /\ DeskOK
  BY DEF TypeOK
<1>2. j \in UpdateJob
  BY <1>1 DEF DeskOK, UpdateCommit, AddJob, StateJob, NowJob
<1>3. j.c \in Campaign /\ j.rules \in RuleSet /\ j.edit \in Edits
  BY <1>2 DEF UpdateJob
<1>4. Retimes(rs) /\ RowsOK(rs)
  <2>1. Retimes(Rescheduled(j.c, j.rules))
    BY <1>1, <1>3, RescheduledIs
  <2>2. RowsOK(Rescheduled(j.c, j.rules))
    BY <1>1, <2>1 DEF RowsOK, Retimes, TablesOK
  <2> QED BY <1>1, <2>1, <2>2, RowsRetime
<1>5. /\ camp' = [camp EXCEPT ![j.c].rules = Revised(@, j.edit)]
      /\ UNCHANGED <<now, links, cohort, events, limit, overtaken>>
      /\ Rebalance(A, rs)
  BY DEF UpdateCommit
<1> HIDE DEF rs
<1>6. camp' \in [Campaign -> CampaignRecord] /\ \A c \in Campaign : camp'[c].status = camp[c].status
  <2>1. camp[j.c] \in CampaignRecord
    BY <1>1, <1>3 DEF TablesOK
  <2>2. Revised(camp[j.c].rules, j.edit) \in RuleSet
    BY <1>3, <2>1, RevisedIs DEF CampaignRecord
  <2> QED BY <1>1, <1>3, <1>5, <2>1, <2>2 DEF TablesOK, CampaignRecord
<1>7. Given(camp', cohort', limit') /\ links' \in [Campaign -> SUBSET Account] /\ A \subseteq Account
  BY <1>1, <1>3, <1>5, <1>6 DEF TablesOK, Given
<1>8. Replans(rs, A)
  BY <1>1, <1>4, <1>5, <1>7, ReplansIs
<1> HIDE DEF A
<1>9. Rearranges(A, rs)
  BY <1>4, <1>5, <1>6, <1>8 DEF Rearranges
<1> QED BY <1>9

LEMMA StateRearranges ==
  ASSUME TypeOK, NEW j \in jobs, StateCommit(j)
  PROVE  \E A, rs : Rearranges(A, rs)
<1> DEFINE A == IF "paused" \in {j.from, j.to} THEN links[j.c] ELSE {}
<1>1. TablesOK /\ DeskOK
  BY DEF TypeOK
<1>2. j \in StateJob
  BY <1>1 DEF DeskOK, StateCommit, AddJob, UpdateJob, NowJob
<1>3. j.c \in Campaign /\ j.to \in {"active", "paused"} /\ camp[j.c].status \notin Gone
  BY <1>2 DEF StateJob, StateCommit, Commit, Exists, Gone
<1>4. /\ camp' = [camp EXCEPT ![j.c].status = j.to]
      /\ UNCHANGED <<now, links, cohort, events, limit, overtaken>>
      /\ Rebalance(A, rows)
  BY DEF StateCommit
<1>5. /\ camp' \in [Campaign -> CampaignRecord]
      /\ \A c \in Campaign : camp'[c].status = IF c = j.c THEN j.to ELSE camp[c].status
  BY <1>1, <1>3, <1>4 DEF TablesOK, CampaignRecord, Statuses
<1>6. Given(camp', cohort', limit') /\ links' \in [Campaign -> SUBSET Account] /\ A \subseteq Account
  BY <1>1, <1>3, <1>4, <1>5 DEF TablesOK, Given
<1> HIDE DEF A
<1>7. Replans(rows, A)
  BY <1>1, <1>4, <1>6, RowsRetime, ReplansIs
<1>8. Rearranges(A, rows)
  BY <1>1, <1>3, <1>4, <1>5, <1>7, RowsRetime DEF Rearranges
<1> QED BY <1>8

\* A limit changes, or nothing but the plans of some accounts.
LEMMA LimitRearranges ==
  ASSUME TypeOK, NEW A, A \subseteq Account, Rebalance(A, rows),
         UNCHANGED <<now, camp, links, cohort, events, overtaken>>,
         limit' \in [Account -> Nat \ {0}], \A a \in Account \ A : limit'[a] = limit[a]
  PROVE  Rearranges(A, rows)
<1>1. TablesOK
  BY DEF TypeOK
<1>2. Given(camp', cohort', limit') /\ links' \in [Campaign -> SUBSET Account]
  BY <1>1 DEF TablesOK, Given
<1>3. Replans(rows, A)
  BY <1>1, <1>2, RowsRetime, ReplansIs
<1> QED BY <1>1, <1>3, RowsRetime DEF Rearranges

\* Failed rows of campaign c are tried again, all or some.
Retries(c, A, rs) ==
  /\ Replans(rs, A) /\ c \in Campaign /\ camp[c].status \notin Gone
  /\ \A k \in Row :
       \/ rs[k] = rows[k]
       \/ /\ k[1] = c /\ rows[k].status = "failed"
          /\ rs[k].status = "pending" /\ rs[k].sent = NoTime /\ rs[k].acct = rows[k].acct
  /\ cohort' = cohort /\ overtaken' = overtaken /\ limit' = limit
  /\ \A b \in Campaign \ {c} : camp'[b] = camp[b]
  /\ \/ camp' = camp /\ (camp[c].status = "completed_with_failures"
                           => \A k \in Row : rs[k] = rows[k])
     \/ camp'[c].status = "active"

LEMMA RetryIs ==
  ASSUME TypeOK, NEW c \in Campaign, NEW S, RetryCampaign(c, S)
  PROVE  \E A, rs : Retries(c, A, rs)
<1> DEFINE failed == {k \in RowsIn(c) \cap RowsWith("failed") : k[3] \in S}
           A      == links[c]
           rs     == [k \in Row |-> IF k \in failed
                        THEN [rows[k] EXCEPT !.status = "pending", !.at = now] ELSE rows[k]]
<1>1. TablesOK /\ DeskOK
  BY DEF TypeOK
<1>2. /\ Rebalance(A, rs) /\ UNCHANGED <<now, links, cohort, events, limit, overtaken>>
      /\ camp' = IF failed # {} /\ camp[c].status = "completed_with_failures"
                   THEN [camp EXCEPT ![c].status = "active", ![c].done = NoTime, ![c].told = FALSE]
                   ELSE camp
      /\ camp[c].status \notin Gone
  BY DEF RetryCampaign, Exists, Gone
<1>3. \A k \in Row : k \in failed => k[1] = c /\ rows[k].status = "failed"
  BY DEF RowsIn, RowsWith
<1> HIDE DEF failed
<1>4. ASSUME NEW k \in Row
      PROVE  /\ rs[k] \in RowRecord /\ rs[k].acct = rows[k].acct
             /\ IF k \in failed THEN rs[k].status = "pending" /\ rs[k].sent = NoTime
                ELSE rs[k] = rows[k]
  <2>1. rows[k] \in RowRecord /\ (rows[k].status = "failed" => rows[k].sent = NoTime) /\ now \in Nat
    BY <1>1 DEF TablesOK, RowsOK
  <2>2. rs[k] = IF k \in failed THEN [rows[k] EXCEPT !.status = "pending", !.at = now] ELSE rows[k]
    OBVIOUS
  <2> HIDE DEF rs
  <2> QED BY <1>3, <2>1, <2>2 DEF RowRecord
<1>5. rs = [k \in Row |-> rs[k]]
  OBVIOUS
<1> HIDE DEF rs
<1>6. RowsOK(rs)
  <2>1. rs \in [Row -> RowRecord]
    BY <1>4, <1>5
  <2>2. RowsOK(rows)
    BY <1>1 DEF TablesOK
  <2> QED BY <1>3, <1>4, <2>1, <2>2 DEF RowsOK
<1>7. camp' \in [Campaign -> CampaignRecord]
  <2>1. camp \in [Campaign -> CampaignRecord]
    BY <1>1 DEF TablesOK
  <2> DEFINE r == [camp[c] EXCEPT !.status = "active", !.done = NoTime, !.told = FALSE]
  <2>2. r \in CampaignRecord
    BY <2>1 DEF CampaignRecord, Statuses, Time
  <2>3. camp' = camp \/ camp' = [camp EXCEPT ![c] = r]
    BY <1>2
  <2> HIDE DEF r
  <2> QED BY <2>1, <2>2, <2>3
<1>8. Given(camp', cohort', limit') /\ links' \in [Campaign -> SUBSET Account] /\ A \subseteq Account
  BY <1>1, <1>2, <1>7 DEF TablesOK, Given
<1>9. Replans(rs, A)
  BY <1>1, <1>2, <1>6, <1>8, ReplansIs
<1> HIDE DEF A
<1>10. /\ \A b \in Campaign \ {c} : camp'[b] = camp[b]
       /\ \/ camp' = camp /\ ~(failed # {} /\ camp[c].status = "completed_with_failures")
          \/ camp'[c].status = "active"
  BY <1>1, <1>2 DEF TablesOK, CampaignRecord
<1>11. /\ \/ camp' = camp /\ (camp[c].status = "completed_with_failures"
                           => \A k \in Row : rs[k] = rows[k])
          \/ camp'[c].status = "active"
  BY <1>4, <1>10
<1>12. \A k \in Row :
         \/ rs[k] = rows[k]
         \/ /\ k[1] = c /\ rows[k].status = "failed"
            /\ rs[k].status = "pending" /\ rs[k].sent = NoTime /\ rs[k].acct = rows[k].acct
  BY <1>3, <1>4
<1>13. Retries(c, A, rs)
  BY <1>2, <1>9, <1>10, <1>11, <1>12 DEF Retries
<1> QED BY <1>13


\* Neither plans nor what they depend on change.
Calm ==
  /\ now' \in Nat /\ camp' \in [Campaign -> CampaignRecord]
  /\ \A c \in Campaign : camp'[c].status = camp[c].status /\ camp'[c].rules = camp[c].rules
  /\ UNCHANGED <<links, cohort, rows, events, limit, balanced, overtaken>>

Cases ==
  \/ \E c, L, A, rs, d : Enrols(c, L, A, rs, d)
  \/ \E A, rs : Rearranges(A, rs)
  \/ \E c, A, rs : Retries(c, A, rs)
  \/ \E j \in jobs : SendNowCommit(j)
  \/ \E c \in Campaign, l \in Lead : StopLead(c, l)
  \/ \E c \in Campaign : DeleteCampaign(c)
  \/ \E c \in Campaign, l \in Lead : ManualReply(c, l)
  \/ \E c \in Campaign, r \in Settings, A \in Rotations : CreateDraftCampaign(c, r, A)
  \/ Deliver \/ Fail \/ CompleteFinished
  \/ Calm

LEMMA OperatorCases ==
  ASSUME TypeOK, RowsOfCampaigns, Operator
  PROVE  Cases
<1>0. /\ TablesOK /\ now \in Nat /\ limit \in [Account -> Nat \ {0}]
      /\ links \in [Campaign -> SUBSET Account] /\ camp \in [Campaign -> CampaignRecord]
  BY DEF TypeOK, TablesOK
<1>1. ASSUME NEW c \in Campaign, NEW r \in Settings, NEW A \in Rotations,
             CreateDraftCampaign(c, r, A) \/ \E L \in Batches : CreateCampaign(c, r, L, A)
      PROVE  Cases
  BY <1>1, CreateEnrols DEF Cases
<1>2. ASSUME NEW c \in Campaign, NEW src \in Campaign, NEW L \in Batches, NEW d \in Dates,
             CloneCampaign(c, src, L, d)
      PROVE  Cases
  BY <1>2, CloneEnrols DEF Cases
<1>3. ASSUME NEW j, Read(j) PROVE Cases
  BY <1>0, <1>3 DEF Cases, Read, Calm, planVars
<1>4. ASSUME NEW c \in Campaign,
             \/ \E L \in Batches, d \in Dates, v \in BOOLEAN : AddLeadsRead(c, L, d, v)
             \/ \E e \in Edits : UpdateRead(c, e)
             \/ StateRead(c, "draft", "active") \/ StateRead(c, "active", "paused")
             \/ StateRead(c, "paused", "active") \/ SendNowRead(c)
      PROVE  Cases
  <2> HIDE DEF Cases
  <2>1. \E j : Read(j)
    BY <1>4 DEF AddLeadsRead, UpdateRead, StateRead, SendNowRead
  <2> QED BY <1>3, <2>1
<1>5. ASSUME NEW c \in Campaign, NEW S, RetryCampaign(c, S) PROVE Cases
  BY <1>5, RetryIs DEF Cases
<1>6. ASSUME NEW c \in Campaign,
             DeleteCampaign(c) \/ \E l \in Lead : StopLead(c, l) \/ ManualReply(c, l)
      PROVE  Cases
  BY <1>6 DEF Cases
<1>7. ASSUME NEW j \in jobs,
             \/ AddLeadsCommit(j) \/ UpdateCommit(j) \/ StateCommit(j) \/ SendNowCommit(j)
             \/ InVain(j)
      PROVE  Cases
  <2>1. CASE AddLeadsCommit(j)
    BY <2>1, AddEnrols DEF Cases
  <2>2. CASE UpdateCommit(j)
    BY <2>2, UpdateRearranges DEF Cases
  <2>3. CASE StateCommit(j)
    BY <2>3, StateRearranges DEF Cases
  <2>4. CASE SendNowCommit(j)
    BY <2>4 DEF Cases
  <2>5. CASE InVain(j)
    BY <1>0, <2>5 DEF Cases, InVain, Calm, planVars
  <2> QED BY <1>7, <2>1, <2>2, <2>3, <2>4, <2>5
<1>8. ASSUME NEW a \in Account, NEW n \in Limits, SetLimit(a, n) PROVE Cases
  <2>1. /\ limit' \in [Account -> Nat \ {0}] /\ \A b \in Account \ {a} : limit'[b] = limit[b]
        /\ Rebalance({a}, rows) /\ UNCHANGED <<now, camp, links, cohort, events, overtaken>>
    BY <1>0, <1>8, InputsAssumption DEF SetLimit
  <2>2. {a} \subseteq Account
    OBVIOUS
  <2>3. Rearranges({a}, rows)
    BY <2>1, <2>2, LimitRearranges
  <2> QED BY <2>3 DEF Cases
<1>9. ASSUME NEW c \in Campaign, Preview(links[c]) PROVE Cases
  <2>1. Rearranges(links[c], rows)
    BY <1>0, <1>9, LimitRearranges DEF Preview
  <2> QED BY <2>1 DEF Cases
<1> QED BY <1>1, <1>2, <1>4, <1>5, <1>6, <1>7, <1>8, <1>9 DEF Operator


\* The items the tick works through.
LEMMA ItemsAre ==
  /\ tick.pc \in AlertPcs => Items = Campaign
  /\ tick.pc \in PingPcs  => Items = Account
  /\ tick.pc \in SendPcs  => Items = Row
  /\ tick.pc \notin AlertPcs \cup PingPcs \cup SendPcs => Items = {}
BY DEF Items, AlertPcs, PingPcs, SendPcs

LEMMA DispatchCases ==
  ASSUME TypeOK, SentStays, Dispatch
  PROVE  Cases
<1>0. /\ TablesOK /\ now \in Nat /\ limit \in [Account -> Nat \ {0}]
      /\ links \in [Campaign -> SUBSET Account] /\ camp \in [Campaign -> CampaignRecord]
  BY DEF TypeOK, TablesOK
<1>1. CASE RebalanceAll
  <2>1. Rearranges(Account, rows)
    BY <1>0, <1>1, LimitRearranges DEF RebalanceAll
  <2> QED BY <2>1 DEF Cases
<1>2. CASE LoadDue \/ PassBy
  BY <1>0, <1>2 DEF LoadDue, PassBy, planVars, deskVars, Calm, Cases
<1>3. ASSUME (tick.pc = "send" /\ Ripe(tick.on)) \/ tick.pc = "tidy"
      PROVE  tick.on \in Row
  BY <1>3, ItemsAre DEF TypeOK, TickOK, SendPcs
<1>4. CASE PutOff
  <2>1. {rows[tick.on].acct} \subseteq Account
    <3>1. tick.on \in Row /\ rows[tick.on].status = "pending"
      BY <1>3, <1>4 DEF PutOff, Ripe
    <3> QED BY <1>0, <3>1 DEF TablesOK, RowsOK
  <2>2. Rearranges({rows[tick.on].acct}, rows)
    BY <1>0, <1>4, <2>1, LimitRearranges DEF PutOff
  <2> QED BY <2>2 DEF Cases
<1>5. CASE Tidy
  <2>1. {rows[tick.on].acct} \subseteq Account
    <3>1. tick.on \in Row /\ rows[tick.on].status = "sent"
      BY <1>3, <1>5 DEF Tidy, SentStays
    <3> QED BY <1>0, <3>1 DEF TablesOK, RowsOK
  <2>2. Rearranges({rows[tick.on].acct}, rows)
    BY <1>0, <1>5, <2>1, LimitRearranges DEF Tidy
  <2> QED BY <2>2 DEF Cases
<1>6. CASE Deliver \/ Fail
  BY <1>6 DEF Cases
<1> QED BY <1>1, <1>2, <1>4, <1>5, <1>6 DEF Dispatch


LEMMA NextCases ==
  ASSUME TypeOK, RowsOfCampaigns, SentStays, [Next]_vars
  PROVE  Cases
<1>0. /\ TablesOK /\ now \in Nat /\ camp \in [Campaign -> CampaignRecord]
  BY DEF TypeOK, TablesOK
<1>1. ASSUME UNCHANGED <<planVars, balanced, overtaken>> PROVE Calm
  BY <1>0, <1>1 DEF planVars, Calm
<1>2. CASE Desk
  BY <1>2, OperatorCases DEF Desk
<1>3. CASE TickStart \/ Die
  BY <1>1, <1>3 DEF TickStart, Die, KeepStore, deskVars, Cases
<1>4. CASE TickCompletes \/ DryRunCompletes
  BY <1>4 DEF TickCompletes, DryRunCompletes, Cases
<1>5. CASE Announce
  <2>1. CASE MarkAnnounced
    <3>1. camp' = [camp EXCEPT ![tick.on].told = @ \/ camp[tick.on].done # NoTime]
          /\ UNCHANGED <<now, links, cohort, rows, events, limit, balanced, overtaken>>
      BY <2>1 DEF MarkAnnounced, deskVars
    <3>2. camp' \in [Campaign -> CampaignRecord]
      BY <1>0, <3>1 DEF CampaignRecord
    <3>3. Calm
      BY <1>0, <3>1, <3>2 DEF Calm, CampaignRecord
    <3> QED BY <3>3 DEF Cases
  <2>2. CASE ~MarkAnnounced
    <3>1. KeepStore
      BY <1>5, <2>2 DEF Announce, ListCompletions, PostCompletion, PassOver, PostFails,
                        ClearIdle, FillIdle, PickIdle, PingIdle, NoteIdle
    <3> QED BY <1>1, <3>1 DEF KeepStore, Cases
  <2> QED BY <2>1, <2>2
<1>6. CASE Dispatch
  BY <1>6, DispatchCases
<1>7. CASE Pass
  <2>1. now' \in Nat
    BY <1>0, <1>7, TickAssumption DEF Pass
  <2> QED BY <1>0, <1>7, <2>1 DEF Pass, Calm, Cases
<1>8. CASE UNCHANGED vars
  BY <1>1, <1>8 DEF vars, planVars, deskVars, Cases
<1> QED BY <1>2, <1>3, <1>4, <1>5, <1>6, <1>7, <1>8 DEF Next, TickStep


-----------------------------------------------------------------------------
(* Types. *)

LEMMA TablesStep ==
  ASSUME TypeOK, Cases
  PROVE  TablesOK' /\ balanced' \subseteq Account /\ overtaken' \subseteq Campaign
<1>0. /\ TablesOK /\ now \in Nat /\ camp \in [Campaign -> CampaignRecord]
      /\ links \in [Campaign -> SUBSET Account]
      /\ cohort \in [Pair -> Nat \cup {NoDate, NotIn}]
      /\ RowsOK(rows) /\ rows \in [Row -> RowRecord]
      /\ IsFiniteSet(events) /\ \A e \in events : e \in SentEvent
      /\ limit \in [Account -> Nat \ {0}] /\ balanced \subseteq Account /\ overtaken \subseteq Campaign
  BY DEF TypeOK, TablesOK, DeskOK, RowsOK
<1>1. ASSUME NEW A, NEW rs, Replans(rs, A), overtaken' \subseteq Campaign
      PROVE  TablesOK' /\ balanced' \subseteq Account /\ overtaken' \subseteq Campaign
  BY <1>0, <1>1 DEF Replans, Given, TablesOK, RowsOK
<1>2. CASE \E c, L, A, rs, d : Enrols(c, L, A, rs, d)
  BY <1>1, <1>2 DEF Enrols
<1>3. CASE \E A, rs : Rearranges(A, rs)
  BY <1>0, <1>1, <1>3 DEF Rearranges
<1>4. CASE \E c, A, rs : Retries(c, A, rs)
  BY <1>0, <1>1, <1>4 DEF Retries
<1>5. ASSUME RowsOK(rows'), UNCHANGED <<now, camp, links, cohort, limit, overtaken>>,
             balanced' \subseteq Account,
             IsFiniteSet(events') /\ \A e \in events' : e \in SentEvent
      PROVE  TablesOK' /\ balanced' \subseteq Account /\ overtaken' \subseteq Campaign
  BY <1>0, <1>5 DEF TablesOK, RowsOK
<1>6. ASSUME NEW j \in jobs, SendNowCommit(j)
      PROVE  TablesOK' /\ balanced' \subseteq Account /\ overtaken' \subseteq Campaign
  <2> DEFINE due == RowsIn(j.c) \cap RowsWith("pending")
  <2>1. /\ rows' = [k \in Row |-> IF k \in due THEN [rows[k] EXCEPT !.at = now] ELSE rows[k]]
        /\ balanced' \subseteq balanced /\ UNCHANGED <<now, camp, links, cohort, events, limit, overtaken>>
    BY <1>6 DEF SendNowCommit, Balances
  <2> HIDE DEF due
  <2>2. RowsOK(rows')
    BY <1>0, <2>1 DEF RowsOK, RowRecord
  <2> QED BY <1>0, <1>5, <2>1, <2>2
<1>7. ASSUME NEW c \in Campaign, NEW l \in Lead, StopLead(c, l)
      PROVE  TablesOK' /\ balanced' \subseteq Account /\ overtaken' \subseteq Campaign
  <2>1. RowsOK(rows')
    BY <1>0, <1>7 DEF StopLead, RowsOK, RowRecord
  <2> QED BY <1>0, <1>5, <1>7, <2>1 DEF StopLead
<1>8. ASSUME NEW c \in Campaign, NEW l \in Lead, ManualReply(c, l)
      PROVE  TablesOK' /\ balanced' \subseteq Account /\ overtaken' \subseteq Campaign
  <2> DEFINE k == <<c, l, 1>>
             e == [key |-> <<c, l, 0>>, at |-> now, acct |-> rows[k].acct]
  <2>1. k \in Row
    BY PlannerAssumption DEF Row, Step
  <2>2. rows[k].status = "sent" /\ events' = events \cup {e} /\ balanced' \subseteq balanced
        /\ UNCHANGED <<now, camp, links, cohort, rows, limit, overtaken>>
    BY <1>8 DEF ManualReply, Balances
  <2>3. e \in SentEvent
    <3>1. rows[k].acct \in Account
      BY <1>0, <2>1, <2>2 DEF RowsOK
    <3>2. 0 \in 0 .. Steps
      BY PlannerAssumption
    <3> QED BY <1>0, <3>1, <3>2 DEF SentEvent
  <2> HIDE DEF e
  <2>4. IsFiniteSet(events') /\ \A x \in events' : x \in SentEvent
    BY <1>0, <2>2, <2>3, FS_AddElement
  <2> QED BY <1>0, <1>5, <2>2, <2>4
<1>9. CASE Deliver
  <2> DEFINE k == tick.on
             e == [key |-> k, at |-> now, acct |-> rows[k].acct]
  <2>1. /\ tick.pc = "send" /\ rows[k].status = "pending"
        /\ rows' = [rows EXCEPT ![k].status = "sent", ![k].sent = now]
        /\ events' = events \cup {e} /\ balanced' \subseteq balanced
        /\ UNCHANGED <<now, camp, links, cohort, limit, overtaken>>
    BY <1>9 DEF Deliver, Ripe, Balances
  <2>2. k \in Row
    BY <2>1, ItemsAre DEF TypeOK, TickOK, SendPcs
  <2>3. e \in SentEvent
    <3>1. rows[k].acct \in Account
      BY <1>0, <2>1, <2>2 DEF RowsOK
    <3>2. k \in Campaign \X Lead \X (0 .. Steps)
      BY <2>2, PlannerAssumption DEF Row, Step
    <3> QED BY <1>0, <3>1, <3>2 DEF SentEvent
  <2> HIDE DEF e, k
  <2>4. IsFiniteSet(events') /\ \A x \in events' : x \in SentEvent
    BY <1>0, <2>1, <2>3, FS_AddElement
  <2>5. RowsOK(rows')
    BY <1>0, <2>1, <2>2 DEF RowsOK, RowRecord, Time, NoTime
  <2> QED BY <1>0, <1>5, <2>1, <2>4, <2>5
<1>10. CASE Fail
  <2> DEFINE k == tick.on
  <2>1. /\ tick.pc = "send" /\ rows[k].status = "pending"
        /\ rows' = [rows EXCEPT ![k].status = "failed"] /\ balanced' \subseteq balanced
        /\ UNCHANGED <<now, camp, links, cohort, events, limit, overtaken>>
    BY <1>10 DEF Fail, Ripe, Balances
  <2>2. k \in Row
    BY <2>1, ItemsAre DEF TypeOK, TickOK, SendPcs
  <2> HIDE DEF k
  <2>3. RowsOK(rows')
    BY <1>0, <2>1, <2>2 DEF RowsOK, RowRecord
  <2> QED BY <1>0, <1>5, <2>1, <2>3
<1>11. ASSUME camp' \in [Campaign -> CampaignRecord], links' \in [Campaign -> SUBSET Account],
              cohort' \in [Pair -> Nat \cup {NoDate, NotIn}], RowsOK(rows'), now' \in Nat,
              events' \subseteq events, UNCHANGED <<limit, balanced, overtaken>>
       PROVE  TablesOK' /\ balanced' \subseteq Account /\ overtaken' \subseteq Campaign
  <2>1. IsFiniteSet(events') /\ \A e \in events' : e \in SentEvent
    BY <1>0, <1>11, FS_Subset
  <2> QED BY <1>0, <1>11, <2>1 DEF TablesOK, RowsOK
<1>12. ASSUME NEW c \in Campaign, DeleteCampaign(c)
       PROVE  TablesOK' /\ balanced' \subseteq Account /\ overtaken' \subseteq Campaign
  <2>1. camp' \in [Campaign -> CampaignRecord] /\ RowsOK(rows')
    <3>1. NoRules \in RuleSet
      BY DaySlotsAssumption DEF NoRules, RuleSet, Week
    <3>2. CampaignRow("deleted", NoRules) \in CampaignRecord
      BY <3>1 DEF CampaignRow, CampaignRecord, Statuses, Time
    <3>3. NoRow \in RowRecord /\ NoRow.status = "none" /\ NoRow.sent = NoTime
      BY DEF NoRow, RowRecord, Time
    <3> QED BY <1>0, <1>12, <3>2, <3>3 DEF DeleteCampaign, RowsOK
  <2>2. /\ links' \in [Campaign -> SUBSET Account]
        /\ cohort' \in [Pair -> Nat \cup {NoDate, NotIn}]
        /\ now' \in Nat /\ events' \subseteq events /\ UNCHANGED <<limit, balanced, overtaken>>
    BY <1>0, <1>12 DEF DeleteCampaign
  <2> QED BY <1>11, <2>1, <2>2
<1>13. ASSUME NEW c \in Campaign, NEW r \in Settings, NEW A \in Rotations,
              CreateDraftCampaign(c, r, A)
       PROVE  TablesOK' /\ balanced' \subseteq Account /\ overtaken' \subseteq Campaign
  <2>1. CampaignRow("draft", r) \in CampaignRecord /\ A \subseteq Account
    BY InputsAssumption DEF CampaignRow, CampaignRecord, Statuses, Time
  <2> QED BY <1>0, <1>11, <1>13, <2>1 DEF CreateDraftCampaign
<1>14. CASE CompleteFinished
  <2>1. camp' \in [Campaign -> CampaignRecord]
    BY <1>0, <1>14 DEF CompleteFinished, CampaignRecord, Outcome, Statuses, Completed, Time
  <2> QED BY <1>0, <1>11, <1>14, <2>1 DEF CompleteFinished
<1>15. CASE Calm
  BY <1>0, <1>11, <1>15 DEF Calm
<1> QED BY <1>2, <1>3, <1>4, <1>6, <1>7, <1>8, <1>9, <1>10, <1>12, <1>13, <1>14, <1>15 DEF Cases


JobsOK(J) == \A j \in J : j \in AddJob \/ j \in UpdateJob \/ j \in StateJob \/ j \in NowJob

\* What a command holds, it read.
LEMMA JobsStep ==
  ASSUME TypeOK, [Next]_vars
  PROVE  JobsOK(jobs')
<1>0. /\ JobsOK(jobs) /\ camp \in [Campaign -> CampaignRecord]
      /\ links \in [Campaign -> SUBSET Account]
  BY DEF TypeOK, TablesOK, DeskOK, JobsOK
<1>1. ASSUME jobs' \subseteq jobs PROVE JobsOK(jobs')
  BY <1>0, <1>1 DEF JobsOK
<1>2. ASSUME NEW j, Read(j), j \in AddJob \/ j \in UpdateJob \/ j \in StateJob \/ j \in NowJob
      PROVE  JobsOK(jobs')
  <2>1. jobs' = jobs \cup {j}
    BY <1>2 DEF Read
  <2> QED BY <1>0, <1>2, <2>1 DEF JobsOK
<1>3. ASSUME NEW c \in Campaign, NEW L \in Batches, NEW d \in Dates, NEW v \in BOOLEAN,
             AddLeadsRead(c, L, d, v)
      PROVE  JobsOK(jobs')
  <2> DEFINE j == [op |-> "add", c |-> c, leads |-> L, date |-> d, rules |-> camp[c].rules,
                   accounts |-> links[c], revive |-> camp[c].status \in Completed]
  <2>1. Read(j) /\ links[c] # {}
    BY <1>3 DEF AddLeadsRead
  <2>2. /\ camp[c].rules \in RuleSet /\ links[c] \in (SUBSET Account) \ {{}}
        /\ L \subseteq Lead /\ d \in Nat \cup {NoDate}
    BY <1>0, <2>1, InputsAssumption DEF CampaignRecord
  <2>3. j \in AddJob
    BY <2>2 DEF AddJob
  <2> HIDE DEF j
  <2> QED BY <1>2, <2>1, <2>3
<1>4. ASSUME NEW c \in Campaign, NEW e \in Edits, UpdateRead(c, e) PROVE JobsOK(jobs')
  <2> DEFINE moves == /\ DOMAIN e # {"gap"}
                      /\ \E k \in RowsIn(c) : rows[k].status = "pending"
             j == [op |-> "update", c |-> c, edit |-> e, rules |-> Revised(camp[c].rules, e),
                   moves |-> moves]
  <2>1. Read(j)
    BY <1>4 DEF UpdateRead
  <2>2. Revised(camp[c].rules, e) \in RuleSet
    BY <1>0, RevisedIs DEF CampaignRecord
  <2>3. j \in UpdateJob
    <3>1. moves \in BOOLEAN
      OBVIOUS
    <3> HIDE DEF moves
    <3> QED BY <2>2, <3>1 DEF UpdateJob
  <2> HIDE DEF j
  <2> QED BY <1>2, <2>1, <2>3
<1>5. ASSUME NEW c \in Campaign, NEW from \in {"draft", "active", "paused"},
             NEW to \in {"active", "paused"}, StateRead(c, from, to)
      PROVE  JobsOK(jobs')
  <2> DEFINE j == [op |-> "state", c |-> c, from |-> from, to |-> to]
  <2>1. Read(j) /\ j \in StateJob
    BY <1>5 DEF StateRead, StateJob
  <2> HIDE DEF j
  <2> QED BY <1>2, <2>1
<1>6. ASSUME NEW c \in Campaign, SendNowRead(c) PROVE JobsOK(jobs')
  <2> DEFINE j == [op |-> "now", c |-> c]
  <2>1. Read(j) /\ j \in NowJob
    BY <1>6 DEF SendNowRead, NowJob
  <2> HIDE DEF j
  <2> QED BY <1>2, <2>1
<1>7. ASSUME Operator PROVE JobsOK(jobs')
  <2>1. ASSUME NEW c \in Campaign,
               \/ \E r \in Settings, A \in Rotations :
                    CreateDraftCampaign(c, r, A) \/ \E L \in Batches : CreateCampaign(c, r, L, A)
               \/ \E src \in Campaign, L \in Batches, d \in Dates : CloneCampaign(c, src, L, d)
               \/ (\E S : RetryCampaign(c, S)) \/ DeleteCampaign(c)
               \/ \E l \in Lead : StopLead(c, l) \/ ManualReply(c, l)
        PROVE  JobsOK(jobs')
    BY <1>1, <2>1 DEF CreateDraftCampaign, CreateCampaign, CloneCampaign, RetryCampaign,
                      DeleteCampaign, StopLead, ManualReply
  <2>2. ASSUME NEW j \in jobs,
               \/ AddLeadsCommit(j) \/ UpdateCommit(j) \/ StateCommit(j) \/ SendNowCommit(j)
               \/ InVain(j)
        PROVE  JobsOK(jobs')
    BY <1>1, <2>2 DEF AddLeadsCommit, UpdateCommit, StateCommit, SendNowCommit, Commit, InVain
  <2>3. ASSUME NEW a \in Account, NEW n \in Limits, SetLimit(a, n) PROVE JobsOK(jobs')
    BY <1>1, <2>3 DEF SetLimit
  <2>4. ASSUME NEW c \in Campaign, Preview(links[c]) PROVE JobsOK(jobs')
    BY <1>1, <2>4 DEF Preview
  <2> QED BY <1>3, <1>4, <1>5, <1>6, <1>7, <2>1, <2>2, <2>3, <2>4 DEF Operator
<1>8. CASE Desk
  BY <1>7, <1>8 DEF Desk
<1>9. CASE ~Desk
  <2>1. jobs' = jobs
    BY <1>9 DEF Next, TickStart, TickStep, TickCompletes, Announce, Dispatch, DryRunCompletes, Die,
      Pass, vars, deskVars, KeepStore, CompleteFinished, ListCompletions, PostCompletion, PassOver,
      PostFails, MarkAnnounced, ClearIdle, FillIdle, PickIdle, PingIdle, NoteIdle,
      RebalanceAll, LoadDue, PassBy, PutOff, Deliver, Tidy, Fail
  <2> QED BY <1>1, <2>1
<1> QED BY <1>8, <1>9


\* The tick, and the items it works through.
TickFine(t) ==
  /\ t = [pc |-> t.pc, round |-> t.round, todo |-> t.todo, on |-> t.on, idle |-> t.idle]
  /\ t.pc \in TickPcs /\ t.idle \subseteq Account
  /\ IF t.pc = "off" THEN t.round = 0 ELSE t.round \in 1 .. 3
  /\ t.pc \in AlertPcs => t.on \in Campaign /\ \A i \in t.todo : i.id \in Campaign
  /\ t.pc \in PingPcs  => t.on \in Account /\ \A i \in t.todo : i.id \in Account
  /\ t.pc \in SendPcs  => t.on \in Row /\ \A i \in t.todo : i.id \in Row
  /\ t.pc \notin AlertPcs \cup PingPcs \cup SendPcs => t.todo = {}

LEMMA TickFineIs ==
  TickOK <=> TickFine(tick) /\ counts \in [Account -> Nat] /\ caps \in [Account -> Nat]
<1>1. (tick.round \in IF tick.pc = "off" THEN {0} ELSE 1 .. 3)
        <=> IF tick.pc = "off" THEN tick.round = 0 ELSE tick.round \in 1 .. 3
  OBVIOUS
<1> QED BY <1>1, ItemsAre DEF TickOK, TickFine

\* On to the next item, or past the last one.
LEMMA ProceedIs ==
  ASSUME NEW T, NEW pc, NEW after, Proceed(T, pc, after)
  PROVE  \/ T = {} /\ tick' = after
         \/ \E i \in T : tick' = [tick EXCEPT !.pc = pc, !.todo = T \ {i}, !.on = i.id, !.idle = {}]
BY DEF Proceed, Leading

LEMMA OffIsFine ==
  /\ TickFine(Off)
  /\ \A pc \in TickPcs, r \in 1 .. 3 :
       pc \notin {"off"} \cup AlertPcs \cup PingPcs \cup SendPcs
         => TickFine([Off EXCEPT !.pc = pc, !.round = r])
<1>1. TickFine(Off)
  BY DEF TickFine, Off, TickPcs, AlertPcs, PingPcs, SendPcs
<1>2. ASSUME NEW pc \in TickPcs, NEW r \in 1 .. 3,
             pc \notin {"off"} \cup AlertPcs \cup PingPcs \cup SendPcs
      PROVE  TickFine([Off EXCEPT !.pc = pc, !.round = r])
  <2> DEFINE t == [Off EXCEPT !.pc = pc, !.round = r]
  <2>1. t = [pc |-> pc, round |-> r, todo |-> {}, on |-> 0, idle |-> {}]
    <3> DEFINE u == [Off EXCEPT !.pc = pc]
    <3>1. u = [pc |-> pc, round |-> 0, todo |-> {}, on |-> 0, idle |-> {}]
      BY DEF Off
    <3>2. t = [u EXCEPT !.round = r]
      OBVIOUS
    <3> HIDE DEF u, t
    <3> QED BY <3>1, <3>2
  <2> HIDE DEF t
  <2>2. TickFine(t)
    BY <1>2, <2>1 DEF TickFine
  <2> QED BY <2>2 DEF t
<1> QED BY <1>1, <1>2

\* The end of a round of announcements.
LEMMA AfterAlertsIs ==
  ASSUME TickFine(tick), tick.pc # "off"
  PROVE  TickFine(AfterAlerts) /\ AfterAlerts.todo = {}
         /\ AfterAlerts.pc \in {"complete", "rebalance", "off"}
<1>1. tick.round \in 1 .. 3
  BY DEF TickFine
<1>2. CASE tick.round = 1
  <2>1. AfterAlerts = [Off EXCEPT !.pc = "complete", !.round = 2]
    BY <1>2 DEF AfterAlerts
  <2>2. TickFine([Off EXCEPT !.pc = "complete", !.round = 2])
    BY OffIsFine DEF TickPcs, AlertPcs, PingPcs, SendPcs
  <2> QED BY <2>1, <2>2 DEF Off
<1>3. CASE tick.round = 2
  <2>1. AfterAlerts = [Off EXCEPT !.pc = "rebalance", !.round = 2]
    BY <1>3 DEF AfterAlerts
  <2>2. TickFine([Off EXCEPT !.pc = "rebalance", !.round = 2])
    BY OffIsFine DEF TickPcs, AlertPcs, PingPcs, SendPcs
  <2> QED BY <2>1, <2>2 DEF Off
<1>4. CASE tick.round = 3
  <2>1. AfterAlerts = Off
    BY <1>4 DEF AfterAlerts
  <2> QED BY <2>1, OffIsFine DEF Off
<1> QED BY <1>1, <1>2, <1>3, <1>4


LEMMA ProceedFine ==
  ASSUME TickFine(tick), tick.pc # "off", NEW T, NEW pc \in {"post", "ping", "send"}, NEW after,
         Proceed(T, pc, after), TickFine(after),
         pc = "post" => \A i \in T : i.id \in Campaign,
         pc = "ping" => \A i \in T : i.id \in Account,
         pc = "send" => \A i \in T : i.id \in Row
  PROVE  TickFine(tick')
<1>1. CASE tick' = after
  BY <1>1
<1>2. CASE \E i \in T : tick' = [tick EXCEPT !.pc = pc, !.todo = T \ {i}, !.on = i.id, !.idle = {}]
  <2>1. PICK i \in T : tick' = [tick EXCEPT !.pc = pc, !.todo = T \ {i}, !.on = i.id, !.idle = {}]
    BY <1>2
  <2>2. tick' = [pc |-> pc, round |-> tick.round, todo |-> T \ {i}, on |-> i.id, idle |-> {}]
    BY <2>1 DEF TickFine
  <2>3. tick.round \in 1 .. 3
    BY DEF TickFine
  <2> QED BY <2>2, <2>3 DEF TickFine, TickPcs, AlertPcs, PingPcs, SendPcs
<1> QED BY <1>1, <1>2, ProceedIs

LEMMA AlertsFine ==
  ASSUME TypeOK, Announce
  PROVE  TickFine(tick')
<1>0. /\ TickFine(tick) /\ links \in [Campaign -> SUBSET Account]
      /\ tick.pc # "off" => TickFine(AfterAlerts)
      /\ \A r \in 1 .. 3 : TickFine([Off EXCEPT !.pc = "clear", !.round = r])
  <2>1. TickFine(tick)
    BY TickFineIs DEF TypeOK
  <2>2. \A r \in 1 .. 3 : TickFine([Off EXCEPT !.pc = "clear", !.round = r])
    BY OffIsFine DEF TickPcs, AlertPcs, PingPcs, SendPcs
  <2> QED BY <2>1, <2>2, AfterAlertsIs DEF TypeOK, TablesOK
<1>1. ASSUME NEW T, tick.pc # "off", \A i \in T : i.id \in Campaign, NextCompletion(T)
      PROVE  TickFine(tick')
  <2> DEFINE after == [Off EXCEPT !.pc = "clear", !.round = tick.round]
  <2>1. tick.round \in 1 .. 3
    BY <1>0, <1>1 DEF TickFine
  <2>2. TickFine(after)
    BY <1>0, <2>1
  <2>3. Proceed(T, "post", after)
    BY <1>1 DEF NextCompletion
  <2> HIDE DEF after
  <2> QED BY <1>0, <1>1, <2>2, <2>3, ProceedFine
<1>2. ASSUME NEW T, tick.pc # "off", \A i \in T : i.id \in Account, NextPing(T)
      PROVE  TickFine(tick')
  BY <1>0, <1>2, ProceedFine DEF NextPing
<1>3. ASSUME NEW pc \in {"list", "clear", "fill", "pick"}, NEW qc \in {"list", "fill", "pick"},
             tick.pc = pc, Goto(qc)
      PROVE  TickFine(tick')
  BY <1>0, <1>3 DEF Goto, TickFine, TickPcs, AlertPcs, PingPcs, SendPcs
<1>4. CASE ListCompletions
  <2> DEFINE T == {[id |-> c, at |-> camp[c].done, rank |-> c] : c \in Unannounced}
  <2>1. tick.pc # "off" /\ NextCompletion(T)
    BY <1>4 DEF ListCompletions
  <2>2. \A i \in T : i.id \in Campaign
    BY DEF Unannounced
  <2> HIDE DEF T
  <2> QED BY <1>1, <2>1, <2>2
<1>5. CASE PostCompletion
  BY <1>0, <1>5 DEF PostCompletion, TickFine, TickPcs, AlertPcs, PingPcs, SendPcs
<1>6. CASE PassOver
  <2>1. CASE tick.pc = "post" /\ NextCompletion(tick.todo)
    <3>1. \A i \in tick.todo : i.id \in Campaign
      BY <1>0, <2>1 DEF TickFine, AlertPcs
    <3> QED BY <1>1, <2>1, <3>1
  <2>2. CASE tick.pc = "ping" /\ NextPing(tick.todo)
    <3>1. \A i \in tick.todo : i.id \in Account
      BY <1>0, <2>2 DEF TickFine, PingPcs
    <3> QED BY <1>2, <2>2, <3>1
  <2> QED BY <1>6, <2>1, <2>2 DEF PassOver
<1>7. CASE PostFails
  BY <1>0, <1>7 DEF PostFails
<1>8. CASE MarkAnnounced
  <2>1. tick.pc = "mark" /\ NextCompletion(tick.todo)
    BY <1>8 DEF MarkAnnounced
  <2>2. \A i \in tick.todo : i.id \in Campaign
    BY <1>0, <2>1 DEF TickFine, AlertPcs
  <2> QED BY <1>1, <2>1, <2>2
<1>9. CASE ClearIdle \/ FillIdle
  BY <1>3, <1>9 DEF ClearIdle, FillIdle
<1>10. CASE PickIdle
  <2> DEFINE T == {[id |-> a, at |-> 0, rank |-> a] : a \in ToPing}
  <2>1. tick.pc # "off" /\ NextPing(T)
    BY <1>10 DEF PickIdle
  <2>2. \A i \in T : i.id \in Account
    BY DEF ToPing
  <2> HIDE DEF T
  <2> QED BY <1>2, <2>1, <2>2
<1>11. CASE PingIdle
  BY <1>0, <1>11 DEF PingIdle, Goto, TickFine, TickPcs, AlertPcs, PingPcs, SendPcs
<1>12. CASE NoteIdle
  <2>1. tick.pc = "note" /\ NextPing(tick.todo)
    BY <1>12 DEF NoteIdle
  <2>2. \A i \in tick.todo : i.id \in Account
    BY <1>0, <2>1 DEF TickFine, PingPcs
  <2> QED BY <1>2, <2>1, <2>2
<1> QED BY <1>4, <1>5, <1>6, <1>7, <1>8, <1>9, <1>10, <1>11, <1>12 DEF Announce

LEMMA DispatchFine ==
  ASSUME TypeOK, Dispatch
  PROVE  TickFine(tick')
<1>0. TickFine(tick) /\ TickFine(Off) /\ TickFine([Off EXCEPT !.pc = "complete", !.round = 3])
  <2>1. TickFine(tick)
    BY TickFineIs DEF TypeOK
  <2>2. TickFine([Off EXCEPT !.pc = "complete", !.round = 3])
    BY OffIsFine DEF TickPcs, AlertPcs, PingPcs, SendPcs
  <2> QED BY <2>1, <2>2, OffIsFine
<1>1. ASSUME NEW T, tick.pc # "off", \A i \in T : i.id \in Row, NextSend(T)
      PROVE  TickFine(tick')
  BY <1>0, <1>1, ProceedFine DEF NextSend
<1>2. CASE RebalanceAll
  BY <1>0, <1>2 DEF RebalanceAll, Goto, TickFine, TickPcs, AlertPcs, PingPcs, SendPcs
<1>3. CASE LoadDue
  <2> DEFINE T == {[id |-> k, at |-> rows[k].at, rank |-> 0] : k \in Due}
  <2>1. tick.pc # "off" /\ (tick' = Off \/ NextSend(T))
    BY <1>3 DEF LoadDue
  <2>2. \A i \in T : i.id \in Row
    BY DEF Due, RowsWith
  <2> HIDE DEF T
  <2> QED BY <1>0, <1>1, <2>1, <2>2
<1>4. CASE Deliver
  BY <1>0, <1>4 DEF Deliver, Goto, TickFine, TickPcs, AlertPcs, PingPcs, SendPcs
<1>5. CASE PassBy \/ PutOff \/ Tidy \/ Fail
  <2>1. tick.pc \in SendPcs /\ tick.pc # "off" /\ NextSend(tick.todo)
    BY <1>5 DEF PassBy, PutOff, Tidy, Fail, SendPcs
  <2>2. \A i \in tick.todo : i.id \in Row
    BY <1>0, <2>1 DEF TickFine
  <2> QED BY <1>1, <2>1, <2>2
<1> QED BY <1>2, <1>3, <1>4, <1>5 DEF Dispatch


LEMMA TickStepOK ==
  ASSUME TypeOK, [Next]_vars
  PROVE  TickOK'
<1>0. /\ TickFine(tick) /\ counts \in [Account -> Nat] /\ caps \in [Account -> Nat]
      /\ limit \in [Account -> Nat]
  BY TickFineIs DEF TypeOK, TablesOK
<1>1. ASSUME TickFine(tick'), counts' \in [Account -> Nat], caps' \in [Account -> Nat]
      PROVE  TickOK'
  <2>1. (TickFine(tick) /\ counts \in [Account -> Nat] /\ caps \in [Account -> Nat] => TickOK)'
    BY TickFineIs, PTL
  <2> QED BY <1>1, <2>1 DEF TickFine, TickPcs, AlertPcs, PingPcs, SendPcs
<1>2. ASSUME UNCHANGED tickVars PROVE TickOK'
  BY <1>0, <1>1, <1>2 DEF tickVars
<1>3. CASE Desk \/ Pass \/ UNCHANGED vars
  BY <1>2, <1>3 DEF Desk, Pass, vars
<1>4. CASE TickStart
  <2>1. TickFine([Off EXCEPT !.pc = "complete", !.round = 1])
    BY OffIsFine DEF TickPcs, AlertPcs, PingPcs, SendPcs
  <2> QED BY <1>0, <1>1, <1>4, <2>1 DEF TickStart
<1>5. CASE TickCompletes
  <2>1. TickFine(tick')
    BY <1>0, <1>5 DEF TickCompletes, Goto, TickFine, TickPcs, AlertPcs, PingPcs, SendPcs
  <2> QED BY <1>0, <1>1, <1>5, <2>1 DEF TickCompletes, CompleteFinished
<1>6. CASE DryRunCompletes
  BY <1>2, <1>6 DEF DryRunCompletes, CompleteFinished, tickVars
<1>7. CASE Die
  BY <1>0, <1>1, <1>7, OffIsFine DEF Die, KeepStore
<1>8. CASE Announce
  <2>1. UNCHANGED <<counts, caps>>
    BY <1>8 DEF Announce, ListCompletions, PostCompletion, PassOver, PostFails, MarkAnnounced,
                ClearIdle, FillIdle, PickIdle, PingIdle, NoteIdle, KeepStore
  <2> QED BY <1>0, <1>1, <1>8, <2>1, AlertsFine
<1>9. CASE Dispatch
  <2>1. caps' = caps
    BY <1>9 DEF Dispatch, RebalanceAll, LoadDue, PassBy, PutOff, Deliver, Tidy, Fail
  <2>2. counts' \in [Account -> Nat]
    <3>1. CASE RebalanceAll
      <4>1. ASSUME NEW a \in Account PROVE Counted(a) \in Nat
        <5>1. IsFiniteSet({e \in events : e.acct = a /\ Today(e.at) = Today(now)})
          BY FS_Subset DEF TypeOK, TablesOK
        <5> QED BY <5>1, FS_CardinalityType DEF Counted
      <4>2. counts' = [a \in Account |-> Counted(a)]
        BY <3>1 DEF RebalanceAll
      <4> QED BY <4>1, <4>2
    <3>2. CASE Deliver
      <4> DEFINE a == rows[tick.on].acct
      <4>1. counts' = [counts EXCEPT ![a] = counts[a] + 1]
        BY <3>2 DEF Deliver
      <4>2. a \in Account
        <5>1. tick.on \in Row /\ rows[tick.on].status = "pending"
          BY <1>0, <3>2 DEF Deliver, Ripe, TickFine, SendPcs
        <5> QED BY <5>1 DEF TypeOK, TablesOK, RowsOK
      <4> HIDE DEF a
      <4> QED BY <1>0, <4>1, <4>2
    <3>3. CASE ~RebalanceAll /\ ~Deliver
      BY <1>0, <1>9, <3>3 DEF Dispatch, LoadDue, PassBy, PutOff, Tidy, Fail
    <3> QED BY <3>1, <3>2, <3>3
  <2> QED BY <1>0, <1>1, <1>9, <2>1, <2>2, DispatchFine
<1> QED BY <1>3, <1>4, <1>5, <1>6, <1>7, <1>8, <1>9 DEF Next, TickStep

LEMMA AlertsStepOK ==
  ASSUME TypeOK, [Next]_vars
  PROVE  AlertsOK'
<1>0. /\ AlertsOK /\ TickFine(tick) /\ now \in Nat /\ \A e \in events : e \in SentEvent
      /\ camp \in [Campaign -> CampaignRecord]
  BY TickFineIs DEF TypeOK, TablesOK
<1> USE <1>0 DEF AlertsOK
<1>1. CASE Desk
  <2>1. dropped' \subseteq Account
    <3>1. \A e \in events : e.acct \in Account
      BY DEF SentEvent
    <3> QED BY <1>1, <3>1 DEF Desk
  <2>2. posts' \in [Campaign -> Nat]
    BY <1>1 DEF Desk
  <2> QED BY <1>1, <2>1, <2>2 DEF Desk
<1>2. CASE TickStart \/ Pass \/ Dispatch
  <2>1. KeepAlerts
    BY <1>2 DEF TickStart, Pass, Dispatch, RebalanceAll, LoadDue, PassBy, PutOff, Deliver, Tidy, Fail
  <2> QED BY <2>1 DEF KeepAlerts, alertVars
<1>3. CASE TickCompletes \/ DryRunCompletes
  <2>1. CompleteFinished
    BY <1>3 DEF TickCompletes, DryRunCompletes
  <2> QED BY <2>1 DEF CompleteFinished
<1>4. CASE Die
  BY <1>4 DEF Die, KeepStore
<1>5. CASE Announce
  <2>1. CASE ListCompletions \/ PassOver \/ PostFails \/ PickIdle
    <3>1. UNCHANGED <<idle, posts, pings, slipped, unnoted, dropped>>
      BY <2>1 DEF ListCompletions, PassOver, PostFails, PickIdle, KeepStore
    <3> QED BY <3>1
  <2>2. CASE PostCompletion
    <3>1. tick.on \in Campaign /\ posts' = [posts EXCEPT ![tick.on] = @ + 1]
      BY <2>2 DEF PostCompletion, TickFine, AlertPcs
    <3>2. UNCHANGED <<idle, pings, slipped, unnoted, dropped>>
      BY <2>2 DEF PostCompletion, KeepStore
    <3> QED BY <3>1, <3>2
  <2>3. CASE MarkAnnounced
    BY <2>3 DEF MarkAnnounced, Time
  <2>4. CASE ClearIdle
    <3>1. NotIdle \in [since : BOOLEAN, told : Time]
      BY DEF NotIdle, Time
    <3> QED BY <2>4, <3>1 DEF ClearIdle, KeepStore, Time
  <2>5. CASE FillIdle
    BY <2>5 DEF FillIdle, KeepStore
  <2>6. CASE PingIdle
    BY <2>6 DEF PingIdle, KeepStore, Time
  <2>7. CASE NoteIdle
    BY <2>7 DEF NoteIdle, KeepStore, Time
  <2> QED BY <1>5, <2>1, <2>2, <2>3, <2>4, <2>5, <2>6, <2>7 DEF Announce
<1>6. CASE UNCHANGED vars
  BY <1>6 DEF vars, alertVars
<1> QED BY <1>1, <1>2, <1>3, <1>4, <1>5, <1>6 DEF Next, TickStep

-----------------------------------------------------------------------------
(* The base of all that follows: the types, that campaigns own their rows,  *)
(* and that a lead has one account.                                         *)

\* All mails of a lead go by one account.
OneAccount ==
  \A j, k \in Row : SameLead(j, k) /\ rows[j].status # "none" /\ rows[k].status # "none"
                      => rows[j].acct = rows[k].acct

Base == TypeOK /\ RowsOfCampaigns /\ SentStays /\ OneAccount

\* What a step leaves alone of a row: of a row there was, all but status and
\* time; and a mail that left, altogether.
RowsKeep ==
  \A k \in Row :
    /\ rows[k].status = "sent" => /\ rows'[k].status = "sent" /\ rows'[k].sent = rows[k].sent
                                  /\ rows'[k].acct = rows[k].acct
    /\ rows[k].status # "none" /\ rows'[k].status # "none" => rows'[k].acct = rows[k].acct

LEMMA RowsKept ==
  ASSUME TypeOK, SentStays, Cases
  PROVE  RowsKeep
<1>0. rows \in [Row -> RowRecord]
  BY DEF TypeOK, TablesOK, RowsOK
<1>1. CASE \E c, L, A, rs, d : Enrols(c, L, A, rs, d)
  <2>1. PICK c, L, A, rs, d : Enrols(c, L, A, rs, d)
    BY <1>1
  <2>2. \A k \in Row : rows[k].status # "none" => rs[k] = rows[k]
    BY <2>1 DEF Enrols, Lays, RowsIn
  <2>3. \A k \in Row : rows'[k].status = rs[k].status /\ rows'[k].sent = rs[k].sent
                       /\ rows'[k].acct = rs[k].acct
    BY <2>1 DEF Enrols, Replans, Moves
  <2> QED BY <2>2, <2>3 DEF RowsKeep
<1>2. CASE \E A, rs : Rearranges(A, rs)
  BY <1>2 DEF Rearranges, Replans, Moves, Retimes, RowsKeep
<1>3. CASE \E c, A, rs : Retries(c, A, rs)
  <2>1. PICK c, A, rs : Retries(c, A, rs)
    BY <1>3
  <2>2. \A k \in Row : /\ rows[k].status # "failed" => rs[k] = rows[k]
                       /\ rs[k].acct = rows[k].acct
    BY <2>1 DEF Retries
  <2>3. \A k \in Row : rows'[k].status = rs[k].status /\ rows'[k].sent = rs[k].sent
                       /\ rows'[k].acct = rs[k].acct
    BY <2>1 DEF Retries, Replans, Moves
  <2> QED BY <2>2, <2>3 DEF RowsKeep
<1>4. ASSUME NEW j \in jobs, SendNowCommit(j) PROVE RowsKeep
  <2> DEFINE due == RowsIn(j.c) \cap RowsWith("pending")
  <2>1. rows' = [k \in Row |-> IF k \in due THEN [rows[k] EXCEPT !.at = now] ELSE rows[k]]
    BY <1>4 DEF SendNowCommit
  <2> HIDE DEF due
  <2> QED BY <1>0, <2>1 DEF RowsKeep, RowRecord
<1>5. ASSUME NEW c \in Campaign, NEW l \in Lead, StopLead(c, l) PROVE RowsKeep
  BY <1>0, <1>5 DEF StopLead, RowsKeep, RowRecord
<1>6. ASSUME NEW c \in Campaign, DeleteCampaign(c) PROVE RowsKeep
  <2>1. \/ rows' = rows
        \/ /\ rows' = [k \in Row |-> IF k[1] = c THEN NoRow ELSE rows[k]]
           /\ \A k \in RowsIn(c) : rows[k].status # "sent"
    BY <1>6 DEF DeleteCampaign
  <2> QED BY <2>1 DEF RowsKeep, RowsIn, NoRow
<1>7. CASE UNCHANGED rows
  BY <1>7 DEF RowsKeep
<1>8. CASE Deliver \/ Fail
  <2> DEFINE k == tick.on
  <2>1. /\ tick.pc = "send" /\ rows[k].status = "pending"
        /\ \/ rows' = [rows EXCEPT ![k].status = "sent", ![k].sent = now]
           \/ rows' = [rows EXCEPT ![k].status = "failed"]
    BY <1>8 DEF Deliver, Fail, Ripe
  <2> HIDE DEF k
  <2> QED BY <1>0, <2>1 DEF RowsKeep, RowRecord
<1> QED BY <1>1, <1>2, <1>3, <1>4, <1>5, <1>6, <1>7, <1>8
        DEF Cases, ManualReply, CreateDraftCampaign, CompleteFinished, Calm

\* Where the tick tidies up, it sent.
LEMMA TidyIs ==
  ASSUME TypeOK, [Next]_vars, tick'.pc = "tidy"
  PROVE  tick' = tick \/ (Deliver /\ tick'.on = tick.on)
<1>0. /\ TickFine(tick)
      /\ tick = [pc |-> tick.pc, round |-> tick.round, todo |-> tick.todo, on |-> tick.on,
                 idle |-> tick.idle]
  BY TickFineIs DEF TypeOK, TickOK
<1>1. ASSUME NEW T, NEW pc, NEW after, Proceed(T, pc, after), pc # "tidy", after.pc # "tidy"
      PROVE  FALSE
  <2>1. tick' # after
    BY <1>1
  <2>2. PICK i \in T : tick' = [tick EXCEPT !.pc = pc, !.todo = T \ {i}, !.on = i.id, !.idle = {}]
    BY <1>1, <2>1 DEF Proceed, Leading
  <2>3. tick' = [pc |-> pc, round |-> tick.round, todo |-> T \ {i}, on |-> i.id, idle |-> {}]
    BY <1>0, <2>2
  <2> QED BY <1>1, <2>3
<1>2. ASSUME tick.pc # "off" PROVE AfterAlerts.pc # "tidy"
  BY <1>0, <1>2, AfterAlertsIs
<1>3. [Off EXCEPT !.pc = "clear", !.round = tick.round].pc # "tidy"
      /\ [Off EXCEPT !.pc = "complete", !.round = 3].pc # "tidy"
      /\ [Off EXCEPT !.pc = "complete", !.round = 1].pc # "tidy" /\ Off.pc # "tidy"
  BY DEF Off
<1>4. CASE Announce
  <2>1. ASSUME NEW T, NextCompletion(T) PROVE FALSE
    BY <1>1, <1>3, <2>1 DEF NextCompletion
  <2>2. ASSUME NEW T, tick.pc # "off", NextPing(T) PROVE FALSE
    BY <1>1, <1>2, <2>2 DEF NextPing
  <2>3. CASE ListCompletions \/ MarkAnnounced
    BY <2>1, <2>3 DEF ListCompletions, MarkAnnounced
  <2>4. CASE PickIdle \/ NoteIdle
    BY <2>2, <2>4 DEF PickIdle, NoteIdle
  <2>5. CASE PassOver
    BY <2>1, <2>2, <2>5 DEF PassOver
  <2>6. CASE PostFails
    BY <1>2, <2>6 DEF PostFails
  <2>7. CASE PostCompletion \/ ClearIdle \/ FillIdle \/ PingIdle
    BY <1>0, <2>7 DEF PostCompletion, ClearIdle, FillIdle, PingIdle, Goto
  <2> QED BY <1>4, <2>3, <2>4, <2>5, <2>6, <2>7 DEF Announce
<1>5. CASE Dispatch
  <2>1. ASSUME NEW T, NextSend(T) PROVE FALSE
    BY <1>1, <1>3, <2>1 DEF NextSend
  <2>2. CASE RebalanceAll \/ LoadDue
    BY <1>0, <1>3, <2>1, <2>2 DEF RebalanceAll, LoadDue, Goto
  <2>3. CASE PassBy \/ PutOff \/ Tidy \/ Fail
    BY <2>1, <2>3 DEF PassBy, PutOff, Tidy, Fail
  <2>4. CASE Deliver
    BY <1>0, <2>4 DEF Deliver, Goto
  <2> QED BY <1>5, <2>2, <2>3, <2>4 DEF Dispatch
<1>6. CASE TickCompletes
  BY <1>0, <1>6 DEF TickCompletes, Goto
<1>7. CASE TickStart \/ Die
  BY <1>3, <1>7 DEF TickStart, Die
<1>8. CASE UNCHANGED tick
  BY <1>8
<1> QED BY <1>4, <1>5, <1>6, <1>7, <1>8
        DEF Next, TickStep, Desk, DryRunCompletes, Pass, vars, tickVars

LEMMA SentStaysStep ==
  ASSUME TypeOK, SentStays, [Next]_vars, RowsKeep
  PROVE  SentStays'
<1>1. SUFFICES ASSUME tick'.pc = "tidy" PROVE rows'[tick'.on].status = "sent"
  BY DEF SentStays
<1>2. /\ tick.pc \in SendPcs => tick.on \in Row
      /\ rows \in [Row -> RowRecord]
  BY ItemsAre DEF TypeOK, TickOK, TablesOK, RowsOK
<1>3. CASE tick' = tick
  BY <1>1, <1>2, <1>3 DEF SentStays, SendPcs, RowsKeep
<1>4. CASE Deliver /\ tick'.on = tick.on
  <2> DEFINE k == tick.on
  <2>1. tick.pc = "send" /\ rows' = [rows EXCEPT ![k].status = "sent", ![k].sent = now]
    BY <1>4 DEF Deliver
  <2>2. k \in Row
    BY <1>2, <2>1 DEF SendPcs
  <2> HIDE DEF k
  <2>3. rows'[k].status = "sent"
    BY <1>2, <2>1, <2>2 DEF RowRecord
  <2> QED BY <1>4, <2>3 DEF k
<1> QED BY <1>1, <1>3, <1>4, TidyIs

LEMMA RowsOfCampaignsStep ==
  ASSUME TypeOK, RowsOfCampaigns, Cases
  PROVE  RowsOfCampaigns'
<1>0. /\ rows \in [Row -> RowRecord] /\ camp \in [Campaign -> CampaignRecord]
      /\ \A k \in Row : k[1] \in Campaign
  BY DEF TypeOK, TablesOK, RowsOK, Row
<1>1. SUFFICES ASSUME NEW k \in Row, camp'[k[1]].status \in Gone
               PROVE  rows'[k].status = "none"
  BY DEF RowsOfCampaigns
<1>2. ASSUME NEW A, NEW rs, Replans(rs, A) PROVE rows'[k].status = rs[k].status
  BY <1>2 DEF Replans, Moves
<1>3. CASE \E c, L, A, rs, d : Enrols(c, L, A, rs, d)
  <2>1. PICK c, L, A, rs, d : Enrols(c, L, A, rs, d)
    BY <1>3
  <2>2. k[1] # c
    BY <1>1, <2>1 DEF Enrols
  <2>3. camp'[k[1]] = camp[k[1]] /\ rs[k] = rows[k] /\ Replans(rs, A)
    BY <1>0, <2>1, <2>2 DEF Enrols, Lays
  <2> QED BY <1>1, <1>2, <2>3 DEF RowsOfCampaigns
<1>4. CASE \E A, rs : Rearranges(A, rs)
  <2>1. PICK A, rs : Rearranges(A, rs)
    BY <1>4
  <2>2. rs[k].status = rows[k].status /\ Replans(rs, A)
    BY <2>1 DEF Rearranges, Retimes
  <2>3. camp'[k[1]].status = camp[k[1]].status
    BY <1>0, <1>1, <2>1 DEF Rearranges, Gone
  <2> QED BY <1>1, <1>2, <2>2, <2>3 DEF RowsOfCampaigns
<1>5. CASE \E c, A, rs : Retries(c, A, rs)
  <2>1. PICK c, A, rs : Retries(c, A, rs)
    BY <1>5
  <2>2. k[1] # c \/ camp' = camp
    BY <1>1, <2>1 DEF Retries, Gone
  <2>3. camp'[k[1]].status = camp[k[1]].status
    BY <1>0, <2>1, <2>2 DEF Retries
  <2>4. rows[k].status = "none"
    BY <1>1, <2>3 DEF RowsOfCampaigns
  <2>5. rs[k].status = "none"
    BY <2>1, <2>4 DEF Retries
  <2> QED BY <1>2, <2>1, <2>5 DEF Retries
<1>6. ASSUME camp'[k[1]].status \in Gone => camp[k[1]].status \in Gone,
             rows[k].status = "none" => rows'[k].status = "none"
      PROVE  rows'[k].status = "none"
  BY <1>1, <1>6 DEF RowsOfCampaigns
<1>7. ASSUME NEW j \in jobs, SendNowCommit(j) PROVE rows'[k].status = "none"
  <2>1. camp' = camp /\ (rows[k].status = "none" => rows'[k] = rows[k])
    BY <1>7 DEF SendNowCommit, RowsIn
  <2> QED BY <1>6, <2>1
<1>8. ASSUME NEW c \in Campaign, NEW l \in Lead, StopLead(c, l) PROVE rows'[k].status = "none"
  BY <1>6, <1>8 DEF StopLead
<1>9. ASSUME NEW c \in Campaign, DeleteCampaign(c) PROVE rows'[k].status = "none"
  <2>1. CASE camp' = camp /\ rows' = rows
    BY <1>6, <2>1
  <2>2. CASE /\ camp' = [camp EXCEPT ![c] = CampaignRow("deleted", NoRules)]
             /\ rows' = [q \in Row |-> IF q[1] = c THEN NoRow ELSE rows[q]]
    <3>1. CASE k[1] = c
      BY <2>2, <3>1 DEF NoRow
    <3>2. CASE k[1] # c
      BY <1>0, <1>6, <2>2, <3>2
    <3> QED BY <3>1, <3>2
  <2> QED BY <1>9, <2>1, <2>2 DEF DeleteCampaign
<1>10. ASSUME NEW c \in Campaign, NEW r \in Settings, NEW A \in Rotations,
              CreateDraftCampaign(c, r, A)
       PROVE  rows'[k].status = "none"
  <2>1. rows' = rows /\ camp' = [camp EXCEPT ![c] = CampaignRow("draft", r)]
    BY <1>10 DEF CreateDraftCampaign
  <2>2. k[1] # c
    BY <1>0, <1>1, <2>1 DEF CampaignRow, Gone
  <2> QED BY <1>0, <1>6, <2>1, <2>2
<1>11. CASE CompleteFinished
  <2>1. /\ camp' = [c \in Campaign |-> IF Finished(c)
               THEN [camp[c] EXCEPT !.status = Outcome(c), !.done = now, !.told = FALSE]
               ELSE camp[c]]
        /\ rows' = rows
    BY <1>11 DEF CompleteFinished
  <2>2. ~Finished(k[1])
    BY <1>0, <1>1, <2>1 DEF CampaignRecord, Outcome, Gone
  <2> QED BY <1>0, <1>6, <2>1, <2>2
<1>12. CASE Deliver \/ Fail
  <2> DEFINE j == tick.on
  <2>1. /\ tick.pc = "send" /\ rows[j].status = "pending" /\ camp' = camp
        /\ \/ rows' = [rows EXCEPT ![j].status = "sent", ![j].sent = now]
           \/ rows' = [rows EXCEPT ![j].status = "failed"]
    BY <1>12 DEF Deliver, Fail, Ripe
  <2> HIDE DEF j
  <2>2. rows[k].status = "none" => rows'[k] = rows[k]
    BY <1>0, <2>1
  <2> QED BY <1>6, <2>1, <2>2
<1>13. CASE Calm \/ \E c \in Campaign, l \in Lead : ManualReply(c, l)
  BY <1>0, <1>6, <1>13 DEF Calm, ManualReply
<1> QED BY <1>3, <1>4, <1>5, <1>7, <1>8, <1>9, <1>10, <1>11, <1>12, <1>13 DEF Cases

LEMMA OneAccountStep ==
  ASSUME TypeOK, OneAccount, Cases, RowsKeep
  PROVE  OneAccount'
<1>1. SUFFICES ASSUME NEW j \in Row, NEW k \in Row, SameLead(j, k),
                      rows'[j].status # "none", rows'[k].status # "none"
               PROVE  rows'[j].acct = rows'[k].acct
  BY DEF OneAccount
<1>2. ASSUME rows[j].status # "none", rows[k].status # "none"
      PROVE  rows'[j].acct = rows'[k].acct
  BY <1>1, <1>2 DEF OneAccount, RowsKeep
<1>3. CASE \E c, L, A, rs, d : Enrols(c, L, A, rs, d)
  <2>1. PICK c, L, A, rs, d : Enrols(c, L, A, rs, d)
    BY <1>3
  <2>2. \A q \in Row : rows'[q].acct = rs[q].acct /\ rows'[q].status = rs[q].status
    BY <2>1 DEF Enrols, Replans, Moves
  <2>3. CASE k[1] = c /\ k[2] \in L
    BY <1>1, <2>1, <2>2, <2>3 DEF Enrols, Lays
  <2>4. CASE ~(k[1] = c /\ k[2] \in L)
    <3>1. rs[k] = rows[k] /\ rs[j] = rows[j]
      BY <1>1, <2>1, <2>4 DEF Enrols, Lays, SameLead
    <3> QED BY <1>1, <1>2, <2>2, <3>1
  <2> QED BY <2>3, <2>4
<1>4. ASSUME \A q \in Row : rows[q].status = "none" => rows'[q].status = "none"
      PROVE  rows'[j].acct = rows'[k].acct
  BY <1>1, <1>2, <1>4
<1>5. CASE \E A, rs : Rearranges(A, rs)
  BY <1>4, <1>5 DEF Rearranges, Replans, Moves, Retimes
<1>6. CASE \E c, A, rs : Retries(c, A, rs)
  <2>1. PICK c, A, rs : Retries(c, A, rs)
    BY <1>6
  <2>2. \A q \in Row : rows[q].status = "none" => rs[q].status = "none"
    BY <2>1 DEF Retries
  <2> QED BY <1>4, <2>1, <2>2 DEF Retries, Replans, Moves
<1>7. ASSUME NEW i \in jobs, SendNowCommit(i) PROVE rows'[j].acct = rows'[k].acct
  <2>1. \A q \in Row : rows[q].status = "none" => rows'[q] = rows[q]
    BY <1>7 DEF SendNowCommit, RowsIn
  <2> QED BY <1>4, <2>1
<1>8. ASSUME NEW c \in Campaign, NEW l \in Lead, StopLead(c, l) PROVE rows'[j].acct = rows'[k].acct
  BY <1>4, <1>8 DEF StopLead
<1>9. ASSUME NEW c \in Campaign, DeleteCampaign(c) PROVE rows'[j].acct = rows'[k].acct
  BY <1>4, <1>9 DEF DeleteCampaign, NoRow
<1>10. CASE UNCHANGED rows
  BY <1>4, <1>10
<1>11. CASE Deliver \/ Fail
  <2> DEFINE i == tick.on
  <2>1. /\ rows[i].status = "pending"
        /\ \/ rows' = [rows EXCEPT ![i].status = "sent", ![i].sent = now]
           \/ rows' = [rows EXCEPT ![i].status = "failed"]
    BY <1>11 DEF Deliver, Fail, Ripe
  <2> HIDE DEF i
  <2>2. \A q \in Row : rows[q].status = "none" => rows'[q] = rows[q]
    BY <2>1 DEF TypeOK, TablesOK, RowsOK
  <2> QED BY <1>4, <2>2
<1> QED BY <1>3, <1>5, <1>6, <1>7, <1>8, <1>9, <1>10, <1>11
        DEF Cases, ManualReply, CreateDraftCampaign, CompleteFinished, Calm

LEMMA BaseInit == Init => Base
<1> SUFFICES ASSUME Init PROVE Base
  OBVIOUS
<1>1. PICK n \in Limits : limit = [a \in Account |-> n]
  BY DEF Init, PlanInit
<1>2. NoRules \in RuleSet
  BY DaySlotsAssumption DEF NoRules, RuleSet, Week
<1>3. CampaignRow("none", NoRules) \in CampaignRecord
  BY <1>2 DEF CampaignRow, CampaignRecord, Statuses, Time
<1>4. NoRow \in RowRecord /\ NoRow.status = "none" /\ NoRow.sent = NoTime
  BY DEF NoRow, RowRecord, Time
<1>5. limit \in [Account -> Nat \ {0}]
  BY <1>1, InputsAssumption
<1>6. TablesOK
  BY <1>3, <1>4, <1>5, FS_EmptySet DEF Init, PlanInit, TablesOK, RowsOK
<1>7. DeskOK
  BY DEF Init, PlanInit, DeskOK
<1>8. TickOK
  BY <1>5, OffIsFine, TickFineIs DEF Init
<1>9. AlertsOK
  BY DEF Init, AlertsOK, NotIdle, Time
<1>10. RowsOfCampaigns /\ OneAccount
  BY <1>4 DEF Init, PlanInit, RowsOfCampaigns, OneAccount
<1>11. SentStays
  BY DEF Init, Off, SentStays
<1> QED BY <1>6, <1>7, <1>8, <1>9, <1>10, <1>11 DEF TypeOK, Base

LEMMA BaseStep ==
  ASSUME Base, [Next]_vars
  PROVE  Base' /\ Cases /\ RowsKeep
<1>1. TypeOK /\ RowsOfCampaigns /\ SentStays /\ OneAccount
  BY DEF Base
<1>2. Cases
  BY <1>1, NextCases
<1>3. RowsKeep
  BY <1>1, <1>2, RowsKept
<1>4. TablesOK' /\ balanced' \subseteq Account /\ overtaken' \subseteq Campaign
  BY <1>1, <1>2, TablesStep
<1>5. DeskOK'
  BY <1>1, <1>4, JobsStep DEF JobsOK, DeskOK
<1>6. TypeOK'
  BY <1>1, <1>4, <1>5, TickStepOK, AlertsStepOK DEF TypeOK
<1>7. RowsOfCampaigns' /\ SentStays' /\ OneAccount'
  BY <1>1, <1>2, <1>3, RowsOfCampaignsStep, SentStaysStep, OneAccountStep
<1> QED BY <1>2, <1>3, <1>6, <1>7 DEF Base

LEMMA BaseHolds == Spec => []Base
<1>1. Base /\ [Next]_vars => Base'
  BY BaseStep
<1> QED BY <1>1, BaseInit, PTL DEF Spec

\* What the tables, the commands, the tick and the channel hold is of the
\* kind the code means it to be, whatever is configured.
THEOREM PlanningTypes == Spec => []TypeOK
<1>1. Base => TypeOK
  BY DEF Base
<1> QED BY <1>1, BaseHolds, PTL

-----------------------------------------------------------------------------
(* Nothing is stranded in a campaign that is complete.                      *)

\* By its status, nothing of a campaign waits, or is left to be tried again.
Settled ==
  \A c \in Campaign \ overtaken, k \in Row : k[1] = c =>
    /\ camp[c].status \in Completed => rows[k].status # "pending"
    /\ camp[c].status = "completed" => rows[k].status # "failed"

LEMMA SettledStep ==
  ASSUME TypeOK, Settled, Cases
  PROVE  Settled'
<1>0. /\ rows \in [Row -> RowRecord] /\ camp \in [Campaign -> CampaignRecord]
      /\ overtaken \subseteq Campaign
  BY DEF TypeOK, TablesOK, RowsOK, DeskOK
<1>1. SUFFICES ASSUME NEW c \in Campaign \ overtaken', NEW k \in Row, k[1] = c,
                      camp'[c].status \in Completed
               PROVE  /\ rows'[k].status # "pending"
                      /\ camp'[c].status = "completed" => rows'[k].status # "failed"
  BY DEF Settled, Completed
<1> DEFINE Goal == /\ rows'[k].status # "pending"
                   /\ camp'[c].status = "completed" => rows'[k].status # "failed"
<1>2. ASSUME c \notin overtaken, camp'[c].status = camp[c].status,
             rows'[k].status \in {"pending", "failed"} => rows'[k].status = rows[k].status
      PROVE  Goal
  BY <1>1, <1>2 DEF Settled
<1> HIDE DEF Goal
<1>3. CASE \E d, L, A, rs, n : Enrols(d, L, A, rs, n)
  <2>1. PICK d, L, A, rs, n : Enrols(d, L, A, rs, n)
    BY <1>3
  <2>2. c \notin overtaken /\ camp'[c].status = camp[c].status
    BY <1>1, <2>1 DEF Enrols
  <2>3. ~(k[1] = d /\ k[2] \in L)
    BY <1>1, <2>1 DEF Enrols
  <2>4. rs[k] = rows[k]
    BY <2>1, <2>3 DEF Enrols, Lays
  <2>5. rows'[k].status = rs[k].status
    BY <2>1 DEF Enrols, Replans, Moves
  <2> QED BY <1>2, <2>2, <2>4, <2>5 DEF Goal
<1>4. CASE \E A, rs : Rearranges(A, rs)
  <2>1. PICK A, rs : Rearranges(A, rs)
    BY <1>4
  <2>2. c \notin overtaken /\ camp'[c].status = camp[c].status
    BY <1>1, <2>1 DEF Rearranges, Completed
  <2>3. rows'[k].status = rows[k].status
    BY <2>1 DEF Rearranges, Retimes, Replans, Moves
  <2> QED BY <1>2, <2>2, <2>3 DEF Goal
<1>5. CASE \E d, A, rs : Retries(d, A, rs)
  <2>1. PICK d, A, rs : Retries(d, A, rs)
    BY <1>5
  <2>2. c \notin overtaken /\ camp'[c] = camp[c]
    BY <1>1, <2>1 DEF Retries, Completed
  <2>4. rs[k] = rows[k]
    BY <1>1, <2>1, <2>2 DEF Retries, Settled, Completed
  <2>5. rows'[k].status = rs[k].status
    BY <2>1 DEF Retries, Replans, Moves
  <2> QED BY <1>2, <2>2, <2>4, <2>5 DEF Goal
<1>6. ASSUME NEW j \in jobs, SendNowCommit(j) PROVE Goal
  <2> DEFINE due == RowsIn(j.c) \cap RowsWith("pending")
  <2>1. /\ rows' = [q \in Row |-> IF q \in due THEN [rows[q] EXCEPT !.at = now] ELSE rows[q]]
        /\ UNCHANGED <<camp, overtaken>>
    BY <1>6 DEF SendNowCommit
  <2> HIDE DEF due
  <2>2. rows'[k].status = rows[k].status
    BY <1>0, <2>1 DEF RowRecord
  <2> QED BY <1>1, <1>2, <2>1, <2>2
<1>7. ASSUME NEW d \in Campaign, NEW l \in Lead, StopLead(d, l) PROVE Goal
  <2>1. /\ rows' = [q \in Row |-> IF q[1] = d /\ q[2] = l /\ rows[q].status = "pending"
                              THEN [rows[q] EXCEPT !.status = "skipped"] ELSE rows[q]]
        /\ UNCHANGED <<camp, overtaken>>
    BY <1>7 DEF StopLead
  <2>2. rows'[k].status = rows[k].status \/ rows'[k].status = "skipped"
    BY <1>0, <2>1 DEF RowRecord
  <2> QED BY <1>1, <1>2, <2>1, <2>2
<1>8. ASSUME NEW d \in Campaign, DeleteCampaign(d) PROVE Goal
  <2>1. /\ overtaken' = overtaken
        /\ \/ UNCHANGED <<camp, rows>>
           \/ /\ camp' = [camp EXCEPT ![d] = CampaignRow("deleted", NoRules)]
              /\ rows' = [q \in Row |-> IF q[1] = d THEN NoRow ELSE rows[q]]
    BY <1>8 DEF DeleteCampaign
  <2>2. camp'[c].status = camp[c].status
    BY <1>0, <1>1, <2>1 DEF CampaignRow, Completed
  <2>3. rows'[k].status = rows[k].status \/ rows'[k].status = "none"
    BY <2>1 DEF NoRow
  <2> QED BY <1>1, <1>2, <2>1, <2>2, <2>3
<1>9. ASSUME NEW d \in Campaign, NEW r \in Settings, NEW A \in Rotations,
             CreateDraftCampaign(d, r, A)
      PROVE  Goal
  <2>1. UNCHANGED <<rows, overtaken>> /\ camp' = [camp EXCEPT ![d] = CampaignRow("draft", r)]
    BY <1>9 DEF CreateDraftCampaign
  <2>2. camp'[c].status = camp[c].status
    BY <1>0, <1>1, <2>1 DEF CampaignRow, Completed
  <2> QED BY <1>1, <1>2, <2>1, <2>2
<1>10. CASE Deliver
  <2> DEFINE j == tick.on
  <2>1. /\ rows' = [rows EXCEPT ![j].status = "sent", ![j].sent = now]
        /\ UNCHANGED <<camp, overtaken>>
    BY <1>10 DEF Deliver
  <2> HIDE DEF j
  <2>2. rows'[k].status = rows[k].status \/ rows'[k].status = "sent"
    BY <1>0, <2>1 DEF RowRecord
  <2> QED BY <1>1, <1>2, <2>1, <2>2 DEF Goal
<1>11. CASE Fail
  <2> DEFINE j == tick.on
  <2>1. /\ rows' = [rows EXCEPT ![j].status = "failed"] /\ camp[j[1]].status = "active"
        /\ UNCHANGED <<camp, overtaken>>
    BY <1>11 DEF Fail, Ripe
  <2> HIDE DEF j
  <2>2. k # j
    BY <1>1, <2>1 DEF Completed
  <2>3. rows'[k].status = rows[k].status
    BY <1>0, <2>1, <2>2 DEF RowRecord
  <2> QED BY <1>1, <1>2, <2>1, <2>3 DEF Goal
<1>12. CASE CompleteFinished
  <2>1. /\ camp' = [d \in Campaign |-> IF Finished(d)
               THEN [camp[d] EXCEPT !.status = Outcome(d), !.done = now, !.told = FALSE]
               ELSE camp[d]]
        /\ UNCHANGED <<rows, overtaken>>
    BY <1>12 DEF CompleteFinished
  <2>2. CASE Finished(c)
    <3>1. camp'[c].status = Outcome(c)
      BY <1>0, <2>1, <2>2 DEF CampaignRecord
    <3>2. k \in RowsIn(c) \/ rows[k].status = "none"
      BY <1>1 DEF RowsIn
    <3>3. \A q \in RowsIn(c) : rows[q].status # "pending"
      BY <2>2 DEF Finished
    <3>4. camp'[c].status = "completed" => \A q \in RowsIn(c) : rows[q].status # "failed"
      BY <3>1 DEF Outcome
    <3> QED BY <1>1, <2>1, <3>2, <3>3, <3>4 DEF Goal
  <2>3. CASE ~Finished(c)
    BY <1>1, <1>2, <2>1, <2>3 DEF Goal
  <2> QED BY <2>2, <2>3
<1>13. CASE Calm \/ \E d \in Campaign, l \in Lead : ManualReply(d, l)
  BY <1>1, <1>2, <1>13 DEF Calm, ManualReply, Goal
<1> QED BY <1>3, <1>4, <1>5, <1>6, <1>7, <1>8, <1>9, <1>10, <1>11, <1>12, <1>13 DEF Cases, Goal

\* A campaign that is called complete leaves no mail behind that nobody will
\* send: whatever was retried, added, stopped or deleted in the meantime.
THEOREM NothingStrandedHolds == Spec => []NothingStranded
<1>1. Init => Settled
  BY DEF Init, PlanInit, Settled, CampaignRow, Completed
<1>2. Base /\ Settled /\ [Next]_vars => Settled'
  BY BaseStep, SettledStep DEF Base
<1>3. Settled => NothingStranded
  BY DEF Settled, NothingStranded, RowsIn
<1> QED BY <1>1, <1>2, <1>3, BaseHolds, PTL DEF Spec

-----------------------------------------------------------------------------
(* The plan of an account that was laid out after the last change to it.    *)

\* Events E and the plan fill no day beyond n.
FitsBeside(E, plan, a, n) ==
  \A k \in In(plan) :
    Cardinality({e \in E : e.acct = a /\ UTCDay(e.at) = UTCDay(plan[k])}) +
    Cardinality({j \in In(plan) : UTCDay(plan[j]) = UTCDay(plan[k])}) <= n

\* The first pending mail of a lead waits for the last one that left.
AfterSent(a, cs, rs) ==
  \A k \in Foremost(Pending(cs, rs, a)) : SentBefore(k, rs) # {} =>
    rs[k].at >= rs[Sibling(k, Max(SentBefore(k, rs)))].sent + Delay[k[3]] * DaySlots

\* The first mail of a cohort waits for its date.
AfterStart(a, cs, co, rs) ==
  \A k \in Pending(cs, rs, a) : k[3] = 1 /\ CohortDate(k, co) # NoDate =>
    rs[k].at >= Opening(CohortDate(k, co), RulesFor(k[2], cs[k[1]].rules))

GoodPlan(a, cs, co, rs, n, E) ==
  /\ FitsBeside(E, PlanOf(a, cs, rs), a, n) /\ Spaced(PlanOf(a, cs, rs), cs)
  /\ Windowed(PlanOf(a, cs, rs), cs) /\ Delayed(PlanOf(a, cs, rs))
  /\ AfterSent(a, cs, rs) /\ AfterStart(a, cs, co, rs)

LEMMA PlanOfIs ==
  ASSUME NEW a, NEW cs, NEW rs \in [Row -> RowRecord]
  PROVE  /\ In(PlanOf(a, cs, rs)) = Pending(cs, rs, a)
         /\ \A k \in Pending(cs, rs, a) : PlanOf(a, cs, rs)[k] = rs[k].at
         /\ PlanOf(a, cs, rs) \in [Row -> Time]
<1>1. \A k \in Row : rs[k].at \in Nat
  BY DEF RowRecord
<1>2. Pending(cs, rs, a) \subseteq Row
  BY DEF Pending
<1> QED BY <1>1, <1>2 DEF PlanOf, In, Time, NoTime

LEMMA SiblingIs ==
  ASSUME NEW k \in Row, NEW s \in 1 .. (k[3] - 1)
  PROVE  Sibling(k, s) \in Row /\ SameLead(Sibling(k, s), k) /\ Sibling(k, s)[3] = s
<1>1. k[1] \in Campaign /\ k[2] \in Lead /\ k[3] \in 1 .. Steps
  BY IdsAreNumbers
<1>2. s \in 1 .. Steps
  BY <1>1, PlannerAssumption
<1> QED BY <1>1, <1>2 DEF Sibling, Row, Step, SameLead

\* A rebalance makes a good plan.
LEMMA FreshPlan ==
  ASSUME TablesOK, NEW A, NEW rs, Replans(rs, A), NEW a \in A
  PROVE  GoodPlan(a, camp', cohort', rows', limit'[a], events')
<1> DEFINE plan == PlanOf(a, camp', rows')
           P    == Pending(camp', rs, a)
<1>1. /\ WellPlaced(plan, a, camp', cohort', rs, limit') /\ Moves(rows', A, camp', rs)
      /\ RowsOK(rs) /\ RowsOK(rows') /\ Given(camp', cohort', limit')
      /\ events' = events
  BY DEF Replans
<1>2. Tables(camp', cohort', rs) /\ Tables(camp', cohort', rows')
  <2>1. now \in Nat
    BY DEF TablesOK
  <2>2. camp' \in [Campaign -> CampaignRecord] /\ cohort' \in [Pair -> Nat \cup {NoDate, NotIn}]
    BY <1>1 DEF Given
  <2> QED BY <1>1, <2>1, <2>2, TablesAre
<1>3. Pending(camp', rows', a) = P
  BY <1>1 DEF Moves, Pending
<1>4. In(plan) = P /\ \A k \in P : plan[k] = rows'[k].at
  BY <1>1, <1>3, PlanOfIs DEF RowsOK
<1>5. Fits(plan, a, limit') /\ Spaced(plan, camp') /\ Windowed(plan, camp') /\ Delayed(plan)
      /\ \A k \in Foremost(P) : plan[k] >= FirstAnchor(k, camp', cohort', rs)
  BY <1>1 DEF WellPlaced
<1> HIDE DEF plan, P
<1>6. FitsBeside(events', plan, a, limit'[a])
  BY <1>1, <1>5 DEF Fits, UsedOn, FitsBeside
<1>7. P \subseteq Row /\ Foremost(P) \subseteq P
  BY DEF P, Pending, Foremost
<1>8. AfterSent(a, camp', rows')
  <2>1. SUFFICES ASSUME NEW k \in Foremost(P), SentBefore(k, rows') # {}
                 PROVE  rows'[k].at >= rows'[Sibling(k, Max(SentBefore(k, rows')))].sent
                                         + Delay[k[3]] * DaySlots
    BY <1>3 DEF AfterSent
  <2>2. k \in P /\ k \in Row
    BY <1>7
  <2>3. \A j \in Row : rows'[j].sent = rs[j].sent
    BY <1>1 DEF Moves
  <2>4. \A s \in 1 .. (k[3] - 1) : Sibling(k, s) \in Row
    BY <2>2, SiblingIs
  <2>5. SentBefore(k, rows') = SentBefore(k, rs)
    BY <2>3, <2>4 DEF SentBefore
  <2>6. Sibling(k, Max(SentBefore(k, rs))) \in Row
    BY <1>2, <2>1, <2>2, <2>5, SentBeforeIs
  <2>7. FirstAnchor(k, camp', cohort', rs) \in Nat
        /\ FirstAnchor(k, camp', cohort', rs)
             >= rs[Sibling(k, Max(SentBefore(k, rs)))].sent + Delay[k[3]] * DaySlots
    BY <1>2, <2>1, <2>2, <2>5, FirstAnchorIs
  <2>8. rows'[k].at >= FirstAnchor(k, camp', cohort', rs) /\ rows'[k].at \in Nat
    BY <1>1, <1>4, <1>5, <2>2 DEF RowsOK, RowRecord
  <2>9. rs[Sibling(k, Max(SentBefore(k, rs)))].sent \in Int /\ Delay[k[3]] * DaySlots \in Int
    <3>1. Delay[k[3]] \in Nat /\ DaySlots \in Nat
      BY <2>2, IdsAreNumbers, DaySlotsAssumption
    <3> QED BY <1>2, <2>6, <3>1 DEF Tables, Time, NoTime
  <2> HIDE DEF FirstAnchor
  <2> QED BY <2>3, <2>5, <2>6, <2>7, <2>8, <2>9
<1>9. AfterStart(a, camp', cohort', rows')
  <2>1. SUFFICES ASSUME NEW k \in P, k[3] = 1, CohortDate(k, cohort') # NoDate
                 PROVE  rows'[k].at >= Opening(CohortDate(k, cohort'),
                                               RulesFor(k[2], camp'[k[1]].rules))
    BY <1>3 DEF AfterStart
  <2>2. k \in Row
    BY <1>7
  <2>3. k \in Foremost(P)
    <3>1. \A j \in P : j[3] \in Nat \ {0}
      BY <1>7, IdsAreNumbers
    <3> QED BY <2>1, <3>1 DEF Foremost
  <2>4. FirstAnchor(k, camp', cohort', rs) \in Nat
        /\ FirstAnchor(k, camp', cohort', rs)
             >= Opening(CohortDate(k, cohort'), RulesFor(k[2], camp'[k[1]].rules))
    BY <1>2, <2>1, <2>2, FirstAnchorIs
  <2>5. rows'[k].at >= FirstAnchor(k, camp', cohort', rs) /\ rows'[k].at \in Nat
    BY <1>1, <1>4, <1>5, <2>2, <2>3 DEF RowsOK, RowRecord
  <2>6. Opening(CohortDate(k, cohort'), RulesFor(k[2], camp'[k[1]].rules)) \in Int
    <3>1. CohortDate(k, cohort') \in Int
      <4>1. cohort'[<<k[1], k[2]>>] \in Nat \cup {NoDate, NotIn}
        BY <1>2, <2>2 DEF Tables, Row, Pair
      <4> QED BY <4>1 DEF CohortDate, NoDate, NotIn
    <3>2. RulesFor(k[2], camp'[k[1]].rules) \in RuleSet
      BY <1>2, <2>2, RulesOfRow
    <3> QED BY <3>1, <3>2, OpeningOfDay
  <2> QED BY <2>4, <2>5, <2>6
<1> QED BY <1>5, <1>6, <1>8, <1>9 DEF GoodPlan, plan

\* What makes a good plan is kept where the rest of the plan stays as it is
\* and no event comes up.
Keeps(a, cs, co, rs, E, cn, con, rn, F) ==
  /\ \A k \in Pending(cn, rn, a) :
       /\ k \in Pending(cs, rs, a) /\ rn[k].at = rs[k].at /\ cn[k[1]].rules = cs[k[1]].rules
       /\ CohortDate(k, con) \in {CohortDate(k, co), NoDate}
  /\ \A e \in F : e.acct = a => e \in E

\* ... and leads keep, with a row of theirs, all pending rows and all mails.
KeepsLeads(a, cs, rs, cn, rn) ==
  \A k \in Pending(cn, rn, a), j \in Row : SameLead(j, k) =>
    rn[j].sent = rs[j].sent /\ (j \in Pending(cs, rs, a) => j \in Pending(cn, rn, a))

LEMMA FitsLess ==
  ASSUME NEW E, IsFiniteSet(E), NEW F, NEW a, \A e \in F : e.acct = a => e \in E,
         NEW p, NEW q, In(q) \subseteq In(p), \A k \in In(q) : q[k] = p[k],
         NEW n \in Nat, FitsBeside(E, p, a, n)
  PROVE  FitsBeside(F, q, a, n)
<1>1. SUFFICES ASSUME NEW k \in In(q)
               PROVE  Cardinality({e \in F : e.acct = a /\ UTCDay(e.at) = UTCDay(q[k])}) +
                      Cardinality({j \in In(q) : UTCDay(q[j]) = UTCDay(q[k])}) <= n
  BY DEF FitsBeside
<1> DEFINE EE == {e \in E : e.acct = a /\ UTCDay(e.at) = UTCDay(p[k])}
           FF == {e \in F : e.acct = a /\ UTCDay(e.at) = UTCDay(q[k])}
           PP == {j \in In(p) : UTCDay(p[j]) = UTCDay(p[k])}
           QQ == {j \in In(q) : UTCDay(q[j]) = UTCDay(q[k])}
<1>2. FF \subseteq EE /\ QQ \subseteq PP
  BY <1>1
<1>3. IsFiniteSet(EE) /\ IsFiniteSet(PP)
  BY RowsFinite, FS_Subset DEF In
<1>4. Cardinality(EE) + Cardinality(PP) <= n
  BY <1>1 DEF FitsBeside
<1> HIDE DEF EE, FF, PP, QQ
<1>5. Cardinality(FF) <= Cardinality(EE) /\ Cardinality(QQ) <= Cardinality(PP)
      /\ IsFiniteSet(FF) /\ IsFiniteSet(QQ)
  BY <1>2, <1>3, FS_Subset
<1>6. /\ Cardinality(FF) \in Nat /\ Cardinality(EE) \in Nat
      /\ Cardinality(PP) \in Nat /\ Cardinality(QQ) \in Nat
  BY <1>3, <1>5, FS_CardinalityType
<1>7. Cardinality(FF) + Cardinality(QQ) <= n
  BY <1>4, <1>5, <1>6
<1> QED BY <1>7 DEF FF, QQ

LEMMA KeptPlan ==
  ASSUME NEW a, NEW cs, NEW co, NEW rs \in [Row -> RowRecord], NEW E, IsFiniteSet(E),
         NEW cn, NEW con, NEW rn \in [Row -> RowRecord], NEW F, NEW n \in Nat,
         Keeps(a, cs, co, rs, E, cn, con, rn, F), GoodPlan(a, cs, co, rs, n, E),
         AfterSent(a, cn, rn)
  PROVE  GoodPlan(a, cn, con, rn, n, F)
<1> DEFINE p == PlanOf(a, cs, rs)
           q == PlanOf(a, cn, rn)
<1>1. /\ In(p) = Pending(cs, rs, a) /\ \A k \in In(p) : p[k] = rs[k].at
      /\ In(q) = Pending(cn, rn, a) /\ \A k \in In(q) : q[k] = rn[k].at
  BY PlanOfIs
<1>2. /\ FitsBeside(E, p, a, n) /\ Spaced(p, cs) /\ Windowed(p, cs) /\ Delayed(p)
      /\ AfterStart(a, cs, co, rs)
  BY DEF GoodPlan
<1> HIDE DEF p, q
<1>3. /\ \A k \in In(q) : k \in In(p) /\ q[k] = p[k] /\ cn[k[1]].rules = cs[k[1]].rules
                          /\ CohortDate(k, con) \in {CohortDate(k, co), NoDate}
      /\ \A e \in F : e.acct = a => e \in E
  BY <1>1 DEF Keeps
<1>4. FitsBeside(F, q, a, n)
  BY <1>2, <1>3, FitsLess
<1>5. Spaced(q, cn)
  BY <1>2, <1>3 DEF Spaced
<1>6. Windowed(q, cn)
  BY <1>2, <1>3 DEF Windowed
<1>7. Delayed(q)
  BY <1>2, <1>3 DEF Delayed
<1>8. AfterStart(a, cn, con, rn)
  BY <1>1, <1>2, <1>3 DEF AfterStart
<1> QED BY <1>4, <1>5, <1>6, <1>7, <1>8 DEF GoodPlan, q

LEMMA KeptAfterSent ==
  ASSUME NEW a, NEW cs, NEW co, NEW rs \in [Row -> RowRecord], NEW E,
         NEW cn, NEW con, NEW rn \in [Row -> RowRecord], NEW F,
         Keeps(a, cs, co, rs, E, cn, con, rn, F), KeepsLeads(a, cs, rs, cn, rn),
         AfterSent(a, cs, rs)
  PROVE  AfterSent(a, cn, rn)
<1>1. SUFFICES ASSUME NEW k \in Foremost(Pending(cn, rn, a)), SentBefore(k, rn) # {}
               PROVE  rn[k].at >= rn[Sibling(k, Max(SentBefore(k, rn)))].sent
                                    + Delay[k[3]] * DaySlots
  BY DEF AfterSent
<1>2. k \in Pending(cn, rn, a) /\ k \in Row
  BY DEF Foremost, Pending
<1>3. k \in Pending(cs, rs, a) /\ rn[k].at = rs[k].at
  BY <1>2 DEF Keeps
<1>4. \A s \in 1 .. (k[3] - 1) : Sibling(k, s) \in Row /\ SameLead(Sibling(k, s), k)
  BY <1>2, SiblingIs
<1>5. \A s \in 1 .. (k[3] - 1) : rn[Sibling(k, s)].sent = rs[Sibling(k, s)].sent
  BY <1>2, <1>4 DEF KeepsLeads
<1>6. SentBefore(k, rn) = SentBefore(k, rs)
  BY <1>5 DEF SentBefore
<1>7. k \in Foremost(Pending(cs, rs, a))
  <2>1. ASSUME NEW j \in Pending(cs, rs, a), SameLead(j, k) PROVE j[3] >= k[3]
    <3>1. j \in Pending(cn, rn, a)
      BY <1>2, <2>1 DEF KeepsLeads, Pending
    <3> QED BY <2>1, <3>1 DEF Foremost, SameLead
  <2> QED BY <1>3, <2>1 DEF Foremost, SameLead
<1>8. Max(SentBefore(k, rs)) \in 1 .. (k[3] - 1)
  <2>1. SentBefore(k, rs) \subseteq 1 .. (k[3] - 1)
    BY DEF SentBefore
  <2>2. k[3] - 1 \in Int
    BY <1>2, IdsAreNumbers
  <2>3. IsFiniteSet(1 .. (k[3] - 1))
    BY <2>2, FS_Interval
  <2>4. IsFiniteSet(SentBefore(k, rs))
    BY <2>1, <2>3, FS_Subset
  <2>5. SentBefore(k, rs) \in SUBSET Int
    BY <2>1
  <2>6. Max(SentBefore(k, rs)) \in SentBefore(k, rs)
    BY <1>1, <1>6, <2>4, <2>5, MaxIs
  <2> QED BY <2>1, <2>6
<1>9. rs[k].at >= rs[Sibling(k, Max(SentBefore(k, rs)))].sent + Delay[k[3]] * DaySlots
  BY <1>1, <1>6, <1>7 DEF AfterSent
<1> QED BY <1>3, <1>5, <1>6, <1>8, <1>9

\* Both at once.
LEMMA KeptWhole ==
  ASSUME NEW a, NEW cs, NEW co, NEW rs \in [Row -> RowRecord], NEW E, IsFiniteSet(E),
         NEW cn, NEW con, NEW rn \in [Row -> RowRecord], NEW F, NEW n \in Nat,
         Keeps(a, cs, co, rs, E, cn, con, rn, F), KeepsLeads(a, cs, rs, cn, rn),
         GoodPlan(a, cs, co, rs, n, E)
  PROVE  GoodPlan(a, cn, con, rn, n, F)
<1>1. AfterSent(a, cn, rn)
  BY KeptAfterSent DEF GoodPlan
<1> QED BY <1>1, KeptPlan

Plans == \A a \in balanced : GoodPlan(a, camp, cohort, rows, limit[a], events)

\* What a transaction did not touch stays planned as it was.
LEMMA UntouchedPlan ==
  ASSUME TypeOK, NEW A, NEW rs, Replans(rs, A), NEW a \in Account, a \notin A, a \notin Touched(rs),
         GoodPlan(a, camp, cohort, rows, limit[a], events), limit'[a] = limit[a],
         \A k \in Row : k \in Pending(camp, rows, a) =>
           /\ CohortDate(k, cohort') \in {CohortDate(k, cohort), NoDate}
           /\ \A j \in Row : SameLead(j, k) => rs[j].sent = rows[j].sent
  PROVE  GoodPlan(a, camp', cohort', rows', limit'[a], events')
<1>1. /\ rows \in [Row -> RowRecord] /\ rows' \in [Row -> RowRecord] /\ rs \in [Row -> RowRecord]
      /\ IsFiniteSet(events) /\ limit[a] \in Nat /\ events' = events /\ Moves(rows', A, camp', rs)
  BY DEF TypeOK, TablesOK, Replans, RowsOK
<1> DEFINE K == {k \in Row : \/ rs[k] # rows[k]
                             \/ camp'[k[1]].rules # camp[k[1]].rules
                             \/ Open(camp', k[1]) # Open(camp, k[1])}
<1>2. \A k \in K : rows[k].acct # a /\ rs[k].acct # a
  BY DEF Touched, AccountsOf
<1>3. \A k \in Row : k \notin K => rs[k] = rows[k] /\ camp'[k[1]].rules = camp[k[1]].rules
                                   /\ Open(camp', k[1]) = Open(camp, k[1])
  OBVIOUS
<1> HIDE DEF K
<1>4. \A k \in Row : rs[k].acct = a => rows'[k] = rs[k]
  BY <1>1 DEF Moves, Pending
<1>5. \A k \in Row : rows'[k].acct = rs[k].acct /\ rows'[k].sent = rs[k].sent
  BY <1>1 DEF Moves
<1>6. ASSUME NEW k \in Row, rows'[k].acct = a \/ rows[k].acct = a
      PROVE  rows'[k] = rows[k] /\ camp'[k[1]].rules = camp[k[1]].rules
             /\ Open(camp', k[1]) = Open(camp, k[1])
  <2>1. k \notin K
    BY <1>2, <1>5, <1>6
  <2> QED BY <1>3, <1>4, <1>5, <1>6, <2>1
<1>7. Pending(camp', rows', a) = Pending(camp, rows, a)
  BY <1>6 DEF Pending
<1>8. Keeps(a, camp, cohort, rows, events, camp', cohort', rows', events')
  BY <1>1, <1>6, <1>7 DEF Keeps, Pending
<1>9. KeepsLeads(a, camp, rows, camp', rows')
  BY <1>5, <1>7 DEF KeepsLeads, Pending
<1> QED BY <1>1, <1>8, <1>9, KeptWhole

PlansNext ==
  \A a \in balanced' : GoodPlan(a, camp', cohort', rows', limit'[a], events')

LEMMA ReplansKeep ==
  ASSUME TypeOK, Plans, NEW A, NEW rs, Replans(rs, A), \A a \in Account \ A : limit'[a] = limit[a],
         \A k \in Row : rows[k].status = "pending" =>
           /\ CohortDate(k, cohort') \in {CohortDate(k, cohort), NoDate}
           /\ \A j \in Row : SameLead(j, k) => rs[j].sent = rows[j].sent
  PROVE  PlansNext
<1>1. SUFFICES ASSUME NEW a \in balanced'
               PROVE  GoodPlan(a, camp', cohort', rows', limit'[a], events')
  BY DEF PlansNext
<1>2. TablesOK /\ balanced \subseteq Account /\ A \subseteq Account
      /\ (a \in A \/ (a \in balanced /\ a \notin Touched(rs)))
  BY <1>1 DEF TypeOK, DeskOK, Replans
<1>3. CASE a \in A
  BY <1>2, <1>3, FreshPlan
<1>4. CASE a \notin A
  <2>1. a \in Account /\ a \in balanced /\ a \notin Touched(rs) /\ limit'[a] = limit[a]
    BY <1>2, <1>4
  <2>2. GoodPlan(a, camp, cohort, rows, limit[a], events)
    BY <2>1 DEF Plans
  <2>3. \A k \in Row : k \in Pending(camp, rows, a) =>
           /\ CohortDate(k, cohort') \in {CohortDate(k, cohort), NoDate}
           /\ \A j \in Row : SameLead(j, k) => rs[j].sent = rows[j].sent
    BY DEF Pending
  <2> HIDE DEF GoodPlan
  <2> QED BY <1>4, <2>1, <2>2, <2>3, UntouchedPlan
<1> QED BY <1>3, <1>4

LEMMA EnrolsPlans ==
  ASSUME TypeOK, Plans, NEW c, NEW L, NEW A, NEW rs, NEW d, Enrols(c, L, A, rs, d)
  PROVE  PlansNext
<1>1. /\ Replans(rs, A) /\ limit' = limit /\ Lays(rs, c, L, A)
      /\ \A k \in RowsIn(c) : k[2] \notin L
      /\ cohort' = [p \in Pair |-> IF p[1] = c /\ p[2] \in L THEN d ELSE cohort[p]]
  BY DEF Enrols
<1>2. ASSUME NEW k \in Row, rows[k].status = "pending"
      PROVE  /\ CohortDate(k, cohort') = CohortDate(k, cohort)
             /\ \A j \in Row : SameLead(j, k) => rs[j].sent = rows[j].sent
  <2>1. ~(k[1] = c /\ k[2] \in L)
    BY <1>1, <1>2 DEF RowsIn
  <2>2. <<k[1], k[2]>> \in Pair
    BY DEF Row, Pair
  <2>3. cohort'[<<k[1], k[2]>>] = cohort[<<k[1], k[2]>>]
    BY <1>1, <2>1, <2>2
  <2>4. \A j \in Row : SameLead(j, k) => rs[j] = rows[j]
    BY <1>1, <2>1 DEF Lays, SameLead
  <2> QED BY <2>3, <2>4 DEF CohortDate
<1> QED BY <1>1, <1>2, ReplansKeep

LEMMA RearrangesPlans ==
  ASSUME TypeOK, Plans, NEW A, NEW rs, Rearranges(A, rs)
  PROVE  PlansNext
<1>1. /\ Replans(rs, A) /\ \A a \in Account \ A : limit'[a] = limit[a]
      /\ cohort' = cohort /\ \A j \in Row : rs[j].sent = rows[j].sent
  BY DEF Rearranges, Retimes
<1> QED BY <1>1, ReplansKeep

LEMMA RetriesPlans ==
  ASSUME TypeOK, Plans, NEW c, NEW A, NEW rs, Retries(c, A, rs)
  PROVE  PlansNext
<1>1. /\ Replans(rs, A) /\ limit' = limit /\ cohort' = cohort
  BY DEF Retries
<1>2. \A j \in Row : rows[j].sent # NoTime <=> rows[j].status = "sent"
  BY DEF TypeOK, TablesOK, RowsOK
<1>3. \A j \in Row : rs[j].sent = rows[j].sent
  BY <1>2 DEF Retries
<1> QED BY <1>1, <1>3, ReplansKeep

\* Without a transaction that rebalances.
LEMMA QuietPlans ==
  ASSUME TypeOK, Plans, RowsOK(rows'), balanced' \subseteq balanced, limit' = limit,
         \A a \in balanced' :
           /\ Keeps(a, camp, cohort, rows, events, camp', cohort', rows', events')
           /\ KeepsLeads(a, camp, rows, camp', rows')
  PROVE  PlansNext
<1>1. SUFFICES ASSUME NEW a \in balanced'
               PROVE  GoodPlan(a, camp', cohort', rows', limit'[a], events')
  BY DEF PlansNext
<1>2. /\ rows \in [Row -> RowRecord] /\ rows' \in [Row -> RowRecord] /\ IsFiniteSet(events)
      /\ a \in Account /\ limit'[a] = limit[a] /\ limit[a] \in Nat
  BY DEF TypeOK, TablesOK, DeskOK, RowsOK
<1>3. GoodPlan(a, camp, cohort, rows, limit[a], events)
  BY DEF Plans
<1> HIDE DEF GoodPlan
<1> QED BY <1>2, <1>3, KeptWhole

\* Where no pending row but those of other accounts, or of whole leads, goes.
LEMMA KeepsIs ==
  ASSUME NEW a, cohort' = cohort, \A c \in Campaign : camp'[c].rules = camp[c].rules,
         \A e \in events' : e.acct = a => e \in events,
         \A k \in Row : k \in Pending(camp', rows', a) =>
           /\ k \in Pending(camp, rows, a) /\ rows'[k].at = rows[k].at
           /\ \A j \in Row : SameLead(j, k) =>
                rows'[j].sent = rows[j].sent
                /\ (j \in Pending(camp, rows, a) => j \in Pending(camp', rows', a))
  PROVE  /\ Keeps(a, camp, cohort, rows, events, camp', cohort', rows', events')
         /\ KeepsLeads(a, camp, rows, camp', rows')
<1>1. Pending(camp', rows', a) \subseteq Row /\ \A k \in Row : k[1] \in Campaign
  BY DEF Pending, Row
<1> QED BY <1>1 DEF Keeps, KeepsLeads

LEMMA SendNowPlans ==
  ASSUME TypeOK, Plans, RowsOK(rows'), NEW i \in jobs, SendNowCommit(i)
  PROVE  PlansNext
<1> DEFINE due == RowsIn(i.c) \cap RowsWith("pending")
<1>1. /\ rows' = [k \in Row |-> IF k \in due THEN [rows[k] EXCEPT !.at = now] ELSE rows[k]]
      /\ balanced' = balanced \ AccountsOf(due)
      /\ UNCHANGED <<camp, cohort, events, limit>>
  BY DEF SendNowCommit, Balances
<1> HIDE DEF due
<1>2. ASSUME NEW a \in balanced'
      PROVE  /\ Keeps(a, camp, cohort, rows, events, camp', cohort', rows', events')
             /\ KeepsLeads(a, camp, rows, camp', rows')
  <2>1. \A k \in due : rows[k].acct # a
    BY <1>1, <1>2 DEF AccountsOf
  <2>2. \A k \in Row : rows'[k].status = rows[k].status /\ rows'[k].acct = rows[k].acct
                       /\ rows'[k].sent = rows[k].sent
    BY <1>1 DEF TypeOK, TablesOK, RowsOK, RowRecord
  <2>3. \A k \in Row : rows[k].acct = a => rows'[k].at = rows[k].at
    BY <1>1, <2>1
  <2> QED BY <1>1, <2>2, <2>3, KeepsIs DEF Pending
<1> QED BY <1>1, <1>2, QuietPlans

LEMMA StopPlans ==
  ASSUME TypeOK, Plans, RowsOK(rows'), NEW c \in Campaign, NEW l \in Lead, StopLead(c, l)
  PROVE  PlansNext
<1>1. /\ rows' = [k \in Row |-> IF k[1] = c /\ k[2] = l /\ rows[k].status = "pending"
                              THEN [rows[k] EXCEPT !.status = "skipped"] ELSE rows[k]]
      /\ UNCHANGED <<camp, cohort, events, limit, balanced>>
  BY DEF StopLead
<1>2. ASSUME NEW a \in balanced'
      PROVE  /\ Keeps(a, camp, cohort, rows, events, camp', cohort', rows', events')
             /\ KeepsLeads(a, camp, rows, camp', rows')
  <2>1. \A k \in Row : ~(k[1] = c /\ k[2] = l) => rows'[k] = rows[k]
    BY <1>1
  <2>2. \A k \in Row : k[1] = c /\ k[2] = l => rows'[k].status # "pending"
    BY <1>1 DEF TypeOK, TablesOK, RowsOK, RowRecord
  <2>3. \A k \in Row : k \in Pending(camp', rows', a) => ~(k[1] = c /\ k[2] = l)
    BY <2>2 DEF Pending
  <2>4. \A k \in Row : ~(k[1] = c /\ k[2] = l)
          => (k \in Pending(camp', rows', a) <=> k \in Pending(camp, rows, a))
    BY <1>1, <2>1 DEF Pending
  <2> QED BY <1>1, <2>1, <2>3, <2>4, KeepsIs DEF SameLead
<1> QED BY <1>1, <1>2, QuietPlans

LEMMA DeletePlans ==
  ASSUME TypeOK, Plans, RowsOK(rows'), NEW c \in Campaign, DeleteCampaign(c)
  PROVE  PlansNext
<1>1. /\ cohort' = [p \in Pair |-> IF p[1] = c THEN NotIn ELSE cohort[p]]
      /\ \/ UNCHANGED <<camp, rows>>
         \/ /\ camp' = [camp EXCEPT ![c] = CampaignRow("deleted", NoRules)]
            /\ rows' = [k \in Row |-> IF k[1] = c THEN NoRow ELSE rows[k]]
      /\ events' \subseteq events /\ UNCHANGED <<limit, balanced>>
  BY DEF DeleteCampaign
<1>2. /\ camp \in [Campaign -> CampaignRecord]
      /\ \A k \in Row : k[1] \in Campaign /\ <<k[1], k[2]>> \in Pair
  BY DEF TypeOK, TablesOK, Row, Pair
<1>3. \A k \in Row : CohortDate(k, cohort') \in {CohortDate(k, cohort), NoDate}
  BY <1>1, <1>2 DEF CohortDate
<1>4. ASSUME NEW a \in balanced'
      PROVE  /\ Keeps(a, camp, cohort, rows, events, camp', cohort', rows', events')
             /\ KeepsLeads(a, camp, rows, camp', rows')
  <2>1. Pending(camp', rows', a) \subseteq Row
    BY DEF Pending
  <2>2. CASE UNCHANGED <<camp, rows>>
    <3>1. Pending(camp', rows', a) = Pending(camp, rows, a)
      BY <2>2 DEF Pending
    <3> QED BY <1>1, <1>3, <2>1, <2>2, <3>1 DEF Keeps, KeepsLeads
  <2>3. CASE /\ camp' = [camp EXCEPT ![c] = CampaignRow("deleted", NoRules)]
             /\ rows' = [k \in Row |-> IF k[1] = c THEN NoRow ELSE rows[k]]
    <3>1. \A k \in Row : k[1] # c => rows'[k] = rows[k] /\ camp'[k[1]] = camp[k[1]]
      BY <1>2, <2>3
    <3>2. \A k \in Row : k \in Pending(camp', rows', a) => k[1] # c
      BY <2>3 DEF Pending, NoRow
    <3>3. \A k \in Row : k[1] # c => (k \in Pending(camp', rows', a) <=> k \in Pending(camp, rows, a))
      BY <3>1 DEF Pending, Open
    <3>4. Keeps(a, camp, cohort, rows, events, camp', cohort', rows', events')
      BY <1>1, <1>3, <2>1, <3>1, <3>2, <3>3 DEF Keeps
    <3>5. KeepsLeads(a, camp, rows, camp', rows')
      BY <2>1, <3>1, <3>2, <3>3 DEF KeepsLeads, SameLead
    <3> QED BY <3>4, <3>5
  <2> QED BY <1>1, <2>2, <2>3
<1> QED BY <1>1, <1>4, QuietPlans

LEMMA ReplyPlans ==
  ASSUME TypeOK, Plans, RowsOK(rows'), NEW c \in Campaign, NEW l \in Lead, ManualReply(c, l)
  PROVE  PlansNext
<1> DEFINE b == rows[<<c, l, 1>>].acct
<1>1. /\ events' = events \cup {[key |-> <<c, l, 0>>, at |-> now, acct |-> b]}
      /\ balanced' = balanced \ {b} /\ UNCHANGED <<camp, cohort, rows, limit>>
  BY DEF ManualReply, Balances
<1> HIDE DEF b
<1>2. ASSUME NEW a \in balanced'
      PROVE  /\ Keeps(a, camp, cohort, rows, events, camp', cohort', rows', events')
             /\ KeepsLeads(a, camp, rows, camp', rows')
  <2>1. \A e \in events' : e.acct = a => e \in events
    BY <1>1, <1>2
  <2> QED BY <1>1, <2>1, KeepsIs DEF Pending
<1> QED BY <1>1, <1>2, QuietPlans

LEMMA DraftPlans ==
  ASSUME TypeOK, Plans, RowsOfCampaigns, RowsOK(rows'), NEW c \in Campaign, NEW r \in Settings,
         NEW A \in Rotations, CreateDraftCampaign(c, r, A)
  PROVE  PlansNext
<1>1. /\ camp' = [camp EXCEPT ![c] = CampaignRow("draft", r)] /\ NextId(c)
      /\ UNCHANGED <<cohort, rows, events, limit, balanced>>
  BY DEF CreateDraftCampaign
<1>2. /\ camp \in [Campaign -> CampaignRecord] /\ \A k \in Row : k[1] \in Campaign
      /\ camp[c].status = "none"
  BY <1>1, NextIdIs DEF TypeOK, TablesOK, Row
<1>3. \A k \in Row : rows[k].status = "pending" => k[1] # c
  BY <1>2 DEF RowsOfCampaigns, Gone
<1>4. \A k \in Row : k[1] # c => camp'[k[1]] = camp[k[1]]
  BY <1>1, <1>2
<1>5. ASSUME NEW a \in balanced'
      PROVE  /\ Keeps(a, camp, cohort, rows, events, camp', cohort', rows', events')
             /\ KeepsLeads(a, camp, rows, camp', rows')
  <2>1. Pending(camp', rows', a) = Pending(camp, rows, a)
    BY <1>1, <1>3, <1>4 DEF Pending, Open
  <2>2. \A k \in Pending(camp, rows, a) : camp'[k[1]].rules = camp[k[1]].rules
    BY <1>3, <1>4 DEF Pending
  <2> QED BY <1>1, <2>1, <2>2 DEF Keeps, KeepsLeads
<1> QED BY <1>1, <1>5, QuietPlans

LEMMA DeliverPlans ==
  ASSUME TypeOK, Plans, OneAccount, RowsOK(rows'), Deliver
  PROVE  PlansNext
<1> DEFINE i == tick.on
           b == rows[i].acct
<1>1. /\ tick.pc = "send" /\ rows[i].status = "pending"
      /\ rows' = [rows EXCEPT ![i].status = "sent", ![i].sent = now]
      /\ events' = events \cup {[key |-> i, at |-> now, acct |-> b]}
      /\ balanced' = balanced \ {b} /\ UNCHANGED <<camp, cohort, limit>>
  BY DEF Deliver, Ripe, Balances
<1>2. i \in Row /\ rows \in [Row -> RowRecord]
  BY <1>1, ItemsAre DEF TypeOK, TickOK, SendPcs, TablesOK, RowsOK
<1> HIDE DEF i
<1>3. ASSUME NEW a \in balanced'
      PROVE  /\ Keeps(a, camp, cohort, rows, events, camp', cohort', rows', events')
             /\ KeepsLeads(a, camp, rows, camp', rows')
  <2>1. \A e \in events' : e.acct = a => e \in events
    BY <1>1, <1>3
  <2>2. \A k \in Row : k # i => rows'[k] = rows[k]
    BY <1>1, <1>2
  <2>3. rows'[i].status = "sent"
    BY <1>1, <1>2 DEF RowRecord
  <2>4. \A k \in Row : k \in Pending(camp, rows, a) => k # i
    BY <1>1, <1>3 DEF Pending
  <2>5. \A k \in Row : k \in Pending(camp', rows', a) => k # i
    BY <2>3 DEF Pending
  <2>6. Pending(camp', rows', a) = Pending(camp, rows, a)
    BY <1>1, <2>2, <2>4, <2>5 DEF Pending
  <2>7. \A k \in Row : k \in Pending(camp, rows, a) => ~SameLead(i, k)
    BY <1>1, <1>2, <1>3 DEF OneAccount, Pending
  <2> QED BY <1>1, <2>1, <2>2, <2>4, <2>6, <2>7, KeepsIs
<1> QED BY <1>1, <1>3, QuietPlans

\* A mail that fails leaves the next one where its delay after this one put
\* it; no mail left in between, or the plan is no longer claimed.
LEMMA FailPlans ==
  ASSUME TypeOK, Plans, OneAccount, RowsOK(rows'), Fail
  PROVE  PlansNext
<1> DEFINE i == tick.on
<1>1. /\ tick.pc = "send" /\ rows[i].status = "pending"
      /\ rows' = [rows EXCEPT ![i].status = "failed"]
      /\ balanced' = balanced \ AccountsOf(After(i, RowsWith("sent")))
      /\ UNCHANGED <<camp, cohort, events, limit>>
      /\ camp[i[1]].status = "active"
  BY DEF Fail, Ripe, Balances
<1>2. i \in Row /\ rows \in [Row -> RowRecord] /\ rows' \in [Row -> RowRecord]
      /\ IsFiniteSet(events) /\ balanced \subseteq Account /\ limit \in [Account -> Nat \ {0}]
  BY <1>1, ItemsAre DEF TypeOK, TickOK, SendPcs, TablesOK, RowsOK, DeskOK
<1>3. \A k \in Row : rows[k].sent # NoTime <=> rows[k].status = "sent"
  BY DEF TypeOK, TablesOK, RowsOK
<1> HIDE DEF i
<1>4. \A k \in Row : /\ k # i => rows'[k] = rows[k]
                     /\ rows'[k].sent = rows[k].sent
  BY <1>1, <1>2 DEF RowRecord
<1>5. rows'[i].status = "failed"
  BY <1>1, <1>2 DEF RowRecord
<1>6. SUFFICES ASSUME NEW a \in balanced'
               PROVE  GoodPlan(a, camp', cohort', rows', limit'[a], events')
  BY DEF PlansNext
<1>7. a \in balanced /\ a \in Account /\ limit[a] \in Nat /\ limit'[a] = limit[a]
      /\ \A j \in RowsWith("sent") : SameLead(j, i) /\ j[3] > i[3] => rows[j].acct # a
  BY <1>1, <1>2, <1>6 DEF AccountsOf, After, SameLead
<1>8. GoodPlan(a, camp, cohort, rows, limit[a], events)
  BY <1>7 DEF Plans
<1>9. \A k \in Row : k \in Pending(camp', rows', a) <=> k \in Pending(camp, rows, a) /\ k # i
  BY <1>1, <1>4, <1>5 DEF Pending
<1>10. Keeps(a, camp, cohort, rows, events, camp', cohort', rows', events')
  BY <1>1, <1>4, <1>9 DEF Keeps, Pending
<1>11. AfterSent(a, camp', rows')
  <2>1. SUFFICES ASSUME NEW k \in Foremost(Pending(camp', rows', a)), SentBefore(k, rows') # {}
                 PROVE  rows'[k].at >= rows'[Sibling(k, Max(SentBefore(k, rows')))].sent
                                         + Delay[k[3]] * DaySlots
    BY DEF AfterSent
  <2>2. k \in Row /\ k \in Pending(camp', rows', a)
        /\ \A j \in Pending(camp', rows', a) : SameLead(j, k) => j[3] >= k[3]
    BY DEF Foremost, Pending, SameLead
  <2>3. k \in Pending(camp, rows, a) /\ k # i /\ rows'[k].at = rows[k].at
        /\ rows[k].acct = a /\ rows[k].status = "pending"
    BY <1>4, <1>9, <2>2 DEF Pending
  <2>4. \A s \in 1 .. (k[3] - 1) : Sibling(k, s) \in Row /\ SameLead(Sibling(k, s), k)
                                   /\ Sibling(k, s)[3] = s
    BY <2>2, SiblingIs
  <2>5. SentBefore(k, rows') = SentBefore(k, rows)
    BY <1>4, <2>4 DEF SentBefore
  <2> DEFINE m == Max(SentBefore(k, rows))
             x == Sibling(k, m)
  <2>6. m \in SentBefore(k, rows) /\ x \in Row /\ rows[x].sent \in Nat
        /\ (\A s \in SentBefore(k, rows) : m >= s)
    <3>1. Tables(camp, cohort, rows)
      BY TablesAre DEF TypeOK, TablesOK
    <3> QED BY <2>1, <2>2, <2>5, <3>1, SentBeforeIs
  <2>7. rows'[x].sent = rows[x].sent
    BY <1>4, <2>6
  <2> HIDE DEF m
  <2>8. SUFFICES rows[k].at >= rows[x].sent + Delay[k[3]] * DaySlots
    BY <2>3, <2>5, <2>7 DEF m
  <2>9. CASE ~(SameLead(i, k) /\ i \in Pending(camp, rows, a) /\ i[3] < k[3])
    <3>1. \A j \in Pending(camp, rows, a) : SameLead(j, k) => j[3] >= k[3]
      <4>1. ASSUME NEW j \in Pending(camp, rows, a), SameLead(j, k) PROVE j[3] >= k[3]
        <5>1. j \in Row /\ j[3] \in Nat /\ k[3] \in Nat
          BY <2>2, IdsAreNumbers DEF Pending
        <5>2. CASE j = i
          BY <2>9, <4>1, <5>1, <5>2
        <5>3. CASE j # i
          BY <1>9, <2>2, <4>1, <5>1, <5>3
        <5> QED BY <5>2, <5>3
      <4> QED BY <4>1
    <3>2. k \in Foremost(Pending(camp, rows, a))
      BY <2>3, <3>1 DEF Foremost, SameLead
    <3> QED BY <1>8, <2>1, <2>5, <3>2 DEF GoodPlan, AfterSent, m
  <2>10. CASE SameLead(i, k) /\ i \in Pending(camp, rows, a) /\ i[3] < k[3]
    <3>1. /\ k[3] \in Nat /\ i[3] \in Nat /\ i[3] \in 1 .. Steps /\ k[3] \in 1 .. Steps
          /\ Delay[k[3]] \in Nat /\ Delay[i[3]] \in Nat
      BY <1>2, <2>2, IdsAreNumbers
    <3>2. rows[k].at \in Nat /\ rows[i].at \in Nat
      BY <1>2, <2>2 DEF RowRecord
    <3>3. rows[k].at >= rows[i].at + Delay[k[3]] * DaySlots
      <4>1. /\ In(PlanOf(a, camp, rows)) = Pending(camp, rows, a)
            /\ \A j \in Pending(camp, rows, a) : PlanOf(a, camp, rows)[j] = rows[j].at
        BY <1>2, PlanOfIs
      <4>2. Delayed(PlanOf(a, camp, rows))
        BY <1>8 DEF GoodPlan
      <4> QED BY <2>3, <2>10, <4>1, <4>2 DEF Delayed
    <3>4. \A s \in 1 .. (k[3] - 1) : rows[Sibling(k, s)].sent # NoTime => s < i[3]
      <4>1. SUFFICES ASSUME NEW s \in 1 .. (k[3] - 1), rows[Sibling(k, s)].sent # NoTime
                     PROVE  s < i[3]
        OBVIOUS
      <4>2. Sibling(k, s) \in Row /\ SameLead(Sibling(k, s), k) /\ Sibling(k, s)[3] = s
            /\ rows[Sibling(k, s)].status = "sent" /\ s \in Nat
        BY <1>3, <2>4, <3>1, <4>1
      <4>3. rows[Sibling(k, s)].acct = a
        BY <2>2, <2>3, <4>2 DEF OneAccount
      <4>4. ~(s > i[3])
        BY <1>7, <2>10, <4>2, <4>3 DEF RowsWith, SameLead
      <4>5. s # i[3]
        <5>1. SUFFICES ASSUME s = i[3] PROVE FALSE
          OBVIOUS
        <5>2. i = <<i[1], i[2], i[3]>>
          BY <1>2, IdsAreNumbers
        <5>3. Sibling(k, s) = i
          BY <2>10, <5>1, <5>2 DEF Sibling, SameLead
        <5> QED BY <1>1, <4>2, <5>3
      <4> QED BY <3>1, <4>2, <4>4, <4>5
    <3>5. SentBefore(i, rows) = SentBefore(k, rows)
      <4>1. \A s \in 1 .. (i[3] - 1) : Sibling(i, s) = Sibling(k, s)
        BY <2>10 DEF Sibling, SameLead
      <4>2. \A s \in 1 .. (k[3] - 1) : s < i[3] => s \in 1 .. (i[3] - 1)
        BY <3>1
      <4>3. \A s \in 1 .. (i[3] - 1) : s \in 1 .. (k[3] - 1)
        BY <2>10, <3>1
      <4> QED BY <3>4, <4>1, <4>2, <4>3 DEF SentBefore
    <3>6. i \in Foremost(Pending(camp, rows, a))
      <4>1. ASSUME NEW j \in Pending(camp, rows, a), SameLead(j, i) PROVE j[3] >= i[3]
        <5>1. CASE j = i
          BY <3>1, <5>1
        <5>2. CASE j # i
          <6>1. j \in Pending(camp', rows', a) /\ j \in Row
            BY <1>9, <4>1, <5>2 DEF Pending
          <6>2. j[3] >= k[3] /\ j[3] \in Nat
            BY <2>2, <2>10, <4>1, <6>1, IdsAreNumbers DEF SameLead
          <6> QED BY <2>10, <3>1, <6>2
        <5> QED BY <5>1, <5>2
      <4> QED BY <2>10, <4>1 DEF Foremost, SameLead
    <3>7. rows[i].at >= rows[Sibling(i, m)].sent + Delay[i[3]] * DaySlots
      BY <1>8, <2>1, <2>5, <3>5, <3>6 DEF GoodPlan, AfterSent, m
    <3>8. Sibling(i, m) = x
      BY <2>10 DEF Sibling, SameLead
    <3>9. Delay[i[3]] * DaySlots \in Nat /\ Delay[k[3]] * DaySlots \in Nat
      BY <3>1, DaySlotsAssumption
    <3>10. rows[i].at >= rows[x].sent
      BY <2>6, <3>2, <3>7, <3>8, <3>9
    <3> QED BY <2>6, <3>2, <3>3, <3>9, <3>10
  <2> QED BY <2>9, <2>10
<1> HIDE DEF GoodPlan, Keeps, AfterSent
<1> QED BY <1>2, <1>7, <1>8, <1>10, <1>11, KeptPlan

LEMMA CompletePlans ==
  ASSUME TypeOK, Plans, RowsOK(rows'), CompleteFinished
  PROVE  PlansNext
<1>1. /\ camp' = [c \in Campaign |-> IF Finished(c)
               THEN [camp[c] EXCEPT !.status = Outcome(c), !.done = now, !.told = FALSE]
               ELSE camp[c]]
      /\ UNCHANGED <<cohort, rows, events, limit, balanced>>
  BY DEF CompleteFinished
<1>2. camp \in [Campaign -> CampaignRecord] /\ \A k \in Row : k[1] \in Campaign
  BY DEF TypeOK, TablesOK, Row
<1>3. \A c \in Campaign : camp'[c].rules = camp[c].rules
  BY <1>1, <1>2 DEF CampaignRecord
<1>4. \A c \in Campaign : ~Finished(c) => camp'[c] = camp[c]
  BY <1>1
<1>5. \A k \in Row : Finished(k[1]) => rows[k].status # "pending"
  BY DEF Finished, RowsIn
<1>6. ASSUME NEW a \in balanced'
      PROVE  /\ Keeps(a, camp, cohort, rows, events, camp', cohort', rows', events')
             /\ KeepsLeads(a, camp, rows, camp', rows')
  <2>1. Pending(camp', rows', a) = Pending(camp, rows, a)
    BY <1>1, <1>2, <1>4, <1>5 DEF Pending, Open
  <2> QED BY <1>1, <1>3, <2>1, KeepsIs
<1> QED BY <1>1, <1>6, QuietPlans

LEMMA CalmPlans ==
  ASSUME TypeOK, Plans, RowsOK(rows'), Calm
  PROVE  PlansNext
<1>1. /\ \A c \in Campaign : camp'[c].status = camp[c].status /\ camp'[c].rules = camp[c].rules
      /\ UNCHANGED <<cohort, rows, events, limit, balanced>>
      /\ \A k \in Row : k[1] \in Campaign
  BY DEF Calm, Row
<1>2. ASSUME NEW a \in balanced'
      PROVE  /\ Keeps(a, camp, cohort, rows, events, camp', cohort', rows', events')
             /\ KeepsLeads(a, camp, rows, camp', rows')
  <2>1. Pending(camp', rows', a) = Pending(camp, rows, a)
    BY <1>1 DEF Pending, Open
  <2> QED BY <1>1, <2>1, KeepsIs
<1> QED BY <1>1, <1>2, QuietPlans

LEMMA PlansStep ==
  ASSUME Base, Plans, [Next]_vars
  PROVE  Plans'
<1>1. TypeOK /\ RowsOfCampaigns /\ OneAccount /\ Cases
  BY BaseStep DEF Base
<1>2. RowsOK(rows')
  BY BaseStep DEF Base, TypeOK, TablesOK, RowsOK
<1>3. PlansNext
  BY <1>1, <1>2, EnrolsPlans, RearrangesPlans, RetriesPlans, SendNowPlans, StopPlans, DeletePlans,
     ReplyPlans, DraftPlans, DeliverPlans, FailPlans, CompletePlans, CalmPlans DEF Cases
<1> QED BY <1>3 DEF Plans, PlansNext

LEMMA PlansInit == Init => Plans
<1> SUFFICES ASSUME Init, NEW a \in balanced
             PROVE  GoodPlan(a, camp, cohort, rows, limit[a], events)
  BY DEF Plans
<1>1. rows = [k \in Row |-> NoRow] /\ NoRow.status = "none"
  BY DEF Init, PlanInit, NoRow
<1>2. Pending(camp, rows, a) = {}
  BY <1>1 DEF Pending
<1>3. In(PlanOf(a, camp, rows)) = {}
  BY <1>2 DEF In, PlanOf
<1>4. Foremost(Pending(camp, rows, a)) = {}
  BY <1>2 DEF Foremost
<1> QED BY <1>2, <1>3, <1>4 DEF GoodPlan, FitsBeside, Spaced, Windowed, Delayed, AfterSent, AfterStart

LEMMA PlansHold == Spec => [](Base /\ Plans)
<1>1. Base /\ Plans /\ [Next]_vars => Base' /\ Plans'
  BY BaseStep, PlansStep
<1> QED BY <1>1, BaseInit, PlansInit, PTL DEF Spec

\* What is planned of an account that is balanced.
LEMMA PlannedIs ==
  ASSUME Base, Plans, NEW a \in balanced
  PROVE  /\ rows \in [Row -> RowRecord] /\ Planned(a) \subseteq Row
         /\ Planned(a) = Pending(camp, rows, a)
         /\ In(PlanOf(a, camp, rows)) = Planned(a)
         /\ \A k \in Planned(a) : PlanOf(a, camp, rows)[k] = rows[k].at
         /\ GoodPlan(a, camp, cohort, rows, limit[a], events)
<1>1. rows \in [Row -> RowRecord]
  BY DEF Base, TypeOK, TablesOK, RowsOK
<1>2. GoodPlan(a, camp, cohort, rows, limit[a], events)
  BY DEF Plans
<1>3. Planned(a) = Pending(camp, rows, a) /\ Planned(a) \subseteq Row
  BY DEF Planned, Pending
<1> QED BY <1>1, <1>2, <1>3, PlanOfIs

\* No day holds more than the account may send.
LEMMA PlanFits ==
  ASSUME Base, Plans
  PROVE  PlanFitsLimit
<1>1. SUFFICES ASSUME NEW a \in balanced, NEW k \in Planned(a)
               PROVE  LET plan == [j \in Row |-> IF j \in Planned(a) THEN rows[j].at ELSE NoTime]
                      IN  UsedOn(a, UTCDay(rows[k].at), plan) <= limit[a]
  BY DEF PlanFitsLimit
<1> DEFINE plan == [j \in Row |-> IF j \in Planned(a) THEN rows[j].at ELSE NoTime]
<1>2. plan = PlanOf(a, camp, rows)
  BY PlannedIs DEF PlanOf
<1>3. FitsBeside(events, PlanOf(a, camp, rows), a, limit[a])
  BY PlannedIs DEF GoodPlan
<1>4. k \in In(plan) /\ plan[k] = rows[k].at
  BY <1>2, PlannedIs
<1> HIDE DEF plan
<1>5. UsedOn(a, UTCDay(rows[k].at), plan) <= limit[a]
  BY <1>2, <1>3, <1>4 DEF FitsBeside, UsedOn
<1> QED BY <1>5 DEF plan

\* Two mails stand apart by the gap of either campaign.
LEMMA PlanIsSpaced ==
  ASSUME Base, Plans
  PROVE  PlanKeepsGaps
<1>1. SUFFICES ASSUME NEW a \in balanced, NEW j \in Planned(a), NEW k \in Planned(a),
                      j # k, rows[j].at <= rows[k].at
               PROVE  rows[k].at - rows[j].at
                        >= Max({camp[j[1]].rules.gap, camp[k[1]].rules.gap})
  BY DEF PlanKeepsGaps
<1> DEFINE g == camp[j[1]].rules.gap
           h == camp[k[1]].rules.gap
<1>2. j \in Row /\ k \in Row /\ rows[j].at \in Nat /\ rows[k].at \in Nat
  BY PlannedIs DEF RowRecord
<1>3. g \in Int /\ h \in Int
  BY <1>2 DEF Base, TypeOK, TablesOK, CampaignRecord, RuleSet, Row
<1>4. rows[k].at >= rows[j].at + g /\ rows[k].at >= rows[j].at + h
  <2>1. Spaced(PlanOf(a, camp, rows), camp)
    BY PlannedIs DEF GoodPlan
  <2> QED BY <1>1, <2>1, PlannedIs DEF Spaced
<1> HIDE DEF g, h
<1>5. Max({g, h}) \in Int /\ (Max({g, h}) = g \/ Max({g, h}) = h)
  BY <1>3, MaxOfTwo
<1>6. rows[k].at - rows[j].at >= Max({g, h})
  BY <1>2, <1>3, <1>4, <1>5
<1> QED BY <1>6 DEF g, h

\* A planned time is one the sender accepts.
LEMMA PlanIsWindowed ==
  ASSUME Base, Plans
  PROVE  PlanIsSendable
<1>1. ASSUME NEW a \in balanced
      PROVE  Windowed(PlanOf(a, camp, rows), camp)
  BY PlannedIs DEF GoodPlan
<1> QED BY <1>1, PlannedIs DEF Windowed, PlanIsSendable

\* Follow-ups wait for what was planned, or left, before them.
LEMMA PlanIsDelayed ==
  ASSUME Base, Plans
  PROVE  PlanKeepsDelays
<1>1. SUFFICES ASSUME NEW a \in balanced, NEW k \in Planned(a)
               PROVE  LET With(st) == {s \in 1 .. (k[3] - 1) : rows[Sibling(k, s)].status = st}
                          Mail(s)  == rows[Sibling(k, s)]
                      IN IF With("pending") # {}
                           THEN rows[k].at >= Mail(Max(With("pending"))).at + Delay[k[3]] * DaySlots
                           ELSE With("sent") # {}
                             => rows[k].at >= Mail(Max(With("sent"))).sent + Delay[k[3]] * DaySlots
  BY DEF PlanKeepsDelays
<1> DEFINE With(st) == {s \in 1 .. (k[3] - 1) : rows[Sibling(k, s)].status = st}
<1>2. /\ k \in Row /\ k \in Pending(camp, rows, a)
      /\ \A s \in 1 .. (k[3] - 1) : Sibling(k, s) \in Row /\ SameLead(Sibling(k, s), k)
                                    /\ Sibling(k, s)[3] = s
  BY PlannedIs, SiblingIs
<1>3. /\ rows[k].status = "pending" /\ rows[k].acct = a /\ Open(camp, k[1])
      /\ \A j \in Row : rows[j].sent # NoTime <=> rows[j].status = "sent"
      /\ OneAccount
  BY <1>2 DEF Base, TypeOK, TablesOK, RowsOK, Pending
<1>4. ASSUME NEW s \in With("pending") PROVE Sibling(k, s) \in Planned(a)
  <2>1. Sibling(k, s) \in Row /\ SameLead(Sibling(k, s), k) /\ rows[Sibling(k, s)].status = "pending"
    BY <1>2
  <2>2. rows[Sibling(k, s)].acct = a
    BY <1>2, <1>3, <2>1 DEF OneAccount
  <2> QED BY <1>3, <2>1, <2>2, PlannedIs DEF Pending, SameLead
<1>5. With("pending") \subseteq Int /\ IsFiniteSet(With("pending")) /\ k[3] \in Nat
      /\ With("pending") \subseteq 1 .. (k[3] - 1)
  <2>1. k[3] \in Nat /\ 1 \in Int /\ k[3] - 1 \in Int
    BY <1>2, IdsAreNumbers
  <2>2. IsFiniteSet(1 .. (k[3] - 1))
    BY <2>1, FS_Interval
  <2> QED BY <2>1, <2>2, FS_Subset
<1>6. CASE With("pending") # {}
  <2> DEFINE m == Max(With("pending"))
  <2>1. m \in With("pending")
    <3> HIDE DEF With
    <3> QED BY <1>5, <1>6, MaxIs
  <2> HIDE DEF m
  <2>2. Sibling(k, m) \in Planned(a) /\ SameLead(Sibling(k, m), k) /\ Sibling(k, m)[3] < k[3]
    BY <1>2, <1>4, <1>5, <2>1
  <2>3. Delayed(PlanOf(a, camp, rows))
    BY PlannedIs DEF GoodPlan
  <2>4. rows[k].at >= rows[Sibling(k, m)].at + Delay[k[3]] * DaySlots
    BY <1>1, <2>2, <2>3, PlannedIs DEF Delayed
  <2> QED BY <1>6, <2>4 DEF m
<1>7. CASE With("pending") = {}
  <2>1. With("sent") = SentBefore(k, rows)
    BY <1>2, <1>3 DEF SentBefore
  <2>2. k \in Foremost(Pending(camp, rows, a))
    <3>1. ASSUME NEW j \in Pending(camp, rows, a), SameLead(j, k), j[3] < k[3] PROVE FALSE
      <4>1. j \in Row /\ rows[j].status = "pending"
        BY DEF Pending
      <4>2. j = <<j[1], j[2], j[3]>> /\ j[3] \in Nat \ {0}
        BY <4>1, IdsAreNumbers
      <4>3. Sibling(k, j[3]) = j
        BY <3>1, <4>2 DEF Sibling, SameLead
      <4>4. j[3] \in 1 .. (k[3] - 1)
        BY <1>5, <3>1, <4>2
      <4> QED BY <1>7, <4>1, <4>3, <4>4
    <3>2. \A j \in Pending(camp, rows, a) : j[3] \in Nat
      BY IdsAreNumbers DEF Pending
    <3> QED BY <1>2, <1>5, <3>1, <3>2 DEF Foremost, SameLead
  <2>3. AfterSent(a, camp, rows)
    BY PlannedIs DEF GoodPlan
  <2> QED BY <1>7, <2>1, <2>2, <2>3 DEF AfterSent
<1> QED BY <1>6, <1>7

\* A cohort with a date is not written to before that date.
LEMMA PlanWaits ==
  ASSUME Base, Plans
  PROVE  CohortWaits
<1>1. SUFFICES ASSUME NEW a \in balanced, NEW k \in Planned(a), k[3] = 1,
                      cohort[<<k[1], k[2]>>] \notin {NotIn, NoDate}
               PROVE  LocalDay(rows[k].at, RulesFor(k[2], camp[k[1]].rules))
                        >= cohort[<<k[1], k[2]>>]
  BY DEF CohortWaits
<1> DEFINE d == cohort[<<k[1], k[2]>>]
           r == RulesFor(k[2], camp[k[1]].rules)
<1>2. k \in Row /\ rows[k].at \in Nat
  BY PlannedIs DEF RowRecord
<1>3. Tables(camp, cohort, rows)
  BY TablesAre DEF Base, TypeOK, TablesOK
<1>4. r \in RuleSet /\ d \in Nat /\ d = CohortDate(k, cohort) /\ d # NoDate
  <2>1. d \in Nat \cup {NoDate, NotIn}
    BY <1>2, <1>3 DEF Tables, Row, Pair
  <2> QED BY <1>1, <1>2, <1>3, <2>1, RulesOfRow DEF CohortDate
<1>5. rows[k].at >= Opening(d, r)
  <2>1. AfterStart(a, camp, cohort, rows)
    BY PlannedIs DEF GoodPlan
  <2> QED BY <1>1, <1>4, <2>1, PlannedIs DEF AfterStart
<1> HIDE DEF d, r
<1>6. /\ Opening(d, r) \in Int /\ UTCDay(Opening(d, r) + r.zone) = d /\ r.zone \in Int
  BY <1>4, OpeningOfDay DEF LocalDay, RuleSet
<1>7. (Opening(d, r) + r.zone) \div DaySlots <= (rows[k].at + r.zone) \div DaySlots
  <2>1. Opening(d, r) + r.zone \in Int /\ rows[k].at + r.zone \in Int
        /\ Opening(d, r) + r.zone <= rows[k].at + r.zone
    BY <1>2, <1>5, <1>6
  <2> QED BY <2>1, DivMono, DaySlotsAssumption
<1>8. LocalDay(rows[k].at, r) >= d
  <2>1. (rows[k].at + r.zone) \div DaySlots \in Int
    BY <1>2, <1>6, DaySlotsAssumption
  <2> QED BY <1>4, <1>6, <1>7, <2>1 DEF LocalDay, UTCDay
<1> QED BY <1>8 DEF d, r

\* No day of a plan that is up to date holds more mails, those that left
\* included, than the limit of the account.
THEOREM PlanFitsLimitHolds == Spec => []PlanFitsLimit
<1>1. Base /\ Plans => PlanFitsLimit
  BY PlanFits
<1> QED BY <1>1, PlansHold, PTL

\* The mails of such a plan stand apart by the gap of either campaign.
THEOREM PlanKeepsGapsHolds == Spec => []PlanKeepsGaps
<1>1. Base /\ Plans => PlanKeepsGaps
  BY PlanIsSpaced
<1> QED BY <1>1, PlansHold, PTL

\* The times of such a plan are times the sender accepts, by the rules that
\* hold now, wherever these have a window.
THEOREM PlanIsSendableHolds == Spec => []PlanIsSendable
<1>1. Base /\ Plans => PlanIsSendable
  BY PlanIsWindowed
<1> QED BY <1>1, PlansHold, PTL

\* A follow-up is planned its delay after the mail before it, planned or sent.
THEOREM PlanKeepsDelaysHolds == Spec => []PlanKeepsDelays
<1>1. Base /\ Plans => PlanKeepsDelays
  BY PlanIsDelayed
<1> QED BY <1>1, PlansHold, PTL

\* A cohort with a start date is planned for that date at the earliest.
THEOREM CohortWaitsHolds == Spec => []CohortWaits
<1>1. Base /\ Plans => CohortWaits
  BY PlanWaits
<1> QED BY <1>1, PlansHold, PTL

-----------------------------------------------------------------------------
(* The daily limit. *)

LEMMA ProceedPc ==
  ASSUME TickFine(tick), NEW T, NEW pc, NEW after, Proceed(T, pc, after)
  PROVE  tick'.pc = pc \/ tick' = after
<1>1. CASE tick' = after
  BY <1>1
<1>2. CASE \E i \in T : tick' = [tick EXCEPT !.pc = pc, !.todo = T \ {i}, !.on = i.id, !.idle = {}]
  <2>1. PICK i \in T : tick' = [tick EXCEPT !.pc = pc, !.todo = T \ {i}, !.on = i.id, !.idle = {}]
    BY <1>2
  <2>2. tick' = [pc |-> pc, round |-> tick.round, todo |-> T \ {i}, on |-> i.id, idle |-> {}]
    BY <2>1 DEF TickFine
  <2> QED BY <2>2
<1> QED BY <1>1, <1>2, ProceedIs

\* While the tick announces, it does not send.
LEMMA AnnouncePc ==
  ASSUME TickFine(tick), Announce
  PROVE  tick'.pc \notin {"load"} \cup SendPcs
<1>1. [Off EXCEPT !.pc = "clear", !.round = tick.round].pc = "clear"
  BY DEF Off
<1>2. tick.pc # "off" => AfterAlerts.pc \in {"complete", "rebalance", "off"}
  BY AfterAlertsIs
<1>3. ASSUME NEW T, NextCompletion(T) PROVE tick'.pc \in {"post", "clear"}
  BY <1>1, <1>3, ProceedPc DEF NextCompletion
<1>4. ASSUME NEW T, tick.pc # "off", NextPing(T)
      PROVE  tick'.pc \in {"ping", "complete", "rebalance", "off"}
  BY <1>2, <1>4, ProceedPc DEF NextPing
<1>5. tick = [pc |-> tick.pc, round |-> tick.round, todo |-> tick.todo, on |-> tick.on,
              idle |-> tick.idle]
  BY DEF TickFine
<1> USE DEF SendPcs
<1>6. CASE ListCompletions \/ MarkAnnounced
  BY <1>3, <1>6 DEF ListCompletions, MarkAnnounced
<1>7. CASE PickIdle \/ NoteIdle
  BY <1>4, <1>7 DEF PickIdle, NoteIdle
<1>8. CASE PassOver
  BY <1>3, <1>4, <1>8 DEF PassOver
<1>9. CASE PostFails
  BY <1>2, <1>9 DEF PostFails
<1>10. CASE PostCompletion \/ ClearIdle \/ FillIdle \/ PingIdle
  BY <1>5, <1>10 DEF PostCompletion, ClearIdle, FillIdle, PingIdle, Goto
<1> QED BY <1>6, <1>7, <1>8, <1>9, <1>10 DEF Announce

LEMMA OperatorsTime ==
  ASSUME Operator
  PROVE  now' = now
<1>1. ASSUME NEW j, Read(j) PROVE now' = now
  BY <1>1 DEF Read, planVars
<1>2. ASSUME NEW c \in Campaign, NEW L, NEW d, NEW v, AddLeadsRead(c, L, d, v)
      PROVE  now' = now
  BY <1>1, <1>2 DEF AddLeadsRead
<1>3. ASSUME NEW c \in Campaign,
             \/ \E e \in Edits : UpdateRead(c, e)
             \/ StateRead(c, "draft", "active") \/ StateRead(c, "active", "paused")
             \/ StateRead(c, "paused", "active") \/ SendNowRead(c)
      PROVE  now' = now
  BY <1>1, <1>3 DEF UpdateRead, StateRead, SendNowRead
<1>4. ASSUME NEW c \in Campaign, NEW r, NEW A,
             CreateDraftCampaign(c, r, A) \/ \E L \in Batches : CreateCampaign(c, r, L, A)
      PROVE  now' = now
  BY <1>4 DEF CreateDraftCampaign, CreateCampaign
<1>5. ASSUME NEW c \in Campaign, NEW src, NEW L, NEW d, CloneCampaign(c, src, L, d)
      PROVE  now' = now
  BY <1>5 DEF CloneCampaign
<1>6. ASSUME NEW c \in Campaign,
             \/ (\E S : RetryCampaign(c, S)) \/ DeleteCampaign(c)
             \/ \E l \in Lead : StopLead(c, l) \/ ManualReply(c, l)
      PROVE  now' = now
  BY <1>6 DEF RetryCampaign, DeleteCampaign, StopLead, ManualReply
<1>7. ASSUME NEW j \in jobs,
             \/ AddLeadsCommit(j) \/ UpdateCommit(j) \/ StateCommit(j) \/ SendNowCommit(j)
             \/ InVain(j)
      PROVE  now' = now
  BY <1>7 DEF AddLeadsCommit, UpdateCommit, StateCommit, SendNowCommit, InVain, planVars
<1>8. ASSUME NEW A, (\E a \in Account, n \in Limits : SetLimit(a, n)) \/ Preview(A) PROVE now' = now
  BY <1>8 DEF SetLimit, Preview
<1> QED BY <1>2, <1>3, <1>4, <1>5, <1>6, <1>7, <1>8 DEF Operator

\* Once it counted, the counts stay as they are, but for the mails it sends.
LEMMA CountsStay ==
  ASSUME TypeOK, [Next]_vars, tick'.pc \in {"load"} \cup SendPcs
  PROVE  \/ /\ tick.pc \in {"load"} \cup SendPcs /\ counts' = counts /\ now' = now
         \/ RebalanceAll
         \/ Deliver
<1>1. TickFine(tick)
  BY TickFineIs DEF TypeOK
<1> USE DEF SendPcs
<1>2. CASE TickStart \/ Die
  <2>1. Off.pc = "off" /\ [Off EXCEPT !.pc = "complete", !.round = 1].pc = "complete"
    BY DEF Off
  <2> QED BY <1>2, <2>1 DEF TickStart, Die
<1>3. CASE TickCompletes
  <2>1. tick'.pc = "list"
    BY <1>1, <1>3 DEF TickCompletes, Goto, TickFine
  <2> QED BY <2>1
<1>4. CASE Announce
  BY <1>1, <1>4, AnnouncePc
<1>5. CASE Dispatch
  BY <1>5 DEF Dispatch, LoadDue, PassBy, PutOff, Tidy, Fail, planVars
<1>6. CASE Desk
  <2>1. now' = now
    BY <1>6, OperatorsTime DEF Desk
  <2> QED BY <1>6, <2>1 DEF Desk, tickVars
<1>7. CASE DryRunCompletes
  BY <1>7 DEF DryRunCompletes, CompleteFinished
<1>8. CASE Pass
  BY <1>8 DEF Pass, tickVars
<1>9. CASE UNCHANGED vars
  BY <1>9 DEF vars, tickVars, planVars
<1> QED BY <1>2, <1>3, <1>4, <1>5, <1>6, <1>7, <1>8, <1>9 DEF Next, TickStep

\* What left is recorded, unless the record went with a campaign.
MailEvent(k) == [key |-> k, at |-> rows[k].sent, acct |-> rows[k].acct]

Recorded == \A k \in Row : rows[k].status = "sent" /\ rows[k].acct \notin dropped
                             => MailEvent(k) \in events

\* A mail leaves when it is delivered, and at no other time.
LEMMA MailsAreDelivered ==
  ASSUME TypeOK, Cases, NEW k \in Row, rows'[k].status = "sent"
  PROVE  rows[k].status = "sent" \/ (Deliver /\ k = tick.on)
<1>0. rows \in [Row -> RowRecord]
  BY DEF TypeOK, TablesOK, RowsOK
<1>1. ASSUME NEW A, NEW rs, Replans(rs, A) PROVE rs[k].status = "sent"
  BY <1>1 DEF Replans, Moves
<1>2. CASE \E c, L, A, rs, d : Enrols(c, L, A, rs, d)
  BY <1>1, <1>2 DEF Enrols, Lays
<1>3. CASE \E A, rs : Rearranges(A, rs)
  BY <1>1, <1>3 DEF Rearranges, Retimes
<1>4. CASE \E c, A, rs : Retries(c, A, rs)
  BY <1>1, <1>4 DEF Retries
<1>5. ASSUME NEW j \in jobs, SendNowCommit(j) PROVE rows[k].status = "sent"
  <2> DEFINE due == RowsIn(j.c) \cap RowsWith("pending")
  <2>1. rows' = [q \in Row |-> IF q \in due THEN [rows[q] EXCEPT !.at = now] ELSE rows[q]]
    BY <1>5 DEF SendNowCommit
  <2> HIDE DEF due
  <2> QED BY <1>0, <2>1 DEF RowRecord
<1>6. ASSUME NEW c \in Campaign, NEW l \in Lead, StopLead(c, l) PROVE rows[k].status = "sent"
  BY <1>0, <1>6 DEF StopLead, RowRecord
<1>7. ASSUME NEW c \in Campaign, DeleteCampaign(c) PROVE rows[k].status = "sent"
  BY <1>7 DEF DeleteCampaign, NoRow
<1>8. CASE Deliver \/ Fail
  <2> DEFINE i == tick.on
  <2>1. \/ Deliver /\ rows' = [rows EXCEPT ![i].status = "sent", ![i].sent = now]
        \/ rows' = [rows EXCEPT ![i].status = "failed"]
    BY <1>8 DEF Deliver, Fail
  <2> HIDE DEF i
  <2>2. rows[k].status = "sent" \/ (Deliver /\ k = i)
    BY <1>0, <2>1 DEF RowRecord
  <2> QED BY <2>2 DEF i
<1>9. CASE UNCHANGED rows
  BY <1>9
<1> QED BY <1>2, <1>3, <1>4, <1>5, <1>6, <1>7, <1>8, <1>9
        DEF Cases, ManualReply, CreateDraftCampaign, CompleteFinished, Calm

\* Events stay, but for those whose account is put on record as dropped.
LEMMA EventsStay ==
  ASSUME [Next]_vars
  PROVE  dropped \subseteq dropped' /\ \A e \in events : e.acct \notin dropped' => e \in events'
<1>1. CASE Desk
  BY <1>1 DEF Desk
<1>2. CASE TickStart \/ TickCompletes \/ DryRunCompletes \/ Die \/ Pass \/ UNCHANGED vars
  BY <1>2 DEF TickStart, TickCompletes, DryRunCompletes, CompleteFinished, Die, Pass, vars,
     KeepStore, KeepAlerts, planVars
<1>3. CASE Announce
  BY <1>3 DEF Announce, ListCompletions, PostCompletion, PassOver, PostFails, MarkAnnounced,
     ClearIdle, FillIdle, PickIdle, PingIdle, NoteIdle, KeepStore, planVars
<1>4. CASE Dispatch
  <2>1. dropped' = dropped
    BY <1>4 DEF Dispatch, RebalanceAll, LoadDue, PassBy, PutOff, Deliver, Tidy, Fail, KeepAlerts
  <2>2. events \subseteq events'
    BY <1>4 DEF Dispatch, RebalanceAll, LoadDue, PassBy, PutOff, Deliver, Tidy, Fail, planVars
  <2> QED BY <2>1, <2>2
<1> QED BY <1>1, <1>2, <1>3, <1>4 DEF Next, TickStep

LEMMA RecordedStep ==
  ASSUME Base, Recorded, [Next]_vars
  PROVE  Recorded'
<1>1. TypeOK /\ Cases /\ RowsKeep /\ rows \in [Row -> RowRecord]
  BY BaseStep DEF Base, TypeOK, TablesOK, RowsOK
<1>2. SUFFICES ASSUME NEW k \in Row, rows'[k].status = "sent", rows'[k].acct \notin dropped'
               PROVE  [key |-> k, at |-> rows'[k].sent, acct |-> rows'[k].acct] \in events'
  BY DEF Recorded, MailEvent
<1>3. CASE rows[k].status = "sent"
  <2>1. rows'[k].sent = rows[k].sent /\ rows'[k].acct = rows[k].acct
    BY <1>1, <1>3 DEF RowsKeep
  <2>2. MailEvent(k) \in events
    BY <1>2, <1>3, <2>1, EventsStay DEF Recorded
  <2>3. MailEvent(k) \in events'
    BY <1>2, <2>1, <2>2, EventsStay DEF MailEvent
  <2> QED BY <2>1, <2>3 DEF MailEvent
<1>4. CASE Deliver /\ k = tick.on
  <2>1. /\ rows' = [rows EXCEPT ![k].status = "sent", ![k].sent = now]
        /\ events' = events \cup {[key |-> k, at |-> now, acct |-> rows[k].acct]}
    BY <1>4 DEF Deliver
  <2>2. rows'[k].sent = now /\ rows'[k].acct = rows[k].acct
    BY <1>1, <2>1 DEF RowRecord
  <2> QED BY <2>1, <2>2
<1> QED BY <1>1, <1>2, <1>3, <1>4, MailsAreDelivered

\* The mails account a sent on the operator's day n.
SentOn(a, n) == {k \in RowsWith("sent") : rows[k].acct = a /\ Today(rows[k].sent) = n}

LEMMA SentOnFinite ==
  ASSUME NEW a, NEW n
  PROVE  IsFiniteSet(SentOn(a, n)) /\ Cardinality(SentOn(a, n)) \in Nat
<1>1. SentOn(a, n) \subseteq Row
  BY DEF SentOn, RowsWith
<1> QED BY <1>1, RowsFinite, FS_Subset, FS_CardinalityType

\* The tick counts no fewer mails than were sent.
LEMMA CountIsEnough ==
  ASSUME Base, Recorded, NEW a \in Account \ dropped
  PROVE  Cardinality(SentOn(a, Today(now))) <= Counted(a)
<1> DEFINE S == SentOn(a, Today(now))
           T == {e \in events : e.acct = a /\ Today(e.at) = Today(now)}
           f == [k \in S |-> MailEvent(k)]
<1>1. IsFiniteSet(T)
  BY FS_Subset DEF Base, TypeOK, TablesOK
<1>2. \A k \in S : MailEvent(k) \in T /\ MailEvent(k).key = k
  BY DEF SentOn, RowsWith, Recorded, MailEvent
<1> HIDE DEF S, T
<1>3. f \in [S -> T] /\ \A j, k \in S : f[j] = f[k] => j = k
  BY <1>2
<1>4. f \in Injection(S, T)
  BY <1>3 DEF Injection, IsInjective
<1>5. Cardinality(S) <= Cardinality(T)
  BY <1>1, <1>4, FS_Injection
<1> QED BY <1>5 DEF S, T, Counted

\* What was sent of a day, the count has.
CountsCover ==
  tick.pc \in {"load"} \cup SendPcs
    => \A a \in Account \ dropped : Cardinality(SentOn(a, Today(now))) <= counts[a]

LEMMA CountsCoverStep ==
  ASSUME Base, Recorded, CountsCover, [Next]_vars
  PROVE  CountsCover'
<1>1. /\ TypeOK /\ Cases /\ RowsKeep /\ rows \in [Row -> RowRecord]
      /\ dropped \subseteq dropped' /\ counts \in [Account -> Nat]
      /\ \A k \in Row : rows[k].sent # NoTime <=> rows[k].status = "sent"
      /\ \A k \in Row : rows'[k].sent # NoTime <=> rows'[k].status = "sent"
  BY BaseStep, EventsStay DEF Base, TypeOK, TablesOK, RowsOK, TickOK
<1>2. SUFFICES ASSUME tick'.pc \in {"load"} \cup SendPcs, NEW a \in Account \ dropped'
               PROVE  Cardinality(SentOn(a, Today(now))') <= counts'[a]
  BY DEF CountsCover
<1> DEFINE S == SentOn(a, Today(now))
           N == SentOn(a, Today(now))'
<1>3. S = {k \in Row : rows[k].status = "sent" /\ rows[k].acct = a /\ Today(rows[k].sent) = Today(now)}
      /\ N = {k \in Row : rows'[k].status = "sent" /\ rows'[k].acct = a
                          /\ Today(rows'[k].sent) = Today(now')}
  BY DEF SentOn, RowsWith, Today
<1>4. IsFiniteSet(S) /\ Cardinality(S) \in Nat
  BY SentOnFinite
<1> HIDE DEF S, N
<1>5. ASSUME ~Deliver, now' = now PROVE N \subseteq S
  BY <1>1, <1>3, <1>5, MailsAreDelivered DEF RowsKeep
<1>6. ASSUME ~Deliver, now' = now PROVE Cardinality(N) <= Cardinality(S) /\ Cardinality(N) \in Nat
  BY <1>4, <1>5, <1>6, FS_Subset, FS_CardinalityType
<1>7. CASE RebalanceAll
  <2>1. ~Deliver /\ now' = now /\ counts'[a] = Counted(a)
    BY <1>2, <1>7 DEF RebalanceAll, Deliver
  <2>2. Cardinality(S) <= Counted(a)
    BY <1>1, <1>2, CountIsEnough DEF S
  <2>3. Counted(a) \in Nat
    BY FS_Subset, FS_CardinalityType DEF Counted, Base, TypeOK, TablesOK
  <2> QED BY <1>4, <1>6, <2>1, <2>2, <2>3 DEF N
<1>8. CASE /\ tick.pc \in {"load"} \cup SendPcs /\ counts' = counts /\ now' = now /\ ~Deliver
  <2>1. Cardinality(S) <= counts[a] /\ counts[a] \in Nat
    BY <1>1, <1>2, <1>8 DEF CountsCover, S
  <2> QED BY <1>4, <1>6, <1>8, <2>1 DEF N
<1>9. CASE Deliver
  <2> DEFINE i == tick.on
             b == rows[i].acct
  <2>1. /\ tick.pc = "send" /\ counts' = [counts EXCEPT ![b] = @ + 1] /\ now' = now
        /\ rows' = [rows EXCEPT ![i].status = "sent", ![i].sent = now]
        /\ rows[i].status = "pending"
    BY <1>9 DEF Deliver, Ripe
  <2>2. i \in Row /\ b \in Account
    BY <2>1, ItemsAre DEF Base, TypeOK, TickOK, SendPcs, TablesOK, RowsOK
  <2> HIDE DEF i
  <2>3. Cardinality(S) <= counts[a] /\ counts[a] \in Nat
    BY <1>1, <1>2, <2>1 DEF CountsCover, S, SendPcs
  <2>4. rows'[i].acct = b /\ \A k \in Row : k # i => rows'[k] = rows[k]
    BY <1>1, <2>1, <2>2 DEF RowRecord
  <2>5. CASE a = b
    <3>1. N \subseteq S \cup {i}
      BY <1>3, <2>1, <2>4
    <3>2. IsFiniteSet(S \cup {i}) /\ Cardinality(S \cup {i}) <= Cardinality(S) + 1
          /\ Cardinality(S \cup {i}) \in Nat
      <4>1. IsFiniteSet(S \cup {i})
            /\ (Cardinality(S \cup {i}) = Cardinality(S)
                 \/ Cardinality(S \cup {i}) = Cardinality(S) + 1)
        BY <1>4, FS_AddElement
      <4> QED BY <1>4, <4>1
    <3>3. Cardinality(N) <= Cardinality(S \cup {i}) /\ Cardinality(N) \in Nat
      BY <3>1, <3>2, FS_Subset, FS_CardinalityType
    <3>4. counts'[a] = counts[a] + 1
      BY <1>1, <2>1, <2>2, <2>5
    <3>5. Cardinality(N) <= counts'[a]
      BY <1>4, <2>3, <3>2, <3>3, <3>4
    <3> QED BY <3>5 DEF N
  <2>6. CASE a # b
    <3>1. N \subseteq S
      BY <1>3, <2>1, <2>4, <2>6
    <3>2. Cardinality(N) <= Cardinality(S) /\ Cardinality(N) \in Nat
      BY <1>4, <3>1, FS_Subset, FS_CardinalityType
    <3>3. counts'[a] = counts[a]
      BY <1>1, <1>2, <2>1, <2>6
    <3>4. Cardinality(N) <= counts'[a]
      BY <1>4, <2>3, <3>2, <3>3
    <3> QED BY <3>4 DEF N
  <2> QED BY <2>5, <2>6
<1> QED BY <1>1, <1>2, <1>7, <1>8, <1>9, CountsStay

\* Over several ticks, retries, campaigns and late sends, no account sends
\* more mails on one of the operator's days than its limit was when the tick
\* began, unless a deleted campaign took the count along.
THEOREM DailyCapHolds == Spec => DailyCap
<1> DEFINE Inv == Base /\ Recorded /\ CountsCover
<1>1. Init => Inv
  <2>1. Init => Recorded /\ CountsCover
    BY DEF Init, PlanInit, Recorded, CountsCover, NoRow, Off, SendPcs
  <2> QED BY <2>1, BaseInit
<1>2. Inv /\ [Next]_vars => Inv'
  BY BaseStep, RecordedStep, CountsCoverStep
<1>3. ASSUME Inv, NEW a \in Account \ dropped, Deliver, a = rows[tick.on].acct
      PROVE  Cardinality({k \in RowsWith("sent") : rows[k].acct = a
                                                 /\ Today(rows[k].sent) = Today(now)}) < caps[a]
  <2>1. tick.pc = "send" /\ counts[a] < caps[a]
    <3>1. counts[a] \in Nat /\ caps[a] \in Nat
      BY <1>3 DEF Base, TypeOK, TickOK
    <3> QED BY <1>3, <3>1 DEF Deliver, Capped
  <2>2. Cardinality(SentOn(a, Today(now))) <= counts[a]
    BY <1>3, <2>1 DEF CountsCover, SendPcs
  <2>3. Cardinality(SentOn(a, Today(now))) \in Nat /\ counts[a] \in Nat /\ caps[a] \in Nat
    BY <1>3, SentOnFinite DEF Base, TypeOK, TickOK
  <2> QED BY <2>1, <2>2, <2>3 DEF SentOn
<1>4. Inv /\ [Next]_vars =>
        [\A a \in Account \ dropped :
           Deliver /\ a = rows[tick.on].acct
             => Cardinality({k \in RowsWith("sent") : rows[k].acct = a
                                                     /\ Today(rows[k].sent) = Today(now)}) < caps[a]]_vars
  BY <1>3
<1> HIDE DEF Inv
<1> QED BY <1>1, <1>2, <1>4, PTL DEF Spec, DailyCap

-----------------------------------------------------------------------------
(* The operator's channel: completions. *)

\* What a command does to the record of a campaign's completion: nothing, or
\* it wipes it out.
LEMMA OperatorsRecord ==
  ASSUME TypeOK, Operator, NEW c \in Campaign
  PROVE  \/ camp'[c].told = camp[c].told /\ camp'[c].done = camp[c].done
         \/ ~camp'[c].told /\ camp'[c].done = NoTime
<1> DEFINE Goal == \/ camp'[c].told = camp[c].told /\ camp'[c].done = camp[c].done
                   \/ ~camp'[c].told /\ camp'[c].done = NoTime
<1>0. camp \in [Campaign -> CampaignRecord]
  BY DEF TypeOK, TablesOK
<1>1. ASSUME camp' = camp PROVE Goal
  BY <1>1
<1>2. ASSUME NEW b \in Campaign, NEW st, NEW r, camp' = [camp EXCEPT ![b] = CampaignRow(st, r)]
      PROVE  Goal
  BY <1>0, <1>2 DEF CampaignRow
<1>3. ASSUME NEW b \in Campaign, NEW st, camp' = [camp EXCEPT ![b].status = st] PROVE Goal
  BY <1>0, <1>3 DEF CampaignRecord
<1> HIDE DEF Goal
<1>4. ASSUME NEW j, Read(j) PROVE Goal
  BY <1>1, <1>4 DEF Read, planVars
<1>5. ASSUME NEW b \in Campaign, NEW L, NEW d, NEW v, AddLeadsRead(b, L, d, v) PROVE Goal
  BY <1>4, <1>5 DEF AddLeadsRead
<1>6. ASSUME NEW b \in Campaign,
             \/ \E e \in Edits : UpdateRead(b, e)
             \/ StateRead(b, "draft", "active") \/ StateRead(b, "active", "paused")
             \/ StateRead(b, "paused", "active") \/ SendNowRead(b)
      PROVE  Goal
  BY <1>4, <1>6 DEF UpdateRead, StateRead, SendNowRead
<1>7. ASSUME NEW b \in Campaign, NEW r, NEW A,
             CreateDraftCampaign(b, r, A) \/ \E L \in Batches : CreateCampaign(b, r, L, A)
      PROVE  Goal
  BY <1>2, <1>7 DEF CreateDraftCampaign, CreateCampaign
<1>8. ASSUME NEW b \in Campaign, NEW src, NEW L, NEW d, CloneCampaign(b, src, L, d) PROVE Goal
  <2>1. camp' = [camp EXCEPT ![b] = CampaignRow("draft", [camp[src].rules EXCEPT !.start = d])]
    BY <1>8 DEF CloneCampaign
  <2> QED BY <1>2, <2>1
<1>9. ASSUME NEW b \in Campaign, NEW S, RetryCampaign(b, S) PROVE Goal
  <2>1. \/ camp' = camp
        \/ camp' = [camp EXCEPT ![b].status = "active", ![b].done = NoTime, ![b].told = FALSE]
    BY <1>9 DEF RetryCampaign
  <2> QED BY <1>0, <1>1, <2>1 DEF CampaignRecord, Goal
<1>10. ASSUME NEW b \in Campaign,
              DeleteCampaign(b) \/ \E l \in Lead : StopLead(b, l) \/ ManualReply(b, l)
       PROVE  Goal
  BY <1>1, <1>2, <1>10 DEF DeleteCampaign, StopLead, ManualReply
<1>11. ASSUME NEW j \in jobs,
             \/ AddLeadsCommit(j) \/ UpdateCommit(j) \/ StateCommit(j) \/ SendNowCommit(j)
             \/ InVain(j)
      PROVE  Goal
  <2>1. j.c \in Campaign
    BY DEF TypeOK, DeskOK, AddJob, UpdateJob, StateJob, NowJob
  <2>2. CASE AddLeadsCommit(j)
    <3>1. camp' = camp \/ camp' = [camp EXCEPT ![j.c].status = "active"]
      BY <2>2 DEF AddLeadsCommit
    <3> QED BY <1>1, <1>3, <2>1, <3>1
  <2>3. CASE UpdateCommit(j)
    <3>1. camp' = [camp EXCEPT ![j.c].rules = Revised(@, j.edit)]
      BY <2>3 DEF UpdateCommit
    <3> QED BY <1>0, <2>1, <3>1 DEF CampaignRecord, Goal
  <2>4. CASE StateCommit(j)
    <3>1. camp' = [camp EXCEPT ![j.c].status = j.to]
      BY <2>4 DEF StateCommit
    <3> QED BY <1>3, <2>1, <3>1
  <2>5. CASE SendNowCommit(j) \/ InVain(j)
    BY <1>1, <2>5 DEF SendNowCommit, InVain, planVars
  <2> QED BY <1>11, <2>2, <2>3, <2>4, <2>5
<1>12. ASSUME NEW A, (\E a \in Account, n \in Limits : SetLimit(a, n)) \/ Preview(A) PROVE Goal
  BY <1>1, <1>12 DEF SetLimit, Preview
<1> QED BY <1>5, <1>6, <1>7, <1>8, <1>9, <1>10, <1>11, <1>12 DEF Operator, Goal

\* An alert of the present completion went out for every campaign that is
\* on record as announced, or whose turn it is; none for those still to come.
AlertsInOrder ==
  /\ \A c \in Campaign : camp[c].told => camp[c].done # NoTime
  /\ \A c \in Campaign \ slipped : camp[c].told => posts[c] > 0
  /\ tick.pc = "mark" /\ tick.on \notin slipped /\ camp[tick.on].done # NoTime => posts[tick.on] > 0
  /\ ~unnoted => \A c \in Campaign \ slipped :
       /\ posts[c] <= 1
       /\ posts[c] > 0 /\ ~camp[c].told /\ camp[c].done # NoTime => tick.pc = "mark" /\ c = tick.on
  /\ tick.pc \in AlertPcs => \A i \in tick.todo :
       /\ i.id # tick.on /\ \A j \in tick.todo : i.id = j.id => i = j
       /\ ~unnoted /\ i.id \notin slipped => posts[i.id] = 0
  /\ tick.pc = "post" /\ ~unnoted /\ tick.on \notin slipped => posts[tick.on] = 0

\* The next completion is one of those that are to come.
LEMMA NextCompletionIs ==
  ASSUME TickFine(tick), NEW T, NextCompletion(T)
  PROVE  \/ tick'.pc = "clear"
         \/ \E i \in T : tick'.pc = "post" /\ tick'.on = i.id /\ tick'.todo = T \ {i}
<1>1. [Off EXCEPT !.pc = "clear", !.round = tick.round].pc = "clear"
  BY DEF Off
<1>2. CASE \E i \in T : tick' = [tick EXCEPT !.pc = "post", !.todo = T \ {i}, !.on = i.id, !.idle = {}]
  <2>1. PICK i \in T : tick' = [tick EXCEPT !.pc = "post", !.todo = T \ {i}, !.on = i.id, !.idle = {}]
    BY <1>2
  <2>2. tick' = [pc |-> "post", round |-> tick.round, todo |-> T \ {i}, on |-> i.id, idle |-> {}]
    BY <2>1 DEF TickFine
  <2> QED BY <2>2
<1>3. CASE tick' = [Off EXCEPT !.pc = "clear", !.round = tick.round]
  BY <1>1, <1>3
<1> QED BY <1>2, <1>3, ProceedIs DEF NextCompletion

\* To go on announcing, where what is to come was not announced.
LEMMA AlertsGoOn ==
  ASSUME TickFine(tick), NEW T, NextCompletion(T),
         \A i \in T : /\ i.id \in Campaign /\ \A j \in T : i.id = j.id => i = j
                      /\ ~unnoted' /\ i.id \notin slipped' => posts'[i.id] = 0,
         \A c \in Campaign : camp'[c].told => camp'[c].done # NoTime,
         \A c \in Campaign \ slipped' : camp'[c].told => posts'[c] > 0,
         ~unnoted' => \A c \in Campaign \ slipped' :
           posts'[c] <= 1 /\ ~(posts'[c] > 0 /\ ~camp'[c].told /\ camp'[c].done # NoTime)
  PROVE  AlertsInOrder'
<1>1. CASE tick'.pc = "clear"
  BY <1>1 DEF AlertsInOrder, AlertPcs
<1>2. CASE \E i \in T : tick'.pc = "post" /\ tick'.on = i.id /\ tick'.todo = T \ {i}
  BY <1>2 DEF AlertsInOrder, AlertPcs
<1> QED BY <1>1, <1>2, NextCompletionIs

\* To leave off announcing.
LEMMA AlertsRest ==
  ASSUME AlertsInOrder, tick'.pc \notin AlertPcs, tick.pc # "mark" \/ unnoted' \/ tick' = tick,
         slipped' = slipped, unnoted \in BOOLEAN, unnoted => unnoted',
         UNCHANGED posts,
         \A c \in Campaign : camp'[c].told = camp[c].told /\ camp'[c].done = camp[c].done
  PROVE  AlertsInOrder'
BY DEF AlertsInOrder, AlertPcs

\* Commands wipe records out, and completions start over, beside the tick.
LEMMA AlertsBeside ==
  ASSUME TypeOK, TypeOK', AlertsInOrder, Desk \/ TickCompletes \/ DryRunCompletes
  PROVE  AlertsInOrder'
<1>0. /\ TickFine(tick) /\ camp \in [Campaign -> CampaignRecord] /\ now \in Nat
      /\ posts \in [Campaign -> Nat] /\ slipped \subseteq Campaign
      /\ tick.pc \in {"post", "mark"} => tick.on \in Campaign
      /\ \A i \in tick.todo : tick.pc \in AlertPcs => i.id \in Campaign
  BY TickFineIs, ItemsAre DEF TypeOK, TablesOK, AlertsOK, TickOK, AlertPcs
<1>1. ASSUME tick' = tick, unnoted' = unnoted,
             slipped \subseteq slipped',
             tick.pc = "mark" /\ camp'[tick.on].done # NoTime /\ camp'[tick.on].done # camp[tick.on].done
                => tick.on \in slipped',
             \A c \in Campaign :
               \/ camp'[c].told = camp[c].told /\ camp'[c].done = camp[c].done /\ posts'[c] = posts[c]
               \/ ~camp'[c].told /\ posts'[c] = 0
                  /\ (camp'[c].done = NoTime \/ (tick.pc = "mark" /\ c = tick.on => c \in slipped'))
      PROVE  AlertsInOrder'
  BY <1>0, <1>1 DEF AlertsInOrder, AlertPcs
<1>2. CASE Desk
  <2>1. /\ tick' = tick /\ unnoted' = unnoted /\ slipped' = slipped
        /\ \A c \in Campaign : posts'[c] = IF camp'[c].done = NoTime THEN 0 ELSE posts[c]
    BY <1>2 DEF Desk, tickVars
  <2>2. \A c \in Campaign : \/ camp'[c].told = camp[c].told /\ camp'[c].done = camp[c].done
                            \/ ~camp'[c].told /\ camp'[c].done = NoTime
    BY <1>2, OperatorsRecord DEF Desk
  <2>3. \A c \in Campaign : camp[c].told => camp[c].done # NoTime
    BY DEF AlertsInOrder
  <2>4. \A c \in Campaign : camp[c].told \in BOOLEAN
    BY <1>0 DEF CampaignRecord
  <2> QED BY <1>0, <1>1, <2>1, <2>2, <2>3, <2>4
<1>3. ASSUME CompleteFinished
      PROVE  /\ slipped \subseteq slipped' /\ unnoted' = unnoted
             /\ \A c \in Campaign :
                  \/ /\ camp'[c].told = camp[c].told /\ camp'[c].done = camp[c].done
                     /\ posts'[c] = posts[c]
                  \/ /\ ~camp'[c].told /\ posts'[c] = 0 /\ camp'[c].done # NoTime
                     /\ (tick.pc = "mark" /\ c = tick.on => c \in slipped')
  <2>1. /\ camp' = [c \in Campaign |-> IF Finished(c)
               THEN [camp[c] EXCEPT !.status = Outcome(c), !.done = now, !.told = FALSE]
               ELSE camp[c]]
        /\ posts' = [c \in Campaign |-> IF Finished(c) THEN 0 ELSE posts[c]]
        /\ slipped' = slipped \cup {c \in Campaign : Finished(c) /\ tick.pc = "mark" /\ c = tick.on}
        /\ unnoted' = unnoted
    BY <1>3 DEF CompleteFinished
  <2>2. \A c \in Campaign : Finished(c) => ~camp'[c].told /\ camp'[c].done # NoTime
    <3>1. SUFFICES ASSUME NEW c \in Campaign, Finished(c)
                   PROVE  ~camp'[c].told /\ camp'[c].done # NoTime
      OBVIOUS
    <3>2. camp'[c] = [camp[c] EXCEPT !.status = Outcome(c), !.done = now, !.told = FALSE]
      BY <2>1, <3>1
    <3>3. camp'[c].told = FALSE /\ camp'[c].done = now
      BY <1>0, <3>2 DEF CampaignRecord
    <3> QED BY <1>0, <3>3 DEF NoTime
  <2> QED BY <2>1, <2>2
<1>4. CASE DryRunCompletes
  <2>1. CompleteFinished /\ tick' = tick
    BY <1>4 DEF DryRunCompletes
  <2> QED BY <1>0, <1>1, <1>3, <2>1
<1>5. CASE TickCompletes
  <2>1. CompleteFinished /\ tick.pc = "complete" /\ tick'.pc = "list"
    BY <1>0, <1>5 DEF TickCompletes, Goto, TickFine
  <2> QED BY <1>0, <1>3, <2>1 DEF AlertsInOrder, AlertPcs
<1> QED BY <1>2, <1>4, <1>5

LEMMA AlertsInOrderStep ==
  ASSUME Base, AlertsInOrder, [Next]_vars
  PROVE  AlertsInOrder'
<1>0. /\ TypeOK /\ TypeOK' /\ TickFine(tick) /\ camp \in [Campaign -> CampaignRecord]
      /\ posts \in [Campaign -> Nat] /\ slipped \subseteq Campaign /\ unnoted \in BOOLEAN
      /\ tick.pc \in AlertPcs => tick.on \in Campaign
      /\ tick.pc \in AlertPcs => \A i \in tick.todo : i.id \in Campaign
  BY BaseStep, TickFineIs, ItemsAre DEF Base, TypeOK, TablesOK, AlertsOK, TickOK
<1>1. CASE Desk \/ TickCompletes \/ DryRunCompletes
  BY <1>0, <1>1, AlertsBeside
<1>2. ASSUME UNCHANGED <<camp, posts, slipped, tick, unnoted>> PROVE AlertsInOrder'
  BY <1>2 DEF AlertsInOrder
<1>3. ASSUME tick'.pc \notin AlertPcs, tick.pc # "mark" \/ unnoted' = TRUE,
             UNCHANGED <<camp, posts, slipped>>, unnoted => unnoted'
      PROVE  AlertsInOrder'
  BY <1>0, <1>3, AlertsRest
<1>4. tick.pc # "off" => AfterAlerts.pc \notin AlertPcs
  BY <1>0, AfterAlertsIs DEF AlertPcs
<1>5. ASSUME NEW T, tick.pc # "off", NextPing(T)
      PROVE  tick'.pc \notin AlertPcs
  <2>1. tick'.pc = "ping" \/ tick' = AfterAlerts
    BY <1>0, <1>5, ProceedPc DEF NextPing
  <2> QED BY <1>4, <1>5, <2>1 DEF AlertPcs
<1>6. CASE TickStart \/ Die
  <2>1. Off.pc \notin AlertPcs /\ [Off EXCEPT !.pc = "complete", !.round = 1].pc \notin AlertPcs
    BY DEF Off, AlertPcs
  <2>2. CASE TickStart
    BY <1>3, <2>1, <2>2 DEF TickStart, KeepAlerts, alertVars, planVars
  <2>3. CASE Die
    <3>1. tick'.pc \notin AlertPcs /\ UNCHANGED <<camp, posts, slipped>>
          /\ unnoted' = (unnoted \/ tick.pc \in {"mark", "note"})
      BY <2>1, <2>3 DEF Die, KeepStore, planVars
    <3> QED BY <1>0, <1>3, <3>1
  <2> QED BY <1>6, <2>2, <2>3
<1>7. CASE Pass \/ UNCHANGED vars
  BY <1>2, <1>7 DEF Pass, vars, tickVars, KeepAlerts, alertVars, planVars
<1>8. CASE Dispatch
  <2>1. UNCHANGED <<camp, posts, slipped, unnoted>> /\ tick.pc # "mark"
    BY <1>8 DEF Dispatch, RebalanceAll, LoadDue, PassBy, PutOff, Deliver, Tidy, Fail, KeepAlerts,
       alertVars, planVars
  <2>2. [Off EXCEPT !.pc = "complete", !.round = 3].pc = "complete" /\ Off.pc = "off"
    BY DEF Off
  <2>3. ASSUME NEW T, NextSend(T) PROVE tick'.pc \notin AlertPcs
    BY <1>0, <2>2, <2>3, ProceedPc DEF NextSend, AlertPcs
  <2>4. CASE RebalanceAll \/ Deliver
    <3>1. tick'.pc \notin AlertPcs
      BY <1>0, <2>4 DEF RebalanceAll, Deliver, Goto, TickFine, AlertPcs
    <3> QED BY <1>3, <2>1, <3>1
  <2>5. CASE LoadDue \/ PassBy \/ PutOff \/ Tidy \/ Fail
    <3>1. tick'.pc \notin AlertPcs
      BY <2>2, <2>3, <2>5 DEF LoadDue, PassBy, PutOff, Tidy, Fail, AlertPcs
    <3> QED BY <1>3, <2>1, <3>1
  <2> QED BY <1>8, <2>4, <2>5 DEF Dispatch
<1>9. CASE Announce
  <2>1. slipped' = slipped /\ unnoted' = unnoted
    BY <1>9 DEF Announce, ListCompletions, PostCompletion, PassOver, PostFails, MarkAnnounced,
       ClearIdle, FillIdle, PickIdle, PingIdle, NoteIdle, KeepStore
  <2>2. ASSUME tick'.pc \notin AlertPcs, tick.pc # "mark", UNCHANGED <<camp, posts>>
        PROVE  AlertsInOrder'
    BY <1>3, <2>1, <2>2
  <2>3. CASE ListCompletions
    <3> DEFINE T == {[id |-> c, at |-> camp[c].done, rank |-> c] : c \in Unannounced}
    <3>1. /\ tick.pc = "list" /\ NextCompletion(T) /\ camp' = camp /\ posts' = posts
      BY <2>3 DEF ListCompletions, KeepStore, planVars
    <3>2. \A i \in T : i.id \in Unannounced /\ \A j \in T : i.id = j.id => i = j
      OBVIOUS
    <3> HIDE DEF T
    <3>3. \A c \in Unannounced : c \in Campaign /\ camp[c].done # NoTime /\ ~camp[c].told
      BY DEF Unannounced
    <3>4. ~unnoted => \A c \in Campaign \ slipped :
            posts[c] <= 1 /\ ~(posts[c] > 0 /\ ~camp[c].told /\ camp[c].done # NoTime)
      BY <3>1 DEF AlertsInOrder
    <3>5. \A c \in Campaign : posts[c] \in Nat
      BY <1>0
    <3>6. \A i \in T : /\ i.id \in Campaign /\ \A j \in T : i.id = j.id => i = j
                       /\ ~unnoted /\ i.id \notin slipped => posts[i.id] = 0
      BY <3>2, <3>3, <3>4, <3>5
    <3>7. /\ \A c \in Campaign : camp[c].told => camp[c].done # NoTime
          /\ \A c \in Campaign \ slipped : camp[c].told => posts[c] > 0
      BY DEF AlertsInOrder
    <3> QED BY <1>0, <2>1, <3>1, <3>4, <3>6, <3>7, AlertsGoOn
  <2>4. CASE PostCompletion
    <3>1. /\ tick.pc = "post" /\ posts' = [posts EXCEPT ![tick.on] = @ + 1] /\ camp' = camp
          /\ tick' = [tick EXCEPT !.pc = "mark", !.idle = {a \in links[tick.on] : ~Busy(a)}]
      BY <2>4 DEF PostCompletion, KeepStore, planVars
    <3>2. tick'.pc = "mark" /\ tick'.on = tick.on /\ tick'.todo = tick.todo
      BY <1>0, <3>1 DEF TickFine
    <3>3. tick.on \in Campaign /\ \A i \in tick.todo : i.id \in Campaign /\ i.id # tick.on
      BY <1>0, <3>1 DEF AlertPcs, AlertsInOrder
    <3>4. posts'[tick.on] = posts[tick.on] + 1
          /\ \A c \in Campaign : c # tick.on => posts'[c] = posts[c]
      BY <1>0, <3>1, <3>3
    <3>5. \A c \in Campaign : posts[c] \in Nat
      BY <1>0
    <3> QED BY <2>1, <3>1, <3>2, <3>3, <3>4, <3>5 DEF AlertsInOrder, AlertPcs
  <2>5. CASE tick.pc = "post" /\ NextCompletion(tick.todo) /\ UNCHANGED <<camp, posts>>
    <3>1. \A i \in tick.todo : /\ i.id \in Campaign /\ \A j \in tick.todo : i.id = j.id => i = j
                               /\ ~unnoted /\ i.id \notin slipped => posts[i.id] = 0
      BY <1>0, <2>5 DEF AlertsInOrder, AlertPcs
    <3>2. /\ \A c \in Campaign : camp[c].told => camp[c].done # NoTime
          /\ \A c \in Campaign \ slipped : camp[c].told => posts[c] > 0
          /\ ~unnoted => \A c \in Campaign \ slipped :
               posts[c] <= 1 /\ ~(posts[c] > 0 /\ ~camp[c].told /\ camp[c].done # NoTime)
      BY <2>5 DEF AlertsInOrder
    <3> QED BY <1>0, <2>1, <2>5, <3>1, <3>2, AlertsGoOn
  <2>6. CASE PassOver
    <3>1. CASE tick.pc = "post" /\ NextCompletion(tick.todo)
      BY <2>5, <2>6, <3>1 DEF PassOver, KeepStore, planVars
    <3>2. CASE tick.pc = "ping" /\ NextPing(tick.todo)
      BY <1>5, <2>2, <2>6, <3>2 DEF PassOver, KeepStore, planVars
    <3> QED BY <2>6, <3>1, <3>2 DEF PassOver
  <2>7. CASE PostFails
    BY <1>4, <2>2, <2>7 DEF PostFails, KeepStore, planVars
  <2>8. CASE MarkAnnounced
    <3>1. /\ tick.pc = "mark" /\ NextCompletion(tick.todo) /\ posts' = posts
          /\ camp' = [camp EXCEPT ![tick.on].told = @ \/ camp[tick.on].done # NoTime]
      BY <2>8 DEF MarkAnnounced
    <3>2. tick.on \in Campaign
      BY <1>0, <3>1 DEF AlertPcs
    <3>3. /\ \A c \in Campaign : c # tick.on => camp'[c] = camp[c]
          /\ camp'[tick.on].done = camp[tick.on].done
          /\ camp'[tick.on].told = (camp[tick.on].told \/ camp[tick.on].done # NoTime)
      BY <1>0, <3>1, <3>2 DEF CampaignRecord
    <3>4. \A i \in tick.todo : /\ i.id \in Campaign /\ \A j \in tick.todo : i.id = j.id => i = j
                               /\ ~unnoted /\ i.id \notin slipped => posts[i.id] = 0
      BY <1>0, <3>1 DEF AlertsInOrder, AlertPcs
    <3>5. \A c \in Campaign : camp'[c].told => camp'[c].done # NoTime
      BY <3>3 DEF AlertsInOrder
    <3>6. \A c \in Campaign \ slipped : camp'[c].told => posts[c] > 0
      BY <3>1, <3>3 DEF AlertsInOrder
    <3>7. ~unnoted => \A c \in Campaign \ slipped :
            posts[c] <= 1 /\ ~(posts[c] > 0 /\ ~camp'[c].told /\ camp'[c].done # NoTime)
      BY <3>1, <3>3 DEF AlertsInOrder
    <3> QED BY <1>0, <2>1, <3>1, <3>4, <3>5, <3>6, <3>7, AlertsGoOn
  <2>9. CASE ClearIdle \/ FillIdle \/ PingIdle
    <3>1. tick'.pc \notin AlertPcs /\ tick.pc # "mark"
      BY <1>0, <2>9 DEF ClearIdle, FillIdle, PingIdle, Goto, TickFine, AlertPcs
    <3> QED BY <2>2, <2>9, <3>1 DEF ClearIdle, FillIdle, PingIdle, KeepStore, planVars
  <2>10. CASE PickIdle \/ NoteIdle
    BY <1>5, <2>2, <2>10 DEF PickIdle, NoteIdle, KeepStore, planVars
  <2> QED BY <1>9, <2>3, <2>4, <2>6, <2>7, <2>8, <2>9, <2>10 DEF Announce
<1> QED BY <1>1, <1>6, <1>7, <1>8, <1>9 DEF Next, TickStep

\* A completion on record as announced was announced, and no completion is
\* announced twice, unless a tick died before it could put that on record:
\* whatever commands, dry runs and crashes come between.
THEOREM AnnouncedOnceHolds == Spec => []AnnouncedOnce
<1>1. Init => AlertsInOrder
  BY DEF Init, PlanInit, CampaignRow, AlertsInOrder, Off, AlertPcs
<1>2. Base /\ AlertsInOrder /\ [Next]_vars => AlertsInOrder'
  BY AlertsInOrderStep
<1>3. AlertsInOrder => AnnouncedOnce
  BY DEF AlertsInOrder, AnnouncedOnce
<1> QED BY <1>1, <1>2, <1>3, BaseHolds, PTL DEF Spec

-----------------------------------------------------------------------------
(* The operator's channel: idle accounts. *)

DueNow(a) == /\ idle[a].since
             /\ idle[a].told = NoTime \/ idle[a].told <= now - DaySlots

\* An account that was called idle is on record as told of since, but for
\* the one whose turn it is; those still to come are due.
PingsInOrder ==
  /\ \A a \in Account : pings[a] <= now
  /\ ~unnoted => \A a \in Account : pings[a] # NoTime =>
       (tick.pc = "note" /\ a = tick.on) \/ idle[a].told >= pings[a]
  /\ tick.pc \in PingPcs =>
       /\ idle[tick.on].since
       /\ \A i \in tick.todo : /\ i.id # tick.on /\ DueNow(i.id)
                               /\ \A j \in tick.todo : i.id = j.id => i = j
  /\ tick.pc = "ping" => DueNow(tick.on)

LEMMA PingsBeside ==
  ASSUME PingsInOrder, UNCHANGED <<tick, idle, pings, now, unnoted>>
  PROVE  PingsInOrder'
BY DEF PingsInOrder, DueNow

LEMMA PingsRest ==
  ASSUME TypeOK, PingsInOrder, tick'.pc \notin PingPcs, now' \in Nat, now <= now',
         ~unnoted' => ~unnoted /\ tick.pc # "note",
         \A a \in Account : \/ idle'[a].told = idle[a].told /\ pings'[a] = pings[a]
                            \/ idle'[a].told = now' /\ pings'[a] = pings[a]
                            \/ pings'[a] = NoTime
  PROVE  PingsInOrder'
<1>1. /\ now \in Nat /\ \A a \in Account : pings[a] \in Time /\ idle[a].told \in Time
  BY DEF TypeOK, TablesOK, AlertsOK
<1>2. \A a \in Account : pings'[a] <= now'
  BY <1>1 DEF PingsInOrder, Time, NoTime
<1>3. ~unnoted' => \A a \in Account : pings'[a] # NoTime => idle'[a].told >= pings'[a]
  BY <1>1, <1>2 DEF PingsInOrder, Time, NoTime
<1> QED BY <1>2, <1>3 DEF PingsInOrder, PingPcs

\* On to the next account that is due.
LEMMA PingsGoOn ==
  ASSUME TickFine(tick), tick.pc # "off", NEW T, NextPing(T), now' = now,
         \A i \in T : /\ \A j \in T : i.id = j.id => i = j
                      /\ idle'[i.id].since
                      /\ idle'[i.id].told = NoTime \/ idle'[i.id].told <= now - DaySlots,
         \A a \in Account : pings'[a] <= now,
         ~unnoted' => \A a \in Account : pings'[a] # NoTime => idle'[a].told >= pings'[a]
  PROVE  PingsInOrder'
<1>1. CASE tick' = AfterAlerts
  <2>1. tick'.pc \notin PingPcs
    BY <1>1, AfterAlertsIs DEF PingPcs
  <2> QED BY <2>1 DEF PingsInOrder, PingPcs
<1>2. CASE \E i \in T : tick' = [tick EXCEPT !.pc = "ping", !.todo = T \ {i}, !.on = i.id, !.idle = {}]
  <2>1. PICK i \in T : tick' = [tick EXCEPT !.pc = "ping", !.todo = T \ {i}, !.on = i.id, !.idle = {}]
    BY <1>2
  <2>2. tick' = [pc |-> "ping", round |-> tick.round, todo |-> T \ {i}, on |-> i.id, idle |-> {}]
    BY <2>1 DEF TickFine
  <2>3. tick'.pc = "ping" /\ tick'.on = i.id /\ tick'.todo = T \ {i}
    BY <2>2
  <2> QED BY <2>3 DEF PingsInOrder, PingPcs, DueNow
<1> QED BY <1>1, <1>2, ProceedIs DEF NextPing

LEMMA PingsInOrderStep ==
  ASSUME Base, PingsInOrder, [Next]_vars
  PROVE  PingsInOrder'
<1>0. /\ TypeOK /\ TickFine(tick) /\ now \in Nat
      /\ idle \in [Account -> [since : BOOLEAN, told : Time]]
      /\ pings \in [Account -> Time]
      /\ tick.pc \in PingPcs => tick.on \in Account
      /\ tick.pc \in PingPcs => \A i \in tick.todo : i.id \in Account
  BY TickFineIs, ItemsAre DEF Base, TypeOK, TablesOK, AlertsOK, TickOK
<1>1. CASE Desk \/ DryRunCompletes \/ UNCHANGED vars
  <2>1. CASE Desk
    BY <2>1, OperatorsTime, PingsBeside DEF Desk, tickVars
  <2>2. CASE DryRunCompletes
    BY <2>2, PingsBeside DEF DryRunCompletes, CompleteFinished
  <2>3. CASE UNCHANGED vars
    BY <2>3, PingsBeside DEF vars, tickVars, alertVars, planVars
  <2> QED BY <1>1, <2>1, <2>2, <2>3
<1>2. ASSUME tick'.pc \notin PingPcs, tick.pc # "note", unnoted' = unnoted, now' = now,
             UNCHANGED <<idle, pings>>
      PROVE  PingsInOrder'
  BY <1>0, <1>2, PingsRest
<1>3. tick.pc # "off" => AfterAlerts.pc \notin PingPcs
  BY <1>0, AfterAlertsIs DEF PingPcs
<1>4. ASSUME NEW T, NextCompletion(T) PROVE tick'.pc \notin PingPcs
  BY <1>0, <1>4, NextCompletionIs DEF PingPcs
<1>5. CASE TickStart \/ TickCompletes
  <2>1. CASE TickStart
    <3>1. tick'.pc \notin PingPcs
      BY <2>1 DEF TickStart, Off, PingPcs
    <3> QED BY <1>2, <2>1, <3>1 DEF TickStart, KeepAlerts, alertVars, planVars
  <2>2. CASE TickCompletes
    <3>1. tick'.pc \notin PingPcs
      BY <1>0, <2>2 DEF TickCompletes, Goto, TickFine, PingPcs
    <3> QED BY <1>2, <2>2, <3>1 DEF TickCompletes, CompleteFinished
  <2> QED BY <1>5, <2>1, <2>2
<1>6. CASE Die
  <2>1. /\ tick' = Off /\ UNCHANGED <<now, idle, pings>>
        /\ unnoted' = (unnoted \/ tick.pc \in {"mark", "note"})
    BY <1>6 DEF Die, KeepStore, planVars
  <2>2. tick'.pc \notin PingPcs
    BY <2>1 DEF Off, PingPcs
  <2>3. ~unnoted' => ~unnoted /\ tick.pc # "note"
    BY <2>1
  <2>4. now' \in Nat /\ now <= now'
    BY <1>0, <2>1
  <2>5. \A a \in Account : idle'[a].told = idle[a].told /\ pings'[a] = pings[a]
    BY <2>1
  <2> QED BY <1>0, <2>2, <2>3, <2>4, <2>5, PingsRest
<1>7. CASE Pass
  <2>1. /\ tick.pc = "off" /\ tick' = tick /\ UNCHANGED <<idle, pings, unnoted>>
        /\ \E d \in Strides : now' = now + d
    BY <1>7 DEF Pass, tickVars, KeepAlerts, alertVars
  <2>2. now' \in Nat /\ now <= now'
    BY <1>0, <2>1, TickAssumption
  <2> QED BY <1>0, <2>1, <2>2, PingsRest DEF PingPcs
<1>8. CASE Dispatch
  <2>1. UNCHANGED <<now, idle, pings, unnoted>> /\ tick.pc # "note"
    BY <1>8 DEF Dispatch, RebalanceAll, LoadDue, PassBy, PutOff, Deliver, Tidy, Fail, KeepAlerts,
       alertVars, planVars
  <2>2. [Off EXCEPT !.pc = "complete", !.round = 3].pc = "complete" /\ Off.pc = "off"
    BY DEF Off
  <2>3. ASSUME NEW T, NextSend(T) PROVE tick'.pc \notin PingPcs
    BY <1>0, <2>2, <2>3, ProceedPc DEF NextSend, PingPcs
  <2>4. CASE RebalanceAll \/ Deliver
    <3>1. tick'.pc \notin PingPcs
      BY <1>0, <2>4 DEF RebalanceAll, Deliver, Goto, TickFine, PingPcs
    <3> QED BY <1>2, <2>1, <3>1
  <2>5. CASE LoadDue \/ PassBy \/ PutOff \/ Tidy \/ Fail
    <3>1. tick'.pc \notin PingPcs
      BY <2>2, <2>3, <2>5 DEF LoadDue, PassBy, PutOff, Tidy, Fail, PingPcs
    <3> QED BY <1>2, <2>1, <3>1
  <2> QED BY <1>8, <2>4, <2>5 DEF Dispatch
<1>9. CASE Announce
  <2>1. unnoted' = unnoted /\ now' = now
    BY <1>9 DEF Announce, ListCompletions, PostCompletion, PassOver, PostFails, MarkAnnounced,
       ClearIdle, FillIdle, PickIdle, PingIdle, NoteIdle, KeepStore, planVars
  <2>2. CASE ListCompletions \/ PostCompletion
    <3>1. tick'.pc \notin PingPcs
      <4>1. CASE ListCompletions
        BY <1>4, <4>1 DEF ListCompletions
      <4>2. CASE PostCompletion
        BY <1>0, <4>2 DEF PostCompletion, TickFine, PingPcs
      <4> QED BY <2>2, <4>1, <4>2
    <3> QED BY <1>2, <2>1, <2>2, <3>1 DEF ListCompletions, PostCompletion
  <2>3. CASE tick.pc = "ping" /\ NextPing(tick.todo) /\ UNCHANGED <<idle, pings>>
    <3>1. \A i \in tick.todo : /\ \A j \in tick.todo : i.id = j.id => i = j
                               /\ idle[i.id].since
                               /\ idle[i.id].told = NoTime \/ idle[i.id].told <= now - DaySlots
      BY <2>3 DEF PingsInOrder, PingPcs, DueNow
    <3>2. /\ \A a \in Account : pings[a] <= now
          /\ ~unnoted => \A a \in Account : pings[a] # NoTime => idle[a].told >= pings[a]
      BY <2>3 DEF PingsInOrder
    <3> QED BY <1>0, <2>1, <2>3, <3>1, <3>2, PingsGoOn
  <2>4. CASE PassOver
    <3>1. CASE tick.pc = "post" /\ NextCompletion(tick.todo)
      BY <1>2, <1>4, <2>1, <2>4, <3>1 DEF PassOver
    <3>2. CASE tick.pc = "ping" /\ NextPing(tick.todo)
      BY <2>3, <2>4, <3>2 DEF PassOver
    <3> QED BY <2>4, <3>1, <3>2 DEF PassOver
  <2>5. CASE PostFails
    BY <1>2, <1>3, <2>1, <2>5 DEF PostFails
  <2>6. CASE MarkAnnounced
    <3>1. /\ tick.pc = "mark" /\ NextCompletion(tick.todo) /\ pings' = pings
          /\ idle' = [a \in Account |-> IF a \in tick.idle
                        THEN [since |-> TRUE, told |-> now] ELSE idle[a]]
      BY <2>6 DEF MarkAnnounced
    <3>2. tick'.pc \notin PingPcs
      BY <1>4, <3>1
    <3>3. \A a \in Account : idle'[a].told = idle[a].told \/ idle'[a].told = now
      BY <3>1
    <3> QED BY <1>0, <2>1, <3>1, <3>2, <3>3, PingsRest
  <2>7. CASE ClearIdle \/ FillIdle
    <3>1. tick'.pc \notin PingPcs /\ tick.pc # "note"
      BY <1>0, <2>7 DEF ClearIdle, FillIdle, Goto, TickFine, PingPcs
    <3>2. \A a \in Account : \/ idle'[a].told = idle[a].told /\ pings'[a] = pings[a]
                             \/ pings'[a] = NoTime
      BY <1>0, <2>7 DEF ClearIdle, FillIdle
    <3> QED BY <1>0, <2>1, <3>1, <3>2, PingsRest
  <2>8. CASE PickIdle
    <3> DEFINE T == {[id |-> a, at |-> 0, rank |-> a] : a \in ToPing}
    <3>1. tick.pc = "pick" /\ NextPing(T) /\ UNCHANGED <<idle, pings>>
      BY <2>8 DEF PickIdle
    <3>2. \A i \in T : i.id \in ToPing /\ \A j \in T : i.id = j.id => i = j
      OBVIOUS
    <3> HIDE DEF T
    <3>3. \A a \in ToPing : idle[a].since /\ (idle[a].told = NoTime \/ idle[a].told <= now - DaySlots)
      BY DEF ToPing
    <3>4. /\ \A a \in Account : pings[a] <= now
          /\ ~unnoted => \A a \in Account : pings[a] # NoTime => idle[a].told >= pings[a]
      BY <3>1 DEF PingsInOrder
    <3>5. tick.pc # "off"
      BY <3>1
    <3> QED BY <1>0, <2>1, <3>1, <3>2, <3>3, <3>4, <3>5, PingsGoOn
  <2>9. CASE PingIdle
    <3>1. /\ tick.pc = "ping" /\ pings' = [pings EXCEPT ![tick.on] = now] /\ idle' = idle
          /\ tick' = [tick EXCEPT !.pc = "note"]
      BY <2>9 DEF PingIdle, Goto
    <3>2. tick'.pc = "note" /\ tick'.on = tick.on /\ tick'.todo = tick.todo
      BY <1>0, <3>1 DEF TickFine
    <3>3. \A a \in Account : pings'[a] = IF a = tick.on THEN now ELSE pings[a]
      BY <1>0, <3>1
    <3>4. \A a \in Account : pings'[a] <= now
      BY <1>0, <3>3 DEF PingsInOrder
    <3>5. ~unnoted => \A a \in Account : pings'[a] # NoTime =>
            a = tick.on \/ idle[a].told >= pings'[a]
      BY <3>1, <3>3 DEF PingsInOrder
    <3>6. /\ idle[tick.on].since
          /\ \A i \in tick.todo : /\ i.id # tick.on /\ DueNow(i.id)
                                  /\ \A j \in tick.todo : i.id = j.id => i = j
      BY <3>1 DEF PingsInOrder, PingPcs
    <3> QED BY <2>1, <3>1, <3>2, <3>4, <3>5, <3>6 DEF PingsInOrder, PingPcs, DueNow
  <2>10. CASE NoteIdle
    <3>1. /\ tick.pc = "note" /\ NextPing(tick.todo) /\ pings' = pings
          /\ idle' = [idle EXCEPT ![tick.on].told = IF idle[tick.on].since THEN now ELSE @]
      BY <2>10 DEF NoteIdle
    <3>2. tick.on \in Account /\ idle[tick.on].since /\ \A i \in tick.todo : i.id \in Account
      BY <1>0, <3>1 DEF PingsInOrder, PingPcs
    <3>3. /\ \A a \in Account : a # tick.on => idle'[a] = idle[a]
          /\ idle'[tick.on].told = now
      BY <1>0, <3>1, <3>2
    <3>4. \A i \in tick.todo : /\ \A j \in tick.todo : i.id = j.id => i = j
                               /\ idle'[i.id].since
                               /\ idle'[i.id].told = NoTime \/ idle'[i.id].told <= now - DaySlots
      BY <3>1, <3>2, <3>3 DEF PingsInOrder, PingPcs, DueNow
    <3>5. \A a \in Account : pings'[a] <= now
      BY <3>1 DEF PingsInOrder
    <3>6. ~unnoted => \A a \in Account : pings'[a] # NoTime => idle'[a].told >= pings'[a]
      BY <1>0, <3>1, <3>3, <3>5 DEF PingsInOrder
    <3>7. tick.pc # "off"
      BY <3>1
    <3> QED BY <1>0, <2>1, <3>1, <3>4, <3>5, <3>6, <3>7, PingsGoOn
  <2> QED BY <1>9, <2>2, <2>4, <2>5, <2>6, <2>7, <2>8, <2>9, <2>10 DEF Announce
<1> QED BY <1>1, <1>5, <1>6, <1>7, <1>8, <1>9 DEF Next, TickStep

\* An account without work is called idle, and called so again after a day at
\* the earliest, unless a tick died before it could note the call.
THEOREM IdleOncePerDayHolds == Spec => IdleOncePerDay
<1>1. Init => PingsInOrder
  BY DEF Init, PlanInit, PingsInOrder, Off, PingPcs, NoTime
<1>2. Base /\ PingsInOrder /\ [Next]_vars => PingsInOrder'
  BY PingsInOrderStep
<1>3. ASSUME Base, PingsInOrder, NEW a \in Account, PingIdle, a = tick.on, pings[a] # NoTime, ~unnoted
      PROVE  now >= pings[a] + DaySlots
  <2>1. tick.pc = "ping" /\ idle[a].told >= pings[a] /\ DueNow(a)
    BY <1>3 DEF PingIdle, PingsInOrder
  <2>2. now \in Nat /\ pings[a] \in Nat /\ idle[a].told \in Time /\ DaySlots \in Nat
    BY <1>3, DaySlotsAssumption DEF Base, TypeOK, TablesOK, AlertsOK, Time
  <2> QED BY <2>1, <2>2 DEF DueNow, NoTime, Time
<1>4. Base /\ PingsInOrder /\ [Next]_vars =>
        [\A a \in Account : PingIdle /\ a = tick.on /\ pings[a] # NoTime /\ ~unnoted
           => now >= pings[a] + DaySlots]_vars
  BY <1>3
<1> QED BY <1>1, <1>2, <1>4, BaseHolds, PTL DEF Spec, IdleOncePerDay


-----------------------------------------------------------------------------
(* What the running tick sees.                                              *)

\* Whichever step rebalances the rows as they stand - a deferred or a delivered
\* mail (tick.go), a pause or resume, a new limit, a preview (campaign.go,
\* account.go) - does to the rows the tick has loaded only what TickEngine's
\* Rebalanced allows for.
THEOREM LoopSeesRebalanced ==
  Spec => [][\A A \in SUBSET Account, T \in 0 .. now :
               Rebalance(A, rows) => AsTickSees(rows', A, camp', cohort', rows, T)]_vars
<1>1. ASSUME Base, Base', NEW A \in SUBSET Account, NEW T \in 0 .. now, Rebalance(A, rows)
      PROVE  AsTickSees(rows', A, camp', cohort', rows, T)
  <2>1. TablesOK /\ TablesOK' /\ OneAccount
    BY <1>1 DEF Base, TypeOK
  <2>2. /\ now \in Nat /\ RowsOK(rows) /\ camp' \in [Campaign -> CampaignRecord]
        /\ cohort' \in [Pair -> Nat \cup {NoDate, NotIn}] /\ limit' \in [Account -> Nat \ {0}]
    BY <2>1 DEF TablesOK
  <2>3. Tables(camp', cohort', rows)
    BY <2>2, TablesAre
  <2>4. UsageKnown /\ SomeLimit(limit')
    BY <2>1, <2>2, UsageIs DEF SomeLimit
  <2>5. rows \in [Row -> RowRecord] /\ Together(rows)
    BY <2>1, <2>2 DEF RowsOK, OneAccount, Together
  <2>6. T \in Nat /\ T <= now /\ A \subseteq Account
    BY <1>1, <2>2
  <2>7. AsTickSees(Rebalanced(A, camp', cohort', rows, limit'), A, camp', cohort', rows, T)
    BY <2>3, <2>4, <2>5, <2>6, TickSeesRebalanced
  <2> QED BY <1>1, <2>7 DEF Rebalance
<1>2. ASSUME Base, Base'
      PROVE  \A A \in SUBSET Account, T \in 0 .. now :
               Rebalance(A, rows) => AsTickSees(rows', A, camp', cohort', rows, T)
  BY <1>1, <1>2
<1> QED BY <1>2, BaseHolds, PTL DEF Spec
=============================================================================
