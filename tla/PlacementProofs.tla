--------------------------- MODULE PlacementProofs ---------------------------
(* What a rebalance writes (internal/scheduler.go), for all campaigns,      *)
(* leads, accounts, steps, rules and limits: it comes to its end, it moves  *)
(* pending rows of the accounts it is given and nothing else, and the times *)
(* it gives keep to the window, the limits, the gaps and the delays.        *)
(*                                                                          *)
(* The planner's loops are recursive functions.  What such a function       *)
(* returns follows from a set that shrinks with every round.                *)
EXTENDS Planner, TLAPS, FiniteSetTheorems, WellFoundedInduction

-----------------------------------------------------------------------------
(* Iteration. *)

\* What is reached from x by steps of nxt that stop in F.
Reach(x, S, F, nxt) ==
  {y \in S : \A C \in SUBSET S :
     x \in C /\ (\A z \in C \ F : nxt[z] \in C) => y \in C}

\* A final state reaches no other.
LEMMA ReachFinal ==
  ASSUME NEW S, NEW F \in SUBSET S, NEW nxt \in [S -> S], NEW x \in F
  PROVE  Reach(x, S, F, nxt) \cap F = {x}
<1>1. x \in Reach(x, S, F, nxt)
  BY DEF Reach
<1>2. ASSUME NEW y \in Reach(x, S, F, nxt) PROVE y = x
  <2> {x} \in SUBSET S
    OBVIOUS
  <2> QED BY <1>2 DEF Reach
<1> QED BY <1>1, <1>2

\* A step leaves the final states that are reached the same.
LEMMA ReachStep ==
  ASSUME NEW S, NEW F \in SUBSET S, NEW nxt \in [S -> S], NEW x \in S \ F
  PROVE  Reach(x, S, F, nxt) \cap F = Reach(nxt[x], S, F, nxt) \cap F
<1>1. ASSUME NEW y \in Reach(nxt[x], S, F, nxt) PROVE y \in Reach(x, S, F, nxt)
  <2> SUFFICES ASSUME NEW C \in SUBSET S, x \in C, \A z \in C \ F : nxt[z] \in C
               PROVE  y \in C
    BY <1>1 DEF Reach
  <2> nxt[x] \in C
    OBVIOUS
  <2> QED BY <1>1 DEF Reach
<1>2. ASSUME NEW y \in Reach(x, S, F, nxt), y \in F PROVE y \in Reach(nxt[x], S, F, nxt)
  <2> SUFFICES ASSUME NEW C \in SUBSET S, nxt[x] \in C, \A z \in C \ F : nxt[z] \in C
               PROVE  y \in C
    BY <1>2 DEF Reach
  <2> DEFINE D == C \cup {x}
  <2>1. D \in SUBSET S /\ x \in D /\ \A z \in D \ F : nxt[z] \in D
    OBVIOUS
  <2>2. y \in D
    BY <1>2, <2>1 DEF Reach
  <2> QED BY <2>2, <1>2
<1> QED BY <1>1, <1>2

\* The recursive function that iterates nxt until F, and returns v there ...
Iterates(f, S, F, nxt, v) ==
  /\ F \subseteq S /\ nxt \in [S -> S]
  /\ f = [x \in S |-> IF x \in F THEN v[x] ELSE f[nxt[x]]]

\* ... exists.
LEMMA IterationExists ==
  ASSUME NEW S, NEW F \in SUBSET S, NEW nxt \in [S -> S], NEW v
  PROVE  \E f : Iterates(f, S, F, nxt, v)
<1> DEFINE E(x) == Reach(x, S, F, nxt) \cap F
           f == [x \in S |-> v[CHOOSE y : y \in E(x)]]
<1>1. ASSUME NEW x \in S PROVE f[x] = IF x \in F THEN v[x] ELSE f[nxt[x]]
  <2>1. CASE x \in F
    <3>1. E(x) = {x}
      BY <2>1, ReachFinal
    <3> HIDE DEF E
    <3>2. (CHOOSE y : y \in E(x)) = x
      BY <3>1
    <3>3. f[x] = v[CHOOSE y : y \in E(x)]
      OBVIOUS
    <3> HIDE DEF f
    <3> QED BY <2>1, <3>2, <3>3
  <2>2. CASE x \notin F
    <3>1. E(x) = E(nxt[x])
      BY <2>2, ReachStep
    <3>2. nxt[x] \in S
      OBVIOUS
    <3> HIDE DEF E
    <3>3. f[x] = v[CHOOSE y : y \in E(x)] /\ f[nxt[x]] = v[CHOOSE y : y \in E(nxt[x])]
      BY <3>2
    <3> HIDE DEF f
    <3> QED BY <2>2, <3>1, <3>3
  <2> QED BY <2>1, <2>2
<1>2. f = [x \in S |-> IF x \in F THEN v[x] ELSE f[nxt[x]]]
  <2> HIDE DEF f
  <2>1. f = [x \in S |-> f[x]]
    BY DEF f
  <2> QED BY <1>1, <2>1
<1> QED BY <1>2 DEF Iterates

\* A step of nxt keeps within J, and takes something from the finite set m.
Descends(nxt, S, J, F, U, m) ==
  /\ J \subseteq S /\ m \in [J -> FiniteSubsetsOf(U)]
  /\ \A y \in J \ F : nxt[y] \in J /\ m[nxt[y]] \subseteq m[y] /\ m[nxt[y]] # m[y]

\* It comes to its end, and returns v of a final state in J.
LEMMA IterationEnds ==
  ASSUME NEW S, NEW F, NEW nxt, NEW v, NEW f, Iterates(f, S, F, nxt, v),
         NEW J, NEW U, NEW m, Descends(nxt, S, J, F, U, m), NEW x \in J
  PROVE  \E y \in J \cap F : f[x] = v[y]
<1>0. f = [z \in S |-> IF z \in F THEN v[z] ELSE f[nxt[z]]]
  BY DEF Iterates
<1> F \subseteq S /\ nxt \in [S -> S]
  BY DEF Iterates
<1> USE DEF Descends
<1> DEFINE D == {y \in J : f[y] = f[x]}
           T == {m[y] : y \in D}
<1>1. T \subseteq FiniteSubsetsOf(U) /\ T # {}
  OBVIOUS
<1>2. PICK t \in T : \A u \in T : <<u, t>> \notin StrictSubsetOrdering(U)
  <2> HIDE DEF T
  <2> QED BY <1>1, WFMin, FS_StrictSubsetOrderingWellFounded, Zenon
<1>3. PICK y \in D : t = m[y]
  OBVIOUS
<1>4. y \in F
  <2> SUFFICES ASSUME y \notin F PROVE FALSE
    OBVIOUS
  <2>1. nxt[y] \in D
    <3>1. f[y] = f[nxt[y]]
      BY <1>0
    <3> QED BY <3>1
  <2>2. <<m[nxt[y]], m[y]>> \in StrictSubsetOrdering(U)
    <3>1. m[nxt[y]] \in SUBSET U /\ m[y] \in SUBSET U
      BY <2>1 DEF FiniteSubsetsOf
    <3> QED BY <3>1 DEF StrictSubsetOrdering
  <2> QED BY <1>2, <1>3, <2>1, <2>2
<1>5. f[y] = v[y]
  BY <1>0, <1>4
<1> QED BY <1>4, <1>5

\* Induction over the natural numbers, for a set.
LEMMA NatSetInduction ==
  ASSUME NEW S, 0 \in S, \A n \in Nat : n \in S => n + 1 \in S
  PROVE  Nat \subseteq S
<1> SUFFICES ASSUME Nat \ S # {} PROVE FALSE
  OBVIOUS
<1> DEFINE B == Nat \ S
           T == {0 .. n : n \in B}
<1>1. T \subseteq FiniteSubsetsOf(Nat) /\ T # {}
  <2>1. ASSUME NEW n \in B PROVE 0 .. n \in FiniteSubsetsOf(Nat)
    BY FS_Interval DEF FiniteSubsetsOf
  <2> QED BY <2>1
<1>2. PICK t \in T : \A u \in T : <<u, t>> \notin StrictSubsetOrdering(Nat)
  <2> HIDE DEF T
  <2> QED BY <1>1, WFMin, FS_StrictSubsetOrderingWellFounded, Zenon
<1>3. PICK n \in B : t = 0 .. n
  OBVIOUS
<1>4. n # 0 /\ n - 1 \in B
  OBVIOUS
<1>5. <<0 .. (n - 1), 0 .. n>> \in StrictSubsetOrdering(Nat)
  <2>1. n \notin 0 .. (n - 1) /\ n \in 0 .. n
    OBVIOUS
  <2> QED BY <2>1 DEF StrictSubsetOrdering
<1> QED BY <1>2, <1>3, <1>4, <1>5

\* A finite set has an element that nothing in it precedes.
LEMMA FiniteMinimum ==
  ASSUME NEW S, IsFiniteSet(S), S # {},
         NEW R, \A x \in S : <<x, x>> \notin R,
         \A x, y, z \in S : <<x, y>> \in R /\ <<y, z>> \in R => <<x, z>> \in R
  PROVE  \E x \in S : \A y \in S : <<y, x>> \notin R
<1> DEFINE P(x) == {y \in S : <<y, x>> \in R}
           T == {P(x) : x \in S}
<1>1. T \subseteq FiniteSubsetsOf(S) /\ T # {}
  <2>1. ASSUME NEW x \in S PROVE P(x) \in FiniteSubsetsOf(S)
    BY FS_Subset DEF FiniteSubsetsOf
  <2>2. PICK x \in S : TRUE
    OBVIOUS
  <2> HIDE DEF P
  <2>3. P(x) \in T
    BY <2>2
  <2> QED BY <2>1, <2>3
<1>2. PICK t \in T : \A u \in T : <<u, t>> \notin StrictSubsetOrdering(S)
  <2> HIDE DEF T
  <2> QED BY <1>1, WFMin, FS_StrictSubsetOrderingWellFounded, Zenon
<1>3. PICK x \in S : t = P(x)
  OBVIOUS
<1>4. ASSUME NEW y \in S, <<y, x>> \in R PROVE FALSE
  <2>1. P(y) \subseteq P(x) /\ y \in P(x) /\ y \notin P(y)
    BY <1>4
  <2>2. <<P(y), P(x)>> \in StrictSubsetOrdering(S)
    BY <2>1 DEF StrictSubsetOrdering
  <2> QED BY <1>2, <1>3, <2>2
<1> QED BY <1>4

-----------------------------------------------------------------------------
(* Days and times. *)

LEMMA DivMod ==
  ASSUME NEW n \in Nat \ {0}, NEW t \in Int
  PROVE  /\ t \div n \in Int /\ t % n \in 0 .. (n - 1)
         /\ t = n * (t \div n) + (t % n)
BY SMT
LEMMA DivModUnique ==
  ASSUME NEW n \in Nat \ {0}, NEW q \in Int, NEW r \in 0 .. (n - 1)
  PROVE  (q * n + r) \div n = q /\ (q * n + r) % n = r
BY SMT
LEMMA DivMono ==
  ASSUME NEW n \in Nat \ {0}, NEW t \in Int, NEW u \in Int, t <= u
  PROVE  t \div n <= u \div n
BY SMT
LEMMA DivNext ==
  ASSUME NEW n \in Nat \ {0}, NEW t \in Int, NEW u \in Int, t + n <= u
  PROVE  t \div n + 1 <= u \div n
BY SMT
LEMMA WeekDay ==
  ASSUME NEW d \in Int, NEW w \in 0 .. 6
  PROVE \E e \in d .. (d + 6) : e % 7 = w
<1> DEFINE e == d + ((w - d) % 7)
<1>1. e \in d .. (d + 6) OBVIOUS
<1>2. e % 7 = w OBVIOUS
<1> QED BY <1>1, <1>2

LEMMA RulesForType ==
  ASSUME NEW l, NEW r \in RuleSet, l \in DOMAIN LeadZone => l \in Lead
  PROVE  RulesFor(l, r) \in RuleSet
BY PlannerAssumption DEF RulesFor, RuleSet

\* An opening is on its day, at the hour the window opens.
LEMMA OpeningOfDay ==
  ASSUME NEW r \in RuleSet, NEW d \in Int
  PROVE  /\ Opening(d, r) \in Int
         /\ LocalDay(Opening(d, r), r) = d /\ TimeOfDay(Opening(d, r), r) = r.from
<1> DaySlots \in Nat \ {0} /\ r.from \in 0 .. (DaySlots - 1) /\ r.zone \in Int
  BY DaySlotsAssumption DEF RuleSet
<1>1. Opening(d, r) \in Int /\ Opening(d, r) + r.zone = d * DaySlots + r.from
  BY DEF Opening
<1> QED BY <1>1, DivModUnique DEF LocalDay, TimeOfDay, UTCDay

\* A time is its day and its hour.
LEMMA DayAndHour ==
  ASSUME NEW r \in RuleSet, NEW t \in Int
  PROVE  /\ LocalDay(t, r) \in Int /\ TimeOfDay(t, r) \in 0 .. (DaySlots - 1)
         /\ t = DaySlots * LocalDay(t, r) + TimeOfDay(t, r) - r.zone
<1>1. DaySlots \in Nat \ {0} /\ r.zone \in Int /\ t + r.zone \in Int
  BY DaySlotsAssumption DEF RuleSet
<1>2. \A u \in Int : /\ u \div DaySlots \in Int /\ u % DaySlots \in 0 .. (DaySlots - 1)
                    /\ u = DaySlots * (u \div DaySlots) + (u % DaySlots)
  BY <1>1, DivMod
<1>3. /\ LocalDay(t, r) \in Int /\ TimeOfDay(t, r) \in 0 .. (DaySlots - 1)
      /\ t + r.zone = DaySlots * LocalDay(t, r) + TimeOfDay(t, r)
  BY <1>1, <1>2 DEF LocalDay, TimeOfDay, UTCDay
<1>4. DaySlots * LocalDay(t, r) \in Int
  BY <1>1, <1>3
<1> QED BY <1>1, <1>3, <1>4

\* There is a send day within a week.
LEMMA NextSendDayIs ==
  ASSUME NEW r \in RuleSet, NEW d \in Int
  PROVE  /\ NextSendDay(d, r) \in Int /\ NextSendDay(d, r) >= d
         /\ SendDay(NextSendDay(d, r), r)
<1> DEFINE S == {e \in d .. (d + 6) : SendDay(e, r)}
<1>1. S # {}
  <2>1. PICK w \in 0 .. 6 : w \in r.days
    <3>1. r.days \subseteq 0 .. (Week - 1) /\ r.days # {}
      BY DEF RuleSet
    <3>2. 0 .. (Week - 1) = 0 .. 6
      BY DEF Week
    <3> QED BY <3>1, <3>2
  <2>2. PICK e \in d .. (d + 6) : e % 7 = w
    BY WeekDay
  <2> QED BY <2>1, <2>2 DEF SendDay, Week
<1>2. IsFiniteSet(S)
  <2> d + 6 \in Int
    OBVIOUS
  <2> QED BY FS_Interval, FS_Subset
<1> DEFINE R == {p \in Int \X Int : p[1] < p[2]}
<1>3. \E x \in S : \A y \in S : <<y, x>> \notin R
  <2>1. \A x \in S : <<x, x>> \notin R
    OBVIOUS
  <2>2. \A x, y, z \in S : <<x, y>> \in R /\ <<y, z>> \in R => <<x, z>> \in R
    OBVIOUS
  <2> HIDE DEF S, R
  <2> QED BY <1>1, <1>2, <2>1, <2>2, FiniteMinimum
<1>4. \E x \in S : \A y \in S : x <= y
  BY <1>3
<1>5. NextSendDay(d, r) \in S
  <2> d + 7 - 1 = d + 6
    OBVIOUS
  <2> QED BY <1>4 DEF NextSendDay, Min, Week
<1> QED BY <1>5


\* A clamped time is no earlier, and one the sender accepts if there is a
\* window at all.
LEMMA ClampIs ==
  ASSUME NEW r \in RuleSet, NEW t \in Int
  PROVE  /\ Clamp(t, r) \in Int /\ Clamp(t, r) >= t
         /\ r.from < r.to => InWindow(Clamp(t, r), r)
<1> DaySlots \in Nat \ {0} /\ r.zone \in Int /\ r.from \in 0 .. (DaySlots - 1) /\ r.to \in Int
  BY DaySlotsAssumption DEF RuleSet
<1> DEFINE day  == LocalDay(t, r)
           open == IF TimeOfDay(t, r) < r.from     THEN Opening(day, r)
                   ELSE IF TimeOfDay(t, r) >= r.to THEN Opening(day + 1, r)
                   ELSE t
<1>1. /\ day \in Int /\ TimeOfDay(t, r) \in 0 .. (DaySlots - 1)
      /\ t = DaySlots * day + TimeOfDay(t, r) - r.zone
  BY DayAndHour
<1>2. /\ open \in Int /\ open >= t
      /\ r.from < r.to => TimeOfDay(open, r) \in r.from .. (r.to - 1)
  <2>1. CASE TimeOfDay(t, r) < r.from
    <3>1. open = Opening(day, r)
      BY <2>1
    <3>2. Opening(day, r) \in Int /\ TimeOfDay(Opening(day, r), r) = r.from
      BY <1>1, OpeningOfDay
    <3>3. Opening(day, r) >= t
      BY <1>1, <2>1 DEF Opening
    <3> QED BY <3>1, <3>2, <3>3
  <2>2. CASE TimeOfDay(t, r) >= r.from /\ TimeOfDay(t, r) >= r.to
    <3>1. open = Opening(day + 1, r)
      BY <1>1, <2>2
    <3>2. Opening(day + 1, r) \in Int /\ TimeOfDay(Opening(day + 1, r), r) = r.from
      BY <1>1, OpeningOfDay
    <3>3. Opening(day + 1, r) >= t
      <4>1. (day + 1) * DaySlots = DaySlots * day + DaySlots
        BY <1>1
      <4>2. DaySlots * day \in Int
        BY <1>1
      <4> QED BY <1>1, <4>1, <4>2 DEF Opening
    <3> QED BY <3>1, <3>2, <3>3
  <2>3. CASE TimeOfDay(t, r) >= r.from /\ TimeOfDay(t, r) < r.to
    BY <1>1, <2>3
  <2> QED BY <1>1, <2>1, <2>2, <2>3
<1> DEFINE first == LocalDay(open, r)
           next  == NextSendDay(first, r)
<1>3. /\ first \in Int /\ TimeOfDay(open, r) \in 0 .. (DaySlots - 1)
      /\ open = DaySlots * first + TimeOfDay(open, r) - r.zone
  <2> HIDE DEF open
  <2> QED BY <1>2, DayAndHour
<1>4. Clamp(t, r) = IF SendDay(first, r) THEN open ELSE Opening(next, r)
  BY DEF Clamp
<1> HIDE DEF open
<1>5. next \in Int /\ next >= first /\ SendDay(next, r)
  BY <1>3, NextSendDayIs
<1>6. CASE SendDay(first, r)
  BY <1>2, <1>4, <1>6 DEF InWindow
<1>7. CASE ~SendDay(first, r)
  <2> HIDE DEF first
  <2>1. next # first
    BY <1>5, <1>7
  <2> HIDE DEF next
  <2>2. Opening(next, r) \in Int /\ LocalDay(Opening(next, r), r) = next
        /\ TimeOfDay(Opening(next, r), r) = r.from
    BY <1>5, OpeningOfDay
  <2>3. Opening(next, r) >= open
    <3>1. next >= first + 1
      BY <1>3, <1>5, <2>1
    <3>2. next * DaySlots >= DaySlots * first + DaySlots
      BY <1>3, <1>5, <3>1
    <3>3. next * DaySlots \in Int /\ DaySlots * first \in Int
      BY <1>3, <1>5
    <3> QED BY <1>3, <3>2, <3>3 DEF Opening
  <2>4. Clamp(t, r) = Opening(next, r)
    BY <1>4, <1>7
  <2>5. r.from < r.to => r.from \in r.from .. (r.to - 1)
    OBVIOUS
  <2> QED BY <1>2, <1>5, <2>2, <2>3, <2>4, <2>5 DEF InWindow
<1> QED BY <1>6, <1>7

\* One delay later means so many days later, or more.
LEMMA NextTimeIs ==
  ASSUME NEW r \in RuleSet, NEW t \in Int, NEW d \in Nat
  PROVE  /\ NextTime(t, d, r) \in Int /\ NextTime(t, d, r) >= t + d * DaySlots
         /\ NextTime(t, d, r) >= t
         /\ r.from < r.to => InWindow(NextTime(t, d, r), r)
<1>1. d * DaySlots \in Nat
  BY DaySlotsAssumption
<1>2. t + d * DaySlots \in Int /\ t + d * DaySlots >= t
  BY <1>1
<1> QED BY <1>2, ClampIs DEF NextTime

\* The next day is another UTC day.
LEMMA NextDay ==
  ASSUME NEW r \in RuleSet, NEW t \in Int
  PROVE  UTCDay(NextTime(t, 1, r)) > UTCDay(t)
<1>1. NextTime(t, 1, r) \in Int /\ NextTime(t, 1, r) >= t + DaySlots
  BY NextTimeIs, DaySlotsAssumption
<1>2. t \div DaySlots \in Int /\ NextTime(t, 1, r) \div DaySlots \in Int
  BY <1>1, DaySlotsAssumption, DivMod
<1>3. t \div DaySlots + 1 <= NextTime(t, 1, r) \div DaySlots
  BY <1>1, DaySlotsAssumption, DivNext
<1> QED BY <1>2, <1>3 DEF UTCDay


\* The values of a function on a finite set are finitely many.
LEMMA FiniteRange ==
  ASSUME NEW S, IsFiniteSet(S), NEW f
  PROVE  IsFiniteSet({f[x] : x \in S})
<1> DEFINE T == {f[x] : x \in S}
           g == [x \in S |-> f[x]]
<1>1. g \in Surjection(S, T)
  BY DEF Surjection
<1> QED BY <1>1, FS_Surjection

LEMMA RowsFinite == IsFiniteSet(Row)
<1>1. IsFiniteSet(Step) /\ IsFiniteSet(Campaign \X Lead)
  BY PlannerAssumption, FS_Interval, FS_Product DEF Step
<1>2. IsFiniteSet((Campaign \X Lead) \X Step)
  BY <1>1, FS_Product
<1> DEFINE g == [p \in (Campaign \X Lead) \X Step |-> <<p[1][1], p[1][2], p[2]>>]
<1>3. Row \subseteq {g[p] : p \in (Campaign \X Lead) \X Step}
  <2> SUFFICES ASSUME NEW k \in Row PROVE k \in {g[p] : p \in (Campaign \X Lead) \X Step}
    OBVIOUS
  <2>1. k = <<k[1], k[2], k[3]>> /\ k[1] \in Campaign /\ k[2] \in Lead /\ k[3] \in Step
    BY DEF Row
  <2>2. <<<<k[1], k[2]>>, k[3]>> \in (Campaign \X Lead) \X Step
    BY <2>1
  <2>3. g[<<<<k[1], k[2]>>, k[3]>>] = k
    BY <2>1, <2>2
  <2> QED BY <2>2, <2>3
<1> HIDE DEF g
<1>4. IsFiniteSet({g[p] : p \in (Campaign \X Lead) \X Step})
  BY <1>2, FiniteRange
<1> QED BY <1>3, <1>4, FS_Subset, Zenon


\* What the loops rely on: the usage of the accounts, and limits that let
\* one mail through.
UsageKnown == IsFiniteSet(events) /\ \A e \in events : e.at \in Nat
SomeLimit(lim) == lim \in [Account -> Nat \ {0}]

\* The mails a plan has on a day are finitely many.
LEMMA UsedOnIs ==
  ASSUME UsageKnown, NEW a, NEW day, NEW plan
  PROVE  /\ IsFiniteSet({e \in events : e.acct = a /\ UTCDay(e.at) = day})
         /\ IsFiniteSet({k \in In(plan) : UTCDay(plan[k]) = day})
         /\ UsedOn(a, day, plan) \in Nat
<1>1. IsFiniteSet({e \in events : e.acct = a /\ UTCDay(e.at) = day})
  BY FS_Subset DEF UsageKnown
<1>2. IsFiniteSet({k \in In(plan) : UTCDay(plan[k]) = day})
  BY RowsFinite, FS_Subset DEF In
<1> QED BY <1>1, <1>2, FS_CardinalityType DEF UsedOn

\* allocateDailyLimitedSendAt comes to its end, on a day that is not full.
LEMMA AllocateIs ==
  ASSUME UsageKnown, NEW lim, SomeLimit(lim), NEW a \in Account, NEW plan \in [Row -> Time],
         NEW r \in RuleSet, NEW t \in Nat
  PROVE  LET u == Allocate(t, r, a, plan, lim) IN
         /\ u \in Nat /\ u >= t
         /\ UsedOn(a, UTCDay(u), plan) < lim[a]
         /\ r.from < r.to => InWindow(u, r)
<1> DEFINE F   == {u \in Nat : ~(UsedOn(a, UTCDay(u), plan) >= lim[a])}
           nxt == [u \in Nat |-> NextTime(u, 1, r)]
           v   == [u \in Nat |-> u]
           Slides(f) == f = [u \in Nat |-> IF UsedOn(a, UTCDay(u), plan) >= lim[a]
                                             THEN f[NextTime(u, 1, r)] ELSE u]
           slide == CHOOSE f : Slides(f)
           J   == {u \in Nat : u >= t /\ (r.from < r.to => InWindow(u, r))}
           U   == {UTCDay(e.at) : e \in events} \cup {UTCDay(plan[k]) : k \in In(plan)}
           m   == [u \in J |-> {d \in U : d >= UTCDay(u)}]
<1>1. F \in SUBSET Nat /\ nxt \in [Nat -> Nat]
  <2>1. ASSUME NEW u \in Nat PROVE NextTime(u, 1, r) \in Nat
    BY NextTimeIs
  <2> QED BY <2>1
<1>2. ASSUME NEW f PROVE Slides(f) <=> Iterates(f, Nat, F, nxt, v)
  <2>1. \A u \in Nat : (IF UsedOn(a, UTCDay(u), plan) >= lim[a] THEN f[NextTime(u, 1, r)] ELSE u)
                       = (IF u \in F THEN v[u] ELSE f[nxt[u]])
    OBVIOUS
  <2> QED BY <1>1, <2>1 DEF Iterates
<1>3. Slides(slide)
  <2>1. \E f : Iterates(f, Nat, F, nxt, v)
    <3> HIDE DEF F, nxt, v
    <3> QED BY <1>1, IterationExists
  <2>2. \E f : Slides(f)
    <3> HIDE DEF F, nxt, v, Slides
    <3> QED BY <1>2, <2>1
  <2> HIDE DEF Slides
  <2> QED BY <2>2
<1>4. Clamp(t, r) \in J
  BY ClampIs
<1>5. IsFiniteSet(U)
  <2>1. IsFiniteSet({UTCDay(e.at) : e \in events})
    <3> DEFINE g == [e \in events |-> UTCDay(e.at)]
    <3>1. {UTCDay(e.at) : e \in events} = {g[e] : e \in events}
      OBVIOUS
    <3> HIDE DEF g
    <3> QED BY <3>1, FiniteRange DEF UsageKnown
  <2>2. IsFiniteSet({UTCDay(plan[k]) : k \in In(plan)})
    <3> DEFINE g == [k \in In(plan) |-> UTCDay(plan[k])]
    <3>1. {UTCDay(plan[k]) : k \in In(plan)} = {g[k] : k \in In(plan)}
      OBVIOUS
    <3>2. IsFiniteSet(In(plan))
      BY RowsFinite, FS_Subset DEF In
    <3> HIDE DEF g
    <3> QED BY <3>1, <3>2, FiniteRange
  <2> QED BY <2>1, <2>2, FS_Union
<1>6. m \in [J -> FiniteSubsetsOf(U)]
  <2>1. ASSUME NEW u \in J PROVE {d \in U : d >= UTCDay(u)} \in FiniteSubsetsOf(U)
    <3> HIDE DEF U, J
    <3> QED BY <1>5, FS_Subset DEF FiniteSubsetsOf
  <2> HIDE DEF U, J
  <2> QED BY <2>1
<1>7. ASSUME NEW u \in J \ F
      PROVE  nxt[u] \in J /\ m[nxt[u]] \subseteq m[u] /\ m[nxt[u]] # m[u]
  <2>1. u \in Nat /\ nxt[u] = NextTime(u, 1, r) /\ UsedOn(a, UTCDay(u), plan) >= lim[a]
    OBVIOUS
  <2>2. nxt[u] \in Nat /\ nxt[u] >= u /\ UTCDay(nxt[u]) > UTCDay(u)
        /\ (r.from < r.to => InWindow(nxt[u], r))
    BY <2>1, NextTimeIs, NextDay
  <2>3. nxt[u] \in J
    BY <2>1, <2>2
  <2>4. UTCDay(u) \in U
    <3>1. {e \in events : e.acct = a /\ UTCDay(e.at) = UTCDay(u)} # {}
          \/ {k \in In(plan) : UTCDay(plan[k]) = UTCDay(u)} # {}
      <4> DEFINE E == {e \in events : e.acct = a /\ UTCDay(e.at) = UTCDay(u)}
                 K == {k \in In(plan) : UTCDay(plan[k]) = UTCDay(u)}
      <4> SUFFICES ASSUME E = {}, K = {} PROVE FALSE
        OBVIOUS
      <4>0. UsedOn(a, UTCDay(u), plan) = Cardinality(E) + Cardinality(K)
        BY DEF UsedOn
      <4> HIDE DEF E, K
      <4>1. UsedOn(a, UTCDay(u), plan) = 0
        BY <4>0, FS_EmptySet
      <4> QED BY <2>1, <4>1 DEF SomeLimit
    <3> QED BY <3>1
  <2>5. UTCDay(u) \in Int /\ UTCDay(nxt[u]) \in Int /\ \A d \in U : d \in Int
    <3>1. \A x \in Nat : UTCDay(x) \in Int
      BY DaySlotsAssumption, DivMod DEF UTCDay
    <3>2. \A k \in In(plan) : plan[k] \in Nat
      BY DEF In, Time
    <3> QED BY <2>1, <2>2, <3>1, <3>2 DEF UsageKnown
  <2> HIDE DEF U, J, nxt, F
  <2>6. m[nxt[u]] = {d \in U : d >= UTCDay(nxt[u])} /\ m[u] = {d \in U : d >= UTCDay(u)}
    BY <2>3
  <2>7. m[nxt[u]] \subseteq m[u]
    BY <2>2, <2>5, <2>6
  <2>8. UTCDay(u) \in m[u] /\ UTCDay(u) \notin m[nxt[u]]
    BY <2>2, <2>4, <2>5, <2>6
  <2> QED BY <2>3, <2>7, <2>8
<1>8. \E y \in J \cap F : slide[Clamp(t, r)] = v[y]
  <2>1. Iterates(slide, Nat, F, nxt, v)
    <3> HIDE DEF F, nxt, v, Slides, slide
    <3> QED BY <1>2, <1>3
  <2>2. J \subseteq Nat
    OBVIOUS
  <2>3. Descends(nxt, Nat, J, F, U, m)
    <3> HIDE DEF F, nxt, v, Slides, slide, J, U, m
    <3> QED BY <1>6, <1>7, <2>2 DEF Descends
  <2> HIDE DEF F, nxt, v, Slides, slide, J, U, m
  <2> QED BY <1>4, <2>1, <2>3, IterationEnds
<1>9. Allocate(t, r, a, plan, lim) = slide[Clamp(t, r)]
  BY DEF Allocate
<1> HIDE DEF slide
<1>10. PICK y \in J \cap F : Allocate(t, r, a, plan, lim) = y
  BY <1>8, <1>9
<1>11. UsedOn(a, UTCDay(y), plan) \in Nat /\ lim[a] \in Nat
  BY UsedOnIs DEF SomeLimit
<1>12. UsedOn(a, UTCDay(y), plan) < lim[a]
  BY <1>10, <1>11
<1> QED BY <1>10, <1>12


-----------------------------------------------------------------------------
(* When a row may go at the earliest. *)

LEMMA MaxIs ==
  ASSUME NEW S \in SUBSET Int, IsFiniteSet(S), S # {}
  PROVE  Max(S) \in S /\ \A y \in S : Max(S) >= y
<1> DEFINE R == {p \in Int \X Int : p[1] > p[2]}
<1>1. \E x \in S : \A y \in S : <<y, x>> \notin R
  <2>1. \A x \in S : <<x, x>> \notin R
    OBVIOUS
  <2>2. \A x, y, z \in S : <<x, y>> \in R /\ <<y, z>> \in R => <<x, z>> \in R
    OBVIOUS
  <2> HIDE DEF R
  <2> QED BY <2>1, <2>2, FiniteMinimum
<1>2. \E x \in S : \A y \in S : x >= y
  <2>1. PICK x \in S : \A y \in S : <<y, x>> \notin R
    BY <1>1
  <2>2. ASSUME NEW y \in S PROVE x >= y
    <3>1. <<y, x>> \in Int \X Int /\ <<y, x>> \notin R
      BY <2>1
    <3>2. ~(y > x)
      BY <3>1
    <3> QED BY <3>1, <3>2
  <2> QED BY <2>2
<1> QED BY <1>2 DEF Max

LEMMA MaxOfTwo ==
  ASSUME NEW x \in Int, NEW y \in Int, NEW S, S = {x, y}
  PROVE  /\ Max(S) \in Int /\ (Max(S) = x \/ Max(S) = y)
         /\ Max(S) >= x /\ Max(S) >= y
<1>1. IsFiniteSet(S)
  <2>1. S = {x} \cup {y}
    OBVIOUS
  <2>2. IsFiniteSet({x} \cup {y})
    BY FS_Singleton, FS_Union
  <2> QED BY <2>1, <2>2, Zenon
<1>2. S \in SUBSET Int /\ S # {} /\ x \in S /\ y \in S
  OBVIOUS
<1>3. Max(S) \in S /\ \A z \in S : Max(S) >= z
  <2> QED BY <1>1, <1>2, MaxIs
<1> QED BY <1>2, <1>3

\* No earlier than it is due, nor than either gap allows.
LEMMA ApartIs ==
  ASSUME NEW due \in Nat, NEW s \in Progress, NEW r \in RuleSet
  PROVE  /\ Apart(due, s, r) \in Nat /\ Apart(due, s, r) >= due
         /\ s.last # NoTime => /\ Apart(due, s, r) >= s.last + r.gap
                               /\ Apart(due, s, r) >= s.last + s.gap
<1> s.last \in Nat \cup {NoTime} /\ s.gap \in Nat /\ r.gap \in Nat
  BY DEF Progress, RuleSet, Time
<1>1. CASE s.last = NoTime
  BY <1>1 DEF Apart
<1>2. CASE s.last # NoTime
  <2> DEFINE S == {due, s.last + r.gap, s.last + s.gap}
  <2>1. IsFiniteSet(S)
    <3>1. S = ({due} \cup {s.last + r.gap}) \cup {s.last + s.gap}
      OBVIOUS
    <3> HIDE DEF S
    <3> QED BY <3>1, FS_Singleton, FS_Union
  <2>2. S \in SUBSET Int /\ S # {}
    BY <1>2
  <2>3. Max(S) \in S /\ \A y \in S : Max(S) >= y
    <3> HIDE DEF S
    <3> QED BY <2>1, <2>2, MaxIs
  <2>4. Apart(due, s, r) = Max(S)
    BY <1>2 DEF Apart
  <2> HIDE DEF S
  <2>5. /\ Max(S) \in Nat /\ Max(S) >= due
        /\ Max(S) >= s.last + r.gap /\ Max(S) >= s.last + s.gap
    BY <1>2, <2>3 DEF S
  <2> QED BY <1>2, <2>4, <2>5
<1> QED BY <1>1, <1>2

\* What a rebalance is given.
Tables(cs, co, rs) ==
  /\ now \in Nat /\ \A c \in Campaign : cs[c].rules \in RuleSet
  /\ co \in [Pair -> Nat \cup {NoDate, NotIn}]
  /\ \A k \in Row : rs[k].at \in Nat /\ rs[k].sent \in Time

LEMMA RulesOfRow ==
  ASSUME NEW cs, NEW co, NEW rs, Tables(cs, co, rs), NEW k \in Row
  PROVE  /\ RulesFor(k[2], cs[k[1]].rules) \in RuleSet
         /\ RulesFor(k[2], cs[k[1]].rules).gap = cs[k[1]].rules.gap
         /\ cs[k[1]].rules.gap \in Nat
<1>1. k[1] \in Campaign /\ k[2] \in Lead
  BY DEF Row
<1>2. cs[k[1]].rules \in RuleSet
  BY <1>1 DEF Tables
<1>3. cs[k[1]].rules.gap \in Nat
  BY <1>2 DEF RuleSet
<1>4. RulesFor(k[2], cs[k[1]].rules).gap = cs[k[1]].rules.gap
  BY <1>2 DEF RulesFor, RuleSet
<1> QED BY <1>1, <1>2, <1>3, <1>4, RulesForType

\* An anchor is no earlier than now, nor than the date.
LEMMA StartAnchorIs ==
  ASSUME now \in Nat, NEW r \in RuleSet, NEW d \in Nat \cup {NoDate}
  PROVE  /\ StartAnchor(now, d, r) \in Nat
         /\ d # NoDate => StartAnchor(now, d, r) >= Opening(d, r)
<1>1. Opening(d, r) \in Int
  <2>1. d \in Int
    BY DEF NoDate
  <2> QED BY <2>1, OpeningOfDay
<1> QED BY <1>1 DEF StartAnchor

LEMMA LeadAnchorIs ==
  ASSUME now \in Nat, NEW r \in RuleSet, NEW d \in Nat \cup {NoDate}
  PROVE  /\ LeadAnchor(now, d, r) \in Nat
         /\ d # NoDate => LeadAnchor(now, d, r) >= Opening(d, r)
<1>1. r.start \in Nat \cup {NoDate}
  BY DEF RuleSet
<1> DEFINE x == StartAnchor(now, r.start, r)
           y == StartAnchor(now, d, r)
<1>2. x \in Nat /\ y \in Nat /\ (d # NoDate => y >= Opening(d, r))
  BY <1>1, StartAnchorIs
<1>3. Opening(d, r) \in Int
  <2>1. d \in Int
    BY DEF NoDate
  <2> QED BY <2>1, OpeningOfDay
<1>4. LeadAnchor(now, d, r) = Max({x, y})
  BY DEF LeadAnchor
<1> HIDE DEF x, y
<1> DEFINE S == {x, y}
<1>5. S = {x, y}
  OBVIOUS
<1> HIDE DEF S
<1>6. x \in Int /\ y \in Int
  BY <1>2
<1>7. (Max(S) = x \/ Max(S) = y) /\ Max(S) >= y
  BY <1>5, <1>6, MaxOfTwo, Zenon
<1>8. LeadAnchor(now, d, r) = Max(S)
  BY <1>4, <1>5, Zenon
<1> QED BY <1>2, <1>3, <1>7, <1>8


\* A lead's own sent steps before a row, and the last of them.
LEMMA SentBeforeIs ==
  ASSUME NEW cs, NEW co, NEW rs, Tables(cs, co, rs), NEW k \in Row, SentBefore(k, rs) # {}
  PROVE  LET m == Max(SentBefore(k, rs)) IN
         /\ m \in SentBefore(k, rs) /\ \A s \in SentBefore(k, rs) : m >= s
         /\ Sibling(k, m) \in Row /\ rs[Sibling(k, m)].sent \in Nat
<1> DEFINE B == SentBefore(k, rs)
           m == Max(B)
<1>1. k[1] \in Campaign /\ k[2] \in Lead /\ k[3] \in 1 .. Steps /\ Steps \in Nat
  BY PlannerAssumption DEF Row, Step
<1>2. B \subseteq 1 .. (k[3] - 1)
  BY DEF SentBefore
<1>3. IsFiniteSet(1 .. (k[3] - 1)) /\ 1 .. (k[3] - 1) \subseteq Int
  BY <1>1, FS_Interval
<1>4. m \in B /\ \A s \in B : m >= s
  <2>1. IsFiniteSet(B) /\ B \in SUBSET Int /\ B # {}
    BY <1>2, <1>3, FS_Subset
  <2> HIDE DEF B
  <2> QED BY <2>1, MaxIs
<1>5. Sibling(k, m) \in Row
  BY <1>1, <1>2, <1>4 DEF Row, Step, Sibling
<1>6. rs[Sibling(k, m)].sent # NoTime
  BY <1>4 DEF SentBefore
<1>7. rs[Sibling(k, m)].sent \in Time
  BY <1>5 DEF Tables
<1> QED BY <1>4, <1>5, <1>6, <1>7 DEF Time

\* firstPendingAnchorForRow: after the delay when a mail left before, and no
\* earlier than the cohort's date.
LEMMA FirstAnchorIs ==
  ASSUME NEW cs, NEW co, NEW rs, Tables(cs, co, rs), NEW k \in Row
  PROVE  /\ FirstAnchor(k, cs, co, rs) \in Nat
         /\ SentBefore(k, rs) # {} =>
              FirstAnchor(k, cs, co, rs) >=
                rs[Sibling(k, Max(SentBefore(k, rs)))].sent + Delay[k[3]] * DaySlots
         /\ k[3] = 1 /\ CohortDate(k, co) # NoDate =>
              FirstAnchor(k, cs, co, rs) >=
                Opening(CohortDate(k, co), RulesFor(k[2], cs[k[1]].rules))
<1> DEFINE r     == RulesFor(k[2], cs[k[1]].rules)
           B     == SentBefore(k, rs)
           date  == CohortDate(k, co)
           E     == {Clamp(rs[k].at, r)} \cup CohortFloor(k, date, r)
           fresh == LeadAnchor(now, date, r)
           last  == rs[Sibling(k, Max(B))].sent
           dated == k[3] = 1 /\ date # NoDate
<1>1. k[1] \in Campaign /\ k[2] \in Lead /\ k[3] \in 1 .. Steps /\ Delay[k[3]] \in Nat
  BY PlannerAssumption DEF Row, Step
<1>2. r \in RuleSet /\ r.start \in Nat \cup {NoDate} /\ now \in Nat /\ rs[k].at \in Nat
  BY RulesOfRow DEF Tables, RuleSet
<1>3. date \in Nat \cup {NoDate}
  <2>1. <<k[1], k[2]>> \in Pair
    BY <1>1 DEF Pair
  <2>2. co[<<k[1], k[2]>>] \in Nat \cup {NoDate, NotIn}
    BY <2>1 DEF Tables
  <2> QED BY <2>2 DEF CohortDate
<1>4. Opening(date, r) \in Int
  <2>1. date \in Int
    BY <1>3 DEF NoDate
  <2> QED BY <1>2, <2>1, OpeningOfDay
<1>5. Max(E) \in Nat /\ (dated => Max(E) >= Opening(date, r))
  <2> DEFINE x == Clamp(rs[k].at, r)
             y == Clamp(Opening(date, r), r)
  <2>1. x \in Nat /\ y \in Int /\ y >= Opening(date, r)
    BY <1>2, <1>4, ClampIs
  <2>2. (dated => E = {x, y}) /\ (~dated => E = {x, x})
    BY DEF CohortFloor
  <2> HIDE DEF x, y, E, dated
  <2>3. /\ Max(E) \in Int /\ (Max(E) = x \/ Max(E) = y) /\ Max(E) >= x
        /\ dated => Max(E) >= y
    BY <2>1, <2>2, MaxOfTwo
  <2> QED BY <1>4, <2>1, <2>3
<1>6. fresh \in Nat /\ (date # NoDate => fresh >= Opening(date, r))
  BY <1>2, <1>3, LeadAnchorIs
<1>7. FirstAnchor(k, cs, co, rs) =
        IF B # {} THEN NextTime(last, Delay[k[3]], r)
        ELSE IF k[3] = 1 /\ (r.start # NoDate \/ date # NoDate) /\ PullBack(Max(E), fresh) THEN fresh
        ELSE Max(E)
  BY DEF FirstAnchor
<1>8. CASE B # {}
  <2>1. last \in Nat
    BY <1>8, SentBeforeIs
  <2>2. k[3] # 1
    BY <1>1, <1>8 DEF SentBefore
  <2>3. NextTime(last, Delay[k[3]], r) \in Int
        /\ NextTime(last, Delay[k[3]], r) >= last + Delay[k[3]] * DaySlots
        /\ NextTime(last, Delay[k[3]], r) >= last
    BY <1>1, <1>2, <2>1, NextTimeIs
  <2>4. FirstAnchor(k, cs, co, rs) = NextTime(last, Delay[k[3]], r)
    BY <1>7, <1>8
  <2> HIDE DEF B, last, r, date
  <2> QED BY <2>1, <2>2, <2>3, <2>4 DEF B, last, r, date
<1>9. CASE B = {}
  <2>1. FirstAnchor(k, cs, co, rs) \in {fresh, Max(E)}
    BY <1>7, <1>9
  <2> HIDE DEF fresh, E
  <2> QED BY <1>5, <1>6, <1>9, <2>1
<1> QED BY <1>8, <1>9


-----------------------------------------------------------------------------
(* Which row is next. *)

SameLead(j, k) == j[1] = k[1] /\ j[2] = k[2]

LEMMA IdsAreNumbers ==
  ASSUME NEW k \in Row
  PROVE  /\ k[1] \in Nat /\ k[2] \in Nat /\ k[3] \in Nat \ {0} /\ k[3] \in 1 .. Steps
         /\ k[1] \in Campaign /\ k[2] \in Lead /\ k = <<k[1], k[2], k[3]>>
         /\ Delay[k[3]] \in Nat
<1>1. k[1] \in Campaign /\ k[2] \in Lead /\ k[3] \in 1 .. Steps /\ k = <<k[1], k[2], k[3]>>
  BY DEF Row, Step
<1> QED BY <1>1, PlannerAssumption

\* The order of five numbers each, one after the other.
Ahead(a, b, c, d, e, v, w, x, y, z) ==
  \/ a < v
  \/ a = v /\ b < w
  \/ a = v /\ b = w /\ c < x
  \/ a = v /\ b = w /\ c = x /\ d < y
  \/ a = v /\ b = w /\ c = x /\ d = y /\ e < z

LEMMA AheadIsTotal ==
  ASSUME NEW a \in Int, NEW b \in Int, NEW c \in Int, NEW d \in Int, NEW e \in Int,
         NEW v \in Int, NEW w \in Int, NEW x \in Int, NEW y \in Int, NEW z \in Int,
         c # x \/ d # y \/ e # z
  PROVE  Ahead(a, b, c, d, e, v, w, x, y, z) \/ Ahead(v, w, x, y, z, a, b, c, d, e)
BY DEF Ahead

\* Precedes, number by number.
LEMMA PrecedesIs ==
  ASSUME NEW j, NEW k, NEW due, NEW rs
  PROVE  Precedes(k, j, due, rs) <=>
           Ahead(due[k], rs[k].at, k[1], k[2], k[3], due[j], rs[j].at, j[1], j[2], j[3])
BY Zenon DEF Precedes, Ahead

\* The sort is a strict order, so one of the due rows is the first.
LEMMA ChosenIs ==
  ASSUME NEW s \in Progress, NEW rs, \A k \in Row : rs[k].at \in Nat, In(s.due) # {}
  PROVE  Chosen(s, rs) \in In(s.due)
<1> DEFINE D == In(s.due)
           R == {p \in D \X D : Precedes(p[1], p[2], s.due, rs)}
<1>0. s.due \in [Row -> Time]
  BY DEF Progress
<1>1. IsFiniteSet(D) /\ D \subseteq Row
  BY RowsFinite, FS_Subset DEF In
<1>2. \A k \in D : /\ s.due[k] \in Int /\ rs[k].at \in Int /\ k[1] \in Int /\ k[2] \in Int
                   /\ k[3] \in Int /\ k = <<k[1], k[2], k[3]>>
  BY <1>0, <1>1, IdsAreNumbers DEF Time, NoTime
<1>3. \A x \in D : <<x, x>> \notin R
  BY <1>2 DEF Precedes
<1>4. \A x, y, z \in D : <<x, y>> \in R /\ <<y, z>> \in R => <<x, z>> \in R
  <2> SUFFICES ASSUME NEW x \in D, NEW y \in D, NEW z \in D,
                      Precedes(x, y, s.due, rs), Precedes(y, z, s.due, rs)
               PROVE  Precedes(x, z, s.due, rs)
    OBVIOUS
  <2> HIDE DEF D, R
  <2>1. /\ Ahead(s.due[x], rs[x].at, x[1], x[2], x[3], s.due[y], rs[y].at, y[1], y[2], y[3])
        /\ Ahead(s.due[y], rs[y].at, y[1], y[2], y[3], s.due[z], rs[z].at, z[1], z[2], z[3])
    BY PrecedesIs
  <2>2. Ahead(s.due[x], rs[x].at, x[1], x[2], x[3], s.due[z], rs[z].at, z[1], z[2], z[3])
    <3> DEFINE dx == s.due[x]  dy == s.due[y]  dz == s.due[z]
               ax == rs[x].at  ay == rs[y].at  az == rs[z].at
    <3>1. /\ dx \in Int /\ dy \in Int /\ dz \in Int /\ ax \in Int /\ ay \in Int /\ az \in Int
          /\ x[1] \in Int /\ x[2] \in Int /\ x[3] \in Int /\ y[1] \in Int /\ y[2] \in Int
          /\ y[3] \in Int /\ z[1] \in Int /\ z[2] \in Int /\ z[3] \in Int
      BY <1>2
    <3>2. /\ Ahead(dx, ax, x[1], x[2], x[3], dy, ay, y[1], y[2], y[3])
          /\ Ahead(dy, ay, y[1], y[2], y[3], dz, az, z[1], z[2], z[3])
      BY <2>1
    <3> HIDE DEF dx, dy, dz, ax, ay, az
    <3>3. Ahead(dx, ax, x[1], x[2], x[3], dz, az, z[1], z[2], z[3])
      BY <3>1, <3>2 DEF Ahead
    <3> QED BY <3>3 DEF dx, dz, ax, az
  <2> QED BY <2>2, PrecedesIs
<1>5. PICK x \in D : \A y \in D : <<y, x>> \notin R
  <2> HIDE DEF R
  <2> QED BY <1>1, <1>3, <1>4, FiniteMinimum
<1>6. ASSUME NEW y \in D \ {x} PROVE Precedes(x, y, s.due, rs)
  <2>1. ~Precedes(y, x, s.due, rs)
    BY <1>5
  <2>2. x[1] # y[1] \/ x[2] # y[2] \/ x[3] # y[3]
    BY <1>2
  <2> HIDE DEF D, R
  <2>3. ~Ahead(s.due[y], rs[y].at, y[1], y[2], y[3], s.due[x], rs[x].at, x[1], x[2], x[3])
    BY <2>1, PrecedesIs
  <2>4. Ahead(s.due[x], rs[x].at, x[1], x[2], x[3], s.due[y], rs[y].at, y[1], y[2], y[3])
    BY <1>2, <2>2, <2>3, AheadIsTotal
  <2> QED BY <2>4, PrecedesIs
<1>7. x \in D /\ \A y \in D \ {x} : Precedes(x, y, s.due, rs)
  BY <1>6
<1> HIDE DEF R
<1> QED BY <1>7 DEF Chosen

\* Where there are rows, one is its lead's earliest.
LEMMA ForemostExists ==
  ASSUME NEW K \in SUBSET Row, K # {}
  PROVE  Foremost(K) # {}
<1> DEFINE R == {p \in Row \X Row : SameLead(p[1], p[2]) /\ p[1][3] < p[2][3]}
<1>1. IsFiniteSet(K)
  BY RowsFinite, FS_Subset
<1>2. \A x \in K : <<x, x>> \notin R
  BY IdsAreNumbers
<1>3. \A x, y, z \in K : <<x, y>> \in R /\ <<y, z>> \in R => <<x, z>> \in R
  BY IdsAreNumbers DEF SameLead
<1>4. PICK x \in K : \A y \in K : <<y, x>> \notin R
  <2> HIDE DEF R
  <2> QED BY <1>1, <1>2, <1>3, FiniteMinimum
<1>5. ASSUME NEW y \in K, SameLead(y, x) PROVE y[3] >= x[3]
  <2>1. <<y, x>> \in Row \X Row /\ <<y, x>> \notin R
    BY <1>4
  <2>2. ~(y[3] < x[3])
    BY <1>5, <2>1
  <2> QED BY <2>2, IdsAreNumbers
<1>6. x \in Foremost(K)
  BY <1>5 DEF Foremost, SameLead
<1> QED BY <1>6

\* A planned mail counts on its day.
LEMMA UsedOnGrows ==
  ASSUME UsageKnown, NEW a, NEW day, NEW plan \in [Row -> Time], NEW k \in Row,
         plan[k] = NoTime, NEW t \in Nat
  PROVE  UsedOn(a, day, [plan EXCEPT ![k] = t]) =
           UsedOn(a, day, plan) + (IF UTCDay(t) = day THEN 1 ELSE 0)
<1> DEFINE next == [plan EXCEPT ![k] = t]
           E == {e \in events : e.acct = a /\ UTCDay(e.at) = day}
           K == {j \in In(plan) : UTCDay(plan[j]) = day}
           L == {j \in In(next) : UTCDay(next[j]) = day}
<1>1. UsedOn(a, day, plan) = Cardinality(E) + Cardinality(K)
      /\ UsedOn(a, day, next) = Cardinality(E) + Cardinality(L)
  BY DEF UsedOn
<1>2. IsFiniteSet(E) /\ IsFiniteSet(K)
  BY UsedOnIs
<1>3. k \notin K
  BY DEF In
<1>4. UTCDay(t) = day => L = K \cup {k}
  BY DEF In, NoTime
<1>5. UTCDay(t) # day => L = K
  BY DEF In, NoTime
<1> HIDE DEF E, K, L, next
<1>6. Cardinality(E) \in Nat /\ Cardinality(K) \in Nat
  BY <1>2, FS_CardinalityType
<1>7. Cardinality(K \cup {k}) = Cardinality(K) + 1
  BY <1>2, <1>3, FS_AddElement
<1>8. CASE UTCDay(t) = day
  <2>1. Cardinality(L) = Cardinality(K) + 1
    BY <1>4, <1>7, <1>8, Zenon
  <2>2. (IF UTCDay(t) = day THEN 1 ELSE 0) = 1
    BY <1>8, Zenon
  <2>3. UsedOn(a, day, next) = UsedOn(a, day, plan) + 1
    BY <1>1, <1>6, <2>1
  <2> QED BY <2>2, <2>3, Zenon DEF next
<1>9. CASE UTCDay(t) # day
  <2>1. Cardinality(L) = Cardinality(K)
    BY <1>5, <1>9, Zenon
  <2>2. (IF UTCDay(t) = day THEN 1 ELSE 0) = 0
    BY <1>9, Zenon
  <2>3. UsedOn(a, day, next) = UsedOn(a, day, plan) + 0
    BY <1>1, <1>6, <2>1
  <2> QED BY <2>2, <2>3, Zenon DEF next
<1> QED BY <1>8, <1>9


\* One round: row k is placed at t, and the lead's next row is due.
Places(s, n, k, t, a, cs, rs, lim) ==
  LET r == RulesFor(k[2], cs[k[1]].rules) IN
  /\ k \in In(s.due) /\ t \in Nat /\ t >= s.due[k]
  /\ s.last # NoTime => t >= s.last + cs[k[1]].rules.gap /\ t >= s.last + s.gap
  /\ UsedOn(a, UTCDay(t), s.done) < lim[a]
  /\ r.from < r.to => InWindow(t, r)
  /\ n \in Progress
  /\ n.done = [s.done EXCEPT ![k] = t] /\ n.last = t /\ n.gap = cs[k[1]].rules.gap
  /\ n.due = [j \in Row |-> IF j = k THEN NoTime
                            ELSE IF j \in Foremost(After(k, Pending(cs, rs, a)))
                              THEN NextTime(t, Delay[j[3]], r)
                            ELSE s.due[j]]

LEMMA PlaceNextIs ==
  ASSUME UsageKnown, NEW lim, SomeLimit(lim), NEW a \in Account,
         NEW cs, NEW co, NEW rs, Tables(cs, co, rs), NEW s \in Progress, In(s.due) # {}
  PROVE  \E k \in Row, t \in Nat : Places(s, PlaceNext(s, a, cs, rs, lim), k, t, a, cs, rs, lim)
<1> DEFINE k    == Chosen(s, rs)
           r    == RulesFor(k[2], cs[k[1]].rules)
           at   == Apart(s.due[k], s, r)
           t    == Allocate(at, r, a, s.done, lim)
           next == Foremost(After(k, Pending(cs, rs, a)))
           n    == PlaceNext(s, a, cs, rs, lim)
           due  == [j \in Row |-> IF j = k THEN NoTime
                                  ELSE IF j \in next THEN NextTime(t, Delay[j[3]], r)
                                  ELSE s.due[j]]
<1>1. s.due \in [Row -> Time] /\ s.done \in [Row -> Time]
  BY DEF Progress
<1>2. k \in In(s.due) /\ k \in Row /\ s.due[k] \in Nat
  <2>1. \A j \in Row : rs[j].at \in Nat
    BY DEF Tables
  <2>2. k \in In(s.due)
    BY <2>1, ChosenIs
  <2> HIDE DEF k
  <2> QED BY <1>1, <2>2 DEF In, Time
<1> HIDE DEF k
<1>3. r \in RuleSet /\ r.gap = cs[k[1]].rules.gap /\ cs[k[1]].rules.gap \in Nat
  BY <1>2, RulesOfRow
<1> HIDE DEF r
<1>4. /\ at \in Nat /\ at >= s.due[k]
      /\ s.last # NoTime => at >= s.last + r.gap /\ at >= s.last + s.gap
  BY <1>2, <1>3, ApartIs
<1> HIDE DEF at
<1>5. /\ t \in Nat /\ t >= at /\ UsedOn(a, UTCDay(t), s.done) < lim[a]
      /\ r.from < r.to => InWindow(t, r)
  BY <1>1, <1>3, <1>4, AllocateIs
<1> HIDE DEF t
<1>6. n = [due |-> due, done |-> [s.done EXCEPT ![k] = t], last |-> t, gap |-> r.gap]
  BY Zenon DEF PlaceNext, k, r, at, t
<1>7. due \in [Row -> Time]
  <2>1. ASSUME NEW j \in Row PROVE NextTime(t, Delay[j[3]], r) \in Nat
    BY <1>3, <1>5, IdsAreNumbers, NextTimeIs
  <2> HIDE DEF next
  <2> QED BY <1>1, <2>1 DEF Time
<1>8. [s.done EXCEPT ![k] = t] \in [Row -> Time]
  BY <1>1, <1>5 DEF Time
<1>9. n \in Progress
  <2> HIDE DEF due, n
  <2> QED BY <1>3, <1>5, <1>6, <1>7, <1>8 DEF Progress, Time
<1>10. s.last \in Time /\ s.gap \in Nat
  BY DEF Progress
<1>11. /\ t >= s.due[k]
       /\ s.last # NoTime => t >= s.last + cs[k[1]].rules.gap /\ t >= s.last + s.gap
  BY <1>2, <1>3, <1>4, <1>5, <1>10 DEF Time
<1>12. n.due = due /\ n.done = [s.done EXCEPT ![k] = t] /\ n.last = t /\ n.gap = cs[k[1]].rules.gap
  <2> HIDE DEF due, n
  <2> QED BY <1>3, <1>6
<1>13. Places(s, n, k, t, a, cs, rs, lim)
  <2>1. n.due = [j \in Row |-> IF j = k THEN NoTime
                            ELSE IF j \in Foremost(After(k, Pending(cs, rs, a)))
                              THEN NextTime(t, Delay[j[3]], RulesFor(k[2], cs[k[1]].rules))
                            ELSE s.due[j]]
    <3> HIDE DEF n
    <3> QED BY <1>12, Zenon DEF r
  <2> HIDE DEF due, n, next
  <2> QED BY <1>2, <1>5, <1>9, <1>11, <1>12, <2>1, Zenon DEF Places, r
<1> QED BY <1>2, <1>5, <1>13


-----------------------------------------------------------------------------
(* What holds round after round. *)

\* Leads are served in the order of their steps, and the earliest row that is
\* not placed is due.
Sorted(s, P) ==
  /\ In(s.done) \subseteq P /\ In(s.due) = Foremost(P \ In(s.done))
  /\ \A j \in In(s.done), k \in P : SameLead(j, k) /\ k[3] < j[3] => k \in In(s.done)

LEMMA SortedStep ==
  ASSUME NEW cs, NEW co, NEW rs, Tables(cs, co, rs), NEW a, NEW lim, NEW s \in Progress, NEW n,
         NEW k \in Row, NEW t \in Nat, Places(s, n, k, t, a, cs, rs, lim),
         Sorted(s, Pending(cs, rs, a))
  PROVE  /\ k \in Pending(cs, rs, a) /\ k \notin In(s.done)
         /\ In(n.done) = In(s.done) \cup {k}
         /\ Sorted(n, Pending(cs, rs, a))
<1> DEFINE P == Pending(cs, rs, a)
           D == In(s.done)
           A == After(k, P)
           r == RulesFor(k[2], cs[k[1]].rules)
<1>1. P \subseteq Row /\ s.done \in [Row -> Time]
  BY DEF Pending, Progress
<1>2. k \in Foremost(P \ D)
  BY DEF Sorted, Places
<1>3. k \in P /\ k \notin D /\ \A i \in P \ D : SameLead(i, k) => i[3] >= k[3]
  BY <1>2 DEF Foremost, SameLead
<1>4. In(n.done) = D \cup {k}
  BY <1>1 DEF Places, In, NoTime
<1>5. \A j \in Row : NextTime(t, Delay[j[3]], r) # NoTime
  <2>1. r \in RuleSet
    BY RulesOfRow
  <2>2. ASSUME NEW j \in Row PROVE NextTime(t, Delay[j[3]], r) \in Int /\ NextTime(t, Delay[j[3]], r) >= t
    BY <2>1, IdsAreNumbers, NextTimeIs
  <2> HIDE DEF r
  <2> QED BY <2>2 DEF NoTime
<1>6. In(n.due) = (In(s.due) \ {k}) \cup (Foremost(A) \ {k})
  <2> HIDE DEF P, A
  <2>1. n.due = [j \in Row |-> IF j = k THEN NoTime
                            ELSE IF j \in Foremost(A) THEN NextTime(t, Delay[j[3]], r)
                            ELSE s.due[j]]
    BY Zenon DEF Places, A, P
  <2>2. Foremost(A) \subseteq Row
    BY <1>1 DEF Foremost, A, After
  <2> HIDE DEF r
  <2>3. ASSUME NEW j \in Row
        PROVE  n.due[j] # NoTime <=> j # k /\ (s.due[j] # NoTime \/ j \in Foremost(A))
    BY <1>5, <2>1
  <2>4. ASSUME NEW j \in Row
        PROVE  j \in In(n.due) <=> j \in (In(s.due) \ {k}) \cup (Foremost(A) \ {k})
    BY <2>3 DEF In
  <2>5. In(n.due) \subseteq Row /\ In(s.due) \subseteq Row
    BY DEF In
  <2> QED BY <2>2, <2>4, <2>5
<1>7. ASSUME NEW j \in D, NEW i \in P, SameLead(j, i), i[3] < j[3] PROVE i \in D
  BY <1>7 DEF Sorted
<1>8. \A i \in P : SameLead(i, k) /\ i # k => (i \notin D <=> i[3] > k[3])
  <2> SUFFICES ASSUME NEW i \in P, SameLead(i, k), i # k PROVE i \notin D <=> i[3] > k[3]
    OBVIOUS
  <2>1. i[3] \in Nat /\ k[3] \in Nat /\ i[3] # k[3]
    BY <1>1, IdsAreNumbers DEF SameLead
  <2>2. i \in D => ~(k[3] < i[3])
    BY <1>3, <1>7
  <2>3. i \notin D => i[3] >= k[3]
    BY <1>3
  <2> QED BY <2>1, <2>2, <2>3
<1>9. ASSUME NEW j \in Row
      PROVE  j \in In(n.due) <=> j \in Foremost(P \ (D \cup {k}))
  <2>1. j \in In(n.due) <=> \/ j # k /\ j \in Foremost(P \ D)
                            \/ j # k /\ j \in Foremost(A)
    BY <1>6 DEF Sorted
  <2>2. CASE j = k
    <3>1. k \notin Foremost(P \ (D \cup {k}))
      BY DEF Foremost
    <3> QED BY <2>1, <2>2, <3>1
  <2>3. CASE ~SameLead(j, k)
    <3>1. j \notin A /\ j # k
      BY <2>3 DEF After, SameLead
    <3>2. \A i \in P : SameLead(i, j) => (i \in P \ D <=> i \in P \ (D \cup {k}))
      BY <2>3 DEF SameLead
    <3>3. j \in P \ D <=> j \in P \ (D \cup {k})
      BY <3>1
    <3>4. j \in Foremost(P \ D) <=> j \in Foremost(P \ (D \cup {k}))
      BY <3>2, <3>3 DEF Foremost, SameLead
    <3>5. j \notin Foremost(A)
      BY <3>1 DEF Foremost
    <3> QED BY <2>1, <3>1, <3>4, <3>5
  <2>4. CASE SameLead(j, k) /\ j # k
    <3>1. j \notin Foremost(P \ D)
      <4>1. j \in Foremost(P \ D) => j[3] <= k[3] /\ j \in P /\ j \notin D
        BY <1>3, <2>4 DEF Foremost, SameLead
      <4>2. j \in P /\ j \notin D => j[3] > k[3]
        BY <1>8, <2>4
      <4> QED BY <4>1, <4>2, IdsAreNumbers
    <3>2. \A i \in P : SameLead(i, j) => (i \in A <=> i \in P \ (D \cup {k}))
      BY <1>8, <2>4, IdsAreNumbers DEF After, SameLead
    <3>3. A \subseteq P
      BY DEF After
    <3> HIDE DEF A
    <3>4. j \in A <=> j \in P \ (D \cup {k})
      BY <2>4, <3>2, <3>3 DEF SameLead
    <3>5. j \in Foremost(A) <=> j \in Foremost(P \ (D \cup {k}))
      BY <3>2, <3>3, <3>4 DEF Foremost, SameLead
    <3> QED BY <2>1, <2>4, <3>1, <3>5
  <2> QED BY <2>2, <2>3, <2>4
<1>10. In(n.due) = Foremost(P \ In(n.done))
  <2>1. In(n.due) \subseteq Row /\ Foremost(P \ (D \cup {k})) \subseteq Row
    BY <1>1 DEF In, Foremost
  <2> QED BY <1>4, <1>9, <2>1
<1>11. ASSUME NEW j \in In(n.done), NEW i \in P, SameLead(j, i), i[3] < j[3]
       PROVE  i \in In(n.done)
  <2>1. CASE j = k
    BY <1>1, <1>3, <1>4, <1>11, <2>1, IdsAreNumbers DEF SameLead
  <2>2. CASE j \in D
    BY <1>4, <1>7, <1>11, <2>2
  <2> QED BY <1>4, <2>1, <2>2
<1>12. In(n.done) \subseteq P
  BY <1>3, <1>4 DEF Sorted
<1> QED BY <1>3, <1>4, <1>10, <1>11, <1>12 DEF Sorted


\* What a plan of an account keeps to: the limit of every day it uses, the
\* gaps, the windows, and the delays between the steps of a lead.
Fits(plan, a, lim) == \A k \in In(plan) : UsedOn(a, UTCDay(plan[k]), plan) <= lim[a]

Spaced(plan, cs) ==
  \A j, k \in In(plan) :
    j # k /\ plan[j] <= plan[k]
      => plan[k] >= plan[j] + cs[j[1]].rules.gap /\ plan[k] >= plan[j] + cs[k[1]].rules.gap

Windowed(plan, cs) ==
  \A k \in In(plan) : LET r == RulesFor(k[2], cs[k[1]].rules) IN
                      r.from < r.to => InWindow(plan[k], r)

Delayed(plan) ==
  \A j, k \in In(plan) :
    SameLead(j, k) /\ j[3] < k[3] => plan[k] >= plan[j] + Delay[k[3]] * DaySlots

\* No mail was placed after the last one, nor so near that the next one could
\* come too soon.
Paced(s, cs) ==
  \A k \in In(s.done) :
    /\ s.last # NoTime /\ s.done[k] <= s.last
    /\ s.done[k] + cs[k[1]].rules.gap <= s.last \/ cs[k[1]].rules.gap <= s.gap

\* What is due, is so after the delay.
DueDelayed(s) ==
  \A j \in In(s.due), k \in In(s.done) :
    SameLead(j, k) => s.due[j] >= s.done[k] + Delay[j[3]] * DaySlots

\* The first pending mail of a lead waits for its anchor.
Anchored(s, P, cs, co, rs) ==
  \A k \in Foremost(P) :
    /\ k \in In(s.due) => s.due[k] >= FirstAnchor(k, cs, co, rs)
    /\ k \in In(s.done) => s.done[k] >= FirstAnchor(k, cs, co, rs)

LEMMA FitsStep ==
  ASSUME UsageKnown, NEW cs, NEW rs, NEW a \in Account, NEW lim, SomeLimit(lim),
         NEW s \in Progress, NEW n, NEW k \in Row, NEW t \in Nat,
         Places(s, n, k, t, a, cs, rs, lim), k \notin In(s.done), Fits(s.done, a, lim)
  PROVE  Fits(n.done, a, lim)
<1>1. s.done \in [Row -> Time] /\ s.done[k] = NoTime /\ n.done = [s.done EXCEPT ![k] = t]
  BY DEF Progress, In, Places
<1> DEFINE plan == s.done
           next == [plan EXCEPT ![k] = t]
<1>2. \A day : UsedOn(a, day, next) = UsedOn(a, day, plan) + (IF UTCDay(t) = day THEN 1 ELSE 0)
  <2> HIDE DEF plan
  <2> QED BY <1>1, UsedOnGrows DEF plan
<1>3. \A day : UsedOn(a, day, plan) \in Nat
  BY UsedOnIs
<1>4. lim[a] \in Nat /\ UsedOn(a, UTCDay(t), plan) < lim[a]
  BY DEF SomeLimit, Places
<1>5. ASSUME NEW j \in In(next) PROVE UsedOn(a, UTCDay(next[j]), next) <= lim[a]
  <2>1. CASE UTCDay(t) = UTCDay(next[j])
    <3> DEFINE day == UTCDay(t)
    <3>1. UsedOn(a, day, next) = UsedOn(a, day, plan) + 1
      BY <1>2, Zenon
    <3> HIDE DEF next, plan
    <3>2. UsedOn(a, day, next) <= lim[a]
      BY <1>3, <1>4, <3>1
    <3> HIDE DEF day
    <3>3. UTCDay(next[j]) = day
      BY <2>1, Zenon DEF day
    <3> QED BY <3>2, <3>3, Zenon
  <2>2. CASE UTCDay(t) # UTCDay(next[j])
    <3> DEFINE day == UTCDay(next[j])
    <3>1. UsedOn(a, day, next) = UsedOn(a, day, plan) + 0
      <4>1. (IF UTCDay(t) = day THEN 1 ELSE 0) = 0
        BY <2>2, Zenon
      <4> QED BY <1>2, <4>1, Zenon
    <3>2. j \in In(plan) /\ next[j] = plan[j]
      <4>1. j # k
        BY <1>1, <2>2
      <4> QED BY <1>1, <4>1 DEF In
    <3>3. UsedOn(a, day, plan) <= lim[a]
      <4>1. UsedOn(a, UTCDay(plan[j]), plan) <= lim[a]
        BY <3>2 DEF Fits
      <4> HIDE DEF plan, next
      <4> QED BY <3>2, <4>1, Zenon
    <3> HIDE DEF plan, next, day
    <3>4. UsedOn(a, day, next) <= lim[a]
      BY <1>3, <1>4, <3>1, <3>3
    <3> QED BY <3>4, Zenon DEF day
  <2> QED BY <2>1, <2>2
<1> QED BY <1>1, <1>5 DEF Fits

LEMMA PaceStep ==
  ASSUME NEW cs, NEW co, NEW rs, Tables(cs, co, rs), NEW a, NEW lim,
         NEW s \in Progress, NEW n, NEW k \in Row, NEW t \in Nat,
         Places(s, n, k, t, a, cs, rs, lim), k \notin In(s.done),
         Spaced(s.done, cs), Paced(s, cs)
  PROVE  /\ Spaced(n.done, cs) /\ Paced(n, cs)
         /\ \A j \in In(s.done) : s.done[j] <= t
<1> DEFINE Gap(j) == cs[j[1]].rules.gap
           D == In(s.done)
<1>1. /\ s.done \in [Row -> Time] /\ s.last \in Time /\ s.gap \in Nat
      /\ n.done = [s.done EXCEPT ![k] = t] /\ n.last = t /\ n.gap = Gap(k)
      /\ s.last # NoTime => t >= s.last + Gap(k) /\ t >= s.last + s.gap
  BY DEF Progress, Places
<1>2. \A j \in Row : Gap(j) \in Nat
  BY RulesOfRow
<1>3. D \subseteq Row /\ \A j \in D : s.done[j] \in Nat
  BY <1>1 DEF In, Time
<1>4. In(n.done) = D \cup {k} /\ n.done[k] = t /\ \A j \in D : n.done[j] = s.done[j]
  BY <1>1 DEF In, NoTime
<1> HIDE DEF Gap
<1>5. ASSUME NEW j \in D
      PROVE  s.done[j] <= t /\ t >= s.done[j] + Gap(j) /\ t >= s.done[j] + Gap(k)
  <2>1. s.last # NoTime /\ s.done[j] <= s.last
        /\ (s.done[j] + Gap(j) <= s.last \/ Gap(j) <= s.gap)
    BY DEF Paced, Gap
  <2>2. s.last \in Nat /\ Gap(j) \in Nat /\ Gap(k) \in Nat /\ s.done[j] \in Nat
    BY <1>1, <1>2, <1>3, <2>1 DEF Time
  <2> QED BY <1>1, <2>1, <2>2
<1>6. ASSUME NEW i \in D \cup {k}, NEW j \in D \cup {k}, i # j, n.done[i] <= n.done[j]
      PROVE  n.done[j] >= n.done[i] + Gap(i) /\ n.done[j] >= n.done[i] + Gap(j)
  <2>1. CASE i \in D /\ j \in D
    BY <1>4, <1>6, <2>1 DEF Spaced, Gap
  <2>2. CASE i \in D /\ j = k
    BY <1>4, <1>5, <2>2
  <2>3. CASE i = k /\ j \in D
    BY <1>2, <1>3, <1>4, <1>5, <1>6, <2>3
  <2> QED BY <1>6, <2>1, <2>2, <2>3
<1>7. Spaced(n.done, cs)
  BY <1>4, <1>6 DEF Spaced, Gap
<1>8. Paced(n, cs)
  <2> SUFFICES ASSUME NEW j \in D \cup {k}
               PROVE /\ n.last # NoTime /\ n.done[j] <= n.last
                     /\ n.done[j] + Gap(j) <= n.last \/ Gap(j) <= n.gap
    BY <1>4 DEF Paced, Gap
  <2>1. CASE j \in D
    BY <1>1, <1>2, <1>3, <1>4, <1>5, <2>1 DEF NoTime
  <2>2. CASE j = k
    BY <1>1, <1>2, <1>4, <2>2 DEF NoTime
  <2> QED BY <2>1, <2>2
<1> QED BY <1>5, <1>7, <1>8


LEMMA WindowStep ==
  ASSUME NEW cs, NEW rs, NEW a, NEW lim, NEW s \in Progress, NEW n, NEW k \in Row, NEW t \in Nat,
         Places(s, n, k, t, a, cs, rs, lim), Windowed(s.done, cs)
  PROVE  Windowed(n.done, cs)
<1>1. s.done \in [Row -> Time] /\ n.done = [s.done EXCEPT ![k] = t]
  BY DEF Progress, Places
<1> SUFFICES ASSUME NEW j \in In(n.done),
                    RulesFor(j[2], cs[j[1]].rules).from < RulesFor(j[2], cs[j[1]].rules).to
             PROVE  InWindow(n.done[j], RulesFor(j[2], cs[j[1]].rules))
  BY DEF Windowed
<1>2. CASE j = k
  <2>1. n.done[j] = t
    BY <1>1, <1>2
  <2> QED BY <1>2, <2>1 DEF Places
<1>3. CASE j # k
  <2>1. j \in In(s.done) /\ n.done[j] = s.done[j]
    BY <1>1, <1>3 DEF In
  <2> QED BY <2>1 DEF Windowed
<1> QED BY <1>2, <1>3

LEMMA DelayStep ==
  ASSUME NEW cs, NEW co, NEW rs, Tables(cs, co, rs), NEW a, NEW lim,
         NEW s \in Progress, NEW n, NEW k \in Row, NEW t \in Nat,
         Places(s, n, k, t, a, cs, rs, lim), Sorted(s, Pending(cs, rs, a)),
         \A j \in In(s.done) : s.done[j] <= t,
         Delayed(s.done), DueDelayed(s), Anchored(s, Pending(cs, rs, a), cs, co, rs)
  PROVE  /\ Delayed(n.done) /\ DueDelayed(n)
         /\ Anchored(n, Pending(cs, rs, a), cs, co, rs)
<1> DEFINE P == Pending(cs, rs, a)
           D == In(s.done)
           N == Foremost(After(k, P))
           r == RulesFor(k[2], cs[k[1]].rules)
           Wait(j) == Delay[j[3]] * DaySlots
<1>1. /\ s.done \in [Row -> Time] /\ s.due \in [Row -> Time]
      /\ n.done = [s.done EXCEPT ![k] = t] /\ k \in In(s.due) /\ t >= s.due[k]
      /\ n.due = [j \in Row |-> IF j = k THEN NoTime
                                ELSE IF j \in N THEN NextTime(t, Delay[j[3]], r)
                                ELSE s.due[j]]
  BY DEF Progress, Places
<1>2. k \in P /\ k \notin D /\ In(n.done) = D \cup {k}
  <2>1. /\ k \in Pending(cs, rs, a) /\ k \notin In(s.done)
        /\ In(n.done) = In(s.done) \cup {k}
        /\ Sorted(n, Pending(cs, rs, a))
    BY SortedStep
  <2> QED BY <2>1
<1>3. P \subseteq Row /\ D \subseteq P /\ \A j \in D : s.done[j] \in Nat
  BY <1>1 DEF Pending, Sorted, In, Time
<1>4. n.done[k] = t /\ \A j \in D : n.done[j] = s.done[j]
  BY <1>1, <1>2, <1>3
<1>5. s.due[k] \in Nat /\ \A j \in Row : s.due[j] \in Time
  BY <1>1 DEF In, Time
<1>6. ASSUME NEW j \in Row PROVE Wait(j) \in Nat
  BY DaySlotsAssumption, IdsAreNumbers
<1>7. ASSUME NEW j \in N
      PROVE  j \in P /\ j # k /\ SameLead(j, k) /\ k[3] < j[3] /\ j \in Row
  <2>1. j \in P /\ SameLead(j, k) /\ j[3] > k[3]
    BY DEF Foremost, After, SameLead
  <2> QED BY <1>3, <2>1, IdsAreNumbers
<1>8. ASSUME NEW j \in N PROVE n.due[j] \in Nat /\ n.due[j] >= t + Wait(j)
  <2>1. j \in Row /\ j # k
    BY <1>7
  <2>2. n.due[j] = NextTime(t, Delay[j[3]], r)
    BY <1>1, <2>1
  <2>3. r \in RuleSet /\ Delay[j[3]] \in Nat
    BY <2>1, RulesOfRow, IdsAreNumbers
  <2> HIDE DEF r
  <2> QED BY <2>2, <2>3, NextTimeIs
<1>9. ASSUME NEW j \in In(n.due) PROVE j \in Row /\ j # k /\ (j \in N \/ (j \in In(s.due) /\ n.due[j] = s.due[j]))
  <2>1. j \in Row /\ n.due[j] # NoTime
    BY DEF In
  <2> HIDE DEF N
  <2> QED BY <1>1, <2>1 DEF In
<1> HIDE DEF Wait
<1>10. ASSUME NEW j \in In(s.due), NEW i \in D, SameLead(j, i) PROVE s.due[j] >= s.done[i] + Wait(j)
  BY <1>10 DEF DueDelayed, Wait
<1>11. ASSUME NEW j \in In(s.due), SameLead(j, k) PROVE j = k
  <2>1. j \in Foremost(P \ D) /\ k \in Foremost(P \ D)
    BY <1>1 DEF Sorted
  <2>2. j \in Row /\ k \in Row /\ j[3] >= k[3] /\ k[3] >= j[3]
    BY <1>3, <1>11, <2>1 DEF Foremost, SameLead
  <2>3. j[3] = k[3]
    BY <2>2, IdsAreNumbers
  <2> QED BY <1>11, <2>2, <2>3, IdsAreNumbers DEF SameLead
<1>12. Delayed(n.done)
  <2> SUFFICES ASSUME NEW i \in D \cup {k}, NEW j \in D \cup {k}, SameLead(i, j), i[3] < j[3]
               PROVE  n.done[j] >= n.done[i] + Wait(j)
    BY <1>2 DEF Delayed, Wait
  <2>0. i[3] \in Nat /\ j[3] \in Nat
    BY <1>3, IdsAreNumbers
  <2>1. CASE i \in D /\ j \in D
    BY <1>4, <2>1 DEF Delayed, Wait
  <2>2. CASE i \in D /\ j = k
    <3>1. s.due[k] >= s.done[i] + Wait(k)
      BY <1>1, <1>10, <2>2 DEF SameLead
    <3> QED BY <1>1, <1>3, <1>4, <1>5, <1>6, <2>2, <3>1
  <2>3. CASE i = k /\ j \in D
    <3>1. k \in D
      BY <1>2, <2>3 DEF Sorted, SameLead
    <3> QED BY <1>2, <3>1
  <2>4. CASE i = k /\ j = k
    BY <2>0, <2>4
  <2> QED BY <2>1, <2>2, <2>3, <2>4
<1>13. DueDelayed(n)
  <2> SUFFICES ASSUME NEW j \in In(n.due), NEW i \in D \cup {k}, SameLead(j, i)
               PROVE  n.due[j] >= n.done[i] + Wait(j)
    BY <1>2 DEF DueDelayed, Wait
  <2>1. CASE j \in N
    <3>1. n.done[i] <= t /\ n.done[i] \in Nat
      BY <1>3, <1>4
    <3> QED BY <1>6, <1>7, <1>8, <2>1, <3>1
  <2>2. CASE j \in In(s.due) /\ n.due[j] = s.due[j]
    <3>1. i # k
      BY <1>9, <1>11, <2>2
    <3> QED BY <1>4, <1>10, <2>2, <3>1
  <2> QED BY <1>9, <2>1, <2>2
<1>14. Anchored(n, P, cs, co, rs)
  <2> SUFFICES ASSUME NEW j \in Foremost(P)
               PROVE  /\ j \in In(n.due) => n.due[j] >= FirstAnchor(j, cs, co, rs)
                      /\ j \in In(n.done) => n.done[j] >= FirstAnchor(j, cs, co, rs)
    BY DEF Anchored
  <2>0. /\ j \in Row
        /\ j \in In(s.due) => s.due[j] >= FirstAnchor(j, cs, co, rs)
        /\ j \in In(s.done) => s.done[j] >= FirstAnchor(j, cs, co, rs)
        /\ FirstAnchor(j, cs, co, rs) \in Nat
    BY <1>3, FirstAnchorIs DEF Anchored, Foremost
  <2>1. j \notin N
    <3>1. ASSUME j \in N PROVE FALSE
      <4>1. SameLead(j, k) /\ k[3] < j[3]
        BY <1>7, <3>1
      <4>2. k[3] >= j[3]
        BY <1>2, <4>1 DEF Foremost, SameLead
      <4> QED BY <2>0, <4>1, <4>2, IdsAreNumbers
    <3> QED BY <3>1
  <2>2. ASSUME j \in In(n.due) PROVE n.due[j] >= FirstAnchor(j, cs, co, rs)
    BY <1>9, <2>0, <2>1, <2>2
  <2>3. ASSUME j \in In(n.done) PROVE n.done[j] >= FirstAnchor(j, cs, co, rs)
    <3>1. CASE j = k
      BY <1>1, <1>4, <1>5, <2>0, <3>1
    <3>2. CASE j \in D
      BY <1>4, <2>0, <3>2
    <3> QED BY <1>2, <2>3, <3>1, <3>2
  <2> QED BY <2>2, <2>3
<1> QED BY <1>12, <1>13, <1>14


Going(s, a, cs, co, rs, lim) ==
  /\ s \in Progress /\ Sorted(s, Pending(cs, rs, a))
  /\ Fits(s.done, a, lim) /\ Spaced(s.done, cs) /\ Windowed(s.done, cs) /\ Delayed(s.done)
  /\ Paced(s, cs) /\ DueDelayed(s) /\ Anchored(s, Pending(cs, rs, a), cs, co, rs)

LEMMA GoingFirst ==
  ASSUME NEW a, NEW cs, NEW co, NEW rs, Tables(cs, co, rs), NEW lim
  PROVE  Going(PlaceFirst(a, cs, co, rs), a, cs, co, rs, lim)
<1> DEFINE P == Pending(cs, rs, a)
           s == PlaceFirst(a, cs, co, rs)
           due == [k \in Row |-> IF k \in Foremost(P) THEN FirstAnchor(k, cs, co, rs) ELSE NoTime]
<1>1. s = [due |-> due, done |-> NoPlan, last |-> NoTime, gap |-> 0]
  BY DEF PlaceFirst
<1> HIDE DEF s
<1>2. P \subseteq Row /\ Foremost(P) \subseteq P
  BY DEF Pending, Foremost
<1>3. \A k \in Row : FirstAnchor(k, cs, co, rs) \in Nat
  BY FirstAnchorIs
<1>4. due \in [Row -> Time] /\ NoPlan \in [Row -> Time]
  BY <1>3 DEF NoPlan, Time
<1>5. s \in Progress
  <2> HIDE DEF due
  <2> QED BY <1>1, <1>4 DEF Progress, Time
<1>6. In(NoPlan) = {}
  BY DEF In, NoPlan
<1>7. In(due) = Foremost(P)
  <2> HIDE DEF P
  <2> QED BY <1>2, <1>3 DEF In, NoTime
<1>8. s.due = due /\ s.done = NoPlan
  BY <1>1
<1>9. In(s.done) = {} /\ In(s.due) = Foremost(P)
  <2> HIDE DEF due
  <2> QED BY <1>6, <1>7, <1>8, Zenon
<1>10. Sorted(s, P)
  <2>1. P \ In(s.done) = P
    BY <1>9
  <2> HIDE DEF P
  <2> QED BY <1>9, <2>1 DEF Sorted
<1>11. Anchored(s, P, cs, co, rs)
  <2> SUFFICES ASSUME NEW k \in Foremost(P) PROVE s.due[k] >= FirstAnchor(k, cs, co, rs)
    BY <1>9 DEF Anchored
  <2>1. s.due[k] = FirstAnchor(k, cs, co, rs)
    BY <1>2, <1>8
  <2>2. FirstAnchor(k, cs, co, rs) \in Nat
    BY <1>2, <1>3
  <2> QED BY <2>1, <2>2
<1>12. Fits(s.done, a, lim) /\ Spaced(s.done, cs) /\ Delayed(s.done)
  BY <1>9 DEF Fits, Spaced, Delayed
<1>13. Windowed(s.done, cs)
  BY <1>9 DEF Windowed
<1>14. Paced(s, cs) /\ DueDelayed(s)
  BY <1>9 DEF Paced, DueDelayed
<1> QED BY <1>5, <1>10, <1>11, <1>12, <1>13, <1>14 DEF Going, s

LEMMA GoingOn ==
  ASSUME UsageKnown, NEW lim, SomeLimit(lim), NEW a \in Account,
         NEW cs, NEW co, NEW rs, Tables(cs, co, rs),
         NEW s, Going(s, a, cs, co, rs, lim), In(s.due) # {}
  PROVE  LET n == PlaceNext(s, a, cs, rs, lim) IN
         /\ Going(n, a, cs, co, rs, lim)
         /\ \E k \in Row : k \notin In(s.done) /\ k \in Pending(cs, rs, a)
                           /\ In(n.done) = In(s.done) \cup {k}
<1> DEFINE P == Pending(cs, rs, a)
           n == PlaceNext(s, a, cs, rs, lim)
<1>1. s \in Progress
  BY DEF Going
<1>2. PICK k \in Row, t \in Nat : Places(s, n, k, t, a, cs, rs, lim)
  BY <1>1, PlaceNextIs
<1> HIDE DEF n, P
<1>3. n \in Progress
  BY <1>2 DEF Places
<1>4. /\ k \in P /\ k \notin In(s.done) /\ In(n.done) = In(s.done) \cup {k}
      /\ Sorted(n, P)
  <2>1. Sorted(s, Pending(cs, rs, a))
    BY DEF Going
  <2>2. /\ k \in Pending(cs, rs, a) /\ k \notin In(s.done)
        /\ In(n.done) = In(s.done) \cup {k}
        /\ Sorted(n, Pending(cs, rs, a))
    BY <1>1, <1>2, <2>1, SortedStep
  <2> QED BY <2>2 DEF P
<1>5. Fits(n.done, a, lim)
  BY <1>1, <1>2, <1>4, FitsStep DEF Going
<1>6. Spaced(n.done, cs) /\ Paced(n, cs) /\ \A j \in In(s.done) : s.done[j] <= t
  BY <1>1, <1>2, <1>4, PaceStep DEF Going
<1>7. Windowed(n.done, cs)
  BY <1>1, <1>2, WindowStep DEF Going
<1>8. Delayed(n.done) /\ DueDelayed(n) /\ Anchored(n, P, cs, co, rs)
  BY <1>1, <1>2, <1>6, DelayStep DEF Going, P
<1>9. Going(n, a, cs, co, rs, lim)
  BY <1>3, <1>4, <1>5, <1>6, <1>7, <1>8 DEF Going, P
<1> QED BY <1>4, <1>9 DEF n, P


-----------------------------------------------------------------------------
(* What the loop returns. *)

\* A plan that has all pending rows of the account, and keeps to everything.
WellPlaced(plan, a, cs, co, rs, lim) ==
  /\ plan \in [Row -> Time] /\ In(plan) = Pending(cs, rs, a)
  /\ Fits(plan, a, lim) /\ Spaced(plan, cs) /\ Windowed(plan, cs) /\ Delayed(plan)
  /\ \A k \in Foremost(Pending(cs, rs, a)) : plan[k] >= FirstAnchor(k, cs, co, rs)

\* rebalancePendingSchedulesTx places every pending row of the account, and no
\* row twice: whatever rows, rules, zones, windows and usage it starts from, its
\* loop comes to an end, no day of the plan holds more than the daily limit, the
\* mails are the gaps apart, lie on a send day inside a window, follow the step
\* before by their delay, and none is earlier than what it is anchored at.
THEOREM PlacedIs ==
  ASSUME UsageKnown, NEW lim, SomeLimit(lim), NEW a \in Account,
         NEW cs, NEW co, NEW rs, Tables(cs, co, rs)
  PROVE  WellPlaced(Placed(a, cs, co, rs, lim), a, cs, co, rs, lim)
<1> DEFINE P    == Pending(cs, rs, a)
           G(s) == Going(s, a, cs, co, rs, lim)
           S    == Progress
           Nx(s) == PlaceNext(s, a, cs, rs, lim)
           F    == {s \in S : In(s.due) = {}}
           nxt  == [s \in S |-> IF s \in F THEN s ELSE Nx(s)]
           v    == [s \in S |-> s.done]
           Loops(f) == f = [s \in S |-> IF In(s.due) = {} THEN s.done ELSE f[Nx(s)]]
           place == CHOOSE f : Loops(f)
           first == PlaceFirst(a, cs, co, rs)
           J    == {s \in S : G(s)}
           m    == [s \in J |-> P \ In(s.done)]
<1>1. F \subseteq S /\ nxt \in [S -> S]
  <2>1. ASSUME NEW s \in S, s \notin F PROVE Nx(s) \in S
    <3>1. \E k \in Row, t \in Nat : Places(s, Nx(s), k, t, a, cs, rs, lim)
      BY <2>1, PlaceNextIs
    <3> QED BY <3>1 DEF Places
  <2> HIDE DEF S, Nx
  <2> QED BY <2>1
<1>2. ASSUME NEW f PROVE Loops(f) <=> Iterates(f, S, F, nxt, v)
  <2> HIDE DEF S, Nx
  <2>1. \A s \in S : (IF In(s.due) = {} THEN s.done ELSE f[Nx(s)])
                     = (IF s \in F THEN v[s] ELSE f[nxt[s]])
    OBVIOUS
  <2> HIDE DEF F, nxt, v
  <2>2. [s \in S |-> IF In(s.due) = {} THEN s.done ELSE f[Nx(s)]]
        = [s \in S |-> IF s \in F THEN v[s] ELSE f[nxt[s]]]
    BY <2>1
  <2> QED BY <1>1, <2>2 DEF Iterates
<1>3. Loops(place)
  <2>1. \E f : Iterates(f, S, F, nxt, v)
    <3> HIDE DEF F, nxt, v, S
    <3> QED BY <1>1, IterationExists
  <2>2. \E f : Loops(f)
    <3> HIDE DEF F, nxt, v, Loops, S
    <3> QED BY <1>2, <2>1
  <2> HIDE DEF Loops
  <2> QED BY <2>2
<1>4. first \in J
  <2>1. G(first)
    BY GoingFirst
  <2> QED BY <2>1 DEF Going
<1>5. P \subseteq Row /\ IsFiniteSet(P)
  BY RowsFinite, FS_Subset DEF Pending
<1>6. ASSUME NEW s \in J \ F
      PROVE  nxt[s] \in J /\ m[nxt[s]] \subseteq m[s] /\ m[nxt[s]] # m[s]
  <2>1. s \in S /\ nxt[s] = Nx(s) /\ In(s.due) # {} /\ G(s)
    OBVIOUS
  <2>2. /\ G(Nx(s))
        /\ \E k \in Row : k \notin In(s.done) /\ k \in P /\ In(Nx(s).done) = In(s.done) \cup {k}
    BY <2>1, GoingOn
  <2>3. Nx(s) \in J
    BY <2>2 DEF Going
  <2> HIDE DEF J, P, Nx, nxt, F, G, S
  <2>4. m[Nx(s)] = P \ In(Nx(s).done) /\ m[s] = P \ In(s.done)
    BY <2>3
  <2> QED BY <2>1, <2>2, <2>3, <2>4
<1>7. Descends(nxt, S, J, F, Row, m)
  <2>1. ASSUME NEW s \in J PROVE P \ In(s.done) \in FiniteSubsetsOf(Row)
    <3> HIDE DEF P, J
    <3> QED BY <1>5, FS_Subset DEF FiniteSubsetsOf
  <2>2. J \subseteq S
    OBVIOUS
  <2>3. m \in [J -> FiniteSubsetsOf(Row)]
    <3> HIDE DEF P, J
    <3> QED BY <2>1
  <2> HIDE DEF F, nxt, J, m, S
  <2> QED BY <1>6, <2>2, <2>3 DEF Descends
<1>8. \E y \in J \cap F : place[first] = v[y]
  <2>1. Iterates(place, S, F, nxt, v)
    <3> HIDE DEF F, nxt, v, Loops, place, S
    <3> QED BY <1>2, <1>3
  <2> HIDE DEF F, nxt, v, Loops, place, S, J, m, first
  <2> QED BY <1>4, <1>7, <2>1, IterationEnds
<1>9. Placed(a, cs, co, rs, lim) = place[first]
  BY Zenon DEF Placed
<1> HIDE DEF place, first
<1>10. PICK y \in J \cap F : Placed(a, cs, co, rs, lim) = y.done
  BY <1>8, <1>9
<1>11. y \in Progress /\ In(y.due) = {} /\ G(y)
  BY <1>10
<1>12. In(y.done) = P
  <2>1. In(y.done) \subseteq P /\ Foremost(P \ In(y.done)) = {}
    BY <1>11 DEF Going, Sorted
  <2> HIDE DEF P
  <2> QED BY <1>5, <2>1, ForemostExists
<1>13. \A k \in Foremost(P) : y.done[k] >= FirstAnchor(k, cs, co, rs)
  <2>1. \A k \in Foremost(P) : k \in In(y.done)
    BY <1>12 DEF Foremost
  <2> QED BY <1>11, <2>1 DEF Going, Anchored
<1>14. WellPlaced(y.done, a, cs, co, rs, lim)
  <2>1. y.done \in [Row -> Time]
    BY <1>11 DEF Progress
  <2> QED BY <1>11, <1>12, <1>13, <2>1 DEF Going, WellPlaced
<1> QED BY <1>10, <1>14, Zenon


-----------------------------------------------------------------------------
(* What a rebalance writes. *)

\* The plan of an account, as it stands in the rows.
PlanOf(a, cs, rs) ==
  [k \in Row |-> IF k \in Pending(cs, rs, a) THEN rs[k].at ELSE NoTime]

\* Only the pending rows of the accounts get another time, and nothing but that.
Moves(new, A, cs, rs) ==
  /\ new \in [Row -> RowRecord]
  /\ \A k \in Row :
       /\ new[k].status = rs[k].status /\ new[k].sent = rs[k].sent /\ new[k].acct = rs[k].acct
       /\ (\A a \in A : k \notin Pending(cs, rs, a)) => new[k] = rs[k]

Retimed(row, t) == [row EXCEPT !.at = t]

LEMMA RebalancedRow ==
  ASSUME UsageKnown, NEW lim, SomeLimit(lim), NEW A, A \subseteq Account,
         NEW cs, NEW co, NEW rs, Tables(cs, co, rs), NEW k \in Row
  PROVE  /\ (\A a \in A : k \notin Pending(cs, rs, a))
               => Rebalanced(A, cs, co, rs, lim)[k] = rs[k]
         /\ \A a \in A : k \in Pending(cs, rs, a) =>
              /\ Placed(a, cs, co, rs, lim)[k] \in Nat
              /\ Rebalanced(A, cs, co, rs, lim)[k]
                   = Retimed(rs[k], Placed(a, cs, co, rs, lim)[k])
<1> DEFINE plan(a) == Placed(a, cs, co, rs, lim)
           plans   == {plan(a) : a \in A}
           at      == {p[k] : p \in plans} \ {NoTime}
<1>1. Rebalanced(A, cs, co, rs, lim)[k] = IF at = {} THEN rs[k] ELSE Retimed(rs[k], Max(at))
  BY DEF Rebalanced, Retimed
<1>2. ASSUME NEW a \in A
      PROVE  /\ plan(a)[k] = NoTime <=> k \notin Pending(cs, rs, a)
             /\ plan(a)[k] \in Nat \cup {NoTime}
  <2>1. WellPlaced(plan(a), a, cs, co, rs, lim)
    BY PlacedIs
  <2> HIDE DEF plan
  <2> QED BY <2>1 DEF WellPlaced, In, Time
<1>3. at = {plan(a)[k] : a \in A} \ {NoTime}
  <2> HIDE DEF plan
  <2> QED OBVIOUS
<1>4. CASE \A a \in A : k \notin Pending(cs, rs, a)
  <2> HIDE DEF plan, plans
  <2>1. at = {}
    <3> HIDE DEF at
    <3> QED BY <1>2, <1>3, <1>4
  <2> HIDE DEF at
  <2> QED BY <1>1, <1>4, <2>1
<1>5. ASSUME NEW a \in A, k \in Pending(cs, rs, a)
      PROVE  /\ plan(a)[k] \in Nat
             /\ Rebalanced(A, cs, co, rs, lim)[k] = Retimed(rs[k], plan(a)[k])
  <2>1. \A b \in A : k \in Pending(cs, rs, b) => b = a
    BY <1>5 DEF Pending
  <2> HIDE DEF plan, plans
  <2>2. plan(a)[k] \in Nat /\ plan(a)[k] # NoTime
    BY <1>2, <1>5 DEF NoTime
  <2>3. at = {plan(a)[k]}
    <3> HIDE DEF at
    <3> QED BY <1>2, <1>3, <2>1, <2>2
  <2>4. Max(at) = plan(a)[k]
    <3> DEFINE x == plan(a)[k]
    <3>1. at = {x, x} /\ x \in Int
      BY <2>2, <2>3
    <3> HIDE DEF at, x
    <3>2. Max(at) = x
      BY <3>1, MaxOfTwo
    <3> QED BY <3>2 DEF x
  <2> HIDE DEF at
  <2> QED BY <1>1, <2>2, <2>3, <2>4
<1>6. CASE \E a \in A : k \in Pending(cs, rs, a)
  <2> HIDE DEF plan, at, plans
  <2> QED BY <1>5, <1>6 DEF plan
<1> QED BY <1>4, <1>6


\* A rebalance rewrites the times of pending rows of its accounts, nothing else
\* of them and no other row, and leaves every account with a plan that keeps to
\* everything: the accounts of one rebalance do not disturb each other.
THEOREM RebalancedIs ==
  ASSUME UsageKnown, NEW lim, SomeLimit(lim), NEW A, A \subseteq Account,
         NEW cs, NEW co, NEW rs, Tables(cs, co, rs), rs \in [Row -> RowRecord]
  PROVE  /\ Moves(Rebalanced(A, cs, co, rs, lim), A, cs, rs)
         /\ \A a \in A : WellPlaced(PlanOf(a, cs, Rebalanced(A, cs, co, rs, lim)), a, cs, co, rs, lim)
<1> DEFINE new == Rebalanced(A, cs, co, rs, lim)
<1>1. ASSUME NEW k \in Row
      PROVE  /\ new[k] \in RowRecord /\ new[k].status = rs[k].status
             /\ new[k].sent = rs[k].sent /\ new[k].acct = rs[k].acct
             /\ (\A a \in A : k \notin Pending(cs, rs, a)) => new[k] = rs[k]
             /\ \A a \in A : k \in Pending(cs, rs, a) => new[k].at = Placed(a, cs, co, rs, lim)[k]
  <2>1. rs[k] \in RowRecord
    OBVIOUS
  <2>2. CASE \A a \in A : k \notin Pending(cs, rs, a)
    <3>1. new[k] = rs[k]
      BY <2>2, RebalancedRow
    <3> HIDE DEF new
    <3> QED BY <2>1, <2>2, <3>1
  <2>3. CASE \E a \in A : k \in Pending(cs, rs, a)
    <3>1. PICK a \in A : k \in Pending(cs, rs, a)
      BY <2>3
    <3>2. \A b \in A : k \in Pending(cs, rs, b) => b = a
      BY <3>1 DEF Pending
    <3> DEFINE t == Placed(a, cs, co, rs, lim)[k]
    <3>3. t \in Nat /\ new[k] = [rs[k] EXCEPT !.at = t]
      <4>1. t \in Nat /\ new[k] = Retimed(rs[k], t)
        BY <3>1, RebalancedRow
      <4> HIDE DEF new, t
      <4> QED BY <4>1 DEF Retimed
    <3> HIDE DEF new, t
    <3>4. /\ new[k] \in RowRecord /\ new[k].status = rs[k].status /\ new[k].at = t
          /\ new[k].sent = rs[k].sent /\ new[k].acct = rs[k].acct
      BY <2>1, <3>3 DEF RowRecord
    <3> QED BY <2>3, <3>2, <3>4 DEF t
  <2> QED BY <2>2, <2>3
<1>2. new = [k \in Row |-> new[k]]
  BY DEF Rebalanced
<1>3. Moves(new, A, cs, rs)
  <2> HIDE DEF new
  <2> QED BY <1>1, <1>2 DEF Moves
<1>4. ASSUME NEW a \in A PROVE WellPlaced(PlanOf(a, cs, new), a, cs, co, rs, lim)
  <2> DEFINE plan == Placed(a, cs, co, rs, lim)
  <2>1. WellPlaced(plan, a, cs, co, rs, lim)
    BY PlacedIs
  <2> HIDE DEF new
  <2>2. \A k \in Row : k \in Pending(cs, new, a) <=> k \in Pending(cs, rs, a)
    BY <1>1 DEF Pending
  <2>3. \A k \in Row : (IF k \in Pending(cs, new, a) THEN new[k].at ELSE NoTime) = plan[k]
    <3>1. plan \in [Row -> Time] /\ In(plan) = Pending(cs, rs, a)
      BY <2>1 DEF WellPlaced
    <3>2. \A k \in Row : k \in Pending(cs, rs, a) => new[k].at = plan[k]
      BY <1>1
    <3> HIDE DEF plan
    <3> QED BY <2>2, <3>1, <3>2 DEF In
  <2>4. plan = [k \in Row |-> plan[k]]
    BY <2>1 DEF WellPlaced
  <2> HIDE DEF plan
  <2>5. PlanOf(a, cs, new) = plan
    BY <2>3, <2>4 DEF PlanOf
  <2> QED BY <2>1, <2>5
<1> QED BY <1>3, <1>4 DEF new


-----------------------------------------------------------------------------
(* The times a lead's rows are made with, and their account. *)

\* The steps in turn: step s takes v[s], or what h makes of the step p[s]
\* before it.
Chain(p, v, h) ==
  /\ \A s \in Step : p[s] \in 0 .. (s - 1)
  /\ \A s \in Step : v[s] \in Nat
  /\ \A s \in Step, x \in Nat : h[<<x, s>>] \in Nat

Links(f, D, p, v, h) == f = [s \in D |-> IF p[s] = 0 THEN v[s] ELSE h[<<f[p[s]], s>>]]

\* What passes from the step before to a step, all steps have.
LEMMA StepInduction ==
  ASSUME NEW p, \A s \in Step : p[s] \in 0 .. (s - 1), NEW f,
         \A s \in Step : (p[s] = 0 \/ f[p[s]] \in Nat) => f[s] \in Nat
  PROVE  \A s \in Step : f[s] \in Nat
<1>1. \A s \in Step : /\ s \in Nat /\ s >= 1
                      /\ p[s] = 0 \/ p[s] \in Step
                      /\ p[s] \in Nat /\ p[s] < s
  BY PlannerAssumption DEF Step
<1> DEFINE S == {n \in Nat : \A s \in Step : s <= n => f[s] \in Nat}
<1>2. 0 \in S
  BY <1>1
<1>3. ASSUME NEW n \in Nat, n \in S PROVE n + 1 \in S
  <2> SUFFICES ASSUME NEW s \in Step, s <= n + 1 PROVE f[s] \in Nat
    OBVIOUS
  <2>1. p[s] <= n /\ p[s] \in Nat
    BY <1>1
  <2>2. p[s] = 0 \/ f[p[s]] \in Nat
    BY <1>1, <1>3, <2>1
  <2> QED BY <2>2
<1> HIDE DEF S
<1>4. Nat \subseteq S
  BY <1>2, <1>3, NatSetInduction
<1> QED BY <1>1, <1>4 DEF S

\* There is a function that is given so, and its values are numbers.
LEMMA ChainExists ==
  ASSUME NEW p, NEW v, NEW h, Chain(p, v, h)
  PROVE  \E f : Links(f, Step, p, v, h) /\ \A s \in Step : f[s] \in Nat
<1> DEFINE S == {n \in Nat : \E f : Links(f, 1 .. n, p, v, h) \/ n > Steps}
<1>1. 0 \in S
  <2> DEFINE f == [s \in 1 .. 0 |-> 0]
  <2>1. f = [s \in 1 .. 0 |-> IF p[s] = 0 THEN v[s] ELSE h[<<f[p[s]], s>>]]
    OBVIOUS
  <2>2. Links(f, 1 .. 0, p, v, h)
    BY <2>1 DEF Links
  <2> HIDE DEF f
  <2> QED BY <2>2
<1>2. ASSUME NEW n \in Nat, n \in S PROVE n + 1 \in S
  <2>1. CASE n + 1 > Steps
    BY <2>1
  <2>2. CASE ~(n + 1 > Steps)
    <3>1. Steps \in Nat /\ n + 1 \in Step /\ ~(n > Steps)
      BY <2>2, PlannerAssumption DEF Step
    <3>2. PICK f : Links(f, 1 .. n, p, v, h)
      BY <1>2, <3>1
    <3> DEFINE m == n + 1
               x == IF p[m] = 0 THEN v[m] ELSE h[<<f[p[m]], m>>]
               g == [s \in 1 .. m |-> IF s = m THEN x ELSE f[s]]
    <3>3. \A s \in 1 .. m : s \in Step /\ p[s] \in 0 .. (s - 1) /\ (s # m => s \in 1 .. n)
      BY <3>1, PlannerAssumption DEF Chain, Step
    <3>4. \A s \in 1 .. n : f[s] = IF p[s] = 0 THEN v[s] ELSE h[<<f[p[s]], s>>]
      BY <3>2 DEF Links
    <3>5. \A s \in 1 .. m : p[s] # 0 => g[p[s]] = f[p[s]]
      <4> HIDE DEF x
      <4> QED BY <3>3
    <3>6. ASSUME NEW s \in 1 .. m
          PROVE  g[s] = IF p[s] = 0 THEN v[s] ELSE h[<<g[p[s]], s>>]
      <4>1. CASE s = m
        <5>1. g[s] = x
          BY <4>1
        <5> HIDE DEF g
        <5> QED BY <3>5, <4>1, <5>1
      <4>2. CASE s # m
        <5>1. g[s] = f[s] /\ s \in 1 .. n
          BY <3>3, <4>2
        <5> HIDE DEF g
        <5> QED BY <3>4, <3>5, <5>1
      <4> QED BY <4>1, <4>2
    <3>7. g = [s \in 1 .. m |-> g[s]]
      <4> HIDE DEF x
      <4> QED OBVIOUS
    <3> HIDE DEF g
    <3>8. Links(g, 1 .. m, p, v, h)
      BY <3>6, <3>7 DEF Links
    <3> QED BY <3>8
  <2> QED BY <2>1, <2>2
<1> HIDE DEF S
<1>3. Nat \subseteq S
  BY <1>1, <1>2, NatSetInduction
<1>4. Steps \in Nat /\ ~(Steps > Steps)
  BY PlannerAssumption
<1>5. PICK f : Links(f, Step, p, v, h)
  BY <1>3, <1>4 DEF S, Step
<1>6. \A s \in Step : f[s] \in Nat
  <2>1. \A s \in Step : p[s] \in 0 .. (s - 1)
    BY DEF Chain
  <2>2. \A s \in Step : f[s] = IF p[s] = 0 THEN v[s] ELSE h[<<f[p[s]], s>>]
    BY <1>5 DEF Links
  <2>3. \A s \in Step : (p[s] = 0 \/ f[p[s]] \in Nat) => f[s] \in Nat
    BY <2>2 DEF Chain
  <2> QED BY <2>1, <2>3, StepInduction
<1> QED BY <1>5, <1>6


\* ComputeSchedule: the times of a new lead's rows.
LEMMA FirstTimesAre ==
  ASSUME now \in Nat, NEW l \in Lead, NEW place \in Nat, NEW date \in Nat \cup {NoDate},
         NEW r \in RuleSet
  PROVE  \A s \in Step : FirstTimes(l, place, date, r)[s] \in Nat
<1> DEFINE own   == RulesFor(l, r)
           start == StartAnchor(now, date, own) + place * r.gap
           first == Clamp(start, own)
           Loops(f) == f = [s \in Step |-> IF s = 1 THEN Clamp(start, own)
                                           ELSE NextTime(f[s - 1], Delay[s], own)]
           p == [s \in Step |-> s - 1]
           v == [s \in Step |-> first]
           h == [q \in Nat \X Step |-> NextTime(q[1], Delay[q[2]], own)]
           at == CHOOSE f : Loops(f)
<1>1. own \in RuleSet /\ r.gap \in Nat
  BY RulesForType DEF RuleSet
<1>2. first \in Nat
  <2>1. StartAnchor(now, date, own) \in Nat
    BY <1>1, StartAnchorIs
  <2>2. place * r.gap \in Nat
    BY <1>1
  <2>3. start \in Nat
    BY <2>1, <2>2
  <2> HIDE DEF start, own
  <2>4. Clamp(start, own) \in Int /\ Clamp(start, own) >= start
    BY <1>1, <2>3, ClampIs
  <2> QED BY <2>3, <2>4
<1>3. \A s \in Step : Delay[s] \in Nat /\ s \in Nat /\ s >= 1 /\ (s # 1 => s - 1 \in Step)
  BY PlannerAssumption DEF Step
<1>4. \A x \in Nat, s \in Step : NextTime(x, Delay[s], own) \in Nat
  <2> SUFFICES ASSUME NEW x \in Nat, NEW s \in Step PROVE NextTime(x, Delay[s], own) \in Nat
    OBVIOUS
  <2> HIDE DEF own
  <2>1. NextTime(x, Delay[s], own) \in Int /\ NextTime(x, Delay[s], own) >= x
    BY <1>1, <1>3, NextTimeIs
  <2> QED BY <2>1
<1>5. Chain(p, v, h)
  <2> HIDE DEF own, first
  <2> QED BY <1>2, <1>3, <1>4 DEF Chain
<1>6. \E f : Loops(f)
  <2>1. PICK f : Links(f, Step, p, v, h) /\ \A s \in Step : f[s] \in Nat
    <3> HIDE DEF p, v, h
    <3> QED BY <1>5, ChainExists
  <2>2. \A s \in Step : (IF p[s] = 0 THEN v[s] ELSE h[<<f[p[s]], s>>])
                        = (IF s = 1 THEN first ELSE NextTime(f[s - 1], Delay[s], own))
    <3> HIDE DEF first, own
    <3> QED BY <1>3, <2>1
  <2>3. f = [s \in Step |-> IF p[s] = 0 THEN v[s] ELSE h[<<f[p[s]], s>>]]
    BY <2>1 DEF Links
  <2> HIDE DEF p, v, h
  <2>4. Loops(f)
    BY <2>2, <2>3
  <2> HIDE DEF Loops
  <2> QED BY <2>4
<1>7. Loops(at)
  <2> HIDE DEF Loops
  <2> QED BY <1>6
<1>8. \A s \in Step : at[s] \in Nat
  <2> HIDE DEF at, own
  <2>1. \A s \in Step : at[s] = IF s = 1 THEN first ELSE NextTime(at[s - 1], Delay[s], own)
    BY <1>7
  <2>2. \A s \in Step : p[s] \in 0 .. (s - 1) /\ p[s] = s - 1
    BY <1>3
  <2> HIDE DEF p, first
  <2>3. \A s \in Step : (p[s] = 0 \/ at[p[s]] \in Nat) => at[s] \in Nat
    BY <1>2, <1>3, <1>4, <2>1, <2>2
  <2> QED BY <2>2, <2>3, StepInduction
<1>9. FirstTimes(l, place, date, r) = at
  BY Zenon DEF FirstTimes
<1> HIDE DEF at
<1> QED BY <1>8, <1>9


\* Every place has its turn on one of the accounts.
LEMMA TurnIs ==
  ASSUME NEW accounts, accounts \subseteq Account, accounts # {}, NEW place \in Nat
  PROVE  Turn(place, accounts) \in accounts
<1> DEFINE n       == Cardinality(accounts)
           Less(a) == {b \in accounts : b < a}
           f       == [a \in accounts |-> Cardinality(Less(a))]
<1>1. IsFiniteSet(accounts) /\ n \in Nat /\ n > 0
  <2>1. IsFiniteSet(accounts)
    BY PlannerAssumption, FS_Subset
  <2>2. n \in Nat /\ n # 0
    BY <2>1, FS_CardinalityType, FS_EmptySet
  <2> QED BY <2>1, <2>2
<1>2. \A a \in accounts : a \in Nat
  BY PlannerAssumption
<1>3. ASSUME NEW a \in accounts
      PROVE  IsFiniteSet(Less(a)) /\ Cardinality(Less(a)) \in 0 .. (n - 1)
  <2>1. Less(a) \in SUBSET (accounts \ {a})
    BY <1>2
  <2>2. IsFiniteSet(accounts \ {a}) /\ Cardinality(accounts \ {a}) = n - 1
    BY <1>1, FS_RemoveElement
  <2> HIDE DEF Less, n
  <2>3. IsFiniteSet(Less(a)) /\ Cardinality(Less(a)) <= n - 1
    BY <2>1, <2>2, FS_Subset
  <2>4. Cardinality(Less(a)) \in Nat
    BY <2>3, FS_CardinalityType
  <2> QED BY <1>1, <2>3, <2>4
<1>4. ASSUME NEW a \in accounts, NEW b \in accounts, a < b
      PROVE  Cardinality(Less(a)) # Cardinality(Less(b))
  <2>1. Less(a) \in SUBSET Less(b) /\ a \in Less(b) /\ a \notin Less(a)
    BY <1>2, <1>4
  <2> HIDE DEF Less
  <2> QED BY <1>3, <2>1, FS_Subset
<1>5. f \in [accounts -> 0 .. (n - 1)]
  <2> HIDE DEF Less, n
  <2> QED BY <1>3
<1>6. \A a, b \in accounts : f[a] = f[b] => a = b
  <2> SUFFICES ASSUME NEW a \in accounts, NEW b \in accounts, a # b PROVE f[a] # f[b]
    OBVIOUS
  <2> HIDE DEF Less
  <2>1. a < b \/ b < a
    BY <1>2
  <2> QED BY <1>4, <2>1
<1>7. IsFiniteSet(0 .. (n - 1)) /\ Cardinality(0 .. (n - 1)) = n
  <2> HIDE DEF n
  <2>1. n - 1 \in Int /\ 0 \in Int
    BY <1>1
  <2> QED BY <1>1, <2>1, FS_Interval
<1>8. f \in Surjection(accounts, 0 .. (n - 1))
  <2>1. f \in Injection(accounts, 0 .. (n - 1))
    <3> HIDE DEF f, n
    <3> QED BY <1>5, <1>6 DEF Injection, IsInjective
  <2> HIDE DEF f
  <2>2. Cardinality(accounts) = Cardinality(0 .. (n - 1))
    BY <1>7
  <2> QED BY <1>7, <2>1, <2>2, FS_Injection
<1>9. place % n \in 0 .. (n - 1)
  <2> HIDE DEF n
  <2> QED BY <1>1
<1>10. \E a \in accounts : Cardinality(Less(a)) = place % n
  <2> HIDE DEF n, Less
  <2> QED BY <1>8, <1>9 DEF Surjection
<1> QED BY <1>10 DEF Turn


\* Leads L of campaign c get their rows, each on one of the accounts.
Lays(new, c, L, accounts) ==
  /\ new \in [Row -> RowRecord]
  /\ \A k \in Row :
       IF k[1] = c /\ k[2] \in L
         THEN new[k].status = "pending" /\ new[k].sent = NoTime /\ new[k].acct \in accounts
         ELSE new[k] = rows[k]
  /\ \A j, k \in Row :
       SameLead(j, k) /\ k[1] = c /\ k[2] \in L => new[j].acct = new[k].acct

LEMMA ScheduledIs ==
  ASSUME now \in Nat, rows \in [Row -> RowRecord], NEW c \in Campaign, NEW L, L \subseteq Lead,
         NEW accounts, accounts \subseteq Account, accounts # {} \/ L = {},
         NEW date \in Nat \cup {NoDate}, NEW r \in RuleSet
  PROVE  Lays(Scheduled(c, L, accounts, date, r), c, L, accounts)
<1> DEFINE new      == Scheduled(c, L, accounts, date, r)
           place(k) == Cardinality({l \in L : l < k[2]})
           at(k)    == FirstTimes(k[2], place(k), date, r)[k[3]]
           turn(k)  == Turn(place(k), accounts)
           row(k)   == [status |-> "pending", at |-> at(k), sent |-> NoTime, acct |-> turn(k)]
<1>1. ASSUME NEW k \in Row, k[2] \in L
      PROVE  at(k) \in Nat /\ turn(k) \in accounts
  <2>1. place(k) \in Nat
    <3>1. IsFiniteSet(Lead) /\ {l \in L : l < k[2]} \in SUBSET Lead
      BY PlannerAssumption
    <3>2. IsFiniteSet({l \in L : l < k[2]})
      BY <3>1, FS_Subset
    <3> QED BY <3>2, FS_CardinalityType
  <2>2. k[2] \in Lead /\ k[3] \in Step
    BY DEF Row
  <2> HIDE DEF place
  <2>3. at(k) \in Nat
    BY <2>1, <2>2, FirstTimesAre
  <2>4. turn(k) \in accounts
    <3>1. accounts # {}
      BY <1>1
    <3> QED BY <2>1, <3>1, TurnIs
  <2> QED BY <2>3, <2>4
<1>2. new = [k \in Row |-> IF k[1] = c /\ k[2] \in L THEN row(k) ELSE rows[k]]
  BY DEF Scheduled
<1>3. \A j, k \in Row : SameLead(j, k) => turn(j) = turn(k)
  BY DEF SameLead
<1> HIDE DEF at, turn
<1>4. ASSUME NEW k \in Row, k[1] = c, k[2] \in L
      PROVE  /\ new[k] \in RowRecord /\ new[k].status = "pending" /\ new[k].sent = NoTime
             /\ new[k].acct = turn(k)
  <2>1. new[k] = row(k)
    <3> HIDE DEF new, row
    <3> QED BY <1>2, <1>4
  <2>2. row(k) \in RowRecord
    BY <1>1, <1>4 DEF RowRecord, Time
  <2> HIDE DEF new
  <2> QED BY <2>1, <2>2
<1>5. \A k \in Row : ~(k[1] = c /\ k[2] \in L) => new[k] = rows[k]
  <2> HIDE DEF new, row
  <2> QED BY <1>2
<1>6. new \in [Row -> RowRecord]
  <2>1. \A k \in Row : new[k] \in RowRecord
    BY <1>4, <1>5
  <2>2. new = [k \in Row |-> new[k]]
    BY <1>2
  <2> HIDE DEF new
  <2> QED BY <2>1, <2>2
<1> HIDE DEF new
<1>7. \A k \in Row : IF k[1] = c /\ k[2] \in L
         THEN new[k].status = "pending" /\ new[k].sent = NoTime /\ new[k].acct \in accounts
         ELSE new[k] = rows[k]
  BY <1>1, <1>4, <1>5
<1>8. ASSUME NEW j \in Row, NEW k \in Row, SameLead(j, k), k[1] = c, k[2] \in L
      PROVE  new[j].acct = new[k].acct
  <2>1. j[1] = c /\ j[2] \in L
    BY <1>8 DEF SameLead
  <2> QED BY <1>3, <1>4, <1>8, <2>1
<1>9. Lays(new, c, L, accounts)
  BY <1>6, <1>7, <1>8 DEF Lays
<1> QED BY <1>9 DEF new


-----------------------------------------------------------------------------
(* What a tick that runs sees of a rebalance: which rows are due by its     *)
(* now.  TickEngine has no clock; what its Rebalanced asks of a rebalance   *)
(* inside the send loop is shown here of the plan itself.                   *)

\* A lead's rows of a campaign are on one account, and what was sent says so.
Together(rs) ==
  /\ \A k \in Row : rs[k].sent # NoTime <=> rs[k].status = "sent"
  /\ \A j, k \in Row : SameLead(j, k) /\ rs[j].status # "none" /\ rs[k].status # "none"
                         => rs[j].acct = rs[k].acct

\* The steps that were sent before the lead's first pending one, and the last
\* of these.
SentPrefix(k, rs) ==
  {s \in Step : /\ rs[Sibling(k, s)].status = "sent"
                /\ \A q \in 1 .. (s - 1) : rs[Sibling(k, q)].status # "pending"}

Anchor(k, rs) == {s \in SentPrefix(k, rs) : \A q \in SentPrefix(k, rs) : q <= s}

\* The row stood so far in the future that its campaign's dates count instead.
Stranded(k, cs, co, rs) ==
  LET r     == RulesFor(k[2], cs[k[1]].rules)
      date  == CohortDate(k, co)
      fresh == LeadAnchor(now, date, r)
  IN k[3] = 1 /\ PullBack(Max({Clamp(rs[k].at, r)} \cup CohortFloor(k, date, r)), fresh)

LEMMA LeadAnchorIsFresh ==
  ASSUME now \in Nat, NEW r \in RuleSet, NEW d \in Nat \cup {NoDate}
  PROVE  LeadAnchor(now, d, r) >= now
<1> DEFINE x == StartAnchor(now, r.start, r)
           y == StartAnchor(now, d, r)
           S == {x, y}
<1>1. ASSUME NEW e \in Nat \cup {NoDate} PROVE StartAnchor(now, e, r) \in Nat /\ StartAnchor(now, e, r) >= now
  <2>1. e \in Int
    BY DEF NoDate
  <2>2. Opening(e, r) \in Int
    BY <2>1, OpeningOfDay
  <2> QED BY <2>2 DEF StartAnchor
<1>2. x \in Nat /\ x >= now /\ y \in Nat
  BY <1>1 DEF RuleSet
<1>3. LeadAnchor(now, d, r) = Max(S)
  BY DEF LeadAnchor
<1> HIDE DEF x, y
<1>4. Max(S) >= x /\ Max(S) \in Int
  <2>1. x \in Int /\ y \in Int
    BY <1>2
  <2>2. S = {x, y}
    OBVIOUS
  <2> HIDE DEF S
  <2> QED BY <2>1, <2>2, MaxOfTwo
<1> HIDE DEF S
<1> QED BY <1>2, <1>3, <1>4

\* Without a mail to wait for, a row stays where it is or later, unless it
\* was stranded.
LEMMA FirstAnchorStays ==
  ASSUME NEW cs, NEW co, NEW rs, Tables(cs, co, rs), NEW k \in Row, SentBefore(k, rs) = {}
  PROVE  \/ FirstAnchor(k, cs, co, rs) >= rs[k].at
         \/ FirstAnchor(k, cs, co, rs) >= now /\ Stranded(k, cs, co, rs)
<1> DEFINE r     == RulesFor(k[2], cs[k[1]].rules)
           date  == CohortDate(k, co)
           E     == {Clamp(rs[k].at, r)} \cup CohortFloor(k, date, r)
           fresh == LeadAnchor(now, date, r)
           pull  == k[3] = 1 /\ (r.start # NoDate \/ date # NoDate) /\ PullBack(Max(E), fresh)
<1>1. r \in RuleSet /\ now \in Nat /\ rs[k].at \in Nat
  BY RulesOfRow DEF Tables
<1>2. date \in Nat \cup {NoDate}
  <2>1. <<k[1], k[2]>> \in Pair
    BY IdsAreNumbers DEF Pair
  <2>2. co[<<k[1], k[2]>>] \in Nat \cup {NoDate, NotIn}
    BY <2>1 DEF Tables
  <2> QED BY <2>2 DEF CohortDate
<1>3. Max(E) >= rs[k].at
  <2> DEFINE x == Clamp(rs[k].at, r)
             y == Clamp(Opening(date, r), r)
  <2>1. x \in Int /\ x >= rs[k].at
    BY <1>1, ClampIs
  <2>2. y \in Int
    <3>1. date \in Int
      BY <1>2 DEF NoDate
    <3>2. Opening(date, r) \in Int
      BY <1>1, <3>1, OpeningOfDay
    <3> QED BY <1>1, <3>2, ClampIs
  <2>3. E = {x, y} \/ E = {x, x}
    BY DEF CohortFloor
  <2> HIDE DEF x, y, E
  <2>4. Max(E) \in Int /\ Max(E) >= x
    BY <2>1, <2>2, <2>3, MaxOfTwo
  <2> QED BY <1>1, <2>1, <2>4
<1>4. fresh >= now
  BY <1>1, <1>2, LeadAnchorIsFresh
<1>5. FirstAnchor(k, cs, co, rs) = IF pull THEN fresh ELSE Max(E)
  BY DEF FirstAnchor
<1>6. pull => Stranded(k, cs, co, rs)
  BY DEF Stranded
<1> HIDE DEF r, date, E, fresh, pull
<1> QED BY <1>3, <1>4, <1>5, <1>6


\* The last step sent before a lead's first pending row f is its anchor.
LEMMA AnchorIs ==
  ASSUME NEW cs, NEW co, NEW rs, Tables(cs, co, rs), Together(rs),
         NEW k \in Row, NEW f \in Row, SameLead(f, k), rs[f].status = "pending",
         \A q \in 1 .. (f[3] - 1) : rs[Sibling(k, q)].status # "pending"
  PROVE  /\ Anchor(k, rs) # {} <=> SentBefore(f, rs) # {}
         /\ \A s \in Anchor(k, rs) : SentBefore(f, rs) # {} /\ s = Max(SentBefore(f, rs))
<1> DEFINE B == SentBefore(f, rs)
           X == SentPrefix(k, rs)
<1>1. /\ f[3] \in 1 .. Steps /\ Steps \in Nat /\ f = Sibling(k, f[3])
      /\ \A q \in Step : Sibling(f, q) = Sibling(k, q) /\ Sibling(k, q) \in Row
  BY IdsAreNumbers, PlannerAssumption DEF SameLead, Sibling, Row, Step
<1>2. ASSUME NEW s \in X PROVE s \in B
  <2>1. /\ s \in 1 .. Steps /\ rs[Sibling(k, s)].status = "sent"
        /\ \A q \in 1 .. (s - 1) : rs[Sibling(k, q)].status # "pending"
    BY <1>2 DEF SentPrefix, Step
  <2>2. s # f[3]
    BY <1>1, <2>1
  <2>3. ~(f[3] < s)
    BY <1>1, <2>1
  <2>4. s \in 1 .. (f[3] - 1)
    BY <1>1, <2>1, <2>2, <2>3
  <2>5. rs[Sibling(f, s)].sent # NoTime
    BY <1>1, <2>1 DEF Together, Step
  <2> QED BY <2>4, <2>5 DEF SentBefore
<1>3. ASSUME NEW s \in B PROVE s \in X
  <2>1. s \in 1 .. (f[3] - 1) /\ s \in Step /\ rs[Sibling(f, s)].sent # NoTime
    BY <1>1 DEF SentBefore, Step
  <2>2. rs[Sibling(k, s)].status = "sent"
    BY <1>1, <2>1 DEF Together
  <2>3. \A q \in 1 .. (s - 1) : q \in 1 .. (f[3] - 1)
    BY <1>1, <2>1
  <2> QED BY <2>1, <2>2, <2>3 DEF SentPrefix
<1>4. X = B /\ Anchor(k, rs) = {s \in B : \A q \in B : q <= s}
  BY <1>2, <1>3 DEF Anchor
<1>5. B # {} => Max(B) \in B /\ \A q \in B : Max(B) >= q
  BY SentBeforeIs
<1>6. B \subseteq Int
  BY <1>1 DEF SentBefore
<1> HIDE DEF B, X
<1>7. ASSUME B # {} PROVE Max(B) \in Anchor(k, rs)
  BY <1>4, <1>5, <1>6, <1>7
<1>8. ASSUME NEW s \in Anchor(k, rs) PROVE B # {} /\ s = Max(B)
  <2>1. s \in B /\ \A q \in B : q <= s
    BY <1>4, <1>8
  <2>2. B # {} /\ Max(B) \in B
    BY <1>5, <2>1
  <2>3. Max(B) >= s /\ Max(B) <= s
    BY <1>5, <2>1, <2>2
  <2>4. Max(B) \in Int /\ s \in Int
    BY <1>6, <2>1, <2>2
  <2> QED BY <2>2, <2>3, <2>4
<1> QED BY <1>7, <1>8 DEF B

\* A lead has a first pending row on the account, which waits for its anchor;
\* the rows behind it follow by their delays.
LEMMA FirstOfLead ==
  ASSUME NEW cs, NEW co, NEW rs, NEW lim, NEW a \in Account, Tables(cs, co, rs), Together(rs),
         NEW plan, WellPlaced(plan, a, cs, co, rs, lim), NEW k \in Pending(cs, rs, a)
  PROVE  \E f \in Pending(cs, rs, a) :
           /\ SameLead(f, k) /\ f[3] <= k[3]
           /\ \A q \in 1 .. (f[3] - 1) : rs[Sibling(k, q)].status # "pending"
           /\ plan[f] \in Nat /\ plan[k] \in Nat
           /\ plan[f] >= FirstAnchor(f, cs, co, rs)
           /\ f # k => plan[k] >= plan[f] + Delay[k[3]] * DaySlots
<1> DEFINE P == Pending(cs, rs, a)
           K == {j \in P : SameLead(j, k)}
<1>1. P \subseteq Row /\ k \in Row
  BY DEF Pending
<1>2. PICK f \in K : \A j \in K : SameLead(j, f) => j[3] >= f[3]
  <2>1. K \in SUBSET Row /\ K # {}
    BY <1>1 DEF SameLead
  <2> HIDE DEF K
  <2> QED BY <2>1, ForemostExists DEF Foremost, SameLead
<1>3. f \in P /\ SameLead(f, k) /\ \A j \in P : SameLead(j, k) => j[3] >= f[3]
  BY <1>2 DEF SameLead
<1>4. f \in Row /\ f[3] \in Nat /\ k[3] \in Nat /\ f[3] <= k[3] /\ f[3] \in 1 .. Steps /\ Steps \in Nat
  <2>1. f[3] \in Nat /\ k[3] \in Nat /\ k[3] >= f[3] /\ f[3] \in 1 .. Steps
    BY <1>1, <1>3, IdsAreNumbers DEF SameLead
  <2> QED BY <1>1, <1>3, <2>1, PlannerAssumption
<1>5. ASSUME NEW q \in 1 .. (f[3] - 1), rs[Sibling(k, q)].status = "pending" PROVE FALSE
  <2> DEFINE j == Sibling(k, q)
  <2>1. j \in Row /\ SameLead(j, k) /\ j[3] = q /\ j[1] = k[1]
    BY <1>1, <1>4, IdsAreNumbers DEF Sibling, SameLead, Row, Step
  <2>2. rs[j].acct = rs[k].acct
    BY <1>1, <1>5, <2>1 DEF Together, Pending
  <2>3. j \in P
    BY <1>5, <2>1, <2>2 DEF Pending
  <2>4. q >= f[3]
    BY <1>3, <2>1, <2>3
  <2> QED BY <1>4, <2>4
<1>6. plan[f] \in Nat /\ plan[k] \in Nat
  BY <1>1, <1>3 DEF WellPlaced, In, Time
<1>7. f \in Foremost(P)
  BY <1>3 DEF Foremost, SameLead
<1>8. plan[f] >= FirstAnchor(f, cs, co, rs)
  BY <1>7 DEF WellPlaced
<1>9. ASSUME f # k PROVE plan[k] >= plan[f] + Delay[k[3]] * DaySlots
  <2>1. f[3] # k[3]
    BY <1>1, <1>3, <1>4, <1>9, IdsAreNumbers DEF SameLead
  <2>2. f[3] < k[3]
    BY <1>4, <2>1
  <2>3. f \in In(plan) /\ k \in In(plan) /\ Delayed(plan)
    BY <1>3 DEF WellPlaced
  <2> QED BY <1>3, <2>2, <2>3 DEF Delayed
<1> HIDE DEF P, K
<1> QED BY <1>3, <1>4, <1>5, <1>6, <1>8, <1>9 DEF P


\* What the rows rs have become, to a tick that began at T: rows outside the
\* accounts and the open campaigns stay as they are; a follow-up is due only if
\* the lead's earlier pending rows are; a row whose anchor left in this tick is
\* due only if its step has no delay; a first row without an anchor does not fall
\* due earlier than it was, unless it is stranded and the rebalance runs in the
\* very second of T.
AsTickSees(new, A, cs, co, rs, T) ==
  LET scope     == UNION {Pending(cs, rs, a) : a \in A}
      was       == {k \in Row : rs[k].at <= T}
      due       == {k \in Row : new[k].at <= T}
      before(k) == {j \in scope : SameLead(j, k) /\ j[3] < k[3]}
  IN /\ \A k \in Row \ scope : new[k] = rs[k]
     /\ \A k \in scope \cap due :
          /\ before(k) \subseteq due
          /\ (\E s \in Anchor(k, rs) : rs[Sibling(k, s)].sent >= T) => Delay[k[3]] = 0
          /\ Anchor(k, rs) = {} /\ before(k) = {}
               => k \in was \/ (now = T /\ Stranded(k, cs, co, rs))

\* What rebalancePendingSchedulesTx does to the rows a running tick has loaded is
\* what TickEngine's Rebalanced allows, whatever plan, rules and limits it works
\* with, for every tick that began at a T not after now.
THEOREM TickSeesRebalanced ==
  ASSUME UsageKnown, NEW lim, SomeLimit(lim), NEW A, A \subseteq Account,
         NEW cs, NEW co, NEW rs, Tables(cs, co, rs), rs \in [Row -> RowRecord], Together(rs),
         NEW T \in Nat, T <= now
  PROVE  AsTickSees(Rebalanced(A, cs, co, rs, lim), A, cs, co, rs, T)
<1> DEFINE new   == Rebalanced(A, cs, co, rs, lim)
           scope == UNION {Pending(cs, rs, a) : a \in A}
           was   == {k \in Row : rs[k].at <= T}
           due   == {k \in Row : new[k].at <= T}
<1>1. /\ \A k \in Row : (\A a \in A : k \notin Pending(cs, rs, a)) => new[k] = rs[k]
      /\ \A a \in A : WellPlaced(PlanOf(a, cs, new), a, cs, co, rs, lim)
  BY RebalancedIs DEF Moves
<1> HIDE DEF new
<1>2. \A k \in Row \ scope : new[k] = rs[k]
  BY <1>1
<1>3. ASSUME NEW a \in A, NEW k \in Pending(cs, rs, a), new[k].at <= T
      PROVE  /\ {j \in scope : SameLead(j, k) /\ j[3] < k[3]} \subseteq due
             /\ (\E s \in Anchor(k, rs) : rs[Sibling(k, s)].sent >= T) => Delay[k[3]] = 0
             /\ Anchor(k, rs) = {} /\ {j \in scope : SameLead(j, k) /\ j[3] < k[3]} = {}
                  => k \in was \/ (now = T /\ Stranded(k, cs, co, rs))
  <2> DEFINE plan == PlanOf(a, cs, new)
             P    == Pending(cs, rs, a)
  <2>1. WellPlaced(plan, a, cs, co, rs, lim) /\ a \in Account /\ k \in Row
    BY <1>1 DEF Pending
  <2>2. \A j \in P : plan[j] = new[j].at /\ plan[j] \in Nat /\ j \in Row
    <3>1. /\ plan = [j \in Row |-> IF j \in Pending(cs, new, a) THEN new[j].at ELSE NoTime]
          /\ plan \in [Row -> Time] /\ In(plan) = P
      BY <2>1 DEF WellPlaced, PlanOf
    <3> HIDE DEF plan, P
    <3> QED BY <3>1 DEF In, Time
  <2> HIDE DEF plan
  <2>3. PICK f \in P :
           /\ SameLead(f, k) /\ f[3] <= k[3]
           /\ \A q \in 1 .. (f[3] - 1) : rs[Sibling(k, q)].status # "pending"
           /\ plan[f] \in Nat /\ plan[k] \in Nat
           /\ plan[f] >= FirstAnchor(f, cs, co, rs)
           /\ f # k => plan[k] >= plan[f] + Delay[k[3]] * DaySlots
    BY <2>1, FirstOfLead
  <2>4. /\ f \in Row /\ rs[f].status = "pending" /\ Delay[k[3]] \in Nat /\ Delay[f[3]] \in Nat
        /\ DaySlots \in Nat \ {0} /\ now \in Nat
    BY <2>1, <2>2, <2>3, IdsAreNumbers, DaySlotsAssumption DEF Pending, Tables
  <2>5. /\ Anchor(k, rs) # {} <=> SentBefore(f, rs) # {}
        /\ \A s \in Anchor(k, rs) : SentBefore(f, rs) # {} /\ s = Max(SentBefore(f, rs))
    BY <2>1, <2>3, <2>4, AnchorIs
  <2>6. {j \in scope : SameLead(j, k) /\ j[3] < k[3]} \subseteq due
    <3>1. SUFFICES ASSUME NEW j \in scope, SameLead(j, k), j[3] < k[3] PROVE j \in due
      OBVIOUS
    <3>2. PICK b \in A : j \in Pending(cs, rs, b)
      OBVIOUS
    <3>3. j \in P
      <4>1. j \in Row /\ rs[j].acct = rs[k].acct /\ rs[k].acct = a
        BY <2>1, <3>1, <3>2 DEF Together, Pending
      <4> QED BY <3>2, <4>1 DEF Pending
    <3>4. plan[k] >= plan[j] + Delay[k[3]] * DaySlots
      <4>1. k \in In(plan) /\ j \in In(plan) /\ Delayed(plan)
        BY <2>1, <3>3 DEF WellPlaced
      <4> QED BY <3>1, <4>1 DEF Delayed
    <3>5. new[j].at <= new[k].at /\ j \in Row
      <4>1. plan[j] = new[j].at /\ plan[k] = new[k].at /\ plan[j] \in Nat /\ plan[k] \in Nat /\ j \in Row
        BY <2>2, <3>3
      <4>2. Delay[k[3]] * DaySlots >= 0
        BY <2>4
      <4> QED BY <2>4, <3>4, <4>1, <4>2
    <3>6. new[j].at \in Nat /\ new[k].at \in Nat
      BY <2>2, <3>3
    <3> QED BY <1>3, <3>5, <3>6
  <2>7. ASSUME NEW s \in Anchor(k, rs), rs[Sibling(k, s)].sent >= T PROVE Delay[k[3]] = 0
    <3> DEFINE last == rs[Sibling(f, s)].sent
               x    == FirstAnchor(f, cs, co, rs)
    <3>1. s = Max(SentBefore(f, rs)) /\ SentBefore(f, rs) # {}
      BY <2>5
    <3>2. last \in Nat /\ last >= T
      <4>1. last \in Nat
        BY <2>4, <3>1, SentBeforeIs
      <4>2. Sibling(f, s) = Sibling(k, s)
        BY <2>3 DEF SameLead, Sibling
      <4> QED BY <2>7, <4>1, <4>2
    <3>3. x \in Nat /\ x >= last + Delay[f[3]] * DaySlots
      BY <2>4, <3>1, FirstAnchorIs
    <3> HIDE DEF last, x
    <3>4. plan[f] >= x /\ plan[f] \in Nat /\ plan[k] \in Nat /\ plan[k] <= T
      BY <1>3, <2>2, <2>3 DEF x
    <3>5. Delay[k[3]] * DaySlots <= 0
      <4>1. Delay[f[3]] * DaySlots \in Nat /\ Delay[k[3]] * DaySlots \in Nat
        BY <2>4
      <4>2. CASE f = k
        BY <3>2, <3>3, <3>4, <4>1, <4>2
      <4>3. CASE f # k
        <5>1. plan[k] >= plan[f] + Delay[k[3]] * DaySlots
          BY <2>3, <4>3
        <5> QED BY <3>2, <3>3, <3>4, <4>1, <5>1
      <4> QED BY <4>2, <4>3
    <3>6. ASSUME NEW d \in Nat, NEW n \in Nat \ {0}, d * n <= 0 PROVE d = 0
      BY <3>6
    <3> QED BY <2>4, <3>5, <3>6
  <2>8. ASSUME Anchor(k, rs) = {}, {j \in scope : SameLead(j, k) /\ j[3] < k[3]} = {}
        PROVE  k \in was \/ (now = T /\ Stranded(k, cs, co, rs))
    <3>1. f = k
      <4>1. f \in scope
        OBVIOUS
      <4>2. ~(f[3] < k[3])
        BY <2>3, <2>8, <4>1
      <4>3. f[3] = k[3]
        <5>1. f[3] \in Nat /\ k[3] \in Nat
          BY <2>1, <2>4, IdsAreNumbers
        <5> QED BY <2>3, <4>2, <5>1
      <4> QED BY <2>1, <2>3, <2>4, <4>3, IdsAreNumbers DEF SameLead
    <3>2. SentBefore(k, rs) = {}
      BY <2>5, <2>8, <3>1
    <3> DEFINE x == FirstAnchor(k, cs, co, rs)
    <3>3. x >= rs[k].at \/ (x >= now /\ Stranded(k, cs, co, rs))
      BY <2>1, <3>2, FirstAnchorStays
    <3>4. x \in Nat /\ rs[k].at \in Nat
      BY <2>1, FirstAnchorIs DEF Tables
    <3>5. new[k].at >= x /\ new[k].at \in Nat
      BY <2>2, <2>3, <3>1
    <3> HIDE DEF x
    <3>6. CASE x >= rs[k].at
      <4>1. rs[k].at <= T
        BY <1>3, <3>4, <3>5, <3>6
      <4> QED BY <2>1, <4>1
    <3>7. CASE x >= now /\ Stranded(k, cs, co, rs)
      <4>1. now = T
        BY <1>3, <2>4, <3>4, <3>5, <3>7
      <4> QED BY <3>7, <4>1
    <3> QED BY <3>3, <3>6, <3>7
  <2> HIDE DEF scope, was, due
  <2> QED BY <2>6, <2>7, <2>8
<1>4. \A k \in scope \cap due :
        /\ {j \in scope : SameLead(j, k) /\ j[3] < k[3]} \subseteq due
        /\ (\E s \in Anchor(k, rs) : rs[Sibling(k, s)].sent >= T) => Delay[k[3]] = 0
        /\ Anchor(k, rs) = {} /\ {j \in scope : SameLead(j, k) /\ j[3] < k[3]} = {}
             => k \in was \/ (now = T /\ Stranded(k, cs, co, rs))
  <2> TAKE k \in scope \cap due
  <2>1. PICK a \in A : k \in Pending(cs, rs, a)
    OBVIOUS
  <2>2. new[k].at <= T
    OBVIOUS
  <2> HIDE DEF scope, was, due
  <2> QED BY <1>3, <2>1, <2>2
<1> HIDE DEF scope, was, due
<1> QED BY <1>2, <1>4 DEF new, scope, was, due, AsTickSees
=============================================================================
