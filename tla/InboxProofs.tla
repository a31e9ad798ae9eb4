---------------------------- MODULE InboxProofs ----------------------------
(* The inbox under any number of accounts, messages, events and pages:      *)
(* types, one event to a message, and that the poll, the reconciliation and *)
(* the notifier implement Outbox.                                           *)
EXTENDS InboxProperties, FiniteSetTheorems, TLAPS

Pc == {"off", "ensure", "baseline", "subscribe", "list", "handle", "record", "keep", "heed",
       "advance", "page", "post", "note", "close", "scan", "apply", "mark", "copy", "echo", "find"}

Job == [pc : Pc, accts : Seq(Account), batch : Seq(Msg),
        page : Seq([id : Nat, source : {"poll", "reconciled"}]), pass : {0, 1, 2},
        failed : BOOLEAN, bare : SUBSET Msg, base : Nat, began : Nat \cup {NoTime},
        seen : SUBSET Msg]

\* What a worker does with a message, an account or an announcement in hand.
Handling  == {"handle", "record", "keep", "heed", "mark"}
MsgWork   == Handling \cup {"apply", "copy", "echo"}
AcctWork  == MsgWork \cup {"list", "advance", "scan"}
PageWork  == {"post", "note"}

Fit(w, r) ==
  /\ r \in Job
  /\ r.pc \in AcctWork => r.accts # <<>>
  /\ w \in Ticks /\ r.pc \in {"ensure", "baseline", "subscribe"} => r.accts # <<>>
  /\ r.pc \in MsgWork => r.batch # <<>>
  /\ r.pc \in PageWork => r.page # <<>>
  /\ r.pc \in Handling => Inbound(Head(r.batch))
  /\ r.pc \in {"copy", "echo"} => ~Inbound(Head(r.batch))
  /\ w \in Ticks => \A n \in DOMAIN r.batch : Inbound(r.batch[n])

JobsFit == job \in [Worker -> Job] /\ \A w \in Worker : Fit(w, job[w])

\* What is announced next is an event, or was a moment ago, and so is what a
\* subscriber takes for the newest.
PagesThere ==
  \A w \in Worker :
    /\ \A n \in DOMAIN job[w].page : job[w].page[n].id \in DOMAIN log
    /\ job[w].base \in {0} \cup DOMAIN log

TypeInv == TypeOK /\ IsFiniteSet(shown) /\ JobsFit /\ PagesThere

-----------------------------------------------------------------------------
LEMMA AccountsTyped == Accounts \in Seq(Account) /\ Accounts # <<>>
BY LedgerAssumption, WorkersAssumption

LEMMA OffFits == Off \in Job /\ \A w \in Worker : Fit(w, Off)
BY DEF Fit, Off, Job, Pc, NoTime, Handling, MsgWork, AcctWork, PageWork

LEMMA GotoTyped ==
  ASSUME NEW r \in Job, NEW pc \in Pc
  PROVE  LET s == [r EXCEPT !.pc = pc] IN
           /\ s \in Job /\ s.pc = pc
           /\ s.accts = r.accts /\ s.batch = r.batch /\ s.page = r.page /\ s.base = r.base
           /\ s.bare = r.bare
BY DEF Job

LEMMA ThenFits ==
  ASSUME NEW w \in Worker, NEW r \in Job, r.batch = <<>>
  PROVE  Fit(w, Then(w, r)) /\ Then(w, r).page = r.page /\ Then(w, r).base = r.base
<1> DEFINE s == Then(w, r)
<1>1. s \in Job
  BY AccountsTyped DEF Then, Job, Pc
<1>2. s.batch = <<>> /\ s.page = r.page /\ s.base = r.base
  BY DEF Then, Job
<1>3. \/ s.pc \in {"close", "page", "find"}
      \/ s.pc \in {"list", "scan"} /\ s.accts # <<>>
  <2>1. CASE r.accts # <<>>
    BY <2>1 DEF Then, Job
  <2>2. CASE r.accts = <<>> /\ w \notin Ticks /\ ~r.failed /\ r.pass = 1
    BY <2>2, AccountsTyped DEF Then, Job
  <2>3. CASE r.accts = <<>> /\ ~(w \notin Ticks /\ ~r.failed /\ r.pass = 1)
    BY <2>3 DEF Then, Job
  <2> QED BY <2>1, <2>2, <2>3
<1> HIDE DEF s
<1>4. Fit(w, s)
  BY <1>1, <1>2, <1>3 DEF Fit, Handling, MsgWork, AcctWork, PageWork
<1> QED BY <1>2, <1>4 DEF s

LEMMA NextAccountFits ==
  ASSUME NEW w \in Worker, NEW r \in Job, r.accts # <<>>
  PROVE  Fit(w, NextAccount(w, r)) /\ NextAccount(w, r).page = r.page /\ NextAccount(w, r).base = r.base
<1> DEFINE s == [r EXCEPT !.accts = Tail(@), !.batch = <<>>, !.bare = {}]
<1>1. Tail(r.accts) \in Seq(Account) /\ <<>> \in Seq(Msg)
  BY DEF Job
<1>2. s \in Job /\ s.batch = <<>> /\ s.page = r.page /\ s.base = r.base
  BY <1>1 DEF Job
<1>3. Fit(w, Then(w, s)) /\ Then(w, s).page = s.page /\ Then(w, s).base = s.base
  BY <1>2, ThenFits
<1> QED BY <1>2, <1>3 DEF NextAccount

LEMMA NextMessageFits ==
  ASSUME NEW w \in Worker, NEW r \in Job, r.accts # <<>>, r.batch # <<>>,
         w \in Ticks => \A n \in DOMAIN r.batch : Inbound(r.batch[n])
  PROVE  Fit(w, NextMessage(w, r)) /\ NextMessage(w, r).page = r.page /\ NextMessage(w, r).base = r.base
<1> DEFINE rest == Tail(r.batch)
<1>0. rest \in Seq(Msg) /\ \A n \in DOMAIN rest : rest[n] = r.batch[n + 1] /\ n + 1 \in DOMAIN r.batch
  BY DEF Job
<1>r. w \in Ticks => \A n \in DOMAIN rest : Inbound(rest[n])
  BY <1>0
<1>1. CASE rest = <<>> /\ w \notin Ticks
  BY <1>1, NextAccountFits DEF NextMessage
<1>2. CASE ~(rest = <<>> /\ w \notin Ticks)
  <2> DEFINE pc == IF rest = <<>> THEN "advance" ELSE IF w \in Ticks THEN "handle" ELSE "apply"
             s  == [r EXCEPT !.batch = rest, !.pc = pc]
  <2>1. NextMessage(w, r) = s
    BY <1>2 DEF NextMessage
  <2>2. pc \in Pc /\ (rest = <<>> => pc = "advance") /\ (rest # <<>> => pc = IF w \in Ticks THEN "handle" ELSE "apply")
    BY DEF Pc
  <2> HIDE DEF pc, rest
  <2>3. s \in Job /\ s.batch = rest /\ s.pc = pc /\ s.page = r.page /\ s.base = r.base /\ s.accts = r.accts
    BY <1>0, <2>2 DEF Job
  <2> HIDE DEF s
  <2>4. rest # <<>> => 1 \in DOMAIN rest /\ Head(rest) = rest[1]
    BY <1>0
  <2>5. Fit(w, s)
    BY <1>r, <2>2, <2>3, <2>4 DEF Fit, Handling, MsgWork, AcctWork, PageWork
  <2> QED BY <2>1, <2>3, <2>5
<1> QED BY <1>1, <1>2

-----------------------------------------------------------------------------
(* What is in hand, and what becomes of a job. *)

LEMMA HandTyped ==
  ASSUME JobsFit, NEW w \in Worker
  PROVE  /\ job[w] \in Job /\ Fit(w, job[w])
         /\ job[w].pc \in AcctWork => job[w].accts # <<>> /\ Here(w) \in Account
         /\ job[w].pc \in MsgWork => job[w].batch # <<>> /\ Hand(w) \in Msg
         /\ job[w].pc \in Handling => Inbound(Hand(w)) /\ TypeRead(w) \in InboundTypes
<1>1. job[w] \in Job /\ Fit(w, job[w])
  BY DEF JobsFit, Fit
<1>2. /\ job[w].accts \in Seq(Account) /\ job[w].batch \in Seq(Msg) /\ job[w].bare \in SUBSET Msg
      /\ job[w].accts # <<>> => Head(job[w].accts) \in Account
      /\ job[w].batch # <<>> => Head(job[w].batch) \in Msg
  BY <1>1 DEF Job
<1>3. job[w].pc \in Handling => Inbound(Hand(w)) /\ TypeRead(w) \in InboundTypes
  BY <1>1, <1>2, LedgerAssumption DEF Fit, Handling, MsgWork, Hand, Inbound, TypeRead, InboundTypes
<1> QED BY <1>1, <1>2, <1>3 DEF Fit, Hand, Here, MsgWork, AcctWork

LEMMA GotoFits ==
  ASSUME JobsFit, NEW w \in Worker, NEW pc \in Pc,
         pc \in AcctWork => job[w].accts # <<>>,
         w \in Ticks /\ pc \in {"ensure", "baseline", "subscribe"} => job[w].accts # <<>>,
         pc \in MsgWork => job[w].batch # <<>>,
         pc \in PageWork => job[w].page # <<>>,
         pc \in Handling => Inbound(Hand(w)),
         pc \in {"copy", "echo"} => ~Inbound(Hand(w))
  PROVE  LET r == [job[w] EXCEPT !.pc = pc] IN Fit(w, r) /\ r.page = job[w].page /\ r.base = job[w].base
<1> DEFINE r == [job[w] EXCEPT !.pc = pc]
<1>1. job[w] \in Job /\ Fit(w, job[w])
  BY HandTyped
<1>2. /\ r \in Job /\ r.pc = pc
      /\ r.accts = job[w].accts /\ r.batch = job[w].batch /\ r.page = job[w].page /\ r.base = job[w].base
  BY <1>1, GotoTyped
<1> HIDE DEF r
<1>3. Fit(w, r)
  BY <1>1, <1>2 DEF Fit, Hand
<1> QED BY <1>2, <1>3 DEF r

LEMMA Becoming ==
  ASSUME JobsFit, PagesThere, NEW w \in Worker, NEW r, Fit(w, r), Become(w, r),
         DOMAIN log \subseteq DOMAIN log',
         \A n \in DOMAIN r.page : r.page[n].id \in DOMAIN log,
         r.base \in {0} \cup DOMAIN log
  PROVE  JobsFit' /\ PagesThere'
<1>1. r \in Job /\ job' = [job EXCEPT ![w] = r] /\ job \in [Worker -> Job]
  BY DEF Fit, Become, JobsFit
<1>2. \A v \in Worker : job'[v] = IF v = w THEN r ELSE job[v]
  BY <1>1
<1>3. job' \in [Worker -> Job] /\ \A v \in Worker : Fit(v, job'[v])
  BY <1>1, <1>2 DEF JobsFit
<1>4. PagesThere'
  BY <1>2 DEF PagesThere
<1> QED BY <1>3, <1>4 DEF JobsFit

LEMMA Carrying ==
  ASSUME JobsFit, PagesThere, NEW w \in Worker, NEW r, Fit(w, r), Become(w, r),
         DOMAIN log \subseteq DOMAIN log', r.page \in {job[w].page, <<>>}, r.base \in {job[w].base, 0}
  PROVE  JobsFit' /\ PagesThere'
<1>1. /\ \A n \in DOMAIN r.page : r.page[n].id \in DOMAIN log
      /\ r.base \in {0} \cup DOMAIN log
  BY DEF PagesThere
<1> QED BY <1>1, Becoming

\* A failure is noted and the work goes on.
LEMMA FailedFits ==
  ASSUME JobsFit, NEW w \in Worker
  PROVE  LET r == Failed(w) IN
           /\ Fit(w, r) /\ r \in Job /\ r.pc = job[w].pc
           /\ r.accts = job[w].accts /\ r.batch = job[w].batch /\ r.page = job[w].page /\ r.base = job[w].base
<1> DEFINE r == Failed(w)
<1>1. job[w] \in Job /\ Fit(w, job[w])
  BY HandTyped
<1>2. /\ r \in Job /\ r.pc = job[w].pc
      /\ r.accts = job[w].accts /\ r.batch = job[w].batch /\ r.page = job[w].page /\ r.base = job[w].base
  BY <1>1 DEF Failed, Job
<1> HIDE DEF r
<1>3. Fit(w, r)
  BY <1>1, <1>2 DEF Fit
<1> QED BY <1>2, <1>3 DEF r

\* On to the next message, or the next account.
LEMMA Advancing ==
  ASSUME JobsFit, PagesThere, NEW w \in Worker, NEW r \in {job[w], Failed(w)},
         DOMAIN log \subseteq DOMAIN log',
         \/ Become(w, NextAccount(w, r)) /\ job[w].pc \in AcctWork
         \/ Become(w, NextMessage(w, r)) /\ job[w].pc \in MsgWork
  PROVE  JobsFit' /\ PagesThere'
<1>1. /\ r \in Job /\ Fit(w, r) /\ r.pc = job[w].pc
      /\ r.accts = job[w].accts /\ r.batch = job[w].batch /\ r.page = job[w].page /\ r.base = job[w].base
  BY HandTyped, FailedFits
<1>2. CASE Become(w, NextAccount(w, r)) /\ job[w].pc \in AcctWork
  <2>1. Fit(w, NextAccount(w, r)) /\ NextAccount(w, r).page = job[w].page /\ NextAccount(w, r).base = job[w].base
    BY <1>1, <1>2, NextAccountFits, HandTyped
  <2> QED BY <1>2, <2>1, Carrying
<1>3. CASE Become(w, NextMessage(w, r)) /\ job[w].pc \in MsgWork
  <2>1. /\ job[w].accts # <<>> /\ job[w].batch # <<>>
        /\ w \in Ticks => \A n \in DOMAIN r.batch : Inbound(r.batch[n])
    BY <1>1, <1>3 DEF Fit, AcctWork
  <2>2. Fit(w, NextMessage(w, r)) /\ NextMessage(w, r).page = job[w].page /\ NextMessage(w, r).base = job[w].base
    BY <1>1, <2>1, NextMessageFits
  <2> QED BY <1>3, <2>2, Carrying
<1> QED BY <1>2, <1>3

LEMMA Going ==
  ASSUME JobsFit, PagesThere, NEW w \in Worker, NEW pc \in Pc, Goto(w, pc),
         DOMAIN log \subseteq DOMAIN log',
         pc \in AcctWork => job[w].accts # <<>>,
         w \in Ticks /\ pc \in {"ensure", "baseline", "subscribe"} => job[w].accts # <<>>,
         pc \in MsgWork => job[w].batch # <<>>,
         pc \in PageWork => job[w].page # <<>>,
         pc \in Handling => Inbound(Hand(w)),
         pc \in {"copy", "echo"} => ~Inbound(Hand(w))
  PROVE  JobsFit' /\ PagesThere'
<1> DEFINE r == [job[w] EXCEPT !.pc = pc]
<1>1. Fit(w, r) /\ r.page = job[w].page /\ r.base = job[w].base
  BY GotoFits
<1>2. Become(w, r)
  BY DEF Goto
<1> QED BY <1>1, <1>2, Carrying

LEMMA Idle ==
  ASSUME JobsFit, PagesThere, UNCHANGED job, DOMAIN log \subseteq DOMAIN log'
  PROVE  JobsFit' /\ PagesThere'
BY DEF JobsFit, PagesThere, Fit

-----------------------------------------------------------------------------
(* The log. *)

\* An initial piece of the numbers up to n.
LEMMA SomeOrNone ==
  ASSUME NEW n \in Nat
  PROVE  /\ n \in {0} \cup 1 .. n
         /\ \A k \in {0} \cup 1 .. n : k \in 0 .. n /\ 1 .. k \subseteq 1 .. n
  OBVIOUS

LEMMA LogNumbers == TypeOK => Len(log) \in Nat /\ DOMAIN log = 1 .. Len(log)
<1>1. TypeOK => log \in Seq(Entry)
  BY DEF TypeOK
<1> QED BY <1>1

LEMMA InsertTyped ==
  ASSUME TypeOK, NEW m \in Msg, NEW type \in InboundTypes \cup {"manual_reply"},
         NEW by \in {"tick", "audit"}, Insert(m, type, by)
  PROVE  /\ log' \in Seq(Entry) /\ Len(log') = Len(log) + 1
         /\ DOMAIN log \subseteq DOMAIN log' /\ \A i \in DOMAIN log : log'[i] = log[i]
         /\ log'[Len(log) + 1].msg = m /\ log'[Len(log) + 1].type = type
<1> DEFINE e == [msg |-> m, type |-> type, source |-> "poll", by |-> by]
<1>1. e \in Entry /\ log \in Seq(Entry) /\ log' = Append(log, e)
  BY DEF Entry, TypeOK, Insert
<1>2. e.msg = m /\ e.type = type
  OBVIOUS
<1> HIDE DEF e
<1> QED BY <1>1, <1>2

LEMMA SnapshotTyped ==
  ASSUME TypeOK, NEW m \in Msg, NEW type \in InboundTypes \cup {"manual_reply"}, Snapshot(m, type)
  PROVE  snaps' \in Seq(Copied)
<1> DEFINE c == [msg |-> m, type |-> type]
<1>1. c \in Copied /\ snaps \in Seq(Copied) /\ snaps' = Append(snaps, c)
  BY DEF Copied, TypeOK, Snapshot
<1> HIDE DEF c
<1> QED BY <1>1

LEMMA RelabelledTyped ==
  ASSUME TypeOK, NEW m, NEW type, log' = Relabelled(m, type)
  PROVE  /\ log' \in Seq(Entry) /\ Len(log') = Len(log) /\ DOMAIN log' = DOMAIN log
         /\ \A i \in DOMAIN log : log'[i].msg = log[i].msg /\ log'[i].type = log[i].type
<1>1. log \in Seq(Entry)
  BY DEF TypeOK
<1>2. \A i \in DOMAIN log :
        /\ log[i] \in Entry /\ [log[i] EXCEPT !.source = "reconciled"] \in Entry
        /\ [log[i] EXCEPT !.source = "reconciled"].msg = log[i].msg
        /\ [log[i] EXCEPT !.source = "reconciled"].type = log[i].type
  <2>1. ASSUME NEW e \in Entry
        PROVE  LET f == [e EXCEPT !.source = "reconciled"] IN
                 f \in Entry /\ f.msg = e.msg /\ f.type = e.type
    BY DEF Entry
  <2>2. \A i \in DOMAIN log : log[i] \in Entry
    BY <1>1
  <2> QED BY <2>1, <2>2
<1>3. log' \in [1 .. Len(log) -> Entry]
  <2>1. DOMAIN log = 1 .. Len(log) /\ log' = Relabelled(m, type)
    BY <1>1
  <2>2. DOMAIN log' = DOMAIN log /\ log' = [i \in DOMAIN log |-> log'[i]]
    BY <2>1 DEF Relabelled
  <2>3. \A i \in DOMAIN log : log'[i] \in Entry
    BY <2>1, <1>2 DEF Relabelled
  <2> QED BY <2>1, <2>2, <2>3
<1>4. log' \in Seq(Entry) /\ Len(log') = Len(log) /\ DOMAIN log' = DOMAIN log
  BY <1>1, <1>3
<1>5. ASSUME NEW i \in DOMAIN log PROVE log'[i].msg = log[i].msg /\ log'[i].type = log[i].type
  BY <1>2 DEF Relabelled
<1> QED BY <1>4, <1>5

-----------------------------------------------------------------------------
LEMMA InitTyped == Init => TypeInv
<1> SUFFICES ASSUME Init PROVE TypeInv
  OBVIOUS
<1>1. TypeOK
  BY DEF Init, LedgerInit, TypeOK, NoTime, Unset, Nobody
<1>2. IsFiniteSet(shown)
  BY FS_EmptySet DEF Init, LedgerInit
<1>3. JobsFit
  <2>1. Off \in Job
    BY OffFits
  <2>2. job = [w \in Worker |-> Off]
    BY DEF Init
  <2>3. job \in [Worker -> Job] /\ \A w \in Worker : job[w] = Off
    BY <2>1, <2>2
  <2> HIDE DEF Init
  <2> QED BY <2>3, OffFits DEF JobsFit
<1>4. PagesThere
  BY DEF Init, PagesThere, Off
<1> QED BY <1>1, <1>2, <1>3, <1>4 DEF TypeInv

LEMMA OutsideTyped ==
  ASSUME TypeInv, Outside \/ Sever
  PROVE  TypeInv'
<1> DEFINE Kept == TypeOK' /\ IsFiniteSet(shown)' /\ UNCHANGED <<job, log>>
<1>1. Kept
  <2> USE DEF TypeInv, TypeOK, Spend, KeepAround, lineVars, feedVars, lockVars
  <2>1. ASSUME NEW m \in Msg, Arrive(m), KeepAround, UNCHANGED job PROVE Kept
    BY <2>1 DEF Arrive
  <2>2. ASSUME NEW m \in Msg, Show(m), KeepAround, UNCHANGED job PROVE Kept
    BY <2>2, FS_AddElement DEF Show
  <2>3. ASSUME NEW m \in Msg, MoveOut(m), KeepAround, UNCHANGED job PROVE Kept
    BY <2>3 DEF MoveOut
  <2>4. ASSUME Importers, KeepAround, UNCHANGED job PROVE Kept
    <3>1. PICK m \in Msg, type \in InboundTypes \cup {"manual_reply"} : Import(m, type)
      <4>1. \A m \in Msg : TypeOf(m) \in InboundTypes \cup {"manual_reply"}
        BY LedgerAssumption DEF TypeOf, InboundTypes
      <4>2. \A m \in Msg : \A i \in DOMAIN log : Backfill(m, i) =>
              \E type \in InboundTypes \cup {"manual_reply"} : Import(m, type)
        BY DEF Backfill, InboundTypes
      <4> QED BY <2>4, <4>1, <4>2 DEF Importers, Refresh
    <3> QED BY <2>4, <3>1, SnapshotTyped DEF Import
  <2>5. ASSUME Tock, KeepAround, UNCHANGED job PROVE Kept
    BY <2>5 DEF Tock
  <2>6. CASE Sever
    BY <2>6 DEF Sever, KeepMail, KeepStore
  <2> QED BY <2>1, <2>2, <2>3, <2>4, <2>5, <2>6 DEF Outside
<1>2. JobsFit' /\ PagesThere'
  BY <1>1, Idle DEF TypeInv
<1> QED BY <1>1, <1>2 DEF TypeInv

\* The handler goes to the next message, or lets reconciliation label it.
LEMMA HandsBack ==
  ASSUME NEW w, HandBack(w)
  PROVE  Become(w, NextMessage(w, job[w])) \/ Goto(w, "mark")
BY DEF HandBack, Goto

LEMMA HandleTyped ==
  ASSUME TypeInv, NEW w \in Locked, Handle(w)
  PROVE  TypeInv'
<1> USE DEF TypeInv, TypeOK, Holds, Fails, Forgets, Spend, KeepMail, KeepAround, ledgerVars, lineVars,
        feedVars, lockVars, At
<1>w. w \in Worker /\ (w \notin Ticks => w = "audit")
  BY DEF Locked, Worker
<1>h. job[w].pc \in Handling => /\ Hand(w) \in Msg /\ TypeRead(w) \in InboundTypes
                               /\ Inbound(Hand(w))
                               /\ job[w].accts # <<>> /\ job[w].batch # <<>>
                               /\ Of[Hand(w)] \in Account
  BY <1>w, HandTyped, LedgerAssumption DEF Handling, MsgWork, AcctWork
<1>g. \A pc \in {"record", "keep", "heed", "mark"} :
        pc \in Pc /\ pc \in Handling /\ pc \in MsgWork /\ pc \in AcctWork /\ pc \notin PageWork
        /\ pc \notin {"copy", "echo"}
  BY DEF Pc, Handling, MsgWork, AcctWork, PageWork
<1>p. job[w].pc \in {"handle", "record", "keep", "heed"} => job[w].pc \in Handling /\ job[w].pc \in MsgWork
  BY DEF Handling, MsgWork
<1>1. CASE Check(w)
  <2>1. TypeOK' /\ IsFiniteSet(shown)' /\ DOMAIN log \subseteq DOMAIN log' /\ job[w].pc = "handle"
    BY <1>1 DEF Check
  <2>2. JobsFit' /\ PagesThere'
    BY <1>1, <1>w, <1>h, <1>g, <1>p, <2>1, Going, Advancing, HandsBack DEF Check
  <2> QED BY <2>1, <2>2
<1>2. CASE Record(w)
  <2>1. DOMAIN log \subseteq DOMAIN log' /\ log' \in Seq(Entry) /\ Len(log) <= Len(log')
    BY <1>2, <1>w, <1>h, <1>p, InsertTyped DEF Record
  <2>2. TypeOK' /\ IsFiniteSet(shown)'
    BY <1>2, <2>1 DEF Record
  <2>3. JobsFit' /\ PagesThere'
    BY <1>2, <1>w, <1>h, <1>g, <1>p, <2>1, Going DEF Record
  <2> QED BY <2>2, <2>3
<1>3. CASE Store(w)
  <2>1. TypeOK' /\ IsFiniteSet(shown)' /\ DOMAIN log \subseteq DOMAIN log'
    <3>2. Snapshot(Hand(w), TypeRead(w)) \/ UNCHANGED snaps
      BY <1>3 DEF Store
    <3>3. snaps' \in Seq(Copied)
      BY <1>3, <1>h, <1>p, <3>2, SnapshotTyped DEF Store
    <3> QED BY <1>3, <3>3 DEF Store
  <2>2. JobsFit' /\ PagesThere'
    BY <1>3, <1>w, <1>h, <1>g, <1>p, <2>1, Going DEF Store
  <2> QED BY <2>1, <2>2
<1>4. CASE Stop(w)
  <2>1. TypeOK' /\ IsFiniteSet(shown)' /\ DOMAIN log \subseteq DOMAIN log'
    <3>1. member' \in [Account -> {"active", "replied", "paused"}] /\ lead' \in [Account -> {"active", "blacklisted"}]
      <4>1. CASE UNCHANGED <<member, lead>>
        BY <4>1
      <4>2. CASE Heed(Of[Hand(w)], TypeRead(w))
        BY <1>4, <1>h, <1>p, <4>2 DEF Stop, Heed
      <4> QED BY <1>4, <4>1, <4>2 DEF Stop
    <3> QED BY <1>4, <3>1 DEF Stop
  <2>2. JobsFit' /\ PagesThere'
    BY <1>4, <1>w, <1>h, <1>g, <1>p, <2>1, Going, Advancing, HandsBack DEF Stop
  <2> QED BY <2>1, <2>2
<1> QED BY <1>1, <1>2, <1>3, <1>4 DEF Handle

-----------------------------------------------------------------------------
LEMMA OrdersTyped ==
  ASSUME NEW S \in SUBSET Msg, IsFiniteSet(S), NEW s \in Orders(S)
  PROVE  s \in Seq(Msg) /\ \A n \in DOMAIN s : s[n] \in S
<1>1. Cardinality(S) \in Nat
  BY FS_CardinalityType
<1> QED BY <1>1 DEF Orders

LEMMA PagesTyped ==
  ASSUME TypeOK, NEW ids \in Pages(Fresh)
  PROVE  /\ ids \in Seq(Fresh) /\ Fresh \subseteq DOMAIN log
         /\ \A n \in DOMAIN ids : ids[n] \in Fresh /\ ids[n] \in Nat
<1>1. IsFiniteSet(Fresh) /\ Fresh \subseteq 1 .. Len(log)
  <2>1. Len(log) \in Nat /\ Fresh \subseteq 1 .. Len(log)
    BY DEF TypeOK, Fresh
  <2>2. IsFiniteSet(1 .. Len(log))
    BY <2>1, FS_Interval
  <2> QED BY <2>1, <2>2, FS_Subset
<1>2. Cardinality(Fresh) \in Nat /\ PageLimit \in Nat
  BY <1>1, FS_CardinalityType, WorkersAssumption
<1>3. Least(PageLimit, Cardinality(Fresh)) \in Nat
  BY <1>2 DEF Least
<1>4. ids \in [1 .. Least(PageLimit, Cardinality(Fresh)) -> Fresh]
  BY DEF Pages
<1>5. ids \in Seq(Fresh)
  BY <1>3, <1>4
<1>6. Fresh \subseteq DOMAIN log
  BY DEF Fresh
<1>7. \A n \in DOMAIN ids : ids[n] \in Fresh
  BY <1>4
<1> QED BY <1>1, <1>5, <1>6, <1>7

LEMMA TailOf ==
  ASSUME NEW T, NEW p \in Seq(T), p # <<>>
  PROVE  /\ Tail(p) \in Seq(T) /\ Len(Tail(p)) = Len(p) - 1
         /\ Len(p) # 1 => Tail(p) # <<>>
         /\ \A n \in DOMAIN Tail(p) : n + 1 \in DOMAIN p /\ Tail(p)[n] = p[n + 1]
<1>1. Tail(p) \in Seq(T) /\ Len(Tail(p)) = Len(p) - 1 /\ Len(p) \in Nat
  OBVIOUS
<1>2. Len(p) # 1 => Tail(p) # <<>>
  <2>1. Len(p) # 0 /\ Len(<<>>) = 0
    OBVIOUS
  <2>2. Tail(p) = <<>> => Len(Tail(p)) = 0
    BY <2>1, Zenon
  <2> QED BY <1>1, <2>1, <2>2
<1>3. \A n \in DOMAIN Tail(p) : n + 1 \in DOMAIN p /\ Tail(p)[n] = p[n + 1]
  BY <1>1
<1> QED BY <1>1, <1>2, <1>3

\* What is to be announced next, and what is left after it.
LEMMA PageTyped ==
  ASSUME TypeInv, NEW w \in Worker, job[w].page # <<>>
  PROVE  LET p == job[w].page IN
         /\ p \in Seq([id : Nat, source : {"poll", "reconciled"}]) /\ 1 \in DOMAIN p
         /\ InHand(w) = p[1] /\ InHand(w).id \in DOMAIN log /\ InHand(w).id \in 1 .. Len(log)
         /\ Tail(p) \in Seq([id : Nat, source : {"poll", "reconciled"}])
         /\ Len(p) # 1 => Tail(p) # <<>>
         /\ \A n \in DOMAIN Tail(p) : n + 1 \in DOMAIN p /\ Tail(p)[n] = p[n + 1]
<1> DEFINE p == job[w].page
<1>1. p \in Seq([id : Nat, source : {"poll", "reconciled"}])
  BY HandTyped DEF TypeInv, Job
<1>2. 1 \in DOMAIN p /\ Head(p) = p[1] /\ p[1].id \in DOMAIN log
  BY <1>1 DEF TypeInv, PagesThere
<1>3. log \in Seq(Entry)
  BY DEF TypeInv, TypeOK
<1>4. /\ Tail(p) \in Seq([id : Nat, source : {"poll", "reconciled"}])
      /\ Len(p) # 1 => Tail(p) # <<>>
      /\ \A n \in DOMAIN Tail(p) : n + 1 \in DOMAIN p /\ Tail(p)[n] = p[n + 1]
  BY <1>1, TailOf
<1>5. InHand(w) = p[1] /\ p[1].id \in 1 .. Len(log)
  BY <1>2, <1>3 DEF InHand
<1> HIDE DEF p
<1>6. p # <<>> /\ p = job[w].page
  BY DEF p
<1> QED BY <1>1, <1>2, <1>4, <1>5, <1>6

\* A tick goes on to its poll, a dry run ends.
LEMMA EnsuredFits ==
  ASSUME TypeInv, NEW w \in Subscribers, NEW r \in {job[w], Failed(w)}, Ensured(w, r),
         job[w].pc \in {"ensure", "baseline", "subscribe"}, DOMAIN log \subseteq DOMAIN log'
  PROVE  JobsFit' /\ PagesThere'
<1>w. w \in Worker
  BY DEF Subscribers, Locked, Worker
<1>1. /\ r \in Job /\ Fit(w, r) /\ r.pc = job[w].pc /\ r.page = job[w].page
  BY <1>w, HandTyped, FailedFits DEF TypeInv
<1>2. CASE w \in Ticks
  <2> DEFINE s == [r EXCEPT !.pc = "list", !.base = 0]
  <2>1. Become(w, s) /\ "list" \in Pc
    BY <1>2 DEF Ensured, Pc
  <2>2. /\ s \in Job /\ s.pc = "list" /\ s.accts = r.accts /\ s.batch = r.batch
        /\ s.page = r.page /\ s.base = 0
    BY <1>1, <2>1 DEF Job
  <2>3. r.accts # <<>>
    BY <1>1, <1>2 DEF Fit
  <2> HIDE DEF s
  <2>4. Fit(w, s)
    BY <1>1, <2>2, <2>3 DEF Fit, Handling, MsgWork, AcctWork, PageWork
  <2> QED BY <1>w, <1>1, <2>1, <2>2, <2>4, Carrying DEF TypeInv
<1>3. CASE w \notin Ticks
  <2>1. Become(w, Off) /\ Fit(w, Off) /\ Off.page = <<>> /\ Off.base = 0
    BY <1>3, <1>w, OffFits DEF Ensured, Off
  <2> QED BY <1>w, <2>1, Carrying DEF TypeInv
<1> QED BY <1>2, <1>3

LEMMA SubscribingTyped ==
  ASSUME TypeInv, NEW w \in Subscribers,
         (w = "dry run" /\ DryStart) \/ SubscriberStep(w)
  PROVE  TypeInv'
<1>l. Len(log) \in Nat /\ DOMAIN log = 1 .. Len(log)
  BY LogNumbers DEF TypeInv
<1>m. Len(log) \in {0} \cup DOMAIN log
  BY <1>l, SomeOrNone
<1>n. \A n \in {0} \cup DOMAIN log : n \in 0 .. Len(log) /\ 1 .. n \subseteq DOMAIN log
  BY <1>l, SomeOrNone
<1> USE DEF TypeInv, TypeOK, Spend, KeepMail, KeepStore, KeepAround, ledgerVars, lineVars,
        feedVars, lockVars, At
<1>w. w \in Worker
  BY DEF Subscribers, Locked, Worker
<1>f. job[w] \in Job /\ Fit(w, job[w]) /\ job[w].base \in {0} \cup DOMAIN log
  BY <1>w, HandTyped DEF PagesThere
<1>p. {"ensure", "baseline", "subscribe"} \subseteq Pc
  BY DEF Pc
<1>1. CASE w = "dry run" /\ DryStart
  <2> DEFINE r == [Off EXCEPT !.pc = "ensure"]
  <2>1. TypeOK' /\ IsFiniteSet(shown)' /\ DOMAIN log \subseteq DOMAIN log'
    BY <1>1 DEF DryStart
  <2>2. Off \in Job /\ Off.page = <<>> /\ Off.base = 0 /\ Off.batch = <<>> /\ w \notin Ticks
    BY <1>1, OffFits DEF Off, Ticks
  <2>3. /\ r \in Job /\ r.pc = "ensure" /\ r.page = <<>> /\ r.base = 0
        /\ Become(w, r)
    BY <1>1, <1>p, <2>2 DEF Job, DryStart
  <2> HIDE DEF r
  <2>4. Fit(w, r)
    BY <2>2, <2>3 DEF Fit, Handling, MsgWork, AcctWork, PageWork
  <2> QED BY <1>w, <2>1, <2>3, <2>4, Carrying
<1>2. CASE EnsureFails(w)
  <2>1. TypeOK' /\ IsFiniteSet(shown)' /\ DOMAIN log \subseteq DOMAIN log'
    BY <1>2 DEF EnsureFails
  <2>2. Ensured(w, Failed(w)) /\ job[w].pc \in {"ensure", "baseline", "subscribe"}
    BY <1>2 DEF EnsureFails
  <2> QED BY <2>1, <2>2, EnsuredFits
<1>3. CASE Ensure(w)
  <2>1. TypeOK' /\ IsFiniteSet(shown)' /\ DOMAIN log \subseteq DOMAIN log' /\ job[w].pc = "ensure"
    BY <1>3 DEF Ensure
  <2>2. CASE Goto(w, "baseline")
    <3>1. w \in Ticks => job[w].accts # <<>>
      BY <1>f, <2>1 DEF Fit
    <3>2. "baseline" \notin AcctWork \cup MsgWork \cup PageWork \cup Handling \cup {"copy", "echo"}
      BY DEF Handling, MsgWork, AcctWork, PageWork
    <3> QED BY <1>w, <1>p, <2>1, <2>2, <3>1, <3>2, Going
  <2>3. CASE Ensured(w, job[w])
    BY <2>1, <2>3, EnsuredFits
  <2> QED BY <1>3, <2>1, <2>2, <2>3 DEF Ensure
<1>4. CASE Baseline(w)
  <2> DEFINE r == [job[w] EXCEPT !.pc = "subscribe", !.base = Len(log)]
  <2>1. TypeOK' /\ IsFiniteSet(shown)' /\ DOMAIN log \subseteq DOMAIN log' /\ job[w].pc = "baseline"
    BY <1>4 DEF Baseline
  <2>3. /\ r \in Job /\ r.pc = "subscribe" /\ r.base = Len(log) /\ Become(w, r)
        /\ r.page = job[w].page /\ r.batch = job[w].batch /\ r.accts = job[w].accts
    BY <1>4, <1>f, <1>p, <1>l DEF Job, Baseline
  <2> HIDE DEF r
  <2>4. Fit(w, r)
    BY <1>f, <2>1, <2>3 DEF Fit, Handling, MsgWork, AcctWork, PageWork
  <2>5. \A n \in DOMAIN r.page : r.page[n].id \in DOMAIN log
    BY <1>w, <2>3 DEF PagesThere
  <2> HIDE DEF TypeInv, TypeOK, ledgerVars, feedVars, lineVars, lockVars
  <2>6. JobsFit /\ PagesThere /\ r.base \in {0} \cup DOMAIN log
    BY <1>m, <2>3 DEF TypeInv
  <2>7. JobsFit' /\ PagesThere'
    BY <1>w, <2>1, <2>3, <2>4, <2>5, <2>6, Becoming
  <2> QED BY <2>1, <2>7 DEF TypeInv
<1>5. CASE Subscribe(w)
  <2>1. job[w].pc = "subscribe" /\ Ensured(w, job[w]) /\ UNCHANGED log
    BY <1>5 DEF Subscribe
  <2>2. job[w].base \in 0 .. Len(log) /\ 1 .. job[w].base \subseteq DOMAIN log
    BY <1>f, <1>n, Zenon
  <2>3. TypeOK' /\ IsFiniteSet(shown)' /\ DOMAIN log \subseteq DOMAIN log'
    BY <1>5, <2>2 DEF Subscribe
  <2> QED BY <2>1, <2>3, EnsuredFits
<1> QED BY <1>1, <1>2, <1>3, <1>4, <1>5 DEF SubscriberStep

LEMMA PollTyped ==
  ASSUME TypeInv, NEW w \in Ticks,
         TickStart(w) \/ List(w) \/ BreakOff(w) \/ Advance(w) \/ TickClose(w)
  PROVE  TypeInv'
<1> USE DEF TypeInv, TypeOK, Spend, KeepMail, KeepStore, KeepAround, ledgerVars, lineVars,
        feedVars, lockVars, At
<1>w. w \in Worker /\ w \in Locked
  BY DEF Ticks, Locked, Worker
<1>f. job[w] \in Job /\ Fit(w, job[w])
  BY <1>w, HandTyped
<1>1. CASE TickStart(w)
  <2> DEFINE r == [Off EXCEPT !.pc = "ensure", !.began = now, !.accts = Accounts]
  <2>1. TypeOK' /\ IsFiniteSet(shown)' /\ DOMAIN log \subseteq DOMAIN log'
    BY <1>1, <1>w DEF TickStart, Acquire
  <2>2. Off \in Job /\ Off.page = <<>> /\ Off.base = 0 /\ Off.batch = <<>>
    BY OffFits DEF Off
  <2>3. r \in Job /\ r.pc = "ensure" /\ r.page = <<>> /\ r.base = 0 /\ r.batch = <<>> /\ r.accts # <<>>
    BY <2>2, AccountsTyped DEF Job, Pc
  <2> HIDE DEF r
  <2>4. Fit(w, r)
    BY <2>3 DEF Fit, Handling, MsgWork, AcctWork, PageWork
  <2>5. Become(w, r)
    BY <1>1 DEF TickStart, r
  <2> QED BY <1>w, <2>1, <2>3, <2>4, <2>5, Carrying
<1>3. CASE List(w)
  <2>1. TypeOK' /\ IsFiniteSet(shown)' /\ DOMAIN log \subseteq DOMAIN log' /\ job[w].pc = "list"
    BY <1>3 DEF List
  <2>0. PICK since : Poll(w, since)
    BY <1>3 DEF List
  <2> DEFINE S == Listed(Here(w), since)
  <2>2. PICK batch \in Orders(S) :
          Become(w, [job[w] EXCEPT !.batch = batch, !.pc = IF batch = <<>> THEN "advance" ELSE "handle"])
    BY <2>0 DEF Poll
  <2>3. S \in SUBSET Msg /\ IsFiniteSet(S) /\ \A m \in S : Inbound(m)
    BY FS_Subset DEF Listed
  <2> HIDE DEF S
  <2>4. batch \in Seq(Msg) /\ \A n \in DOMAIN batch : Inbound(batch[n])
    BY <2>3, OrdersTyped
  <2>5. batch # <<>> => 1 \in DOMAIN batch /\ Head(batch) = batch[1]
    BY <2>4
  <2> DEFINE pc == IF batch = <<>> THEN "advance" ELSE "handle"
             s  == [job[w] EXCEPT !.batch = batch, !.pc = pc]
  <2>6. pc \in Pc /\ pc \in {"advance", "handle"} /\ (pc = "handle" => batch # <<>>)
    BY DEF Pc
  <2> HIDE DEF pc
  <2>7. s \in Job /\ s.pc = pc /\ s.batch = batch /\ s.accts = job[w].accts /\ s.page = job[w].page /\ s.base = job[w].base
    BY <1>f, <2>4, <2>6 DEF Job
  <2>8. job[w].accts # <<>>
    BY <1>f, <2>1 DEF Fit, AcctWork
  <2>9. Become(w, s)
    BY <2>2 DEF pc
  <2> HIDE DEF s
  <2>10. Fit(w, s)
    BY <2>4, <2>5, <2>6, <2>7, <2>8 DEF Fit, Handling, MsgWork, AcctWork, PageWork
  <2> QED BY <1>w, <2>1, <2>7, <2>9, <2>10, Carrying
<1>4. CASE BreakOff(w)
  <2>1. /\ TypeOK' /\ IsFiniteSet(shown)' /\ DOMAIN log \subseteq DOMAIN log'
        /\ job[w].pc \in {"list", "handle"} /\ Become(w, NextAccount(w, job[w]))
    BY <1>4 DEF BreakOff
  <2>2. job[w].pc \in AcctWork
    BY <2>1 DEF AcctWork, MsgWork, Handling
  <2> QED BY <1>w, <2>1, <2>2, Advancing
<1>5. CASE Advance(w)
  <2>1. job[w].pc = "advance" /\ Become(w, NextAccount(w, job[w])) /\ job[w].began \in Nat \cup {NoTime}
    BY <1>5, <1>f DEF Advance, Job
  <2>2. job[w].pc \in AcctWork
    BY <2>1 DEF AcctWork
  <2>3. Here(w) \in Account
    BY <1>w, <2>2, HandTyped
  <2>4. TypeOK' /\ IsFiniteSet(shown)' /\ DOMAIN log \subseteq DOMAIN log'
    <3>1. cursors' \in [Account -> Nat \cup {NoTime}]
      BY <1>5, <2>1, <2>3 DEF Advance
    <3> QED BY <1>5, <3>1 DEF Advance
  <2> QED BY <1>w, <2>1, <2>2, <2>4, Advancing
<1>6. CASE TickClose(w)
  <2>1. job[w].began \in Nat \cup {NoTime}
    BY <1>f DEF Job
  <2>2. TypeOK' /\ IsFiniteSet(shown)' /\ DOMAIN log \subseteq DOMAIN log' /\ Become(w, Off)
    BY <1>6, <1>w, <2>1 DEF TickClose, Release
  <2>3. Fit(w, Off) /\ Off.page = <<>> /\ Off.base = 0
    BY <1>w, OffFits DEF Off
  <2> QED BY <1>w, <2>2, <2>3, Carrying
<1> QED BY <1>1, <1>3, <1>4, <1>5, <1>6

LEMMA AnnouncingTyped ==
  ASSUME TypeInv, NEW w \in Ticks, LoadPage(w) \/ Post(w) \/ NoteEvent(w)
  PROVE  TypeInv'
<1> USE DEF TypeInv, TypeOK, Spend, KeepMail, KeepStore, KeepAround, ledgerVars, lineVars,
        feedVars, lockVars, At
<1>w. w \in Worker
  BY DEF Ticks, Locked, Worker
<1>f. job[w] \in Job /\ Fit(w, job[w])
  BY <1>w, HandTyped
<1>p. "post" \in PageWork /\ "note" \in PageWork /\ \A pc \in {"post", "note", "close"} :
        /\ pc \in Pc /\ pc \notin AcctWork /\ pc \notin MsgWork /\ pc \notin Handling
        /\ pc \notin {"copy", "echo"} /\ (pc \in PageWork => pc # "close")
  BY DEF PageWork, Pc, AcctWork, MsgWork, Handling
<1>1. CASE LoadPage(w)
  <2>1. TypeOK' /\ IsFiniteSet(shown)' /\ DOMAIN log \subseteq DOMAIN log' /\ job[w].pc = "page"
    BY <1>1 DEF LoadPage
  <2> DEFINE Page(ids) == [n \in DOMAIN ids |-> [id |-> ids[n], source |-> log[ids[n]].source]]
             Pc2(ids)  == IF ids = <<>> THEN "close" ELSE "post"
  <2>2. PICK ids \in Pages(Fresh) : Become(w, [job[w] EXCEPT !.page = Page(ids), !.pc = Pc2(ids)])
    BY <1>1 DEF LoadPage
  <2>3. /\ ids \in Seq(Fresh)
        /\ \A n \in DOMAIN ids : ids[n] \in DOMAIN log /\ ids[n] \in Nat
    BY PagesTyped
  <2> DEFINE page == Page(ids)
             pc   == Pc2(ids)
             s    == [job[w] EXCEPT !.page = page, !.pc = pc]
  <2>4. \A n \in DOMAIN ids : log[ids[n]].source \in {"poll", "reconciled"}
    <3>1. log \in Seq(Entry) /\ \A e \in Entry : e.source \in {"poll", "reconciled"}
      BY DEF Entry
    <3> QED BY <2>3, <3>1
  <2>5. page \in Seq([id : Nat, source : {"poll", "reconciled"}])
    <3>1. Len(ids) \in Nat /\ DOMAIN ids = 1 .. Len(ids) /\ DOMAIN page = 1 .. Len(ids)
      BY <2>3
    <3>2. \A n \in DOMAIN ids : page[n] \in [id : Nat, source : {"poll", "reconciled"}]
      BY <2>3, <2>4
    <3> QED BY <3>1, <3>2
  <2>6. \A n \in DOMAIN page : page[n].id \in DOMAIN log
    BY <2>3
  <2>7. pc \in {"post", "close"} /\ (pc = "post" => page # <<>>)
    <3>1. DOMAIN page = DOMAIN ids /\ (ids # <<>> => 1 \in DOMAIN ids)
      BY <2>3
    <3> QED BY <3>1
  <2>8. Become(w, s)
    BY <2>2
  <2> HIDE DEF page, pc
  <2>9. s \in Job /\ s.page = page /\ s.pc = pc /\ s.batch = job[w].batch /\ s.base = job[w].base
    BY <1>f, <1>p, <2>5, <2>7 DEF Job
  <2> HIDE DEF s
  <2>10. Fit(w, s)
    BY <1>f, <1>p, <2>7, <2>9 DEF Fit
  <2> QED BY <1>w, <2>1, <2>6, <2>8, <2>9, <2>10, Becoming DEF PagesThere
<1>2. CASE Post(w)
  <2>1. job[w].pc = "post" /\ job[w].page # <<>>
    BY <1>2, <1>f, <1>p DEF Post, Fit
  <2>2. InHand(w).id \in DOMAIN log
    BY <1>w, <2>1, PageTyped
  <2>3. TypeOK' /\ IsFiniteSet(shown)' /\ DOMAIN log \subseteq DOMAIN log'
    BY <1>2, <2>2 DEF Post
  <2>4. Goto(w, "note") \/ Goto(w, "close")
    BY <1>2 DEF Post
  <2> QED BY <1>w, <1>p, <2>1, <2>3, <2>4, Going
<1>3. CASE NoteEvent(w)
  <2>1. job[w].pc = "note" /\ job[w].page # <<>>
    BY <1>3, <1>f, <1>p DEF NoteEvent, Fit
  <2>2. InHand(w).id \in 1 .. Len(log)
    BY <1>w, <2>1, PageTyped
  <2>3. TypeOK' /\ IsFiniteSet(shown)' /\ DOMAIN log \subseteq DOMAIN log'
    BY <1>3, <2>2 DEF NoteEvent, Unset
  <2>4. CASE Goto(w, "close")
    BY <1>w, <1>p, <2>1, <2>3, <2>4, Going
  <2> DEFINE rest == Tail(job[w].page)
             pc   == IF Len(job[w].page) = 1 THEN "close" ELSE "post"
             s    == [job[w] EXCEPT !.page = rest, !.pc = pc]
  <2>5. CASE Become(w, s)
    <3>1. /\ rest \in Seq([id : Nat, source : {"poll", "reconciled"}])
          /\ Len(job[w].page) # 1 => rest # <<>>
          /\ \A n \in DOMAIN rest : rest[n].id \in DOMAIN log
      BY <1>w, <2>1, PageTyped DEF PagesThere
    <3>2. pc \in {"post", "close"} /\ (pc = "post" => rest # <<>>)
      BY <3>1
    <3> HIDE DEF rest, pc
    <3>3. s \in Job /\ s.page = rest /\ s.pc = pc /\ s.batch = job[w].batch /\ s.base = job[w].base
      BY <1>f, <1>p, <3>1, <3>2 DEF Job
    <3> HIDE DEF s
    <3>4. Fit(w, s)
      BY <1>f, <1>p, <3>2, <3>3 DEF Fit
    <3> QED BY <1>w, <2>3, <2>5, <3>1, <3>3, <3>4, Becoming DEF PagesThere
  <2> QED BY <1>3, <2>4, <2>5 DEF NoteEvent
<1> QED BY <1>1, <1>2, <1>3

LEMMA ReadingTyped ==
  ASSUME TypeInv, AuditStart \/ ReviewStart \/ \E w \in {"audit", "review"} : ReaderStep(w)
  PROVE  TypeInv'
<1> USE DEF TypeInv, TypeOK, Spend, KeepMail, KeepStore, KeepAround, ledgerVars, lineVars,
        feedVars, lockVars, At
<1>w. {"audit", "review"} \subseteq Worker /\ "audit" \in Locked
  BY DEF Locked, Worker
<1>a. \A p \in {1, 2} : LET r == [Off EXCEPT !.pc = "scan", !.pass = p, !.accts = Accounts]
                        IN \A w \in Worker : Fit(w, r) /\ r.page = <<>> /\ r.base = 0
  <2> SUFFICES ASSUME NEW p \in {1, 2}, NEW w \in Worker
               PROVE  LET r == [Off EXCEPT !.pc = "scan", !.pass = p, !.accts = Accounts]
                      IN Fit(w, r) /\ r.page = <<>> /\ r.base = 0
    OBVIOUS
  <2> DEFINE r == [Off EXCEPT !.pc = "scan", !.pass = p, !.accts = Accounts]
  <2>1. Off \in Job /\ Off.page = <<>> /\ Off.base = 0 /\ Off.batch = <<>>
    BY OffFits DEF Off
  <2>2. r \in Job /\ r.page = <<>> /\ r.base = 0 /\ r.batch = <<>> /\ r.pc = "scan" /\ r.accts # <<>>
    BY <2>1, AccountsTyped DEF Job, Pc
  <2> HIDE DEF r
  <2>3. Fit(w, r)
    BY <2>2 DEF Fit, Handling, MsgWork, AcctWork, PageWork
  <2> QED BY <2>2, <2>3 DEF r
<1>1. CASE AuditStart
  <2>1. TypeOK' /\ IsFiniteSet(shown)' /\ DOMAIN log \subseteq DOMAIN log'
    BY <1>1, <1>w DEF AuditStart, Acquire
  <2> QED BY <1>1, <1>w, <1>a, <2>1, Carrying DEF AuditStart
<1>2. CASE ReviewStart
  <2>1. TypeOK' /\ IsFiniteSet(shown)' /\ DOMAIN log \subseteq DOMAIN log'
    BY <1>2 DEF ReviewStart
  <2> QED BY <1>2, <1>w, <1>a, <2>1, Carrying DEF ReviewStart
<1>3. ASSUME NEW w \in {"audit", "review"}, Verify(w) PROVE TypeInv'
  <2> DEFINE r == [job[w] EXCEPT
       !.failed = @ \/ Misses(w) # {},
       !.seen = @ \cup {m \in shown : Of[m] = Here(w)}]
  <2>1. /\ TypeOK' /\ IsFiniteSet(shown)' /\ DOMAIN log \subseteq DOMAIN log'
        /\ job[w].pc = "scan" /\ Become(w, NextAccount(w, r))
    BY <1>3 DEF Verify
  <2>2. job[w] \in Job /\ Fit(w, job[w]) /\ job[w].accts # <<>>
    BY <1>w, <2>1, HandTyped DEF AcctWork
  <2>3. (Misses(w) # {}) \in BOOLEAN /\ {m \in shown : Of[m] = Here(w)} \in SUBSET Msg
    OBVIOUS
  <2>4. r \in Job /\ r.accts = job[w].accts /\ r.page = job[w].page /\ r.base = job[w].base
    BY <2>2, <2>3 DEF Job
  <2> HIDE DEF r
  <2>5. Fit(w, NextAccount(w, r)) /\ NextAccount(w, r).page = job[w].page /\ NextAccount(w, r).base = job[w].base
    BY <1>w, <2>2, <2>4, NextAccountFits
  <2> QED BY <1>w, <2>1, <2>5, Carrying
<1>4. ASSUME NEW w \in {"audit", "review"}, ScanFails(w) PROVE TypeInv'
  <2>1. /\ TypeOK' /\ IsFiniteSet(shown)' /\ DOMAIN log \subseteq DOMAIN log'
        /\ job[w].pc = "scan" /\ Become(w, NextAccount(w, Failed(w)))
    BY <1>4 DEF ScanFails, Unlisted
  <2>2. job[w].pc \in AcctWork
    BY <2>1 DEF AcctWork
  <2> QED BY <1>w, <2>1, <2>2, Advancing
<1>5. ASSUME NEW w \in {"audit", "review"}, Find(w) PROVE TypeInv'
  <2>1. TypeOK' /\ IsFiniteSet(shown)' /\ DOMAIN log \subseteq DOMAIN log' /\ Become(w, Off)
    BY <1>5 DEF Find, Release
  <2>2. Fit(w, Off) /\ Off.page = <<>> /\ Off.base = 0
    BY <1>w, OffFits DEF Off
  <2> QED BY <1>w, <2>1, <2>2, Carrying
<1> QED BY <1>1, <1>2, <1>3, <1>4, <1>5 DEF ReaderStep

LEMMA ReconcilingTyped ==
  ASSUME TypeInv, Discover \/ Apply \/ ApplyFails \/ Mark \/ Copy \/ Echo
  PROVE  TypeInv'
<1> USE DEF TypeInv, TypeOK, Spend, KeepMail, KeepStore, KeepAround, ledgerVars, lineVars,
        feedVars, lockVars, At, Holds, Fails, Forgets
<1> DEFINE w == "audit"
<1>w. w \in Worker /\ w \notin Ticks
  BY DEF Locked, Worker, Ticks
<1>f. job[w] \in Job /\ Fit(w, job[w])
  BY <1>w, HandTyped
<1>p. /\ \A pc \in {"apply", "handle", "mark", "copy", "echo"} :
           pc \in Pc /\ pc \in MsgWork /\ pc \in AcctWork /\ pc \notin PageWork
      /\ "handle" \in Handling /\ "mark" \in Handling
      /\ \A pc \in {"apply", "copy", "echo"} : pc \notin Handling
  BY DEF Pc, Handling, MsgWork, AcctWork, PageWork
<1>h. job[w].pc \in MsgWork => Hand(w) \in Msg /\ job[w].accts # <<>> /\ job[w].batch # <<>>
  BY <1>w, HandTyped DEF AcctWork
<1>1. CASE Discover
  <2>1. /\ TypeOK' /\ IsFiniteSet(shown)' /\ DOMAIN log \subseteq DOMAIN log' /\ job[w].pc = "scan"
    BY <1>1 DEF Discover
  <2>2. job[w].accts # <<>> /\ job[w].pc \in AcctWork
    BY <1>f, <2>1 DEF Fit, AcctWork
  <2>3. PICK S \in SUBSET shown, bare \in SUBSET shown, failed \in BOOLEAN : Found(w, S, bare, failed)
    <3>1. Misses(w) \subseteq shown /\ {m \in shown : Of[m] = Here(w)} \subseteq shown
      BY DEF Misses, MissingIn
    <3> QED BY <1>1, <3>1 DEF Discover
  <2> DEFINE r == [job[w] EXCEPT !.failed = @ \/ failed]
  <2>4. PICK batch \in Orders(S) :
          Become(w, IF batch = <<>> THEN NextAccount(w, r)
                    ELSE [r EXCEPT !.batch = batch, !.bare = bare, !.pc = "apply"])
    BY <2>3 DEF Found
  <2>5. batch \in Seq(Msg)
    BY FS_Subset, OrdersTyped
  <2>6. r \in Job /\ r.accts = job[w].accts /\ r.page = job[w].page /\ r.base = job[w].base
    BY <1>f DEF Job
  <2> HIDE DEF r
  <2>7. CASE batch = <<>>
    <3>1. Become(w, NextAccount(w, r))
      BY <2>4, <2>7
    <3>2. /\ Fit(w, NextAccount(w, r)) /\ NextAccount(w, r).page = job[w].page
          /\ NextAccount(w, r).base = job[w].base
      BY <1>w, <2>2, <2>6, NextAccountFits
    <3> QED BY <1>w, <2>1, <3>1, <3>2, Carrying
  <2>8. CASE batch # <<>>
    <3> DEFINE s == [r EXCEPT !.batch = batch, !.bare = bare, !.pc = "apply"]
    <3>1. Become(w, s) /\ bare \in SUBSET Msg
      BY <2>4, <2>8
    <3>2. /\ s \in Job /\ s.pc = "apply" /\ s.batch = batch /\ s.accts = job[w].accts
          /\ s.page = job[w].page /\ s.base = job[w].base
      BY <1>p, <2>5, <2>6, <3>1 DEF Job
    <3> HIDE DEF s
    <3>3. Fit(w, s)
      BY <1>w, <1>p, <2>2, <2>8, <3>2 DEF Fit
    <3> QED BY <1>w, <2>1, <3>1, <3>2, <3>3, Carrying
  <2> QED BY <2>7, <2>8
<1>2. CASE ApplyFails
  <2>1. /\ TypeOK' /\ IsFiniteSet(shown)' /\ DOMAIN log \subseteq DOMAIN log' /\ job[w].pc = "handle"
        /\ Become(w, NextMessage(w, Failed(w)))
    BY <1>2 DEF ApplyFails
  <2> QED BY <1>w, <1>p, <2>1, Advancing
<1>3. CASE Apply
  <2>1. TypeOK' /\ IsFiniteSet(shown)' /\ DOMAIN log \subseteq DOMAIN log' /\ job[w].pc = "apply"
    BY <1>3 DEF Apply
  <2>2. \/ Become(w, NextMessage(w, job[w]))
        \/ Inbound(Hand(w)) /\ Goto(w, "handle")
        \/ ~Inbound(Hand(w)) /\ Goto(w, "copy")
    BY <1>3 DEF Apply
  <2> QED BY <1>w, <1>p, <1>h, <2>1, <2>2, Advancing, Going
<1>4. CASE Mark
  <2>1. /\ job[w].pc = "mark"
        /\ Become(w, NextMessage(w, job[w])) \/ Become(w, NextMessage(w, Failed(w)))
        /\ log' = Relabelled(Hand(w), TypeRead(w)) \/ UNCHANGED log
    BY <1>4 DEF Mark
  <2>2. log' \in Seq(Entry) /\ Len(log') = Len(log) /\ DOMAIN log' = DOMAIN log
    BY <2>1, RelabelledTyped
  <2>3. TypeOK' /\ IsFiniteSet(shown)'
    BY <1>4, <2>2 DEF Mark
  <2> QED BY <1>w, <1>p, <2>1, <2>2, <2>3, Advancing
<1>5. CASE Copy
  <2>1. /\ job[w].pc = "copy"
        /\ Snapshot(Hand(w), "manual_reply") \/ UNCHANGED snaps
        /\ \/ Goto(w, "echo")
           \/ Become(w, NextMessage(w, Failed(w)))
    BY <1>5 DEF Copy
  <2>2. snaps' \in Seq(Copied)
    BY <1>p, <1>h, <2>1, SnapshotTyped
  <2>3. TypeOK' /\ IsFiniteSet(shown)' /\ DOMAIN log \subseteq DOMAIN log'
    BY <1>5, <2>2 DEF Copy
  <2>4. ~Inbound(Hand(w))
    BY <1>f, <2>1 DEF Fit, Hand
  <2> QED BY <1>w, <1>p, <1>h, <2>1, <2>3, <2>4, Advancing, Going
<1>6. CASE Echo
  <2>1. /\ job[w].pc = "echo"
        /\ Insert(Hand(w), "manual_reply", "audit") \/ UNCHANGED log
        /\ Become(w, NextMessage(w, job[w])) \/ Become(w, NextMessage(w, Failed(w)))
    BY <1>6 DEF Echo
  <2>2. log' \in Seq(Entry) /\ Len(log) <= Len(log') /\ DOMAIN log \subseteq DOMAIN log'
    BY <1>p, <1>h, <2>1, InsertTyped
  <2>3. TypeOK' /\ IsFiniteSet(shown)'
    BY <1>6, <2>2 DEF Echo
  <2> QED BY <1>w, <1>p, <2>1, <2>2, <2>3, Advancing
<1> QED BY <1>1, <1>2, <1>3, <1>4, <1>5, <1>6

LEMMA DieTyped ==
  ASSUME TypeInv, NEW w \in Worker, Die(w)
  PROVE  TypeInv'
<1>1. TypeOK' /\ IsFiniteSet(shown)' /\ DOMAIN log \subseteq DOMAIN log' /\ Become(w, Off)
  BY DEF TypeInv, TypeOK, Die, Release, KeepMail, KeepStore, lineVars
<1>2. Fit(w, Off) /\ Off.page = <<>> /\ Off.base = 0
  BY OffFits DEF Off
<1> QED BY <1>1, <1>2, Carrying DEF TypeInv

LEMMA NextTyped == TypeInv /\ [Next]_vars => TypeInv'
<1> SUFFICES ASSUME TypeInv, [Next]_vars PROVE TypeInv'
  OBVIOUS
<1>1. CASE Outside \/ Sever
  BY <1>1, OutsideTyped
<1>2. ASSUME NEW w \in Ticks, TickStart(w) \/ TickStep(w) PROVE TypeInv'
  <2>1. w \in Locked
    BY DEF Locked
  <2> QED BY <1>2, <2>1, PollTyped, AnnouncingTyped, HandleTyped DEF TickStep
<1>3. CASE AuditStart \/ ReviewStart \/ \E w \in {"audit", "review"} : ReaderStep(w)
  BY <1>3, ReadingTyped
<1>4. CASE AuditStep
  <2>1. "audit" \in Locked
    BY DEF Locked
  <2> QED BY <1>4, <2>1, ReconcilingTyped, HandleTyped DEF AuditStep
<1>5. ASSUME NEW w \in Worker, Die(w) PROVE TypeInv'
  BY <1>5, DieTyped
<1>7. CASE DryStart \/ \E w \in Subscribers : SubscriberStep(w)
  <2>1. "dry run" \in Subscribers
    BY DEF Subscribers
  <2> QED BY <1>7, <2>1, SubscribingTyped
<1>6. CASE UNCHANGED vars
  BY <1>6, Idle DEF vars, ledgerVars, lineVars, feedVars, lockVars, TypeInv, TypeOK
<1> QED BY <1>1, <1>2, <1>3, <1>4, <1>5, <1>6, <1>7 DEF Next

\* Whatever the mailboxes list and however the workers fail, the tables and
\* the files hold what they are meant to; a worker that handles a message, an
\* account or an announcement has one in hand, and what it announces exists.
THEOREM InboxTypes == Spec => []TypeOK
<1>1. TypeInv => TypeOK
  BY DEF TypeInv
<1> QED BY <1>1, InitTyped, NextTyped, PTL DEF Spec

-----------------------------------------------------------------------------
(* Every step, seen from the lock and from the log. *)

Onward == {"list", "advance", "page", "post", "note", "close", "scan", "handle", "apply", "keep",
           "heed", "mark", "find", "baseline", "subscribe"}

\* A worker begins, or ends.
Begins(w) ==
  /\ job[w].pc = "off" /\ job'[w].pc \in {"ensure", "scan"}
  /\ w \in Locked => Acquire(w)
  /\ w \notin Locked => UNCHANGED <<holder, severed>>
  /\ UNCHANGED log

Ends(w) == job'[w] = Off /\ Release(w) /\ UNCHANGED log

\* A message has no event yet, or a lookup of it failed.
Unrecorded(m) == m \in unasked \/ \A i \in DOMAIN log : log[i].msg # m

\* A worker finds no event of the message in its hand, or is not told of it,
\* and keeps the message there until it has written one.
Misled(w) ==
  /\ Hand(w) \in unasked' \/ \A i \in DOMAIN log : log[i].msg # Hand(w)
  /\ Hand(w)' = Hand(w) /\ UNCHANGED log
  /\ \/ job'[w].pc = "record" /\ Inbound(Hand(w))
     \/ job'[w].pc = "copy" /\ w = "audit"

Writes(w) ==
  /\ w \in Locked
  /\ \/ /\ job[w].pc = "record" /\ job'[w].pc = "keep" /\ Inbound(Hand(w))
        /\ \E type \in InboundTypes, by \in {"tick", "audit"} : Insert(Hand(w), type, by)
     \/ /\ w = "audit" /\ job[w].pc = "echo" /\ job'[w].pc \in Onward /\ ~Inbound(Hand(w))
        /\ Insert(Hand(w), "manual_reply", "audit")

Works(w) ==
  /\ job[w].pc # "off" /\ UNCHANGED <<holder, severed>>
  /\ \/ UNCHANGED log /\ job'[w].pc \in Onward
     \/ w \in Locked /\ Misled(w)
     \/ /\ w = "audit" /\ job[w].pc = "copy" /\ job'[w].pc = "echo"
        /\ Hand(w)' = Hand(w) /\ UNCHANGED log
     \/ Writes(w)
     \/ /\ w = "audit" /\ job'[w].pc \in Onward
        /\ \E m \in Msg, type \in InboundTypes : log' = Relabelled(m, type)

Moves(w) ==
  /\ \A v \in Worker \ {w} : job'[v] = job[v]
  /\ Begins(w) \/ Ends(w) \/ Works(w)

Rests ==
  /\ UNCHANGED <<job, log>>
  /\ UNCHANGED <<holder, severed>> \/ severed'

\* What an event of which type says of its message.
TypesAgree ==
  \A i \in DOMAIN log : log[i].type \in InboundTypes <=> Inbound(log[i].msg)

LEMMA OnwardFromAccount ==
  ASSUME NEW w \in Worker, NEW r \in Job
  PROVE  NextAccount(w, r).pc \in Onward
<1> DEFINE s == [r EXCEPT !.accts = Tail(@), !.batch = <<>>, !.bare = {}]
<1>1. \A pc \in Pc : [s EXCEPT !.pc = pc].pc = pc
  BY DEF Job
<1>2. [s EXCEPT !.pc = "scan", !.pass = 2, !.accts = Accounts].pc = "scan"
  BY DEF Job
<1> HIDE DEF s
<1>3. Then(w, s).pc \in Onward
  BY <1>1, <1>2 DEF Then, Onward, Pc
<1> QED BY <1>3 DEF NextAccount, s

LEMMA OnwardFromMessage ==
  ASSUME NEW w \in Worker, NEW r \in Job
  PROVE  NextMessage(w, r).pc \in Onward
<1> DEFINE rest == Tail(r.batch)
           pc   == IF rest = <<>> THEN "advance" ELSE IF w \in Ticks THEN "handle" ELSE "apply"
<1>1. [r EXCEPT !.batch = rest, !.pc = pc].pc = pc
  BY DEF Job
<1>2. pc \in Onward
  BY DEF Onward
<1> QED BY <1>1, <1>2, OnwardFromAccount DEF NextMessage

\* What a job becomes is all that changes of the jobs.
LEMMA OneMoves ==
  ASSUME JobsFit, NEW w \in Worker, NEW r, Become(w, r)
  PROVE  job'[w] = r /\ \A v \in Worker \ {w} : job'[v] = job[v]
BY DEF JobsFit, Become

LEMMA HandlingMoves ==
  ASSUME TypeInv, TypesAgree, NEW w \in Locked, Handle(w)
  PROVE  Moves(w)
<1> USE DEF At, KeepAround, lockVars, ledgerVars
<1>w. w \in Worker /\ (w \notin Ticks => w = "audit")
  BY DEF Locked, Worker
<1>f. job[w] \in Job /\ JobsFit
  BY <1>w, HandTyped DEF TypeInv
<1>g. \A pc \in Pc : Goto(w, pc) =>
        /\ job'[w].pc = pc /\ Hand(w)' = Hand(w) /\ \A v \in Worker \ {w} : job'[v] = job[v]
  <2> TAKE pc \in Pc
  <2> HAVE Goto(w, pc)
  <2>1. /\ job'[w] = [job[w] EXCEPT !.pc = pc]
        /\ \A v \in Worker \ {w} : job'[v] = job[v]
    BY <1>w, <1>f, OneMoves DEF Goto
  <2> QED BY <1>f, <2>1, GotoTyped DEF Hand
<1>o. Become(w, NextMessage(w, job[w])) =>
        job'[w].pc \in Onward /\ \A v \in Worker \ {w} : job'[v] = job[v]
  BY <1>w, <1>f, OneMoves, OnwardFromMessage
<1>h. job[w].pc \in {"handle", "record"} => Inbound(Hand(w)) /\ TypeRead(w) \in InboundTypes
  BY <1>w, <1>f, HandTyped DEF Handling
<1>p. {"record", "keep", "heed", "mark"} \subseteq Pc /\ {"keep", "heed", "mark"} \subseteq Onward
  BY DEF Pc, Onward
<1>1. CASE Check(w)
  <2>1. job[w].pc = "handle" /\ UNCHANGED <<log, holder, severed>>
    BY <1>1 DEF Check
  <2>2. CASE Goto(w, "record")
    <3>1. CASE ~Recorded(Hand(w))
      <4>1. \A i \in DOMAIN log : log[i].msg # Hand(w)
        BY <1>h, <2>1, <3>1 DEF Recorded, TypesAgree
      <4> QED BY <1>g, <1>h, <1>p, <2>1, <2>2, <4>1 DEF Moves, Works, Misled
    <3>2. CASE Forgets(Hand(w))
      <4>1. Hand(w) \in unasked'
        BY <3>2 DEF Forgets
      <4> QED BY <1>g, <1>h, <1>p, <2>1, <2>2, <4>1 DEF Moves, Works, Misled
    <3>3. CASE HandBack(w)
      BY <1>g, <1>o, <1>p, <2>1, <3>3, HandsBack DEF Moves, Works
    <3> QED BY <1>1, <3>1, <3>2, <3>3 DEF Check
  <2>3. CASE HandBack(w)
    BY <1>g, <1>o, <1>p, <2>1, <2>3, HandsBack DEF Moves, Works
  <2> QED BY <1>1, <2>2, <2>3 DEF Check
<1>2. CASE Record(w)
  <2>1. /\ job[w].pc = "record" /\ UNCHANGED <<holder, severed>> /\ Goto(w, "keep")
        /\ \/ Insert(Hand(w), TypeRead(w), IF w \in Ticks THEN "tick" ELSE w)
           \/ UNCHANGED log
    BY <1>2 DEF Record
  <2>2. CASE UNCHANGED log
    BY <1>g, <1>p, <2>1, <2>2 DEF Moves, Works
  <2>3. CASE Insert(Hand(w), TypeRead(w), IF w \in Ticks THEN "tick" ELSE w)
    <3>1. \E type \in InboundTypes, by \in {"tick", "audit"} : Insert(Hand(w), type, by)
      BY <1>h, <1>w, <2>1, <2>3
    <3> QED BY <1>g, <1>h, <1>p, <2>1, <3>1 DEF Moves, Works, Writes
  <2> QED BY <2>1, <2>2, <2>3
<1>3. CASE Store(w)
  <2>1. job[w].pc = "keep" /\ UNCHANGED <<log, holder, severed>> /\ Goto(w, "heed")
    BY <1>3 DEF Store
  <2> QED BY <1>g, <1>p, <2>1 DEF Moves, Works
<1>4. CASE Stop(w)
  <2>1. /\ job[w].pc = "heed" /\ UNCHANGED <<log, holder, severed>>
        /\ Become(w, NextMessage(w, job[w])) \/ Goto(w, "mark")
    BY <1>4, HandsBack DEF Stop
  <2> QED BY <1>g, <1>o, <1>p, <2>1 DEF Moves, Works
<1> QED BY <1>1, <1>2, <1>3, <1>4 DEF Handle

LEMMA TickMoves ==
  ASSUME TypeInv, NEW w \in Ticks,
         \/ TickStart(w) \/ List(w) \/ BreakOff(w) \/ Advance(w) \/ TickClose(w)
         \/ LoadPage(w) \/ Post(w) \/ NoteEvent(w)
  PROVE  Moves(w)
<1> USE DEF At, KeepAround, KeepStore, lockVars, ledgerVars
<1>w. w \in Worker /\ w \in Locked
  BY DEF Ticks, Locked, Worker
<1>f. job[w] \in Job /\ JobsFit
  BY <1>w, HandTyped DEF TypeInv
<1>m. \A r \in {[Off EXCEPT !.pc = "ensure", !.began = now, !.accts = Accounts]} : r.pc = "ensure"
  BY DEF Off
<1>e. \A r \in Job, pc \in Onward : \A x :
        /\ [r EXCEPT !.pc = pc].pc \in Onward
        /\ [r EXCEPT !.batch = x, !.pc = pc].pc \in Onward
        /\ [r EXCEPT !.page = x, !.pc = pc].pc \in Onward
  BY DEF Job
<1>p. {"list", "advance", "handle", "close", "post", "note"} \subseteq Onward
  BY DEF Onward
<1>1. CASE TickStart(w)
  <2>1. /\ job[w].pc = "off" /\ Acquire(w) /\ UNCHANGED log
        /\ Become(w, [Off EXCEPT !.pc = "ensure", !.began = now, !.accts = Accounts])
    BY <1>1 DEF TickStart
  <2>2. job'[w].pc = "ensure" /\ \A v \in Worker \ {w} : job'[v] = job[v]
    BY <1>w, <1>f, <1>m, <2>1, OneMoves
  <2> QED BY <1>w, <2>1, <2>2 DEF Moves, Begins
<1>2. CASE TickClose(w)
  <2>1. Become(w, Off) /\ Release(w) /\ UNCHANGED log
    BY <1>2 DEF TickClose
  <2> QED BY <1>w, <1>f, <2>1, OneMoves DEF Moves, Ends
<1>3. CASE List(w) \/ BreakOff(w) \/ Advance(w) \/ LoadPage(w) \/ Post(w) \/ NoteEvent(w)
  <2>1. job[w].pc # "off" /\ UNCHANGED <<log, holder, severed>>
    BY <1>3 DEF List, BreakOff, Advance, LoadPage, Post, NoteEvent
  <2>2. PICK r : Become(w, r) /\ r.pc \in Onward
    <3>2. CASE List(w)
      <4>1. PICK batch :
              Become(w, [job[w] EXCEPT !.batch = batch, !.pc = IF batch = <<>> THEN "advance" ELSE "handle"])
        BY <3>2 DEF List, Poll
      <4> DEFINE pc == IF batch = <<>> THEN "advance" ELSE "handle"
      <4>2. pc \in Onward
        BY <1>p
      <4> QED BY <1>f, <1>e, <4>1, <4>2
    <3>3. CASE BreakOff(w) \/ Advance(w)
      BY <1>w, <1>f, <3>3, OnwardFromAccount DEF BreakOff, Advance
    <3>4. CASE LoadPage(w)
      <4>1. PICK ids : Become(w, [job[w] EXCEPT
               !.page = [n \in DOMAIN ids |-> [id |-> ids[n], source |-> log[ids[n]].source]],
               !.pc = IF ids = <<>> THEN "close" ELSE "post"])
        BY <3>4 DEF LoadPage
      <4> DEFINE pc == IF ids = <<>> THEN "close" ELSE "post"
      <4>2. pc \in Onward
        BY <1>p
      <4> QED BY <1>f, <1>e, <4>1, <4>2
    <3>5. CASE Post(w)
      BY <1>f, <1>e, <1>p, <3>5 DEF Post, Goto
    <3>6. CASE NoteEvent(w)
      <4> DEFINE pc == IF Len(job[w].page) = 1 THEN "close" ELSE "post"
      <4>1. \/ Become(w, [job[w] EXCEPT !.page = Tail(job[w].page), !.pc = pc])
            \/ Goto(w, "close")
        BY <3>6 DEF NoteEvent
      <4>2. pc \in Onward
        BY <1>p
      <4> QED BY <1>f, <1>e, <1>p, <4>1, <4>2 DEF Goto
    <3> QED BY <1>3, <3>2, <3>3, <3>4, <3>5, <3>6
  <2>3. job'[w].pc \in Onward /\ \A v \in Worker \ {w} : job'[v] = job[v]
    BY <1>w, <1>f, <2>2, OneMoves
  <2> QED BY <2>1, <2>3 DEF Moves, Works
<1> QED BY <1>1, <1>2, <1>3

LEMMA SubscribingMoves ==
  ASSUME TypeInv, NEW w \in Subscribers,
         (w = "dry run" /\ DryStart) \/ SubscriberStep(w)
  PROVE  Moves(w)
<1> USE DEF At, KeepAround, KeepStore, lockVars, ledgerVars
<1>w. w \in Worker /\ (w = "dry run" => w \notin Locked) /\ (w # "dry run" => w \in Ticks)
  BY DEF Subscribers, Locked, Worker, Ticks
<1>f. job[w] \in Job /\ Failed(w) \in Job /\ JobsFit
  BY <1>w, HandTyped, FailedFits DEF TypeInv
<1>p. {"ensure", "baseline", "subscribe"} \subseteq Pc /\ {"list", "baseline", "subscribe"} \subseteq Onward
  BY DEF Pc, Onward
<1>1. CASE w = "dry run" /\ DryStart
  <2>1. [Off EXCEPT !.pc = "ensure"].pc = "ensure"
    BY DEF Off
  <2>2. Become(w, [Off EXCEPT !.pc = "ensure"])
    BY <1>1 DEF DryStart
  <2>3. job'[w].pc = "ensure" /\ \A v \in Worker \ {w} : job'[v] = job[v]
    BY <1>w, <1>f, <2>1, <2>2, OneMoves
  <2>4. job[w].pc = "off" /\ w \notin Locked /\ UNCHANGED <<log, holder, severed>>
    BY <1>1, <1>w DEF DryStart
  <2> QED BY <2>3, <2>4 DEF Moves, Begins
<1>2. CASE SubscriberStep(w)
  <2>1. job[w].pc # "off" /\ UNCHANGED <<log, holder, severed>>
    BY <1>2 DEF SubscriberStep, Ensure, Baseline, Subscribe, EnsureFails
  <2>2. CASE \E r \in {job[w], Failed(w)} : Ensured(w, r)
    <3>1. PICK r \in {job[w], Failed(w)} : Ensured(w, r)
      BY <2>2
    <3>2. CASE w \in Ticks
      <4> DEFINE s == [r EXCEPT !.pc = "list", !.base = 0]
      <4>1. Become(w, s) /\ s.pc = "list"
        BY <1>f, <3>1, <3>2 DEF Ensured, Job
      <4> HIDE DEF s
      <4>2. job'[w].pc = "list" /\ \A v \in Worker \ {w} : job'[v] = job[v]
        BY <1>w, <1>f, <4>1, OneMoves
      <4> QED BY <1>p, <2>1, <4>2 DEF Moves, Works
    <3>3. CASE w \notin Ticks
      <4>1. Become(w, Off) /\ holder # w
        BY <1>w, <3>1, <3>3 DEF Ensured, TypeInv, TypeOK, Locked, Nobody
      <4>2. job'[w] = Off /\ \A v \in Worker \ {w} : job'[v] = job[v]
        BY <1>w, <1>f, <4>1, OneMoves
      <4> QED BY <2>1, <4>1, <4>2 DEF Moves, Ends, Release
    <3> QED BY <3>2, <3>3
  <2>3. CASE Goto(w, "baseline") \/ Become(w, [job[w] EXCEPT !.pc = "subscribe", !.base = Len(log)])
    <3>1. /\ [job[w] EXCEPT !.pc = "baseline"].pc = "baseline"
          /\ [job[w] EXCEPT !.pc = "subscribe", !.base = Len(log)].pc = "subscribe"
      BY <1>f DEF Job
    <3>2. job'[w].pc \in {"baseline", "subscribe"} /\ \A v \in Worker \ {w} : job'[v] = job[v]
      BY <1>w, <1>f, <2>3, <3>1, OneMoves DEF Goto
    <3> QED BY <1>p, <2>1, <3>2 DEF Moves, Works
  <2> QED BY <1>2, <2>2, <2>3 DEF SubscriberStep, Ensure, Baseline, Subscribe, EnsureFails
<1> QED BY <1>1, <1>2

LEMMA ReadingMoves ==
  ASSUME TypeInv, NEW w \in {"audit", "review"},
         (w = "audit" /\ AuditStart) \/ (w = "review" /\ ReviewStart) \/ ReaderStep(w)
  PROVE  Moves(w)
<1> USE DEF At, KeepAround, KeepStore, lockVars, ledgerVars
<1>w. w \in Worker /\ (w \in Locked <=> w = "audit")
  BY DEF Ticks, Locked, Worker
<1>f. job[w] \in Job /\ JobsFit
  BY <1>w, HandTyped DEF TypeInv
<1>1. CASE (w = "audit" /\ AuditStart) \/ (w = "review" /\ ReviewStart)
  <2>1. /\ job[w].pc = "off" /\ UNCHANGED log
        /\ w \in Locked => Acquire(w)
        /\ w \notin Locked => UNCHANGED <<holder, severed>>
    BY <1>1, <1>w DEF AuditStart, ReviewStart
  <2>2. PICK r : Become(w, r) /\ r.pc = "scan"
    <3>1. \A p : [Off EXCEPT !.pc = "scan", !.pass = p, !.accts = Accounts].pc = "scan"
      BY DEF Off
    <3> QED BY <1>1, <3>1 DEF AuditStart, ReviewStart
  <2>3. job'[w].pc = "scan" /\ \A v \in Worker \ {w} : job'[v] = job[v]
    BY <1>w, <1>f, <2>2, OneMoves
  <2> QED BY <2>1, <2>3 DEF Moves, Begins
<1>2. CASE Verify(w)
  <2> DEFINE r == [job[w] EXCEPT
       !.failed = @ \/ Misses(w) # {},
       !.seen = @ \cup {m \in shown : Of[m] = Here(w)}]
  <2>1. /\ job[w].pc = "scan" /\ UNCHANGED <<log, holder, severed>>
        /\ Become(w, NextAccount(w, r))
    BY <1>2 DEF Verify
  <2>2. (Misses(w) # {}) \in BOOLEAN /\ {m \in shown : Of[m] = Here(w)} \in SUBSET Msg
    BY DEF TypeInv, TypeOK
  <2>3. r \in Job
    BY <1>f, <2>2 DEF Job
  <2> HIDE DEF r
  <2>4. job'[w].pc \in Onward /\ \A v \in Worker \ {w} : job'[v] = job[v]
    <3> DEFINE s == NextAccount(w, r)
    <3>1. s.pc \in Onward
      BY <1>w, <2>3, OnwardFromAccount
    <3>2. Become(w, s)
      BY <2>1
    <3> HIDE DEF s
    <3>3. job'[w] = s /\ \A v \in Worker \ {w} : job'[v] = job[v]
      BY <1>w, <1>f, <3>2, OneMoves
    <3> QED BY <3>1, <3>3
  <2> QED BY <2>1, <2>4 DEF Moves, Works
<1>3. CASE ScanFails(w)
  <2>1. /\ job[w].pc = "scan" /\ UNCHANGED <<log, holder, severed>>
        /\ Become(w, NextAccount(w, Failed(w)))
    BY <1>3 DEF ScanFails, Unlisted
  <2>2. job'[w].pc \in Onward /\ \A v \in Worker \ {w} : job'[v] = job[v]
    <3>1. Failed(w) \in Job /\ NextAccount(w, Failed(w)).pc \in Onward
      BY <1>w, <1>f, FailedFits, OnwardFromAccount
    <3> QED BY <1>w, <1>f, <2>1, <3>1, OneMoves
  <2> QED BY <2>1, <2>2 DEF Moves, Works
<1>4. CASE Find(w)
  <2>1. Become(w, Off) /\ Release(w) /\ UNCHANGED log
    BY <1>4 DEF Find
  <2> QED BY <1>w, <1>f, <2>1, OneMoves DEF Moves, Ends
<1> QED BY <1>1, <1>2, <1>3, <1>4 DEF ReaderStep

LEMMA ReconcilingMoves ==
  ASSUME TypeInv, Discover \/ Apply \/ ApplyFails \/ Mark \/ Copy \/ Echo
  PROVE  Moves("audit")
<1> USE DEF At, KeepAround, KeepStore, lockVars, ledgerVars
<1> DEFINE w == "audit"
<1>w. w \in Worker /\ w \in Locked
  BY DEF Locked, Worker
<1>f. job[w] \in Job /\ Failed(w) \in Job /\ JobsFit /\ Fit(w, job[w])
  BY <1>w, HandTyped, FailedFits DEF TypeInv
<1>g. \A pc \in Pc : Goto(w, pc) =>
        /\ job'[w].pc = pc /\ Hand(w)' = Hand(w) /\ \A v \in Worker \ {w} : job'[v] = job[v]
  <2> TAKE pc \in Pc
  <2> HAVE Goto(w, pc)
  <2>1. /\ job'[w] = [job[w] EXCEPT !.pc = pc]
        /\ \A v \in Worker \ {w} : job'[v] = job[v]
    BY <1>w, <1>f, OneMoves DEF Goto
  <2> QED BY <1>f, <2>1, GotoTyped DEF Hand
<1>o. ASSUME NEW r \in {job[w], Failed(w)},
             Become(w, NextMessage(w, r)) \/ Become(w, NextAccount(w, r))
      PROVE  job'[w].pc \in Onward /\ \A v \in Worker \ {w} : job'[v] = job[v]
  BY <1>o, <1>w, <1>f, OneMoves, OnwardFromMessage, OnwardFromAccount
<1>p. {"handle", "copy", "echo"} \subseteq Pc /\ {"apply", "handle"} \subseteq Onward
  BY DEF Pc, Onward
<1>1. CASE Discover
  <2>1. job[w].pc = "scan" /\ UNCHANGED <<log, holder, severed>>
    BY <1>1 DEF Discover
  <2>2. PICK S, bare, failed : failed \in BOOLEAN /\ Found(w, S, bare, failed)
    BY <1>1 DEF Discover
  <2> DEFINE r == [job[w] EXCEPT !.failed = @ \/ failed]
  <2>3. PICK batch :
          Become(w, IF batch = <<>> THEN NextAccount(w, r)
                    ELSE [r EXCEPT !.batch = batch, !.bare = bare, !.pc = "apply"])
    BY <2>2 DEF Found
  <2>r. r \in Job
    BY <1>f, <2>2 DEF Job
  <2> HIDE DEF r
  <2>4. job'[w].pc \in Onward /\ \A v \in Worker \ {w} : job'[v] = job[v]
    <3>1. NextAccount(w, r).pc \in Onward
      BY <1>w, <2>r, OnwardFromAccount
    <3>2. [r EXCEPT !.batch = batch, !.bare = bare, !.pc = "apply"].pc \in Onward
      BY <1>p, <2>r DEF Job
    <3> QED BY <1>w, <1>f, <2>3, <3>1, <3>2, OneMoves
  <2> QED BY <2>1, <2>4 DEF Moves, Works
<1>2. CASE ApplyFails
  <2>1. /\ job[w].pc = "handle" /\ UNCHANGED <<log, holder, severed>>
        /\ Become(w, NextMessage(w, Failed(w)))
    BY <1>2 DEF ApplyFails
  <2> QED BY <1>o, <2>1 DEF Moves, Works
<1>3. CASE Apply
  <2>1. job[w].pc = "apply" /\ UNCHANGED <<log, holder, severed>>
    BY <1>3 DEF Apply
  <2>2. CASE Become(w, NextMessage(w, job[w])) \/ Goto(w, "handle")
    BY <1>o, <1>g, <1>p, <2>1, <2>2 DEF Moves, Works
  <2>3. CASE (~Known(Hand(w)) \/ Forgets(Hand(w))) /\ Goto(w, "copy")
    <3>1. Hand(w) \in unasked' \/ \A i \in DOMAIN log : log[i].msg # Hand(w)
      BY <2>3 DEF Known, Forgets
    <3> QED BY <1>w, <1>g, <1>p, <2>1, <2>3, <3>1 DEF Moves, Works, Misled
  <2> QED BY <1>3, <2>2, <2>3 DEF Apply
<1>4. CASE Mark
  <2>1. /\ job[w].pc = "mark" /\ UNCHANGED <<holder, severed>>
        /\ log' = Relabelled(Hand(w), TypeRead(w)) \/ UNCHANGED log
        /\ Become(w, NextMessage(w, job[w])) \/ Become(w, NextMessage(w, Failed(w)))
    BY <1>4 DEF Mark
  <2>2. job'[w].pc \in Onward /\ \A v \in Worker \ {w} : job'[v] = job[v]
    BY <1>o, <2>1
  <2>3. Hand(w) \in Msg /\ TypeRead(w) \in InboundTypes
    BY <1>w, <1>f, <2>1, HandTyped DEF Handling, MsgWork
  <2> QED BY <2>1, <2>2, <2>3 DEF Moves, Works
<1>5. CASE Copy
  <2>1. /\ job[w].pc = "copy" /\ UNCHANGED <<log, holder, severed>>
        /\ Goto(w, "echo") \/ Become(w, NextMessage(w, Failed(w)))
    BY <1>5 DEF Copy
  <2> QED BY <1>o, <1>g, <1>p, <2>1 DEF Moves, Works
<1>6. CASE Echo
  <2>1. /\ job[w].pc = "echo" /\ UNCHANGED <<holder, severed>>
        /\ Insert(Hand(w), "manual_reply", "audit") \/ UNCHANGED log
        /\ Become(w, NextMessage(w, job[w])) \/ Become(w, NextMessage(w, Failed(w)))
    BY <1>6 DEF Echo
  <2>2. job'[w].pc \in Onward /\ \A v \in Worker \ {w} : job'[v] = job[v]
    BY <1>o, <2>1
  <2>3. ~Inbound(Hand(w))
    BY <1>f, <2>1 DEF Fit, Hand
  <2> QED BY <1>w, <2>1, <2>2, <2>3 DEF Moves, Works, Writes
<1> QED BY <1>1, <1>2, <1>3, <1>4, <1>5, <1>6

LEMMA EveryStep ==
  ASSUME TypeInv, TypesAgree, [Next]_vars
  PROVE  Rests \/ \E w \in Worker : Moves(w)
<1>1. CASE Outside \/ Sever
  <2>1. \A m \in Msg : \A type : Import(m, type) => UNCHANGED log
    BY DEF Import
  <2> QED BY <1>1, <2>1 DEF Outside, Sever, Rests, KeepAround, KeepStore, lockVars, Arrive, Show, MoveOut,
             Importers, Refresh, Backfill, Tock
<1>2. ASSUME NEW w \in Ticks, TickStart(w) \/ TickStep(w) PROVE Moves(w) /\ w \in Worker
  <2>1. w \in Locked /\ w \in Worker
    BY DEF Locked, Worker
  <2> QED BY <1>2, <2>1, TickMoves, HandlingMoves DEF TickStep
<1>3. CASE AuditStart \/ ReviewStart \/ \E w \in {"audit", "review"} : ReaderStep(w)
  <2>1. \E w \in {"audit", "review"} : Moves(w)
    BY <1>3, ReadingMoves
  <2> QED BY <2>1 DEF Worker, Locked
<1>4. CASE AuditStep
  <2>1. "audit" \in Locked /\ "audit" \in Worker
    BY DEF Locked, Worker
  <2> QED BY <1>4, <2>1, ReconcilingMoves, HandlingMoves DEF AuditStep
<1>5. ASSUME NEW w \in Worker, Die(w) PROVE Moves(w)
  <2>1. Become(w, Off) /\ Release(w) /\ UNCHANGED log
    BY <1>5 DEF Die, KeepStore
  <2> QED BY <2>1, OneMoves DEF Moves, Ends, TypeInv
<1>6. CASE DryStart \/ \E w \in Subscribers : SubscriberStep(w)
  <2>1. "dry run" \in Subscribers /\ Subscribers \subseteq Worker
    BY DEF Subscribers, Worker, Locked
  <2> QED BY <1>6, <2>1, SubscribingMoves
<1>7. CASE UNCHANGED vars
  BY <1>7 DEF vars, ledgerVars, lockVars, Rests
<1> QED BY <1>1, <1>2, <1>3, <1>4, <1>5, <1>6, <1>7 DEF Next

\* A lookup that failed is remembered.
LEMMA Unforgotten == ASSUME [Next]_vars PROVE unasked \subseteq unasked'
<1> USE DEF KeepStore, ledgerVars
<1>1. CASE Outside \/ Sever
  <2>1. \A m \in Msg : \A type : Import(m, type) => UNCHANGED unasked
    BY DEF Import
  <2> QED BY <1>1, <2>1 DEF Outside, Sever, Arrive, Show, MoveOut, Importers, Refresh, Backfill, Tock
<1>2. ASSUME NEW w, Handle(w) PROVE unasked \subseteq unasked'
  BY <1>2 DEF Handle, Check, Record, Store, Stop, Forgets
<1>3. ASSUME NEW w, TickStart(w) \/ TickStep(w) PROVE unasked \subseteq unasked'
  BY <1>3, <1>2 DEF TickStart, TickStep, List, BreakOff, Advance, LoadPage, Post, NoteEvent, TickClose
<1>4. CASE AuditStart \/ AuditStep \/ ReviewStart
  BY <1>4, <1>2 DEF AuditStart, AuditStep, ReviewStart, Discover, Apply, ApplyFails, Mark, Copy, Echo,
        Forgets
<1>5. ASSUME NEW w, ReaderStep(w) \/ Die(w) \/ SubscriberStep(w) PROVE unasked \subseteq unasked'
  BY <1>5 DEF ReaderStep, Verify, ScanFails, Find, Die, SubscriberStep, Ensure, Baseline, Subscribe,
        EnsureFails
<1>6. CASE DryStart \/ UNCHANGED vars
  BY <1>6 DEF DryStart, vars
<1> QED BY <1>1, <1>3, <1>4, <1>5, <1>6 DEF Next

-----------------------------------------------------------------------------
(* One event to a message. *)

\* A worker at work has the lock, as long as none was lost.
Alone ==
  ~severed => \A w \in Locked : job[w].pc # "off" => holder = w

\* Messages looked up and not found have no event until it is written.
NoneYet ==
  ~severed =>
    /\ \A w \in Locked : job[w].pc = "record" => Unrecorded(Hand(w))
    /\ job["audit"].pc \in {"copy", "echo"} => Unrecorded(Hand("audit"))

RecordInv == TypeInv /\ TypesAgree /\ Alone /\ NoneYet /\ OneEventPerMessage

LEMMA LogGrows ==
  ASSUME TypeInv, NEW w \in Worker, Writes(w)
  PROVE  /\ DOMAIN log' = DOMAIN log \cup {Len(log) + 1} /\ Len(log) + 1 \notin DOMAIN log
         /\ \A i \in DOMAIN log : log'[i] = log[i]
         /\ log'[Len(log) + 1].msg = Hand(w)
         /\ log'[Len(log) + 1].type \in InboundTypes <=> Inbound(Hand(w))
<1>1. Hand(w) \in Msg /\ w \in Worker
  BY HandTyped DEF TypeInv, Writes, MsgWork, Handling
<1>2. PICK type \in InboundTypes \cup {"manual_reply"}, by \in {"tick", "audit"} :
        /\ Insert(Hand(w), type, by)
        /\ type \in InboundTypes <=> Inbound(Hand(w))
  BY DEF Writes, InboundTypes
<1>3. /\ log' \in Seq(Entry) /\ Len(log') = Len(log) + 1 /\ log \in Seq(Entry)
      /\ \A i \in DOMAIN log : log'[i] = log[i]
      /\ log'[Len(log) + 1].msg = Hand(w) /\ log'[Len(log) + 1].type = type
  BY <1>1, <1>2, InsertTyped DEF TypeInv, TypeOK
<1>4. DOMAIN log' = DOMAIN log \cup {Len(log) + 1} /\ Len(log) + 1 \notin DOMAIN log
  BY <1>3
<1> QED BY <1>2, <1>3, <1>4

LEMMA RelabelKeeps ==
  ASSUME TypeInv, NEW w \in Worker, Works(w), ~Writes(w)
  PROVE  /\ DOMAIN log' = DOMAIN log
         /\ \A i \in DOMAIN log : log'[i].msg = log[i].msg /\ log'[i].type = log[i].type
BY RelabelledTyped DEF TypeInv, Works, Misled

LEMMA AgreeStep ==
  ASSUME TypeInv, TypesAgree, [Next]_vars
  PROVE  TypesAgree'
<1>1. CASE UNCHANGED log
  BY <1>1 DEF TypesAgree
<1>2. ASSUME NEW w \in Worker, Works(w) PROVE TypesAgree'
  <2>1. CASE Writes(w)
    BY <2>1, LogGrows DEF TypesAgree
  <2>2. CASE ~Writes(w)
    BY <1>2, <2>2, RelabelKeeps DEF TypesAgree
  <2> QED BY <2>1, <2>2
<1> QED BY <1>1, <1>2, EveryStep DEF Moves, Begins, Ends, Rests

LEMMA AloneStep ==
  ASSUME TypeInv, TypesAgree, Alone, [Next]_vars
  PROVE  Alone'
<1>w. Locked \subseteq Worker
  BY DEF Locked, Worker
<1>1. CASE Rests
  BY <1>1 DEF Rests, Alone
<1>2. ASSUME NEW w \in Worker, Moves(w) PROVE Alone'
  <2>1. \A v \in Worker \ {w} : job'[v] = job[v]
    BY <1>2 DEF Moves
  <2>2. CASE Begins(w)
    <3>1. CASE w \in Locked
      <4>1. holder = Nobody /\ holder' = w /\ severed' = severed
        BY <2>2, <3>1 DEF Begins, Acquire
      <4>2. ~severed => \A v \in Locked : job[v].pc = "off"
        BY <4>1 DEF Alone, Locked, Ticks, Nobody
      <4> QED BY <2>1, <4>1, <4>2, <1>w DEF Alone
    <3>2. CASE w \notin Locked
      BY <2>1, <2>2, <3>2, <1>w DEF Begins, Alone
    <3> QED BY <3>1, <3>2
  <2>3. CASE Ends(w)
    <3>1. job'[w].pc = "off" /\ severed' = severed
      BY <2>3 DEF Ends, Off, Release
    <3>2. CASE holder = w
      BY <2>1, <3>1, <3>2, <1>w DEF Alone
    <3>3. CASE holder # w
      BY <2>1, <2>3, <3>1, <3>3, <1>w DEF Ends, Release, Alone
    <3> QED BY <3>2, <3>3
  <2>4. CASE Works(w)
    BY <2>1, <2>4 DEF Works, Alone, Locked, Worker
  <2> QED BY <1>2, <2>2, <2>3, <2>4 DEF Moves
<1> QED BY <1>1, <1>2, EveryStep

LEMMA NoneYetStep ==
  ASSUME RecordInv, [Next]_vars
  PROVE  NoneYet' /\ OneEventPerMessage'
<1> USE DEF RecordInv
<1> SUFFICES ASSUME ~severed' PROVE NoneYet' /\ OneEventPerMessage'
  BY DEF NoneYet, OneEventPerMessage
<1>w. Locked \subseteq Worker /\ "audit" \in Locked
  BY DEF Locked, Worker
<1>u. unasked \subseteq unasked'
  BY Unforgotten
<1>1. CASE Rests
  BY <1>1, <1>u DEF Rests, NoneYet, OneEventPerMessage, Hand, Unrecorded
<1>2. ASSUME NEW w \in Worker, Moves(w) PROVE NoneYet' /\ OneEventPerMessage'
  <2>1. /\ ~severed
        /\ \A v \in Worker \ {w} : job'[v] = job[v] /\ Hand(v)' = Hand(v)
    BY <1>2 DEF Moves, Begins, Ends, Works, Acquire, Release, Hand, Locked
  <2>2. CASE Begins(w) \/ Ends(w)
    <3>1. job'[w].pc \notin {"record", "copy", "echo"} /\ UNCHANGED log
      BY <2>2 DEF Begins, Ends, Off
    <3> QED BY <1>w, <1>u, <2>1, <3>1 DEF NoneYet, OneEventPerMessage, Unrecorded
  <2>3. CASE Works(w) /\ Writes(w)
    <3>1. w \in Locked /\ job'[w].pc \notin {"record", "copy", "echo"}
      BY <1>w, <2>3 DEF Writes, Works, Onward
    <3>2. \A v \in Locked \ {w} : job[v].pc = "off"
      BY <2>1, <2>3, <3>1 DEF Works, Alone
    <3>3. Unrecorded(Hand(w))
      BY <2>1, <2>3, <3>1 DEF Writes, NoneYet
    <3>4. NoneYet'
      BY <1>w, <2>1, <3>1, <3>2 DEF NoneYet
    <3>5. OneEventPerMessage'
      BY <1>u, <2>1, <2>3, <3>3, LogGrows DEF OneEventPerMessage, Unrecorded
    <3> QED BY <3>4, <3>5
  <2>4. CASE Works(w) /\ ~Writes(w)
    <3>1. /\ DOMAIN log' = DOMAIN log
          /\ \A i \in DOMAIN log : log'[i].msg = log[i].msg
      BY <2>4, RelabelKeeps
    <3>2. OneEventPerMessage'
      BY <1>u, <2>1, <3>1 DEF OneEventPerMessage
    <3>3. job'[w].pc \in {"record", "copy", "echo"} =>
            /\ Hand(w)' = Hand(w)
            /\ Hand(w) \in unasked' \/ \A i \in DOMAIN log : log[i].msg # Hand(w)
      BY <1>u, <2>1, <2>4 DEF Works, Writes, Misled, NoneYet, Onward, Unrecorded
    <3>4. NoneYet'
      BY <1>w, <1>u, <2>1, <3>1, <3>3 DEF NoneYet, Unrecorded
    <3> QED BY <3>2, <3>4
  <2> QED BY <1>2, <2>2, <2>3, <2>4 DEF Moves
<1> QED BY <1>1, <1>2, EveryStep

LEMMA InitRecords == Init => RecordInv
<1> SUFFICES ASSUME Init PROVE RecordInv
  OBVIOUS
<1>1. log = <<>> /\ DOMAIN log = {} /\ \A w \in Worker : job[w].pc = "off"
  BY DEF Init, LedgerInit, Off
<1>2. "audit" \in Worker /\ Locked \subseteq Worker
  BY DEF Worker, Locked
<1> QED BY <1>1, <1>2, InitTyped DEF RecordInv, TypesAgree, Alone, NoneYet, OneEventPerMessage

\* Ticks that overlap, look again and die half-way, reconciliations and
\* importers leave one event to a message, as long as the lock is not lost and
\* no lookup of the message has failed: the error of that one is dropped.
THEOREM OneEvent == Spec => []OneEventPerMessage
<1>1. RecordInv /\ [Next]_vars => RecordInv'
  BY NextTyped, AgreeStep, AloneStep, NoneYetStep DEF RecordInv
<1>2. RecordInv => OneEventPerMessage
  BY DEF RecordInv
<1> QED BY <1>1, <1>2, InitRecords, PTL DEF Spec
=============================================================================
