----------------------------- MODULE PollProofs -----------------------------
(* The poll leaves no message behind, and a clean reconciliation means that *)
(* the opt-outs it saw were acted upon: for any number of accounts,         *)
(* messages and overlapping workers.                                        *)
EXTENDS OutboxProofs

-----------------------------------------------------------------------------
(* No message is left behind.                                               *)

\* Mail is listed within its lag.
Dated ==
  \A m \in Msg :
    /\ date[m] <= now
    /\ m \in shown => date[m] # NoTime
    /\ m \notin shown /\ date[m] # NoTime => now <= date[m] + Lag

\* A cursor is set to when a poll began.
BeganPast ==
  /\ \A w \in Ticks : job[w].pc # "off" => job[w].began \in Nat /\ job[w].began <= now
  /\ \A a \in Account : cursors[a] <= now

\* A tick between listing an account and advancing its cursor.
Progress == {"handle", "record", "keep", "heed", "advance"}

Settled(m) == Recorded(m) \/ m \in botched

\* The cursor that w is about to write will be after m.
Due(w, m) ==
  Inbound(m) /\ Of[m] = Here(w) /\ origin[Here(w)] <= date[m] /\ date[m] < job[w].began - Overlap

\* By then m is recorded, or it is among the messages still to be handled.
Covered(w) ==
  job[w].pc \in Progress =>
    /\ \A m \in shown \ filed :
         Due(w, m) => Settled(m) \/ \E n \in DOMAIN job[w].batch : job[w].batch[n] = m
    /\ job[w].pc \in {"keep", "heed"} => Settled(Hand(w))
    /\ job[w].pc = "advance" => job[w].batch = <<>>

PollInv ==
  /\ TypeInv /\ TypesAgree
  /\ origin \in [Account -> Int]
  /\ Dated /\ BeganPast
  /\ \A w \in Ticks : Covered(w)
  /\ NothingBehindCursor

-----------------------------------------------------------------------------
(* Mailboxes and the log. *)

LEMMA AllListed ==
  ASSUME NEW S, IsFiniteSet(S), NEW s \in Orders(S), NEW e \in S
  PROVE  \E n \in DOMAIN s : s[n] = e
<1> DEFINE N == Cardinality(S)
<1>1. N \in Nat
  BY FS_CardinalityType
<1>2. IsFiniteSet(1 .. N) /\ Cardinality(1 .. N) = N
  BY <1>1, FS_Interval
<1>3. s \in Injection(1 .. N, S)
  BY DEF Orders, Injection, IsInjective
<1>4. s \in Surjection(1 .. N, S)
  BY <1>2, <1>3, FS_Injection
<1> QED BY <1>3, <1>4 DEF Surjection, Orders

\* What happens to mail: it is listed within its lag and stays listed.
MailGoesOn ==
  /\ now <= now' /\ shown \subseteq shown' /\ filed \subseteq filed'
  /\ \A m \in shown : date'[m] = date[m]
  /\ \A m \in shown' \ shown : date'[m] = date[m] /\ date[m] # NoTime /\ now <= date[m] + Lag
LEMMA MailSteps ==
  ASSUME TypeInv, Dated, [Next]_vars
  PROVE  MailGoesOn /\ Dated'
<1>t. /\ now \in Nat /\ date \in [Msg -> Nat \cup {NoTime}] /\ shown \subseteq Msg /\ filed \subseteq shown
      /\ NoTime = -1 /\ Lag \in Nat
  BY LedgerAssumption DEF TypeInv, TypeOK, NoTime
<1>1. CASE UNCHANGED <<now, date, shown, filed>>
  BY <1>1, <1>t DEF MailGoesOn, Dated
<1>2. ASSUME NEW m \in Msg, Arrive(m) PROVE MailGoesOn /\ Dated'
  <2>1. /\ date[m] = NoTime /\ m \notin shown /\ UNCHANGED <<now, shown, filed>>
        /\ \A n \in Msg : date'[n] = IF n = m THEN now ELSE date[n]
    BY <1>2, <1>t DEF Arrive, Dated
  <2>2. MailGoesOn
    BY <1>t, <2>1 DEF MailGoesOn
  <2>3. Dated'
    BY <1>t, <2>1 DEF Dated
  <2> QED BY <2>2, <2>3
<1>3. ASSUME NEW m \in Msg, Show(m) PROVE MailGoesOn /\ Dated'
  <2>1. date[m] # NoTime /\ shown' = shown \cup {m} /\ m \notin shown /\ UNCHANGED <<now, date, filed>>
    BY <1>3 DEF Show
  <2>2. MailGoesOn
    BY <1>t, <2>1 DEF MailGoesOn, Dated
  <2>3. Dated'
    BY <1>t, <2>1 DEF Dated
  <2> QED BY <2>2, <2>3
<1>4. ASSUME NEW m \in Msg, MoveOut(m) PROVE MailGoesOn /\ Dated'
  BY <1>4, <1>t DEF MoveOut, MailGoesOn, Dated
<1>5. CASE Tock
  <2>1. /\ \A m \in Msg : date[m] # NoTime /\ m \notin shown => now < date[m] + Lag
        /\ now' = now + 1 /\ UNCHANGED <<date, shown, filed>>
    BY <1>5 DEF Tock
  <2>2. MailGoesOn
    BY <1>t, <2>1 DEF MailGoesOn
  <2>3. Dated'
    BY <1>t, <2>1 DEF Dated
  <2> QED BY <2>2, <2>3
<1>6. CASE Importers
  BY <1>1, <1>6 DEF Importers, Refresh, Backfill, Import
<1>7. CASE Outside
  BY <1>2, <1>3, <1>4, <1>5, <1>6, <1>7 DEF Outside
<1>8. CASE UNCHANGED vars \/ Sever
  BY <1>1, <1>8 DEF vars, ledgerVars, Sever, KeepMail
<1>h. ASSUME NEW w, Handle(w) PROVE UNCHANGED <<now, date, shown, filed>>
  BY <1>h DEF Handle, Check, Record, Store, Stop, KeepMail, ledgerVars
<1>9. ASSUME NEW w \in Ticks, TickStart(w) \/ TickStep(w) PROVE UNCHANGED <<now, date, shown, filed>>
  BY <1>9, <1>h DEF TickStart, TickStep, List, BreakOff, Advance, LoadPage, Post, NoteEvent,
     TickClose, KeepMail, ledgerVars
<1>10. CASE AuditStart \/ AuditStep \/ ReviewStart \/ \E w \in {"audit", "review"} : ReaderStep(w)
  <2>1. UNCHANGED <<now, date, shown, filed>>
    BY <1>10, <1>h DEF AuditStart, AuditStep, ReviewStart, ReaderStep, Verify, ScanFails, Find, Discover,
       Apply, ApplyFails, Mark, Copy, Echo, KeepMail, ledgerVars
  <2> QED BY <1>1, <2>1
<1>11. ASSUME NEW w, Die(w) \/ SubscriberStep(w) \/ DryStart PROVE MailGoesOn /\ Dated'
  BY <1>1, <1>11 DEF Die, SubscriberStep, Ensure, Baseline, Subscribe, EnsureFails, DryStart,
     KeepMail, ledgerVars
<1> QED BY <1>1, <1>7, <1>8, <1>9, <1>10, <1>11 DEF Next

LEMMA StaysSettled ==
  ASSUME TypeInv, TypesAgree, [Next]_vars, NEW m, Settled(m)
  PROVE  Settled(m)'
<1>1. Grown /\ botched \subseteq botched'
  BY LogSteps, BotchedGrows
<1> QED BY <1>1 DEF Settled, Recorded, Grown

-----------------------------------------------------------------------------
(* A tick on its way through an account. *)

\* It looks at the next message when it has settled the one in hand.
Passes(w) ==
  /\ job[w].pc \in Progress /\ \A m \in {Hand(w)} : Settled(m)'
  /\ job'[w].batch = Tail(job[w].batch) /\ job[w].batch # <<>>
  /\ job'[w].pc = IF Tail(job[w].batch) = <<>> THEN "advance" ELSE "handle"

Stays(w) ==
  /\ job[w].pc \in Progress \ {"advance"} /\ job'[w].pc \in Progress \ {"advance"}
  /\ job'[w].batch = job[w].batch
  /\ job'[w].pc \in {"keep", "heed"} => \A m \in {Hand(w)} : Settled(m)'

\* It lists what there is since its cursor, or since it is watched.
Looks(w) ==
  /\ At(w, "list") /\ UNCHANGED date
  /\ \E since \in Int :
       /\ job'[w].batch \in Orders(Listed(Here(w), since))
       /\ \/ cursors[Here(w)] # NoTime /\ since = Since(Here(w))
          \/ since <= origin'[Here(w)]
  /\ job'[w].pc = IF job'[w].batch = <<>> THEN "advance" ELSE "handle"

GoesThrough(w) ==
  /\ \A v \in Worker \ {w} : job'[v] = job[v]
  /\ \/ job'[w].pc \notin Progress
     \/ /\ job'[w].accts = job[w].accts /\ job'[w].began = job[w].began
        /\ Passes(w) \/ Stays(w) \/ Looks(w)

LEMMA NextMessageIs ==
  ASSUME NEW w \in Ticks, NEW r \in Job
  PROVE  LET s == NextMessage(w, r) IN
           /\ s.batch = Tail(r.batch)
           /\ s.pc = IF Tail(r.batch) = <<>> THEN "advance" ELSE "handle"
           /\ s.accts = r.accts /\ s.began = r.began
<1> DEFINE rest == Tail(r.batch)
           pc == IF rest = <<>> THEN "advance" ELSE IF w \in Ticks THEN "handle" ELSE "apply"
<1>1. NextMessage(w, r) = [r EXCEPT !.batch = rest, !.pc = pc]
  BY DEF NextMessage
<1>2. pc = IF rest = <<>> THEN "advance" ELSE "handle"
  OBVIOUS
<1> HIDE DEF pc, rest
<1>3. LET s == [r EXCEPT !.batch = rest, !.pc = pc] IN
        s.batch = rest /\ s.pc = pc /\ s.accts = r.accts /\ s.began = r.began
  BY DEF Job
<1> QED BY <1>1, <1>2, <1>3 DEF rest

LEMMA GotoIs ==
  ASSUME JobsFit, NEW w \in Worker, NEW pc \in Pc, Goto(w, pc)
  PROVE  /\ job'[w].pc = pc /\ job'[w].batch = job[w].batch
         /\ job'[w].accts = job[w].accts /\ job'[w].began = job[w].began
         /\ \A v \in Worker \ {w} : job'[v] = job[v]
<1>1. job[w] \in Job
  BY HandTyped
<1>2. job'[w] = [job[w] EXCEPT !.pc = pc] /\ \A v \in Worker \ {w} : job'[v] = job[v]
  BY OneMoves DEF Goto
<1> QED BY <1>1, <1>2 DEF Job

\* What a tick does, or is about to do, on the channel is no part of its poll.
LEMMA SubscriberGoes ==
  ASSUME TypeInv, NEW w \in Subscribers, SubscriberStep(w)
  PROVE  /\ \A v \in Worker \ {w} : job'[v] = job[v]
         /\ job[w].pc \in {"ensure", "baseline", "subscribe"}
         /\ job'[w].pc \in {"baseline", "subscribe", "list", "off"}
         /\ w \in Ticks => job'[w].began = job[w].began
<1> USE DEF At
<1>w. w \in Worker
  BY DEF Subscribers, Locked, Worker
<1>f. job[w] \in Job /\ Failed(w) \in Job /\ Failed(w).began = job[w].began /\ JobsFit
  <2>1. job[w] \in Job /\ Failed(w) \in Job /\ JobsFit
    BY <1>w, HandTyped, FailedFits DEF TypeInv
  <2> QED BY <2>1 DEF Failed, Job
<1>1. job[w].pc \in {"ensure", "baseline", "subscribe"}
  BY DEF SubscriberStep, Ensure, Baseline, Subscribe, EnsureFails
<1>2. ASSUME NEW r, Become(w, r), r.pc \in {"baseline", "subscribe", "list", "off"},
             w \in Ticks => r.began = job[w].began
      PROVE  /\ \A v \in Worker \ {w} : job'[v] = job[v]
             /\ job'[w].pc \in {"baseline", "subscribe", "list", "off"}
             /\ w \in Ticks => job'[w].began = job[w].began
  BY <1>w, <1>f, <1>2, OneMoves
<1>3. ASSUME NEW r \in {job[w], Failed(w)}
      PROVE  /\ [r EXCEPT !.pc = "list", !.base = 0].pc = "list"
             /\ [r EXCEPT !.pc = "list", !.base = 0].began = job[w].began
  BY <1>f DEF Job
<1>4. Off.pc = "off"
  BY DEF Off
<1>5. CASE \E r \in {job[w], Failed(w)} : Ensured(w, r)
  <2>1. PICK r \in {job[w], Failed(w)} : Ensured(w, r)
    BY <1>5
  <2>2. CASE w \in Ticks
    BY <1>1, <1>2, <1>3, <2>1, <2>2 DEF Ensured
  <2>3. CASE w \notin Ticks
    BY <1>1, <1>2, <1>4, <2>1, <2>3 DEF Ensured
  <2> QED BY <2>2, <2>3
<1>6. CASE Goto(w, "baseline") \/ Become(w, [job[w] EXCEPT !.pc = "subscribe", !.base = Len(log)])
  <2> DEFINE r == [job[w] EXCEPT !.pc = "baseline"]
             s == [job[w] EXCEPT !.pc = "subscribe", !.base = Len(log)]
  <2>1. /\ r.pc = "baseline" /\ r.began = job[w].began
        /\ s.pc = "subscribe" /\ s.began = job[w].began
    BY <1>f DEF Job
  <2>2. Become(w, r) \/ Become(w, s)
    BY <1>6 DEF Goto
  <2> HIDE DEF r, s
  <2> QED BY <1>1, <1>2, <2>1, <2>2
<1> QED BY <1>5, <1>6 DEF SubscriberStep, Ensure, Baseline, Subscribe, EnsureFails

LEMMA SinceTyped ==
  ASSUME TypeInv, NEW a \in Account
  PROVE  Since(a) \in Int /\ SinceShared \in Int
BY LedgerAssumption DEF TypeInv, TypeOK, Since, SinceShared, NoTime

\* An account is listed since its cursor, or watched from where it was listed.
LEMMA ListIs ==
  ASSUME TypeInv, NEW w \in Ticks, List(w)
  PROVE  /\ job[w].pc = "list" /\ Here(w) \in Account /\ UNCHANGED <<cursors, date>>
         /\ \E since \in Int :
              /\ Poll(w, since)
              /\ \/ UNCHANGED origin /\ cursors[Here(w)] # NoTime /\ since = Since(Here(w))
                 \/ WatchFrom(Here(w), since)
<1>1. Here(w) \in Account
  BY HandTyped DEF List, At, AcctWork, TypeInv, Worker, Locked
<1>2. Since(Here(w)) \in Int /\ SinceShared \in Int /\ 0 \in Int
  BY <1>1, SinceTyped
<1>3. job[w].pc = "list" /\ UNCHANGED <<cursors, date>>
  BY DEF List, At, KeepMail
<1>4. CASE Poll(w, Since(Here(w))) /\ IF cursors[Here(w)] = NoTime
                                         THEN WatchFrom(Here(w), Since(Here(w))) ELSE UNCHANGED origin
  BY <1>1, <1>2, <1>3, <1>4
<1>5. CASE \E since \in {SinceShared, 0} : Poll(w, since) /\ WatchFrom(Here(w), since)
  BY <1>1, <1>2, <1>3, <1>5
<1> QED BY <1>4, <1>5 DEF List

LEMMA HandleGoes ==
  ASSUME TypeInv, TypesAgree, [Next]_vars, NEW w \in Ticks, Covered(w), Handle(w)
  PROVE  GoesThrough(w)
<1> USE DEF At
<1>w. w \in Worker
  BY DEF Ticks, Locked, Worker
<1>f. job[w] \in Job /\ JobsFit /\ TypeOK
  BY <1>w, HandTyped DEF TypeInv
<1>h. job[w].pc \in Progress \ {"advance"} => job[w].batch # <<>> /\ Hand(w) \in Msg /\ TypeRead(w) \in InboundTypes
  BY <1>w, <1>f, HandTyped DEF Progress, Handling, MsgWork
<1>g. \A pc \in {"record", "keep", "heed"} : pc \in Pc /\ pc \in Progress
  BY DEF Pc, Progress
<1>1. CASE Goto(w, "record") /\ job[w].pc = "handle"
  <2>1. /\ job'[w].pc = "record" /\ job'[w].batch = job[w].batch
        /\ job'[w].accts = job[w].accts /\ job'[w].began = job[w].began
        /\ \A v \in Worker \ {w} : job'[v] = job[v]
    BY <1>w, <1>f, <1>g, <1>1, GotoIs
  <2> QED BY <1>1, <2>1 DEF GoesThrough, Stays, Progress
<1>2. ASSUME NEW pc \in {"keep", "heed"}, Goto(w, pc), job[w].pc \in Progress \ {"advance"}, \A m \in {Hand(w)} : Settled(m)'
      PROVE  GoesThrough(w)
  <2>1. /\ job'[w].pc = pc /\ job'[w].batch = job[w].batch
        /\ job'[w].accts = job[w].accts /\ job'[w].began = job[w].began
        /\ \A v \in Worker \ {w} : job'[v] = job[v]
    BY <1>w, <1>f, <1>g, <1>2, GotoIs
  <2> QED BY <1>2, <2>1 DEF GoesThrough, Stays, Progress
<1>3. ASSUME Become(w, NextMessage(w, job[w])), job[w].pc \in Progress \ {"advance"}, \A m \in {Hand(w)} : Settled(m)'
      PROVE  GoesThrough(w)
  <2>1. job'[w] = NextMessage(w, job[w]) /\ \A v \in Worker \ {w} : job'[v] = job[v]
    BY <1>w, <1>f, <1>3, OneMoves
  <2>2. /\ job'[w].batch = Tail(job[w].batch)
        /\ job'[w].pc = IF Tail(job[w].batch) = <<>> THEN "advance" ELSE "handle"
        /\ job'[w].accts = job[w].accts /\ job'[w].began = job[w].began
    <3> DEFINE s == NextMessage(w, job[w])
    <3>1. /\ s.batch = Tail(job[w].batch) /\ s.accts = job[w].accts /\ s.began = job[w].began
          /\ s.pc = IF Tail(job[w].batch) = <<>> THEN "advance" ELSE "handle"
      BY <1>f, NextMessageIs
    <3>2. job'[w] = s
      BY <2>1
    <3> HIDE DEF s
    <3> QED BY <3>1, <3>2
  <2>3. job[w].batch # <<>> /\ job[w].pc \in Progress
    BY <1>h, <1>3
  <2>4. Passes(w)
    BY <1>3, <2>2, <2>3 DEF Passes
  <2> QED BY <2>1, <2>2, <2>4 DEF GoesThrough
<1>s. \A m : Settled(m) => Settled(m)'
  BY StaysSettled
<1>4. CASE Check(w)
  <2>1. CASE Goto(w, "record")
    BY <1>1, <1>4, <2>1 DEF Check
  <2>2. CASE HandBack(w) /\ (Recorded(Hand(w)) \/ Fails(Hand(w)))
    <3>1. \A m \in {Hand(w)} : Settled(m)'
      BY <1>s, <2>2 DEF Settled, Fails
    <3>2. Become(w, NextMessage(w, job[w])) /\ job[w].pc = "handle"
      BY <1>4, <2>2 DEF Check, HandBack
    <3> QED BY <1>3, <3>1, <3>2 DEF Progress
  <2> QED BY <1>4, <2>1, <2>2 DEF Check
<1>5. CASE Record(w)
  <2>1. job[w].pc \in Progress \ {"advance"} /\ Goto(w, "keep")
    BY <1>5 DEF Record, Progress
  <2>2. CASE Insert(Hand(w), TypeRead(w), "tick")
    <3>1. /\ DOMAIN log' = DOMAIN log \cup {Len(log) + 1}
          /\ log'[Len(log) + 1].msg = Hand(w) /\ log'[Len(log) + 1].type = TypeRead(w)
      BY <1>f, <1>h, <2>1, <2>2, Inserted
    <3>2. \A m \in {Hand(w)} : Settled(m)'
      BY <1>h, <2>1, <3>1 DEF Settled, Recorded
    <3> QED BY <1>2, <2>1, <3>2
  <2>3. CASE Fails(Hand(w))
    <3>1. \A m \in {Hand(w)} : Settled(m)'
      BY <2>3 DEF Fails, Settled
    <3> QED BY <1>2, <2>1, <3>1
  <2> QED BY <1>5, <2>2, <2>3 DEF Record
<1>6. CASE Store(w) \/ Stop(w)
  <2>1. job[w].pc \in {"keep", "heed"} /\ Settled(Hand(w))
    BY <1>6 DEF Store, Stop, Covered, Progress
  <2>2. \A m \in {Hand(w)} : Settled(m)'
    BY <1>s, <2>1
  <2>3. job[w].pc \in Progress \ {"advance"}
    BY <2>1 DEF Progress
  <2>4. Goto(w, "heed") \/ Become(w, NextMessage(w, job[w]))
    BY <1>6 DEF Store, Stop, HandBack
  <2> QED BY <1>2, <1>3, <2>2, <2>3, <2>4
<1> QED BY <1>4, <1>5, <1>6 DEF Handle

\* Whatever a tick does.
Acts(w) == TickActs(w) \/ SubscriberStep(w)

LEMMA TickGoes ==
  ASSUME TypeInv, TypesAgree, [Next]_vars, origin \in [Account -> Int],
         NEW w \in Ticks, Covered(w), Acts(w)
  PROVE  GoesThrough(w)
<1> USE DEF At
<1>w. w \in Worker
  BY DEF Ticks, Locked, Worker
<1>f. job[w] \in Job /\ Failed(w) \in Job /\ JobsFit
  BY <1>w, HandTyped, FailedFits DEF TypeInv
<1>1. ASSUME NEW r, Become(w, r), r.pc \notin Progress
      PROVE  GoesThrough(w)
  BY <1>w, <1>f, <1>1, OneMoves DEF GoesThrough
<1>2. ASSUME NEW pc \in Pc \ Progress, NEW r \in Job, Become(w, [r EXCEPT !.pc = pc])
      PROVE  GoesThrough(w)
  <2>1. [r EXCEPT !.pc = pc].pc = pc
    BY DEF Job
  <2> QED BY <1>1, <1>2, <2>1
<1>p. {"off", "ensure", "list", "page", "post", "note", "close"} \subseteq Pc \ Progress
  BY DEF Pc, Progress
<1>3. CASE Handle(w)
  BY <1>3, HandleGoes
<1>4. CASE TickStart(w)
  <2>1. [Off EXCEPT !.pc = "ensure", !.began = now, !.accts = Accounts].pc = "ensure"
    BY DEF Off
  <2> QED BY <1>1, <1>4, <2>1 DEF TickStart, Progress
<1>5. CASE TickClose(w) \/ Die(w)
  <2>1. Off.pc = "off"
    BY DEF Off
  <2> QED BY <1>1, <1>5, <2>1 DEF TickClose, Die, Progress
<1>6. CASE BreakOff(w) \/ Advance(w)
  <2>1. NextAccount(w, job[w]).pc \in {"list", "close", "page"}
    BY <1>f, TickGoesOn
  <2> QED BY <1>1, <1>6, <2>1 DEF BreakOff, Advance, Progress
<1>7. CASE SubscriberStep(w)
  BY <1>7, SubscriberGoes DEF GoesThrough, Subscribers, Progress
<1>8. CASE LoadPage(w)
  <2>1. PICK page : \E pc \in {"close", "post"} : Become(w, [job[w] EXCEPT !.page = page, !.pc = pc])
    BY <1>8 DEF LoadPage
  <2>2. \A pc \in {"close", "post"} : [job[w] EXCEPT !.page = page, !.pc = pc].pc = pc
    BY <1>f DEF Job
  <2> QED BY <1>1, <2>1, <2>2 DEF Progress
<1>9. CASE Post(w)
  BY <1>2, <1>9, <1>f, <1>p DEF Post, Goto
<1>10. CASE NoteEvent(w)
  <2>1. CASE Goto(w, "close")
    BY <1>2, <2>1, <1>f, <1>p DEF Goto
  <2>2. ASSUME NEW pc \in {"close", "post"}, Become(w, [job[w] EXCEPT !.page = Tail(@), !.pc = pc])
        PROVE  GoesThrough(w)
    <3>1. [job[w] EXCEPT !.page = Tail(@), !.pc = pc].pc = pc
      BY <1>f DEF Job
    <3> QED BY <1>1, <2>2, <3>1 DEF Progress
  <2> QED BY <1>10, <2>1, <2>2 DEF NoteEvent
<1>11. CASE List(w)
  <2>1. PICK since \in Int :
          /\ Poll(w, since)
          /\ \/ UNCHANGED origin /\ cursors[Here(w)] # NoTime /\ since = Since(Here(w))
             \/ WatchFrom(Here(w), since)
    BY <1>11, ListIs
  <2>2. PICK batch \in Orders(Listed(Here(w), since)) :
          Become(w, [job[w] EXCEPT !.batch = batch, !.pc = IF batch = <<>> THEN "advance" ELSE "handle"])
    BY <2>1 DEF Poll
  <2> DEFINE pc == IF batch = <<>> THEN "advance" ELSE "handle"
             r  == [job[w] EXCEPT !.batch = batch, !.pc = pc]
  <2>3. r.pc = pc /\ r.batch = batch /\ r.accts = job[w].accts /\ r.began = job[w].began
    BY <1>f DEF Job
  <2>4. Become(w, r)
    BY <2>2
  <2> HIDE DEF r
  <2>5. job'[w] = r /\ \A v \in Worker \ {w} : job'[v] = job[v]
    BY <1>w, <1>f, <2>4, OneMoves
  <2>6. job[w].pc = "list" /\ Here(w) \in Account /\ UNCHANGED date
    BY <1>11, ListIs
  <2>7. \/ cursors[Here(w)] # NoTime /\ since = Since(Here(w))
        \/ since <= origin'[Here(w)]
    <3>1. ASSUME NEW a \in Account, WatchFrom(a, since) PROVE since <= origin'[a]
      BY <3>1 DEF WatchFrom
    <3> QED BY <2>1, <2>6, <3>1
  <2>8. Looks(w)
    BY <2>2, <2>3, <2>5, <2>6, <2>7 DEF Looks
  <2> QED BY <2>3, <2>5, <2>8 DEF GoesThrough
<1> QED BY <1>3, <1>4, <1>5, <1>6, <1>7, <1>8, <1>9, <1>10, <1>11 DEF Acts, TickActs, TickStep

-----------------------------------------------------------------------------
(* The line that the polls draw. *)

LineMoves ==
  \/ UNCHANGED <<cursors, origin>>
  \/ \E w \in Ticks : List(w)
  \/ \E w \in Ticks :
       /\ At(w, "advance") /\ UNCHANGED origin
       /\ cursors' = [cursors EXCEPT ![Here(w)] = job[w].began]

LEMMA LineSteps ==
  ASSUME [Next]_vars
  PROVE  LineMoves
<1> USE DEF KeepAround, lineVars
<1>1. CASE Outside \/ Sever \/ UNCHANGED vars
  BY <1>1 DEF Outside, Sever, vars, LineMoves
<1>2. ASSUME NEW w, Handle(w) PROVE UNCHANGED <<cursors, origin>>
  BY <1>2 DEF Handle, Check, Record, Store, Stop
<1>3. ASSUME NEW w \in Ticks, TickStart(w) \/ TickStep(w) PROVE LineMoves
  <2>1. CASE Advance(w)
    BY <2>1 DEF Advance, LineMoves
  <2>2. CASE List(w)
    BY <2>2 DEF LineMoves
  <2>3. CASE ~Advance(w) /\ ~List(w)
    BY <1>2, <1>3, <2>3 DEF TickStart, TickStep, Ensure, BreakOff, LoadPage, Post, NoteEvent, TickClose, LineMoves
  <2> QED BY <2>1, <2>2, <2>3
<1>4. CASE AuditStart \/ AuditStep \/ ReviewStart \/ \E w \in {"audit", "review"} : ReaderStep(w)
  BY <1>2, <1>4 DEF AuditStart, AuditStep, ReviewStart, ReaderStep, Verify, ScanFails, Find, Discover,
     Apply, ApplyFails, Mark, Copy, Echo, LineMoves
<1>5. ASSUME NEW w, Die(w) \/ SubscriberStep(w) \/ DryStart PROVE LineMoves
  BY <1>5 DEF Die, SubscriberStep, Ensure, Baseline, Subscribe, EnsureFails, DryStart, LineMoves
<1> QED BY <1>1, <1>3, <1>4, <1>5 DEF Next

\* An account that is watched is watched from there on.
Watched ==
  /\ origin' \in [Account -> Int]
  /\ \A a \in Account : origin[a] <= origin'[a]

LEMMA StaysWatched ==
  ASSUME TypeInv, origin \in [Account -> Int], [Next]_vars
  PROVE  Watched
<1>1. CASE UNCHANGED origin
  BY <1>1 DEF Watched
<1>2. ASSUME NEW a \in Account, NEW since \in Int, WatchFrom(a, since) PROVE Watched
  BY <1>2 DEF WatchFrom, Watched
<1>3. ASSUME NEW w \in Ticks, List(w) PROVE Watched
  BY <1>1, <1>2, <1>3, ListIs
<1> QED BY <1>1, <1>3, LineSteps DEF LineMoves

\* One tick moves, or none does.
LEMMA OneTick ==
  ASSUME TypeInv, [Next]_vars
  PROVE  \/ \A w \in Ticks : job'[w] = job[w]
         \/ \E w \in Ticks : Acts(w) /\ \A v \in Worker \ {w} : job'[v] = job[v]
<1>1. ASSUME NEW w \in Ticks, TickActs(w) PROVE \A v \in Worker \ {w} : job'[v] = job[v]
  <2>1. \E r : Become(w, r)
    BY <1>1, HandsBack DEF TickActs, TickStart, TickStep, List, Poll, BreakOff, Advance, LoadPage, Post,
       NoteEvent, TickClose, Handle, Check, Record, Store, Stop, Die, Goto
  <2>2. w \in Worker
    BY DEF Worker, Locked
  <2> QED BY <2>1, <2>2, OneMoves DEF TypeInv
<1>2. ASSUME \A w \in Ticks : ~Acts(w) PROVE \A w \in Ticks : job'[w] = job[w]
  <2>1. CASE SubscriberStep("dry run")
    <3>1. "dry run" \in Subscribers /\ Ticks \subseteq Worker \ {"dry run"}
      BY DEF Subscribers, Worker, Locked, Ticks
    <3> QED BY <2>1, <3>1, SubscriberGoes
  <2>2. CASE ~SubscriberStep("dry run")
    <3>1. \/ Outside \/ Sever \/ AuditStart \/ AuditStep \/ ReviewStart \/ DryStart
          \/ \E w \in {"audit", "review"} : ReaderStep(w) \/ Die(w)
          \/ Die("dry run")
          \/ UNCHANGED vars
      <4>1. /\ \A w \in Worker : w \in Ticks \/ w \in {"audit", "review"} \/ w = "dry run"
            /\ \A w \in Subscribers : w \in Ticks \/ w = "dry run"
        BY DEF Worker, Locked, Subscribers
      <4> QED BY <1>2, <2>2, <4>1 DEF Next, Acts, TickActs
    <3> QED BY <3>1, OtherSteps DEF Apart
  <2> QED BY <2>1, <2>2
<1>3. ASSUME NEW w \in Ticks, Acts(w) PROVE \A v \in Worker \ {w} : job'[v] = job[v]
  BY <1>1, <1>3, SubscriberGoes DEF Acts, Subscribers
<1> QED BY <1>2, <1>3

LEMMA NextAccountBegan ==
  ASSUME NEW w \in Ticks, NEW r \in Job
  PROVE  NextAccount(w, r).began = r.began
<1> DEFINE s == [r EXCEPT !.accts = Tail(@), !.batch = <<>>, !.bare = {}]
<1>1. s.began = r.began /\ \A pc \in Pc : [s EXCEPT !.pc = pc].began = s.began
  BY DEF Job
<1> HIDE DEF s
<1>2. \E pc \in Pc : Then(w, s) = [s EXCEPT !.pc = pc]
  BY DEF Then, Pc
<1>3. NextAccount(w, r) = Then(w, s)
  BY DEF NextAccount, s
<1> QED BY <1>1, <1>2, <1>3

LEMMA BeganKept ==
  ASSUME TypeInv, NEW w \in Ticks, Acts(w)
  PROVE  \/ job'[w].pc = "off"
         \/ job'[w].began = now
         \/ job[w].pc # "off" /\ job'[w].began = job[w].began
<1> USE DEF At
<1>w. w \in Worker
  BY DEF Ticks, Locked, Worker
<1>f. job[w] \in Job /\ Failed(w) \in Job /\ JobsFit /\ Failed(w).began = job[w].began
  <2>1. job[w] \in Job /\ Failed(w) \in Job /\ JobsFit
    BY <1>w, HandTyped, FailedFits DEF TypeInv
  <2> QED BY <2>1 DEF Failed, Job
<1>1. ASSUME NEW r, Become(w, r), job[w].pc # "off", r.began = job[w].began
      PROVE  job[w].pc # "off" /\ job'[w].began = job[w].began
  BY <1>w, <1>f, <1>1, OneMoves
<1>2. ASSUME NEW r \in Job, NEW pc, Become(w, [r EXCEPT !.pc = pc]), job[w].pc # "off", r.began = job[w].began
      PROVE  job[w].pc # "off" /\ job'[w].began = job[w].began
  <2>1. [r EXCEPT !.pc = pc].began = r.began
    BY DEF Job
  <2> QED BY <1>1, <1>2, <2>1
<1>3. CASE TickStart(w)
  <2>1. [Off EXCEPT !.pc = "ensure", !.began = now, !.accts = Accounts].began = now
    BY DEF Off
  <2>2. Become(w, [Off EXCEPT !.pc = "ensure", !.began = now, !.accts = Accounts])
    BY <1>3 DEF TickStart
  <2> QED BY <1>w, <1>f, <2>1, <2>2, OneMoves
<1>4. CASE TickClose(w) \/ Die(w)
  <2>1. Become(w, Off) /\ Off.pc = "off"
    BY <1>4 DEF TickClose, Die, Off
  <2> QED BY <1>w, <1>f, <2>1, OneMoves
<1>5. CASE BreakOff(w) \/ Advance(w) \/ Handle(w)
  <2>1. /\ job[w].pc # "off"
        /\ \/ Become(w, NextAccount(w, job[w])) \/ Become(w, NextMessage(w, job[w]))
           \/ \E pc : Become(w, [job[w] EXCEPT !.pc = pc])
    BY <1>5, HandsBack DEF BreakOff, Advance, Handle, Check, Record, Store, Stop, Goto
  <2>2. NextAccount(w, job[w]).began = job[w].began /\ NextMessage(w, job[w]).began = job[w].began
    BY <1>f, NextAccountBegan, NextMessageIs
  <2> QED BY <1>f, <1>1, <1>2, <2>1, <2>2
<1>6. CASE Post(w)
  <2>1. job[w].pc # "off" /\ \E pc : Become(w, [job[w] EXCEPT !.pc = pc])
    BY <1>6 DEF Post, Goto
  <2> QED BY <1>f, <1>2, <2>1
<1>7. CASE LoadPage(w) \/ NoteEvent(w)
  <2>1. /\ job[w].pc # "off"
        /\ \E page, pc : \/ Become(w, [job[w] EXCEPT !.page = page, !.pc = pc])
                         \/ Become(w, [job[w] EXCEPT !.pc = pc])
    BY <1>7 DEF LoadPage, NoteEvent, Goto
  <2>2. \A page, pc : [job[w] EXCEPT !.page = page, !.pc = pc].began = job[w].began
    BY <1>f DEF Job
  <2> QED BY <1>f, <1>1, <1>2, <2>1, <2>2
<1>8. CASE List(w)
  <2>1. job[w].pc # "off" /\ \E batch, pc : Become(w, [job[w] EXCEPT !.batch = batch, !.pc = pc])
    BY <1>8, ListIs DEF Poll
  <2>2. \A batch, pc : [job[w] EXCEPT !.batch = batch, !.pc = pc].began = job[w].began
    BY <1>f DEF Job
  <2> QED BY <1>1, <2>1, <2>2
<1>9. CASE SubscriberStep(w)
  BY <1>9, SubscriberGoes DEF Subscribers
<1> QED BY <1>3, <1>4, <1>5, <1>6, <1>7, <1>8, <1>9 DEF Acts, TickActs, TickStep

LEMMA BeganStep ==
  ASSUME PollInv, [Next]_vars
  PROVE  BeganPast'
<1>t. now \in Nat /\ now' \in Nat /\ now <= now' /\ cursors \in [Account -> Nat \cup {NoTime}]
  BY MailSteps, NextTyped DEF PollInv, TypeInv, TypeOK, MailGoesOn
<1>w. Ticks \subseteq Worker /\ "audit" \notin Ticks /\ "review" \notin Ticks
  BY DEF Worker, Locked, Ticks
<1>1. ASSUME NEW w \in Ticks, job'[w].pc # "off"
      PROVE  job'[w].began \in Nat /\ job'[w].began <= now'
  <2>1. \/ job'[w].began = now
        \/ job[w].pc # "off" /\ job'[w].began = job[w].began
    BY <1>w, <1>1, OneTick, BeganKept DEF PollInv
  <2> QED BY <1>t, <2>1 DEF PollInv, BeganPast
<1>2. ASSUME NEW a \in Account PROVE cursors'[a] <= now'
  <2>1. CASE UNCHANGED cursors
    BY <1>t, <2>1 DEF PollInv, BeganPast, NoTime
  <2>2. ASSUME NEW w \in Ticks, At(w, "advance"), cursors' = [cursors EXCEPT ![Here(w)] = job[w].began]
        PROVE  cursors'[a] <= now'
    <3>1. job[w].began \in Nat /\ job[w].began <= now
      BY <2>2 DEF PollInv, BeganPast, At
    <3>2. cursors'[a] = cursors[a] \/ cursors'[a] = job[w].began
      BY <1>t, <2>2
    <3> QED BY <1>t, <3>1, <3>2 DEF PollInv, BeganPast, NoTime
  <2>3. UNCHANGED cursors \/ \E w \in Ticks : At(w, "advance") /\ cursors' = [cursors EXCEPT ![Here(w)] = job[w].began]
    BY LineSteps DEF LineMoves, List
  <2> QED BY <2>1, <2>2, <2>3
<1> QED BY <1>1, <1>2 DEF BeganPast

-----------------------------------------------------------------------------
(* Nothing is left behind. *)

\* What is listed only now is not before the overlap of a poll under way.
LEMMA LateMail ==
  ASSUME PollInv, [Next]_vars, Lag <= Overlap, NEW m \in shown' \ shown,
         NEW t \in Nat, t <= now
  PROVE  ~(date'[m] < t - Overlap)
<1>1. MailGoesOn
  BY MailSteps DEF PollInv
<1>2. m \in Msg /\ shown' \subseteq Msg
  BY NextTyped DEF PollInv, TypeInv, TypeOK
<1>3. date'[m] = date[m] /\ date[m] # NoTime /\ now <= date[m] + Lag
  BY <1>1 DEF MailGoesOn
<1>4. date[m] \in Nat /\ now \in Nat /\ Lag \in Nat /\ Overlap \in Nat
  BY <1>2, <1>3, LedgerAssumption DEF PollInv, TypeInv, TypeOK
<1> QED BY <1>3, <1>4

\* What is due for a tick was so before, unless it is new.
LEMMA DueBefore ==
  ASSUME PollInv, [Next]_vars, Lag <= Overlap, NEW w \in Ticks,
         job[w].pc # "off", job[w].pc \in Progress \cup {"list"},
         job'[w].accts = job[w].accts, job'[w].began = job[w].began,
         NEW m \in (shown \ filed)', Due(w, m)'
  PROVE  m \in shown \ filed /\ Due(w, m)
<1>w. w \in Worker
  BY DEF Worker, Locked
<1>1. MailGoesOn /\ Watched
  BY MailSteps, StaysWatched DEF PollInv
<1>2. job[w].began \in Nat /\ job[w].began <= now
  BY DEF PollInv, BeganPast
<1>3. Here(w)' = Here(w) /\ Here(w) \in Account
  BY <1>w, HandTyped DEF Here, Progress, AcctWork, MsgWork, Handling, PollInv, TypeInv
<1>4. /\ Inbound(m) /\ Of[m] = Here(w) /\ origin'[Here(w)] <= date'[m]
      /\ date'[m] < job[w].began - Overlap
  BY <1>3 DEF Due, Inbound
<1>5. m \in shown
  BY <1>2, <1>4, LateMail
<1>6. date'[m] = date[m] /\ m \notin filed /\ m \in Msg
  BY <1>1, <1>5 DEF MailGoesOn, PollInv, TypeInv, TypeOK
<1>7. origin[Here(w)] <= date[m]
  <2>1. /\ origin[Here(w)] \in Int /\ origin'[Here(w)] \in Int /\ date[m] \in Int
        /\ origin[Here(w)] <= origin'[Here(w)]
    BY <1>1, <1>3, <1>6 DEF Watched, PollInv, TypeInv, TypeOK, NoTime
  <2> QED BY <1>4, <1>6, <2>1
<1> QED BY <1>4, <1>5, <1>6, <1>7 DEF Due

LEMMA CoveredStill ==
  ASSUME PollInv, [Next]_vars, Lag <= Overlap, NEW w \in Ticks, job'[w] = job[w]
  PROVE  Covered(w)'
<1> SUFFICES ASSUME job[w].pc \in Progress PROVE Covered(w)'
  BY DEF Covered
<1>1. Covered(w) /\ job[w].pc # "off" /\ Hand(w)' = Hand(w)
  BY DEF PollInv, Progress, Hand
<1>s. \A m : Settled(m) => Settled(m)'
  BY StaysSettled DEF PollInv
<1>2. ASSUME NEW m \in (shown \ filed)', Due(w, m)'
      PROVE  Settled(m)' \/ \E n \in DOMAIN job'[w].batch : job'[w].batch[n] = m
  <2>1. m \in shown \ filed /\ Due(w, m)
    BY <1>1, <1>2, DueBefore
  <2> QED BY <1>1, <1>s, <2>1 DEF Covered
<1>3. job[w].pc \in {"keep", "heed"} => Settled(Hand(w))'
  <2>1. ASSUME job[w].pc \in {"keep", "heed"}, NEW m, m = Hand(w) PROVE Settled(m)'
    BY <1>1, <1>s, <2>1 DEF Covered
  <2>2. Hand(w) = Hand(w)'
    BY <1>1
  <2>3. ASSUME NEW m, m = Hand(w)' PROVE Settled(m)' <=> Settled(Hand(w))'
    BY <2>3 DEF Settled, Recorded
  <2> QED BY <2>1, <2>2, <2>3
<1> QED BY <1>1, <1>2, <1>3 DEF Covered

LEMMA CoveredOn ==
  ASSUME PollInv, [Next]_vars, Lag <= Overlap, NEW w \in Ticks, Acts(w)
  PROVE  Covered(w)'
<1> SUFFICES ASSUME job'[w].pc \in Progress PROVE Covered(w)'
  BY DEF Covered
<1>w. w \in Worker /\ job[w] \in Job
  BY HandTyped DEF Worker, Locked, PollInv, TypeInv
<1>s. \A m : Settled(m) => Settled(m)'
  BY StaysSettled DEF PollInv
<1>g. /\ job'[w].accts = job[w].accts /\ job'[w].began = job[w].began
      /\ Passes(w) \/ Stays(w) \/ Looks(w)
  BY TickGoes DEF PollInv, GoesThrough
<1>p. job[w].pc # "off" /\ job[w].pc \in Progress \cup {"list"}
  BY <1>g DEF Passes, Stays, Looks, At, Progress
<1>d. ASSUME NEW m \in (shown \ filed)', Due(w, m)'
      PROVE  m \in shown \ filed /\ Due(w, m)
  BY <1>d, <1>g, <1>p, DueBefore
<1>h. ASSUME NEW m, m = Hand(w)', Settled(m)' PROVE Settled(Hand(w))'
  BY <1>h DEF Settled, Recorded
<1>1. CASE Stays(w)
  <2>1. Covered(w) /\ Hand(w)' = Hand(w)
    BY <1>1 DEF PollInv, Stays, Hand
  <2>2. job[w].pc \in Progress /\ job'[w].batch = job[w].batch /\ job'[w].pc # "advance"
    BY <1>1 DEF Stays
  <2>3. ASSUME NEW m \in (shown \ filed)', Due(w, m)'
        PROVE  Settled(m)' \/ \E n \in DOMAIN job'[w].batch : job'[w].batch[n] = m
    <3>1. m \in shown \ filed /\ Due(w, m)
      BY <2>3, <1>d
    <3> QED BY <1>s, <2>1, <2>2, <3>1 DEF Covered
  <2>4. job'[w].pc \in {"keep", "heed"} => Settled(Hand(w))'
    BY <1>1, <1>h, <2>1 DEF Stays
  <2> QED BY <2>2, <2>3, <2>4 DEF Covered
<1>2. CASE Passes(w)
  <2>1. Covered(w) /\ job[w].pc \in Progress /\ job[w].batch \in Seq(Msg)
    BY <1>w, <1>2 DEF PollInv, Passes, Job
  <2>2. /\ job'[w].batch = Tail(job[w].batch) /\ job[w].batch # <<>>
        /\ \A m \in {Hand(w)} : Settled(m)'
        /\ job'[w].pc = IF job'[w].batch = <<>> THEN "advance" ELSE "handle"
    BY <1>2 DEF Passes
  <2>3. ASSUME NEW n \in DOMAIN job[w].batch, n # 1
        PROVE  \E k \in DOMAIN job'[w].batch : job'[w].batch[k] = job[w].batch[n]
    <3> DEFINE b == job[w].batch
    <3> HIDE DEF b
    <3>1. b \in Seq(Msg) /\ b # <<>> /\ n \in DOMAIN b
      BY <2>1, <2>2, <2>3 DEF b
    <3>2. n - 1 \in DOMAIN Tail(b) /\ Tail(b)[n - 1] = b[n]
      BY <2>3, <3>1
    <3> QED BY <2>2, <3>2 DEF b
  <2>4. ASSUME NEW m \in (shown \ filed)', Due(w, m)'
        PROVE  Settled(m)' \/ \E n \in DOMAIN job'[w].batch : job'[w].batch[n] = m
    <3>1. m \in shown \ filed /\ Due(w, m)
      BY <2>4, <1>d
    <3>2. Settled(m) \/ \E n \in DOMAIN job[w].batch : job[w].batch[n] = m
      BY <2>1, <3>1 DEF Covered
    <3>3. job[w].batch[1] = Hand(w)
      BY <2>1, <2>2 DEF Hand
    <3> QED BY <1>s, <2>2, <2>3, <3>2, <3>3
  <2>5. job'[w].pc \notin {"keep", "heed"} /\ (job'[w].pc = "advance" => job'[w].batch = <<>>)
    BY <2>2
  <2> QED BY <2>4, <2>5 DEF Covered
<1>3. CASE Looks(w)
  <2>1. PICK since \in Int :
          /\ job'[w].batch \in Orders(Listed(Here(w), since))
          /\ \/ cursors[Here(w)] # NoTime /\ since = Since(Here(w))
             \/ since <= origin'[Here(w)]
    BY <1>3 DEF Looks
  <2> DEFINE a == Here(w)
             S == Listed(a, since)
  <2>2. job'[w].pc = IF job'[w].batch = <<>> THEN "advance" ELSE "handle"
    BY <1>3 DEF Looks
  <2>3. a \in Account /\ UNCHANGED date
    BY <1>w, <1>3, HandTyped DEF Looks, At, AcctWork, PollInv, TypeInv
  <2>4. IsFiniteSet(S)
    <3>1. S \subseteq shown /\ IsFiniteSet(shown)
      BY DEF Listed, PollInv, TypeInv
    <3> QED BY <3>1, FS_Subset
  <2>5. ASSUME NEW m \in (shown \ filed)', Due(w, m)'
        PROVE  Settled(m)' \/ \E n \in DOMAIN job'[w].batch : job'[w].batch[n] = m
    <3>1. m \in shown \ filed /\ Due(w, m)
      BY <2>5, <1>d
    <3>2. m \in Msg /\ Of[m] = a /\ Inbound(m) /\ date[m] \in Int /\ origin[a] <= date[m]
      BY <3>1 DEF Due, PollInv, TypeInv, TypeOK, NoTime
    <3>3. CASE date[m] >= since
      <4>1. m \in S
        BY <3>1, <3>2, <3>3 DEF Listed
      <4> QED BY <2>1, <2>4, <4>1, AllListed
    <3>4. CASE date[m] < since
      <4>1. CASE since <= origin'[a]
        <5>1. Here(w)' = a
          BY <1>g DEF Here
        <5>2. origin'[a] <= date'[m]
          BY <2>5, <5>1 DEF Due
        <5>3. origin'[a] \in Int
          BY <2>3, StaysWatched DEF PollInv, Watched
        <5> QED BY <2>1, <2>3, <3>2, <3>4, <4>1, <5>2, <5>3
      <4>2. CASE cursors[a] # NoTime /\ since = Since(a)
        <5>1. Settled(m)
          BY <3>1, <3>2, <3>4, <4>2 DEF PollInv, NothingBehindCursor, Settled
        <5> QED BY <1>s, <5>1
      <4> QED BY <2>1, <4>1, <4>2
    <3> QED BY <2>1, <3>2, <3>3, <3>4
  <2>6. job'[w].pc \notin {"keep", "heed"} /\ (job'[w].pc = "advance" => job'[w].batch = <<>>)
    BY <2>2
  <2> QED BY <2>5, <2>6 DEF Covered
<1> QED BY <1>g, <1>1, <1>2, <1>3

LEMMA BehindStep ==
  ASSUME PollInv, [Next]_vars, Lag <= Overlap
  PROVE  NothingBehindCursor'
<1>t. /\ now \in Nat /\ cursors \in [Account -> Nat \cup {NoTime}] /\ Of \in [Msg -> Account]
      /\ shown' \subseteq Msg /\ Overlap \in Nat /\ NoTime = -1
  BY NextTyped, LedgerAssumption DEF PollInv, TypeInv, TypeOK, NoTime
<1>1. MailGoesOn /\ Watched
  BY MailSteps, StaysWatched DEF PollInv
<1>s. \A m : Settled(m) => Settled(m)'
  BY StaysSettled DEF PollInv
<1> SUFFICES ASSUME NEW m \in (shown \ filed)', Inbound(m), cursors'[Of[m]] # NoTime,
                    origin'[Of[m]] <= date'[m], date'[m] < cursors'[Of[m]] - Overlap
             PROVE  Settled(m)'
  BY DEF NothingBehindCursor, Settled, Since, Inbound
<1> DEFINE a == Of[m]
<1>2. a \in Account /\ m \in Msg
  BY <1>t
<1>b. ASSUME NEW t \in Nat, t <= now, t = cursors'[a]
      PROVE  m \in shown \ filed /\ date'[m] = date[m] /\ origin[a] <= date[m]
  <2>1. m \in shown
    BY <1>b, LateMail
  <2>2. m \notin filed /\ date'[m] = date[m]
    BY <1>1, <2>1 DEF MailGoesOn
  <2>3. origin[a] <= origin'[a] /\ origin[a] \in Int /\ origin'[a] \in Int /\ date[m] \in Int
    BY <1>1, <1>2 DEF Watched, PollInv, TypeInv, TypeOK, NoTime
  <2> QED BY <2>1, <2>2, <2>3
<1>3. CASE cursors'[a] = cursors[a]
  <2>1. cursors[a] \in Nat /\ cursors[a] <= now
    BY <1>t, <1>2, <1>3 DEF PollInv, BeganPast
  <2>2. m \in shown \ filed /\ date'[m] = date[m] /\ origin[a] <= date[m]
    BY <1>b, <1>3, <2>1
  <2>3. Since(a) = cursors[a] - Overlap
    BY <1>3 DEF Since
  <2>4. Settled(m)
    BY <1>3, <2>2, <2>3 DEF PollInv, NothingBehindCursor, Settled
  <2> QED BY <1>s, <2>4
<1>4. ASSUME NEW w \in Ticks, At(w, "advance"), cursors' = [cursors EXCEPT ![Here(w)] = job[w].began],
             cursors'[a] # cursors[a]
      PROVE  Settled(m)'
  <2>1. Here(w) = a /\ cursors'[a] = job[w].began
    BY <1>t, <1>2, <1>4
  <2>2. job[w].began \in Nat /\ job[w].began <= now
    BY <1>4 DEF At, PollInv, BeganPast
  <2>3. m \in shown \ filed /\ date'[m] = date[m] /\ origin[a] <= date[m]
    BY <1>b, <2>1, <2>2
  <2>4. Due(w, m)
    BY <2>1, <2>3 DEF Due
  <2>5. Covered(w) /\ job[w].pc = "advance"
    BY <1>4 DEF At, PollInv
  <2>6. job[w].batch = <<>> /\ (Settled(m) \/ \E n \in DOMAIN job[w].batch : job[w].batch[n] = m)
    BY <2>3, <2>4, <2>5 DEF Covered, Progress
  <2> QED BY <1>s, <2>6
<1> QED BY <1>3, <1>4, LineSteps DEF LineMoves, List

LEMMA PollStep ==
  ASSUME PollInv, [Next]_vars, Lag <= Overlap
  PROVE  PollInv'
<1>1. TypeInv' /\ TypesAgree'
  BY NextTyped, AgreeStep DEF PollInv
<1>2. Dated' /\ origin' \in [Account -> Int]
  BY MailSteps, StaysWatched DEF PollInv, Watched
<1>3. ASSUME NEW w \in Ticks PROVE Covered(w)'
  <2>1. CASE job'[w] = job[w]
    BY <2>1, CoveredStill
  <2>2. CASE job'[w] # job[w]
    <3>1. Acts(w)
      BY <2>2, OneTick DEF PollInv, Worker, Locked
    <3> QED BY <3>1, CoveredOn
  <2> QED BY <2>1, <2>2
<1> QED BY <1>1, <1>2, <1>3, BeganStep, BehindStep DEF PollInv

LEMMA InitPoll == Init => PollInv
<1> SUFFICES ASSUME Init PROVE PollInv
  OBVIOUS
<1>1. TypeInv /\ TypesAgree
  BY InitRecords DEF RecordInv
<1>2. /\ now = 0 /\ date = [m \in Msg |-> NoTime] /\ shown = {}
      /\ cursors = [a \in Account |-> NoTime] /\ origin = [a \in Account |-> 0]
      /\ \A w \in Worker : job[w] = Off
  BY DEF Init, LedgerInit
<1>3. Dated /\ NothingBehindCursor
  BY <1>2 DEF Dated, NothingBehindCursor, NoTime
<1>4. \A w \in Ticks : job[w].pc = "off"
  <2>1. Off.pc = "off" /\ Ticks \subseteq Worker
    BY DEF Off, Worker, Locked
  <2> QED BY <1>2, <2>1
<1>5. BeganPast
  BY <1>2, <1>4 DEF BeganPast, NoTime
<1>6. \A w \in Ticks : Covered(w)
  BY <1>4 DEF Covered, Progress
<1> QED BY <1>1, <1>2, <1>3, <1>5, <1>6 DEF PollInv

\* What a poll will not look at again is recorded, or a statement failed for
\* it: whatever ticks die, overlap after a lost lock or break off half-way,
\* and whatever is listed late, as long as that is within the overlap.
THEOREM NoMessageIsLeftBehind ==
  ASSUME Lag <= Overlap
  PROVE  Spec => []NothingBehindCursor
<1>1. PollInv /\ [Next]_vars => PollInv'
  BY PollStep
<1>2. PollInv => NothingBehindCursor
  BY DEF PollInv
<1> QED BY <1>1, <1>2, InitPoll, PTL DEF Spec

-----------------------------------------------------------------------------
(* Opt-outs. *)

\* A worker is about to act upon the opt-out m.
Heeds(w, m) == job[w].pc \in {"keep", "heed"} /\ Hand(w) = m /\ TypeRead(w) = "unsubscribe"

Excused == imported \cup misread \cup botched

\* An opt-out that is known of has stopped the lead, or a worker is at it.
OptKnown ==
  \A m \in Msg \ Excused :
    Kind[m] = "unsubscribe" /\ Known(m) =>
      lead[Of[m]] = "blacklisted" \/ \E w \in Locked : Heeds(w, m)

ReadRight ==
  \A w \in Locked :
    job[w].pc \in {"keep", "heed"} /\ TypeRead(w) # Kind[Hand(w)] => Hand(w) \in misread \cup botched

\* What a verification saw without finding fault is known of.
SeenKnown ==
  \A w \in {"audit", "review"} :
    /\ ~job[w].failed => \A m \in job[w].seen : Known(m)
    /\ job[w].pc = "find" => ~job[w].failed

HeedInv == TypeInv /\ TypesAgree /\ Alone /\ OptKnown /\ ReadRight /\ SeenKnown

LEMMA SnapshotMade ==
  ASSUME TypeOK, NEW n, NEW type, Snapshot(n, type)
  PROVE  \A m : Stored(m)' <=> Stored(m) \/ m = n
<1> DEFINE c == [msg |-> n, type |-> type]
<1>1. snaps \in Seq(Copied) /\ snaps' = Append(snaps, c) /\ c.msg = n
  BY DEF TypeOK, Snapshot
<1> HIDE DEF c
<1>2. /\ DOMAIN snaps' = DOMAIN snaps \cup {Len(snaps) + 1}
      /\ \A i \in DOMAIN snaps : snaps'[i] = snaps[i]
      /\ snaps'[Len(snaps) + 1] = c
  BY <1>1
<1> QED BY <1>1, <1>2 DEF Stored

\* What is known stays known, and what becomes known was in someone's hand.
KnownMoves ==
  \/ \A m : Known(m)' <=> Known(m)
  \/ \E n \in Msg :
       /\ \A m : Known(m)' <=> Known(m) \/ m = n
       /\ \/ Known(n) \/ n \in imported' \/ ~Inbound(n)
          \/ \E w \in Locked : (Record(w) \/ Store(w)) /\ Hand(w) = n

LEMMA KnownSame ==
  ASSUME TypeInv, TypesAgree, [Next]_vars, UNCHANGED snaps,
         UNCHANGED log \/ \E m, type : log' = Relabelled(m, type)
  PROVE  \A m : Known(m)' <=> Known(m)
<1>1. CASE UNCHANGED log
  BY <1>1 DEF Known, Stored
<1>2. ASSUME NEW m, NEW type, log' = Relabelled(m, type)
      PROVE  DOMAIN log' = DOMAIN log /\ \A i \in DOMAIN log : log'[i].msg = log[i].msg
  BY <1>2, Labels DEF TypeInv
<1> QED BY <1>1, <1>2 DEF Known, Stored

LEMMA KnownSteps ==
  ASSUME TypeInv, TypesAgree, [Next]_vars
  PROVE  KnownMoves
<1> USE DEF At
<1>w. Locked \subseteq Worker /\ "audit" \in Locked /\ Ticks \subseteq Locked
  BY DEF Worker, Locked
<1>h. TypeOK /\ JobsFit
  BY DEF TypeInv
<1>1. CASE UNCHANGED <<snaps, log>>
  BY <1>1, KnownSame DEF KnownMoves
<1>2. ASSUME NEW n \in Msg, NEW type, Snapshot(n, type), UNCHANGED log
      PROVE  \A m : Known(m)' <=> Known(m) \/ m = n
  BY <1>2, <1>h, SnapshotMade DEF Known
<1>3. ASSUME NEW n \in Msg, NEW type \in InboundTypes \cup {"manual_reply"}, NEW by \in {"tick", "audit"},
             Insert(n, type, by), UNCHANGED snaps
      PROVE  \A m : Known(m)' <=> Known(m) \/ m = n
  <2>1. /\ DOMAIN log' = DOMAIN log \cup {Len(log) + 1}
        /\ \A i \in DOMAIN log : log'[i] = log[i]
        /\ log'[Len(log) + 1].msg = n
    BY <1>3, <1>h, Inserted
  <2> QED BY <1>3, <2>1 DEF Known, Stored
<1>4. ASSUME NEW w \in Locked, Handle(w) PROVE KnownMoves
  <2>1. CASE Check(w) \/ Stop(w)
    BY <1>1, <2>1 DEF Check, Stop, ledgerVars
  <2>2. job[w].pc \in Handling => Hand(w) \in Msg /\ TypeRead(w) \in InboundTypes
    BY <1>w, <1>h, HandTyped DEF Handling, MsgWork
  <2>3. CASE Record(w)
    <3>1. Hand(w) \in Msg /\ TypeRead(w) \in InboundTypes /\ UNCHANGED snaps
      BY <2>2, <2>3 DEF Record, Handling
    <3>2. CASE UNCHANGED log
      BY <1>1, <3>1, <3>2
    <3>3. CASE Insert(Hand(w), TypeRead(w), IF w \in Ticks THEN "tick" ELSE w)
      <4>1. (IF w \in Ticks THEN "tick" ELSE w) \in {"tick", "audit"}
        BY DEF Locked
      <4>2. \A m : Known(m)' <=> Known(m) \/ m = Hand(w)
        BY <1>3, <3>1, <3>3, <4>1
      <4> QED BY <2>3, <3>1, <4>2 DEF KnownMoves
    <3> QED BY <2>3, <3>2, <3>3 DEF Record, Fails
  <2>4. CASE Store(w)
    <3>1. Hand(w) \in Msg /\ UNCHANGED log
      BY <2>2, <2>4 DEF Store, Handling
    <3>2. CASE UNCHANGED snaps
      BY <1>1, <3>1, <3>2
    <3>3. CASE Snapshot(Hand(w), TypeRead(w))
      <4>1. \A m : Known(m)' <=> Known(m) \/ m = Hand(w)
        BY <1>2, <3>1, <3>3
      <4> QED BY <2>4, <3>1, <4>1 DEF KnownMoves
    <3> QED BY <2>4, <3>2, <3>3 DEF Store
  <2> QED BY <1>4, <2>1, <2>3, <2>4 DEF Handle
<1>5. ASSUME NEW n \in Msg, NEW type, Import(n, type) PROVE KnownMoves
  <2>1. /\ Snapshot(n, type) /\ UNCHANGED log
        /\ imported' = IF Known(n) THEN imported ELSE imported \cup {n}
    BY <1>5 DEF Import
  <2>2. \A m : Known(m)' <=> Known(m) \/ m = n
    BY <1>2, <2>1
  <2>3. Known(n) \/ n \in imported'
    BY <2>1
  <2> QED BY <2>2, <2>3 DEF KnownMoves
<1>6. CASE Outside
  <2>1. CASE Importers
    BY <1>5, <2>1 DEF Importers, Refresh, Backfill
  <2>2. CASE ~Importers
    BY <1>1, <1>6, <2>2 DEF Outside, Arrive, Show, MoveOut, Tock
  <2> QED BY <2>1, <2>2
<1>7. CASE Sever \/ UNCHANGED vars
  BY <1>1, <1>7 DEF Sever, vars, ledgerVars, KeepStore
<1>8. ASSUME NEW w \in Ticks, TickStart(w) \/ TickStep(w) PROVE KnownMoves
  <2>1. CASE Handle(w)
    BY <1>4, <1>w, <2>1
  <2>2. CASE ~Handle(w)
    <3>1. UNCHANGED <<snaps, log>>
      BY <1>8, <2>2 DEF TickStart, TickStep, List, BreakOff, Advance, LoadPage, Post, NoteEvent,
         TickClose, ledgerVars, KeepStore
    <3> QED BY <1>1, <3>1
  <2> QED BY <2>1, <2>2
<1>9. CASE AuditStart \/ ReviewStart \/ \E w \in {"audit", "review"} : ReaderStep(w)
  <2>1. UNCHANGED <<snaps, log>>
    BY <1>9 DEF AuditStart, ReviewStart, ReaderStep, Verify, ScanFails, Find, ledgerVars, KeepStore
  <2> QED BY <1>1, <2>1
<1>10. CASE AuditStep
  <2>1. CASE Handle("audit")
    BY <1>4, <1>w, <2>1
  <2>2. CASE Discover \/ Apply \/ ApplyFails
    <3>1. UNCHANGED <<snaps, log>>
      BY <2>2 DEF Discover, Apply, ApplyFails, ledgerVars, KeepStore
    <3> QED BY <1>1, <3>1
  <2>3. CASE Mark
    <3>1. UNCHANGED snaps /\ (UNCHANGED log \/ \E m, type : log' = Relabelled(m, type))
      BY <2>3 DEF Mark
    <3> QED BY <3>1, KnownSame DEF KnownMoves
  <2>4. CASE Copy \/ Echo
    <3>1. Hand("audit") \in Msg /\ ~Inbound(Hand("audit"))
      BY <1>w, <1>h, <2>4, HandTyped DEF Copy, Echo, MsgWork, Fit, Hand
    <3>2. CASE UNCHANGED <<snaps, log>>
      BY <1>1, <3>2
    <3>3. CASE Snapshot(Hand("audit"), "manual_reply") /\ UNCHANGED log
      <4>1. \A m : Known(m)' <=> Known(m) \/ m = Hand("audit")
        BY <1>2, <3>1, <3>3
      <4> QED BY <3>1, <4>1 DEF KnownMoves
    <3>4. CASE Insert(Hand("audit"), "manual_reply", "audit") /\ UNCHANGED snaps
      <4>1. \A m : Known(m)' <=> Known(m) \/ m = Hand("audit")
        BY <1>3, <3>1, <3>4
      <4> QED BY <3>1, <4>1 DEF KnownMoves
    <3> QED BY <2>4, <3>2, <3>3, <3>4 DEF Copy, Echo
  <2> QED BY <1>10, <2>1, <2>2, <2>3, <2>4 DEF AuditStep
<1>11. ASSUME NEW w, Die(w) \/ SubscriberStep(w) \/ DryStart PROVE KnownMoves
  BY <1>1, <1>11 DEF Die, SubscriberStep, Ensure, Baseline, Subscribe, EnsureFails, DryStart,
     KeepStore, ledgerVars
<1> QED BY <1>6, <1>7, <1>8, <1>9, <1>10, <1>11 DEF Next

\* Nobody is forgiven here, and no excuse is withdrawn.
LEMMA OnlyMore ==
  ASSUME TypeInv, [Next]_vars
  PROVE  /\ misread \subseteq misread' /\ imported \subseteq imported'
         /\ \A a \in Account : lead[a] = "blacklisted" => lead'[a] = "blacklisted"
<1> DEFINE Kept == /\ misread \subseteq misread' /\ imported \subseteq imported'
                   /\ \A a \in Account : lead[a] = "blacklisted" => lead'[a] = "blacklisted"
<1> SUFFICES Kept
  OBVIOUS
<1>t. lead \in [Account -> {"active", "blacklisted"}]
  BY DEF TypeInv, TypeOK
<1>1. CASE UNCHANGED <<misread, imported, lead>>
  BY <1>1
<1>2. ASSUME NEW w, Handle(w) PROVE Kept
  <2>1. CASE Check(w) \/ Store(w)
    BY <2>1 DEF Check, Store, ledgerVars
  <2>2. CASE Record(w)
    <3>1. UNCHANGED <<imported, lead>> /\ misread \subseteq misread'
      BY <2>2 DEF Record
    <3> QED BY <3>1
  <2>3. CASE Stop(w)
    BY <1>t, <2>3 DEF Stop, Heed
  <2> QED BY <1>2, <2>1, <2>2, <2>3 DEF Handle
<1>3. ASSUME NEW m, NEW type, Import(m, type) PROVE Kept
  <2>1. UNCHANGED lead /\ misread \subseteq misread' /\ imported \subseteq imported'
    BY <1>3 DEF Import
  <2> QED BY <2>1
<1>4. CASE Outside
  <2>1. CASE Importers
    BY <1>3, <2>1 DEF Importers, Refresh, Backfill
  <2>2. CASE ~Importers
    BY <1>1, <1>4, <2>2 DEF Outside, Arrive, Show, MoveOut, Tock
  <2> QED BY <2>1, <2>2
<1>5. CASE Sever \/ UNCHANGED vars
  BY <1>1, <1>5 DEF Sever, vars, ledgerVars, KeepStore
<1>6. ASSUME NEW w \in Ticks, TickStart(w) \/ TickStep(w) PROVE Kept
  <2>1. CASE Handle(w)
    BY <1>2, <2>1
  <2>2. CASE ~Handle(w)
    BY <1>6, <2>2 DEF TickStart, TickStep, List, BreakOff, Advance, LoadPage, Post, NoteEvent,
       TickClose, ledgerVars, KeepStore
  <2> QED BY <2>1, <2>2
<1>7. CASE AuditStart \/ AuditStep \/ ReviewStart \/ \E w \in {"audit", "review"} : ReaderStep(w)
  <2>1. CASE Handle("audit")
    BY <1>2, <2>1
  <2>2. CASE ~Handle("audit")
    BY <1>7, <2>2 DEF AuditStart, AuditStep, ReviewStart, ReaderStep, Verify, ScanFails, Find, Discover,
       Apply, ApplyFails, Mark, Copy, Echo, ledgerVars, KeepStore
  <2> QED BY <2>1, <2>2
<1>8. ASSUME NEW w, Die(w) \/ SubscriberStep(w) \/ DryStart PROVE Kept
  BY <1>1, <1>8 DEF Die, SubscriberStep, Ensure, Baseline, Subscribe, EnsureFails, DryStart,
     KeepStore, ledgerVars
<1> QED BY <1>4, <1>5, <1>6, <1>7, <1>8 DEF Next

LEMMA StaysOut ==
  ASSUME TypeInv, [Next]_vars
  PROVE  /\ Excused \subseteq Excused' /\ misread \cup botched \subseteq misread' \cup botched'
         /\ \A a \in Account : lead[a] = "blacklisted" => lead'[a] = "blacklisted"
BY OnlyMore, BotchedGrows DEF Excused

\* What a worker between the event and its consequence does next.
Turn(w) ==
  \/ job'[w] = job[w]
  \/ job[w].pc \notin {"keep", "heed"} /\ job'[w].pc \notin {"keep", "heed"}
  \/ job[w].pc = "record" /\ Record(w)
  \/ job[w].pc = "keep" /\ Store(w)
  \/ job[w].pc = "heed" /\ Stop(w) /\ job'[w].pc \notin {"keep", "heed"}
  \/ Die(w) /\ job'[w].pc = "off"

LEMMA TickTurns ==
  ASSUME TypeInv, NEW w \in Ticks, Acts(w)
  PROVE  Turn(w)
<1> USE DEF At
<1>w. w \in Worker
  BY DEF Ticks, Locked, Worker
<1>f. job[w] \in Job /\ Failed(w) \in Job /\ JobsFit
  BY <1>w, HandTyped, FailedFits DEF TypeInv
<1>1. ASSUME NEW r, Become(w, r), job[w].pc \notin {"keep", "heed"}, r.pc \notin {"keep", "heed"}
      PROVE  Turn(w)
  BY <1>w, <1>f, <1>1, OneMoves DEF Turn
<1>2. ASSUME NEW r \in Job, NEW pc \in {"list", "record", "note", "close"}, Become(w, [r EXCEPT !.pc = pc]),
             job[w].pc \notin {"keep", "heed"}
      PROVE  Turn(w)
  <2>1. [r EXCEPT !.pc = pc].pc = pc
    BY DEF Job
  <2> QED BY <1>1, <1>2, <2>1
<1>n. /\ NextAccount(w, job[w]).pc \in {"list", "close", "page"}
      /\ NextMessage(w, job[w]).pc \in {"handle", "advance"}
  BY <1>f, TickGoesOn
<1>3. CASE TickStart(w)
  <2>1. [Off EXCEPT !.pc = "ensure", !.began = now, !.accts = Accounts].pc = "ensure"
    BY DEF Off
  <2> QED BY <1>1, <1>3, <2>1 DEF TickStart
<1>4. CASE TickClose(w)
  BY <1>1, <1>4 DEF TickClose, Off
<1>5. CASE Die(w)
  <2>1. job'[w] = Off
    BY <1>w, <1>f, <1>5, OneMoves DEF Die
  <2> QED BY <1>5, <2>1 DEF Turn, Off
<1>6. CASE BreakOff(w) \/ Advance(w)
  BY <1>1, <1>6, <1>n DEF BreakOff, Advance
<1>7. CASE Check(w)
  <2>1. job[w].pc = "handle" /\ (Goto(w, "record") \/ Become(w, NextMessage(w, job[w])))
    BY <1>7 DEF Check, HandBack
  <2> QED BY <1>1, <1>2, <1>f, <1>n, <2>1 DEF Goto
<1>8. CASE Record(w) \/ Store(w)
  BY <1>8 DEF Record, Store, Turn
<1>9. CASE Stop(w)
  <2>1. job'[w] = NextMessage(w, job[w])
    BY <1>w, <1>f, <1>9, OneMoves DEF Stop, HandBack
  <2> QED BY <1>9, <1>n, <2>1 DEF Turn, Stop
<1>10. CASE SubscriberStep(w)
  BY <1>10, SubscriberGoes DEF Subscribers, Turn
<1>11. CASE Post(w)
  BY <1>2, <1>11, <1>f DEF Post, Goto
<1>12. CASE LoadPage(w) \/ NoteEvent(w)
  <2>1. /\ job[w].pc \notin {"keep", "heed"}
        /\ \E page, pc : /\ pc \in {"close", "post"}
                         /\ \/ Become(w, [job[w] EXCEPT !.page = page, !.pc = pc])
                            \/ Become(w, [job[w] EXCEPT !.pc = pc])
    BY <1>12 DEF LoadPage, NoteEvent, Goto
  <2>2. \A page, pc : [job[w] EXCEPT !.page = page, !.pc = pc].pc = pc /\ [job[w] EXCEPT !.pc = pc].pc = pc
    BY <1>f DEF Job
  <2> QED BY <1>1, <2>1, <2>2
<1>13. CASE List(w)
  <2>1. /\ job[w].pc \notin {"keep", "heed"}
        /\ \E batch, pc : pc \in {"advance", "handle"} /\ Become(w, [job[w] EXCEPT !.batch = batch, !.pc = pc])
    BY <1>13, ListIs DEF Poll
  <2>2. \A batch, pc : [job[w] EXCEPT !.batch = batch, !.pc = pc].pc = pc
    BY <1>f DEF Job
  <2> QED BY <1>1, <2>1, <2>2
<1> QED BY <1>3, <1>4, <1>5, <1>6, <1>7, <1>8, <1>9, <1>10, <1>11, <1>12, <1>13 DEF Acts, TickActs, TickStep, Handle

-----------------------------------------------------------------------------
(* What a reconciliation or a review has seen. *)

Readers == {"audit", "review"}

\* It has seen nothing more but what is known of, or it has failed; and only
\* without a failure does it go on to the list.
ReadsOn(w) ==
  /\ job'[w].pc = "find" => ~job'[w].failed
  /\ ~job'[w].failed => \A m \in job'[w].seen : (m \in job[w].seen /\ ~job[w].failed) \/ Known(m)

LEMMA ReaderGoesOn ==
  ASSUME NEW w \in Readers, NEW r \in Job
  PROVE  /\ LET s == NextAccount(w, r) IN
              /\ s.pc \in {"scan", "close", "find"} /\ (s.pc = "find" => ~s.failed)
              /\ s.failed = r.failed /\ s.seen = r.seen
         /\ LET s == NextMessage(w, r) IN
              /\ s.pc \in {"apply", "scan", "close", "find"} /\ (s.pc = "find" => ~s.failed)
              /\ s.failed = r.failed /\ s.seen = r.seen
<1>a. w \notin Ticks
  BY DEF Ticks, Readers
<1> DEFINE s == [r EXCEPT !.accts = Tail(@), !.batch = <<>>, !.bare = {}]
           u == Then(w, s)
<1>1. /\ s.failed = r.failed /\ s.seen = r.seen
      /\ \A pc \in Pc : LET t == [s EXCEPT !.pc = pc] IN
           t.pc = pc /\ t.failed = s.failed /\ t.seen = s.seen
  BY DEF Job
<1>2. LET t == [s EXCEPT !.pc = "scan", !.pass = 2, !.accts = Accounts] IN
        t.pc = "scan" /\ t.failed = s.failed /\ t.seen = s.seen
  BY DEF Job
<1>p. {"scan", "close", "find", "apply"} \subseteq Pc
  BY DEF Pc
<1> HIDE DEF s
<1>3. \/ u = [s EXCEPT !.pc = "scan"] \/ u = [s EXCEPT !.pc = "close"]
      \/ u = [s EXCEPT !.pc = "scan", !.pass = 2, !.accts = Accounts]
      \/ u = [s EXCEPT !.pc = "find"] /\ ~s.failed
  BY <1>a DEF Then
<1> HIDE DEF u
<1>4. /\ u.pc \in {"scan", "close", "find"} /\ (u.pc = "find" => ~u.failed)
      /\ u.failed = s.failed /\ u.seen = s.seen
  <2>1. ASSUME NEW pc \in {"scan", "close", "find"}, u = [s EXCEPT !.pc = pc], pc = "find" => ~s.failed
        PROVE  /\ u.pc \in {"scan", "close", "find"} /\ (u.pc = "find" => ~u.failed)
               /\ u.failed = s.failed /\ u.seen = s.seen
    <3>1. pc \in Pc
      BY <1>p
    <3>2. u.pc = pc /\ u.failed = s.failed /\ u.seen = s.seen
      BY <1>1, <2>1, <3>1
    <3> QED BY <2>1, <3>2
  <2>2. CASE u = [s EXCEPT !.pc = "scan", !.pass = 2, !.accts = Accounts]
    <3>1. u.pc = "scan" /\ u.failed = s.failed /\ u.seen = s.seen
      BY <1>2, <2>2
    <3> QED BY <3>1
  <2> QED BY <1>3, <2>1, <2>2
<1>5. NextAccount(w, r) = u
  BY DEF NextAccount, u, s
<1> DEFINE rest == Tail(r.batch)
           pc == IF rest = <<>> THEN "advance" ELSE IF w \in Ticks THEN "handle" ELSE "apply"
           t  == [r EXCEPT !.batch = rest, !.pc = pc]
<1>6. t.pc = pc /\ t.failed = r.failed /\ t.seen = r.seen
  BY DEF Job
<1>7. rest # <<>> => pc = "apply" /\ NextMessage(w, r) = t
  BY <1>a DEF NextMessage
<1>8. rest = <<>> => NextMessage(w, r) = NextAccount(w, r)
  BY <1>a DEF NextMessage
<1> HIDE DEF t, pc, rest
<1> QED BY <1>1, <1>4, <1>5, <1>6, <1>7, <1>8

\* A step that sees nothing new.
LEMMA SeesNothing ==
  ASSUME TypeInv, NEW w \in Readers, NEW r, Become(w, r),
         r.pc = "find" => ~r.failed,
         r.seen = {} \/ (r.seen = job[w].seen /\ (job[w].failed => r.failed))
  PROVE  ReadsOn(w)
<1>1. job'[w] = r
  BY OneMoves DEF TypeInv, Readers, Worker, Locked
<1> QED BY <1>1 DEF ReadsOn

LEMMA ReaderReads ==
  ASSUME TypeInv, NEW w \in Readers, ReaderStep(w) \/ Die(w)
  PROVE  ReadsOn(w) /\ Turn(w)
<1> USE DEF At
<1>w. w \in Worker
  BY DEF Readers, Locked, Worker
<1>f. /\ job[w] \in Job /\ Failed(w) \in Job /\ JobsFit
      /\ Failed(w).failed = TRUE /\ Failed(w).seen = job[w].seen
  <2>1. job[w] \in Job /\ Failed(w) \in Job /\ JobsFit
    BY <1>w, HandTyped, FailedFits DEF TypeInv
  <2> QED BY <2>1 DEF Failed, Job
<1>1. ASSUME NEW r, Become(w, r), job[w].pc \notin {"keep", "heed"}, r.pc \notin {"keep", "heed"}
      PROVE  Turn(w)
  BY <1>w, <1>f, <1>1, OneMoves DEF Turn
<1>2. CASE Find(w) \/ Die(w)
  <2>1. Become(w, Off) /\ Off.pc = "off" /\ Off.seen = {}
    BY <1>2 DEF Find, Die, Off
  <2>2. ReadsOn(w)
    BY <2>1, SeesNothing
  <2>3. job'[w] = Off
    BY <1>w, <1>f, <2>1, OneMoves
  <2>4. CASE Die(w)
    BY <2>1, <2>2, <2>3, <2>4 DEF Turn
  <2>5. CASE Find(w)
    BY <1>1, <2>1, <2>2, <2>5 DEF Find
  <2> QED BY <1>2, <2>4, <2>5
<1>3. CASE ScanFails(w)
  <2> DEFINE r == NextAccount(w, Failed(w))
  <2>1. Become(w, r) /\ job[w].pc = "scan"
    BY <1>3 DEF ScanFails, Unlisted
  <2>2. /\ r.pc \in {"scan", "close", "find"} /\ (r.pc = "find" => ~r.failed)
        /\ r.failed = TRUE /\ r.seen = job[w].seen
    BY <1>f, ReaderGoesOn
  <2> HIDE DEF r
  <2> QED BY <1>1, <2>1, <2>2, SeesNothing
<1>4. CASE Verify(w)
  <2> DEFINE r == [job[w] EXCEPT !.failed = @ \/ Misses(w) # {}, !.seen = @ \cup {m \in shown : Of[m] = Here(w)}]
             s == NextAccount(w, r)
  <2>1. Become(w, s) /\ job[w].pc = "scan"
    BY <1>4 DEF Verify
  <2>2. {m \in shown : Of[m] = Here(w)} \subseteq Msg
    BY DEF TypeInv, TypeOK
  <2>3. /\ r \in Job /\ r.failed = (job[w].failed \/ Misses(w) # {})
        /\ r.seen = job[w].seen \cup {m \in shown : Of[m] = Here(w)}
    BY <1>f, <2>2 DEF Job
  <2> HIDE DEF r
  <2>4. /\ s.pc \in {"scan", "close", "find"} /\ (s.pc = "find" => ~s.failed)
        /\ s.failed = r.failed /\ s.seen = r.seen
    BY <2>3, ReaderGoesOn
  <2> HIDE DEF s
  <2>5. job'[w] = s
    BY <1>w, <1>f, <2>1, OneMoves
  <2>6. Misses(w) = {} => \A m \in shown : Of[m] = Here(w) => Known(m)
    BY DEF Misses, MissingIn
  <2>7. ReadsOn(w)
    BY <2>3, <2>4, <2>5, <2>6 DEF ReadsOn
  <2> QED BY <1>1, <2>1, <2>4, <2>7
<1> QED BY <1>2, <1>3, <1>4 DEF ReaderStep

LEMMA AuditReads ==
  ASSUME TypeInv, AuditActs
  PROVE  ReadsOn("audit") /\ Turn("audit")
<1> USE DEF At
<1>w. "audit" \in Worker /\ "audit" \in Readers /\ "audit" \notin Ticks
  BY DEF Readers, Locked, Worker, Ticks
<1>f. /\ job["audit"] \in Job /\ Failed("audit") \in Job /\ JobsFit
      /\ Failed("audit").failed = TRUE /\ Failed("audit").seen = job["audit"].seen
  <2>1. job["audit"] \in Job /\ Failed("audit") \in Job /\ JobsFit
    BY <1>w, HandTyped, FailedFits DEF TypeInv
  <2> QED BY <2>1 DEF Failed, Job
<1>1. ASSUME NEW r, Become("audit", r), job["audit"].pc \notin {"keep", "heed"},
             r.pc \notin {"keep", "heed"}, r.pc = "find" => ~r.failed,
             r.seen = {} \/ (r.seen = job["audit"].seen /\ (job["audit"].failed => r.failed))
      PROVE  ReadsOn("audit") /\ Turn("audit")
  <2>1. job'["audit"] = r
    BY <1>w, <1>f, <1>1, OneMoves
  <2> QED BY <1>w, <1>1, <2>1, SeesNothing DEF Turn
<1>g. ASSUME NEW pc \in {"handle", "record", "keep", "heed", "mark", "copy", "echo"}, Goto("audit", pc)
      PROVE  job'["audit"].pc = pc /\ ReadsOn("audit")
  <2> DEFINE r == [job["audit"] EXCEPT !.pc = pc]
  <2>1. r.pc = pc /\ r.failed = job["audit"].failed /\ r.seen = job["audit"].seen
    BY <1>f DEF Job
  <2>2. Become("audit", r)
    BY <1>g DEF Goto
  <2> HIDE DEF r
  <2> QED BY <1>w, <1>f, <2>1, <2>2, OneMoves, SeesNothing
<1>n. ASSUME NEW r \in {job["audit"], Failed("audit")},
             \/ Become("audit", NextAccount("audit", r))
             \/ Become("audit", NextMessage("audit", r)),
             job["audit"].pc \notin {"keep", "heed"}
      PROVE  ReadsOn("audit") /\ Turn("audit")
  <2>1. r \in Job /\ r.seen = job["audit"].seen /\ (job["audit"].failed => r.failed)
    BY <1>f
  <2>2. ASSUME NEW s \in {NextAccount("audit", r), NextMessage("audit", r)}
        PROVE  /\ s.pc \in {"apply", "scan", "close", "find"} /\ (s.pc = "find" => ~s.failed)
               /\ s.failed = r.failed /\ s.seen = r.seen
    BY <1>w, <2>1, ReaderGoesOn
  <2> QED BY <1>1, <1>n, <2>1, <2>2
<1>2. CASE AuditStart
  <2> DEFINE r == [Off EXCEPT !.pc = "scan", !.pass = 1, !.accts = Accounts]
  <2>1. r.pc = "scan" /\ r.seen = {}
    BY DEF Off
  <2>2. Become("audit", r) /\ job["audit"].pc = "off"
    BY <1>2 DEF AuditStart
  <2> HIDE DEF r
  <2> QED BY <1>1, <2>1, <2>2
<1>3. CASE ReaderStep("audit") \/ Die("audit")
  BY <1>w, <1>3, ReaderReads
<1>4. CASE Discover
  <2>1. ASSUME NEW S, NEW bare, NEW failed \in BOOLEAN, Found("audit", S, bare, failed)
        PROVE  ReadsOn("audit") /\ Turn("audit")
    <3> DEFINE r == [job["audit"] EXCEPT !.failed = @ \/ failed]
               s(batch) == [r EXCEPT !.batch = batch, !.bare = bare, !.pc = "apply"]
    <3>1. /\ r \in Job /\ r.seen = job["audit"].seen /\ (job["audit"].failed => r.failed)
          /\ \A batch : s(batch).pc = "apply" /\ s(batch).seen = r.seen /\ s(batch).failed = r.failed
      BY <1>f DEF Job
    <3>2. Become("audit", NextAccount("audit", r)) \/ \E batch : Become("audit", s(batch))
      BY <2>1 DEF Found
    <3>3. job["audit"].pc = "scan"
      BY <1>4 DEF Discover
    <3> HIDE DEF r, s
    <3>4. LET u == NextAccount("audit", r) IN
            /\ u.pc \in {"scan", "close", "find"} /\ (u.pc = "find" => ~u.failed)
            /\ u.failed = r.failed /\ u.seen = r.seen
      BY <1>w, <3>1, ReaderGoesOn
    <3> QED BY <1>1, <3>1, <3>2, <3>3, <3>4
  <2> QED BY <1>4, <2>1 DEF Discover
<1>5. CASE ApplyFails \/ Mark
  BY <1>5, <1>n DEF ApplyFails, Mark
<1>6. CASE Apply
  <2>1. job["audit"].pc = "apply"
    BY <1>6 DEF Apply
  <2>2. \/ Become("audit", NextMessage("audit", job["audit"]))
        \/ \E pc \in {"handle", "copy"} : Goto("audit", pc)
    BY <1>6 DEF Apply
  <2> QED BY <1>g, <1>n, <2>1, <2>2 DEF Turn
<1>7. CASE Copy \/ Echo
  <2>1. job["audit"].pc \in {"copy", "echo"}
    BY <1>7 DEF Copy, Echo
  <2>2. \/ \E r \in {job["audit"], Failed("audit")} : Become("audit", NextMessage("audit", r))
        \/ Goto("audit", "echo")
    BY <1>7 DEF Copy, Echo
  <2> QED BY <1>g, <1>n, <2>1, <2>2 DEF Turn
<1>8. CASE Handle("audit")
  <2>1. CASE Check("audit")
    <3>1. job["audit"].pc = "handle" /\ \E pc \in {"record", "mark"} : Goto("audit", pc)
      BY <1>w, <2>1 DEF Check, HandBack, Goto
    <3> QED BY <1>g, <3>1 DEF Turn
  <2>2. CASE Record("audit") \/ Store("audit")
    BY <1>g, <2>2 DEF Record, Store, Turn
  <2>3. CASE Stop("audit")
    <3>1. Goto("audit", "mark")
      BY <1>w, <2>3 DEF Stop, HandBack, Goto
    <3> QED BY <1>g, <2>3, <3>1 DEF Turn, Stop
  <2> QED BY <1>8, <2>1, <2>2, <2>3 DEF Handle
<1> QED BY <1>2, <1>3, <1>4, <1>5, <1>6, <1>7, <1>8 DEF AuditActs, AuditStep

-----------------------------------------------------------------------------
(* What is known of is acted upon. *)

LEMMA EveryTurn ==
  ASSUME TypeInv, [Next]_vars
  PROVE  /\ \A w \in Locked : Turn(w)
         /\ \A w \in Readers : ReadsOn(w) \/ job'[w] = job[w]
<1>w. /\ Ticks \subseteq Worker /\ Locked = Ticks \cup {"audit"} /\ Worker = Locked \cup {"review", "dry run"}
      /\ "audit" \notin Ticks /\ \A v \in {"review", "dry run"} : v \notin Locked
      /\ Readers = {"audit", "review"} /\ "dry run" \notin Readers /\ Subscribers = Ticks \cup {"dry run"}
  BY DEF Worker, Locked, Ticks, Readers, Subscribers
<1>m. ASSUME NEW w \in Worker, NEW r, Become(w, r)
      PROVE  \A v \in Worker \ {w} : job'[v] = job[v]
  BY <1>m, OneMoves DEF TypeInv
<1>1. CASE AuditActs
  <2>1. \E r : Become("audit", r)
    BY <1>1, HandsBack DEF AuditActs, AuditStart, AuditStep, Discover, Found, Apply, ApplyFails, Handle, Check,
       Record, Store, Stop, Mark, Copy, Echo, ReaderStep, Verify, ScanFails, Find, Die, Goto
  <2>2. \A v \in Worker \ {"audit"} : job'[v] = job[v]
    BY <1>w, <1>m, <2>1
  <2> QED BY <1>w, <1>1, <2>2, AuditReads DEF Turn
<1>2. ASSUME NEW w \in Ticks, Acts(w)
      PROVE  /\ \A v \in Locked : Turn(v)
             /\ \A v \in Readers : job'[v] = job[v]
  <2>2. \A v \in Worker \ {w} : job'[v] = job[v]
    <3>1. CASE TickActs(w)
      <4>1. \E r : Become(w, r)
        BY <3>1, HandsBack DEF TickActs, TickStart, TickStep, List, Poll, BreakOff, Advance, LoadPage, Post,
           NoteEvent, TickClose, Handle, Check, Record, Store, Stop, Die, Goto
      <4> QED BY <1>w, <1>m, <4>1
    <3>2. CASE SubscriberStep(w)
      BY <1>w, <3>2, SubscriberGoes
    <3> QED BY <1>2, <3>1, <3>2 DEF Acts
  <2> QED BY <1>w, <1>2, <2>2, TickTurns DEF Turn
<1>3. CASE Outside \/ Sever \/ UNCHANGED vars
  <2>1. UNCHANGED job
    BY <1>3 DEF Outside, Sever, vars
  <2> QED BY <2>1 DEF Turn
<1>4. CASE ReviewStart
  <2> DEFINE r == [Off EXCEPT !.pc = "scan", !.pass = 2, !.accts = Accounts]
  <2>1. r.pc = "scan" /\ r.seen = {}
    BY DEF Off
  <2>2. Become("review", r)
    BY <1>4 DEF ReviewStart
  <2> HIDE DEF r
  <2>3. ReadsOn("review")
    BY <1>w, <2>1, <2>2, SeesNothing
  <2>4. \A v \in Worker \ {"review"} : job'[v] = job[v]
    BY <1>w, <1>m, <2>2
  <2> QED BY <1>w, <2>3, <2>4 DEF Turn
<1>5. CASE ReaderStep("review") \/ Die("review")
  <2>1. \E r : Become("review", r)
    BY <1>5 DEF ReaderStep, Verify, ScanFails, Find, Die
  <2>2. \A v \in Worker \ {"review"} : job'[v] = job[v]
    BY <1>w, <1>m, <2>1
  <2> QED BY <1>w, <1>5, <2>2, ReaderReads DEF Turn
<1>6. CASE DryStart \/ Die("dry run") \/ SubscriberStep("dry run")
  <2>1. "dry run" \in Worker /\ Locked \cup Readers \subseteq Worker \ {"dry run"}
    BY <1>w
  <2>2. CASE DryStart \/ Die("dry run")
    <3>1. \E r : Become("dry run", r)
      BY <2>2 DEF DryStart, Die
    <3>2. \A v \in Worker \ {"dry run"} : job'[v] = job[v]
      BY <1>m, <2>1, <3>1
    <3> QED BY <2>1, <3>2 DEF Turn
  <2>3. CASE SubscriberStep("dry run")
    <3>1. \A v \in Worker \ {"dry run"} : job'[v] = job[v]
      BY <1>w, <2>3, SubscriberGoes
    <3> QED BY <2>1, <3>1 DEF Turn
  <2> QED BY <1>6, <2>2, <2>3
<1> QED BY <1>w, <1>1, <1>2, <1>3, <1>4, <1>5, <1>6 DEF Next, AuditActs, TickActs, Acts

\* An event or a snapshot is in place, or missing for an error: the opt-out
\* in hand stays in hand until the lead has stopped.
LEMMA HeedsOn ==
  ASSUME HeedInv, [Next]_vars, NEW w \in Locked, NEW m \in Msg, Heeds(w, m), m \notin Excused'
  PROVE  lead'[Of[m]] = "blacklisted" \/ Heeds(w, m)'
<1> USE DEF At
<1>w. w \in Worker /\ JobsFit
  BY DEF Locked, Worker, HeedInv, TypeInv
<1>b. m \notin botched'
  BY DEF Excused
<1>1. CASE job'[w] = job[w]
  BY <1>1 DEF Heeds, Hand, TypeRead
<1>2. CASE job[w].pc = "keep" /\ Store(w)
  <2>1. Goto(w, "heed") /\ "heed" \in Pc
    BY <1>2 DEF Store, Pc
  <2> QED BY <1>w, <2>1, HandKept DEF Heeds
<1>3. CASE job[w].pc = "heed" /\ Stop(w)
  <2>1. Hand(w) = m /\ TypeRead(w) = "unsubscribe" /\ Of[m] \in Account
    BY LedgerAssumption DEF Heeds
  <2>2. Heed(Of[m], "unsubscribe")
    BY <1>3, <1>b, <2>1 DEF Stop, Fails
  <2>3. lead' = [lead EXCEPT ![Of[m]] = "blacklisted"] /\ lead \in [Account -> {"active", "blacklisted"}]
    BY <2>2 DEF Heed, HeedInv, TypeInv, TypeOK
  <2> QED BY <2>1, <2>3
<1>4. CASE Die(w)
  <2>1. Halfway(w) /\ Hand(w) = m
    BY DEF Heeds, Halfway
  <2> QED BY <1>4, <1>b, <2>1 DEF Die
<1>5. job[w].pc \in {"keep", "heed"}
  BY DEF Heeds
<1> QED BY <1>1, <1>2, <1>3, <1>4, <1>5, EveryTurn DEF Turn, HeedInv

LEMMA ReadRightStep ==
  ASSUME HeedInv, [Next]_vars
  PROVE  ReadRight'
<1> USE DEF At
<1> SUFFICES ASSUME NEW w \in Locked, job'[w].pc \in {"keep", "heed"},
                    TypeRead(w)' # Kind[Hand(w)']
             PROVE  Hand(w)' \in misread' \cup botched'
  BY DEF ReadRight
<1>w. w \in Worker /\ JobsFit
  BY DEF Locked, Worker, HeedInv, TypeInv
<1>g. misread \cup botched \subseteq misread' \cup botched'
  BY StaysOut DEF HeedInv
<1>p. "keep" \in Pc /\ "heed" \in Pc
  BY DEF Pc
<1>1. CASE job'[w] = job[w]
  BY <1>1, <1>g DEF HeedInv, ReadRight, Hand, TypeRead
<1>2. CASE Record(w)
  <2>1. Hand(w)' = Hand(w) /\ TypeRead(w)' = TypeRead(w)
    BY <1>w, <1>p, <1>2, HandKept DEF Record
  <2> QED BY <1>2, <2>1 DEF Record, Fails
<1>3. CASE job[w].pc = "keep" /\ Store(w)
  <2>1. Hand(w)' = Hand(w) /\ TypeRead(w)' = TypeRead(w)
    BY <1>w, <1>p, <1>3, HandKept DEF Store
  <2> QED BY <1>3, <1>g, <2>1 DEF HeedInv, ReadRight
<1> QED BY <1>1, <1>2, <1>3, EveryTurn DEF Turn, HeedInv

LEMMA OptKnownStep ==
  ASSUME HeedInv, [Next]_vars
  PROVE  OptKnown'
<1> USE DEF At
<1> SUFFICES ASSUME NEW m \in Msg, m \notin Excused', Kind[m] = "unsubscribe", Known(m)'
             PROVE  lead'[Of[m]] = "blacklisted" \/ \E w \in Locked : Heeds(w, m)'
  BY DEF OptKnown, Excused
<1>a. Of[m] \in Account
  BY LedgerAssumption
<1>g. m \notin Excused /\ (lead[Of[m]] = "blacklisted" => lead'[Of[m]] = "blacklisted")
  BY <1>a, StaysOut DEF HeedInv
<1>p. "keep" \in Pc /\ "heed" \in Pc
  BY DEF Pc
<1>1. CASE Known(m)
  <2>1. lead[Of[m]] = "blacklisted" \/ \E w \in Locked : Heeds(w, m)
    BY <1>1, <1>g DEF HeedInv, OptKnown
  <2> QED BY <1>g, <2>1, HeedsOn
<1>2. CASE ~Known(m)
  <2>1. \E w \in Locked : (Record(w) \/ Store(w)) /\ Hand(w) = m
    <3>1. KnownMoves
      BY KnownSteps DEF HeedInv
    <3>2. Inbound(m) /\ m \notin imported'
      BY DEF Inbound, Excused
    <3> QED BY <1>2, <3>1, <3>2 DEF KnownMoves
  <2>2. PICK w \in Locked : (Record(w) \/ Store(w)) /\ Hand(w) = m
    BY <2>1
  <2>3. w \in Worker /\ JobsFit
    BY DEF Locked, Worker, HeedInv, TypeInv
  <2>4. Hand(w)' = m /\ job'[w].pc \in {"keep", "heed"}
    BY <1>p, <2>2, <2>3, HandKept DEF Record, Store
  <2>5. TypeRead(w)' = "unsubscribe"
    BY <2>4, ReadRightStep DEF ReadRight, Excused
  <2> QED BY <2>4, <2>5 DEF Heeds
<1> QED BY <1>1, <1>2

LEMMA SeenKnownStep ==
  ASSUME HeedInv, [Next]_vars
  PROVE  SeenKnown'
<1>1. \A m : Known(m) => Known(m)'
  BY KnownSteps DEF HeedInv, KnownMoves
<1>2. ASSUME NEW w \in Readers
      PROVE  /\ ~job'[w].failed => \A m \in job'[w].seen : Known(m)'
             /\ job'[w].pc = "find" => ~job'[w].failed
  <2>1. /\ ~job[w].failed => \A m \in job[w].seen : Known(m)
        /\ job[w].pc = "find" => ~job[w].failed
    BY DEF HeedInv, SeenKnown, Readers
  <2>2. ReadsOn(w) \/ job'[w] = job[w]
    BY EveryTurn DEF HeedInv
  <2> QED BY <1>1, <2>1, <2>2 DEF ReadsOn
<1> QED BY <1>2 DEF SeenKnown, Readers

LEMMA InitHeeds ==
  ASSUME Init PROVE HeedInv
<1>1. TypeInv /\ TypesAgree /\ Alone
  BY InitRecords DEF RecordInv
<1>2. /\ log = <<>> /\ DOMAIN log = {} /\ snaps = <<>> /\ DOMAIN snaps = {}
      /\ \A w \in Worker : job[w].pc = "off" /\ job[w].seen = {}
  BY DEF Init, LedgerInit, Off
<1>3. Locked \subseteq Worker /\ Readers \subseteq Worker
  BY DEF Worker, Locked, Readers
<1>4. OptKnown
  BY <1>2 DEF OptKnown, Known, Stored
<1>5. ReadRight /\ SeenKnown
  BY <1>2, <1>3 DEF ReadRight, SeenKnown, Readers
<1> QED BY <1>1, <1>4, <1>5 DEF HeedInv

LEMMA HeedStep ==
  HeedInv /\ [Next]_vars => HeedInv'
BY NextTyped, AgreeStep, AloneStep, OptKnownStep, ReadRightStep, SeenKnownStep DEF HeedInv

\* After a reconciliation that calls the state clean, every opt-out that its
\* verification saw has stopped the lead: whatever ticks found it before and
\* wherever they died, unless it was written down by an importer, read
\* without its body, or a statement about it failed.
THEOREM CleanMeansHeeded == Spec => []OptOutsActedOn
<1>1. Init => HeedInv
  BY InitHeeds
<1>2. HeedInv /\ [Next]_vars => HeedInv'
  BY HeedStep
<1>3. HeedInv => OptOutsActedOn
  <2> SUFFICES ASSUME HeedInv, At("audit", "find"), ~severed,
                      NEW m \in job["audit"].seen \ Excused, Kind[m] = "unsubscribe"
               PROVE  lead[Of[m]] = "blacklisted"
    BY DEF OptOutsActedOn, Excused
  <2>1. Known(m)
    BY DEF HeedInv, SeenKnown, At
  <2>2. m \in Msg
    BY HandTyped DEF HeedInv, TypeInv, Worker, Locked, Job
  <2>3. lead[Of[m]] = "blacklisted" \/ \E w \in Locked : Heeds(w, m)
    BY <2>1, <2>2 DEF HeedInv, OptKnown
  <2>4. ASSUME NEW w \in Locked, Heeds(w, m) PROVE FALSE
    <3>1. holder = "audit" /\ job["audit"].pc = "find"
      BY DEF HeedInv, Alone, At, Locked
    <3>2. holder = w /\ job[w].pc \in {"keep", "heed"}
      BY <2>4 DEF HeedInv, Alone, Heeds
    <3> QED BY <3>1, <3>2
  <2> QED BY <2>3, <2>4
<1> QED BY <1>1, <1>2, <1>3, PTL DEF Spec


-----------------------------------------------------------------------------
(* What the lists rest on: the events and the snapshots of a message go     *)
(* together, and say of it what it is.                                      *)

Doubted == misread \cup botched

RightlyTyped(e) == e.type = TypeOf(e.msg) \/ e.msg \in Doubted

TypedRight ==
  /\ \A i \in DOMAIN log : RightlyTyped(log[i])
  /\ \A i \in DOMAIN snaps : RightlyTyped(snaps[i])

\* To an event there is a snapshot, or a handler is about to make it.
LogStored ==
  \A i \in DOMAIN log :
    \/ Stored(log[i].msg) \/ log[i].msg \in botched
    \/ \E w \in Locked : job[w].pc = "keep" /\ Hand(w) = log[i].msg

EchoStored == job["audit"].pc = "echo" => Stored(Hand("audit"))

\* To a snapshot of what came in there is an event, but for an importer's.
SnapsLogged ==
  \A i \in DOMAIN snaps :
    Inbound(snaps[i].msg) => Recorded(snaps[i].msg) \/ snaps[i].msg \in imported \cup botched

KeptLogged ==
  \A w \in Locked : job[w].pc = "keep" => Recorded(Hand(w)) \/ Hand(w) \in botched

FreshInv ==
  HeedInv /\ TypedRight /\ LogStored /\ EchoStored /\ SnapsLogged /\ KeptLogged

\* Nothing is written down, at most an event is labelled.
NotesNothing ==
  UNCHANGED snaps /\ (UNCHANGED log \/ \E m, type : log' = Relabelled(m, type))

LEMMA WhoWrites ==
  ASSUME [Next]_vars
  PROVE  \/ NotesNothing
         \/ \E m \in Msg : Refresh(m) \/ \E i \in DOMAIN log : Backfill(m, i)
         \/ \E w \in Locked : Record(w) \/ Store(w)
         \/ Copy \/ Echo
<1>w. "audit" \in Locked /\ Ticks \subseteq Locked
  BY DEF Locked
<1>1. ASSUME NEW w, Check(w) \/ Stop(w) PROVE NotesNothing
  BY <1>1 DEF Check, Stop, ledgerVars, NotesNothing
<1>2. CASE Outside
  <2>1. CASE ~Importers
    BY <1>2, <2>1 DEF Outside, Arrive, Show, MoveOut, Tock, NotesNothing
  <2> QED BY <2>1 DEF Importers
<1>3. CASE Sever \/ UNCHANGED vars
  BY <1>3 DEF Sever, vars, ledgerVars, KeepStore, NotesNothing
<1>4. ASSUME NEW w \in Ticks, TickStart(w) \/ TickStep(w), ~Handle(w) PROVE NotesNothing
  BY <1>4 DEF TickStart, TickStep, List, BreakOff, Advance, LoadPage, Post, NoteEvent,
     TickClose, ledgerVars, KeepStore, NotesNothing
<1>5. CASE AuditStart \/ ReviewStart \/ \E w \in {"audit", "review"} : ReaderStep(w)
  BY <1>5 DEF AuditStart, ReviewStart, ReaderStep, Verify, ScanFails, Find, ledgerVars, KeepStore, NotesNothing
<1>6. CASE Discover \/ Apply \/ ApplyFails \/ Mark
  BY <1>6 DEF Discover, Apply, ApplyFails, Mark, ledgerVars, KeepStore, NotesNothing
<1>7. ASSUME NEW w, Die(w) \/ SubscriberStep(w) \/ DryStart PROVE NotesNothing
  BY <1>7 DEF Die, SubscriberStep, Ensure, Baseline, Subscribe, EnsureFails, DryStart,
     KeepStore, ledgerVars, NotesNothing
<1> QED BY <1>w, <1>1, <1>2, <1>3, <1>4, <1>5, <1>6, <1>7 DEF Next, AuditStep, Handle

\* The events and the snapshots there are stay, and keep message and type.
LEMMA Added ==
  ASSUME TypeOK, NEW m \in Msg, NEW type \in InboundTypes \cup {"manual_reply"},
         Snapshot(m, type)
  PROVE  LET new == Len(snaps) + 1 IN
         /\ DOMAIN snaps' = DOMAIN snaps \cup {new}
         /\ \A i \in DOMAIN snaps : snaps'[i] = snaps[i]
         /\ snaps'[new].msg = m /\ snaps'[new].type = type
<1> DEFINE c == [msg |-> m, type |-> type]
<1>1. snaps \in Seq(Copied) /\ snaps' = Append(snaps, c)
  BY DEF TypeOK, Snapshot
<1>2. c.msg = m /\ c.type = type
  OBVIOUS
<1> HIDE DEF c
<1>3. /\ DOMAIN snaps' = DOMAIN snaps \cup {Len(snaps) + 1}
      /\ \A i \in DOMAIN snaps : snaps'[i] = snaps[i]
      /\ snaps'[Len(snaps) + 1] = c
  BY <1>1
<1> QED BY <1>2, <1>3

\* A worker goes to its echo with the snapshot made.
LEMMA EchoFollowsCopy ==
  ASSUME TypeInv, [Next]_vars, job'["audit"].pc = "echo", job'["audit"] # job["audit"],
         job["audit"].pc = "copy"
  PROVE  Copy
<1> USE DEF At
<1>w. /\ "audit" \in Worker /\ "audit" \notin Subscribers /\ "review" \in Worker /\ Ticks \subseteq Worker
      /\ "audit" \in Locked /\ Worker = Ticks \cup {"audit", "review", "dry run"}
      /\ Ticks \subseteq Subscribers
  BY DEF Worker, Locked, Ticks, Subscribers
<1>1. ASSUME NEW w \in Worker, w # "audit", \E r : Become(w, r) PROVE FALSE
  BY <1>w, <1>1, OneMoves DEF TypeInv
<1>2. ~(Outside \/ Sever \/ UNCHANGED vars)
  BY DEF Outside, Sever, vars
<1>3. ASSUME NEW w \in Ticks, TickStart(w) \/ TickStep(w) PROVE FALSE
  <2>1. \E r : Become(w, r)
    BY <1>3, HandsBack DEF TickStart, TickStep, List, Poll, BreakOff, Advance, LoadPage, Post,
       NoteEvent, TickClose, Handle, Check, Record, Store, Stop, Goto
  <2> QED BY <1>w, <1>1, <2>1
<1>4. ~(ReviewStart \/ ReaderStep("review") \/ Die("review"))
  <2>1. ReviewStart \/ ReaderStep("review") \/ Die("review") => \E r : Become("review", r)
    BY DEF ReviewStart, ReaderStep, Verify, ScanFails, Find, Die
  <2> QED BY <1>w, <1>1, <2>1
<1>5. ASSUME NEW w \in Ticks, Die(w) PROVE FALSE
  BY <1>w, <1>1, <1>5 DEF Die
<1>8. ~(DryStart \/ Die("dry run"))
  BY <1>w, <1>1 DEF DryStart, Die
<1>9. ASSUME NEW w \in Subscribers, SubscriberStep(w) PROVE FALSE
  BY <1>w, <1>9, SubscriberGoes
<1>6. ~Die("audit")
  <2>1. Off.pc # "echo"
    BY DEF Off
  <2> QED BY <1>w, <2>1, OneMoves DEF Die, TypeInv
<1>7. ~(AuditStart \/ ReaderStep("audit") \/ Discover \/ Apply \/ ApplyFails \/ Handle("audit") \/ Mark \/ Echo)
  BY DEF AuditStart, ReaderStep, Verify, ScanFails, Find, Discover, Apply, ApplyFails, Handle, Check,
     Record, Store, Stop, Mark, Echo
<1> QED BY <1>w, <1>2, <1>3, <1>4, <1>5, <1>6, <1>7, <1>8, <1>9 DEF Next, AuditStep

\* What each of those who write adds, and to whom it answers.
AddsEvent(m, type) ==
  LET new == Len(log) + 1 IN
  /\ DOMAIN log' = DOMAIN log \cup {new}
  /\ \A i \in DOMAIN log : log'[i].msg = log[i].msg /\ log'[i].type = log[i].type
  /\ log'[new].msg = m /\ log'[new].type = type

AddsSnap(m, type) ==
  LET new == Len(snaps) + 1 IN
  /\ DOMAIN snaps' = DOMAIN snaps \cup {new}
  /\ \A i \in DOMAIN snaps : snaps'[i] = snaps[i]
  /\ snaps'[new].msg = m /\ snaps'[new].type = type

EventsKept ==
  /\ DOMAIN log' = DOMAIN log
  /\ \A i \in DOMAIN log : log'[i].msg = log[i].msg /\ log'[i].type = log[i].type

\* A handler: the event it writes, the snapshot it makes, or an error.
Recording(w) ==
  /\ w \in Locked /\ job[w].pc = "record" /\ Hand(w) \in Msg
  /\ job'[w].pc = "keep" /\ Hand(w)' = Hand(w) /\ UNCHANGED snaps
  /\ \/ EventsKept /\ Hand(w) \in botched'
     \/ \E type : AddsEvent(Hand(w), type) /\ type \in InboundTypes
                  /\ (type = TypeOf(Hand(w)) \/ Hand(w) \in misread')

Storing(w) ==
  /\ w \in Locked /\ job[w].pc = "keep" /\ Hand(w) \in Msg /\ UNCHANGED log
  /\ \/ UNCHANGED snaps /\ Hand(w) \in botched'
     \/ \E type : AddsSnap(Hand(w), type) /\ (type = TypeOf(Hand(w)) \/ Hand(w) \in Doubted)

Importing ==
  \E m \in Msg : \E type :
    /\ AddsSnap(m, type) /\ UNCHANGED log
    /\ Known(m) \/ m \in imported'
    /\ ~Stored(m)
    /\ type = TypeOf(m) \/ m \in misread' \cup botched

Copying ==
  LET m == Hand("audit") IN
  /\ m \in Msg /\ ~Inbound(m) /\ UNCHANGED log
  /\ \/ UNCHANGED snaps
     \/ AddsSnap(m, "manual_reply") /\ Hand("audit")' = m

Echoing ==
  LET m == Hand("audit") IN
  /\ job["audit"].pc = "echo" /\ m \in Msg /\ ~Inbound(m) /\ UNCHANGED snaps
  /\ EventsKept \/ AddsEvent(m, "manual_reply")

LEMMA RecordingIs ==
  ASSUME FreshInv, NEW w \in Locked, Record(w)
  PROVE  Recording(w)
<1> USE DEF At
<1>w. w \in Worker /\ TypeOK /\ JobsFit /\ "keep" \in Pc
  BY DEF Locked, Worker, FreshInv, HeedInv, TypeInv, Pc
<1>1. job[w].pc = "record" /\ Goto(w, "keep") /\ UNCHANGED snaps
  BY DEF Record
<1>2. Hand(w) \in Msg /\ Inbound(Hand(w)) /\ TypeRead(w) \in InboundTypes
  BY <1>w, <1>1, HandTyped DEF MsgWork, Handling
<1>3. job'[w].pc = "keep" /\ Hand(w)' = Hand(w)
  BY <1>w, <1>1, HandKept
<1>4. TypeOf(Hand(w)) = Kind[Hand(w)]
  BY <1>2 DEF TypeOf, Inbound
<1>5. CASE Fails(Hand(w)) /\ UNCHANGED log
  BY <1>1, <1>2, <1>3, <1>5 DEF Recording, EventsKept, Fails
<1>6. CASE /\ Insert(Hand(w), TypeRead(w), IF w \in Ticks THEN "tick" ELSE w)
           /\ misread' = IF TypeRead(w) # Kind[Hand(w)] THEN misread \cup {Hand(w)} ELSE misread
  <2>1. (IF w \in Ticks THEN "tick" ELSE w) \in {"tick", "audit"}
    BY DEF Locked
  <2>2. AddsEvent(Hand(w), TypeRead(w))
    BY <1>w, <1>2, <1>6, <2>1, Inserted DEF AddsEvent
  <2>3. TypeRead(w) = TypeOf(Hand(w)) \/ Hand(w) \in misread'
    BY <1>4, <1>6
  <2> QED BY <1>1, <1>2, <1>3, <2>2, <2>3 DEF Recording
<1> QED BY <1>5, <1>6 DEF Record

LEMMA StoringIs ==
  ASSUME FreshInv, NEW w \in Locked, Store(w)
  PROVE  Storing(w)
<1> USE DEF At
<1>w. w \in Worker /\ TypeOK /\ JobsFit /\ ReadRight
  BY DEF Locked, Worker, FreshInv, HeedInv, TypeInv
<1>1. job[w].pc = "keep" /\ UNCHANGED log
  BY DEF Store
<1>2. Hand(w) \in Msg /\ Inbound(Hand(w)) /\ TypeRead(w) \in InboundTypes
  BY <1>w, <1>1, HandTyped DEF MsgWork, Handling
<1>3. TypeRead(w) = TypeOf(Hand(w)) \/ Hand(w) \in Doubted
  BY <1>w, <1>1, <1>2 DEF ReadRight, Doubted, TypeOf, Inbound
<1>4. CASE Fails(Hand(w)) /\ UNCHANGED snaps
  BY <1>1, <1>2, <1>4 DEF Storing, Fails
<1>5. CASE Snapshot(Hand(w), TypeRead(w))
  <2>1. AddsSnap(Hand(w), TypeRead(w))
    BY <1>w, <1>2, <1>5, Added DEF AddsSnap
  <2> QED BY <1>1, <1>2, <1>3, <2>1 DEF Storing
<1> QED BY <1>4, <1>5 DEF Store

LEMMA ImportingIs ==
  ASSUME FreshInv, NEW m \in Msg, Refresh(m) \/ \E i \in DOMAIN log : Backfill(m, i)
  PROVE  Importing
<1>t. TypeOK /\ TypesAgree /\ TypedRight /\ Kind[m] \in {"reply", "unsubscribe", "own"}
  BY LedgerAssumption DEF FreshInv, HeedInv, TypeInv
<1>1. ASSUME NEW type \in InboundTypes \cup {"manual_reply"}, Import(m, type),
             \/ type = TypeOf(m) \/ m \in Doubted
             \/ type = "reply" /\ Kind[m] = "unsubscribe"
      PROVE  Importing
  <2>1. /\ Snapshot(m, type) /\ ~Stored(m) /\ UNCHANGED log
        /\ imported' = IF Known(m) THEN imported ELSE imported \cup {m}
        /\ misread' = IF type = "reply" /\ Kind[m] = "unsubscribe" THEN misread \cup {m} ELSE misread
    BY <1>1 DEF Import
  <2>2. AddsSnap(m, type)
    BY <1>t, <2>1, Added DEF AddsSnap
  <2>3. Known(m) \/ m \in imported'
    BY <2>1
  <2>4. type = TypeOf(m) \/ m \in misread' \cup botched
    BY <1>1, <2>1 DEF Doubted
  <2> QED BY <2>1, <2>2, <2>3, <2>4 DEF Importing
<1>2. CASE Refresh(m)
  <2>1. TypeOf(m) \in InboundTypes \cup {"manual_reply"}
    BY <1>t DEF TypeOf, InboundTypes
  <2> QED BY <1>1, <1>2, <2>1 DEF Refresh
<1>3. ASSUME NEW i \in DOMAIN log, Backfill(m, i) PROVE Importing
  <2>1. CASE log[i].msg = m
    <3>1. Import(m, log[i].type) /\ log[i].type \in InboundTypes
      BY <1>3, <2>1 DEF Backfill
    <3>2. log[i].type = TypeOf(m) \/ m \in Doubted
      BY <1>t, <2>1 DEF TypedRight, RightlyTyped
    <3> QED BY <1>1, <3>1, <3>2
  <2>2. CASE log[i].msg # m /\ Inbound(m)
    <3>1. Import(m, "reply") /\ "reply" \in InboundTypes
      BY <1>3, <2>2 DEF Backfill, InboundTypes
    <3>2. "reply" = TypeOf(m) \/ Kind[m] = "unsubscribe"
      BY <1>t, <2>2 DEF TypeOf, Inbound
    <3> QED BY <1>1, <3>1, <3>2
  <2>3. CASE log[i].msg # m /\ ~Inbound(m)
    <3>1. Import(m, "manual_reply") /\ TypeOf(m) = "manual_reply"
      BY <1>3, <2>3 DEF Backfill, TypeOf, Inbound
    <3> QED BY <1>1, <3>1
  <2> QED BY <2>1, <2>2, <2>3
<1> QED BY <1>2, <1>3

LEMMA CopyingIs ==
  ASSUME FreshInv, Copy
  PROVE  Copying /\ job["audit"].pc = "copy"
<1> USE DEF At
<1>w. "audit" \in Worker /\ TypeOK /\ JobsFit /\ "echo" \in Pc
  BY DEF Locked, Worker, FreshInv, HeedInv, TypeInv, Pc
<1>1. job["audit"].pc = "copy" /\ UNCHANGED log
  BY DEF Copy
<1>2. Hand("audit") \in Msg /\ ~Inbound(Hand("audit"))
  BY <1>w, <1>1, HandTyped DEF MsgWork, Fit, Hand
<1>3. CASE UNCHANGED snaps
  BY <1>1, <1>2, <1>3 DEF Copying
<1>4. CASE Snapshot(Hand("audit"), "manual_reply") /\ Goto("audit", "echo")
  <2>1. AddsSnap(Hand("audit"), "manual_reply")
    BY <1>w, <1>2, <1>4, Added DEF AddsSnap
  <2>2. Hand("audit")' = Hand("audit")
    BY <1>w, <1>4, HandKept
  <2> QED BY <1>1, <1>2, <2>1, <2>2 DEF Copying
<1> QED BY <1>3, <1>4 DEF Copy

LEMMA EchoingIs ==
  ASSUME FreshInv, Echo
  PROVE  Echoing
<1> USE DEF At
<1>w. "audit" \in Worker /\ TypeOK /\ JobsFit
  BY DEF Locked, Worker, FreshInv, HeedInv, TypeInv
<1>1. job["audit"].pc = "echo" /\ UNCHANGED snaps
  BY DEF Echo
<1>2. Hand("audit") \in Msg /\ ~Inbound(Hand("audit"))
  BY <1>w, <1>1, HandTyped DEF MsgWork, Fit, Hand
<1>3. CASE UNCHANGED log
  BY <1>1, <1>2, <1>3 DEF Echoing, EventsKept
<1>4. CASE Insert(Hand("audit"), "manual_reply", "audit")
  <2>1. AddsEvent(Hand("audit"), "manual_reply")
    BY <1>w, <1>2, <1>4, Inserted DEF AddsEvent
  <2> QED BY <1>1, <1>2, <2>1 DEF Echoing
<1> QED BY <1>3, <1>4 DEF Echo

LEMMA NotesAre ==
  ASSUME TypeOK, NotesNothing
  PROVE  EventsKept /\ UNCHANGED snaps
BY Labels DEF NotesNothing, EventsKept


\* What a step adds to the log and to the snapshots.
Writing ==
  \/ EventsKept /\ UNCHANGED snaps
  \/ Importing
  \/ \E w \in Locked : Recording(w) \/ Storing(w)
  \/ Copying \/ Echoing

LEMMA AllWriting ==
  ASSUME FreshInv, [Next]_vars
  PROVE  Writing
<1>1. TypeOK
  BY DEF FreshInv, HeedInv, TypeInv
<1>2. ASSUME NotesNothing PROVE Writing
  BY <1>1, <1>2, NotesAre DEF Writing
<1>3. ASSUME NEW m \in Msg, Refresh(m) \/ \E i \in DOMAIN log : Backfill(m, i) PROVE Writing
  BY <1>3, ImportingIs DEF Writing
<1>4. ASSUME NEW w \in Locked, Record(w) \/ Store(w) PROVE Writing
  BY <1>4, RecordingIs, StoringIs DEF Writing
<1>5. ASSUME Copy \/ Echo PROVE Writing
  BY <1>5, CopyingIs, EchoingIs DEF Writing
<1> QED BY <1>2, <1>3, <1>4, <1>5, WhoWrites

\* Whatever is written, nothing is lost.
Remembered ==
  /\ botched \subseteq botched' /\ imported \subseteq imported' /\ misread \subseteq misread'
  /\ \A m : Stored(m) => Stored(m)'
  /\ \A m : Recorded(m) => Recorded(m)'

LEMMA WritingKeeps ==
  ASSUME Writing, TypeOK
  PROVE  /\ EventsKept \/ \E m, type : AddsEvent(m, type)
         /\ UNCHANGED snaps \/ \E m, type : AddsSnap(m, type)
<1>1. UNCHANGED log => EventsKept
  BY DEF EventsKept
<1>2. Importing => UNCHANGED log /\ \E m, type : AddsSnap(m, type)
  BY DEF Importing
<1>3. \A w : Recording(w) => UNCHANGED snaps /\ (EventsKept \/ \E m, type : AddsEvent(m, type))
  BY DEF Recording
<1>4. \A w : Storing(w) => UNCHANGED log /\ (UNCHANGED snaps \/ \E m, type : AddsSnap(m, type))
  BY DEF Storing
<1>5. Copying => UNCHANGED log /\ (UNCHANGED snaps \/ \E m, type : AddsSnap(m, type))
  BY DEF Copying
<1>6. Echoing => UNCHANGED snaps /\ (EventsKept \/ \E m, type : AddsEvent(m, type))
  BY DEF Echoing
<1> QED BY <1>1, <1>2, <1>3, <1>4, <1>5, <1>6 DEF Writing

LEMMA AllRemembered ==
  ASSUME FreshInv, [Next]_vars
  PROVE  Remembered
<1>1. TypeOK /\ TypeInv
  BY DEF FreshInv, HeedInv, TypeInv
<1>2. /\ EventsKept \/ \E m, type : AddsEvent(m, type)
      /\ UNCHANGED snaps \/ \E m, type : AddsSnap(m, type)
  BY <1>1, AllWriting, WritingKeeps
<1>3. \A m : Stored(m) => Stored(m)'
  BY <1>2 DEF Stored, AddsSnap
<1>4. \A m : Recorded(m) => Recorded(m)'
  BY <1>2 DEF Recorded, AddsEvent, EventsKept
<1>5. botched \subseteq botched' /\ imported \subseteq imported' /\ misread \subseteq misread'
  BY <1>1, BotchedGrows, OnlyMore
<1> QED BY <1>3, <1>4, <1>5 DEF Remembered

\* A handler that is about to make its snapshot makes it, or fails.
LEMMA KeepsOn ==
  ASSUME FreshInv, [Next]_vars, NEW w \in Locked, NEW m \in Msg, job[w].pc = "keep", Hand(w) = m
  PROVE  \/ Stored(m)' \/ m \in botched'
         \/ job'[w].pc = "keep" /\ Hand(w)' = m
<1> USE DEF At
<1>1. Turn(w)
  BY EveryTurn DEF FreshInv, HeedInv
<1>2. CASE job'[w] = job[w]
  BY <1>2 DEF Hand
<1>3. CASE Store(w)
  <2>1. Storing(w)
    BY <1>3, StoringIs
  <2> QED BY <2>1 DEF Storing, AddsSnap, Stored
<1>4. CASE Die(w)
  BY <1>4 DEF Die, Halfway
<1> QED BY <1>1, <1>2, <1>3, <1>4 DEF Turn

LEMMA LogStoredStep ==
  ASSUME FreshInv, [Next]_vars
  PROVE  LogStored'
<1>r. Remembered /\ LogStored /\ EchoStored
  BY AllRemembered DEF FreshInv
<1>1. ASSUME NEW m \in Msg,
             \/ Stored(m) \/ m \in botched
             \/ \E w \in Locked : job[w].pc = "keep" /\ Hand(w) = m
      PROVE  \/ Stored(m)' \/ m \in botched'
             \/ \E w \in Locked : job'[w].pc = "keep" /\ Hand(w)' = m
  BY <1>r, <1>1, KeepsOn DEF Remembered
<1>t. \A i \in DOMAIN log : log[i].msg \in Msg
  <2>1. log \in Seq(Entry)
    BY DEF FreshInv, HeedInv, TypeInv, TypeOK
  <2>2. \A i \in DOMAIN log : log[i] \in Entry
    BY <2>1
  <2> QED BY <2>2 DEF Entry
<1>2. CASE EventsKept
  BY <1>r, <1>1, <1>2, <1>t DEF EventsKept, LogStored
<1>3. ASSUME NEW m, NEW type, AddsEvent(m, type),
             \/ Stored(m)'
             \/ \E w \in Locked : job'[w].pc = "keep" /\ Hand(w)' = m
      PROVE  LogStored'
  BY <1>r, <1>1, <1>3, <1>t DEF AddsEvent, LogStored
<1>4. ASSUME NEW w \in Locked, Recording(w) PROVE LogStored'
  BY <1>2, <1>3, <1>4 DEF Recording
<1>5. CASE Echoing
  <2>1. PICK m \in Msg : m = Hand("audit")
    BY <1>5 DEF Echoing
  <2>2. Stored(m)'
    BY <1>r, <1>5, <2>1 DEF Echoing, EchoStored, Remembered
  <2> QED BY <1>2, <1>3, <1>5, <2>1, <2>2 DEF Echoing
<1>6. UNCHANGED log => EventsKept
  BY DEF EventsKept
<1>7. Importing \/ Copying \/ (\E w \in Locked : Storing(w)) => UNCHANGED log
  BY DEF Importing, Copying, Storing
<1> QED BY <1>2, <1>4, <1>5, <1>6, <1>7, AllWriting DEF Writing

LEMMA EchoStoredStep ==
  ASSUME FreshInv, [Next]_vars
  PROVE  EchoStored'
<1> SUFFICES ASSUME job'["audit"].pc = "echo" PROVE Stored(Hand("audit"))'
  BY DEF EchoStored
<1>t. TypeInv /\ TypesAgree /\ Remembered /\ EchoStored
  BY AllRemembered DEF FreshInv, HeedInv
<1>1. CASE job'["audit"] = job["audit"]
  BY <1>t, <1>1 DEF EchoStored, Remembered, Hand
<1>2. CASE job'["audit"] # job["audit"]
  <2>1. job["audit"].pc = "copy"
    <3>1. PICK w \in Worker : Moves(w)
      BY <1>t, <1>2, EveryStep DEF Rests
    <3>2. w = "audit"
      BY <1>2, <3>1 DEF Moves, Worker, Locked
    <3> QED BY <3>1, <3>2 DEF Moves, Begins, Ends, Works, Misled, Writes, Onward, Off
  <2>2. Copy
    BY <1>t, <1>2, <2>1, EchoFollowsCopy
  <2>3. Copying
    BY <2>2, CopyingIs
  <2>4. CASE AddsSnap(Hand("audit"), "manual_reply") /\ Hand("audit")' = Hand("audit")
    BY <2>4 DEF AddsSnap, Stored
  <2>5. CASE UNCHANGED snaps
    <3>1. /\ Become("audit", NextMessage("audit", Failed("audit")))
          /\ Failed("audit") \in Job /\ "audit" \in Worker
      <4>1. snaps' # Append(snaps, [msg |-> Hand("audit"), type |-> "manual_reply"])
        BY <1>t, <2>5 DEF TypeInv, TypeOK
      <4>2. Become("audit", NextMessage("audit", Failed("audit")))
        BY <2>2, <4>1 DEF Copy, Snapshot
      <4> QED BY <1>t, <4>2, FailedFits DEF TypeInv, Worker, Locked
    <3>2. job'["audit"] = NextMessage("audit", Failed("audit"))
      BY <1>t, <3>1, OneMoves DEF TypeInv
    <3> QED BY <3>1, <3>2, AuditGoesOn
  <2> QED BY <2>3, <2>4, <2>5 DEF Copying
<1> QED BY <1>1, <1>2

LEMMA SnapsLoggedStep ==
  ASSUME FreshInv, [Next]_vars
  PROVE  SnapsLogged'
<1>r. Remembered /\ SnapsLogged /\ KeptLogged /\ TypesAgree
  BY AllRemembered DEF FreshInv, HeedInv
<1>1. CASE UNCHANGED snaps
  BY <1>r, <1>1 DEF SnapsLogged, Remembered
<1>2. ASSUME NEW m, NEW type, AddsSnap(m, type), Inbound(m) => Recorded(m)' \/ m \in imported' \cup botched'
      PROVE  SnapsLogged'
  BY <1>r, <1>2 DEF AddsSnap, SnapsLogged, Remembered
<1>3. CASE Importing
  <2>1. PICK m, type : m \in Msg /\ AddsSnap(m, type) /\ ~Stored(m) /\ (Known(m) \/ m \in imported')
    BY <1>3 DEF Importing
  <2>2. Known(m) /\ Inbound(m) => Recorded(m)
    BY <1>r, <2>1 DEF Known, Recorded, TypesAgree
  <2> QED BY <1>r, <1>2, <2>1, <2>2 DEF Remembered
<1>4. ASSUME NEW w \in Locked, Storing(w) PROVE SnapsLogged'
  <2>1. PICK m \in Msg : m = Hand(w)
    BY <1>4 DEF Storing
  <2>2. Recorded(m)' \/ m \in botched'
    BY <1>r, <1>4, <2>1 DEF Storing, KeptLogged, Remembered
  <2> QED BY <1>1, <1>2, <1>4, <2>1, <2>2 DEF Storing
<1>5. CASE Copying
  BY <1>1, <1>2, <1>5 DEF Copying
<1>6. Echoing \/ (\E w \in Locked : Recording(w)) => UNCHANGED snaps
  BY DEF Echoing, Recording
<1> QED BY <1>1, <1>3, <1>4, <1>5, <1>6, AllWriting DEF Writing

LEMMA KeptLoggedStep ==
  ASSUME FreshInv, [Next]_vars
  PROVE  KeptLogged'
<1> SUFFICES ASSUME NEW w \in Locked, job'[w].pc = "keep"
             PROVE  Recorded(Hand(w))' \/ Hand(w)' \in botched'
  BY DEF KeptLogged
<1>r. Remembered /\ KeptLogged /\ Turn(w)
  BY AllRemembered, EveryTurn DEF FreshInv, HeedInv
<1>1. CASE job'[w] = job[w]
  BY <1>r, <1>1 DEF KeptLogged, Remembered, Hand
<1>2. CASE Record(w)
  <2>1. Recording(w)
    BY <1>2, RecordingIs
  <2>2. ASSUME NEW type, AddsEvent(Hand(w), type), type \in InboundTypes PROVE Recorded(Hand(w))'
    BY <2>1, <2>2 DEF AddsEvent, Recorded, Recording
  <2> QED BY <2>1, <2>2 DEF Recording
<1>3. CASE job[w].pc = "keep" /\ Store(w)
  <2>1. w \in Worker /\ JobsFit /\ Goto(w, "heed") /\ "heed" \in Pc
    BY <1>3 DEF Locked, Worker, FreshInv, HeedInv, TypeInv, Store, Pc
  <2> QED BY <2>1, HandKept
<1> QED BY <1>r, <1>1, <1>2, <1>3 DEF Turn

LEMMA TypedRightStep ==
  ASSUME FreshInv, [Next]_vars
  PROVE  TypedRight'
<1>r. Remembered /\ TypedRight
  BY AllRemembered DEF FreshInv
<1>1. \A e : RightlyTyped(e) => RightlyTyped(e)'
  BY <1>r DEF Remembered, RightlyTyped, Doubted, TypeOf
<1> DEFINE Logs  == \A i \in DOMAIN log : RightlyTyped(log[i])
           Snaps == \A i \in DOMAIN snaps : RightlyTyped(snaps[i])
<1>2. ASSUME EventsKept PROVE Logs'
  BY <1>r, <1>2 DEF EventsKept, TypedRight, RightlyTyped, Remembered, Doubted
<1>3. ASSUME NEW m, NEW type, AddsEvent(m, type), type = TypeOf(m) \/ m \in misread' \cup botched'
      PROVE  Logs'
  BY <1>r, <1>3 DEF AddsEvent, TypedRight, RightlyTyped, Remembered, Doubted
<1>4. ASSUME UNCHANGED snaps PROVE Snaps'
  BY <1>r, <1>1, <1>4 DEF TypedRight
<1>5. ASSUME NEW m, NEW type, AddsSnap(m, type), type = TypeOf(m) \/ m \in misread' \cup botched'
      PROVE  Snaps'
  BY <1>r, <1>5 DEF AddsSnap, TypedRight, RightlyTyped, Remembered, Doubted
<1>6. UNCHANGED log => EventsKept
  BY DEF EventsKept
<1>7. CASE Importing
  <2>1. UNCHANGED log
    BY <1>7 DEF Importing
  <2>2. Snaps'
    <3>1. PICK m, type : m \in Msg /\ AddsSnap(m, type) /\ (type = TypeOf(m) \/ m \in misread' \cup botched')
      BY <1>7, <1>r DEF Importing, Remembered
    <3> HIDE DEF Snaps
    <3> QED BY <1>5, <3>1
  <2> QED BY <1>2, <1>6, <2>1, <2>2 DEF TypedRight
<1>8. ASSUME NEW w \in Locked, Recording(w) PROVE TypedRight'
  <2>1. Logs' /\ UNCHANGED snaps
    BY <1>2, <1>3, <1>8 DEF Recording
  <2> QED BY <1>4, <2>1 DEF TypedRight
<1>9. ASSUME NEW w \in Locked, Storing(w) PROVE TypedRight'
  <2>1. \A m : m \in Doubted => m \in misread' \cup botched'
    BY <1>r DEF Doubted, Remembered
  <2>2. UNCHANGED log
    BY <1>9 DEF Storing
  <2>3. ASSUME NEW type, AddsSnap(Hand(w), type), type = TypeOf(Hand(w)) \/ Hand(w) \in Doubted
        PROVE  Snaps'
    <3>1. PICK m : m = Hand(w)
      OBVIOUS
    <3>2. AddsSnap(m, type) /\ (type = TypeOf(m) \/ m \in misread' \cup botched')
      BY <2>1, <2>3, <3>1
    <3> HIDE DEF Snaps
    <3> QED BY <1>5, <3>2
  <2>4. Snaps'
    <3> HIDE DEF Snaps
    <3> QED BY <1>4, <1>9, <2>3 DEF Storing
  <2> QED BY <1>2, <1>6, <2>2, <2>4 DEF TypedRight
<1>10. CASE Copying
  <2>1. TypeOf(Hand("audit")) = "manual_reply"
    BY <1>10 DEF Copying, TypeOf, Inbound
  <2>2. Snaps' /\ UNCHANGED log
    BY <1>4, <1>5, <1>10, <2>1 DEF Copying
  <2> QED BY <1>2, <1>6, <2>2 DEF TypedRight
<1>11. CASE Echoing
  <2>1. TypeOf(Hand("audit")) = "manual_reply"
    BY <1>11 DEF Echoing, TypeOf, Inbound
  <2>2. Logs' /\ UNCHANGED snaps
    BY <1>2, <1>3, <1>11, <2>1 DEF Echoing
  <2> QED BY <1>4, <2>2 DEF TypedRight
<1>12. CASE EventsKept /\ UNCHANGED snaps
  BY <1>2, <1>4, <1>12 DEF TypedRight
<1> QED BY <1>7, <1>8, <1>9, <1>10, <1>11, <1>12, AllWriting DEF Writing


\* What a clean verification saw has a snapshot by the time a list is made.
LEMMA SeenStored ==
  ASSUME FreshInv, NEW w \in Readers, job[w].pc = "find", NEW m \in job[w].seen, m \notin botched,
         w = "review" \/ severed => Stored(m)
  PROVE  Stored(m)
<1> SUFFICES ASSUME w = "audit", ~severed, ~Stored(m) PROVE FALSE
  BY DEF Readers
<1>1. Known(m)
  BY DEF FreshInv, HeedInv, SeenKnown, Readers
<1>2. PICK i \in DOMAIN log : log[i].msg = m
  BY <1>1 DEF Known
<1>3. PICK v \in Locked : job[v].pc = "keep" /\ Hand(v) = m
  BY <1>2 DEF FreshInv, LogStored
<1>4. holder = "audit" /\ holder = v
  BY <1>3 DEF FreshInv, HeedInv, Alone, Locked
<1> QED BY <1>3, <1>4

\* The newest snapshot is of a newest message.
LEMMA NewestIsNewest ==
  ASSUME TypeOK, NEW a, NEW i \in Newest(a), NEW all, all \subseteq {snaps[j].msg : j \in In(a)}
  PROVE  \A n \in all : date[n] <= date[snaps[i].msg]
<1> SUFFICES ASSUME NEW j \in In(a) PROVE date[snaps[j].msg] <= date[snaps[i].msg]
  OBVIOUS
<1>1. i \in In(a) /\ (j # i => Later(i, j))
  BY DEF Newest
<1>2. \A k \in In(a) : date[snaps[k].msg] \in Int
  <2>1. snaps \in Seq(Copied) /\ date \in [Msg -> Nat \cup {NoTime}]
    BY DEF TypeOK
  <2>2. \A k \in In(a) : snaps[k] \in Copied
    BY <2>1 DEF In
  <2>3. \A k \in In(a) : date[snaps[k].msg] \in Nat \cup {NoTime}
    BY <2>1, <2>2 DEF Copied
  <2> QED BY <2>3 DEF NoTime
<1> QED BY <1>1, <1>2 DEF Later

\* An opt-out that is on record keeps its conversation off the lists.
LEMMA NotEligible ==
  ASSUME FreshInv, NEW m \in Msg, Stored(m), Kind[m] = "unsubscribe", m \notin Excused
  PROVE  ~Eligible(Of[m])
<1>1. PICK j \in DOMAIN snaps : snaps[j].msg = m
  BY DEF Stored
<1>2. Recorded(m)
  BY <1>1 DEF FreshInv, SnapsLogged, Inbound, Excused
<1>3. PICK i \in DOMAIN log : log[i].msg = m
  BY <1>2 DEF Recorded
<1>4. log[i].type = "unsubscribe"
  BY <1>3 DEF FreshInv, TypedRight, RightlyTyped, Doubted, TypeOf, Excused
<1> QED BY <1>3, <1>4 DEF Eligible

LEMMA ListsFollow ==
  ASSUME FreshInv
  PROVE  ListsAreFresh
<1> SUFFICES ASSUME NEW w \in Readers, NEW a \in Account
             PROVE  LET seen   == {m \in job[w].seen : Of[m] = a}
                        all    == seen \cup {snaps[i].msg : i \in In(a)}
                        newest == {m \in all : \A n \in all : date[n] <= date[m]}
                        sure   == /\ all \cap (botched \cup misread) = {}
                                  /\ w = "review" \/ severed => \A m \in seen : Stored(m)
                    IN At(w, "find") /\ sure =>
                         /\ Followup(a) => \E m \in newest : Kind[m] = "own"
                         /\ NeedsReply(a) => \E m \in newest : Kind[m] = "reply"
                         /\ Followup(a) \/ NeedsReply(a) =>
                              \A m \in seen \ imported : Kind[m] # "unsubscribe"
  BY DEF ListsAreFresh, Readers
<1> DEFINE seen   == {m \in job[w].seen : Of[m] = a}
           stored == {snaps[i].msg : i \in In(a)}
           all    == seen \cup stored
           newest == {m \in all : \A n \in all : date[n] <= date[m]}
<1> SUFFICES ASSUME At(w, "find"), all \cap (botched \cup misread) = {},
                    w = "review" \/ severed => \A m \in seen : Stored(m)
             PROVE  /\ Followup(a) => \E m \in newest : Kind[m] = "own"
                    /\ NeedsReply(a) => \E m \in newest : Kind[m] = "reply"
                    /\ Followup(a) \/ NeedsReply(a) =>
                         \A m \in seen \ imported : Kind[m] # "unsubscribe"
  OBVIOUS
<1>t. TypeInv /\ TypeOK /\ TypedRight
  BY DEF FreshInv, HeedInv, TypeInv
<1>1. \A m \in seen : m \in Msg /\ Stored(m)
  <2>1. \A m \in seen : m \in job[w].seen /\ m \notin botched
    OBVIOUS
  <2>2. job[w].pc = "find"
    BY DEF At
  <2>3. job[w].seen \subseteq Msg
    BY <1>t, HandTyped DEF TypeInv, Readers, Worker, Locked, Job
  <2> HIDE DEF seen
  <2> QED BY <2>1, <2>2, <2>3, SeenStored
<1>2. seen \subseteq stored
  BY <1>1 DEF Stored, In
<1>3. ASSUME NEW i \in Newest(a)
      PROVE  snaps[i].msg \in newest /\ snaps[i].type = TypeOf(snaps[i].msg)
  <2>1. i \in In(a) /\ i \in DOMAIN snaps /\ snaps[i].msg \in stored
    BY DEF Newest, In
  <2>2. all \subseteq {snaps[j].msg : j \in In(a)}
    BY <1>2
  <2>3. \A n \in all : date[n] <= date[snaps[i].msg]
    <3> HIDE DEF all
    <3> QED BY <1>t, <2>2, NewestIsNewest
  <2>4. snaps[i].type = TypeOf(snaps[i].msg)
    BY <1>t, <2>1 DEF TypedRight, RightlyTyped, Doubted
  <2> QED BY <2>1, <2>3, <2>4
<1>4. Followup(a) => \E m \in newest : Kind[m] = "own"
  <2> HIDE DEF newest
  <2> SUFFICES ASSUME Followup(a) PROVE \E m \in newest : Kind[m] = "own"
    OBVIOUS
  <2>1. PICK i \in Newest(a) : snaps[i].type = "manual_reply"
    BY DEF Followup
  <2>2. snaps[i].msg \in newest /\ TypeOf(snaps[i].msg) = "manual_reply"
    BY <1>3, <2>1
  <2>3. snaps[i].msg \in Msg
    <3>1. snaps \in Seq(Copied) /\ i \in DOMAIN snaps
      BY <1>t, <2>1 DEF TypeOK, Newest, In
    <3>2. snaps[i] \in Copied
      BY <3>1
    <3> QED BY <3>2 DEF Copied
  <2>4. Kind[snaps[i].msg] = "own"
    BY <2>2, <2>3, LedgerAssumption DEF TypeOf
  <2> QED BY <2>2, <2>4
<1>5. NeedsReply(a) => \E m \in newest : Kind[m] = "reply"
  <2> HIDE DEF newest
  <2> SUFFICES ASSUME NeedsReply(a) PROVE \E m \in newest : Kind[m] = "reply"
    OBVIOUS
  <2>1. PICK i \in Newest(a) : snaps[i].type = "reply"
    BY DEF NeedsReply
  <2>2. snaps[i].msg \in newest /\ TypeOf(snaps[i].msg) = "reply"
    BY <1>3, <2>1
  <2>3. Kind[snaps[i].msg] = "reply"
    BY <2>2 DEF TypeOf
  <2> QED BY <2>2, <2>3
<1>6. ASSUME Followup(a) \/ NeedsReply(a), NEW m \in seen \ imported PROVE Kind[m] # "unsubscribe"
  <2>1. m \in Msg /\ Stored(m) /\ Of[m] = a /\ m \notin Excused
    BY <1>1 DEF Excused
  <2>2. Eligible(a)
    BY <1>6 DEF Followup, NeedsReply
  <2> QED BY <2>1, <2>2, NotEligible
<1> QED BY <1>4, <1>5, <1>6

\* The follow-up list and the needs-reply list, compiled after a clean
\* verification, follow the newest message of all that were seen or stored, and
\* have no one on them whose opt-out was seen: whatever ticks, importers and
\* mailboxes do before, meanwhile and after.
THEOREM ListsStayFresh == Spec => []ListsAreFresh
<1>1. Init => FreshInv
  <2> SUFFICES ASSUME Init PROVE FreshInv
    OBVIOUS
  <2>1. log = <<>> /\ DOMAIN log = {} /\ snaps = <<>> /\ DOMAIN snaps = {}
    BY DEF Init, LedgerInit
  <2>2. \A w \in Worker : job[w].pc = "off"
    BY DEF Init, Off
  <2>3. TypedRight /\ LogStored /\ EchoStored /\ SnapsLogged /\ KeptLogged
    BY <2>1, <2>2 DEF TypedRight, LogStored, EchoStored, SnapsLogged, KeptLogged, Worker, Locked
  <2> QED BY <2>3, InitHeeds DEF FreshInv
<1>2. FreshInv /\ [Next]_vars => FreshInv'
  <2> SUFFICES ASSUME FreshInv, [Next]_vars PROVE FreshInv'
    OBVIOUS
  <2>1. HeedInv'
    BY HeedStep DEF FreshInv
  <2> QED BY <2>1, TypedRightStep, LogStoredStep, EchoStoredStep, SnapsLoggedStep, KeptLoggedStep DEF FreshInv
<1> QED BY <1>1, <1>2, ListsFollow, PTL DEF Spec
=============================================================================
