---------------------------- MODULE OutboxProofs ----------------------------
(* The poll, the reconciliation and the notifier implement Outbox, for any  *)
(* number of events and pages, when the lock was lost and two ticks         *)
(* announce, and beside dry runs that write a first cursor without it.      *)
(* While the lock is not lost, a message is announced once and under the    *)
(* right label, but for the failures that AnnouncedOnce and LabelTruth name.*)
EXTENDS InboxProofs

Waiting == Box!Waiting

\* The cursor is behind whatever waits to be heard.
Behind == \A j \in Waiting : cursor < j

\* Only a tick that found or made a cursor goes on to announce.
Polling == {"list", "handle", "record", "keep", "heed", "advance", "page"}

Subscribed ==
  \A w \in Ticks :
    /\ job[w].pc \in Polling /\ ~job[w].failed => cursor # Unset
    /\ job[w].pc = "page" => ~job[w].failed

\* What waits to be heard is on the page in hand, or comes after the page.
Paged(w) ==
  job[w].pc \in PageWork =>
    LET p == job[w].page IN
    /\ cursor # Unset
    /\ \A a, b \in DOMAIN p : a < b => p[a].id < p[b].id
    /\ \A n \in DOMAIN p : Concerns(log[p[n].id])
    /\ \A j \in Waiting : (\E n \in DOMAIN p : p[n].id = j) \/ (\A n \in DOMAIN p : p[n].id < j)
    /\ job[w].pc = "note" => p[1].id \in heard

\* A subscriber that found no cursor.
LookPc == {"baseline", "subscribe"}

FeedInv == TypeInv /\ TypesAgree /\ Behind /\ Subscribed /\ \A w \in Ticks : Paged(w)

-----------------------------------------------------------------------------
(* What the log does to those who wait. *)

Grown ==
  /\ DOMAIN log \subseteq DOMAIN log'
  /\ \A i \in DOMAIN log : log'[i].msg = log[i].msg /\ log'[i].type = log[i].type
  /\ \A i \in DOMAIN log' \ DOMAIN log : i \in Nat /\ i > Len(log)

LEMMA LogSteps ==
  ASSUME TypeInv, TypesAgree, [Next]_vars
  PROVE  /\ Grown
         /\ \/ UNCHANGED log
            \/ Len(log') = Len(log) + 1 /\ SubSeq(log', 1, Len(log)) = log
            \/ Len(log') = Len(log)
<1>1. CASE UNCHANGED log
  BY <1>1 DEF Grown
<1>t. log \in Seq(Entry) /\ Len(log) \in Nat /\ DOMAIN log = 1 .. Len(log)
  BY DEF TypeInv, TypeOK
<1>2. ASSUME NEW w \in Worker, Works(w), Writes(w)
      PROVE  Grown /\ Len(log') = Len(log) + 1 /\ SubSeq(log', 1, Len(log)) = log
  <2>1. PICK e : log' = Append(log, e)
    BY <1>2 DEF Writes, Insert
  <2>2. SubSeq(log', 1, Len(log)) = log
    BY <1>t, <2>1
  <2>3. Len(log') = Len(log) + 1
    BY <1>t, <2>1
  <2>4. Grown
    BY <1>t, <1>2, LogGrows DEF Grown
  <2> QED BY <2>2, <2>3, <2>4
<1>3. ASSUME NEW w \in Worker, Works(w), ~Writes(w), ~UNCHANGED log
      PROVE  Grown /\ Len(log') = Len(log)
  <2>1. PICK m \in Msg, type \in InboundTypes : log' = Relabelled(m, type)
    BY <1>3 DEF Works, Misled
  <2>2. Len(log') = Len(log)
    BY <2>1, RelabelledTyped DEF TypeInv
  <2>3. Grown
    BY <1>3, RelabelKeeps DEF Grown
  <2> QED BY <2>2, <2>3
<1> QED BY <1>1, <1>2, <1>3, EveryStep DEF Moves, Begins, Ends, Rests

LEMMA WaitingSteps ==
  ASSUME TypeInv, Grown, heard \cup passed \subseteq (heard \cup passed)'
  PROVE  \A j \in Waiting' : j \in Waiting \/ (j \in Nat /\ j > Len(log))
BY DEF Grown, Waiting, Box!Waiting, Concerns

LEMMA StaysPaged ==
  ASSUME TypeInv, Grown, heard \subseteq heard', passed \subseteq passed', NEW w \in Ticks, Paged(w),
         job'[w] = job[w], cursor # Unset => cursor' # Unset
  PROVE  Paged(w)'
<1>w. w \in Worker
  BY DEF Worker, Locked
<1>1. \A j \in Waiting' : j \in Waiting \/ (j \in Nat /\ j > Len(log))
  BY WaitingSteps
<1> DEFINE p == job[w].page
<1>2. \A n \in DOMAIN p : p[n].id \in DOMAIN log /\ p[n].id \in Nat /\ p[n].id <= Len(log)
  <2>1. DOMAIN log = 1 .. Len(log) /\ Len(log) \in Nat
    BY DEF TypeInv, TypeOK
  <2> QED BY <1>w, <2>1 DEF TypeInv, PagesThere
<1>3. p' = p
  OBVIOUS
<1>4. \A n \in DOMAIN p : Concerns(log[p[n].id]) => Concerns(log'[p[n].id])
  BY <1>2 DEF Grown, Concerns
<1>5. ASSUME NEW j \in Waiting', job[w].pc \in PageWork
      PROVE  (\E n \in DOMAIN p : p[n].id = j) \/ (\A n \in DOMAIN p : p[n].id < j)
  <2>1. CASE j \in Waiting
    BY <1>5, <2>1 DEF Paged
  <2>2. CASE j \in Nat /\ j > Len(log)
    <3>1. Len(log) \in Nat
      BY DEF TypeInv, TypeOK
    <3> QED BY <1>2, <2>2, <3>1
  <2> QED BY <1>1, <2>1, <2>2
<1> QED BY <1>3, <1>4, <1>5 DEF Paged

-----------------------------------------------------------------------------
(* The steps that touch neither the cursor nor what was heard. *)

LEMMA TickGoesOn ==
  ASSUME NEW w \in Ticks, NEW r \in Job
  PROVE  /\ LET s == NextAccount(w, r) IN
            s.failed = r.failed /\ s.pc \in {"list", "close", "page"} /\ (s.pc = "page" => ~r.failed)
         /\ LET s == NextMessage(w, r) IN s.failed = r.failed /\ s.pc \in {"handle", "advance"}
<1> DEFINE s == [r EXCEPT !.accts = Tail(@), !.batch = <<>>, !.bare = {}]
<1>1. s.failed = r.failed /\ \A pc \in Pc : [s EXCEPT !.pc = pc].pc = pc /\ [s EXCEPT !.pc = pc].failed = s.failed
  BY DEF Job
<1> HIDE DEF s
<1>2. /\ Then(w, s).failed = r.failed /\ Then(w, s).pc \in {"list", "close", "page"}
      /\ Then(w, s).pc = "page" => ~r.failed
  BY <1>1 DEF Then, Pc
<1>3. NextAccount(w, r) = Then(w, s)
  BY DEF NextAccount, s
<1> DEFINE pc == IF Tail(r.batch) = <<>> THEN "advance" ELSE IF w \in Ticks THEN "handle" ELSE "apply"
           t  == [r EXCEPT !.batch = Tail(r.batch), !.pc = pc]
<1>4. t.failed = r.failed /\ t.pc = pc /\ pc \in {"handle", "advance"}
  BY DEF Job
<1>5. NextMessage(w, r) = t
  BY DEF NextMessage
<1> QED BY <1>2, <1>3, <1>4, <1>5

\* A tick that is polling was polling, or did not begin to.
Polls(w) ==
  /\ UNCHANGED <<cursor, heard, passed>>
  /\ \A v \in Worker \ {w} : job'[v] = job[v]
  /\ job'[w].pc \notin LookPc
  /\ job[w].pc \in LookPc => UNCHANGED log
  /\ job'[w].pc \notin PageWork
  /\ job'[w].pc \in Polling /\ ~job'[w].failed => job[w].pc \in Polling /\ ~job[w].failed
  /\ job'[w].pc = "page" => ~job'[w].failed

LEMMA PollSteps ==
  ASSUME TypeInv, NEW w \in Ticks,
         \/ TickStart(w) \/ List(w) \/ BreakOff(w) \/ Advance(w) \/ TickClose(w) \/ Handle(w)
         \/ Die(w)
  PROVE  Polls(w)
<1> USE DEF At, KeepAround, feedVars
<1>w. w \in Worker
  BY DEF Ticks, Locked, Worker
<1>f. job[w] \in Job /\ JobsFit
  BY <1>w, HandTyped DEF TypeInv
<1>p. /\ {"handle", "record", "keep", "heed", "advance", "list"} \subseteq Polling \cap Pc
      /\ Polling \cap PageWork = {}
      /\ \A pc \in {"off", "ensure", "close"} : pc \notin Polling \cup PageWork \cup LookPc
      /\ \A pc \in Polling : pc \notin LookPc
  BY DEF Polling, PageWork, LookPc, Pc
<1>1. ASSUME NEW r, Become(w, r), r.pc \in {"off", "ensure"}, UNCHANGED <<cursor, heard, passed>>,
             UNCHANGED log
      PROVE  Polls(w)
  BY <1>w, <1>f, <1>p, <1>1, OneMoves DEF Polls
<1>2. ASSUME NEW r, Become(w, r), r.failed = job[w].failed, job[w].pc \in Polling,
             r.pc \in {"handle", "record", "keep", "heed", "advance", "list", "close", "page"},
             r.pc = "page" => ~r.failed, UNCHANGED <<cursor, heard, passed>>
      PROVE  Polls(w)
  <2>1. job'[w] = r /\ \A v \in Worker \ {w} : job'[v] = job[v]
    BY <1>w, <1>f, <1>2, OneMoves
  <2>2. r.failed => job[w].failed
    BY <1>2
  <2>3. r.pc \notin LookPc \cup PageWork
    BY <1>2 DEF LookPc, PageWork
  <2>4. job[w].pc \notin LookPc
    BY <1>p, <1>2
  <2> QED BY <1>2, <2>1, <2>2, <2>3, <2>4 DEF Polls
<1>n. ASSUME \/ Become(w, NextAccount(w, job[w]))
             \/ Become(w, NextMessage(w, job[w])),
             job[w].pc \in Polling, UNCHANGED <<cursor, heard, passed>>
      PROVE  Polls(w)
  BY <1>n, <1>f, <1>2, TickGoesOn
<1>g. \A pc \in {"record", "keep", "heed"} :
        Goto(w, pc) /\ job[w].pc \in Polling /\ UNCHANGED <<cursor, heard, passed>> => Polls(w)
  <2> TAKE pc \in {"record", "keep", "heed"}
  <2> DEFINE r == [job[w] EXCEPT !.pc = pc]
  <2>1. r.pc = pc /\ r.failed = job[w].failed
    BY <1>f DEF Job
  <2>2. Goto(w, pc) => Become(w, r)
    BY DEF Goto
  <2> HIDE DEF r
  <2> QED BY <1>2, <2>1, <2>2
<1>3. CASE TickStart(w)
  <2>1. [Off EXCEPT !.pc = "ensure", !.began = now, !.accts = Accounts].pc = "ensure"
    BY DEF Off
  <2> QED BY <1>1, <1>3, <2>1 DEF TickStart, ledgerVars
<1>4. CASE TickClose(w) \/ Die(w)
  BY <1>1, <1>4 DEF TickClose, Die, Off, KeepStore, ledgerVars
<1>5. CASE BreakOff(w) \/ Advance(w)
  BY <1>n, <1>p, <1>5 DEF BreakOff, Advance
<1>6. CASE List(w)
  <2>1. PICK batch : Become(w, [job[w] EXCEPT !.batch = batch, !.pc = IF batch = <<>> THEN "advance" ELSE "handle"])
    BY <1>6 DEF List, Poll
  <2> DEFINE pc == IF batch = <<>> THEN "advance" ELSE "handle"
             r  == [job[w] EXCEPT !.batch = batch, !.pc = pc]
  <2>2. r.pc = pc /\ r.failed = job[w].failed /\ pc \in {"advance", "handle"}
    BY <1>f DEF Job
  <2>3. job[w].pc \in Polling /\ UNCHANGED <<cursor, heard, passed>> /\ Become(w, r)
    BY <1>6, <1>p, <2>1 DEF List
  <2> HIDE DEF r, pc
  <2> QED BY <1>2, <2>2, <2>3
<1>7. CASE Handle(w)
  <2>1. /\ job[w].pc \in Polling /\ UNCHANGED <<cursor, heard, passed>>
        /\ HandBack(w) \/ \E pc \in {"record", "keep", "heed"} : Goto(w, pc)
    BY <1>7, <1>p DEF Handle, Check, Record, Store, Stop
  <2>2. HandBack(w) => Become(w, NextMessage(w, job[w]))
    BY DEF HandBack
  <2> QED BY <1>n, <1>g, <2>1, <2>2
<1> QED BY <1>3, <1>4, <1>5, <1>6, <1>7

\* The others touch neither the ticks nor the feed.
Apart ==
  /\ UNCHANGED <<cursor, heard, passed>>
  /\ \A w \in Ticks : job'[w] = job[w]
  /\ \/ job'["dry run"] = job["dry run"]
     \/ job'["dry run"].pc \notin LookPc /\ UNCHANGED log

LEMMA OtherSteps ==
  ASSUME TypeInv,
         \/ Outside \/ Sever \/ AuditStart \/ AuditStep \/ ReviewStart \/ DryStart
         \/ \E w \in {"audit", "review"} : ReaderStep(w) \/ Die(w)
         \/ Die("dry run")
         \/ UNCHANGED vars
  PROVE  Apart
<1> USE DEF KeepAround, feedVars
<1>w. /\ Ticks \subseteq Worker /\ {"audit", "review", "dry run"} \subseteq Worker
      /\ \A w \in {"audit", "review", "dry run"} : w \notin Ticks
      /\ \A w \in {"audit", "review"} : w # "dry run"
  BY DEF Worker, Locked, Ticks
<1>1. ASSUME NEW w \in {"audit", "review", "dry run"}, NEW r, Become(w, r)
      PROVE  /\ job'[w] = r /\ \A v \in Ticks : job'[v] = job[v]
             /\ w # "dry run" => job'["dry run"] = job["dry run"]
  BY <1>w, <1>1, OneMoves DEF TypeInv
<1>2. CASE Outside \/ Sever \/ UNCHANGED vars
  BY <1>2 DEF Outside, Sever, vars, Apart
<1>3. CASE \E w \in {"audit", "review"} : ReaderStep(w) \/ Die(w)
  BY <1>w, <1>1, <1>3 DEF ReaderStep, Verify, ScanFails, Find, Die, Apart
<1>4. CASE AuditStart \/ ReviewStart
  BY <1>w, <1>1, <1>4 DEF AuditStart, ReviewStart, Apart
<1>5. CASE AuditStep
  <2>1. UNCHANGED <<cursor, heard, passed>>
    BY <1>5 DEF AuditStep, Discover, Apply, ApplyFails, Handle, Check, Record, Store, Stop, Mark, Copy, Echo
  <2>2. \E r : Become("audit", r)
    BY <1>5, HandsBack DEF AuditStep, Discover, Found, Apply, ApplyFails, Handle, Check, Record, Store, Stop,
       Mark, Copy, Echo, Goto
  <2> QED BY <1>w, <1>1, <2>1, <2>2 DEF Apart
<1>6. CASE DryStart \/ Die("dry run")
  <2>1. [Off EXCEPT !.pc = "ensure"].pc \notin LookPc /\ Off.pc \notin LookPc
    BY DEF Off, LookPc
  <2>2. UNCHANGED <<log, cursor, heard, passed>>
    BY <1>6 DEF DryStart, Die, KeepStore
  <2>3. PICK r \in {Off, [Off EXCEPT !.pc = "ensure"]} : Become("dry run", r)
    BY <1>6 DEF DryStart, Die
  <2>4. job'["dry run"] = r /\ \A v \in Ticks : job'[v] = job[v]
    BY <1>1, <2>3
  <2> QED BY <2>1, <2>2, <2>3, <2>4 DEF Apart
<1> QED BY <1>2, <1>3, <1>4, <1>5, <1>6

LEMMA QuietStep ==
  ASSUME FeedInv, Grown, Apart \/ \E w \in Ticks : Polls(w)
  PROVE  Behind' /\ Subscribed' /\ \A w \in Ticks : Paged(w)'
<1> USE DEF FeedInv
<1>1. UNCHANGED <<cursor, heard, passed>>
  BY DEF Apart, Polls
<1>2. Behind'
  <2>1. \A j \in Waiting' : j \in Waiting \/ (j \in Nat /\ j > Len(log))
    BY <1>1, WaitingSteps
  <2>2. cursor \in Int /\ cursor <= Len(log) /\ Len(log) \in Nat
    BY DEF TypeInv, TypeOK, Unset
  <2> QED BY <1>1, <2>1, <2>2 DEF Behind
<1>3. ASSUME NEW v \in Ticks PROVE Paged(v)'
  <2>1. CASE job'[v] = job[v]
    BY <1>1, <2>1, StaysPaged
  <2>2. CASE job'[v] # job[v]
    <3>1. v \in Worker
      BY DEF Worker, Locked
    <3>2. job'[v].pc \notin PageWork
      BY <2>2, <3>1 DEF Apart, Polls
    <3> QED BY <3>2 DEF Paged
  <2> QED BY <2>1, <2>2
<1>4. Subscribed'
  <2>1. Ticks \subseteq Worker
    BY DEF Worker, Locked
  <2>2. ASSUME NEW v \in Ticks
        PROVE  /\ job'[v].pc \in Polling /\ ~job'[v].failed => cursor' # Unset
               /\ job'[v].pc = "page" => ~job'[v].failed
    <3>1. CASE job'[v] = job[v]
      BY <1>1, <3>1 DEF Subscribed
    <3>2. CASE job'[v] # job[v]
      BY <1>1, <2>1, <3>2 DEF Apart, Polls, Subscribed
    <3> QED BY <3>1, <3>2
  <2> QED BY <2>2 DEF Subscribed
<1> QED BY <1>2, <1>3, <1>4

\* In these steps at most one subscriber gives up.
LEMMA QuietLooking ==
  ASSUME TypeInv, Apart \/ \E w \in Ticks : Polls(w)
  PROVE  Looking' = Looking \/ (UNCHANGED log /\ \E s \in Subscribers : Looking' = Looking \ {s})
<1>w. Subscribers \subseteq Worker /\ Ticks \subseteq Subscribers /\ Subscribers \ Ticks \subseteq {"dry run"}
      /\ "dry run" \in Subscribers
  BY DEF Subscribers, Locked, Worker
<1>1. ASSUME NEW s \in Subscribers, \A v \in Subscribers \ {s} : job'[v] = job[v],
             job'[s].pc \notin LookPc, job[s].pc \in LookPc => UNCHANGED log
      PROVE  Looking' = Looking \/ (UNCHANGED log /\ Looking' = Looking \ {s})
  BY <1>1 DEF Looking, LookPc
<1>2. CASE Apart
  <2>1. CASE job'["dry run"] = job["dry run"]
    BY <1>w, <1>2, <2>1 DEF Apart, Looking
  <2>2. CASE job'["dry run"].pc \notin LookPc /\ UNCHANGED log
    BY <1>w, <1>1, <1>2, <2>2 DEF Apart
  <2> QED BY <1>2, <2>1, <2>2 DEF Apart
<1>3. ASSUME NEW w \in Ticks, Polls(w)
      PROVE  Looking' = Looking \/ (UNCHANGED log /\ Looking' = Looking \ {w})
  BY <1>w, <1>1, <1>3 DEF Polls
<1> QED BY <1>w, <1>2, <1>3

-----------------------------------------------------------------------------
(* The steps that do. *)

\* What else holds when the log is left alone and the cursor is not lost.
LEMMA OtherTicks ==
  ASSUME FeedInv, UNCHANGED log, NEW w \in Worker, NEW r, Become(w, r),
         heard \subseteq heard', passed \subseteq passed', cursor # Unset => cursor' # Unset,
         w \in Ticks =>
           /\ Paged(w)'
           /\ r.pc \in Polling /\ ~r.failed => cursor' # Unset
           /\ r.pc = "page" => ~r.failed
  PROVE  Subscribed' /\ \A v \in Ticks : Paged(v)'
<1>1. Ticks \subseteq Worker
  BY DEF Worker, Locked
<1>2. job'[w] = r /\ \A v \in Ticks \ {w} : job'[v] = job[v]
  BY <1>1, OneMoves DEF FeedInv, TypeInv
<1>3. Grown
  BY DEF Grown
<1>4. \A v \in Ticks : Paged(v)'
  BY <1>2, <1>3, StaysPaged DEF FeedInv
<1>5. Subscribed'
  BY <1>2 DEF FeedInv, Subscribed
<1> QED BY <1>4, <1>5

\* Who is not looking and does not begin to leaves the subscribers as they are.
LEMMA LookingKept ==
  ASSUME JobsFit, NEW w \in Worker, NEW r, Become(w, r),
         job[w].pc \in LookPc <=> r.pc \in LookPc
  PROVE  UNCHANGED Looking
<1>1. Subscribers \subseteq Worker
  BY DEF Subscribers, Locked, Worker
<1>2. \A v \in Subscribers : job'[v].pc \in LookPc <=> job[v].pc \in LookPc
  BY <1>1, OneMoves
<1> QED BY <1>2 DEF Looking, LookPc

\* Whatever a subscriber does: it looks, gives up, writes the cursor or none of
\* these; a tick that goes on to announce has a cursor.
LEMMA SubscribersStep ==
  ASSUME FeedInv, NEW w \in Subscribers, SubscriberStep(w)
  PROVE  /\ UNCHANGED log
         /\ \/ Box!Look(w) \/ Box!GiveUp(w) \/ Box!Subscribe(w)
            \/ UNCHANGED <<cursor, heard, passed, Looking>>
         /\ Behind' /\ Subscribed' /\ \A v \in Ticks : Paged(v)'
<1> USE DEF At
<1>w. w \in Worker
  BY DEF Subscribers, Worker, Locked
<1>f. job[w] \in Job /\ Failed(w) \in Job /\ Failed(w).failed /\ JobsFit /\ TypeOK
  BY <1>w, HandTyped, FailedFits DEF FeedInv, TypeInv, Failed, Job
<1>t. /\ cursor \in Int /\ Len(log) \in Nat /\ DOMAIN log = 1 .. Len(log)
      /\ job[w].base \in {0} \cup DOMAIN log
  BY <1>w, <1>f, LogNumbers DEF FeedInv, TypeInv, TypeOK, PagesThere, Unset
<1>b. job[w].base \in 0 .. Len(log) /\ job[w].base # Unset
  BY <1>t, SomeOrNone DEF Unset
<1>p. {"baseline", "list"} \subseteq Pc
  BY DEF Pc
<1>1. UNCHANGED <<log, heard>>
  BY DEF SubscriberStep, Ensure, Baseline, Subscribe, EnsureFails, ledgerVars, KeepStore, KeepAround, feedVars
<1>2. \/ UNCHANGED <<cursor, passed>>
      \/ job[w].pc = "subscribe" /\ Subscribe(w)
  BY DEF SubscriberStep, Ensure, Baseline, Subscribe, EnsureFails, KeepAround, feedVars
<1>3. /\ passed \subseteq passed' /\ (cursor # Unset => cursor' # Unset)
      /\ \A j \in Waiting' : j \in Waiting
  BY <1>1, <1>2, <1>b DEF Subscribe, Waiting, Box!Waiting
<1>4. Behind'
  <2>1. CASE UNCHANGED <<cursor, passed>>
    BY <1>3, <2>1 DEF FeedInv, Behind
  <2>2. CASE Subscribe(w)
    <3>1. cursor' = job[w].base /\ passed' = passed \cup (1 .. job[w].base \ heard)
      BY <2>2 DEF Subscribe
    <3>2. ASSUME NEW j \in Waiting' PROVE job[w].base < j
      <4>1. j \in DOMAIN log /\ j \notin 1 .. job[w].base
        BY <1>1, <3>1 DEF Waiting, Box!Waiting
      <4> QED BY <1>t, <1>b, <4>1
    <3> QED BY <3>1, <3>2 DEF Behind
  <2> QED BY <1>2, <2>1, <2>2
<1>5. ASSUME NEW r, Become(w, r), r.pc \notin PageWork,
             w \in Ticks => /\ r.pc \in Polling /\ ~r.failed => cursor' # Unset
                            /\ r.pc = "page" => ~r.failed
      PROVE  Subscribed' /\ \A v \in Ticks : Paged(v)'
  <2>1. job'[w] = r
    BY <1>w, <1>f, <1>5, OneMoves
  <2>2. Paged(w)'
    BY <1>5, <2>1 DEF Paged
  <2> QED BY <1>w, <1>1, <1>3, <1>5, <2>2, OtherTicks
<1>6. ASSUME NEW r \in {job[w], Failed(w)}, Ensured(w, r), r.failed \/ cursor' # Unset
      PROVE  /\ Subscribed' /\ \A v \in Ticks : Paged(v)'
             /\ Looking' = Looking \ {w}
  <2> DEFINE s == IF w \in Ticks THEN [r EXCEPT !.pc = "list", !.base = 0] ELSE Off
  <2>1. /\ w \in Ticks => s.pc = "list" /\ s.failed = r.failed
        /\ w \notin Ticks => s.pc = "off"
    BY <1>f DEF Job, Off
  <2>2. Become(w, s)
    BY <1>6 DEF Ensured
  <2> HIDE DEF s
  <2>3. Subscribed' /\ \A v \in Ticks : Paged(v)'
    BY <1>5, <1>6, <2>1, <2>2 DEF PageWork
  <2>4. job'[w] = s /\ \A v \in Worker \ {w} : job'[v] = job[v]
    BY <1>w, <1>f, <2>2, OneMoves
  <2>5. Looking' = Looking \ {w}
    BY <2>1, <2>4 DEF Looking, Subscribers, Worker, Locked
  <2> QED BY <2>3, <2>5
<1>7. CASE EnsureFails(w)
  <2>1. Ensured(w, Failed(w)) /\ UNCHANGED <<cursor, passed>>
    BY <1>7 DEF EnsureFails, KeepAround, feedVars
  <2>2. /\ Subscribed' /\ \A v \in Ticks : Paged(v)'
        /\ Looking' = Looking \ {w}
    BY <1>f, <1>6, <2>1
  <2> QED BY <1>1, <1>4, <2>1, <2>2 DEF Box!GiveUp
<1>8. CASE Ensure(w)
  <2>1. job[w].pc = "ensure" /\ UNCHANGED <<cursor, passed>>
    BY <1>8 DEF Ensure, KeepAround, feedVars
  <2>2. CASE cursor = Unset
    <3> DEFINE s == [job[w] EXCEPT !.pc = "baseline"]
    <3>1. s.pc = "baseline" /\ Become(w, s)
      BY <1>f, <1>p, <1>8, <2>2 DEF Ensure, Goto, Job
    <3> HIDE DEF s
    <3>2. Subscribed' /\ \A v \in Ticks : Paged(v)'
      BY <1>5, <3>1 DEF PageWork, Polling
    <3>3. job'[w] = s /\ \A v \in Worker \ {w} : job'[v] = job[v]
      BY <1>w, <1>f, <3>1, OneMoves
    <3>4. Looking' = Looking \cup {w}
      BY <3>1, <3>3 DEF Looking, Subscribers, Worker, Locked
    <3> QED BY <1>1, <1>4, <2>1, <2>2, <3>2, <3>4 DEF Box!Look, Box!Unset, Unset
  <2>3. CASE cursor # Unset
    <3>1. Ensured(w, job[w])
      BY <1>8, <2>3 DEF Ensure
    <3>2. /\ Subscribed' /\ \A v \in Ticks : Paged(v)'
          /\ Looking' = Looking \ {w}
      BY <1>6, <2>1, <2>3, <3>1
    <3> QED BY <1>1, <1>4, <2>1, <3>2 DEF Box!GiveUp
  <2> QED BY <2>2, <2>3
<1>9. CASE Baseline(w)
  <2> DEFINE s == [job[w] EXCEPT !.pc = "subscribe", !.base = Len(log)]
  <2>1. s.pc = "subscribe"
    BY <1>f DEF Job
  <2>2. Become(w, s) /\ job[w].pc = "baseline" /\ UNCHANGED <<cursor, passed>>
    BY <1>9 DEF Baseline, KeepAround, feedVars
  <2> HIDE DEF s
  <2>3. Subscribed' /\ \A v \in Ticks : Paged(v)'
    BY <1>5, <2>1, <2>2 DEF PageWork, Polling
  <2>4. UNCHANGED Looking
    BY <1>w, <1>f, <2>1, <2>2, LookingKept DEF LookPc
  <2> QED BY <1>1, <1>4, <2>2, <2>3, <2>4
<1>10. CASE Subscribe(w)
  <2>1. /\ job[w].pc = "subscribe" /\ Ensured(w, job[w])
        /\ cursor' = job[w].base /\ passed' = passed \cup (1 .. job[w].base \ heard)
    BY <1>10 DEF Subscribe
  <2>2. /\ Subscribed' /\ \A v \in Ticks : Paged(v)'
        /\ Looking' = Looking \ {w}
    BY <1>b, <1>6, <2>1
  <2>3. w \in Looking
    BY <2>1 DEF Looking
  <2>4. Box!Subscribe(w)
    BY <1>1, <1>b, <2>1, <2>2, <2>3 DEF Box!Subscribe
  <2> QED BY <1>1, <1>4, <2>2, <2>4
<1> QED BY <1>7, <1>8, <1>9, <1>10 DEF SubscriberStep

LEMMA LoadStep ==
  ASSUME FeedInv, NEW w \in Ticks, LoadPage(w)
  PROVE  /\ UNCHANGED <<log, cursor, heard, passed, Looking>>
         /\ Behind' /\ Subscribed' /\ \A v \in Ticks : Paged(v)'
<1>w. w \in Worker
  BY DEF Worker, Locked
<1>f. job[w] \in Job /\ JobsFit
  BY <1>w, HandTyped DEF FeedInv, TypeInv
<1>1. UNCHANGED <<log, cursor, heard, passed>> /\ job[w].pc = "page"
  BY DEF LoadPage, ledgerVars, KeepAround, feedVars, At
<1>2. Behind'
  BY <1>1 DEF FeedInv, Behind, Waiting, Box!Waiting
<1>3. cursor # Unset
  BY <1>1 DEF FeedInv, Subscribed, Polling
<1>4. PICK ids \in Pages(Fresh) : Become(w, [job[w] EXCEPT
         !.page = [n \in DOMAIN ids |-> [id |-> ids[n], source |-> log[ids[n]].source]],
         !.pc = IF ids = <<>> THEN "close" ELSE "post"])
  BY DEF LoadPage
<1> DEFINE page == [n \in DOMAIN ids |-> [id |-> ids[n], source |-> log[ids[n]].source]]
           pc   == IF ids = <<>> THEN "close" ELSE "post"
           s    == [job[w] EXCEPT !.page = page, !.pc = pc]
<1>5. DOMAIN page = DOMAIN ids /\ \A n \in DOMAIN ids : page[n].id = ids[n]
  OBVIOUS
<1>6. Become(w, s) /\ pc \in {"close", "post"}
  BY <1>4
<1>7. /\ \A i, j \in DOMAIN ids : i < j => ids[i] < ids[j]
      /\ \A e \in Fresh : (\A i \in DOMAIN ids : ids[i] # e) => \A i \in DOMAIN ids : ids[i] < e
      /\ \A n \in DOMAIN ids : ids[n] \in Fresh
  BY PagesTyped DEF Pages, FeedInv, TypeInv
<1>8. \A j \in Waiting : j \in Fresh
  BY DEF FeedInv, Behind, Waiting, Box!Waiting, Fresh
<1>9. \A i \in Fresh : Concerns(log[i])
  BY DEF Fresh
<1> HIDE DEF page, pc
<1>10. s.page = page /\ s.pc = pc /\ s.failed = job[w].failed
  BY <1>f DEF Job
<1> HIDE DEF s
<1>11. job'[w] = s
  BY <1>w, <1>f, <1>6, OneMoves
<1>12. Waiting' = Waiting
  BY <1>1 DEF Waiting, Box!Waiting, Concerns
<1>13. Paged(w)'
  <2>1. \A n \in DOMAIN page : Concerns(log'[page[n].id])
    BY <1>1, <1>5, <1>7, <1>9
  <2>2. \A a, b \in DOMAIN page : a < b => page[a].id < page[b].id
    BY <1>5, <1>7
  <2>3. \A j \in Waiting : (\E n \in DOMAIN page : page[n].id = j) \/ (\A n \in DOMAIN page : page[n].id < j)
    BY <1>5, <1>7, <1>8
  <2>4. job'[w].page = page /\ job'[w].pc # "note"
    BY <1>6, <1>10, <1>11
  <2> QED BY <1>1, <1>3, <1>12, <2>1, <2>2, <2>3, <2>4 DEF Paged
<1>14. s.pc \notin Polling /\ s.pc # "page"
  BY <1>6, <1>10 DEF Polling
<1>15. Subscribed' /\ \A v \in Ticks : Paged(v)'
  BY <1>w, <1>1, <1>6, <1>13, <1>14, OtherTicks
<1>16. UNCHANGED Looking
  BY <1>w, <1>f, <1>1, <1>6, <1>10, LookingKept DEF LookPc
<1> QED BY <1>1, <1>2, <1>15, <1>16

LEMMA IdsTyped ==
  ASSUME NEW p \in Seq([id : Nat, source : {"poll", "reconciled"}])
  PROVE  \A n \in DOMAIN p : p[n].id \in Nat /\ (n = 1 \/ 1 < n)
<1> DEFINE R == [id : Nat, source : {"poll", "reconciled"}]
<1>1. p \in Seq(R) /\ \A e \in R : e.id \in Nat
  OBVIOUS
<1> HIDE DEF R
<1>2. DOMAIN p = 1 .. Len(p) /\ Len(p) \in Nat /\ \A n \in DOMAIN p : p[n] \in R
  BY <1>1
<1> QED BY <1>1, <1>2

LEMMA PostStep ==
  ASSUME FeedInv, NEW w \in Ticks, Post(w)
  PROVE  /\ (\E i \in DOMAIN log : Box!Hear(i)) \/ UNCHANGED <<log, cursor, heard, passed, Looking>>
         /\ Behind' /\ Subscribed' /\ \A v \in Ticks : Paged(v)'
<1>w. w \in Worker
  BY DEF Worker, Locked
<1>f. job[w] \in Job /\ Fit(w, job[w]) /\ JobsFit
  BY <1>w, HandTyped DEF FeedInv, TypeInv
<1> DEFINE i == InHand(w).id
           p == job[w].page
<1>1. /\ UNCHANGED <<log, cursor, passed>> /\ job[w].pc = "post"
      /\ \/ heard' = heard \cup {i} /\ Goto(w, "note")
         \/ UNCHANGED heard /\ Goto(w, "close")
  BY DEF Post, KeepStore, At
<1>2. job[w].pc \in PageWork /\ p # <<>>
  BY <1>1, <1>f DEF PageWork, Fit
<1>3. /\ 1 \in DOMAIN p /\ i = p[1].id /\ i \in DOMAIN log
      /\ p \in Seq([id : Nat, source : {"poll", "reconciled"}])
  BY <1>w, <1>2, PageTyped DEF FeedInv
<1>4. cursor # Unset /\ Concerns(log[i]) /\ \A j \in Waiting : i <= j
  <2>1. Paged(w)
    BY DEF FeedInv
  <2>2. /\ cursor # Unset /\ Concerns(log[i])
        /\ \A a, b \in DOMAIN p : a < b => p[a].id < p[b].id
        /\ \A j \in Waiting : (\E n \in DOMAIN p : p[n].id = j) \/ (\A n \in DOMAIN p : p[n].id < j)
    BY <1>2, <1>3, <2>1 DEF Paged
  <2>3. \A n \in DOMAIN p : p[n].id \in Nat /\ (n = 1 \/ 1 < n)
    BY <1>3, IdsTyped
  <2>4. ASSUME NEW j \in Waiting PROVE i <= j
    <3>1. CASE \E n \in DOMAIN p : p[n].id = j
      <4>1. PICK n \in DOMAIN p : p[n].id = j
        BY <3>1
      <4>2. n = 1 \/ p[1].id < p[n].id
        BY <1>3, <2>2, <2>3
      <4> QED BY <1>3, <2>3, <4>1, <4>2
    <3>2. CASE \A n \in DOMAIN p : p[n].id < j
      <4>1. j \in Nat
        BY DEF Waiting, Box!Waiting, FeedInv, TypeInv, TypeOK
      <4> QED BY <1>3, <2>3, <3>2, <4>1
    <3> QED BY <2>2, <3>1, <3>2
  <2> QED BY <2>2, <2>4
<1>5. heard \subseteq heard'
  BY <1>1
<1>6. Behind'
  BY <1>1, <1>5 DEF FeedInv, Behind, Waiting, Box!Waiting, Concerns
<1>8. PICK pc \in {"note", "close"} : Goto(w, pc) /\ (pc = "note" => i \in heard')
  BY <1>1
<1> DEFINE s == [job[w] EXCEPT !.pc = pc]
<1>9. s.pc = pc /\ s.page = p /\ Become(w, s)
  BY <1>f, <1>8 DEF Job, Goto
<1> HIDE DEF s
<1>10. job'[w] = s
  BY <1>w, <1>f, <1>9, OneMoves
<1>7. UNCHANGED Looking
  BY <1>w, <1>f, <1>1, <1>8, <1>9, LookingKept DEF LookPc
<1>11. Paged(w)'
  <2>1. Paged(w)
    BY DEF FeedInv
  <2>2. \A j \in Waiting' : j \in Waiting
    BY <1>1, <1>5 DEF Waiting, Box!Waiting, Concerns
  <2>3. job'[w].page = p /\ job'[w].pc = pc
    BY <1>9, <1>10
  <2>4. pc = "note" => p[1].id \in heard'
    BY <1>3, <1>8
  <2> HIDE DEF p, i
  <2>5. /\ cursor' # Unset
        /\ \A a, b \in DOMAIN p : a < b => p[a].id < p[b].id
        /\ \A n \in DOMAIN p : Concerns(log'[p[n].id])
        /\ \A j \in Waiting' : (\E n \in DOMAIN p : p[n].id = j) \/ (\A n \in DOMAIN p : p[n].id < j)
    BY <1>1, <1>2, <1>4, <2>1, <2>2 DEF Paged, p
  <2> QED BY <2>3, <2>4, <2>5 DEF Paged
<1>12. s.pc \notin Polling /\ s.pc # "page"
  BY <1>8, <1>9 DEF Polling
<1>13. Subscribed' /\ \A v \in Ticks : Paged(v)'
  BY <1>w, <1>1, <1>5, <1>9, <1>11, <1>12, OtherTicks
<1>14. (\E n \in DOMAIN log : Box!Hear(n)) \/ UNCHANGED <<log, cursor, heard, passed, Looking>>
  <2>1. CASE heard' = heard \cup {i}
    <3>1. Box!Hear(i)
      BY <1>1, <1>3, <1>4, <1>7, <2>1 DEF Box!Hear, Box!Unset, Unset, Waiting
    <3> QED BY <1>3, <3>1
  <2>2. CASE UNCHANGED heard
    BY <1>1, <1>7, <2>2
  <2> QED BY <1>1, <2>1, <2>2
<1> QED BY <1>6, <1>13, <1>14

LEMMA NoteStep ==
  ASSUME FeedInv, NEW w \in Ticks, NoteEvent(w)
  PROVE  /\ (\E i \in DOMAIN log : Box!Note(i)) \/ UNCHANGED <<log, cursor, heard, passed, Looking>>
         /\ Behind' /\ Subscribed' /\ \A v \in Ticks : Paged(v)'
<1>w. w \in Worker
  BY DEF Worker, Locked
<1>f. job[w] \in Job /\ Fit(w, job[w]) /\ JobsFit
  BY <1>w, HandTyped DEF FeedInv, TypeInv
<1> DEFINE i    == InHand(w).id
           p    == job[w].page
           rest == Tail(p)
           pc   == IF Len(p) = 1 THEN "close" ELSE "post"
           s    == [job[w] EXCEPT !.page = rest, !.pc = pc]
<1>1. /\ UNCHANGED <<log, heard, passed>> /\ job[w].pc = "note"
      /\ \/ cursor' = i /\ Become(w, s)
         \/ UNCHANGED cursor /\ Goto(w, "close")
  BY DEF NoteEvent, KeepStore, At
<1>2. job[w].pc \in PageWork /\ p # <<>>
  BY <1>1, <1>f DEF PageWork, Fit
<1>3. /\ 1 \in DOMAIN p /\ i = p[1].id /\ i \in DOMAIN log /\ i \in 1 .. Len(log)
      /\ p \in Seq([id : Nat, source : {"poll", "reconciled"}])
      /\ rest \in Seq([id : Nat, source : {"poll", "reconciled"}])
      /\ \A n \in DOMAIN rest : n + 1 \in DOMAIN p /\ rest[n] = p[n + 1]
  BY <1>w, <1>2, PageTyped DEF FeedInv
<1>4. \A n \in DOMAIN p : p[n].id \in Nat /\ (n = 1 \/ 1 < n)
  BY <1>3, IdsTyped
<1>5. /\ cursor # Unset /\ p[1].id \in heard
      /\ \A a, b \in DOMAIN p : a < b => p[a].id < p[b].id
      /\ \A n \in DOMAIN p : Concerns(log[p[n].id])
      /\ \A j \in Waiting : (\E n \in DOMAIN p : p[n].id = j) \/ (\A n \in DOMAIN p : p[n].id < j)
  <2>1. Paged(w)
    BY DEF FeedInv
  <2> QED BY <1>1, <1>2, <2>1 DEF Paged
<1>6. \A j \in Waiting : i < j /\ j \notin heard
  <2>1. ASSUME NEW j \in Waiting PROVE i < j /\ j \notin heard
    <3>1. j \notin heard
      BY DEF Waiting, Box!Waiting
    <3>2. CASE \E n \in DOMAIN p : p[n].id = j
      <4>1. PICK n \in DOMAIN p : p[n].id = j
        BY <3>2
      <4>2. 1 < n
        BY <1>4, <1>5, <3>1, <4>1
      <4> QED BY <1>3, <1>5, <3>1, <4>1, <4>2
    <3>3. CASE \A n \in DOMAIN p : p[n].id < j
      BY <1>3, <3>1, <3>3
    <3> QED BY <1>5, <3>2, <3>3
  <2> QED BY <2>1
<1>13. UNCHANGED Looking
  <2> DEFINE t == [job[w] EXCEPT !.pc = "close"]
  <2>1. Become(w, s) \/ Become(w, t)
    BY <1>1 DEF Goto
  <2>2. s.pc \in {"close", "post"} /\ t.pc = "close"
    BY <1>f DEF Job
  <2> HIDE DEF s, t
  <2> QED BY <1>w, <1>f, <1>1, <2>1, <2>2, LookingKept DEF LookPc
<1>7. (\E n \in DOMAIN log : Box!Note(n)) \/ UNCHANGED <<log, cursor, heard, passed, Looking>>
  <2>1. CASE cursor' = i
    <3>1. Box!Note(i)
      BY <1>1, <1>3, <1>5, <1>6, <1>13, <2>1 DEF Box!Note, Waiting
    <3> QED BY <1>3, <3>1
  <2> QED BY <1>1, <1>13, <2>1
<1>8. Waiting' = Waiting
  BY <1>1 DEF Waiting, Box!Waiting, Concerns
<1>9. Behind'
  BY <1>1, <1>6, <1>8 DEF FeedInv, Behind
<1>10. cursor' # Unset
  BY <1>1, <1>3, <1>5 DEF Unset
<1>11. CASE Goto(w, "close")
  <2> DEFINE t == [job[w] EXCEPT !.pc = "close"]
  <2>1. t.pc = "close" /\ Become(w, t)
    BY <1>f, <1>11 DEF Job, Goto
  <2> HIDE DEF t
  <2>2. job'[w] = t
    BY <1>w, <1>f, <2>1, OneMoves
  <2>3. Paged(w)'
    BY <2>1, <2>2 DEF Paged, PageWork
  <2>4. t.pc \notin Polling /\ t.pc # "page"
    BY <2>1 DEF Polling
  <2>5. Subscribed' /\ \A v \in Ticks : Paged(v)'
    BY <1>w, <1>1, <1>10, <2>1, <2>3, <2>4, OtherTicks
  <2> QED BY <1>7, <1>9, <2>5
<1>12. CASE Become(w, s)
  <2>1. pc \in {"close", "post"}
    OBVIOUS
  <2> HIDE DEF rest, pc
  <2>2. s.page = rest /\ s.pc = pc
    BY <1>f DEF Job
  <2>3. Become(w, s)
    BY <1>12
  <2> HIDE DEF s
  <2>4. job'[w] = s
    BY <1>w, <1>f, <2>3, OneMoves
  <2>5. Paged(w)'
    <3>1. \A n \in DOMAIN rest : n \in Nat
      BY <1>3
    <3>2. \A a, b \in DOMAIN rest : a < b => rest[a].id < rest[b].id
      <4> SUFFICES ASSUME NEW a \in DOMAIN rest, NEW b \in DOMAIN rest, a < b
                   PROVE  rest[a].id < rest[b].id
        OBVIOUS
      <4>1. a + 1 < b + 1
        BY <3>1
      <4>2. /\ a + 1 \in DOMAIN p /\ rest[a] = p[a + 1]
            /\ b + 1 \in DOMAIN p /\ rest[b] = p[b + 1]
        BY <1>3
      <4>3. p[a + 1].id < p[b + 1].id
        BY <1>5, <4>1, <4>2
      <4> QED BY <4>2, <4>3
    <3>3. \A n \in DOMAIN rest : Concerns(log'[rest[n].id])
      BY <1>1, <1>3, <1>5
    <3>4. ASSUME NEW j \in Waiting
          PROVE  (\E n \in DOMAIN rest : rest[n].id = j) \/ (\A n \in DOMAIN rest : rest[n].id < j)
      <4>1. CASE \A n \in DOMAIN p : p[n].id < j
        BY <1>3, <4>1
      <4>2. CASE \E n \in DOMAIN p : p[n].id = j
        <5>1. PICK n \in DOMAIN p : p[n].id = j
          BY <4>2
        <5>2. n # 1
          BY <1>5, <1>6, <5>1
        <5>3. n - 1 \in DOMAIN rest /\ rest[n - 1] = p[n]
          <6>1. /\ DOMAIN p = 1 .. Len(p) /\ Len(p) \in Nat
                /\ Len(rest) = Len(p) - 1 /\ DOMAIN rest = 1 .. Len(rest)
            BY <1>2, <1>3, TailOf DEF rest
          <6>2. n - 1 \in DOMAIN rest /\ (n - 1) + 1 = n
            BY <5>2, <6>1
          <6> QED BY <1>3, <6>2
        <5> QED BY <5>1, <5>3
      <4> QED BY <1>5, <4>1, <4>2
    <3>5. job'[w].page = rest /\ job'[w].pc # "note"
      BY <2>1, <2>2, <2>4
    <3> QED BY <1>8, <1>10, <3>2, <3>3, <3>4, <3>5 DEF Paged
  <2>6. s.pc \notin Polling /\ s.pc # "page"
    BY <2>1, <2>2 DEF Polling
  <2>7. Subscribed' /\ \A v \in Ticks : Paged(v)'
    BY <1>w, <1>1, <1>10, <2>3, <2>5, <2>6, OtherTicks
  <2> QED BY <1>7, <1>9, <2>7
<1> QED BY <1>1, <1>11, <1>12

-----------------------------------------------------------------------------
LEMMA FeedStep ==
  ASSUME FeedInv, [Next]_vars
  PROVE  /\ FeedInv'
         /\ [Box!BoxNext]_(Box!boxVars)
<1> USE DEF Box!boxVars
<1>1. TypeInv' /\ TypesAgree'
  BY NextTyped, AgreeStep DEF FeedInv
<1>2. /\ Grown
      /\ \/ UNCHANGED log
         \/ Len(log') = Len(log) + 1 /\ SubSeq(log', 1, Len(log)) = log
         \/ Len(log') = Len(log)
  BY LogSteps DEF FeedInv
<1>3. CASE Apart \/ \E w \in Ticks : Polls(w)
  <2>1. Behind' /\ Subscribed' /\ \A w \in Ticks : Paged(w)'
    BY <1>2, <1>3, QuietStep
  <2>2. UNCHANGED <<cursor, heard, passed>>
    BY <1>3 DEF Apart, Polls
  <2>3. Looking' = Looking \/ (UNCHANGED log /\ \E v \in Subscribers : Looking' = Looking \ {v})
    BY <1>3, QuietLooking DEF FeedInv
  <2> QED BY <1>1, <1>2, <2>1, <2>2, <2>3
      DEF FeedInv, Box!BoxNext, Box!Write, Box!Label, Box!GiveUp
<1>4. ASSUME NEW w \in Ticks, LoadPage(w) \/ Post(w) \/ NoteEvent(w)
      PROVE  /\ FeedInv'
             /\ [Box!BoxNext]_(Box!boxVars)
  BY <1>1, <1>4, LoadStep, PostStep, NoteStep DEF FeedInv, Box!BoxNext
<1>5. ASSUME NEW w \in Subscribers, SubscriberStep(w)
      PROVE  /\ FeedInv'
             /\ [Box!BoxNext]_(Box!boxVars)
  BY <1>1, <1>5, SubscribersStep DEF FeedInv, Box!BoxNext
<1>6. \/ Apart \/ \E w \in Ticks : Polls(w)
      \/ \E w \in Ticks : LoadPage(w) \/ Post(w) \/ NoteEvent(w)
      \/ \E w \in Subscribers : SubscriberStep(w)
  <2>1. ASSUME NEW w \in Worker, Die(w) PROVE Apart \/ \E v \in Ticks : Polls(v)
    BY <2>1, PollSteps, OtherSteps DEF Worker, Locked, FeedInv
  <2>2. ASSUME NEW w \in Ticks, TickStart(w) \/ TickStep(w)
        PROVE  Polls(w) \/ LoadPage(w) \/ Post(w) \/ NoteEvent(w)
    BY <2>2, PollSteps DEF TickStep, FeedInv
  <2>3. CASE \/ Outside \/ Sever \/ AuditStart \/ AuditStep \/ ReviewStart \/ DryStart
             \/ \E w \in {"audit", "review"} : ReaderStep(w)
             \/ UNCHANGED vars
    BY <2>3, OtherSteps DEF FeedInv
  <2> QED BY <2>1, <2>2, <2>3 DEF Next
<1> QED BY <1>3, <1>4, <1>5, <1>6

LEMMA InitFeed == Init => FeedInv /\ Box!BoxInit
<1> SUFFICES ASSUME Init PROVE FeedInv /\ Box!BoxInit
  OBVIOUS
<1>1. /\ log = <<>> /\ DOMAIN log = {} /\ cursor = Unset /\ heard = {} /\ passed = {}
      /\ \A w \in Worker : job[w].pc = "off"
  BY DEF Init, LedgerInit, Off
<1>2. TypeInv /\ TypesAgree
  BY InitRecords DEF RecordInv
<1>3. Ticks \subseteq Worker /\ Subscribers \subseteq Worker
  BY DEF Subscribers, Worker, Locked
<1>4. Looking = {}
  BY <1>1, <1>3 DEF Looking
<1> QED BY <1>1, <1>2, <1>3, <1>4 DEF FeedInv, Behind, Subscribed, Paged, Waiting, Box!Waiting, Polling,
           PageWork, Box!BoxInit, Box!Unset, Unset

\* Whoever writes events and whoever announces them, with ticks that die,
\* refusals, cursors that cannot be saved, a lock that may be lost and dry runs
\* that have none: no event falls out and none is heard of before an earlier
\* one, but those a subscriber passes over that found no cursor.
THEOREM InboxIsOutbox == Spec => OutboxSpec
<1>1. FeedInv /\ [Next]_vars => FeedInv' /\ [Box!BoxNext]_(Box!boxVars)
  BY FeedStep
<1> QED BY <1>1, InitFeed, PTL DEF Spec, OutboxSpec, Box!BoxSpec

-----------------------------------------------------------------------------
(* What is said on the channel.  While the lock is not lost, one worker is  *)
(* at work at a time.                                                       *)

\* Between the event of a message and its label.
Halves == {"keep", "heed", "mark"}

\* The label an event ought to have.
Fits(source, e) == source = IF e.by = "tick" THEN "poll" ELSE "reconciled"

\* Messages about which the database said nothing, or something wrong.
Amiss == botched \cup unasked

\* A message that reconciliation is about to handle has no event.
FreshHand == job["audit"].pc = "handle" => Unrecorded(Hand("audit"))

\* The event of the message it is handling is its own.
OwnHand ==
  job["audit"].pc \in Halves =>
    \/ Hand("audit") \in Amiss
    \/ \A i \in DOMAIN log :
         log[i].msg = Hand("audit") => log[i].by = "audit" /\ log[i].type = TypeRead("audit")

LogLabels ==
  \A i \in DOMAIN log : log[i].type \in InboundTypes =>
    \/ Fits(log[i].source, log[i])
    \/ log[i].msg \in Amiss
    \/ job["audit"].pc \in Halves /\ log[i].msg = Hand("audit")

PageLabels ==
  \A w \in Ticks : job[w].pc \in PageWork =>
    \A n \in DOMAIN job[w].page :
      LET p == job[w].page[n] IN Fits(p.source, log[p.id]) \/ log[p.id].msg \in Amiss

Said == [id : Nat, source : {"poll", "reconciled"}]

PostsTyped ==
  posts \in Seq(Said) /\ \A n \in DOMAIN posts : posts[n].id \in DOMAIN log /\ posts[n].id \in heard

\* What was said is not on a page again: the cursor is past it, or a tick is
\* about to move it there, or it is known that it is not.
ToldOf ==
  \A n \in DOMAIN posts :
    \/ posts[n].id \in unnoted
    \/ posts[n].id <= cursor
    \/ \E w \in Ticks : job[w].pc = "note" /\ InHand(w).id = posts[n].id

\* Wherever a dry run puts the cursor meanwhile, what a tick is announcing
\* comes after what was said.
NotYet ==
  \A w \in Ticks : job[w].pc \in PageWork =>
    \A n \in DOMAIN posts :
      \/ posts[n].id \in unnoted
      \/ posts[n].id < InHand(w).id
      \/ job[w].pc = "note" /\ InHand(w).id = posts[n].id

SaidOnce ==
  \A i, j \in DOMAIN posts : posts[i].id = posts[j].id /\ i # j => posts[i].id \in unnoted

SaidRight ==
  \A n \in DOMAIN posts :
    Fits(posts[n].source, log[posts[n].id]) \/ log[posts[n].id].msg \in Amiss

AuditInv == FreshHand /\ OwnHand /\ LogLabels
SayInv   == PageLabels /\ ToldOf /\ NotYet /\ SaidOnce /\ SaidRight

ChannelInv ==
  /\ RecordInv /\ FeedInv /\ PostsTyped
  /\ ~severed => AuditInv /\ SayInv

-----------------------------------------------------------------------------
(* Whose turn it is. *)

AuditActs   == AuditStart \/ AuditStep \/ ReaderStep("audit") \/ Die("audit")
TickActs(w) == TickStart(w) \/ TickStep(w) \/ Die(w)

LEMMA Turns ==
  ASSUME TypeInv, Alone, ~severed, [Next]_vars, ~severed'
  PROVE  \/ /\ AuditActs
            /\ \A w \in Ticks : job[w].pc = "off" /\ job'[w] = job[w]
         \/ \E w \in Ticks :
              /\ TickActs(w)
              /\ job["audit"].pc = "off" /\ job'["audit"] = job["audit"]
              /\ \A v \in Ticks \ {w} : job[v].pc = "off" /\ job'[v] = job[v]
         \/ \E w \in Subscribers : SubscriberStep(w)
         \/ /\ \A w \in Locked : job'[w] = job[w]
            /\ UNCHANGED <<log, posts, cursor>> /\ unnoted \subseteq unnoted'
<1>w. /\ Ticks \subseteq Locked /\ "audit" \in Locked /\ Locked \subseteq Worker
      /\ "audit" \notin Ticks /\ \A v \in {"review", "dry run"} : v \notin Locked /\ v \in Worker
      /\ Nobody \notin Locked /\ Locked = Ticks \cup {"audit"}
      /\ Worker = Locked \cup {"review", "dry run"}
  BY DEF Worker, Locked, Ticks, Nobody
<1>a. \A w \in Locked : job[w].pc # "off" => holder = w
  BY DEF Alone
<1>m. ASSUME NEW w \in Worker, NEW r, Become(w, r)
      PROVE  \A v \in Worker \ {w} : job'[v] = job[v]
  BY <1>m, OneMoves DEF TypeInv
<1>1. CASE AuditActs
  <2>1. holder = Nobody \/ job["audit"].pc # "off"
    BY <1>1 DEF AuditActs, AuditStart, Acquire, AuditStep, Discover, Apply, ApplyFails, Handle, Check,
       Record, Store, Stop, Mark, Copy, Echo, ReaderStep, Verify, ScanFails, Find, Die, At
  <2>2. \E r : Become("audit", r)
    BY <1>1, HandsBack DEF AuditActs, AuditStart, AuditStep, Discover, Found, Apply, ApplyFails, Handle, Check,
       Record, Store, Stop, Mark, Copy, Echo, ReaderStep, Verify, ScanFails, Find, Die, Goto
  <2>3. \A v \in Worker \ {"audit"} : job'[v] = job[v]
    BY <1>w, <1>m, <2>2
  <2>4. \A v \in Ticks : job[v].pc = "off"
    BY <1>w, <1>a, <2>1
  <2>5. \A v \in Ticks : job'[v] = job[v]
    BY <1>w, <2>3
  <2> QED BY <1>1, <2>4, <2>5
<1>2. ASSUME NEW w \in Ticks, TickActs(w)
      PROVE  /\ job["audit"].pc = "off" /\ job'["audit"] = job["audit"]
             /\ \A v \in Ticks \ {w} : job[v].pc = "off" /\ job'[v] = job[v]
  <2>1. holder = Nobody \/ job[w].pc # "off"
    BY <1>2 DEF TickActs, TickStart, Acquire, TickStep, List, BreakOff, Advance, LoadPage, Post,
       NoteEvent, TickClose, Handle, Check, Record, Store, Stop, Die, At
  <2>2. \E r : Become(w, r)
    BY <1>2, HandsBack DEF TickActs, TickStart, TickStep, List, Poll, BreakOff, Advance, LoadPage, Post,
       NoteEvent, TickClose, Handle, Check, Record, Store, Stop, Die, Goto
  <2>3. w \in Locked /\ \A v \in Worker \ {w} : job'[v] = job[v]
    BY <1>w, <1>m, <2>2
  <2>4. \A v \in Locked \ {w} : job[v].pc = "off"
    BY <1>w, <1>a, <2>1, <2>3
  <2> QED BY <1>w, <2>3, <2>4
<1>3. CASE Outside \/ Sever \/ UNCHANGED vars
  <2>1. \A m \in Msg : \A type : Import(m, type) => UNCHANGED log
    BY DEF Import
  <2> QED BY <1>3, <2>1 DEF Outside, Sever, KeepAround, KeepStore, feedVars, Arrive, Show, MoveOut,
             Importers, Refresh, Backfill, Tock, vars, ledgerVars
<1>4. ASSUME NEW v \in {"review", "dry run"}, NEW r, Become(v, r)
      PROVE  \A w \in Locked : job'[w] = job[w]
  BY <1>w, <1>m, <1>4
<1>5. CASE ReviewStart \/ ReaderStep("review") \/ Die("review") \/ DryStart \/ Die("dry run")
  <2>1. \E v \in {"review", "dry run"} : \E r : Become(v, r)
    BY <1>5 DEF ReviewStart, ReaderStep, Verify, ScanFails, Find, Die, DryStart
  <2>2. UNCHANGED <<log, posts, cursor>>
    BY <1>5 DEF ReviewStart, ReaderStep, Verify, ScanFails, Find, Die, DryStart, KeepStore, KeepAround,
       feedVars, ledgerVars
  <2>3. unnoted \subseteq unnoted'
    BY <1>5 DEF ReviewStart, ReaderStep, Verify, ScanFails, Find, Die, DryStart, KeepAround, feedVars
  <2> QED BY <1>4, <2>1, <2>2, <2>3
<1> QED BY <1>w, <1>1, <1>2, <1>3, <1>5 DEF Next, AuditActs, TickActs

\* Nothing is forgotten of what went wrong.
LEMMA BotchedGrows ==
  ASSUME [Next]_vars
  PROVE  botched \subseteq botched' /\ Amiss \subseteq Amiss'
<1> SUFFICES botched \subseteq botched'
  BY Unforgotten DEF Amiss
<1>1. CASE Outside \/ Sever \/ UNCHANGED vars
  <2>1. \A m \in Msg : \A type : Import(m, type) => UNCHANGED botched
    BY DEF Import
  <2> QED BY <1>1, <2>1 DEF Outside, Sever, Arrive, Show, MoveOut, Importers, Refresh,
             Backfill, Tock, vars, ledgerVars
<1>2. ASSUME NEW w, Handle(w) PROVE botched \subseteq botched'
  BY <1>2 DEF Handle, Check, Record, Store, Stop, Holds, Fails, Forgets, ledgerVars
<1>3. ASSUME NEW w \in Ticks, TickStart(w) \/ TickStep(w) PROVE botched \subseteq botched'
  BY <1>2, <1>3 DEF TickStart, TickStep, List, BreakOff, Advance, LoadPage, Post, NoteEvent,
     TickClose, ledgerVars
<1>4. CASE AuditStart \/ AuditStep \/ ReviewStart \/ \E w \in {"audit", "review"} : ReaderStep(w)
  BY <1>2, <1>4 DEF AuditStart, AuditStep, ReviewStart, ReaderStep, Verify, ScanFails, Find, Discover,
     Apply, ApplyFails, Mark, Copy, Echo, Holds, Fails, Forgets, ledgerVars
<1>5. ASSUME NEW w, Die(w) \/ SubscriberStep(w) \/ DryStart PROVE botched \subseteq botched'
  BY <1>5 DEF Die, SubscriberStep, Ensure, Baseline, Subscribe, EnsureFails, DryStart, ledgerVars
<1> QED BY <1>1, <1>3, <1>4, <1>5 DEF Next

LEMMA Inserted ==
  ASSUME TypeOK, NEW m \in Msg, NEW type \in InboundTypes \cup {"manual_reply"},
         NEW by \in {"tick", "audit"}, Insert(m, type, by)
  PROVE  LET new == Len(log) + 1 IN
         /\ DOMAIN log' = DOMAIN log \cup {new} /\ new \notin DOMAIN log
         /\ \A i \in DOMAIN log : log'[i] = log[i]
         /\ log'[new].msg = m /\ log'[new].type = type
         /\ log'[new].source = "poll" /\ log'[new].by = by
<1> DEFINE e == [msg |-> m, type |-> type, source |-> "poll", by |-> by]
<1>1. e \in Entry /\ log \in Seq(Entry) /\ log' = Append(log, e)
  BY DEF Entry, TypeOK, Insert
<1>2. e.msg = m /\ e.type = type /\ e.source = "poll" /\ e.by = by
  OBVIOUS
<1> HIDE DEF e
<1>3. /\ DOMAIN log' = DOMAIN log \cup {Len(log) + 1} /\ Len(log) + 1 \notin DOMAIN log
      /\ \A i \in DOMAIN log : log'[i] = log[i]
      /\ log'[Len(log) + 1] = e
  BY <1>1
<1> QED BY <1>2, <1>3

LEMMA Labels ==
  ASSUME TypeOK, NEW m, NEW type, log' = Relabelled(m, type)
  PROVE  /\ DOMAIN log' = DOMAIN log
         /\ \A i \in DOMAIN log :
              /\ log'[i].msg = log[i].msg /\ log'[i].type = log[i].type /\ log'[i].by = log[i].by
              /\ log[i].msg = m /\ log[i].type = type => log'[i].source = "reconciled"
              /\ ~(log[i].msg = m /\ log[i].type = type) => log'[i] = log[i]
<1>1. DOMAIN log' = DOMAIN log
  BY RelabelledTyped
<1>2. ASSUME NEW e \in Entry
      PROVE  LET f == [e EXCEPT !.source = "reconciled"] IN
               f.msg = e.msg /\ f.type = e.type /\ f.by = e.by /\ f.source = "reconciled"
  BY DEF Entry
<1>3. \A i \in DOMAIN log : log[i] \in Entry
  BY DEF TypeOK
<1>4. \A i \in DOMAIN log :
        log'[i] = IF log[i].msg = m /\ log[i].type = type
                    THEN [log[i] EXCEPT !.source = "reconciled"] ELSE log[i]
  BY DEF Relabelled
<1>5. ASSUME NEW i \in DOMAIN log
      PROVE  /\ log'[i].msg = log[i].msg /\ log'[i].type = log[i].type /\ log'[i].by = log[i].by
             /\ log[i].msg = m /\ log[i].type = type => log'[i].source = "reconciled"
             /\ ~(log[i].msg = m /\ log[i].type = type) => log'[i] = log[i]
  <2>1. log[i] \in Entry
    BY <1>3
  <2>2. CASE log[i].msg = m /\ log[i].type = type
    <3>1. log'[i] = [log[i] EXCEPT !.source = "reconciled"]
      BY <1>4, <2>2
    <3> QED BY <1>2, <2>1, <2>2, <3>1
  <2>3. CASE ~(log[i].msg = m /\ log[i].type = type)
    BY <1>4, <2>3
  <2> QED BY <2>2, <2>3
<1> QED BY <1>1, <1>5

\* Where a reconciliation goes on to: nowhere with an event of its own.
LEMMA AuditGoesOn ==
  ASSUME NEW r \in Job
  PROVE  /\ NextAccount("audit", r).pc \in {"scan", "close", "find"}
         /\ NextMessage("audit", r).pc \in {"apply", "scan", "close", "find"}
<1>a. "audit" \notin Ticks
  BY DEF Ticks
<1> DEFINE s == [r EXCEPT !.accts = Tail(@), !.batch = <<>>, !.bare = {}]
<1>1. \A pc \in Pc : [s EXCEPT !.pc = pc].pc = pc
  BY DEF Job
<1>2. [s EXCEPT !.pc = "scan", !.pass = 2, !.accts = Accounts].pc = "scan"
  BY DEF Job
<1> HIDE DEF s
<1>3. Then("audit", s).pc \in {"scan", "close", "find"}
  BY <1>a, <1>1, <1>2 DEF Then, Pc
<1>4. NextAccount("audit", r).pc \in {"scan", "close", "find"}
  BY <1>3 DEF NextAccount, s
<1> DEFINE rest == Tail(r.batch)
           pc == IF rest = <<>> THEN "advance" ELSE IF "audit" \in Ticks THEN "handle" ELSE "apply"
           t  == [r EXCEPT !.batch = rest, !.pc = pc]
<1>5. t.pc = pc
  BY DEF Job
<1>6. rest # <<>> => pc = "apply" /\ NextMessage("audit", r) = t
  BY <1>a DEF NextMessage
<1>7. rest = <<>> => NextMessage("audit", r) = NextAccount("audit", r)
  BY <1>a DEF NextMessage
<1> HIDE DEF t, pc, rest
<1> QED BY <1>4, <1>5, <1>6, <1>7

LEMMA HandKept ==
  ASSUME JobsFit, NEW w \in Worker, NEW pc \in Pc, Goto(w, pc)
  PROVE  job'[w].pc = pc /\ Hand(w)' = Hand(w) /\ TypeRead(w)' = TypeRead(w)
<1>1. job[w] \in Job
  BY HandTyped
<1>2. job'[w] = [job[w] EXCEPT !.pc = pc]
  BY OneMoves DEF Goto
<1>3. job'[w].pc = pc /\ job'[w].batch = job[w].batch /\ job'[w].bare = job[w].bare
  BY <1>1, <1>2 DEF Job
<1> QED BY <1>3 DEF Hand, TypeRead

\* Off a message, or on to one: what the labels say does not change.
LEMMA AwayFromIt ==
  ASSUME TypeInv, AuditInv, Amiss \subseteq Amiss',
         job["audit"].pc \in Halves => Hand("audit") \in Amiss',
         job'["audit"].pc \notin Halves \cup {"handle"},
         \/ UNCHANGED log
         \/ \E m \in Msg : Insert(m, "manual_reply", "audit")
  PROVE  AuditInv'
<1>1. FreshHand' /\ OwnHand'
  BY DEF FreshHand, OwnHand
<1>2. CASE UNCHANGED log
  BY <1>1, <1>2 DEF AuditInv, LogLabels, Fits
<1>3. ASSUME NEW m \in Msg, Insert(m, "manual_reply", "audit") PROVE AuditInv'
  <2>1. /\ DOMAIN log' = DOMAIN log \cup {Len(log) + 1}
        /\ \A i \in DOMAIN log : log'[i] = log[i]
        /\ log'[Len(log) + 1].type = "manual_reply"
    BY <1>3, Inserted DEF TypeInv
  <2>2. LogLabels'
    BY <2>1 DEF AuditInv, LogLabels, Fits, InboundTypes
  <2> QED BY <1>1, <2>2 DEF AuditInv
<1> QED BY <1>2, <1>3

LEMMA AuditLabels ==
  ASSUME RecordInv, ~severed, AuditInv, AuditActs, Amiss \subseteq Amiss'
  PROVE  AuditInv'
<1> USE DEF At
<1> DEFINE w == "audit"
<1>w. w \in Worker /\ w \in Locked /\ w \notin Ticks
  BY DEF Locked, Worker, Ticks
<1>f. job[w] \in Job /\ Failed(w) \in Job /\ JobsFit /\ TypeInv /\ TypeOK
  BY <1>w, HandTyped, FailedFits DEF RecordInv, TypeInv
<1>m. ASSUME NEW r, Become(w, r) PROVE job'[w] = r
  BY <1>w, <1>f, <1>m, OneMoves
<1>o. ASSUME \/ \E r \in Job : Become(w, NextMessage(w, r)) \/ Become(w, NextAccount(w, r))
             \/ Become(w, Off)
      PROVE  job'[w].pc \notin Halves \cup {"handle"}
  <2>1. CASE Become(w, Off)
    BY <1>m, <2>1 DEF Off, Halves
  <2>2. ASSUME NEW r \in Job, Become(w, NextMessage(w, r)) \/ Become(w, NextAccount(w, r))
        PROVE  job'[w].pc \notin Halves \cup {"handle"}
    BY <1>m, <2>2, AuditGoesOn DEF Halves
  <2> QED BY <1>o, <2>1, <2>2
<1>g. \A pc \in {"handle", "record", "keep", "heed", "mark", "copy", "echo"} :
        Goto(w, pc) => job'[w].pc = pc /\ Hand(w)' = Hand(w) /\ TypeRead(w)' = TypeRead(w)
  BY <1>w, <1>f, HandKept DEF Pc
<1>h. job[w].pc \in Handling =>
        Hand(w) \in Msg /\ TypeRead(w) \in InboundTypes
  BY <1>w, <1>f, HandTyped DEF Handling, MsgWork
<1>1. CASE AuditStart \/ Find(w)
  <2>1. job'[w].pc \notin Halves \cup {"handle"}
    <3>1. [Off EXCEPT !.pc = "scan", !.pass = 1, !.accts = Accounts].pc = "scan"
      BY DEF Off
    <3> QED BY <1>o, <1>m, <1>1, <3>1 DEF AuditStart, Find, Halves
  <2>2. UNCHANGED log /\ job[w].pc \notin Halves
    BY <1>1 DEF AuditStart, Find, KeepStore, ledgerVars, Halves
  <2> QED BY <1>f, <2>1, <2>2, AwayFromIt
<1>2. CASE Verify(w) \/ ScanFails(w)
  <2>1. UNCHANGED log /\ job[w].pc \notin Halves
    BY <1>2 DEF Verify, ScanFails, KeepStore, ledgerVars, Halves
  <2>2. \E r \in Job : Become(w, NextAccount(w, r))
    <3>1. CASE ScanFails(w)
      BY <1>f, <3>1 DEF ScanFails, Unlisted
    <3>2. CASE Verify(w)
      <4> DEFINE r == [job[w] EXCEPT
             !.failed = @ \/ Misses(w) # {},
             !.seen = @ \cup {m \in shown : Of[m] = Here(w)}]
      <4>1. (Misses(w) # {}) \in BOOLEAN /\ {m \in shown : Of[m] = Here(w)} \in SUBSET Msg
        BY <1>f DEF TypeOK
      <4>2. r \in Job
        BY <1>f, <4>1 DEF Job
      <4>3. Become(w, NextAccount(w, r))
        BY <3>2 DEF Verify
      <4> QED BY <4>2, <4>3
    <3> QED BY <1>2, <3>1, <3>2
  <2> QED BY <1>f, <1>o, <2>1, <2>2, AwayFromIt
<1>3. CASE Discover
  <2>1. UNCHANGED log /\ job[w].pc \notin Halves
    BY <1>3 DEF Discover, KeepStore, Halves
  <2>2. PICK S, bare, failed : failed \in BOOLEAN /\ Found(w, S, bare, failed)
    BY <1>3 DEF Discover
  <2> DEFINE r == [job[w] EXCEPT !.failed = @ \/ failed]
  <2>3. PICK batch :
          Become(w, IF batch = <<>> THEN NextAccount(w, r)
                    ELSE [r EXCEPT !.batch = batch, !.bare = bare, !.pc = "apply"])
    BY <2>2 DEF Found
  <2>r. r \in Job
    BY <1>f, <2>2 DEF Job
  <2> HIDE DEF r
  <2>4. job'[w].pc \notin Halves \cup {"handle"}
    <3>1. [r EXCEPT !.batch = batch, !.bare = bare, !.pc = "apply"].pc = "apply"
      BY <2>r DEF Job
    <3> QED BY <1>o, <1>m, <2>r, <2>3, <3>1 DEF Halves
  <2> QED BY <1>f, <2>1, <2>4, AwayFromIt
<1>4. CASE ApplyFails
  BY <1>f, <1>o, <1>4, AwayFromIt DEF ApplyFails, KeepStore, Halves
<1>5. CASE Apply
  <2>1. UNCHANGED log /\ job[w].pc \notin Halves
    BY <1>5 DEF Apply, ledgerVars, Halves
  <2>2. CASE Become(w, NextMessage(w, job[w]))
    BY <1>f, <1>o, <2>1, <2>2, AwayFromIt
  <2>3. CASE Goto(w, "copy")
    <3>1. job'[w].pc = "copy"
      BY <1>g, <2>3
    <3> QED BY <1>f, <2>1, <3>1, AwayFromIt DEF Halves
  <2>4. CASE (~Known(Hand(w)) \/ Forgets(Hand(w))) /\ Goto(w, "handle")
    <3>1. job'[w].pc = "handle" /\ Hand(w)' = Hand(w)
      BY <1>g, <2>4
    <3>2. Hand(w) \in unasked' \/ \A i \in DOMAIN log : log[i].msg # Hand(w)
      BY <2>4 DEF Known, Forgets
    <3>3. FreshHand'
      BY <2>1, <3>1, <3>2 DEF FreshHand, Unrecorded
    <3>4. OwnHand' /\ LogLabels'
      BY <2>1, <3>1 DEF AuditInv, OwnHand, LogLabels, Halves, Fits
    <3> QED BY <3>3, <3>4 DEF AuditInv
  <2> QED BY <1>5, <2>2, <2>3, <2>4 DEF Apply
<1>6. CASE Check(w)
  <2>1. UNCHANGED log /\ job[w].pc = "handle" /\ job[w].pc \notin Halves
    BY <1>6 DEF Check, ledgerVars, Halves
  <2>2. Recorded(Hand(w)) => Hand(w) \in Amiss'
    BY <2>1 DEF AuditInv, FreshHand, Unrecorded, Recorded, Amiss
  <2>3. CASE Goto(w, "record")
    <3>1. job'[w].pc = "record"
      BY <1>g, <2>3
    <3> QED BY <1>f, <2>1, <3>1, AwayFromIt DEF Halves
  <2>4. CASE HandBack(w) /\ (Recorded(Hand(w)) \/ Fails(Hand(w)))
    <3>1. job'[w].pc = "mark" /\ Hand(w)' = Hand(w)
      BY <1>w, <1>g, <2>4 DEF HandBack, Goto
    <3>2. Hand(w) \in Amiss'
      BY <2>2, <2>4 DEF Amiss, Fails
    <3> QED BY <2>1, <3>1, <3>2 DEF AuditInv, FreshHand, OwnHand, LogLabels, Halves, Fits
  <2> QED BY <1>6, <2>3, <2>4 DEF Check
<1>7. CASE Record(w)
  <2>1. /\ job[w].pc = "record" /\ job[w].pc \notin Halves
        /\ job'[w].pc = "keep" /\ Hand(w)' = Hand(w) /\ TypeRead(w)' = TypeRead(w)
    BY <1>g, <1>7 DEF Record, Halves
  <2>2. Hand(w) \in Amiss' \/ \A i \in DOMAIN log : log[i].msg # Hand(w)
    BY <1>w, <2>1 DEF RecordInv, NoneYet, Unrecorded, Amiss
  <2>3. CASE UNCHANGED log
    BY <2>1, <2>2, <2>3 DEF AuditInv, FreshHand, OwnHand, LogLabels, Halves, Fits
  <2>4. CASE Insert(Hand(w), TypeRead(w), "audit")
    <3>1. Hand(w) \in Msg /\ TypeRead(w) \in InboundTypes
      BY <1>h, <2>1 DEF Handling
    <3>2. /\ DOMAIN log' = DOMAIN log \cup {Len(log) + 1}
          /\ \A i \in DOMAIN log : log'[i] = log[i]
          /\ log'[Len(log) + 1].msg = Hand(w) /\ log'[Len(log) + 1].type = TypeRead(w)
          /\ log'[Len(log) + 1].by = "audit"
      BY <1>f, <2>4, <3>1, Inserted
    <3>3. FreshHand' /\ OwnHand'
      BY <2>1, <2>2, <3>2 DEF FreshHand, OwnHand, Halves
    <3>4. LogLabels'
      BY <2>1, <3>2 DEF AuditInv, LogLabels, Fits, Halves
    <3> QED BY <3>3, <3>4 DEF AuditInv
  <2> QED BY <1>w, <1>7, <2>3, <2>4 DEF Record
<1>8. CASE Store(w) \/ Stop(w)
  <2>1. /\ UNCHANGED log /\ job[w].pc \in Halves /\ job'[w].pc \in Halves
        /\ Hand(w)' = Hand(w) /\ TypeRead(w)' = TypeRead(w)
    BY <1>w, <1>g, <1>8 DEF Store, Stop, HandBack, Goto, Halves
  <2>2. "handle" \notin Halves
    BY DEF Halves
  <2> QED BY <2>1, <2>2 DEF AuditInv, FreshHand, OwnHand, LogLabels, Fits
<1>9. CASE Mark
  <2>1. job[w].pc = "mark" /\ job[w].pc \in Halves
    BY <1>9 DEF Mark, Halves
  <2>2. job'[w].pc \notin Halves \cup {"handle"}
    BY <1>o, <1>f, <1>9 DEF Mark
  <2>3. CASE Fails(Hand(w)) /\ UNCHANGED log
    BY <1>f, <2>2, <2>3, AwayFromIt DEF Fails, Amiss
  <2>4. CASE log' = Relabelled(Hand(w), TypeRead(w))
    <3>1. /\ DOMAIN log' = DOMAIN log
          /\ \A i \in DOMAIN log :
              /\ log'[i].msg = log[i].msg /\ log'[i].type = log[i].type /\ log'[i].by = log[i].by
              /\ log[i].msg = Hand(w) /\ log[i].type = TypeRead(w) => log'[i].source = "reconciled"
              /\ ~(log[i].msg = Hand(w) /\ log[i].type = TypeRead(w)) => log'[i] = log[i]
      BY <1>f, <2>4, Labels
    <3>2. \/ Hand(w) \in Amiss'
          \/ \A i \in DOMAIN log :
               log[i].msg = Hand(w) => log[i].by = "audit" /\ log[i].type = TypeRead(w)
      BY <2>1 DEF AuditInv, OwnHand
    <3>3. ASSUME NEW i \in DOMAIN log, log[i].type \in InboundTypes
          PROVE  Fits(log'[i].source, log'[i]) \/ log'[i].msg \in Amiss'
      <4>1. CASE log[i].msg = Hand(w)
        BY <3>1, <3>2, <4>1 DEF Fits
      <4>2. CASE log[i].msg # Hand(w)
        <5>1. log'[i] = log[i]
          BY <3>1, <4>2
        <5>2. Fits(log[i].source, log[i]) \/ log[i].msg \in Amiss
          BY <3>3, <4>2 DEF AuditInv, LogLabels
        <5> QED BY <5>1, <5>2 DEF Fits
      <4> QED BY <4>1, <4>2
    <3>4. LogLabels'
      BY <3>1, <3>3 DEF LogLabels
    <3> QED BY <2>2, <3>4 DEF AuditInv, FreshHand, OwnHand
  <2> QED BY <1>9, <2>3, <2>4 DEF Mark
<1>10. CASE Copy
  <2>1. UNCHANGED log /\ job[w].pc \notin Halves
    BY <1>10 DEF Copy, Halves
  <2>2. job'[w].pc \notin Halves \cup {"handle"}
    <3>1. CASE Goto(w, "echo")
      BY <1>g, <3>1 DEF Halves
    <3>2. CASE Become(w, NextMessage(w, Failed(w)))
      BY <1>f, <1>o, <3>2
    <3> QED BY <1>10, <3>1, <3>2 DEF Copy
  <2> QED BY <1>f, <2>1, <2>2, AwayFromIt
<1>11. CASE Echo
  <2>1. job[w].pc = "echo" /\ job[w].pc \notin Halves
    BY <1>11 DEF Echo, Halves
  <2>2. Hand(w) \in Msg
    BY <1>w, <1>f, <2>1, HandTyped DEF MsgWork
  <2>3. UNCHANGED log \/ Insert(Hand(w), "manual_reply", "audit")
    BY <1>11 DEF Echo
  <2>4. job'[w].pc \notin Halves \cup {"handle"}
    BY <1>f, <1>o, <1>11 DEF Echo
  <2> QED BY <1>f, <2>1, <2>2, <2>3, <2>4, AwayFromIt
<1>12. CASE Die(w)
  <2>1. UNCHANGED log /\ (job[w].pc \in Halves => Hand(w) \in Amiss')
    BY <1>12 DEF Die, KeepStore, Halfway, Halves, Amiss
  <2> QED BY <1>f, <1>o, <1>12, <2>1, AwayFromIt DEF Die
<1> QED BY <1>1, <1>2, <1>3, <1>4, <1>5, <1>6, <1>7, <1>8, <1>9, <1>10, <1>11, <1>12
  DEF AuditActs, AuditStep, ReaderStep, Handle

LEMMA TickLabels ==
  ASSUME TypeInv, NEW w \in Ticks, TickActs(w), LogLabels, Amiss \subseteq Amiss',
         job["audit"].pc = "off", job'["audit"] = job["audit"]
  PROVE  AuditInv'
<1> USE DEF At
<1>1. FreshHand' /\ OwnHand'
  BY DEF FreshHand, OwnHand, Halves
<1>2. CASE UNCHANGED log
  BY <1>1, <1>2 DEF AuditInv, LogLabels, Fits, Halves
<1>3. CASE Record(w)
  <2>1. Hand(w) \in Msg /\ TypeRead(w) \in InboundTypes
    BY <1>3, HandTyped DEF TypeInv, Record, Worker, Locked, Handling, MsgWork
  <2>2. CASE Insert(Hand(w), TypeRead(w), "tick")
    <3>1. /\ DOMAIN log' = DOMAIN log \cup {Len(log) + 1}
          /\ \A i \in DOMAIN log : log'[i] = log[i]
          /\ log'[Len(log) + 1].source = "poll" /\ log'[Len(log) + 1].by = "tick"
      BY <2>1, <2>2, Inserted DEF TypeInv
    <3>2. LogLabels'
      BY <3>1 DEF LogLabels, Fits, Halves
    <3> QED BY <1>1, <3>2 DEF AuditInv
  <2> QED BY <1>2, <1>3, <2>2 DEF Record
<1>4. UNCHANGED log \/ Record(w)
  BY DEF TickActs, TickStart, TickStep, List, BreakOff, Advance, LoadPage, Post, NoteEvent,
     TickClose, Handle, Check, Store, Stop, Die, KeepStore, ledgerVars
<1> QED BY <1>2, <1>3, <1>4

\* Who found a message stays on its event.
LEMMA FinderKept ==
  ASSUME TypeInv, TypesAgree, [Next]_vars
  PROVE  /\ DOMAIN log \subseteq DOMAIN log'
         /\ \A i \in DOMAIN log : log'[i].msg = log[i].msg /\ log'[i].by = log[i].by
<1>1. CASE UNCHANGED log
  BY <1>1
<1>2. ASSUME NEW w \in Worker, Writes(w)
      PROVE  DOMAIN log \subseteq DOMAIN log' /\ \A i \in DOMAIN log : log'[i] = log[i]
  BY <1>2, LogGrows
<1>3. ASSUME NEW m \in Msg, NEW type \in InboundTypes, log' = Relabelled(m, type)
      PROVE  DOMAIN log' = DOMAIN log
             /\ \A i \in DOMAIN log : log'[i].msg = log[i].msg /\ log'[i].by = log[i].by
  BY <1>3, Labels DEF TypeInv
<1> QED BY <1>1, <1>2, <1>3, EveryStep DEF Moves, Begins, Ends, Works, Misled, Rests

-----------------------------------------------------------------------------
(* What was said, step by step. *)

SoFar ==
  /\ TypeInv /\ PostsTyped /\ SayInv
  /\ DOMAIN log \subseteq DOMAIN log'
  /\ \A i \in DOMAIN log : log'[i].msg = log[i].msg /\ log'[i].by = log[i].by
  /\ Amiss \subseteq Amiss'
  /\ unnoted \subseteq unnoted' /\ heard \subseteq heard'

LEMMA StaysRight ==
  ASSUME SoFar, UNCHANGED posts
  PROVE  PostsTyped' /\ SaidOnce' /\ SaidRight'
<1>1. PostsTyped' /\ SaidOnce'
  BY DEF SoFar, SayInv, PostsTyped, SaidOnce
<1>2. ASSUME NEW n \in DOMAIN posts
      PROVE  Fits(posts[n].source, log'[posts[n].id]) \/ log'[posts[n].id].msg \in Amiss'
  <2>1. posts[n].id \in DOMAIN log
    BY DEF SoFar, PostsTyped
  <2> QED BY <2>1 DEF SoFar, SayInv, SaidRight, Fits
<1> QED BY <1>1, <1>2 DEF SaidRight, Fits

\* A tick that announces nothing.
LEMMA NothingSaid ==
  ASSUME SoFar, NEW w \in Ticks, UNCHANGED posts, cursor' \in Int, cursor <= cursor',
         \A v \in Ticks \ {w} : job[v].pc = "off" /\ job'[v] = job[v],
         job'[w].pc \notin PageWork,
         job[w].pc = "note" => InHand(w).id \in unnoted'
  PROVE  PostsTyped' /\ SayInv'
<1>1. PostsTyped' /\ SaidOnce' /\ SaidRight'
  BY StaysRight
<1>2. \A v \in Ticks : job'[v].pc \notin PageWork
  BY DEF PageWork
<1>3. PageLabels' /\ NotYet'
  BY <1>2 DEF PageLabels, NotYet
<1>5. ASSUME NEW n \in DOMAIN posts
      PROVE  posts[n].id \in unnoted' \/ posts[n].id <= cursor'
  <2>1. posts[n].id \in Nat /\ cursor \in Int
    BY DEF SoFar, PostsTyped, Said, TypeInv, TypeOK, Unset
  <2>2. CASE posts[n].id \in unnoted
    BY <2>2 DEF SoFar
  <2>3. CASE posts[n].id <= cursor
    BY <2>1, <2>3
  <2>4. CASE \E v \in Ticks : job[v].pc = "note" /\ InHand(v).id = posts[n].id
    BY <2>4
  <2> QED BY <2>2, <2>3, <2>4 DEF SoFar, SayInv, ToldOf
<1>6. ToldOf'
  BY <1>5 DEF ToldOf
<1> QED BY <1>1, <1>3, <1>6 DEF SayInv

\* The tick at work is the only one that could be about to write it down.
LEMMA BeenTold ==
  ASSUME SoFar, NEW w \in Ticks, \A v \in Ticks \ {w} : job[v].pc = "off", NEW n \in DOMAIN posts
  PROVE  \/ posts[n].id \in unnoted
         \/ posts[n].id <= cursor
         \/ job[w].pc = "note" /\ InHand(w).id = posts[n].id
BY DEF SoFar, SayInv, ToldOf

LEMMA LoadSaid ==
  ASSUME SoFar, LogLabels, NEW w \in Ticks, LoadPage(w), job["audit"].pc = "off",
         \A v \in Ticks \ {w} : job[v].pc = "off" /\ job'[v] = job[v]
  PROVE  PostsTyped' /\ SayInv'
<1>w. w \in Worker
  BY DEF Worker, Locked
<1>f. job[w] \in Job /\ JobsFit /\ TypeOK
  BY <1>w, HandTyped DEF SoFar, TypeInv
<1>1. UNCHANGED <<log, cursor, posts, unnoted, Amiss>> /\ job[w].pc = "page"
  BY DEF LoadPage, ledgerVars, KeepAround, feedVars, At, Amiss
<1>2. PostsTyped' /\ SaidOnce' /\ SaidRight'
  BY <1>1, StaysRight
<1>3. PICK ids \in Pages(Fresh) : Become(w, [job[w] EXCEPT
         !.page = [n \in DOMAIN ids |-> [id |-> ids[n], source |-> log[ids[n]].source]],
         !.pc = IF ids = <<>> THEN "close" ELSE "post"])
  BY DEF LoadPage
<1> DEFINE page == [n \in DOMAIN ids |-> [id |-> ids[n], source |-> log[ids[n]].source]]
           pc   == IF ids = <<>> THEN "close" ELSE "post"
           s    == [job[w] EXCEPT !.page = page, !.pc = pc]
<1>4. DOMAIN page = DOMAIN ids /\ \A n \in DOMAIN ids : page[n].id = ids[n] /\ page[n].source = log[ids[n]].source
  OBVIOUS
<1>5. \A n \in DOMAIN ids : ids[n] \in Fresh
  BY <1>f, PagesTyped
<1>6. Become(w, s) /\ pc # "note"
  BY <1>3
<1> HIDE DEF page, pc
<1>7. s.page = page /\ s.pc = pc
  BY <1>f DEF Job
<1> HIDE DEF s
<1>8. job'[w].page = page /\ job'[w].pc = pc
  BY <1>w, <1>f, <1>6, <1>7, OneMoves
<1>9. \A i \in Fresh : Fits(log[i].source, log[i]) \/ log[i].msg \in Amiss
  BY DEF Fresh, Concerns, LogLabels, Halves
<1>10. PageLabels'
  <2>1. ASSUME NEW n \in DOMAIN page
        PROVE  Fits(page[n].source, log'[page[n].id]) \/ log'[page[n].id].msg \in Amiss'
    BY <1>1, <1>4, <1>5, <1>9, <2>1
  <2> QED BY <1>8, <2>1 DEF PageLabels, PageWork, Fits
<1>11. NotYet'
  <2>1. ASSUME NEW n \in DOMAIN posts, page # <<>>
        PROVE  posts[n].id \in unnoted \/ posts[n].id < page[1].id
    <3>1. posts[n].id \in unnoted \/ posts[n].id <= cursor
      BY <1>1, BeenTold
    <3>2. 1 \in DOMAIN ids
      BY <1>f, <1>4, <2>1, PagesTyped DEF page
    <3>3. page[1].id \in Nat /\ cursor < page[1].id
      BY <1>f, <1>4, <1>5, <3>2 DEF Fresh, TypeOK
    <3>4. cursor \in Int /\ posts[n].id \in Nat
      BY <1>f DEF SoFar, PostsTyped, Said, TypeOK, Unset
    <3> QED BY <3>1, <3>3, <3>4
  <2>2. job'[w].pc \in PageWork => page # <<>>
    BY <1>8 DEF page, pc, PageWork
  <2>3. page # <<>> => InHand(w)' = page[1]
    BY <1>8 DEF InHand
  <2> QED BY <1>1, <2>1, <2>2, <2>3 DEF NotYet, PageWork
<1>12. ToldOf'
  BY <1>1, BeenTold DEF ToldOf
<1> QED BY <1>2, <1>10, <1>11, <1>12 DEF SayInv

LEMMA PostSaid ==
  ASSUME SoFar, NEW w \in Ticks, Post(w),
         \A v \in Ticks \ {w} : job[v].pc = "off" /\ job'[v] = job[v]
  PROVE  PostsTyped' /\ SayInv'
<1>w. w \in Worker
  BY DEF Worker, Locked
<1>f. job[w] \in Job /\ Fit(w, job[w]) /\ JobsFit /\ TypeInv
  BY <1>w, HandTyped DEF SoFar, TypeInv
<1> DEFINE p == job[w].page
           e == InHand(w)
<1>1. /\ UNCHANGED <<log, cursor, unnoted, Amiss>> /\ job[w].pc = "post"
      /\ \/ posts' = Append(posts, e) /\ Goto(w, "note") /\ e.id \in heard'
         \/ UNCHANGED posts /\ (Goto(w, "note") \/ Goto(w, "close"))
  BY DEF Post, KeepStore, At, Amiss
<1>2. job[w].pc \in PageWork /\ p # <<>>
  BY <1>1, <1>f DEF PageWork, Fit
<1>3. 1 \in DOMAIN p /\ e = p[1] /\ e.id \in DOMAIN log /\ p \in Seq(Said)
  BY <1>w, <1>f, <1>2, PageTyped DEF Said
<1>4. /\ e \in Said /\ (Fits(e.source, log[e.id]) \/ log[e.id].msg \in Amiss)
      /\ \A n \in DOMAIN posts : posts[n].id \in unnoted \/ posts[n].id < e.id
  BY <1>1, <1>2, <1>3 DEF SoFar, SayInv, NotYet, PageLabels
<1>5. PICK pc \in {"note", "close"} : Goto(w, pc) /\ (pc = "close" => UNCHANGED posts)
  BY <1>1
<1> DEFINE s == [job[w] EXCEPT !.pc = pc]
<1>6. s.pc = pc /\ s.page = p /\ Become(w, s)
  BY <1>f, <1>5 DEF Job, Goto
<1> HIDE DEF s
<1>7. job'[w] = s
  BY <1>w, <1>f, <1>6, OneMoves
<1>8. PageLabels' /\ InHand(w)' = e
  <2>1. job'[w].page = job[w].page
    BY <1>6, <1>7
  <2>2. \A n \in DOMAIN p : Fits(p[n].source, log[p[n].id]) \/ log[p[n].id].msg \in Amiss
    BY <1>2 DEF SoFar, SayInv, PageLabels
  <2> QED BY <1>1, <2>1, <2>2 DEF PageLabels, PageWork, Fits, InHand
<1>9. \A n \in DOMAIN posts : posts[n].id \in unnoted \/ posts[n].id <= cursor
  BY <1>1, BeenTold
<1>10. CASE UNCHANGED posts
  <2>1. PostsTyped' /\ SaidOnce' /\ SaidRight'
    BY <1>10, StaysRight
  <2>2. ToldOf'
    BY <1>1, <1>9, <1>10 DEF ToldOf
  <2>3. NotYet'
    BY <1>1, <1>4, <1>8, <1>10 DEF NotYet, PageWork
  <2> QED BY <1>8, <2>1, <2>2, <2>3 DEF SayInv
<1>11. CASE posts' = Append(posts, e) /\ pc = "note" /\ e.id \in heard'
  <2> DEFINE new == Len(posts) + 1
  <2>1. posts \in Seq(Said) /\ e \in Said
    BY <1>4 DEF SoFar, PostsTyped
  <2> HIDE DEF e, p
  <2>2. /\ posts' \in Seq(Said) /\ DOMAIN posts' = DOMAIN posts \cup {new} /\ new \notin DOMAIN posts
        /\ \A n \in DOMAIN posts : posts'[n] = posts[n]
        /\ posts'[new] = e
    BY <1>11, <2>1
  <2> HIDE DEF new
  <2>3. PostsTyped'
    BY <1>1, <1>3, <1>11, <2>2 DEF SoFar, PostsTyped
  <2>4. SaidRight'
    <3>1. \A n \in DOMAIN posts : Fits(posts[n].source, log[posts[n].id]) \/ log[posts[n].id].msg \in Amiss
      BY DEF SoFar, SayInv, SaidRight
    <3> QED BY <1>1, <1>4, <2>2, <3>1 DEF SaidRight, Fits
  <2>5. ToldOf'
    BY <1>1, <1>6, <1>7, <1>8, <1>9, <1>11, <2>2 DEF ToldOf
  <2>6. \A n \in DOMAIN posts : posts[n].id = e.id => posts[n].id \in unnoted
    BY <1>4, <2>1 DEF Said
  <2>8. NotYet'
    BY <1>1, <1>4, <1>6, <1>7, <1>8, <1>11, <2>2 DEF NotYet, PageWork
  <2>7. SaidOnce'
    BY <1>1, <2>2, <2>6 DEF SaidOnce, SoFar, SayInv
  <2> QED BY <1>8, <2>3, <2>4, <2>5, <2>7, <2>8 DEF SayInv
<1> QED BY <1>1, <1>5, <1>10, <1>11

LEMMA NoteSaid ==
  ASSUME SoFar, NEW w \in Ticks, NoteEvent(w), Paged(w),
         \A v \in Ticks \ {w} : job[v].pc = "off" /\ job'[v] = job[v]
  PROVE  PostsTyped' /\ SayInv'
<1>w. w \in Worker
  BY DEF Worker, Locked
<1>f. job[w] \in Job /\ Fit(w, job[w]) /\ JobsFit /\ TypeInv
  BY <1>w, HandTyped DEF SoFar, TypeInv
<1> DEFINE p    == job[w].page
           i    == InHand(w).id
           rest == Tail(p)
           pc   == IF Len(p) = 1 THEN "close" ELSE "post"
           s    == [job[w] EXCEPT !.page = rest, !.pc = pc]
<1>1. /\ UNCHANGED <<log, posts, Amiss>> /\ job[w].pc = "note"
      /\ \/ cursor' = i /\ Become(w, s)
         \/ UNCHANGED cursor /\ Goto(w, "close") /\ i \in unnoted'
  BY DEF NoteEvent, KeepStore, At, Amiss
<1>2. job[w].pc \in PageWork /\ p # <<>>
  BY <1>1, <1>f DEF PageWork, Fit
<1>3. /\ 1 \in DOMAIN p /\ i = p[1].id /\ i \in 1 .. Len(log) /\ p \in Seq(Said)
      /\ \A n \in DOMAIN rest : n + 1 \in DOMAIN p /\ rest[n] = p[n + 1]
  BY <1>w, <1>f, <1>2, PageTyped DEF Said
<1>4. /\ cursor \in Int /\ i \in Nat
      /\ \A n \in DOMAIN p : Fits(p[n].source, log[p[n].id]) \/ log[p[n].id].msg \in Amiss
      /\ \A a, b \in DOMAIN p : a < b => p[a].id < p[b].id
      /\ \A n \in DOMAIN posts : posts[n].id \in unnoted \/ posts[n].id < i \/ posts[n].id = i
  <2>1. \A n \in DOMAIN posts : posts[n].id \in unnoted \/ posts[n].id < i \/ posts[n].id = i
    BY <1>2 DEF SoFar, SayInv, NotYet
  <2>2. \A n \in DOMAIN p : Fits(p[n].source, log[p[n].id]) \/ log[p[n].id].msg \in Amiss
    BY <1>2 DEF SoFar, SayInv, PageLabels
  <2>3. \A a, b \in DOMAIN p : a < b => p[a].id < p[b].id
    BY <1>2 DEF Paged
  <2>4. cursor \in Int /\ i \in Nat
    BY <1>3, <1>f DEF TypeInv, TypeOK, Unset
  <2> QED BY <2>1, <2>2, <2>3, <2>4
<1>5. PostsTyped' /\ SaidOnce' /\ SaidRight'
  BY <1>1, StaysRight
<1>7. CASE UNCHANGED cursor /\ Goto(w, "close") /\ i \in unnoted'
  <2> DEFINE t == [job[w] EXCEPT !.pc = "close"]
  <2>1. t.pc = "close" /\ Become(w, t)
    BY <1>f, <1>7 DEF Job, Goto
  <2> HIDE DEF t
  <2>2. job'[w].pc = "close"
    BY <1>w, <1>f, <2>1, OneMoves
  <2>3. job'[w].pc \notin PageWork
    BY <2>2 DEF PageWork
  <2> QED BY <1>4, <1>1, <1>7, <2>3, NothingSaid
<1>8. CASE cursor' = i /\ Become(w, s)
  <2>1. pc \in {"close", "post"}
    OBVIOUS
  <2> HIDE DEF rest, pc
  <2>2. s.page = rest /\ s.pc = pc
    BY <1>f DEF Job
  <2>3. Become(w, s)
    BY <1>8
  <2> HIDE DEF s
  <2>4. job'[w].page = rest /\ job'[w].pc = pc
    BY <1>w, <1>f, <2>2, <2>3, OneMoves
  <2> HIDE DEF p, i
  <2>5. ASSUME NEW n \in DOMAIN rest
        PROVE  /\ Fits(rest[n].source, log[rest[n].id]) \/ log[rest[n].id].msg \in Amiss
               /\ i < rest[n].id
    <3>1. n + 1 \in DOMAIN p /\ rest[n] = p[n + 1]
      BY <1>3
    <3>2. 1 < n + 1
      <4>1. rest \in Seq(Said)
        BY <1>2, <1>3, TailOf DEF rest
      <4>2. n \in Nat \ {0}
        BY <2>5, <4>1
      <4> QED BY <4>2
    <3>3. p[1].id < p[n + 1].id
      BY <1>3, <1>4, <3>1, <3>2
    <3> QED BY <1>3, <1>4, <3>1, <3>3
  <2>6. PageLabels'
    BY <1>1, <1>8, <2>4, <2>5 DEF PageLabels, PageWork, Fits
  <2>7. ToldOf'
    <3> SUFFICES ASSUME NEW n \in DOMAIN posts
                 PROVE  posts[n].id \in unnoted' \/ posts[n].id <= cursor'
      BY <1>1 DEF ToldOf
    <3>1. posts[n].id \in Nat
      BY <1>f DEF SoFar, PostsTyped, TypeInv, TypeOK
    <3>2. posts[n].id \in unnoted \/ posts[n].id <= i
      BY <1>4, <3>1
    <3> QED BY <1>8, <3>2 DEF SoFar
  <2>8. NotYet'
    <3>1. pc = "post" => rest # <<>> /\ 1 \in DOMAIN rest
      BY <1>w, <1>f, <1>2, <1>3, PageTyped, TailOf DEF pc, rest, p
    <3>4. \A n \in DOMAIN rest : rest[n].id \in Nat
      <4>1. \A n \in DOMAIN p : p[n].id \in Nat
        BY <1>3, IdsTyped DEF Said
      <4> QED BY <1>3, <4>1
    <3>5. rest # <<>> => Head(rest) = rest[1]
      OBVIOUS
    <3>2. pc = "post" => InHand(w)' = rest[1] /\ i < rest[1].id /\ rest[1].id \in Nat
      BY <2>4, <2>5, <3>1, <3>4, <3>5 DEF InHand
    <3>3. ASSUME NEW n \in DOMAIN posts, pc = "post"
          PROVE  posts[n].id \in unnoted \/ posts[n].id < rest[1].id
      <4>1. posts[n].id \in Nat
        BY <1>f DEF SoFar, PostsTyped, TypeInv, TypeOK
      <4> QED BY <1>4, <3>2, <3>3, <4>1
    <3> QED BY <1>1, <2>1, <2>4, <3>2, <3>3 DEF NotYet, PageWork, SoFar
  <2> QED BY <1>5, <2>6, <2>7, <2>8 DEF SayInv
<1> QED BY <1>1, <1>7, <1>8

LEMMA TickSays ==
  ASSUME SoFar, FeedInv, LogLabels, NEW w \in Ticks, TickActs(w), job["audit"].pc = "off",
         cursor' \in Int,
         \A v \in Ticks \ {w} : job[v].pc = "off" /\ job'[v] = job[v]
  PROVE  PostsTyped' /\ SayInv'
<1>w. w \in Worker
  BY DEF Worker, Locked
<1>1. CASE \/ TickStart(w) \/ List(w) \/ BreakOff(w) \/ Advance(w) \/ TickClose(w) \/ Handle(w)
           \/ Die(w)
  <2>1. UNCHANGED cursor /\ job'[w].pc \notin PageWork
    BY <1>1, PollSteps DEF SoFar, Polls
  <2>2. UNCHANGED posts
    BY <1>1 DEF TickStart, List, BreakOff, Advance, TickClose, Handle, Check, Record, Store, Stop, Die,
       KeepAround, feedVars
  <2>3. job[w].pc = "note" => InHand(w).id \in unnoted'
    BY <1>1 DEF TickStart, List, BreakOff, Advance, TickClose, Handle, Check, Record, Store, Stop, Die, At
  <2>4. cursor <= cursor'
    BY <2>1
  <2> QED BY <2>1, <2>2, <2>3, <2>4, NothingSaid
<1>3. CASE LoadPage(w)
  BY <1>3, LoadSaid
<1>4. CASE Post(w)
  BY <1>4, PostSaid
<1>5. CASE NoteEvent(w)
  BY <1>5, NoteSaid DEF FeedInv
<1> QED BY <1>1, <1>3, <1>4, <1>5 DEF TickActs, TickStep

\* What a subscriber does to the cursor leaves what was said behind it, or it is
\* known that it is not.
LEMMA SubscriberSays ==
  ASSUME SoFar, NEW w \in Subscribers, SubscriberStep(w)
  PROVE  PostsTyped' /\ SayInv'
<1> USE DEF At
<1>w. w \in Worker /\ Ticks \subseteq Worker
  BY DEF Subscribers, Worker, Locked
<1>f. job[w] \in Job /\ Failed(w) \in Job /\ JobsFit /\ TypeOK
  BY <1>w, HandTyped, FailedFits DEF SoFar, TypeInv
<1>1. /\ UNCHANGED <<log, posts, heard>> /\ job[w].pc \notin PageWork
      /\ UNCHANGED cursor \/ (cursor' = job[w].base /\ unnoted' = unnoted \cup {i \in heard : i > job[w].base})
  BY DEF SubscriberStep, Ensure, Baseline, Subscribe, EnsureFails, ledgerVars, KeepStore, KeepAround, feedVars,
     PageWork
<1>2. PICK r : Become(w, r) /\ r.pc \notin PageWork
  <2>1. ASSUME NEW pc \in {"baseline", "subscribe"}
        PROVE  /\ [job[w] EXCEPT !.pc = pc].pc \notin PageWork
               /\ [job[w] EXCEPT !.pc = pc, !.base = Len(log)].pc \notin PageWork
    BY <1>f DEF Job, PageWork
  <2>2. ASSUME NEW r \in {job[w], Failed(w)}
        PROVE  [r EXCEPT !.pc = "list", !.base = 0].pc \notin PageWork
    BY <1>f DEF Job, PageWork
  <2>3. Off.pc \notin PageWork
    BY DEF Off, PageWork
  <2> QED BY <2>1, <2>2, <2>3 DEF SubscriberStep, Ensure, Baseline, Subscribe, EnsureFails, Ensured, Goto
<1>3. \A v \in Ticks : job'[v] = job[v] \/ (job[v].pc \notin PageWork /\ job'[v].pc \notin PageWork)
  BY <1>w, <1>f, <1>1, <1>2, OneMoves
<1>4. PostsTyped' /\ SaidOnce' /\ SaidRight'
  BY <1>1, StaysRight
<1>5. PageLabels'
  BY <1>1, <1>3 DEF SoFar, SayInv, PageLabels, Fits
<1>6. NotYet'
  BY <1>1, <1>3 DEF SoFar, SayInv, NotYet, InHand
<1>7. ToldOf'
  <2>1. CASE UNCHANGED cursor
    BY <1>1, <1>3, <2>1 DEF SoFar, SayInv, ToldOf, InHand, PageWork
  <2>2. CASE cursor' = job[w].base /\ unnoted' = unnoted \cup {i \in heard : i > job[w].base}
    <3>1. \A n \in DOMAIN posts : posts[n].id \in heard /\ posts[n].id \in Nat /\ job[w].base \in Nat
      BY <1>f DEF SoFar, PostsTyped, TypeOK, Job
    <3>2. \A n \in DOMAIN posts : posts[n].id \in unnoted' \/ posts[n].id <= cursor'
      BY <2>2, <3>1
    <3> QED BY <1>1, <3>2 DEF ToldOf
  <2> QED BY <1>1, <2>1, <2>2
<1> QED BY <1>4, <1>5, <1>6, <1>7 DEF SayInv

\* The ticks rest, and who else acts says nothing.
LEMMA OthersSay ==
  ASSUME SoFar, \A w \in Ticks : job'[w] = job[w], UNCHANGED <<posts, cursor>>,
         UNCHANGED log \/ \A w \in Ticks : job[w].pc = "off"
  PROVE  PostsTyped' /\ SayInv'
<1>1. PostsTyped' /\ SaidOnce' /\ SaidRight'
  BY StaysRight
<1>2. NotYet'
  BY DEF SoFar, SayInv, NotYet, InHand
<1>3. ToldOf'
  BY DEF SoFar, SayInv, ToldOf, InHand
<1>4. PageLabels'
  <2>1. CASE UNCHANGED log
    BY <2>1 DEF SoFar, SayInv, PageLabels, Fits
  <2>2. CASE \A w \in Ticks : job[w].pc = "off"
    BY <2>2 DEF PageLabels, PageWork
  <2> QED BY <2>1, <2>2
<1> QED BY <1>1, <1>2, <1>3, <1>4 DEF SayInv

-----------------------------------------------------------------------------
\* Small facts of every step.
LEMMA PostsMove ==
  ASSUME [Next]_vars
  PROVE  \/ UNCHANGED posts
         \/ \E w \in Ticks :
              At(w, "post") /\ posts' = Append(posts, InHand(w)) /\ InHand(w).id \in heard'
<1> USE DEF KeepAround, feedVars
<1>1. CASE Outside \/ Sever \/ UNCHANGED vars
  BY <1>1 DEF Outside, Sever, vars
<1>2. ASSUME NEW w, Handle(w) PROVE UNCHANGED posts
  BY <1>2 DEF Handle, Check, Record, Store, Stop
<1>3. ASSUME NEW w \in Ticks, TickStart(w) \/ TickStep(w)
      PROVE  UNCHANGED posts \/ (At(w, "post") /\ posts' = Append(posts, InHand(w)) /\ InHand(w).id \in heard')
  BY <1>2, <1>3 DEF TickStart, TickStep, List, BreakOff, Advance, LoadPage, Post, NoteEvent, TickClose
<1>4. CASE AuditStart \/ AuditStep \/ ReviewStart \/ \E w \in {"audit", "review"} : ReaderStep(w)
  BY <1>2, <1>4 DEF AuditStart, AuditStep, ReviewStart, ReaderStep, Verify, ScanFails, Find, Discover,
     Apply, ApplyFails, Mark, Copy, Echo
<1>5. ASSUME NEW w, Die(w) \/ SubscriberStep(w) \/ DryStart PROVE UNCHANGED posts
  BY <1>5 DEF Die, SubscriberStep, Ensure, Baseline, Subscribe, EnsureFails, DryStart
<1> QED BY <1>1, <1>3, <1>4, <1>5 DEF Next

LEMMA UnnotedGrows ==
  ASSUME [Next]_vars
  PROVE  unnoted \subseteq unnoted' /\ heard \subseteq heard'
<1> USE DEF KeepAround, feedVars
<1>1. CASE Outside \/ Sever \/ UNCHANGED vars
  BY <1>1 DEF Outside, Sever, vars
<1>2. ASSUME NEW w, Handle(w) PROVE UNCHANGED <<unnoted, heard>>
  BY <1>2 DEF Handle, Check, Record, Store, Stop
<1>3. ASSUME NEW w \in Ticks, TickStart(w) \/ TickStep(w)
      PROVE  unnoted \subseteq unnoted' /\ heard \subseteq heard'
  BY <1>2, <1>3 DEF TickStart, TickStep, List, BreakOff, Advance, LoadPage, Post, NoteEvent, TickClose
<1>4. CASE AuditStart \/ AuditStep \/ ReviewStart \/ \E w \in {"audit", "review"} : ReaderStep(w)
  BY <1>2, <1>4 DEF AuditStart, AuditStep, ReviewStart, ReaderStep, Verify, ScanFails, Find, Discover,
     Apply, ApplyFails, Mark, Copy, Echo
<1>5. ASSUME NEW w, Die(w) \/ SubscriberStep(w) \/ DryStart PROVE unnoted \subseteq unnoted' /\ heard \subseteq heard'
  BY <1>5 DEF Die, SubscriberStep, Ensure, Baseline, Subscribe, EnsureFails, DryStart
<1> QED BY <1>1, <1>3, <1>4, <1>5 DEF Next

\* A lock that was lost was lost for good.
LEMMA LockStays ==
  ASSUME [Next]_vars, severed
  PROVE  severed'
<1> USE DEF KeepAround, lockVars
<1>1. CASE Outside \/ Sever \/ UNCHANGED vars
  BY <1>1 DEF Outside, Sever, vars
<1>2. ASSUME NEW w, Handle(w) PROVE UNCHANGED severed
  BY <1>2 DEF Handle, Check, Record, Store, Stop
<1>3. ASSUME NEW w \in Ticks, TickStart(w) \/ TickStep(w)
      PROVE  UNCHANGED severed
  BY <1>2, <1>3 DEF TickStart, TickStep, List, BreakOff, Advance, LoadPage, Post, NoteEvent,
     TickClose, Acquire, Release
<1>4. CASE AuditStart \/ AuditStep \/ ReviewStart \/ \E w \in {"audit", "review"} : ReaderStep(w)
  BY <1>2, <1>4 DEF AuditStart, AuditStep, ReviewStart, ReaderStep, Verify, ScanFails, Find, Discover,
     Apply, ApplyFails, Mark, Copy, Echo, Acquire, Release
<1>5. ASSUME NEW w, Die(w) \/ SubscriberStep(w) \/ DryStart PROVE UNCHANGED severed
  BY <1>5 DEF Die, Release, SubscriberStep, Ensure, Baseline, Subscribe, EnsureFails, DryStart
<1> QED BY <1>1, <1>3, <1>4, <1>5 DEF Next

LEMMA AuditRests ==
  ASSUME AuditInv, UNCHANGED log, job'["audit"] = job["audit"], Amiss \subseteq Amiss',
         unasked \subseteq unasked'
  PROVE  AuditInv'
BY DEF AuditInv, FreshHand, OwnHand, LogLabels, Fits, Hand, TypeRead, Unrecorded

-----------------------------------------------------------------------------
LEMMA ChannelStep ==
  ASSUME ChannelInv, [Next]_vars
  PROVE  ChannelInv'
<1>1. RecordInv' /\ FeedInv'
  BY NextTyped, AgreeStep, AloneStep, NoneYetStep, FeedStep DEF ChannelInv, RecordInv
<1>2. /\ TypeInv /\ TypesAgree /\ FeedInv /\ PostsTyped
      /\ cursor' \in Int
  BY <1>1 DEF ChannelInv, RecordInv, TypeInv, TypeOK, Unset
<1>3. /\ Amiss \subseteq Amiss' /\ unnoted \subseteq unnoted' /\ heard \subseteq heard'
      /\ DOMAIN log \subseteq DOMAIN log'
      /\ \A i \in DOMAIN log : log'[i].msg = log[i].msg /\ log'[i].by = log[i].by
  BY <1>2, BotchedGrows, UnnotedGrows, FinderKept
<1>4. PostsTyped'
  <2>1. CASE UNCHANGED posts
    BY <1>2, <1>3, <2>1 DEF PostsTyped
  <2>2. ASSUME NEW w \in Ticks, At(w, "post"), posts' = Append(posts, InHand(w)), InHand(w).id \in heard'
        PROVE  PostsTyped'
    <3>1. /\ InHand(w) \in Said /\ InHand(w).id \in DOMAIN log
      <4>1. w \in Worker /\ job[w].page # <<>>
        BY <1>2, <2>2, HandTyped DEF At, Fit, PageWork, TypeInv, Worker, Locked
      <4>2. /\ job[w].page \in Seq(Said) /\ 1 \in DOMAIN job[w].page
            /\ InHand(w) = job[w].page[1] /\ InHand(w).id \in DOMAIN log
        BY <1>2, <4>1, PageTyped DEF Said
      <4> QED BY <4>2
    <3>2. /\ posts' \in Seq(Said) /\ DOMAIN posts' = DOMAIN posts \cup {Len(posts) + 1}
          /\ \A n \in DOMAIN posts : posts'[n] = posts[n]
          /\ posts'[Len(posts) + 1] = InHand(w)
      BY <1>2, <2>2, <3>1 DEF PostsTyped
    <3> QED BY <1>2, <1>3, <2>2, <3>1, <3>2 DEF PostsTyped
  <2> QED BY <2>1, <2>2, PostsMove
<1>5. ASSUME ~severed' PROVE AuditInv' /\ SayInv'
  <2>1. ~severed
    BY <1>5, LockStays
  <2>2. AuditInv /\ SayInv /\ Alone /\ LogLabels
    BY <2>1 DEF ChannelInv, RecordInv, AuditInv
  <2>4. SoFar
    BY <1>2, <1>3, <2>2 DEF SoFar
  <2>5. CASE AuditActs /\ \A w \in Ticks : job[w].pc = "off" /\ job'[w] = job[w]
    <3>1. AuditInv'
      BY <1>3, <2>1, <2>2, <2>5, AuditLabels DEF ChannelInv
    <3>2. UNCHANGED <<posts, cursor>>
      BY <2>5 DEF AuditActs, AuditStart, AuditStep, Discover, Apply, ApplyFails, Handle, Check, Record, Store,
         Stop, Mark, Copy, Echo, ReaderStep, Verify, ScanFails, Find, Die, KeepAround, feedVars
    <3> QED BY <2>4, <2>5, <3>1, <3>2, OthersSay
  <2>6. ASSUME NEW w \in Ticks, TickActs(w), job["audit"].pc = "off", job'["audit"] = job["audit"],
               \A v \in Ticks \ {w} : job[v].pc = "off" /\ job'[v] = job[v]
        PROVE  AuditInv' /\ SayInv'
    <3>1. AuditInv'
      BY <1>2, <1>3, <2>2, <2>6, TickLabels
    <3>2. SayInv'
      BY <1>2, <2>2, <2>4, <2>6, TickSays
    <3> QED BY <3>1, <3>2
  <2>7. CASE (\A w \in Locked : job'[w] = job[w]) /\ UNCHANGED <<log, posts, cursor>>
    <3>1. Ticks \subseteq Locked /\ "audit" \in Locked
      BY DEF Locked
    <3>2. AuditInv'
      BY <1>3, <2>2, <2>7, <3>1, AuditRests, Unforgotten
    <3> QED BY <2>4, <2>7, <3>1, <3>2, OthersSay
  <2>8. ASSUME NEW w \in Subscribers, SubscriberStep(w)
        PROVE  AuditInv' /\ SayInv'
    <3>1. w \in Worker /\ w # "audit" /\ "audit" \in Worker
      BY DEF Subscribers, Ticks, Worker, Locked
    <3>2. UNCHANGED log /\ \E r : Become(w, r)
      BY <2>8 DEF SubscriberStep, Ensure, Baseline, Subscribe, EnsureFails, Ensured, Goto, ledgerVars, KeepStore
    <3>3. job'["audit"] = job["audit"]
      BY <1>2, <3>1, <3>2, OneMoves DEF TypeInv
    <3>4. AuditInv'
      BY <1>3, <2>2, <3>2, <3>3, AuditRests, Unforgotten
    <3> QED BY <2>4, <2>8, <3>4, SubscriberSays
  <2> QED BY <1>2, <1>5, <2>1, <2>2, <2>5, <2>6, <2>7, <2>8, Turns
<1> QED BY <1>1, <1>4, <1>5 DEF ChannelInv

LEMMA InitChannel == Init => ChannelInv
<1> SUFFICES ASSUME Init PROVE ChannelInv
  OBVIOUS
<1>1. /\ log = <<>> /\ DOMAIN log = {} /\ posts = <<>> /\ DOMAIN posts = {}
      /\ \A w \in Worker : job[w].pc = "off"
  BY DEF Init, LedgerInit, Off
<1>2. Ticks \subseteq Worker /\ "audit" \in Worker
  BY DEF Worker, Locked
<1>3. PostsTyped
  BY <1>1 DEF PostsTyped
<1>4. AuditInv
  BY <1>1, <1>2 DEF AuditInv, FreshHand, OwnHand, LogLabels, Halves
<1>5. SayInv
  BY <1>1, <1>2 DEF SayInv, PageLabels, ToldOf, NotYet, SaidOnce, SaidRight, PageWork
<1> QED BY <1>3, <1>4, <1>5, InitRecords, InitFeed DEF ChannelInv

LEMMA ChannelHolds == Spec => []ChannelInv
<1>1. ChannelInv /\ [Next]_vars => ChannelInv'
  BY ChannelStep
<1> QED BY <1>1, InitChannel, PTL DEF Spec

\* A message is announced once, however often ticks die, are refused, look
\* again and overlap with reconciliations and dry runs, as long as the lock is
\* not lost: unless the cursor does not say that it was announced, because the
\* tick could not write that or a first cursor was written over it, or the
\* lookup for the event of the message has failed.
THEOREM SaidOnlyOnce == Spec => []AnnouncedOnce
<1>1. ChannelInv => AnnouncedOnce
  BY DEF ChannelInv, RecordInv, OneEventPerMessage, SayInv, SaidOnce, PostsTyped, AnnouncedOnce
<1> QED BY <1>1, ChannelHolds, PTL

\* What a poll found is announced as new and what reconciliation found as
\* recovered, whichever tick announces it and however the label, a statement
\* of its own, is interleaved: unless a statement or a lookup about it failed.
THEOREM LabelsTellTheTruth == Spec => []LabelTruth
<1>1. ChannelInv => LabelTruth
  BY DEF ChannelInv, SayInv, SaidRight, LabelTruth, Fits, Amiss
<1> QED BY <1>1, ChannelHolds, PTL
=============================================================================
