---------------------------- MODULE ReplyProofs ----------------------------
(* Manual replies: types, and that the attempts table and the provider      *)
(* implement OneDelivery, for any number of invocations.                    *)
EXTENDS ManualReply, TLAPS

\* Mail of ours that is anywhere left through the provider, and the
\* recipient of what left is not resolved again.
OursLeft ==
  /\ \A p \in Caller : p \in mailbox \cup stored => p \in gone
  /\ \A p, q \in Caller : q \in listed[p] => q \in gone
  /\ \A p \in Caller : pc[p] \in {"copy", "persist"} => p \in gone
  /\ \A p \in gone : to[p] \in Address /\ pc[p] \in (Holding \ {"send"}) \cup Ended

TypeInv == TypeOK /\ OursLeft

-----------------------------------------------------------------------------
LEMMA KeyTyped ==
  ASSUME NEW p \in Caller, NEW a \in Address
  PROVE  KeyFor(p, a) \in Key
BY DEF KeyFor, Key

LEMMA RecipientTyped ==
  ASSUME TypeInv, NEW m \in Newest
  PROVE  Recipient(m) \in Address
BY ThreadAssumption DEF TypeInv, TypeOK, ThreadTypeOK, OursLeft, Newest, Recipient, Mail

LEMMA HolderKey ==
  ASSUME TypeOK, NEW p \in Caller, pc[p] \in {"reserve", "lookup"} \cup Holding
  PROVE  KeyOf(p) \in Key
BY KeyTyped DEF TypeOK, KeyOf

LEMMA InitTyped == Init => TypeInv
BY ThreadAssumption DEF Init, ThreadInit, TypeInv, TypeOK, ThreadTypeOK, OursLeft,
   Mail, Previewing, Holding, Ended

\* The tick's poll and the recipient touch nothing of the invocations'.
LEMMA ThreadStepTyped ==
  ASSUME TypeInv, ThreadStep, UNCHANGED replyVars
  PROVE  TypeInv'
<1> USE ThreadAssumption DEF TypeInv, TypeOK, ThreadTypeOK, OursLeft, replyVars
<1>1. ASSUME NEW m \in Msg, Arrive(m) PROVE TypeInv'
  <2>1. m \in Mail /\ m \notin Caller
    BY DEF Mail
  <2>2. ThreadTypeOK'
    BY <1>1, <2>1 DEF Arrive, Dated
  <2>3. OursLeft'
    BY <1>1, <2>1 DEF Arrive
  <2> QED BY <2>2, <2>3
<1>2. ASSUME NEW m \in Msg, PollTakeUp(m) PROVE TypeInv'
  BY <1>2 DEF PollTakeUp
<1>3. CASE PollEvent
  BY <1>3 DEF PollEvent, PollGoesTo, Fault
<1>4. CASE PollSnapshot
  BY <1>4 DEF PollSnapshot, PollGoesTo, Fault, Either, Mail
<1>5. CASE PollSuppress
  BY <1>5 DEF PollSuppress, PollGoesTo, Fault, Either
<1>6. CASE PollStops
  BY <1>6 DEF PollStops, PollGoesTo, Fault
<1> QED BY <1>1, <1>2, <1>3, <1>4, <1>5, <1>6 DEF ThreadStep

LEMMA PreviewTyped ==
  ASSUME TypeInv, NEW p \in Caller, Preview(p)
  PROVE  TypeInv'
<1> USE ThreadAssumption
    DEF TypeInv, TypeOK, ThreadTypeOK, OursLeft, Previewing, Holding, Ended,
        Goto, threadVars, replyVars
<1>1. CASE Refresh(p)
  BY <1>1 DEF Refresh, Listed, OptOutOnRecord
<1>2. CASE StoreListed(p)
  <2>1. PICK m \in listed[p] : /\ stored' = stored \cup {m}
                               /\ Listed(p, listed[p] \ {m})
    BY <1>2 DEF StoreListed
  <2>2. /\ pc[p] = "store" /\ m \in Mail /\ (m \in Caller => m \in gone)
        /\ listed' = [listed EXCEPT ![p] = listed[p] \ {m}]
        /\ \E l \in {"store", "gate", "send_gate"} : pc' = [pc EXCEPT ![p] = l]
        /\ UNCHANGED <<clock, date, mailbox, recorded, lead, poll, msg, faults,
                       provider, attempts, to, copies, gone, noted, warned, found>>
    BY <1>2, <2>1 DEF StoreListed, Listed
  <2> QED BY <2>1, <2>2
<1>4. CASE Gate(p)
  BY <1>4 DEF Gate
<1>5. CASE Confirm(p)
  BY <1>5 DEF Confirm
<1>6. CASE Resolve(p)
  <2>1. PICK m \in Newest : to' = [to EXCEPT ![p] = Recipient(m)]
    BY <1>6 DEF Resolve
  <2>2. Recipient(m) \in Address
    BY RecipientTyped
  <2>3. clock' \in Nat /\ date' \in [Mail -> Nat]
    BY <1>6 DEF Resolve, Dated, Mail
  <2> QED BY <1>6, <2>1, <2>2, <2>3 DEF Resolve
<1>7. CASE Reject(p)
  BY <1>7 DEF Reject
<1> QED BY <1>1, <1>2, <1>4, <1>5, <1>6, <1>7 DEF Preview

LEMMA SendReplyTyped ==
  ASSUME TypeInv, NEW p \in Caller, SendReply(p)
  PROVE  TypeInv'
<1> USE ThreadAssumption
    DEF TypeInv, TypeOK, ThreadTypeOK, OursLeft, Previewing, Holding, Ended,
        Goto, threadVars, Fault, Either
<1>k. pc[p] \in {"reserve", "lookup"} \cup Holding => KeyOf(p) \in Key
  BY HolderKey
<1>1. CASE Reserve(p)
  BY <1>1, <1>k DEF Reserve
<1>2. CASE Lookup(p)
  BY <1>2 DEF Lookup
<1>3. CASE Refuse(p)
  BY <1>3 DEF Refuse
<1>4. CASE Accept(p)
  BY <1>4, <1>k DEF Accept, Deliver, Mail
<1>5. CASE AcceptUnknown(p)
  BY <1>5, <1>k DEF AcceptUnknown, Deliver, Mail
<1>6. CASE MarkFailed(p)
  BY <1>6, <1>k DEF MarkFailed
<1>7. CASE AppendSent(p)
  BY <1>7 DEF AppendSent, Mail
<1>8. CASE Persist(p)
  BY <1>8, <1>k DEF Persist, Mail
<1>9. CASE PersistFails(p)
  BY <1>9 DEF PersistFails
<1>10. CASE Die(p)
  BY <1>10 DEF Die
<1> QED BY <1>1, <1>2, <1>3, <1>4, <1>5, <1>6, <1>7, <1>8, <1>9, <1>10 DEF SendReply

\* Every variable keeps to its table's column, and an invocation that holds
\* or asks for a key has resolved its recipient.
THEOREM ReplyTypeCorrect == Spec => []TypeOK
<1>1. Init => TypeInv
  BY InitTyped
<1>2. TypeInv /\ [Next]_vars => TypeInv'
  <2>1. ASSUME TypeInv, UNCHANGED vars PROVE TypeInv'
    BY <2>1 DEF vars, threadVars, replyVars, TypeInv, TypeOK, ThreadTypeOK, OursLeft
  <2> QED BY <2>1, ThreadStepTyped, PreviewTyped, SendReplyTyped DEF Next
<1>3. TypeInv => TypeOK
  BY DEF TypeInv
<1> QED BY <1>1, <1>2, <1>3, PTL DEF Spec

-----------------------------------------------------------------------------
(* Keys.  What a key's row says is kept true by whoever holds the key: the  *)
(* row says `sending' all that time, nobody else holds it, and how many     *)
(* mails left under it follows from where the holder is.                    *)

HoldsKey == \A p \in Caller : pc[p] \in Holding => attempts[KeyOf(p)] = "sending"

OneHolder ==
  \A p, q \in Caller :
    pc[p] \in Holding /\ pc[q] \in Holding /\ KeyOf(p) = KeyOf(q) => p = q

CopiesKnown ==
  /\ \A k \in Key : /\ copies[k] <= 1
                    /\ attempts[k] = "none" => copies[k] = 0
                    /\ attempts[k] = "sent" => copies[k] = 1
  /\ \A p \in Caller : /\ pc[p] = "send" => copies[KeyOf(p)] = 0
                       /\ pc[p] \in {"copy", "persist"} => copies[KeyOf(p)] = 1

KeyInv == HoldsKey /\ OneHolder /\ CopiesKnown /\ RecordsAgree

IInv == TypeInv /\ KeyInv

LEMMA InitKeys == Init => KeyInv
BY DEF Init, KeyInv, HoldsKey, OneHolder, CopiesKnown, RecordsAgree, Holding

\* Steps that change no key, no holder, and no record keep all of it.
LEMMA KeysKept ==
  ASSUME IInv, TypeInv', stored \subseteq stored',
         UNCHANGED <<attempts, copies, gone, noted>>,
         \A p \in Caller : pc'[p] \in Holding => pc'[p] = pc[p] /\ to'[p] = to[p],
         \A p \in gone : to'[p] = to[p],
         \A p \in Caller : pc'[p] = "already" => pc[p] = "already" /\ to'[p] = to[p]
  PROVE  KeyInv'
<1> USE DEF IInv, KeyInv, Holding, KeyOf
<1>1. HoldsKey' /\ OneHolder'
  BY DEF HoldsKey, OneHolder
<1>2. CopiesKnown'
  BY DEF CopiesKnown
<1>3. RecordsAgree'
  <2>1. \A p \in gone : KeyOf(p)' = KeyOf(p)
    OBVIOUS
  <2>2. noted \subseteq gone
    BY DEF RecordsAgree
  <2> QED BY <2>1, <2>2 DEF RecordsAgree
<1> QED BY <1>1, <1>2, <1>3

LEMMA ThreadStepKeys ==
  ASSUME IInv, ThreadStep, UNCHANGED replyVars
  PROVE  KeyInv'
<1>1. TypeInv'
  BY ThreadStepTyped DEF IInv
<1>2. stored \subseteq stored'
  BY DEF ThreadStep, Arrive, PollTakeUp, PollEvent, PollSnapshot, PollSuppress,
         PollStops, Either
<1> QED BY <1>1, <1>2, KeysKept DEF replyVars

LEMMA PreviewKeys ==
  ASSUME IInv, NEW p \in Caller, Preview(p)
  PROVE  KeyInv' /\ UNCHANGED <<attempts, copies>>
<1>1. TypeInv'
  BY PreviewTyped DEF IInv
<1>2. /\ stored \subseteq stored'
      /\ UNCHANGED <<attempts, copies, gone, noted>>
  BY DEF Preview, Refresh, StoreListed, Listed, Gate, Confirm, Resolve, Reject,
         threadVars, replyVars
<1>3. pc[p] \in Previewing \cup {"reserve", "lookup"} /\ p \notin gone
  BY DEF Preview, Refresh, StoreListed, Listed, Gate, Confirm, Resolve, Reject,
         Previewing, IInv, TypeInv, OursLeft, Holding, Ended
<1>4. /\ pc'[p] \notin Holding \cup {"already"}
      /\ \A q \in Caller \ {p} : pc'[q] = pc[q] /\ to'[q] = to[q]
  BY <1>3 DEF Preview, Refresh, StoreListed, Listed, Gate, Confirm, Resolve,
         Reject, Goto, IInv, TypeInv, TypeOK, Previewing, Holding, Ended, replyVars
<1>5. gone \subseteq Caller
  BY DEF IInv, TypeInv, TypeOK
<1> QED BY <1>1, <1>2, <1>3, <1>4, <1>5, KeysKept

-----------------------------------------------------------------------------
\* The steps that hold a key, each with the OneDelivery step it is.

LEMMA SendReplyKeys ==
  ASSUME IInv, NEW p \in Caller, SendReply(p)
  PROVE  KeyInv' /\ [Once!OneNext]_<<attempts, copies>>
<1> DEFINE k == KeyOf(p)
<1>t. TypeInv'
  BY SendReplyTyped DEF IInv
<1>k. pc[p] \in {"reserve", "lookup"} \cup Holding /\ k \in Key
  BY HolderKey DEF SendReply, Reserve, Lookup, Refuse, Accept, AcceptUnknown,
     MarkFailed, AppendSent, Persist, PersistFails, Die, Holding, IInv, TypeInv
<1>o. \A q \in Caller : KeyOf(q)' = KeyOf(q)
  BY DEF SendReply, Reserve, Lookup, Refuse, Accept, AcceptUnknown, MarkFailed,
     AppendSent, Persist, PersistFails, Die, KeyOf, threadVars
<1>g. \A q \in Caller \ {p} : pc'[q] = pc[q]
  BY DEF SendReply, Reserve, Lookup, Refuse, Accept, AcceptUnknown, MarkFailed,
     AppendSent, Persist, PersistFails, Die, Goto, IInv, TypeInv, TypeOK
<1> HIDE DEF k
<1> USE <1>k, <1>o, <1>g
    DEF IInv, TypeInv, TypeOK, KeyInv, Holding, Goto
<1>1. CASE Reserve(p)
  <2>1. CASE attempts[k] = "none"
    <3>1. /\ attempts' = [attempts EXCEPT ![k] = "sending"]
          /\ pc' = [pc EXCEPT ![p] = "send"]
          /\ UNCHANGED <<copies, gone, noted, stored, to>>
      BY <1>1, <2>1 DEF Reserve, k, threadVars
    <3>2. HoldsKey' /\ OneHolder'
      BY <3>1, <2>1 DEF HoldsKey, OneHolder, k
    <3>3. CopiesKnown'
      BY <3>1, <2>1 DEF CopiesKnown, k
    <3>4. RecordsAgree'
      <4>1. \A q \in noted : KeyOf(q) # k
        BY <2>1 DEF RecordsAgree
      <4> QED BY <3>1, <2>1, <4>1 DEF RecordsAgree
    <3>5. Once!Claim(k)
      BY <3>1, <2>1 DEF Once!Claim
    <3> QED BY <3>2, <3>3, <3>4, <3>5 DEF Once!OneNext
  <2>2. CASE attempts[k] # "none"
    <3>1. /\ UNCHANGED <<attempts, copies, gone, noted, stored, to>>
          /\ pc' = [pc EXCEPT ![p] = "lookup"]
      BY <1>1, <2>2 DEF Reserve, k, threadVars
    <3> QED BY <3>1, <1>t, KeysKept
  <2> QED BY <2>1, <2>2
<1>2. CASE Lookup(p)
  <2>1. /\ UNCHANGED <<attempts, copies, gone, noted, stored, to>>
        /\ pc' = [pc EXCEPT ![p] = IF attempts[k] = "sent" THEN "already" ELSE "refused"]
    BY <1>2 DEF Lookup, k, threadVars
  <2>2. HoldsKey' /\ OneHolder' /\ CopiesKnown'
    BY <2>1 DEF HoldsKey, OneHolder, CopiesKnown
  <2>3. RecordsAgree'
    BY <2>1 DEF RecordsAgree, k
  <2> QED BY <2>1, <2>2, <2>3
<1>3. CASE Refuse(p)
  <2>1. /\ UNCHANGED <<attempts, copies, gone, noted, stored, to>>
        /\ pc[p] = "send" /\ pc' = [pc EXCEPT ![p] = "fail"]
    BY <1>3 DEF Refuse, threadVars
  <2>2. HoldsKey' /\ OneHolder' /\ CopiesKnown'
    BY <2>1 DEF HoldsKey, OneHolder, CopiesKnown
  <2>3. RecordsAgree'
    BY <2>1 DEF RecordsAgree
  <2> QED BY <2>1, <2>2, <2>3
<1>4. CASE Accept(p) \/ AcceptUnknown(p)
  <2>1. /\ UNCHANGED <<attempts, noted, stored, to>>
        /\ pc[p] = "send"
        /\ \E l \in {"persist", "copy", "fail"} : pc' = [pc EXCEPT ![p] = l]
        /\ copies' = [copies EXCEPT ![k] = @ + 1]
        /\ gone' = gone \cup {p}
    BY <1>4 DEF Accept, AcceptUnknown, Deliver, k
  <2>2. copies[k] = 0 /\ attempts[k] = "sending" /\ copies' = [copies EXCEPT ![k] = 1]
    <3>1. copies[k] = 0 /\ attempts[k] = "sending"
      BY <2>1 DEF CopiesKnown, HoldsKey, k
    <3> QED BY <2>1, <3>1
  <2>3. HoldsKey' /\ OneHolder'
    BY <2>1 DEF HoldsKey, OneHolder
  <2>4. \A q \in Caller \ {p} : pc[q] \in Holding => KeyOf(q) # k
    BY <2>1 DEF OneHolder, k
  <2>5. CopiesKnown'
    BY <2>1, <2>2, <2>4 DEF CopiesKnown, k
  <2>6. RecordsAgree'
    BY <2>1 DEF RecordsAgree
  <2>7. Once!Send(k)
    BY <2>1, <2>2 DEF Once!Send
  <2> QED BY <2>3, <2>5, <2>6, <2>7 DEF Once!OneNext
<1>6. CASE MarkFailed(p)
  <2>1. /\ UNCHANGED <<copies, gone, noted, stored, to>>
        /\ pc[p] = "fail" /\ pc' = [pc EXCEPT ![p] = "failed"]
        /\ \/ attempts' = [attempts EXCEPT ![k] = "failed"]
           \/ UNCHANGED attempts
    BY <1>6 DEF MarkFailed, Either, k
  <2>2. attempts[k] = "sending"
    BY <2>1 DEF HoldsKey, k
  <2>3. \A q \in Caller \ {p} : pc[q] \in Holding => KeyOf(q) # k
    BY <2>1 DEF OneHolder, k
  <2>4. HoldsKey' /\ OneHolder'
    <3>1. OneHolder'
      BY <2>1 DEF OneHolder
    <3>2. ASSUME NEW q \in Caller, pc'[q] \in Holding
          PROVE  attempts'[KeyOf(q)'] = "sending"
      <4>1. q # p /\ pc[q] \in Holding /\ KeyOf(q)' = KeyOf(q)
        BY <2>1, <3>2
      <4>2. KeyOf(q) # k /\ attempts[KeyOf(q)] = "sending"
        BY <2>3, <4>1 DEF HoldsKey
      <4>3. KeyOf(q) \in Key
        BY <4>1, HolderKey
      <4> QED BY <2>1, <4>1, <4>2, <4>3
    <3> QED BY <3>1, <3>2 DEF HoldsKey
  <2>5. CopiesKnown'
    BY <2>1, <2>2 DEF CopiesKnown
  <2>6. RecordsAgree'
    BY <2>1, <2>2 DEF RecordsAgree
  <2>7. Once!Conclude(k, "failed") \/ UNCHANGED <<attempts, copies>>
    BY <2>1, <2>2 DEF Once!Conclude
  <2> QED BY <2>4, <2>5, <2>6, <2>7 DEF Once!OneNext
<1>7. CASE AppendSent(p)
  <2>1. /\ UNCHANGED <<attempts, copies, gone, noted, stored, to>>
        /\ pc[p] = "copy" /\ pc' = [pc EXCEPT ![p] = "persist"]
    BY <1>7 DEF AppendSent
  <2>2. HoldsKey' /\ OneHolder' /\ CopiesKnown'
    BY <2>1 DEF HoldsKey, OneHolder, CopiesKnown
  <2>3. RecordsAgree'
    BY <2>1 DEF RecordsAgree
  <2> QED BY <2>1, <2>2, <2>3
<1>8. CASE Persist(p)
  <2>1. /\ UNCHANGED <<copies, gone, to>>
        /\ pc[p] = "persist" /\ pc' = [pc EXCEPT ![p] = "sent"]
        /\ attempts[k] = "sending" /\ attempts' = [attempts EXCEPT ![k] = "sent"]
        /\ noted' = noted \cup {p} /\ stored' = stored \cup {p}
    BY <1>8 DEF Persist, k
  <2>2. copies[k] = 1 /\ p \in gone
    BY <2>1 DEF CopiesKnown, OursLeft, k
  <2>3. \A q \in Caller \ {p} : pc[q] \in Holding => KeyOf(q) # k
    BY <2>1 DEF OneHolder, k
  <2>4. HoldsKey' /\ OneHolder'
    BY <2>1, <2>3 DEF HoldsKey, OneHolder
  <2>5. CopiesKnown'
    BY <2>1, <2>2 DEF CopiesKnown
  <2>6. RecordsAgree'
    BY <2>1, <2>2 DEF RecordsAgree, k
  <2>7. Once!Conclude(k, "sent")
    BY <2>1, <2>2 DEF Once!Conclude
  <2> QED BY <2>4, <2>5, <2>6, <2>7 DEF Once!OneNext
<1>9. CASE PersistFails(p) \/ Die(p)
  <2>1. /\ UNCHANGED <<attempts, copies, gone, noted, stored, to>>
        /\ \E l \in {"unrecorded", "dead"} : pc' = [pc EXCEPT ![p] = l]
    BY <1>9 DEF PersistFails, Die
  <2> QED BY <2>1, <1>t, KeysKept
<1> QED BY <1>1, <1>2, <1>3, <1>4, <1>6, <1>7, <1>8, <1>9 DEF SendReply

-----------------------------------------------------------------------------
LEMMA NextKeys ==
  ASSUME IInv, [Next]_vars
  PROVE  IInv' /\ [Once!OneNext]_<<attempts, copies>>
<1>1. CASE ThreadStep /\ UNCHANGED replyVars
  BY <1>1, ThreadStepTyped, ThreadStepKeys DEF IInv, replyVars
<1>2. ASSUME NEW p \in Caller, Preview(p)
      PROVE IInv' /\ [Once!OneNext]_<<attempts, copies>>
  BY <1>2, PreviewTyped, PreviewKeys DEF IInv
<1>3. ASSUME NEW p \in Caller, SendReply(p)
      PROVE IInv' /\ [Once!OneNext]_<<attempts, copies>>
  BY <1>3, SendReplyTyped, SendReplyKeys DEF IInv
<1>4. CASE UNCHANGED vars
  <2>1. TypeInv'
    BY <1>4 DEF vars, threadVars, replyVars, IInv, TypeInv, TypeOK, ThreadTypeOK, OursLeft
  <2> QED BY <1>4, <2>1, KeysKept DEF vars, threadVars, replyVars, IInv
<1> QED BY <1>1, <1>2, <1>3, <1>4 DEF Next

LEMMA KeysHold == Spec => []IInv
<1>1. Init => IInv
  BY InitTyped, InitKeys DEF IInv
<1>2. IInv /\ [Next]_vars => IInv'
  BY NextKeys
<1> QED BY <1>1, <1>2, PTL DEF Spec

\* No idempotency key sends two mails, for any number of invocations, crashes
\* and ambiguous answers.
THEOREM OneMailPerKey == Spec => []KeyDeliveredOnce
<1>1. IInv => KeyDeliveredOnce
  BY DEF IInv, KeyInv, CopiesKnown, KeyDeliveredOnce
<1> QED BY <1>1, KeysHold, PTL

\* The attempts table, the events and what was answered agree.
THEOREM ReplyRecordsAgree == Spec => []RecordsAgree
<1>1. IInv => RecordsAgree
  BY DEF IInv, KeyInv
<1> QED BY <1>1, KeysHold, PTL

\* Manual replies implement OneDelivery: a claim is the INSERT, a send the
\* provider's acceptance, a conclusion the last UPDATE.
THEOREM RepliesImplementOneDelivery == Spec => OneDeliveryPerKey
<1>1. Init => Once!OneInit
  BY DEF Init, Once!OneInit
<1>2. IInv /\ [Next]_vars => [Once!OneNext]_<<attempts, copies>>
  BY NextKeys
<1> QED BY <1>1, <1>2, KeysHold, PTL DEF Spec, OneDeliveryPerKey, Once!OneSpec

-----------------------------------------------------------------------------
(* Opt-outs. *)

\* What is on record stays there, so whoever starts after it waits at the
\* gate until it is turned away.
Warned ==
  \A p \in warned : OptOutOnRecord /\ pc[p] \in {"store", "gate", "send_gate"}

OptOutInv == IInv /\ Warned

LEMMA OptOutStays ==
  ASSUME TypeInv, [Next]_vars, OptOutOnRecord
  PROVE  OptOutOnRecord'
<1>1. recorded \subseteq recorded' /\ (lead # "active" => lead' # "active")
  <2>1. CASE ThreadStep
    BY <2>1 DEF ThreadStep, Arrive, PollTakeUp, PollEvent, PollSnapshot,
       PollSuppress, PollStops, PollGoesTo, Either
  <2>2. ASSUME NEW p \in Caller, Preview(p) \/ SendReply(p)
        PROVE  recorded \subseteq recorded' /\ (lead # "active" => lead' # "active")
    <3>1. UNCHANGED <<recorded, lead>>
      BY <2>2 DEF Preview, Refresh, StoreListed, Listed, Gate, Confirm, Resolve,
         Reject, SendReply, Reserve, Lookup, Refuse, Accept, AcceptUnknown,
         MarkFailed, AppendSent, Persist, PersistFails, Die, threadVars
    <3> QED BY <3>1
  <2>3. CASE UNCHANGED vars
    BY <2>3 DEF vars, threadVars
  <2> QED BY <2>1, <2>2, <2>3 DEF Next
<1> QED BY <1>1 DEF OptOutOnRecord

LEMMA WarnedStep ==
  ASSUME OptOutInv, [Next]_vars
  PROVE  Warned'
<1>0. /\ TypeInv /\ Warned /\ warned \subseteq Caller
      /\ pc \in [Caller -> Previewing \cup {"reserve", "lookup"} \cup Holding \cup Ended]
  BY DEF OptOutInv, IInv, TypeInv, TypeOK
<1>1. SUFFICES ASSUME NEW p \in warned'
               PROVE  OptOutOnRecord' /\ pc'[p] \in {"store", "gate", "send_gate"}
  BY DEF Warned
<1>o. OptOutOnRecord => OptOutOnRecord'
  BY <1>0, OptOutStays
<1>2. ASSUME UNCHANGED warned, pc'[p] = pc[p]
      PROVE  OptOutOnRecord' /\ pc'[p] \in {"store", "gate", "send_gate"}
  BY <1>0, <1>1, <1>2, <1>o DEF Warned
<1>3. CASE (ThreadStep /\ UNCHANGED replyVars) \/ UNCHANGED vars
  BY <1>2, <1>3 DEF replyVars, vars
<1>4. ASSUME NEW q \in Caller, Preview(q)
      PROVE  OptOutOnRecord' /\ pc'[p] \in {"store", "gate", "send_gate"}
  <2>1. CASE Refresh(q)
    <3>1. p \in warned \/ (p = q /\ OptOutOnRecord)
      BY <1>1, <2>1 DEF Refresh
    <3>2. CASE p = q
      BY <1>0, <1>o, <2>1, <3>1, <3>2 DEF Refresh, Listed, Goto, Warned
    <3>3. CASE p # q
      BY <1>0, <1>o, <2>1, <3>1, <3>3 DEF Refresh, Listed, Goto, Warned
    <3> QED BY <3>2, <3>3
  <2>2. CASE StoreListed(q)
    <3>1. /\ warned' = warned
          /\ \E l \in {"store", "gate", "send_gate"} : pc' = [pc EXCEPT ![q] = l]
      BY <2>2 DEF StoreListed, Listed, Goto
    <3> QED BY <1>0, <1>1, <1>o, <3>1 DEF Warned
  <2>3. CASE Gate(q)
    <3>1. warned' = warned /\ ~OptOutOnRecord
      BY <2>3 DEF Gate
    <3> QED BY <1>0, <1>1, <3>1 DEF Warned
  <2>4. CASE Confirm(q) \/ Resolve(q)
    <3>1. warned' = warned /\ pc[q] \in {"resolve", "send_resolve"}
      BY <2>4 DEF Confirm, Resolve
    <3>2. p # q
      BY <1>0, <1>1, <3>1 DEF Warned
    <3>3. pc'[p] = pc[p]
      BY <1>0, <1>1, <2>4, <3>1, <3>2 DEF Confirm, Resolve, Goto
    <3> QED BY <1>2, <3>1, <3>3
  <2>5. CASE Reject(q)
    <3>1. p \in warned /\ p # q
      BY <1>1, <2>5 DEF Reject
    <3> QED BY <1>0, <1>o, <2>5, <3>1 DEF Reject, Goto, Warned
  <2> QED BY <1>4, <2>1, <2>2, <2>3, <2>4, <2>5 DEF Preview
<1>5. ASSUME NEW q \in Caller, SendReply(q)
      PROVE  OptOutOnRecord' /\ pc'[p] \in {"store", "gate", "send_gate"}
  <2>1. warned' = warned /\ pc[q] \in {"reserve", "lookup"} \cup Holding
    BY <1>5 DEF SendReply, Reserve, Lookup, Refuse, Accept, AcceptUnknown,
       MarkFailed, AppendSent, Persist, PersistFails, Die, Holding
  <2>2. p # q
    BY <1>0, <1>1, <2>1 DEF Warned, Holding
  <2>3. pc'[p] = pc[p]
    BY <1>0, <1>1, <1>5, <2>1, <2>2 DEF SendReply, Reserve, Lookup, Refuse, Accept,
       AcceptUnknown, MarkFailed, AppendSent, Persist, PersistFails, Die, Goto
  <2> QED BY <1>2, <2>1, <2>3
<1> QED BY <1>3, <1>4, <1>5 DEF Next

\* An invocation that starts once an opt-out is on record never sends, not
\* even where the tick died between the event and the lead's status, and
\* whatever the refresh, other invocations and the tick do meanwhile.
THEOREM OptOutsOnRecordBlock == Spec => []RecordedOptOutBlocks
<1>1. Init => OptOutInv
  BY InitTyped, InitKeys DEF OptOutInv, IInv, Warned, Init
<1>2. OptOutInv /\ [Next]_vars => OptOutInv'
  BY NextKeys, WarnedStep DEF OptOutInv
<1>3. OptOutInv => RecordedOptOutBlocks
  BY DEF OptOutInv, IInv, TypeInv, OursLeft, Warned, RecordedOptOutBlocks, Holding, Ended
<1> QED BY <1>1, <1>2, <1>3, PTL DEF Spec
=============================================================================
