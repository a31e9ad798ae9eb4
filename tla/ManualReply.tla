---------------------------- MODULE ManualReply ----------------------------
(* `inbox reply --send' (internal/email_message.go, cmd/cold-cli/main.go):  *)
(* refresh the thread, resolve whom to answer, reserve an idempotency key,  *)
(* send, record.  Invocations run at the same time, next to a tick: none    *)
(* takes the tick lock.  Each reads, sends and writes in separate steps and *)
(* may die between any two of them.                                         *)
EXTENDS ThreadStore

CONSTANTS
  Cli,        \* invocations from the command line; the others call the
              \* engine directly and have nothing to confirm
  Confirmed,  \* --confirm-to
  Text,       \* subject and body of an invocation
  Handle,     \* --idempotency-key, or NoHandle
  NoHandle,
  NoAddress

ASSUME CallerAssumption ==
  /\ Cli \subseteq Caller
  /\ DOMAIN Confirmed = Cli /\ DOMAIN Text = Caller /\ DOMAIN Handle = Caller
  /\ NoAddress \notin Address

VARIABLES
  provider,   \* of the thread's account
  attempts,   \* manual_reply_attempts.status, by idempotency_key
  pc,         \* what each invocation does next
  listed,     \* mail its refresh has yet to store
  to,         \* the recipient it resolved last
  copies,     \* mails that left, by idempotency key
  gone,       \* invocations whose mail left
  noted,      \* manual_reply events: what the daily limit counts
  warned,     \* invocations, not rejected, that started after an opt-out was on
              \* record
  found       \* invocations, not rejected, whose refresh came upon an opt-out

replyVars == <<provider, attempts, pc, listed, to, copies, gone, noted, warned,
               found>>
vars      == <<threadVars, replyVars>>

\* manualReplyIdempotencyKey: the caller's own, or one made of the recipient
\* and the text.
Key == [handle : {Handle[p] : p \in Caller} \ {NoHandle}] \cup
       [text : {Text[p] : p \in Caller}, to : Address]

KeyFor(p, a) == IF Handle[p] # NoHandle THEN [handle |-> Handle[p]]
                ELSE [text |-> Text[p], to |-> a]

KeyOf(p) == KeyFor(p, to[p])

Previewing == {"start", "store", "gate", "resolve", "send_gate", "send_resolve"}
Holding    == {"send", "fail", "copy", "persist"}
Ended      == {"sent", "unrecorded", "failed", "already", "refused", "dead"}

TypeOK ==
  /\ ThreadTypeOK
  /\ provider \in {"gws", "smtp_imap"}
  /\ attempts \in [Key -> {"none", "sending", "sent", "failed"}]
  /\ pc \in [Caller -> Previewing \cup {"reserve", "lookup"} \cup Holding \cup Ended]
  /\ listed \in [Caller -> SUBSET Mail]
  /\ to \in [Caller -> Address \cup {NoAddress}]
  /\ \A p \in Caller : pc[p] \in {"reserve", "lookup"} \cup Holding => to[p] \in Address
  /\ copies \in [Key -> Nat]
  /\ gone \subseteq Caller
  /\ noted \subseteq Caller
  /\ warned \subseteq Caller
  /\ found \subseteq Caller

Goto(p, l) == pc' = [pc EXCEPT ![p] = l]

-----------------------------------------------------------------------------
(* SyncEmailThread: the provider's list is stored mail by mail. *)

OptOutOnRecord == lead # "active" \/ \E m \in recorded : Kind[m] \in OptOut

\* The command line previews, asks for confirmation, and previews again
\* inside SendInboxReply.
Listed(p, mail) ==
  /\ listed' = [listed EXCEPT ![p] = mail]
  /\ Goto(p, IF mail # {} THEN "store" ELSE IF p \in Cli THEN "gate" ELSE "send_gate")

Refresh(p) ==
  /\ pc[p] = "start" /\ Listed(p, mailbox \ stored)
  /\ warned' = IF OptOutOnRecord THEN warned \cup {p} ELSE warned
  /\ found' = IF \E m \in Msg \ stored : m \in mailbox /\ Kind[m] \in OptOut
                THEN found \cup {p} ELSE found
  /\ UNCHANGED <<threadVars, provider, attempts, to, copies, gone, noted>>

StoreListed(p) ==
  /\ pc[p] = "store"
  /\ \E m \in listed[p] :
       /\ \A o \in listed[p] : date[m] <= date[o]
       /\ stored' = stored \cup {m}
       /\ Listed(p, listed[p] \ {m})
  /\ UNCHANGED <<clock, date, mailbox, recorded, lead, poll, msg, faults, provider,
                 attempts, to, copies, gone, noted, warned, found>>

-----------------------------------------------------------------------------
(* PreviewInboxReply: first who may not be answered, then whom to answer. *)

\* A slip: what the lead's status says is taken for all there is to know.
GateOnStatus(p) ==
  /\ pc[p] \in {"gate", "send_gate"}
  /\ lead = "active"
  /\ Goto(p, IF pc[p] = "gate" THEN "resolve" ELSE "send_resolve")
  /\ UNCHANGED <<threadVars, provider, attempts, listed, to, copies, gone, noted,
                 warned, found>>

Gate(p) ==
  /\ pc[p] \in {"gate", "send_gate"}
  /\ ~OptOutOnRecord
  /\ Goto(p, IF pc[p] = "gate" THEN "resolve" ELSE "send_resolve")
  /\ UNCHANGED <<threadVars, provider, attempts, listed, to, copies, gone, noted,
                 warned, found>>

\* The newest mail decides whether and whom to answer.
Answerable(m) == m \in Msg => Kind[m] = "reply"

Recipient(m) == CASE m \in Msg    -> From[m]
                  [] m \in Caller -> to[m]
                  [] OTHER        -> LeadAddress

Confirm(p) ==
  /\ pc[p] = "resolve" /\ Goto(p, "send_gate")
  /\ \E m \in Newest : Answerable(m) /\ Recipient(m) = Confirmed[p]
  /\ UNCHANGED <<threadVars, provider, attempts, listed, to, copies, gone, noted,
                 warned, found>>

Resolve(p) ==
  /\ pc[p] = "send_resolve" /\ Goto(p, "reserve")
  /\ \E m \in Newest : Answerable(m) /\ to' = [to EXCEPT ![p] = Recipient(m)]
  /\ Dated(p)
  /\ UNCHANGED <<mailbox, stored, recorded, lead, poll, msg, faults, provider,
                 attempts, listed, copies, gone, noted, warned, found>>

\* Nothing is sent: opted out, not answerable, not confirmed, the account or
\* the membership is gone, headers are unusable, or a query or the provider
\* failed.
Reject(p) ==
  /\ pc[p] \in Previewing /\ Goto(p, "refused")
  /\ listed' = [listed EXCEPT ![p] = {}]
  /\ warned' = warned \ {p} /\ found' = found \ {p}
  /\ UNCHANGED <<threadVars, provider, attempts, to, copies, gone, noted>>

-----------------------------------------------------------------------------
(* The reservation: an INSERT under a UNIQUE constraint. *)

\* A slip: without the constraint a second INSERT goes through.
ReserveUnguarded(p) ==
  /\ pc[p] = "reserve"
  /\ IF attempts[KeyOf(p)] \in {"none", "sending"}
       THEN /\ attempts' = [attempts EXCEPT ![KeyOf(p)] = "sending"]
            /\ Goto(p, "send")
       ELSE Goto(p, "lookup") /\ UNCHANGED attempts
  /\ UNCHANGED <<threadVars, provider, listed, to, copies, gone, noted, warned, found>>

Reserve(p) ==
  /\ pc[p] = "reserve"
  /\ IF attempts[KeyOf(p)] = "none"
       THEN /\ attempts' = [attempts EXCEPT ![KeyOf(p)] = "sending"]
            /\ Goto(p, "send")
       ELSE Goto(p, "lookup") /\ UNCHANGED attempts
  /\ UNCHANGED <<threadVars, provider, listed, to, copies, gone, noted, warned, found>>

\* A slip: an attempt that has begun is taken for one that went through.
LookupHopeful(p) ==
  /\ pc[p] = "lookup"
  /\ Goto(p, IF attempts[KeyOf(p)] # "failed" THEN "already" ELSE "refused")
  /\ UNCHANGED <<threadVars, provider, attempts, listed, to, copies, gone, noted,
                 warned, found>>

\* Only an attempt that is recorded as sent is answered with success.
Lookup(p) ==
  /\ pc[p] = "lookup"
  /\ Goto(p, IF attempts[KeyOf(p)] = "sent" THEN "already" ELSE "refused")
  /\ UNCHANGED <<threadVars, provider, attempts, listed, to, copies, gone, noted,
                 warned, found>>

-----------------------------------------------------------------------------
(* Delivery, and what is written after it. *)

\* The contacts cannot be loaded, the pre-send check or the provider says no.
Refuse(p) ==
  /\ pc[p] = "send" /\ Goto(p, "fail")
  /\ UNCHANGED <<threadVars, provider, attempts, listed, to, copies, gone, noted,
                 warned, found>>

\* Gmail keeps the sent mail in its thread; SMTP needs a copy appended.
Deliver(p) ==
  /\ copies' = [copies EXCEPT ![KeyOf(p)] = @ + 1]
  /\ gone' = gone \cup {p}
  /\ mailbox' = IF provider = "gws" THEN mailbox \cup {p} ELSE mailbox

Accept(p) ==
  /\ pc[p] = "send" /\ Goto(p, IF provider = "gws" THEN "persist" ELSE "copy")
  /\ Deliver(p)
  /\ UNCHANGED <<clock, date, stored, recorded, lead, poll, msg, faults, provider,
                 attempts, listed, to, noted, warned, found>>

\* The mail is out, the answer is an error or carries no ids.
AcceptUnknown(p) ==
  /\ pc[p] = "send" /\ Goto(p, "fail")
  /\ Fault
  /\ Deliver(p)
  /\ UNCHANGED <<clock, date, stored, recorded, lead, poll, msg, provider,
                 attempts, listed, to, noted, warned, found>>

MarkFailed(p) ==
  /\ pc[p] = "fail" /\ Goto(p, "failed")
  /\ Either(attempts' = [attempts EXCEPT ![KeyOf(p)] = "failed"], UNCHANGED attempts)
  /\ UNCHANGED <<clock, date, mailbox, stored, recorded, lead, poll, msg,
                 provider, listed, to, copies, gone, noted, warned, found>>

\* A failed copy is a warning.
AppendSent(p) ==
  /\ pc[p] = "copy" /\ Goto(p, "persist")
  /\ Either(mailbox' = mailbox \cup {p}, UNCHANGED mailbox)
  /\ UNCHANGED <<clock, date, stored, recorded, lead, poll, msg, provider,
                 attempts, listed, to, copies, gone, noted, warned, found>>

\* One transaction: the event, the snapshot, and the attempt if it still is
\* `sending'.
Persist(p) ==
  /\ pc[p] = "persist" /\ attempts[KeyOf(p)] = "sending"
  /\ Goto(p, "sent")
  /\ attempts' = [attempts EXCEPT ![KeyOf(p)] = "sent"]
  /\ stored' = stored \cup {p}
  /\ noted' = noted \cup {p}
  /\ UNCHANGED <<clock, date, mailbox, recorded, lead, poll, msg, faults, provider,
                 listed, to, copies, gone, warned, found>>

PersistFails(p) ==
  /\ pc[p] = "persist" /\ Goto(p, "unrecorded")
  /\ IF attempts[KeyOf(p)] = "sending" THEN Fault ELSE UNCHANGED faults
  /\ UNCHANGED <<clock, date, mailbox, stored, recorded, lead, poll, msg,
                 provider, attempts, listed, to, copies, gone, noted, warned, found>>

\* The process dies, or its key can be neither written nor read.
Die(p) ==
  /\ pc[p] \in Holding \cup {"reserve", "lookup"} /\ Goto(p, "dead")
  /\ Fault
  /\ UNCHANGED <<clock, date, mailbox, stored, recorded, lead, poll, msg,
                 provider, attempts, listed, to, copies, gone, noted, warned, found>>

-----------------------------------------------------------------------------
Init ==
  /\ ThreadInit
  /\ provider \in {"gws", "smtp_imap"}
  /\ attempts = [k \in Key |-> "none"]
  /\ pc = [p \in Caller |-> "start"]
  /\ listed = [p \in Caller |-> {}]
  /\ to = [p \in Caller |-> NoAddress]
  /\ copies = [k \in Key |-> 0]
  /\ gone = {} /\ noted = {} /\ warned = {} /\ found = {}

Preview(p) ==
  \/ Refresh(p) \/ StoreListed(p)
  \/ Gate(p) \/ Confirm(p) \/ Resolve(p) \/ Reject(p)

SendReply(p) ==
  \/ Reserve(p) \/ Lookup(p)
  \/ Refuse(p) \/ Accept(p) \/ AcceptUnknown(p) \/ MarkFailed(p)
  \/ AppendSent(p) \/ Persist(p) \/ PersistFails(p) \/ Die(p)

Next ==
  \/ ThreadStep /\ UNCHANGED replyVars
  \/ \E p \in Caller : Preview(p) \/ SendReply(p)

Spec == Init /\ [][Next]_vars
-----------------------------------------------------------------------------
(* What a manual reply promises. *)

\* A key is used for one mail at most, and its row tells the truth about it:
\* the attempts table and the provider implement OneDelivery.
Once == INSTANCE OneDelivery WITH Key <- Key, attempts <- attempts, copies <- copies

OneDeliveryPerKey == Once!OneSpec

\* No two mails leave under one key, whatever crashes, failed statements and
\* ambiguous answers there are and however often the command is repeated.
KeyDeliveredOnce == \A k \in Key : copies[k] <= 1

\* The three records of a manual reply agree: the attempt says sent exactly
\* when the event that the daily limit counts is there, for a mail that left;
\* and an invocation is told that its reply was already sent only if it was.
RecordsAgree ==
  /\ noted \subseteq gone \cap stored
  /\ \A k \in Key : attempts[k] = "sent" <=> \E p \in noted : KeyOf(p) = k
  /\ \A p \in Caller : pc[p] = "already" => \E q \in gone : KeyOf(q) = KeyOf(p)

\* An invocation that starts once an opt-out is on record sends nothing: not
\* even where the tick died between the event and the lead's status.
RecordedOptOutBlocks == warned \cap gone = {}

\* The mail goes to the address that was confirmed.
ConfirmedRecipient == \A p \in gone \cap Cli : to[p] = Confirmed[p]

\* A refresh that discovers an opt-out blocks the send.
DiscoveredOptOutBlocks == found \cap gone = {}
=============================================================================
