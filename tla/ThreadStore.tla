---------------------------- MODULE ThreadStore ----------------------------
(* One conversation as the database and the mailbox hold it: the snapshots  *)
(* in email_messages, the inbound events, the lead's global status, and the *)
(* two writers that fill them in besides the sender of a manual reply: the  *)
(* tick's poll (internal/reply.go) and the refresh of one thread            *)
(* (internal/email_thread_sync.go).                                         *)
EXTENDS Naturals, FiniteSets

CONSTANTS
  Msg,          \* what recipients may answer in this conversation
  Kind, From,   \* its classification and its sender
  Caller,       \* invocations of `inbox reply'; each sends one mail at most
  Address,
  First,        \* the campaign mail the conversation starts with
  LeadAddress,
  NoMsg,
  MaxArrivals,  \* bound: answers
  MaxFaults     \* bound: failed statements, lost outcomes and crashes

ASSUME ThreadAssumption ==
  /\ Kind \in [Msg -> {"reply", "unsubscribe", "auto_reply", "bounce"}]
  /\ From \in [Msg -> Address]
  /\ LeadAddress \in Address
  /\ Msg \cap Caller = {} /\ First \notin Msg \cup Caller /\ NoMsg \notin Msg
  /\ MaxArrivals \in Nat /\ MaxFaults \in Nat

\* A mail of the conversation is named by its message, or by the invocation
\* that sends it.
Mail == Msg \cup Caller \cup {First}

VARIABLES
  clock, date,  \* Date headers: the order of the conversation
  mailbox,      \* what the provider holds of it, INBOX and Sent
  stored,       \* email_messages: snapshots, by message_id
  recorded,     \* events: inbound messages, by message_id
  lead,         \* leads.global_status
  poll, msg,    \* the tick's next statement about the message it handles
  faults

threadVars == <<clock, date, mailbox, stored, recorded, lead, poll, msg, faults>>

ThreadTypeOK ==
  /\ clock \in Nat
  /\ date \in [Mail -> Nat]
  /\ mailbox \subseteq Mail
  /\ stored \subseteq Mail
  /\ recorded \subseteq Msg
  /\ lead \in {"active", "blacklisted", "bounced"}
  /\ poll \in {"idle", "event", "snapshot", "suppress"}
  /\ msg \in Msg \cup {NoMsg}
  /\ (msg \in Msg) <=> (poll # "idle")
  /\ faults \in Nat

OptOut == {"unsubscribe", "bounce"}

Fault == faults < MaxFaults /\ faults' = faults + 1

\* A statement that takes effect, or fails and is logged.
Either(Effect, Lost) == (Effect /\ UNCHANGED faults) \/ (Fault /\ Lost)

\* The next mail of the conversation gets a date of its own.
Dated(m) == clock' = clock + 1 /\ date' = [date EXCEPT ![m] = clock + 1]

\* ORDER BY occurred_at DESC LIMIT 1 over the snapshots; no two share a date.
Newest == {m \in stored : \A o \in stored : date[o] <= date[m]}

-----------------------------------------------------------------------------
(* The recipient, and the tick's poll. *)

Arrive(m) ==
  /\ m \notin mailbox /\ Cardinality(mailbox \cap Msg) < MaxArrivals
  /\ Dated(m)
  /\ mailbox' = mailbox \cup {m}
  /\ UNCHANGED <<stored, recorded, lead, poll, msg, faults>>

\* The reply poll takes up a message it has no event for; the bounce poll looks
\* at nothing but the lead, so a bounce comes up until the lead says so.
PollTakeUp(m) ==
  /\ poll = "idle"
  /\ m \in mailbox
  /\ IF Kind[m] = "bounce" THEN lead # "bounced" ELSE m \notin recorded
  /\ msg' = m
  /\ poll' = IF Kind[m] = "bounce" THEN "suppress" ELSE "event"
  /\ UNCHANGED <<clock, date, mailbox, stored, recorded, lead, faults>>

\* A slip: the message at hand is not put down.
PollKeepsMessage(next) ==
  /\ poll' = next
  /\ UNCHANGED <<msg, clock, date, mailbox>>

PollGoesTo(next) ==
  /\ poll' = next
  /\ msg' = IF next = "idle" THEN NoMsg ELSE msg
  /\ UNCHANGED <<clock, date, mailbox>>

\* An automatic answer whose event fails is dropped, a bounce that has its
\* event is not written again.
PollEvent ==
  /\ poll = "event"
  /\ \/ /\ recorded' = recorded \cup {msg}
        /\ PollGoesTo(IF msg \in recorded THEN "idle" ELSE "snapshot")
        /\ UNCHANGED faults
     \/ /\ msg \notin recorded /\ Fault /\ UNCHANGED recorded
        /\ PollGoesTo(IF Kind[msg] = "auto_reply" THEN "idle" ELSE "snapshot")
  /\ UNCHANGED <<stored, lead>>

PollSnapshot ==
  /\ poll = "snapshot"
  /\ Either(stored' = stored \cup {msg}, UNCHANGED stored)
  /\ PollGoesTo(IF Kind[msg] = "unsubscribe" THEN "suppress" ELSE "idle")
  /\ UNCHANGED <<recorded, lead>>

PollSuppress ==
  /\ poll = "suppress"
  /\ Either(lead' = IF Kind[msg] = "bounce" THEN "bounced" ELSE "blacklisted",
            UNCHANGED lead)
  /\ PollGoesTo(IF Kind[msg] = "bounce" THEN "event" ELSE "idle")
  /\ UNCHANGED <<stored, recorded>>

\* The tick dies with the message half handled.
PollStops ==
  /\ poll # "idle"
  /\ Fault
  /\ PollGoesTo("idle")
  /\ UNCHANGED <<stored, recorded, lead>>

ThreadInit ==
  /\ clock = 0
  /\ date = [m \in Mail |-> 0]
  /\ mailbox = {First}
  /\ stored = {First}
  /\ recorded = {}
  /\ lead = "active"
  /\ poll = "idle" /\ msg = NoMsg
  /\ faults = 0

ThreadStep ==
  \/ \E m \in Msg : Arrive(m) \/ PollTakeUp(m)
  \/ PollEvent \/ PollSnapshot \/ PollSuppress \/ PollStops
=============================================================================
