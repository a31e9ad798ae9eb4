---------------------------- MODULE OneDelivery ----------------------------
(* What an idempotency key promises, whoever uses it and however often: its *)
(* mail leaves once at most, an outcome is written once at most, and "sent" *)
(* is never written of a mail that did not leave.  A key whose outcome is   *)
(* not known is never given out again.                                      *)
EXTENDS Naturals

CONSTANT Key

VARIABLES
  attempts,   \* what is known of the key
  copies      \* how many mails have left under it

OneInit ==
  /\ attempts = [k \in Key |-> "none"]
  /\ copies = [k \in Key |-> 0]

Claim(k) ==
  /\ attempts[k] = "none"
  /\ attempts' = [attempts EXCEPT ![k] = "sending"]
  /\ UNCHANGED copies

Send(k) ==
  /\ attempts[k] = "sending" /\ copies[k] = 0
  /\ copies' = [copies EXCEPT ![k] = 1]
  /\ UNCHANGED attempts

Conclude(k, outcome) ==
  /\ attempts[k] = "sending"
  /\ outcome = "sent" => copies[k] = 1
  /\ attempts' = [attempts EXCEPT ![k] = outcome]
  /\ UNCHANGED copies

OneNext ==
  \E k \in Key : Claim(k) \/ Send(k) \/ \E o \in {"sent", "failed"} : Conclude(k, o)

OneSpec == OneInit /\ [][OneNext]_<<attempts, copies>>
=============================================================================
