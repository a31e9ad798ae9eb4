------------------------------ MODULE MCInbox ------------------------------
(* alice is mailed by two campaigns on two accounts: two steps in `camp',   *)
(* one in `other'.  bob, of the same company, is in `camp' too.             *)
EXTENDS TickProperties, TLC

CONSTANTS alice, bob, camp, other, acct, box, a1, a2, b1, x1, m1, m2, m3

MCRow        == a1 :> 1 @@ a2 :> 2 @@ b1 :> 1 @@ x1 :> 1
MCLeadOf     == [s \in Send |-> IF s = b1 THEN bob ELSE alice]
MCCampaignOf == [s \in Send |-> IF s = x1 THEN other ELSE camp]
MCAccountOf  == [s \in Send |-> IF s = x1 THEN box ELSE acct]
MCStepOf     == [s \in Send |-> MCRow[s]]
MCDomainOf   == [l \in Lead |-> "corp"]

\* What alice may answer to her first mail.
Answers      == [m \in Msg |-> CASE m = m1 -> "reply"
                                [] m = m2 -> "bounce"
                                [] m = m3 -> "unsubscribe"]
MCReplyTo    == [m \in Msg |-> a1]
=============================================================================
