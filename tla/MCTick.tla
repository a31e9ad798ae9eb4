------------------------------- MODULE MCTick -------------------------------
(* One campaign on one account.  alice has a sequence, bob a single mail.   *)
EXTENDS TickProperties, TLC

CONSTANTS alice, bob, camp, acct, a1, a2, a3, b1, m1, m2

MCLead       == {alice, bob}
MCRow        == a1 :> 1 @@ a2 :> 2 @@ a3 :> 3 @@ b1 :> 1
MCLeadOf     == [s \in Send |-> IF s = b1 THEN bob ELSE alice]
MCCampaignOf == [s \in Send |-> camp]
MCAccountOf  == [s \in Send |-> acct]
MCStepOf     == [s \in Send |-> MCRow[s]]
MCDomainOf   == [l \in MCLead |-> "corp"]
NoMessages   == [m \in {} |-> 0]
\* alice answers her first mail, bob's mailbox acknowledges his.
MCKind       == m1 :> "reply" @@ m2 :> "auto_reply"
MCReplyTo    == m1 :> a1 @@ m2 :> b1
=============================================================================
