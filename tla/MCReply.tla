------------------------------ MODULE MCReply ------------------------------
(* An operator types a reply and repeats it, the engine's host sends        *)
(* another.  The lead answers, so does an assistant of hers.                *)
EXTENDS ManualReply, TLC

CONSTANTS ann, bo, c1, c2, m1, m2, m3, hey

MCKind    == [m \in Msg |-> CASE m = m1 -> "reply"
                             [] m = m2 -> "unsubscribe"
                             [] m = m3 -> "bounce"]
MCFrom    == [m \in Msg |-> IF m = m1 THEN bo ELSE ann]
FromLead  == [m \in Msg |-> ann]
MCText    == [p \in Caller |-> hey]
MCConfirm == [p \in Cli |-> ann]
NoHandles == [p \in Caller |-> NoHandle]
=============================================================================
