------------------------------- MODULE Outbox -------------------------------
(* What the operator's channel is promised of the inbox, whoever writes and *)
(* whoever announces: entries of a log are heard at least once and first    *)
(* heard in their order, and the cursor never passes one that was not, but  *)
(* by the hand of a subscriber: one that found no cursor writes one, and    *)
(* what lies behind it is passed over, however late it is written.          *)
EXTENDS Integers, Sequences

CONSTANTS
  Subscriber,
  Concerns(_)   \* is this entry one to be announced?

VARIABLES
  log,      \* entries, in the order of their numbers
  cursor,   \* what lies up to here is not looked at again
  heard,    \* numbers of the entries that were heard
  passed,   \* numbers of those a subscriber passed over
  looking   \* subscribers that found no cursor

boxVars == <<log, cursor, heard, passed, looking>>

Unset == -1

BoxInit == log = <<>> /\ cursor = Unset /\ heard = {} /\ passed = {} /\ looking = {}

Write ==
  /\ Len(log') = Len(log) + 1
  /\ SubSeq(log', 1, Len(log)) = log
  /\ UNCHANGED <<cursor, heard, passed, looking>>

\* An entry is labelled after it was written.
Label ==
  /\ Len(log') = Len(log)
  /\ UNCHANGED <<cursor, heard, passed, looking>>

Look(s) ==
  /\ cursor = Unset
  /\ looking' = looking \cup {s}
  /\ UNCHANGED <<log, cursor, heard, passed>>

GiveUp(s) ==
  /\ looking' = looking \ {s}
  /\ UNCHANGED <<log, cursor, heard, passed>>

Subscribe(s) ==
  /\ s \in looking /\ looking' = looking \ {s}
  /\ cursor' \in 0 .. Len(log)
  /\ passed' = passed \cup (1 .. cursor' \ heard)
  /\ UNCHANGED <<log, heard>>

Waiting == {i \in DOMAIN log : Concerns(log[i])} \ (heard \cup passed)

Hear(i) ==
  /\ cursor # Unset
  /\ i \in DOMAIN log /\ Concerns(log[i]) /\ \A j \in Waiting : i <= j
  /\ heard' = heard \cup {i}
  /\ UNCHANGED <<log, cursor, passed, looking>>

\* The cursor follows; it may fall back, and then entries are heard again.
Note(i) ==
  /\ i \in heard /\ \A j \in Waiting : i < j
  /\ cursor' = i
  /\ UNCHANGED <<log, heard, passed, looking>>

BoxNext ==
  \/ Write \/ Label
  \/ \E s \in Subscriber : Look(s) \/ GiveUp(s) \/ Subscribe(s)
  \/ \E i \in DOMAIN log : Hear(i) \/ Note(i)

BoxSpec == BoxInit /\ [][BoxNext]_boxVars
=============================================================================
