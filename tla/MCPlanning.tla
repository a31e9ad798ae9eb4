----------------------------- MODULE MCPlanning -----------------------------
(* Two campaigns share an account; lead 2 lives in another time zone.       *)
EXTENDS PlanningProperties, TLC

Whenever == [start |-> NoDate, from |-> 0, to |-> 3, days |-> 0 .. 6, zone |-> 0, gap |-> 1]
Dated    == [start |-> 1, from |-> 1, to |-> 3, days |-> {1, 2, 4}, zone |-> 1, gap |-> 2]

MCSettings == {Whenever, Dated}
MCEdits    == {[start |-> 2], [from |-> 2, to |-> 4], [days |-> {3, 5}], [gap |-> 2], [zone |-> 2]}
MCDelay    == <<0, 1>>
MCLeadZone == 2 :> 2
MCRotations == {{1}, {1, 2}}
MCBatches  == {{1}, {1, 2}}
MCDates    == {NoDate, 2}

Operations == {"create", "clone", "add", "update", "state", "now", "retry", "limit",
               "preview", "delete", "stops", "replies", "failures", "faults",
               "dryruns", "time", "cron"}

\* The stories told: commands among themselves, then commands, ticks and
\* faults.  Cron runs in the stories that have it.
Budget(f) == [o \in Operations |-> IF o \in DOMAIN f THEN f[o] ELSE 0]
Story(f)  == Budget([create |-> 1, state |-> 1, cron |-> 1] @@ f)

MCBudgets == {
  Budget([create |-> 2, add |-> 1]),
  Budget([create |-> 1, update |-> 2]),
  Budget([create |-> 1, state |-> 1, add |-> 1, now |-> 1, preview |-> 1]),
  Budget([create |-> 1, clone |-> 1, delete |-> 1, limit |-> 2, preview |-> 1]),
  Budget([time |-> 3, faults |-> 1, cron |-> 1]),
  Story([time |-> 2, retry |-> 1, failures |-> 1]),
  Story([now |-> 1, limit |-> 1]),
  Budget([create |-> 1, state |-> 3, time |-> 1, cron |-> 1]),
  Story([stops |-> 1, add |-> 1]),
  Story([stops |-> 1, faults |-> 1]),
  Story([stops |-> 1, dryruns |-> 1, failures |-> 1, retry |-> 1]),
  Story([replies |-> 1, delete |-> 1]) }
=============================================================================
