------------------------------ MODULE Calendar ------------------------------
(* When a campaign may send (internal/scheduler.go): instants, the local    *)
(* days of a time zone, the send window and the send days, and how a time   *)
(* that is not admissible is moved to the next one that is.                 *)
(*                                                                          *)
(* An instant is a number of slots since the epoch in UTC; a day has        *)
(* DaySlots of them.  A zone is an offset in slots.                         *)
EXTENDS Integers, FiniteSetsExt

CONSTANT DaySlots

ASSUME DaySlotsAssumption == DaySlots \in Nat \ {0}

\* The weekday of day 0 of the epoch is called 0.
Week == 7

UTCDay(t)       == t \div DaySlots
LocalDay(t, r)  == UTCDay(t + r.zone)
TimeOfDay(t, r) == (t + r.zone) % DaySlots

\* The instant at which the send window of local day d opens.
Opening(d, r) == d * DaySlots + r.from - r.zone

SendDay(d, r) == d % Week \in r.days

\* isInSendWindow: what the sender asks of the present moment.
InWindow(t, r) ==
  SendDay(LocalDay(t, r), r) /\ TimeOfDay(t, r) \in r.from .. (r.to - 1)

\* The first send day at or after d.  ParseSendDays returns one day at least.
NextSendDay(d, r) == Min({e \in d .. (d + Week - 1) : SendDay(e, r)})

\* A slip: the end of the window counted as inside it.
ClampInclusive(t, r) ==
  LET day  == LocalDay(t, r)
      open == IF TimeOfDay(t, r) < r.from    THEN Opening(day, r)
              ELSE IF TimeOfDay(t, r) > r.to THEN Opening(day + 1, r)
              ELSE t
  IN IF SendDay(LocalDay(open, r), r) THEN open
     ELSE Opening(NextSendDay(LocalDay(open, r), r), r)

\* clampToWindow: before the window, its opening; after it, the next day's;
\* on a day without sending, the opening of the next day with.
Clamp(t, r) ==
  LET day  == LocalDay(t, r)
      open == IF TimeOfDay(t, r) < r.from     THEN Opening(day, r)
              ELSE IF TimeOfDay(t, r) >= r.to THEN Opening(day + 1, r)
              ELSE t
  IN IF SendDay(LocalDay(open, r), r) THEN open
     ELSE Opening(NextSendDay(LocalDay(open, r), r), r)

\* nextScheduledTime.
NextTime(t, delay, r) == Clamp(t + delay * DaySlots, r)

\* campaignStartAnchor: no earlier than now, nor than the opening of the date.
NoDate == -1

StartAnchor(now, date, r) ==
  IF date = NoDate \/ Opening(date, r) < now THEN now ELSE Opening(date, r)

\* leadStartAnchor: the later of the campaign's start and the cohort's.
LeadAnchor(now, cohort, r) ==
  Max({StartAnchor(now, r.start, r), StartAnchor(now, cohort, r)})

\* campaignStartDateArrived.
Arrived(date, now, r) == date = NoDate \/ date <= LocalDay(now, r)
=============================================================================
