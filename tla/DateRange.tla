------------------------------ MODULE DateRange ------------------------------
(***************************************************************************)
(* internal/leave/policy.go: parseDateRange counts the days of a request   *)
(* by stepping a cursor through wall-clock times of APP_TIMEZONE.  A time  *)
(* is a pair <<day, hour>>.  A zone may skip the first hour of one day, as *)
(* zones do that start summer time at midnight; a zone that skips another  *)
(* hour, or none, never disturbs the hours met here.                       *)
(***************************************************************************)
EXTENDS Integers

CONSTANTS
  LastDay,  \* days of the one calendar year, 1 .. LastDay
  None,     \* the zone skips no midnight
  Zone      \* the zones APP_TIMEZONE may name: the day whose first hour they
            \* skip, and on which side of Greenwich they lie

ASSUME DateRangeAssumption ==
  /\ LastDay \in Nat \ {0}
  /\ None \notin Nat
  /\ Zone \subseteq
       [skipped : (1 .. LastDay) \cup {None}, side : {"east", "west"}]

Day == 1 .. LastDay
Time == (Day \cup {0, LastDay + 1}) \X (0 .. 23)

VARIABLES
  zone, first, last,  \* what the request names
  start, end,         \* the parsed times, stored as the request's dates
  cursor, days, pc

vars == <<zone, first, last, start, end, cursor, days, pc>>

\* time.Date and time.ParseInLocation: a wall time that the zone skips is
\* read with the offset of before the change east of Greenwich, and with the
\* offset of after it to the west.
DateIn(z, day, hour) ==
  IF z.skipped # day \/ hour # 0 THEN <<day, hour>>
  ELSE IF z.side = "east" THEN <<day, 1>> ELSE <<day - 1, 23>>

After(a, b) == a[1] > b[1] \/ (a[1] = b[1] /\ a[2] > b[2])

\* AddDate(0, 0, 1) keeps the hour of the cursor, not the requested midnight.
SameDay == cursor
NextDay == DateIn(zone, cursor[1] + 1, cursor[2])

AtOrAfter(a, b) == After(a, b) \/ a = b
OverAtEnd(c) == AtOrAfter(c, end)
Over(c) == After(c, end)

\* The two times must lie in one year: day 0 is in the year before.
SameYear == start[1] = 0 <=> end[1] = 0

Init ==
  /\ zone \in Zone
  /\ first \in Day
  /\ last \in first .. LastDay
  /\ start = DateIn(zone, first, 0)
  /\ end = DateIn(zone, last, 0)
  /\ SameYear
  /\ cursor = start
  /\ days = 0
  /\ pc = "loop"

MaxDays == LastDay + 1  \* bound on the counter, which the loop never meets

Count ==
  /\ pc = "loop" /\ ~Over(cursor) /\ days < MaxDays
  /\ days' = days + 1
  /\ cursor' = NextDay
  /\ UNCHANGED <<zone, first, last, start, end, pc>>

Return ==
  /\ pc = "loop" /\ Over(cursor)
  /\ pc' = "done"
  /\ UNCHANGED <<zone, first, last, start, end, cursor, days>>

Next == Count \/ Return

Spec == Init /\ [][Next]_vars
FairSpec == Spec /\ WF_vars(Next)

----------------------------------------------------------------------------
(* Properties *)

TypeOK ==
  /\ zone \in Zone
  /\ first \in Day /\ last \in Day
  /\ start \in Time /\ end \in Time /\ cursor \in Time
  /\ days \in 0 .. LastDay
  /\ pc \in {"loop", "done"}

Charged == last - first + 1

\* The duration is the number of calendar days, both ends included
\* (README: "hari kalender inklusif"; policy_test.go counts them across a
\* change of the clocks).
InclusiveDays == pc = "done" => days = Charged

Skips(d) == zone.skipped = d

\* A request loses a day exactly when its zone is ahead of UTC and skips the
\* midnight of one of its days but the last: the cursor is at 01:00 from there
\* on, and the last midnight is over before it arrives.  No day is ever added.
LosesADay == zone.side = "east" /\ \E d \in first .. last - 1 : Skips(d)
DaysCounted ==
  /\ days <= Charged
  /\ pc = "done" => days = IF LosesADay THEN Charged - 1 ELSE Charged

\* The loop ends for every pair of dates, in every zone.
LoopEnds == <>(pc = "done")
=============================================================================
