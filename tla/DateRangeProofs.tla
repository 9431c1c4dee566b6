--------------------------- MODULE DateRangeProofs ---------------------------
(***************************************************************************)
(* Proofs about DateRange, for a year of any length and every set of zones *)
(* that skip at most one midnight.                                         *)
(***************************************************************************)
EXTENDS DateRange, TLAPS

\* Where the cursor stands on its way to day d: a skipped midnight moves it by
\* an hour, and AddDate keeps it there for good.
CursorAt(d) ==
  IF zone.skipped \notin first .. d THEN <<d, 0>>
  ELSE IF zone.side = "east" THEN <<d, 1>> ELSE <<d - 1, 23>>

Parsed ==
  /\ zone \in Zone /\ first \in Day /\ last \in Day /\ first <= last
  /\ start = DateIn(zone, first, 0)
  /\ end = DateIn(zone, last, 0)

IInv ==
  /\ Parsed
  /\ days \in Nat /\ days <= Charged
  /\ LosesADay => days <= Charged - 1
  /\ cursor = CursorAt(first + days)
  /\ pc \in {"loop", "done"}
  /\ pc = "done" => Over(cursor)

LEMMA ZoneShape ==
  ASSUME Parsed
  PROVE  /\ zone.skipped \in Day \/ zone.skipped \notin Nat
         /\ zone.side \in {"east", "west"}
         /\ first \in Int /\ last \in Int /\ 1 <= first /\ first <= last /\ last <= LastDay
         /\ LastDay \in Nat
<1>1. zone \in [skipped : Day \cup {None}, side : {"east", "west"}]
  BY DateRangeAssumption DEF Parsed, Day
<1> QED
  BY <1>1, DateRangeAssumption DEF Parsed, Day

\* The cursor of a day after the last is over; that of an earlier day is not.
LEMMA OverWhen ==
  ASSUME Parsed, NEW n \in Nat, n <= Charged
  PROVE  Over(CursorAt(first + n)) <=>
           \/ n = Charged
           \/ n = Charged - 1 /\ LosesADay
BY ZoneShape DEF Parsed, Charged, Over, After, CursorAt, DateIn, LosesADay, Skips

LEMMA StepCursor ==
  ASSUME Parsed, NEW n \in Nat
  PROVE  DateIn(zone, CursorAt(first + n)[1] + 1, CursorAt(first + n)[2]) =
           CursorAt(first + n + 1)
BY ZoneShape DEF Parsed, CursorAt, DateIn

THEOREM Invariance == Spec => []IInv
<1>1. Init => IInv
  <2> SUFFICES ASSUME Init PROVE IInv
    OBVIOUS
  <2>1. Parsed
    BY DateRangeAssumption DEF Init, Parsed, Day
  <2>2. cursor = CursorAt(first)
    BY <2>1, ZoneShape DEF Init, CursorAt, DateIn
  <2>3. Charged \in Nat /\ Charged >= 1
    BY <2>1, ZoneShape DEF Charged
  <2>4. LosesADay => Charged >= 2
    BY <2>1, ZoneShape DEF Charged, LosesADay
  <2> QED
    BY <2>1, <2>2, <2>3, <2>4, ZoneShape DEF Init, IInv
<1>2. IInv /\ [Next]_vars => IInv'
  <2> SUFFICES ASSUME IInv, [Next]_vars PROVE IInv'
    OBVIOUS
  <2>1. CASE Count
    <3>1. /\ ~Over(cursor) /\ days' = days + 1 /\ pc' = pc /\ pc = "loop"
          /\ cursor' = DateIn(zone, cursor[1] + 1, cursor[2])
          /\ UNCHANGED <<zone, first, last, start, end>>
      BY <2>1 DEF Count, NextDay
    <3>2. Parsed' /\ (LosesADay' <=> LosesADay) /\ Charged' = Charged
      BY <3>1 DEF IInv, Parsed, LosesADay, Skips, Charged
    <3>3. ~(days = Charged) /\ ~(days = Charged - 1 /\ LosesADay)
      BY <3>1, OverWhen DEF IInv
    <3>4. Charged \in Int
      BY ZoneShape DEF IInv, Charged
    <3>5. cursor' = CursorAt(first + days + 1)
      BY <3>1, StepCursor DEF IInv
    <3>6. cursor' = CursorAt(first + days)'
      BY <3>1, <3>5, ZoneShape DEF IInv, CursorAt
    <3> QED
      BY <3>1, <3>2, <3>3, <3>4, <3>6 DEF IInv
  <2>2. CASE Return
    BY <2>2
    DEF Return, IInv, Parsed, CursorAt, LosesADay, Skips, Charged, Over
  <2>3. CASE UNCHANGED vars
    BY <2>3
    DEF vars, IInv, Parsed, CursorAt, LosesADay, Skips, Charged, Over
  <2> QED
    BY <2>1, <2>2, <2>3 DEF Next
<1> QED
  BY <1>1, <1>2, PTL DEF Spec

\* Every time is a time of the year or of the day beside it.
THEOREM TypeCorrect == Spec => []TypeOK
<1>1. ASSUME IInv PROVE TypeOK
  <2>1. Parsed /\ Charged \in 1 .. LastDay
    BY <1>1, ZoneShape DEF IInv, Charged
  <2>2. \A d \in Day : DateIn(zone, d, 0) \in Time
    BY <2>1, ZoneShape DEF DateIn, Time, Day
  <2>3. first + days \in first .. LastDay + 1
    BY <1>1, <2>1, ZoneShape DEF IInv, Charged
  <2>4. CursorAt(first + days) \in Time
    BY <2>1, <2>3, ZoneShape DEF CursorAt, Time, Day
  <2> QED
    BY <1>1, <2>1, <2>2, <2>4, ZoneShape DEF IInv, Parsed, TypeOK
<1> QED
  BY <1>1, Invariance, PTL

\* The duration is the number of calendar days, but for one day that a zone
\* ahead of UTC takes away by skipping a midnight before the last.
THEOREM Durations == Spec => []DaysCounted
<1>1. ASSUME IInv PROVE DaysCounted
  BY <1>1, OverWhen, ZoneShape DEF IInv, DaysCounted, Charged
<1> QED
  BY <1>1, Invariance, PTL

\* Where no zone ahead of UTC skips a midnight, the duration is the number of
\* calendar days: behind UTC a skipped midnight sets the cursor back an hour,
\* which brings it past the end of the range no sooner.
THEOREM DurationsBehindUTC ==
  ASSUME \A z \in Zone : z.skipped # None => z.side = "west"
  PROVE  Spec => []InclusiveDays
<1>1. ASSUME IInv, DaysCounted PROVE InclusiveDays
  <2>1. ~LosesADay
    BY <1>1, DateRangeAssumption DEF LosesADay, Skips, IInv, Parsed, Day
  <2> QED
    BY <1>1, <2>1 DEF DaysCounted, InclusiveDays
<1> QED
  BY <1>1, Invariance, Durations, PTL

\* The bound on the counter takes no step away from the loop.
THEOREM BoundNeverMet == Spec => [](pc = "loop" /\ ~Over(cursor) => days < MaxDays)
<1>1. ASSUME IInv PROVE days < MaxDays
  BY <1>1, ZoneShape DEF IInv, Charged, MaxDays
<1> QED
  BY <1>1, Invariance, PTL
=============================================================================
