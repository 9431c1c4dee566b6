----------------------------- MODULE Attendance -----------------------------
(***************************************************************************)
(* internal/attendance: ClockIn and ClockOut as concurrent transactions.   *)
(* Both read the server's clock once, before their transaction begins, and *)
(* derive the work date from that reading; everything else happens later.  *)
(***************************************************************************)
EXTENDS Naturals

CONSTANTS
  Tx,         \* requests served at the same time
  Employee,
  DayLength,  \* instants of a calendar day
  LastTick,   \* bound on the clock
  None        \* SQL NULL, no row, no holder

Instant == 0 .. LastTick
WorkDate == {i \div DayLength : i \in Instant}
Key == Employee \X WorkDate          \* UNIQUE(employee_id, work_date)
Record == [in : Instant, out : Instant \cup {None}]
Call == [op : {"clockIn", "clockOut"}, emp : Employee, now : Instant]

ASSUME AttendanceAssumption ==
  /\ DayLength \in Nat \ {0}
  /\ LastTick \in Nat
  /\ None \notin Tx \cup Instant \cup Record \cup Call

VARIABLES
  clock,   \* what time.Now() returns
  record,  \* attendance_records
  lock,    \* holder of the row lock of SELECT ... FOR UPDATE
  pc, call

vars == <<clock, record, lock, pc, call>>

Init ==
  /\ clock = 0
  /\ record = [k \in Key |-> None]
  /\ lock = [k \in Key |-> None]
  /\ pc = [t \in Tx |-> "idle"]
  /\ call = [t \in Tx |-> None]

----------------------------------------------------------------------------
DateOfCommit(t) == clock \div DayLength
DateOnly(t) == call[t].now \div DayLength

KeyOf(t) == <<call[t].emp, DateOnly(t)>>

Goto(t, label) == pc' = [pc EXCEPT ![t] = label]

ReleaseNothing(t) == UNCHANGED lock
Release(t) == lock' = [k \in Key |-> IF lock[k] = t THEN None ELSE lock[k]]

Finish(t) ==
  /\ Goto(t, "idle")
  /\ call' = [call EXCEPT ![t] = None]
  /\ Release(t)
  /\ UNCHANGED clock

Rollback(t) == Finish(t) /\ UNCHANGED record

Tick ==
  /\ clock < LastTick
  /\ clock' = clock + 1
  /\ UNCHANGED <<record, lock, pc, call>>

Begin(t) ==
  /\ pc[t] = "idle"
  /\ \E op \in {"clockIn", "clockOut"}, e \in Employee :
       /\ call' = [call EXCEPT ![t] = [op |-> op, emp |-> e, now |-> clock]]
       /\ Goto(t, IF op = "clockIn" THEN "count" ELSE "lock")
  /\ UNCHANGED <<clock, record, lock>>

\* ALREADY_CLOCKED_IN when the count sees a record.
Count(t) ==
  /\ pc[t] = "count"
  /\ IF record[KeyOf(t)] # None
       THEN Rollback(t)
       ELSE Goto(t, "insert") /\ UNCHANGED <<clock, record, lock, call>>

\* The UNIQUE constraint, which a concurrent clock-in runs into.
AlwaysVacant(t) == TRUE
Vacant(t) == record[KeyOf(t)] = None

Insert(t) ==
  /\ pc[t] = "insert"
  /\ \/ /\ Vacant(t)
        /\ record' =
             [record EXCEPT ![KeyOf(t)] = [in |-> call[t].now, out |-> None]]
        /\ Finish(t)
     \/ ~Vacant(t) /\ Rollback(t)

TakeNothing(t) == UNCHANGED lock
Take(t) == lock[KeyOf(t)] = None /\ lock' = [lock EXCEPT ![KeyOf(t)] = t]

NeverEarly(t) == FALSE
Early(t) == call[t].now < record[KeyOf(t)].in

\* CLOCK_IN_REQUIRED without a row; ALREADY_CLOCKED_OUT and INVALID_CLOCK_OUT
\* once the row is locked, which waits for another clock-out of it.
Lock(t) ==
  /\ pc[t] = "lock"
  /\ \/ record[KeyOf(t)] = None /\ Rollback(t)
     \/ /\ record[KeyOf(t)] # None
        /\ lock[KeyOf(t)] = None
        /\ record[KeyOf(t)].out # None \/ Early(t)
        /\ Rollback(t)
     \/ /\ record[KeyOf(t)] # None
        /\ record[KeyOf(t)].out = None /\ ~Early(t)
        /\ Take(t)
        /\ Goto(t, "update")
        /\ UNCHANGED <<clock, record, call>>

Update(t) ==
  /\ pc[t] = "update"
  /\ record' = [record EXCEPT ![KeyOf(t)].out = call[t].now]
  /\ Finish(t)

\* An error of a statement, or a connection lost with the process.
Abort(t) == pc[t] # "idle" /\ Rollback(t)

Advance(t) == Count(t) \/ Insert(t) \/ Lock(t) \/ Update(t)

Next == Tick \/ \E t \in Tx : Begin(t) \/ Advance(t) \/ Abort(t)

Spec == Init /\ [][Next]_vars
FairSpec == Spec /\ \A t \in Tx : SF_vars(Advance(t))

----------------------------------------------------------------------------
(* Properties *)

\* Every record, lock and transaction is well typed, and a transaction past
\* its FOR UPDATE still holds the row.
TypeOK ==
  /\ clock \in Instant
  /\ record \in [Key -> Record \cup {None}]
  /\ lock \in [Key -> Tx \cup {None}]
  /\ pc \in [Tx -> {"idle", "count", "insert", "lock", "update"}]
  /\ call \in [Tx -> Call \cup {None}]
  /\ \A t \in Tx : (call[t] = None) <=> (pc[t] = "idle")
  /\ \A t \in Tx : pc[t] = "update" => lock[KeyOf(t)] = t

\* Both times of a record lie on its work date, however long the requests
\* took: midnight between a reading of the clock and the write of it moves no
\* time to another day.
TimesOnWorkDate ==
  \A k \in Key : record[k] # None =>
    /\ record[k].in \div DayLength = k[2]
    /\ record[k].out # None => record[k].out \div DayLength = k[2]

\* No clock-out reaches the constraint attendance_clock_order with a time
\* before the clock-in, even when it read the clock before a clock-in that
\* committed first.
UpdateSatisfiesClockOrder ==
  \A t \in Tx : pc[t] = "update" =>
    /\ record[KeyOf(t)] # None
    /\ record[KeyOf(t)].in <= call[t].now

\* A step never takes a record away, never moves its clock-in, and never
\* changes a clock-out once made, whichever calls of one employee race.
RecordsAreKept ==
  [][\A k \in Key : record[k] # None =>
       /\ record'[k] # None
       /\ record'[k].in = record[k].in
       /\ record[k].out \in {None, record'[k].out}]_record

\* Every call is answered: the row lock is given back on every path.
CallsAnswered == \A t \in Tx : pc[t] # "idle" ~> pc[t] = "idle"
=============================================================================
