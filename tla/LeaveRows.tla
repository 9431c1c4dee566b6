------------------------------ MODULE LeaveRows ------------------------------
(***************************************************************************)
(* The rows of leave_requests and leave_balances, the arithmetic on them   *)
(* and the constraints PostgreSQL checks (internal/model, internal/leave   *)
(* and migrations/000001_initial_schema.up.sql), shared by the detailed    *)
(* specification Leave and the abstract one, LeaveLifecycle.               *)
(***************************************************************************)
EXTENDS Integers

CONSTANTS
  RequestId,    \* ids of leave_requests rows: bounds how many are submitted
  Employee,     \* ids of employees rows
  LeaveType,    \* ids of leave_types rows
  Day, Year,    \* calendar days and years, and
  YearOf,       \* the year of each day
  Limit,        \* largest NUMERIC(7,2) value: 99999.99 in the schema
  Entitlement,  \* amounts given to SetEntitlement
  Adjustment,   \* amounts given to AdjustBalance
  None          \* SQL NULL, and the absence of a row, a call or a lock holder

ASSUME RowsAssumption ==
  /\ Day \subseteq Nat
  /\ YearOf \in [Day -> Year]
  /\ Limit \in Nat
  /\ Entitlement \subseteq Nat
  /\ Adjustment \subseteq Int

Status ==
  {"PENDING_MANAGER", "PENDING_HR", "APPROVED", "REJECTED", "CANCELLED"}
Pending == {"PENDING_MANAGER", "PENDING_HR"}
Active == Pending \cup {"APPROVED"}

Period == [emp : Employee, type : LeaveType, first : Day, last : Day]
\* What parseDateRange lets through, and the days it counts.
ValidPeriod(l) == l.first <= l.last /\ YearOf[l.first] = YearOf[l.last]
Duration(l) == l.last - l.first + 1
Overlap(l, m) == l.emp = m.emp /\ l.first <= m.last /\ l.last >= m.first

\* The balance row a leave is charged to: (employee, type, year of the start).
Key == Employee \X LeaveType \X Year
KeyOf(l) == <<l.emp, l.type, YearOf[l.first]>>

\* NUMERIC(7,2) columns, the CHECKs of leave_balances and their arithmetic.
BalanceRow == [entitled : 0..Limit, used : 0..Limit, adjustment : -Limit..Limit]
NoBalance == [entitled |-> 0, used |-> 0, adjustment |-> 0]
Available(b) == b.entitled + b.adjustment - b.used
TypedOnly(b) == b \in BalanceRow
SatisfiesChecks(b) == b \in BalanceRow /\ Available(b) >= 0
ChargeOnly(b, l) == [b EXCEPT !.used = Duration(l)]
Charge(b, l) == [b EXCEPT !.used = @ + Duration(l)]
=============================================================================
