-------------------------- MODULE AttendanceProofs --------------------------
(***************************************************************************)
(* Proofs about Attendance, for every number of requests and employees and *)
(* every length of the day.                                                *)
(***************************************************************************)
EXTENDS Attendance, TLAPS

\* A clock-out under way found its record open and in order.
ClockingOut ==
  \A t \in Tx : pc[t] = "update" =>
    /\ record[KeyOf(t)] # None
    /\ record[KeyOf(t)].out = None
    /\ record[KeyOf(t)].in <= call[t].now

IInv == TypeOK /\ ClockingOut /\ TimesOnWorkDate

LEMMA KeyType ==
  ASSUME TypeOK, NEW t \in Tx, pc[t] # "idle"
  PROVE  KeyOf(t) \in Key /\ call[t] \in Call /\ call[t].now \in Instant
<1>1. call[t] \in Call
  BY DEF TypeOK
<1>2. call[t].emp \in Employee /\ call[t].now \in Instant
  BY <1>1 DEF Call
<1>3. DateOnly(t) \in WorkDate
  BY <1>2 DEF DateOnly, WorkDate
<1> QED
  BY <1>1, <1>2, <1>3 DEF KeyOf, Key

\* The end of a transaction disturbs no other one.
LEMMA FinishOK ==
  ASSUME TypeOK, NEW t \in Tx, Finish(t),
         record' \in [Key -> Record \cup {None}]
  PROVE  /\ TypeOK'
         /\ \A u \in Tx \ {t} : pc'[u] = pc[u] /\ call'[u] = call[u]
         /\ pc'[t] = "idle"
<1>1. pc' = [pc EXCEPT ![t] = "idle"] /\ call' = [call EXCEPT ![t] = None]
  BY DEF Finish, Goto
<1>2. /\ \A u \in Tx \ {t} : pc'[u] = pc[u] /\ call'[u] = call[u]
      /\ pc'[t] = "idle" /\ call'[t] = None
  BY <1>1 DEF TypeOK
<1>3. /\ lock' \in [Key -> Tx \cup {None}]
      /\ \A k \in Key : lock[k] # t => lock'[k] = lock[k]
  BY DEF Finish, Release, TypeOK
<1>4. ASSUME NEW u \in Tx, pc'[u] = "update"
      PROVE  lock'[KeyOf(u)'] = u
  <2>1. u # t /\ pc[u] = "update" /\ KeyOf(u)' = KeyOf(u)
    BY <1>2, <1>4 DEF KeyOf, DateOnly
  <2>2. KeyOf(u) \in Key /\ lock[KeyOf(u)] = u
    BY <2>1, KeyType DEF TypeOK
  <2> QED
    BY <1>3, <2>1, <2>2
<1> QED
  BY <1>1, <1>2, <1>3, <1>4 DEF TypeOK, Finish
\* A transaction that is not in its update needs nothing of the records.
LEMMA ClockingOutKept ==
  ASSUME TypeOK, ClockingOut, NEW t \in Tx, pc'[t] # "update",
         \A u \in Tx \ {t} : pc'[u] = pc[u] /\ call'[u] = call[u],
         \A u \in Tx \ {t} : pc[u] = "update" =>
           record'[KeyOf(u)] = record[KeyOf(u)]
  PROVE  ClockingOut'
<1> SUFFICES ASSUME NEW u \in Tx, pc'[u] = "update"
             PROVE  (/\ record[KeyOf(u)] # None
                     /\ record[KeyOf(u)].out = None
                     /\ record[KeyOf(u)].in <= call[u].now)'
  BY DEF ClockingOut
<1>1. u # t /\ pc[u] = "update" /\ call'[u] = call[u] /\ KeyOf(u)' = KeyOf(u)
  BY DEF KeyOf, DateOnly
<1> QED
  BY <1>1 DEF ClockingOut

----------------------------------------------------------------------------
(* Steps that give up *)

LEMMA RollbackOK ==
  ASSUME IInv, NEW t \in Tx, Rollback(t)
  PROVE  IInv'
<1>1. record' = record /\ Finish(t)
  BY DEF Rollback
<1>2. /\ TypeOK'
      /\ \A u \in Tx \ {t} : pc'[u] = pc[u] /\ call'[u] = call[u]
      /\ pc'[t] = "idle"
  BY <1>1, FinishOK DEF IInv, TypeOK
<1>3. ClockingOut'
  BY <1>1, <1>2, ClockingOutKept DEF IInv
<1> QED
  BY <1>1, <1>2, <1>3 DEF IInv, TimesOnWorkDate

----------------------------------------------------------------------------
(* Steps that write a record *)

LEMMA InsertOK ==
  ASSUME IInv, NEW t \in Tx, Insert(t)
  PROVE  IInv' /\ \A k \in Key : record[k] # None => record'[k] = record[k]
<1>1. CASE Rollback(t)
  BY <1>1, RollbackOK DEF Rollback
<1>2. CASE ~Rollback(t)
  <2> DEFINE new == [in |-> call[t].now, out |-> None]
  <2>1. /\ pc[t] = "insert" /\ Vacant(t) /\ Finish(t)
        /\ record' = [record EXCEPT ![KeyOf(t)] = new]
    BY <1>2 DEF Insert
  <2>2. KeyOf(t) \in Key /\ call[t].now \in Instant
    BY <2>1, KeyType DEF IInv
  <2>3. new \in Record /\ record' \in [Key -> Record \cup {None}]
    BY <2>1, <2>2 DEF Record, IInv, TypeOK
  <2>4. \A k \in Key : record'[k] = IF k = KeyOf(t) THEN new ELSE record[k]
    BY <2>1, <2>2 DEF IInv, TypeOK
  <2>5. \A k \in Key : record[k] # None => record'[k] = record[k]
    BY <2>1, <2>4 DEF Vacant
  <2>6. /\ TypeOK'
        /\ \A u \in Tx \ {t} : pc'[u] = pc[u] /\ call'[u] = call[u]
        /\ pc'[t] = "idle"
    BY <2>1, <2>3, FinishOK DEF IInv
  <2>7. \A u \in Tx \ {t} : pc[u] = "update" =>
          record'[KeyOf(u)] = record[KeyOf(u)]
    BY <2>5, KeyType DEF IInv, ClockingOut
  <2>8. ClockingOut'
    BY <2>6, <2>7, ClockingOutKept DEF IInv
  <2>9. TimesOnWorkDate'
    <3>1. new.in \div DayLength = KeyOf(t)[2] /\ new.out = None
      BY DEF KeyOf, DateOnly
    <3> QED
      BY <2>4, <3>1 DEF IInv, TimesOnWorkDate
  <2> QED
    BY <2>5, <2>6, <2>8, <2>9 DEF IInv
<1> QED
  BY <1>1, <1>2

LEMMA UpdateOK ==
  ASSUME IInv, NEW t \in Tx, Update(t)
  PROVE  /\ IInv'
         /\ \A k \in Key : record[k] # None =>
              /\ record'[k] # None
              /\ record'[k].in = record[k].in
              /\ record[k].out \in {None, record'[k].out}
<1> DEFINE old == record[KeyOf(t)]
           new == [in |-> old.in, out |-> call[t].now]
<1>1. /\ pc[t] = "update" /\ Finish(t)
      /\ record' = [record EXCEPT ![KeyOf(t)].out = call[t].now]
  BY DEF Update
<1>2. KeyOf(t) \in Key /\ call[t].now \in Instant
  BY <1>1, KeyType DEF IInv
<1>3. old \in Record /\ old.out = None
  BY <1>1, <1>2 DEF IInv, TypeOK, ClockingOut
<1>4. \A k \in Key : record'[k] = IF k = KeyOf(t) THEN new ELSE record[k]
  <2>1. record' = [record EXCEPT ![KeyOf(t)] = [old EXCEPT !.out = call[t].now]]
    BY <1>1
  <2>2. [old EXCEPT !.out = call[t].now] = new
    BY <1>3 DEF Record
  <2> QED
    BY <1>2, <2>1, <2>2 DEF IInv, TypeOK
<1>5. new \in Record /\ new # None /\ record' \in [Key -> Record \cup {None}]
  <2>1. new \in Record
    BY <1>2, <1>3 DEF Record
  <2>2. new # None
    BY <2>1, AttendanceAssumption
  <2> QED
    BY <1>1, <1>4, <2>1, <2>2 DEF IInv, TypeOK
<1>6. /\ TypeOK'
      /\ \A u \in Tx \ {t} : pc'[u] = pc[u] /\ call'[u] = call[u]
      /\ pc'[t] = "idle"
  BY <1>1, <1>5, FinishOK DEF IInv
<1>7. \A u \in Tx \ {t} : pc[u] = "update" =>
        record'[KeyOf(u)] = record[KeyOf(u)]
  <2> SUFFICES ASSUME NEW u \in Tx \ {t}, pc[u] = "update"
               PROVE  record'[KeyOf(u)] = record[KeyOf(u)]
    OBVIOUS
  <2>1. KeyOf(u) \in Key /\ KeyOf(u) # KeyOf(t)
    BY <1>1, KeyType DEF IInv, TypeOK
  <2> QED
    BY <1>4, <2>1
<1>8. ClockingOut'
  BY <1>6, <1>7, ClockingOutKept DEF IInv
<1>9. TimesOnWorkDate'
  <2>1. new.in \div DayLength = KeyOf(t)[2]
    BY <1>1, <1>2 DEF IInv, TimesOnWorkDate, ClockingOut
  <2>2. new.out \div DayLength = KeyOf(t)[2]
    BY DEF KeyOf, DateOnly
  <2> QED
    BY <1>4, <2>1, <2>2 DEF IInv, TimesOnWorkDate
<1> QED
  BY <1>3, <1>4, <1>5, <1>6, <1>8, <1>9 DEF IInv

----------------------------------------------------------------------------
(* Steps that write none *)

LEMMA OtherSteps ==
  ASSUME IInv, NEW t \in Tx, Begin(t) \/ Count(t) \/ Lock(t)
  PROVE  IInv' /\ record' = record
<1>1. CASE Rollback(t)
  BY <1>1, RollbackOK DEF Rollback
<1>2. CASE Begin(t)
  <2>1. PICK op \in {"clockIn", "clockOut"}, e \in Employee :
          /\ call' = [call EXCEPT ![t] = [op |-> op, emp |-> e, now |-> clock]]
          /\ Goto(t, IF op = "clockIn" THEN "count" ELSE "lock")
    BY <1>2 DEF Begin
  <2>2. [op |-> op, emp |-> e, now |-> clock] \in Call
    BY DEF Call, IInv, TypeOK
  <2>3. [op |-> op, emp |-> e, now |-> clock] # None
    BY <2>2, AttendanceAssumption
  <2>4. pc[t] = "idle" /\ UNCHANGED <<clock, record, lock>>
    BY <1>2 DEF Begin
  <2>5. /\ \A u \in Tx \ {t} : pc'[u] = pc[u] /\ call'[u] = call[u]
        /\ pc'[t] \in {"count", "lock"}
    BY <2>1 DEF Goto, IInv, TypeOK
  <2>6. \A u \in Tx : pc'[u] = "update" => pc[u] = "update" /\ KeyOf(u)' = KeyOf(u)
    BY <2>5 DEF KeyOf, DateOnly
  <2>7. TypeOK'
    BY <2>1, <2>2, <2>3, <2>4, <2>6 DEF IInv, TypeOK, Goto
  <2>8. ClockingOut'
    BY <2>4, <2>5, ClockingOutKept DEF IInv
  <2> QED
    BY <2>4, <2>7, <2>8 DEF IInv, TimesOnWorkDate
<1>3. CASE Count(t) /\ ~Rollback(t)
  <2>1. /\ pc[t] = "count" /\ Goto(t, "insert")
        /\ UNCHANGED <<clock, record, lock, call>>
    BY <1>3 DEF Count
  <2>2. \A u \in Tx : KeyOf(u)' = KeyOf(u)
    BY <2>1 DEF KeyOf, DateOnly
  <2>3. TypeOK'
    BY <2>1, <2>2 DEF IInv, TypeOK, Goto
  <2>4. ClockingOut'
    BY <2>1, ClockingOutKept DEF IInv, TypeOK, Goto
  <2> QED
    BY <2>1, <2>3, <2>4 DEF IInv, TimesOnWorkDate
<1>4. CASE Lock(t) /\ ~Rollback(t)
  <2>1. /\ pc[t] = "lock" /\ Goto(t, "update") /\ Take(t)
        /\ record[KeyOf(t)] # None /\ record[KeyOf(t)].out = None /\ ~Early(t)
        /\ UNCHANGED <<clock, record, call>>
    BY <1>4 DEF Lock
  <2>2. \A u \in Tx : KeyOf(u)' = KeyOf(u)
    BY <2>1 DEF KeyOf, DateOnly
  <2>3. KeyOf(t) \in Key
    BY <2>1, KeyType DEF IInv
  <2>4. TypeOK'
    <3>1. lock' = [lock EXCEPT ![KeyOf(t)] = t] /\ lock[KeyOf(t)] = None
      BY <2>1 DEF Take
    <3>2. ASSUME NEW u \in Tx, pc'[u] = "update" PROVE lock'[KeyOf(u)'] = u
      <4>1. CASE u = t
        BY <2>2, <2>3, <3>1, <4>1 DEF IInv, TypeOK
      <4>2. CASE u # t
        <5>1. pc[u] = "update" /\ lock[KeyOf(u)] = u /\ KeyOf(u) \in Key
          BY <2>1, <3>2, <4>2, KeyType DEF IInv, TypeOK, Goto
        <5>2. KeyOf(u) # KeyOf(t)
          BY <3>1, <5>1, AttendanceAssumption
        <5> QED
          BY <2>2, <3>1, <5>1, <5>2 DEF IInv, TypeOK
      <4> QED
        BY <4>1, <4>2
    <3> QED
      BY <2>1, <2>3, <3>1, <3>2 DEF IInv, TypeOK, Goto
  <2>5. record[KeyOf(t)].in <= call[t].now
    <3>1. record[KeyOf(t)].in \in Nat /\ call[t].now \in Nat
      BY <2>1, <2>3, KeyType, AttendanceAssumption
      DEF IInv, TypeOK, Record, Instant
    <3> QED
      BY <2>1, <3>1 DEF Early
  <2>6. ClockingOut'
    <3>1. \A u \in Tx : pc'[u] = "update" => u = t \/ pc[u] = "update"
      BY <2>1 DEF IInv, TypeOK, Goto
    <3> QED
      BY <2>1, <2>2, <2>5, <3>1 DEF IInv, ClockingOut
  <2> QED
    BY <2>1, <2>4, <2>6 DEF IInv, TimesOnWorkDate
<1> QED
  BY <1>1, <1>2, <1>3, <1>4 DEF Count, Lock, Begin, Rollback

LEMMA TickOK == ASSUME IInv, Tick PROVE IInv' /\ record' = record
<1>1. clock' \in Instant
  BY AttendanceAssumption DEF Tick, IInv, TypeOK, Instant
<1>2. UNCHANGED <<record, lock, pc, call>>
  BY DEF Tick
<1>3. \A u \in Tx : KeyOf(u)' = KeyOf(u)
  BY <1>2 DEF KeyOf, DateOnly
<1> QED
  BY <1>1, <1>2, <1>3 DEF IInv, TypeOK, ClockingOut, TimesOnWorkDate

----------------------------------------------------------------------------
(* Theorems *)

\* The invariant is kept by every step, and records only grow.
LEMMA Step ==
  ASSUME IInv, [Next]_vars
  PROVE  /\ IInv'
         /\ \A k \in Key : record[k] # None =>
              /\ record'[k] # None
              /\ record'[k].in = record[k].in
              /\ record[k].out \in {None, record'[k].out}
<1>1. ASSUME NEW t \in Tx, Begin(t) \/ Advance(t) \/ Abort(t)
      PROVE  /\ IInv'
             /\ \A k \in Key : record[k] # None =>
                  /\ record'[k] # None
                  /\ record'[k].in = record[k].in
                  /\ record[k].out \in {None, record'[k].out}
  <2>1. CASE Begin(t) \/ Count(t) \/ Lock(t)
    BY <2>1, OtherSteps
  <2>2. CASE Insert(t)
    BY <2>2, InsertOK
  <2>3. CASE Update(t)
    BY <2>3, UpdateOK
  <2>4. CASE Abort(t)
    BY <2>4, RollbackOK DEF Abort, Rollback
  <2> QED
    BY <1>1, <2>1, <2>2, <2>3, <2>4 DEF Advance
<1>2. CASE Tick
  BY <1>2, TickOK
<1>3. CASE UNCHANGED vars
  <2>1. \A u \in Tx : KeyOf(u)' = KeyOf(u)
    BY <1>3 DEF KeyOf, DateOnly, vars
  <2> QED
    BY <1>3, <2>1 DEF vars, IInv, TypeOK, ClockingOut, TimesOnWorkDate
<1> QED
  BY <1>1, <1>2, <1>3 DEF Next

THEOREM Invariance == Spec => []IInv
<1>1. Init => IInv
  BY AttendanceAssumption
  DEF Init, IInv, TypeOK, ClockingOut, TimesOnWorkDate, Instant
<1>2. IInv /\ [Next]_vars => IInv'
  BY Step
<1> QED
  BY <1>1, <1>2, PTL DEF Spec

\* Every record, lock and transaction is well typed, and a clock-out under way
\* holds its row.
THEOREM TypeCorrect == Spec => []TypeOK
<1>1. IInv => TypeOK
  BY DEF IInv
<1> QED
  BY <1>1, Invariance, PTL

\* No clock-out runs into attendance_clock_order.
THEOREM ClockOrder == Spec => []UpdateSatisfiesClockOrder
<1>1. IInv => UpdateSatisfiesClockOrder
  BY DEF IInv, ClockingOut, UpdateSatisfiesClockOrder
<1> QED
  BY <1>1, Invariance, PTL

\* Midnight moves no time to another day's record.
THEOREM OnWorkDate == Spec => []TimesOnWorkDate
<1>1. IInv => TimesOnWorkDate
  BY DEF IInv
<1> QED
  BY <1>1, Invariance, PTL

\* A clock-in never moves, and a clock-out is made once.
THEOREM Kept == Spec => RecordsAreKept
<1> DEFINE Keeps == \A k \in Key : record[k] # None =>
                      /\ record'[k] # None
                      /\ record'[k].in = record[k].in
                      /\ record[k].out \in {None, record'[k].out}
<1>1. IInv /\ [Next]_vars => Keeps
  BY Step
<1> QED
  BY <1>1, Invariance, PTL DEF Spec, RecordsAreKept
=============================================================================
