--------------------------- MODULE LeaveImplements ---------------------------
(***************************************************************************)
(* That Leave implements the atomic specification LeaveLifecycle, and its  *)
(* properties that need more than LeaveProofs!IInv: what a locked balance  *)
(* still covers, who decides, overlaps, the audit trail, who waits for     *)
(* whom, and the days a balance counts.                                    *)
(***************************************************************************)
EXTENDS LeaveProofs, FiniteSetTheorems

\* What is done to the rows and transactions that a step of t leaves alone.
Others(t) ==
  \A u \in Tx \ {t} : pc'[u] = pc[u] /\ call'[u] = call[u] /\ seen'[u] = seen[u]

LEMMA FinishOthers ==
  ASSUME ControlOK, NEW t \in Tx, Finish(t)
  PROVE  /\ Others(t) /\ pc'[t] = "idle"
         /\ \A k \in Key, u \in Tx \ {t} : balanceLock[k] = u => balanceLock'[k] = u
BY DEF ControlOK, Finish, Release, Others

LEMMA GotoOthers ==
  ASSUME ControlOK, NEW t \in Tx, NEW label, Goto(t, label),
         \/ seen' = seen
         \/ \E x : seen' = [seen EXCEPT ![t].manager = x]
         \/ \E x : seen' = [seen EXCEPT ![t].addressee = x]
         \/ \E x : seen' = [seen EXCEPT ![t].needsBalance = x]
         \/ \E x : seen' = [seen EXCEPT ![t].stage = x]
  PROVE  Others(t) /\ call' = call /\ pc'[t] = label
BY DEF ControlOK, Goto, Others

LEMMA AdvanceOthers ==
  ASSUME ControlOK, NEW t \in Tx, Begin(t) \/ Advance(t) \/ Abort(t)
  PROVE  Others(t)
<1>1. ASSUME Rollback(t) PROVE Others(t)
  BY <1>1, FinishOthers DEF Rollback
<1>2. CASE Begin(t)
  BY <1>2 DEF Begin, Identify, ControlOK, Others
<1>3. CASE \/ ReadEmployee(t) \/ ReadManager(t) \/ CheckType(t) \/ CheckOverlap(t)
           \/ CheckBalance(t) \/ LockRequest(t) \/ CheckScope(t) \/ ReadType(t)
           \/ LockCharged(t) \/ LockEntitlement(t) \/ LockAdjusted(t)
  BY <1>1, <1>3, GotoOthers
  DEF ReadEmployee, ReadManager, CheckType, CheckOverlap, CheckBalance,
      LockRequest, CheckScope, ReadType, LockCharged, LockEntitlement, LockAdjusted
<1>4. CASE \/ SubmitWrite(t) \/ ManagerApproveWrite(t) \/ HRApproveWrite(t)
           \/ RejectWrite(t) \/ CancelWrite(t) \/ SetEntitlementWrite(t)
           \/ AdjustWrite(t)
  BY <1>1, <1>4, FinishOthers
  DEF SubmitWrite, ManagerApproveWrite, HRApproveWrite, RejectWrite, CancelWrite,
      SetEntitlementWrite, AdjustWrite
<1> QED
  BY <1>1, <1>2, <1>3, <1>4 DEF Advance, Abort

\* A request keeps its leave from its submission on.
LEMMA LeaveKept ==
  ASSUME RowsOK, [Next]_vars, NEW r \in RequestId, status[r] # "ABSENT"
  PROVE  leave'[r] = leave[r]
<1>1. ASSUME NEW t \in Tx, SubmitWrite(t) PROVE leave'[r] = leave[r]
  BY <1>1 DEF SubmitWrite, RowsOK, Rollback, rows, requestRows
<1>2. ASSUME NEW t \in Tx, Advance(t), ~SubmitWrite(t) PROVE leave' = leave
  BY <1>2
  DEF Advance, ReadEmployee, ReadManager, CheckType, CheckOverlap, CheckBalance,
      LockRequest, CheckScope, ReadType, LockCharged, LockEntitlement,
      SetEntitlementWrite, LockAdjusted, AdjustWrite, ManagerApproveWrite,
      HRApproveWrite, RejectWrite, CancelWrite, Goto, Rollback, rows, requestRows
<1> QED
  BY <1>1, <1>2
  DEF Next, Begin, Abort, Rollback, CreateType, UpdateType, UpdateEmployee, vars, rows,
      requestRows

----------------------------------------------------------------------------
(* Balances: a debit or an adjustment holds the row it has checked *)

Charging(t) == At(t, "write", {"hrApprove"}) /\ seen[t].needsBalance
Adjusting(t) == At(t, "write", {"adjust"})

ChargeHeld(t) ==
  LET l == leave[call[t].req] IN
  Charging(t) => balanceLock[KeyOf(l)] = t /\ Covers(l)
AdjustHeld(t) ==
  Adjusting(t) => balanceLock[call[t].key] = t /\ Allows(call[t])
\* Only rows that are there have a balance to be changed.
Unconfigured == \A k \in Key \ configured : balance[k] = NoBalance
BalanceHeld == Unconfigured /\ \A t \in Tx : ChargeHeld(t) /\ AdjustHeld(t)

\* A balance is changed by the transaction that holds its row, or is new.
LEMMA ChangedByHolder ==
  ASSUME IInv, BalanceHeld, NEW t \in Tx, Begin(t) \/ Advance(t) \/ Abort(t)
  PROVE  /\ configured \subseteq configured'
         /\ \A k \in configured : balance'[k] # balance[k] => balanceLock[k] = t
         /\ \A k \in Key \ configured' : balance'[k] = balance[k]
<1>0. RowsOK /\ ControlOK
  BY TypeParts DEF IInv
<1>1. CASE UNCHANGED balanceRows
  BY <1>1 DEF balanceRows
<1>2. CASE HRApproveWrite(t)
  BY <1>0, <1>1, <1>2
  DEF HRApproveWrite, Rollback, rows, RowsOK, BalanceHeld, ChargeHeld, Charging, Covers
<1>3. CASE SetEntitlementWrite(t)
  BY <1>0, <1>1, <1>3 DEF SetEntitlementWrite, Insertable, Rollback, rows, RowsOK
<1>4. CASE AdjustWrite(t)
  BY <1>0, <1>1, <1>4
  DEF AdjustWrite, Rollback, rows, RowsOK, BalanceHeld, AdjustHeld, Adjusting, Allows
<1> QED
  BY <1>1, <1>2, <1>3, <1>4
  DEF Advance, Begin, Abort, ReadEmployee, ReadManager, CheckType, CheckOverlap,
      CheckBalance, SubmitWrite, LockRequest, CheckScope, ReadType, LockCharged,
      ManagerApproveWrite, RejectWrite, CancelWrite, LockEntitlement, LockAdjusted,
      Goto, Rollback, rows

LEMMA BalanceLockKept ==
  ASSUME ControlOK, NEW t \in Tx, Begin(t) \/ Advance(t) \/ Abort(t)
  PROVE  \A k \in Key, u \in Tx \ {t} : balanceLock[k] = u => balanceLock'[k] = u
<1>1. ASSUME Rollback(t)
      PROVE \A k \in Key, u \in Tx \ {t} : balanceLock[k] = u => balanceLock'[k] = u
  BY <1>1, FinishOthers DEF Rollback
<1>2. CASE \/ SubmitWrite(t) \/ ManagerApproveWrite(t) \/ HRApproveWrite(t)
           \/ RejectWrite(t) \/ CancelWrite(t) \/ SetEntitlementWrite(t)
           \/ AdjustWrite(t)
  BY <1>1, <1>2, FinishOthers
  DEF SubmitWrite, ManagerApproveWrite, HRApproveWrite, RejectWrite, CancelWrite,
      SetEntitlementWrite, AdjustWrite
<1>3. CASE LockCharged(t) \/ LockEntitlement(t) \/ LockAdjusted(t)
  BY <1>1, <1>3, CallsAssumption
  DEF LockCharged, LockEntitlement, LockAdjusted, Take, ControlOK
<1>4. CASE \/ Begin(t) \/ ReadEmployee(t) \/ ReadManager(t) \/ CheckType(t)
           \/ CheckOverlap(t) \/ CheckBalance(t) \/ LockRequest(t) \/ CheckScope(t)
           \/ ReadType(t)
  BY <1>1, <1>4
  DEF Begin, ReadEmployee, ReadManager, CheckType, CheckOverlap, CheckBalance,
      LockRequest, CheckScope, ReadType, locks
<1> QED
  BY <1>1, <1>2, <1>3, <1>4 DEF Advance, Abort

\* A transaction gets to its debit or adjustment by the statement that locks
\* and checks the balance.
LEMMA ReachesWrite ==
  ASSUME ControlOK, NEW t \in Tx, Begin(t) \/ Advance(t) \/ Abort(t),
         (Charging(t) \/ Adjusting(t))'
  PROVE  call' = call /\ UNCHANGED rows
         /\ \/ Charging(t)' /\ LockCharged(t) /\ ~Rollback(t)
            \/ Adjusting(t)' /\ LockAdjusted(t) /\ ~Rollback(t)
<1>1. ~Rollback(t) /\ ~Finish(t) /\ ~Begin(t)
  BY FinishOthers DEF Begin, Charging, Adjusting, At, ControlOK, Rollback
<1>2. CASE \/ ReadEmployee(t) \/ ReadManager(t) \/ CheckType(t) \/ CheckOverlap(t)
           \/ CheckBalance(t) \/ LockRequest(t) \/ CheckScope(t)
           \/ LockEntitlement(t)
  BY <1>1, <1>2
  DEF ReadEmployee, ReadManager, CheckType, CheckOverlap, CheckBalance,
      LockRequest, CheckScope, LockEntitlement, AfterLock, Goto, ControlOK,
      Charging, Adjusting, At, Decisions
<1>3. CASE ReadType(t)
  BY <1>3 DEF ReadType, Goto, ControlOK, Memory, Charging, Adjusting, At
<1>4. CASE LockCharged(t) \/ LockAdjusted(t)
  BY <1>1, <1>4
  DEF LockCharged, LockAdjusted, Goto, ControlOK, Charging, Adjusting, At, rows
<1> QED
  BY <1>1, <1>2, <1>3, <1>4
  DEF Advance, Abort, SubmitWrite, ManagerApproveWrite, HRApproveWrite, RejectWrite,
      CancelWrite, SetEntitlementWrite, AdjustWrite

LEMMA ChargeFacts ==
  ASSUME IInv, NEW t \in Tx, Charging(t)
  PROVE  /\ call[t].req \in RequestId /\ status[call[t].req] = "PENDING_HR"
         /\ leave[call[t].req] \in Period /\ KeyOf(leave[call[t].req]) \in Key
BY DecisionFacts, KeyType DEF Charging, At, Deciding, Decisions, IInv, RequestHeld

LEMMA AdjustFacts ==
  ASSUME ControlOK, NEW t \in Tx, Adjusting(t)
  PROVE  call[t].key \in Key
BY CallShape DEF Adjusting, At

LEMMA BalanceHeldKept == ASSUME IInv, BalanceHeld, [Next]_vars PROVE BalanceHeld'
<1>0. RowsOK /\ ControlOK
  BY TypeParts DEF IInv
<1>1. ASSUME NEW t \in Tx, Begin(t) \/ Advance(t) \/ Abort(t), NEW u \in Tx
      PROVE  Unconfigured' /\ ChargeHeld(u)' /\ AdjustHeld(u)'
  <2>0. Unconfigured'
    BY <1>1, ChangedByHolder DEF BalanceHeld, Unconfigured
  <2>1. ASSUME u # t PROVE ChargeHeld(u)' /\ AdjustHeld(u)'
    <3>1. pc'[u] = pc[u] /\ call'[u] = call[u] /\ seen'[u] = seen[u]
      BY <1>0, <1>1, <2>1, AdvanceOthers DEF Others
    <3>2. ASSUME NEW k \in Key, balanceLock[k] = u, k \in configured
          PROVE  balanceLock'[k] = u /\ k \in configured' /\ balance'[k] = balance[k]
      BY <1>0, <1>1, <2>1, <3>2, BalanceLockKept, ChangedByHolder
    <3>3. ChargeHeld(u)'
      <4> SUFFICES ASSUME Charging(u)' PROVE ChargeHeld(u)'
        BY DEF ChargeHeld
      <4>1. Charging(u) /\ ChargeHeld(u)
        BY <3>1 DEF Charging, At, BalanceHeld
      <4>2. leave'[call[u].req] = leave[call[u].req]
        BY <1>0, <1>1, <4>1, ChargeFacts, LeaveKept DEF Next
      <4> QED
        BY <3>1, <3>2, <4>1, <4>2, ChargeFacts DEF ChargeHeld, Covers
    <3>4. AdjustHeld(u)'
      <4> SUFFICES ASSUME Adjusting(u)' PROVE AdjustHeld(u)'
        BY DEF AdjustHeld
      <4>1. Adjusting(u) /\ AdjustHeld(u)
        BY <3>1 DEF Adjusting, At, BalanceHeld
      <4> QED
        BY <1>0, <3>1, <3>2, <4>1, AdjustFacts DEF AdjustHeld, Allows
    <3> QED
      BY <3>3, <3>4
  <2>2. ASSUME u = t PROVE ChargeHeld(u)' /\ AdjustHeld(u)'
    <3> SUFFICES ASSUME (Charging(t) \/ Adjusting(t))'
                 PROVE  ChargeHeld(t)' /\ AdjustHeld(t)'
      BY <2>2 DEF ChargeHeld, AdjustHeld
    <3>1. /\ call' = call /\ UNCHANGED rows
          /\ \/ Charging(t)' /\ LockCharged(t) /\ ~Rollback(t)
             \/ Adjusting(t)' /\ LockAdjusted(t) /\ ~Rollback(t)
      BY <1>0, <1>1, ReachesWrite
    <3>2. leave' = leave /\ configured' = configured /\ balance' = balance
      BY <3>1 DEF rows, requestRows, balanceRows
    <3>3. CASE Charging(t)' /\ LockCharged(t) /\ ~Rollback(t)
      <4>1. KeyOf(leave[call[t].req]) \in Key
        <5>1. Deciding(t)
          BY <3>3 DEF LockCharged, At, Deciding, Decisions
        <5> QED
          BY <5>1, DecisionFacts, KeyType
      <4> QED
        BY <1>0, <3>1, <3>2, <3>3, <4>1
        DEF LockCharged, Take, ControlOK, ChargeHeld, AdjustHeld, Covers, Charging,
            Adjusting, At
    <3>4. CASE Adjusting(t)' /\ LockAdjusted(t) /\ ~Rollback(t)
      <4>1. call[t].key \in Key
        BY <1>0, <3>4, CallShape DEF LockAdjusted, At
      <4> QED
        BY <1>0, <3>1, <3>2, <3>4, <4>1
        DEF LockAdjusted, Take, ControlOK, ChargeHeld, AdjustHeld, Allows, Charging,
            Adjusting, At
    <3> QED
      BY <3>1, <3>3, <3>4
  <2> QED
    BY <2>0, <2>1, <2>2
<1>2. CASE UNCHANGED <<requestRows, balanceRows, locks, pc, call, seen>>
  BY <1>2
  DEF BalanceHeld, Unconfigured, ChargeHeld, AdjustHeld, Charging, Adjusting, Covers,
      Allows, At, requestRows, balanceRows, locks
<1>3. ASSUME \/ \E ty \in LeaveType : CreateType(ty) \/ UpdateType(ty)
             \/ \E e \in Employee, m \in Employee \cup {None}, a \in User \cup {None} :
                  UpdateEmployee(e, m, a)
             \/ UNCHANGED vars
      PROVE  UNCHANGED <<requestRows, balanceRows, locks, pc, call, seen>>
  BY <1>3 DEF CreateType, UpdateType, UpdateEmployee, vars, rows
<1> QED
  <2>1. ASSUME NEW t \in Tx, Begin(t) \/ Advance(t) \/ Abort(t) PROVE BalanceHeld'
    BY <1>1, <2>1, ChangedByHolder DEF BalanceHeld, Unconfigured
  <2> QED
    BY <1>2, <1>3, <2>1 DEF Next

\* What HRApprove and AdjustBalance found in the balance they locked still
\* holds when they update it.
THEOREM BalanceStillCovers == Spec => []CheckedBalanceStillCovers
<1>1. Init => BalanceHeld
  BY DEF Init, BalanceHeld, Unconfigured, ChargeHeld, AdjustHeld, Charging, Adjusting, At
<1>2. IInv /\ BalanceHeld /\ [Next]_vars => BalanceHeld'
  BY BalanceHeldKept
<1>3. BalanceHeld => CheckedBalanceStillCovers
  BY DEF BalanceHeld, ChargeHeld, AdjustHeld, Charging, Adjusting,
         CheckedBalanceStillCovers
<1> QED
  BY <1>1, <1>2, <1>3, Invariance, PTL DEF Spec

----------------------------------------------------------------------------
(* Leave implements LeaveLifecycle: a write is a step of it, and nothing else *)
(* changes its variables                                                     *)

\* A submission under way was validated before its transaction began.
ValidCalls ==
  \A t \in Tx : pc[t] # "idle" /\ call[t].op = "submit" => ValidPeriod(call[t].leave)

LEMMA CallStaysOrStarts ==
  ASSUME IInv, [Next]_vars, NEW u \in Tx
  PROVE  \/ pc'[u] = "idle"
         \/ call'[u] = call[u] /\ pc[u] # "idle"
         \/ Permitted(call'[u])
<1>0. ControlOK
  BY TypeParts DEF IInv
<1>1. ASSUME NEW t \in Tx, Begin(t) \/ Advance(t) \/ Abort(t)
      PROVE  \/ pc'[u] = "idle"
             \/ call'[u] = call[u] /\ pc[u] # "idle"
             \/ Permitted(call'[u])
  <2>1. CASE u # t
    BY <1>0, <1>1, <2>1, AdvanceOthers DEF Others
  <2>2. CASE Begin(t)
    BY <1>0, <2>2 DEF Begin, ControlOK
  <2>3. CASE u = t /\ Finish(t)
    BY <1>0, <2>3, FinishOthers
  <2>4. CASE u = t /\ Advance(t) /\ ~Finish(t)
    BY <1>0, <2>4
    DEF Advance, ReadEmployee, ReadManager, CheckType, CheckOverlap, CheckBalance,
        SubmitWrite, LockRequest, CheckScope, ReadType, LockCharged,
        ManagerApproveWrite, HRApproveWrite, RejectWrite, CancelWrite,
        LockEntitlement, SetEntitlementWrite, LockAdjusted, AdjustWrite, Rollback,
        Goto, At
  <2> QED
    BY <1>1, <2>1, <2>2, <2>3, <2>4 DEF Abort, Rollback
<1>2. ASSUME \/ \E ty \in LeaveType : CreateType(ty) \/ UpdateType(ty)
             \/ \E e \in Employee, m \in Employee \cup {None}, a \in User \cup {None} :
                  UpdateEmployee(e, m, a)
             \/ UNCHANGED vars
      PROVE  UNCHANGED <<pc, call>>
  BY <1>2 DEF CreateType, UpdateType, UpdateEmployee, vars
<1> QED
  BY <1>1, <1>2 DEF Next

LEMMA ValidCallsKept == ASSUME IInv, ValidCalls, [Next]_vars PROVE ValidCalls'
BY CallStaysOrStarts DEF ValidCalls, Permitted, ValidPeriod

Abstract == <<status, leave, configured, balance>>

LEMMA SubmitImplements ==
  ASSUME IInv, ValidCalls, NEW t \in Tx, SubmitWrite(t), ~Rollback(t)
  PROVE  Lifecycle!Next
<1>1. PICK r \in RequestId :
        /\ status[r] = "ABSENT"
        /\ leave' = [leave EXCEPT ![r] = call[t].leave]
        /\ status' = [status EXCEPT ![r] = "PENDING_MANAGER"]
  BY DEF SubmitWrite, Record
<1>2. /\ call[t].leave \in Period /\ ValidPeriod(call[t].leave)
      /\ UNCHANGED <<configured, balance>>
  BY TypeParts, CallShape DEF IInv, ValidCalls, SubmitWrite, At, balanceRows
<1>3. Lifecycle!Submit(r)
  BY <1>1, <1>2
  DEF Lifecycle!Submit, Lifecycle!Move, Lifecycle!ledger, Lifecycle!Period, Period,
      Lifecycle!ValidPeriod, ValidPeriod
<1> QED
  BY <1>3 DEF Lifecycle!Next

LEMMA DecisionImplements ==
  ASSUME IInv, BalanceHeld, NEW t \in Tx, ~Rollback(t),
         \/ ManagerApproveWrite(t) \/ HRApproveWrite(t) \/ RejectWrite(t)
         \/ CancelWrite(t)
  PROVE  Lifecycle!Next
<1> DEFINE r == call[t].req
<1>1. Deciding(t)
  BY DEF ManagerApproveWrite, HRApproveWrite, RejectWrite, CancelWrite, At, Deciding,
         Decisions
<1>2. /\ r \in RequestId /\ status[r] \in Pending
      /\ call[t].op = "managerApprove" => status[r] = "PENDING_MANAGER"
      /\ call[t].op = "hrApprove" => status[r] = "PENDING_HR"
      /\ leave[r] \in Period /\ leave' = leave /\ configured' = configured
  BY <1>1, DecisionFacts
  DEF IInv, RequestHeld, ManagerApproveWrite, HRApproveWrite, RejectWrite, CancelWrite,
      balanceRows
<1>3. CASE ManagerApproveWrite(t)
  <2>1. Lifecycle!ManagerApprove(r)
    BY <1>2, <1>3
    DEF ManagerApproveWrite, At, Record, balanceRows, Lifecycle!ManagerApprove,
        Lifecycle!Move, Lifecycle!ledger
  <2> QED
    BY <1>2, <2>1 DEF Lifecycle!Next
<1>4. CASE HRApproveWrite(t)
  <2> DEFINE k == KeyOf(leave[r])
  <2>1. /\ status' = [status EXCEPT ![r] = "APPROVED"] /\ call[t].op = "hrApprove"
        /\ balance' = IF seen[t].needsBalance
                      THEN [balance EXCEPT ![k] = Charge(balance[k], leave[r])]
                      ELSE balance
    BY <1>4 DEF HRApproveWrite, Record, At
  <2>2. seen[t].needsBalance => Covers(leave[r])
    BY <1>4 DEF HRApproveWrite, BalanceHeld, ChargeHeld, Charging
  <2>3. \/ UNCHANGED balance
        \/ /\ k \in configured /\ Available(balance[k]) >= Duration(leave[r])
           /\ balance' = [balance EXCEPT ![k] = Charge(balance[k], leave[r])]
    BY <2>1, <2>2 DEF Covers
  <2>4. Lifecycle!HRApprove(r)
    BY <1>2, <2>1, <2>3
    DEF Lifecycle!HRApprove, Lifecycle!Move, Lifecycle!KeyOf, KeyOf,
        Lifecycle!Available, Available, Lifecycle!Duration, Duration,
        Lifecycle!Charge, Charge
  <2> QED
    BY <1>2, <2>4 DEF Lifecycle!Next
<1>5. CASE RejectWrite(t)
  <2>1. Lifecycle!Reject(r)
    BY <1>2, <1>5
    DEF RejectWrite, Record, balanceRows, Lifecycle!Reject, Lifecycle!Move,
        Lifecycle!ledger, Lifecycle!Pending, Pending
  <2> QED
    BY <1>2, <2>1 DEF Lifecycle!Next
<1>6. CASE CancelWrite(t)
  <2>1. Lifecycle!Cancel(r)
    BY <1>2, <1>6
    DEF CancelWrite, Record, balanceRows, Lifecycle!Cancel, Lifecycle!Move,
        Lifecycle!ledger, Lifecycle!Pending, Pending
  <2> QED
    BY <1>2, <2>1 DEF Lifecycle!Next
<1> QED
  BY <1>3, <1>4, <1>5, <1>6

LEMMA BalanceImplements ==
  ASSUME IInv, BalanceHeld, NEW t \in Tx, ~Rollback(t),
         SetEntitlementWrite(t) \/ AdjustWrite(t)
  PROVE  Lifecycle!Next
<1> DEFINE k == call[t].key
           n == call[t].amount
<1>1. /\ k \in Key /\ UNCHANGED <<status, leave>>
      /\ call[t].op = "setEntitlement" => n \in Entitlement
      /\ call[t].op = "adjust" => n \in Adjustment
  BY TypeParts, CallShape DEF IInv, SetEntitlementWrite, AdjustWrite, At, requestRows
<1>2. CASE SetEntitlementWrite(t)
  <2>0. balanceLock[k] # t => balance[k] = NoBalance
    BY <1>1, <1>2 DEF SetEntitlementWrite, Insertable, BalanceHeld, Unconfigured
  <2>1. Lifecycle!SetEntitlement(k, n)
    BY <1>1, <1>2, <2>0
    DEF SetEntitlementWrite, SatisfiesChecks, Lifecycle!SetEntitlement,
        Lifecycle!Available, Available, Lifecycle!requests
  <2> QED
    BY <1>1, <1>2, <2>1 DEF Lifecycle!Next, Lifecycle!Key, Key, SetEntitlementWrite, At
<1>3. CASE AdjustWrite(t)
  <2>1. k \in configured
    BY <1>3 DEF AdjustWrite, BalanceHeld, AdjustHeld, Adjusting, Allows
  <2>2. Lifecycle!AdjustBalance(k, n)
    BY <1>1, <1>3, <2>1
    DEF AdjustWrite, SatisfiesChecks, Lifecycle!AdjustBalance,
        Lifecycle!Available, Available, Lifecycle!requests
  <2> QED
    BY <1>1, <1>3, <2>2 DEF Lifecycle!Next, Lifecycle!Key, Key, AdjustWrite, At
<1> QED
  BY <1>2, <1>3

\* However the statements of concurrent calls interleave, fail and wait, every
\* decision and every change of a balance takes effect in one step.
THEOREM Implements == Spec => ActsAtomically
<1>1. Init => Lifecycle!Init
  BY DEF Init, Lifecycle!Init, Lifecycle!Key, Key, Lifecycle!NoBalance, NoBalance
<1>2. IInv /\ BalanceHeld /\ ValidCalls /\ [Next]_vars => [Lifecycle!Next]_Abstract
  <2> SUFFICES ASSUME IInv, BalanceHeld, ValidCalls, [Next]_vars
               PROVE  Lifecycle!Next \/ UNCHANGED Abstract
    BY DEF Abstract
  <2>1. ASSUME NEW t \in Tx, Advance(t) PROVE Lifecycle!Next \/ UNCHANGED Abstract
    BY <2>1, SubmitImplements, DecisionImplements, BalanceImplements
    DEF Advance, ReadEmployee, ReadManager, CheckType, CheckOverlap, CheckBalance,
        LockRequest, CheckScope, ReadType, LockCharged, LockEntitlement,
        LockAdjusted, Goto, Rollback, rows, requestRows, balanceRows, Abstract
  <2> QED
    BY <2>1
    DEF Next, Begin, Abort, Rollback, CreateType, UpdateType, UpdateEmployee, vars, rows,
        requestRows,
        balanceRows, Abstract
<1>3. Init => BalanceHeld /\ ValidCalls
  BY DEF Init, BalanceHeld, Unconfigured, ChargeHeld, AdjustHeld, Charging, Adjusting,
         At, ValidCalls
<1>4. IInv /\ BalanceHeld /\ ValidCalls /\ [Next]_vars => (BalanceHeld /\ ValidCalls)'
  BY BalanceHeldKept, ValidCallsKept
<1> QED
  BY <1>1, <1>2, <1>3, <1>4, Invariance, PTL
  DEF Spec, Abstract, Lifecycle!Spec, Lifecycle!vars, ActsAtomically

----------------------------------------------------------------------------
(* Scope: nobody decides the manager stage of the leave they take           *)

NotOwnManager == \A e \in Employee : manager[e] # e

\* A transaction at the decision of a manager stage remembers, as the employee
\* whom the caller was identified as, another one than the owner.
OnManagerStage(t) ==
  At(t, "write", {"managerApprove", "reject"}) /\ seen[t].stage = "MANAGER"
ScopeHeld(t) ==
  OnManagerStage(t) => seen[t].employee \in Employee \ {leave[call[t].req].emp}

LEMMA ReachesManagerStage ==
  ASSUME IInv, NEW t \in Tx, Begin(t) \/ Advance(t) \/ Abort(t), OnManagerStage(t)'
  PROVE  CheckScope(t) /\ InScope(t) /\ UNCHANGED <<call, leave, seen>>
<1>0. ControlOK
  BY TypeParts DEF IInv
<1>1. ~Rollback(t) /\ ~Finish(t) /\ ~Begin(t)
  BY <1>0, FinishOthers DEF Begin, OnManagerStage, At, ControlOK, Rollback
<1>2. CASE \/ ReadEmployee(t) \/ ReadManager(t) \/ CheckType(t) \/ CheckOverlap(t)
           \/ CheckBalance(t) \/ ReadType(t) \/ LockCharged(t)
           \/ LockEntitlement(t) \/ LockAdjusted(t)
  BY <1>0, <1>1, <1>2
  DEF ReadEmployee, ReadManager, CheckType, CheckOverlap, CheckBalance, ReadType,
      LockCharged, LockEntitlement, LockAdjusted, Goto, ControlOK, OnManagerStage,
      At
<1>3. CASE LockRequest(t)
  BY <1>0, <1>1, <1>3
  DEF LockRequest, AfterLock, StageOf, Admits, Goto, ControlOK, Memory,
      OnManagerStage, At
<1>4. CASE CheckScope(t)
  BY <1>1, <1>4 DEF CheckScope, Goto, rows, requestRows
<1> QED
  BY <1>1, <1>2, <1>3, <1>4
  DEF Advance, Abort, SubmitWrite, ManagerApproveWrite, HRApproveWrite, RejectWrite,
      CancelWrite, SetEntitlementWrite, AdjustWrite

\* The caller in scope manages somebody else.
LEMMA InScopeIsNotOwner ==
  ASSUME IInv, NotOwnManager, NEW t \in Tx, Deciding(t), InScope(t)
  PROVE  seen[t].employee \in Employee \ {leave[call[t].req].emp}
<1>1. leave[call[t].req].emp \in Employee
  BY DecisionFacts DEF Period
<1> QED
  BY <1>1, TypeParts DEF IInv, RowsOK, InScope, NotOwnManager

LEMMA ScopeHeldKept ==
  ASSUME IInv, NotOwnManager, \A t \in Tx : ScopeHeld(t), [Next]_vars, NEW u \in Tx
  PROVE  ScopeHeld(u)'
<1>0. RowsOK /\ ControlOK
  BY TypeParts DEF IInv
<1> DEFINE NotOwner == seen[u].employee \in Employee \ {leave[call[u].req].emp}
<1> SUFFICES ASSUME OnManagerStage(u)' PROVE NotOwner'
  BY DEF ScopeHeld
<1>1. ASSUME OnManagerStage(u), call'[u] = call[u], seen'[u] = seen[u] PROVE NotOwner'
  <2>1. call[u].req \in RequestId /\ status[call[u].req] # "ABSENT"
    BY <1>1, DecisionFacts DEF OnManagerStage, At, Deciding, Decisions, Pending
  <2>2. leave'[call[u].req] = leave[call[u].req]
    BY <1>0, <2>1, LeaveKept
  <2> QED
    BY <1>1, <2>2 DEF ScopeHeld
<1>2. ASSUME NEW t \in Tx, Begin(t) \/ Advance(t) \/ Abort(t) PROVE NotOwner'
  <2>1. CASE u # t
    BY <1>0, <1>1, <1>2, <2>1, AdvanceOthers DEF Others, OnManagerStage, At
  <2>2. CASE u = t
    <3>1. CheckScope(t) /\ InScope(t) /\ UNCHANGED <<call, leave, seen>>
      BY <1>2, <2>2, ReachesManagerStage
    <3>2. Deciding(t)
      BY <3>1 DEF CheckScope, At, Deciding, Decisions
    <3> QED
      BY <2>2, <3>1, <3>2, InScopeIsNotOwner
  <2> QED
    BY <2>1, <2>2
<1>3. ASSUME UNCHANGED <<pc, call, seen>> PROVE NotOwner'
  BY <1>1, <1>3 DEF OnManagerStage, At
<1> QED
  BY <1>2, <1>3 DEF Next, CreateType, UpdateType, UpdateEmployee, vars

\* Whoever decides the manager stage of a leave acts as another employee than
\* the one who takes it, however managers and accounts change meanwhile.
THEOREM NobodyDecidesOwnLeave == Spec => []NobodyManagesOwnLeave
<1> DEFINE Scope == NotOwnManager /\ \A t \in Tx : ScopeHeld(t)
<1>1. Init => Scope
  BY CallsAssumption DEF Init, NotOwnManager, ScopeHeld, OnManagerStage, At
<1>2. ASSUME IInv, Scope, [Next]_vars PROVE Scope'
  <2>0. RowsOK
    BY <1>2, TypeParts DEF IInv
  <2>1. \/ manager' = manager
        \/ \E e \in Employee, m \in Employee \cup {None}, a \in User \cup {None} :
             UpdateEmployee(e, m, a)
    <3>1. ASSUME NEW t \in Tx, Advance(t) PROVE manager' = manager
      BY <3>1
      DEF Advance, rows, orgRows, ReadEmployee, ReadManager, CheckType, CheckOverlap,
          CheckBalance, SubmitWrite, LockRequest, CheckScope, ReadType, LockCharged,
          ManagerApproveWrite, HRApproveWrite, RejectWrite, CancelWrite,
          LockEntitlement, SetEntitlementWrite, LockAdjusted, AdjustWrite, Goto,
          Rollback
    <3> QED
      BY <1>2, <3>1
      DEF Next, Begin, Abort, Rollback, CreateType, UpdateType, vars, rows, orgRows
  <2>2. NotOwnManager'
    BY <1>2, <2>0, <2>1 DEF NotOwnManager, RowsOK, UpdateEmployee
  <2> QED
    BY <1>2, <2>2, ScopeHeldKept
<1>3. Scope => NobodyManagesOwnLeave
  BY DEF ScopeHeld, OnManagerStage, NobodyManagesOwnLeave
<1> HIDE DEF Scope
<1> QED
  BY <1>1, <1>2, <1>3, Invariance, PTL DEF Spec

----------------------------------------------------------------------------
(* Overlaps: transactions that take turns find the days that others took    *)

Counted(t) ==
  pc[t] \in {"balance", "write"} /\ call[t].op = "submit" => ~Overlaps(call[t].leave)

LEMMA OverlapSymmetric ==
  ASSUME NEW l \in Period, NEW m \in Period, Overlap(l, m) PROVE Overlap(m, l)
<1>1. \A d \in Day : d \in Int
  BY RowsAssumption
<1>2. /\ l.first \in Int /\ l.last \in Int /\ m.first \in Int /\ m.last \in Int
  BY <1>1 DEF Period
<1> QED
  BY <1>2 DEF Overlap

\* A step makes no request active but the one it submits.
LEMMA ActiveBefore ==
  ASSUME IInv, [Next]_vars, NEW r \in RequestId, status'[r] \in Active
  PROVE  \/ status[r] \in Active /\ leave'[r] = leave[r]
         \/ \E t \in Tx : SubmitWrite(t) /\ ~Rollback(t) /\ leave'[r] = call[t].leave
                       /\ \A q \in RequestId \ {r} : status'[q] = status[q]
<1>0. RowsOK
  BY TypeParts DEF IInv
<1>1. CASE UNCHANGED requestRows
  BY <1>1 DEF requestRows
<1>2. ASSUME NEW t \in Tx, SubmitWrite(t), ~Rollback(t)
      PROVE  \/ status[r] \in Active /\ leave'[r] = leave[r]
             \/ /\ leave'[r] = call[t].leave
                /\ \A q \in RequestId \ {r} : status'[q] = status[q]
  BY <1>0, <1>2 DEF SubmitWrite, Record, RowsOK
<1>3. ASSUME NEW t \in Tx, ~Rollback(t),
             \/ ManagerApproveWrite(t) \/ HRApproveWrite(t) \/ RejectWrite(t)
             \/ CancelWrite(t)
      PROVE  status[r] \in Active /\ leave'[r] = leave[r]
  <2>1. Deciding(t)
    BY <1>3 DEF ManagerApproveWrite, HRApproveWrite, RejectWrite, CancelWrite, At,
                Deciding, Decisions
  <2>2. /\ leave' = leave
        /\ \E s : status' = [status EXCEPT ![call[t].req] = s]
    BY <1>3 DEF ManagerApproveWrite, HRApproveWrite, RejectWrite, CancelWrite, Record
  <2> QED
    BY <1>0, <2>1, <2>2, DecisionFacts DEF Active, RowsOK
<1>4. ASSUME NEW t \in Tx, Advance(t)
      PROVE  \/ UNCHANGED requestRows
             \/ SubmitWrite(t) /\ ~Rollback(t)
             \/ status[r] \in Active /\ leave'[r] = leave[r]
  BY <1>3, <1>4
  DEF Advance, ReadEmployee, ReadManager, CheckType, CheckOverlap, CheckBalance,
      LockRequest, CheckScope, ReadType, LockCharged, LockEntitlement,
      SetEntitlementWrite, LockAdjusted, AdjustWrite, Goto, Rollback, rows
<1> QED
  BY <1>1, <1>2, <1>4
  DEF Next, Begin, Abort, Rollback, CreateType, UpdateType, UpdateEmployee, vars, rows

\* When every employee makes one submission at a time, no two requests of one
\* employee that are pending or approved share a day, whatever other calls run.
THEOREM NoOverlapOneAtATime == OneAtATime => []NoOverlap
<1>1. Init => IInv /\ OneSubmission /\ NoOverlap /\ \A t \in Tx : Counted(t)
  BY InitIInv
  DEF Init, NoOverlap, Counted, Active, Pending, OneSubmission, Submitting
<1>2. ASSUME IInv, IInv', NoOverlap, \A t \in Tx : Counted(t), [Next]_vars
      PROVE  NoOverlap'
  <2>0. RowsOK /\ ControlOK /\ RowsOK'
    <3>1. ASSUME TypeOK PROVE RowsOK /\ ControlOK
      BY <3>1, TypeParts
    <3>2. TypeOK' => RowsOK'
      BY DEF TypeOK, RowsOK
    <3> QED
      BY <1>2, <3>1, <3>2 DEF IInv
  <2> SUFFICES ASSUME NEW r \in RequestId, NEW s \in RequestId, r # s,
                      status'[r] \in Active, status'[s] \in Active
               PROVE  ~Overlap(leave'[r], leave'[s])
    BY DEF NoOverlap, Overlap
  <2>1. leave'[r] \in Period /\ leave'[s] \in Period
    BY <2>0 DEF RowsOK, Active, Pending
  <2>2. CASE /\ status[r] \in Active /\ leave'[r] = leave[r]
             /\ status[s] \in Active /\ leave'[s] = leave[s]
    BY <1>2, <2>2 DEF NoOverlap
  <2>3. ASSUME NEW q \in RequestId, NEW p \in RequestId, q # p,
               status'[p] \in Active, NEW t \in Tx, SubmitWrite(t), ~Rollback(t),
               leave'[q] = call[t].leave,
               \A o \in RequestId \ {q} : status'[o] = status[o]
        PROVE  ~Overlap(leave'[p], leave'[q])
    <3>1. status[p] \in Active /\ leave'[p] = leave[p]
      BY <1>2, <2>0, <2>3, LeaveKept DEF Active, Pending
    <3>2. ~Overlaps(call[t].leave)
      BY <1>2, <2>3 DEF Counted, SubmitWrite, At
    <3> QED
      BY <2>3, <3>1, <3>2 DEF Overlaps
  <2> QED
    BY <1>2, <2>1, <2>2, <2>3, ActiveBefore, OverlapSymmetric
<1>3. ASSUME IInv, OneSubmission, \A t \in Tx : Counted(t), [Next]_vars, NEW u \in Tx
      PROVE  Counted(u)'
  <2>0. ControlOK
    BY <1>3, TypeParts DEF IInv
  <2> SUFFICES ASSUME (pc[u] \in {"balance", "write"} /\ call[u].op = "submit")'
               PROVE  ~Overlaps(call[u].leave)'
    BY DEF Counted
  <2>1. /\ call'[u] = call[u] /\ pc[u] # "idle"
        /\ ~Overlaps(call[u].leave) /\ ~Finish(u)
    <3>1. ASSUME NEW t \in Tx \ {u}, Begin(t) \/ Advance(t) \/ Abort(t)
          PROVE  pc'[u] = pc[u] /\ call'[u] = call[u]
      BY <2>0, <3>1, AdvanceOthers DEF Others
    <3>2. ~Finish(u) /\ ~Begin(u)
      BY <2>0, FinishOthers DEF Begin, ControlOK
    <3>3. CASE Advance(u)
      BY <1>3, <2>0, <3>2, <3>3
      DEF Advance, ReadEmployee, ReadManager, CheckType, CheckOverlap,
          CheckBalance, SubmitWrite, LockRequest, CheckScope, ReadType,
          LockCharged, ManagerApproveWrite, HRApproveWrite, RejectWrite,
          CancelWrite, LockEntitlement, SetEntitlementWrite, LockAdjusted,
          AdjustWrite, Goto, At, Rollback, Counted, ControlOK, Decisions
    <3>4. CASE UNCHANGED <<pc, call>>
      BY <1>3, <3>2, <3>4 DEF Counted
    <3> QED
      BY <1>3, <3>1, <3>2, <3>3, <3>4
      DEF Next, Abort, Rollback, CreateType, UpdateType, UpdateEmployee, vars, Counted
  <2>2. ASSUME NEW t \in Tx, SubmitWrite(t)
        PROVE  call[t].leave.emp # call[u].leave.emp
    <3>1. call[u].op = "submit" /\ call[u] # None /\ call[t].op = "submit" /\ call[t] # None
      BY <2>0, <2>1, <2>2 DEF SubmitWrite, At, ControlOK
    <3>2. t # u
      BY <2>1, <2>2 DEF SubmitWrite, Rollback
    <3> QED
      BY <1>3, <3>1, <3>2 DEF OneSubmission, Submitting
  <2>3. \A r \in RequestId : status'[r] \in Active =>
          \/ status[r] \in Active /\ leave'[r] = leave[r]
          \/ leave'[r].emp # call[u].leave.emp
    BY <1>3, <2>2, ActiveBefore
  <2> QED
    BY <2>1, <2>3 DEF Overlaps, Overlap
<1>4. OneSubmission /\ [Next /\ OneSubmission']_vars => OneSubmission'
  BY DEF OneSubmission, Submitting, vars
<1>5. [Next /\ OneSubmission']_vars => [Next]_vars
  OBVIOUS
<1>6. IInv /\ [Next]_vars => IInv'
  BY NextIInv
<1> DEFINE AllCounted == \A t \in Tx : Counted(t)
<1>7. Init => IInv /\ OneSubmission /\ NoOverlap /\ AllCounted
  BY <1>1
<1>8. IInv /\ OneSubmission /\ AllCounted /\ [Next]_vars => AllCounted'
  BY <1>3
<1>9. IInv /\ NoOverlap /\ AllCounted /\ [Next]_vars => NoOverlap'
  BY <1>2, <1>6
<1> HIDE DEF AllCounted
<1> QED
  BY <1>4, <1>5, <1>6, <1>7, <1>8, <1>9, PTL DEF OneAtATime

----------------------------------------------------------------------------
(* The audit trail and the notifications tell what happened                 *)

LastEvent(s) ==
  CASE s = "APPROVED" -> <<"LEAVE_APPROVED">>
    [] s = "REJECTED" -> <<"LEAVE_REJECTED">>
    [] s = "CANCELLED" -> <<"LEAVE_CANCELLED">>
    [] OTHER -> <<>>
ManagerEvent(a) ==
  IF a["MANAGER"].status = "APPROVED" THEN <<"LEAVE_MANAGER_APPROVED">> ELSE <<>>
Story(a, s) == <<"LEAVE_SUBMITTED">> \o ManagerEvent(a) \o LastEvent(s)

Types(notes) == {n.type : n \in notes}
Said(events) == {events[i] : i \in DOMAIN events}
OnlySaid(r) == Types(told[r]) \subseteq Said(trail[r]) \ {"LEAVE_CANCELLED"}
Announced(r) == OnlySaid(r) /\ "LEAVE_SUBMITTED" \in Types(told[r])
Told(r) ==
  IF status[r] = "ABSENT" THEN trail[r] = <<>> /\ told[r] = {}
  ELSE trail[r] = Story(approval[r], status[r]) /\ Announced(r)

LEMMA AppendSaid ==
  ASSUME NEW events \in Seq(Event), NEW e \in Event
  PROVE  Said(Append(events, e)) = Said(events) \cup {e}
<1> DEFINE longer == Append(events, e)
<1>1. /\ DOMAIN events = 1 .. Len(events) /\ Len(events) \in Nat
      /\ DOMAIN longer = 1 .. Len(events) + 1
      /\ \A i \in 1 .. Len(events) : longer[i] = events[i]
      /\ longer[Len(events) + 1] = e
  OBVIOUS
<1>2. ASSUME NEW x \in Said(longer) PROVE x \in Said(events) \cup {e}
  <2>1. PICK i \in 1 .. Len(events) + 1 : x = longer[i]
    BY <1>1, <1>2 DEF Said
  <2>2. i = Len(events) + 1 \/ i \in 1 .. Len(events)
    BY <1>1
  <2> QED
    BY <1>1, <2>1, <2>2 DEF Said
<1>3. ASSUME NEW x \in Said(events) \cup {e} PROVE x \in Said(longer)
  <2>1. CASE x = e
    <3>1. Len(events) + 1 \in DOMAIN longer
      BY <1>1
    <3> QED
      BY <1>1, <2>1, <3>1 DEF Said
  <2>2. CASE x \in Said(events)
    <3>1. PICK i \in 1 .. Len(events) : x = events[i]
      BY <1>1, <2>2 DEF Said
    <3>2. i \in DOMAIN longer /\ x = longer[i]
      BY <1>1, <3>1
    <3> QED
      BY <3>2 DEF Said
  <2> QED
    BY <1>3, <2>1, <2>2
<1> QED
  BY <1>2, <1>3

LEMMA StoryGrows ==
  ASSUME NEW e \in Event, NEW first \in Seq(Event), NEW middle \in Seq(Event)
  PROVE  /\ Append(first \o <<>> \o <<>>, e) = first \o <<e>> \o <<>>
         /\ Append(first \o middle \o <<>>, e) = first \o middle \o <<e>>
OBVIOUS

\* An event is told to the accounts it finds, and a cancellation to nobody.
LEMMA RecordTold ==
  ASSUME RowsOK, NEW r \in RequestId, NEW s \in Status, NEW e \in Event, NEW users,
         Record(r, s, e, users), OnlySaid(r), e = "LEAVE_CANCELLED" => users = {}
  PROVE  /\ status'[r] = s /\ trail'[r] = Append(trail[r], e) /\ OnlySaid(r)'
         /\ Types(told[r]) \subseteq Types(told'[r])
         /\ users \cap User # {} => e \in Types(told'[r])
         /\ \A q \in RequestId \ {r} : /\ status'[q] = status[q] /\ trail'[q] = trail[q]
                                       /\ told'[q] = told[q]
<1> DEFINE new == [type : {e}, to : users \cap User]
<1>1. /\ status'[r] = s /\ trail'[r] = Append(trail[r], e) /\ told'[r] = told[r] \cup new
      /\ \A q \in RequestId \ {r} : /\ status'[q] = status[q] /\ trail'[q] = trail[q]
                                    /\ told'[q] = told[q]
  BY DEF Record, RowsOK
<1>2. Said(trail'[r]) = Said(trail[r]) \cup {e}
  BY <1>1, AppendSaid DEF RowsOK
<1>3. Types(new) \subseteq {e} /\ (users = {} => Types(new) = {})
  BY DEF Types
<1>4. ASSUME NEW u \in users \cap User PROVE e \in Types(new)
  <2>1. [type |-> e, to |-> u] \in new
    OBVIOUS
  <2> QED
    BY <2>1 DEF Types
<1> HIDE DEF new
<1>5. Types(told'[r]) = Types(told[r]) \cup Types(new)
  BY <1>1 DEF Types
<1>6. OnlySaid(r)'
  BY <1>2, <1>3, <1>5 DEF OnlySaid
<1> QED
  BY <1>1, <1>4, <1>5, <1>6

\* Only these steps write about requests.
LEMMA RequestSteps ==
  ASSUME [Next]_vars
  PROVE  \/ UNCHANGED requestRows
         \/ \E t \in Tx : /\ ~Rollback(t)
                          /\ \/ SubmitWrite(t) \/ ManagerApproveWrite(t)
                             \/ HRApproveWrite(t) \/ RejectWrite(t) \/ CancelWrite(t)
<1>1. ASSUME NEW t \in Tx, Advance(t)
      PROVE  \/ UNCHANGED requestRows
             \/ /\ ~Rollback(t)
                /\ \/ SubmitWrite(t) \/ ManagerApproveWrite(t) \/ HRApproveWrite(t)
                   \/ RejectWrite(t) \/ CancelWrite(t)
  BY <1>1
  DEF Advance, ReadEmployee, ReadManager, CheckType, CheckOverlap, CheckBalance,
      LockRequest, CheckScope, ReadType, LockCharged, LockEntitlement,
      SetEntitlementWrite, LockAdjusted, AdjustWrite, Goto, Rollback, rows
<1> QED
  BY <1>1 DEF Next, Begin, Abort, Rollback, CreateType, UpdateType, UpdateEmployee, vars, rows

\* The account that Submit will notify is the one its check of the manager found.
PastManager(t) ==
  pc[t] \in {"type", "overlap", "balance", "write"} /\ call[t].op = "submit"
AddresseeKnown(t) == PastManager(t) => seen[t].addressee \in User
AddresseesKnown == \A t \in Tx : AddresseeKnown(t)

LEMMA AddresseeKept ==
  ASSUME IInv, [Next]_vars, NEW u \in Tx, AddresseeKnown(u) PROVE AddresseeKnown(u)'
<1>0. ControlOK
  BY TypeParts DEF IInv
<1> SUFFICES ASSUME PastManager(u)' PROVE seen'[u].addressee \in User
  BY DEF AddresseeKnown
<1>1. ASSUME NEW t \in Tx, Begin(t) \/ Advance(t) \/ Abort(t)
      PROVE  seen'[u].addressee \in User
  <2>1. CASE u # t
    BY <1>0, <1>1, <2>1, AdvanceOthers DEF Others, PastManager, AddresseeKnown
  <2>2. ~Finish(u) /\ ~Begin(u)
    BY <1>0, FinishOthers DEF Begin, ControlOK, PastManager
  <2>3. CASE ReadEmployee(u)
    BY <1>0, <2>2, <2>3 DEF ReadEmployee, Rollback, Goto, ControlOK, PastManager
  <2>4. CASE ReadManager(u)
    BY <1>0, <2>2, <2>4 DEF ReadManager, Rollback, ControlOK, Memory
  <2>5. CASE CheckType(u) \/ CheckOverlap(u) \/ CheckBalance(u)
    BY <1>0, <2>2, <2>5
    DEF CheckType, CheckOverlap, CheckBalance, Rollback, Goto, At, PastManager,
        AddresseeKnown, ControlOK, Memory
  <2>6. CASE \/ LockRequest(u) \/ CheckScope(u) \/ ReadType(u) \/ LockCharged(u)
             \/ LockEntitlement(u) \/ LockAdjusted(u)
    <3>1. call' = call /\ call[u].op # "submit"
      BY <2>2, <2>6
      DEF LockRequest, CheckScope, ReadType, LockCharged, LockEntitlement,
          LockAdjusted, Rollback, Goto, At, Decisions
    <3> QED
      BY <3>1 DEF PastManager
  <2> QED
    BY <1>1, <2>1, <2>2, <2>3, <2>4, <2>5, <2>6
    DEF Advance, Abort, Rollback, SubmitWrite, ManagerApproveWrite, HRApproveWrite,
        RejectWrite, CancelWrite, SetEntitlementWrite, AdjustWrite
<1>2. ASSUME UNCHANGED <<pc, call, seen>> PROVE seen'[u].addressee \in User
  BY <1>2 DEF AddresseeKnown, PastManager
<1> QED
  BY <1>1, <1>2 DEF Next, CreateType, UpdateType, UpdateEmployee, vars

LEMMA SubmitTold ==
  ASSUME IInv, AddresseesKnown, \A r \in RequestId : Told(r), NEW t \in Tx,
         SubmitWrite(t), ~Rollback(t), NEW q \in RequestId
  PROVE  Told(q)'
<1>0. RowsOK /\ ControlOK
  BY TypeParts DEF IInv
<1>1. PICK r \in RequestId :
        /\ status[r] = "ABSENT"
        /\ approval' = [approval EXCEPT ![r]["MANAGER"] = Row("PENDING", None)]
        /\ Record(r, "PENDING_MANAGER", "LEAVE_SUBMITTED", {seen[t].addressee})
  BY DEF SubmitWrite
<1>2. {seen[t].addressee} \cap User # {}
  BY DEF AddresseesKnown, AddresseeKnown, PastManager, SubmitWrite, At
<1>3. trail[r] = <<>> /\ told[r] = {}
  BY <1>1 DEF Told
<1>4. OnlySaid(r)
  BY <1>3 DEF OnlySaid, Types, Said
<1>5. /\ status'[r] = "PENDING_MANAGER" /\ Announced(r)'
      /\ trail'[r] = Append(trail[r], "LEAVE_SUBMITTED")
      /\ \A p \in RequestId \ {r} : /\ status'[p] = status[p] /\ trail'[p] = trail[p]
                                    /\ told'[p] = told[p]
  <2>1. "PENDING_MANAGER" \in Status /\ "LEAVE_SUBMITTED" \in Event
    BY DEF Status, Event
  <2> QED
    BY <1>0, <1>1, <1>2, <1>4, <2>1, RecordTold DEF Announced
<1>6. CASE q = r
  <2>1. trail'[r] = <<"LEAVE_SUBMITTED">>
    BY <1>3, <1>5
  <2>2. approval'[r]["MANAGER"].status = "PENDING"
    BY <1>0, <1>1 DEF RowsOK, Row, Stage
  <2>4. Story(approval'[r], status'[r]) = <<"LEAVE_SUBMITTED">>
    BY <1>5, <2>2 DEF Story, ManagerEvent, LastEvent
  <2> QED
    BY <1>5, <1>6, <2>1, <2>4 DEF Told
<1>7. CASE q # r
  <2>1. approval'[q] = approval[q]
    BY <1>0, <1>1, <1>7 DEF RowsOK
  <2> QED
    BY <1>5, <1>7, <2>1 DEF Told, Announced, OnlySaid
<1> QED
  BY <1>6, <1>7

\* A decision adds its event to the story.
LEMMA DecisionTold ==
  ASSUME IInv, NEW r \in RequestId, Told(r), status[r] \in Pending,
         NEW s \in Status, NEW e \in Event, NEW users, Record(r, s, e, users),
         e = "LEAVE_CANCELLED" => users = {},
         \/ /\ s = "PENDING_HR" /\ e = "LEAVE_MANAGER_APPROVED"
            /\ status[r] = "PENDING_MANAGER" /\ ManagerEvent(approval'[r]) = <<e>>
         \/ /\ LastEvent(s) = <<e>>
            /\ ManagerEvent(approval'[r]) = ManagerEvent(approval[r])
  PROVE  Told(r)'
<1> DEFINE first == <<"LEAVE_SUBMITTED">>
           middle == ManagerEvent(approval[r])
<1>0. RowsOK
  BY TypeParts DEF IInv
<1>1. LastEvent(status[r]) = <<>>
  BY DEF LastEvent, Pending
<1>2. trail[r] = first \o middle \o <<>> /\ Announced(r)
  BY <1>1 DEF Told, Story, Pending
<1>3. status'[r] = s /\ trail'[r] = Append(trail[r], e) /\ Announced(r)'
  BY <1>0, <1>2, RecordTold DEF Announced
<1>4. first \in Seq(Event) /\ middle \in Seq(Event)
  <2>1. /\ "LEAVE_SUBMITTED" \in Event /\ "LEAVE_MANAGER_APPROVED" \in Event
        /\ \A d \in Event : <<d>> \in Seq(Event)
        /\ <<>> \in Seq(Event)
    BY DEF Event
  <2> QED
    BY <2>1 DEF ManagerEvent
<1>5. trail'[r] = Story(approval'[r], s)
  <2>1. CASE LastEvent(s) = <<e>> /\ ManagerEvent(approval'[r]) = middle
    BY <1>2, <1>3, <1>4, <2>1, StoryGrows DEF Story
  <2>2. CASE /\ s = "PENDING_HR" /\ status[r] = "PENDING_MANAGER"
             /\ ManagerEvent(approval'[r]) = <<e>>
    <3>1. middle = <<>> /\ LastEvent(s) = <<>>
      BY <2>2 DEF IInv, StagesInStep, ManagerEvent, LastEvent
    <3> QED
      BY <1>2, <1>3, <1>4, <2>2, <3>1, StoryGrows DEF Story
  <2> QED
    BY <2>1, <2>2
<1> QED
  BY <1>3, <1>5 DEF Told, Status

\* The writes of the four decisions are such steps.
LEMMA WriteTold ==
  ASSUME IInv, \A r \in RequestId : Told(r), NEW t \in Tx,
         \/ ManagerApproveWrite(t) \/ HRApproveWrite(t) \/ RejectWrite(t)
         \/ CancelWrite(t),
         ~Rollback(t), NEW q \in RequestId
  PROVE  Told(q)'
<1>0. RowsOK
  BY TypeParts DEF IInv
<1>1. Deciding(t)
  BY DEF ManagerApproveWrite, HRApproveWrite, RejectWrite, CancelWrite, At, Deciding,
         Decisions
<1>r. PICK r \in RequestId : r = call[t].req
  BY <1>1, DecisionFacts
<1>2. /\ r \in RequestId /\ status[r] \in Pending /\ leave[r] \in Period
      /\ seen[t].stage = StageOf(status[r])
  BY <1>1, <1>r, DecisionFacts
<1>4. /\ Status = {"PENDING_MANAGER", "PENDING_HR", "APPROVED", "REJECTED", "CANCELLED"}
      /\ {"LEAVE_MANAGER_APPROVED", "LEAVE_APPROVED", "LEAVE_REJECTED",
          "LEAVE_CANCELLED"} \subseteq Event
      /\ {"APPROVED", "REJECTED", "CANCELLED"} \subseteq ApprovalStatus
  BY DEF Status, Event, ApprovalStatus
<1>5. CASE ManagerApproveWrite(t)
  <2>1. /\ approval' = [SetRow(t, "APPROVED") EXCEPT ![r]["HR"] = Row("PENDING", None)]
        /\ Record(r, "PENDING_HR", "LEAVE_MANAGER_APPROVED", HRUser)
    BY <1>5, <1>r DEF ManagerApproveWrite
  <2>2. status[r] = "PENDING_MANAGER" /\ seen[t].stage = "MANAGER"
    BY <1>1, <1>2, <1>5, <1>r DEF IInv, RequestHeld, ManagerApproveWrite, At, StageOf
  <2>3. /\ SetRow(t, "APPROVED") \in [RequestId -> [Stage -> Approval]]
        /\ SetRow(t, "APPROVED")[r]["MANAGER"] = Row("APPROVED", call[t].user)
        /\ \A p \in RequestId \ {r} : SetRow(t, "APPROVED")[p] = approval[p]
    BY <1>1, <1>4, <1>r, <2>2, SetRowOK
  <2>4. /\ approval'[r]["MANAGER"].status = "APPROVED"
        /\ \A p \in RequestId \ {r} : approval'[p] = approval[p]
    BY <1>2, <2>1, <2>3 DEF Row, Stage
  <2>5. Told(r)'
    BY <1>2, <1>4, <2>1, <2>2, <2>4, DecisionTold DEF ManagerEvent
  <2> QED
    BY <1>0, <1>2, <2>1, <2>4, <2>5 DEF Record, RowsOK, Told, Announced, OnlySaid
<1>6. CASE HRApproveWrite(t) \/ RejectWrite(t)
  <2>1. PICK s \in {"APPROVED", "REJECTED"} :
          /\ approval' = SetRow(t, s)
          /\ Record(r, s, IF s = "APPROVED" THEN "LEAVE_APPROVED" ELSE "LEAVE_REJECTED",
                    {OwnerAccount(r)})
          /\ status[r] = "PENDING_HR" \/ s = "REJECTED"
    BY <1>1, <1>6, <1>r DEF HRApproveWrite, RejectWrite, IInv, RequestHeld, At
  <2>2. /\ approval'[r][seen[t].stage] = Row(s, call[t].user)
        /\ \A g \in Stage \ {seen[t].stage} : approval'[r][g] = approval[r][g]
        /\ \A p \in RequestId \ {r} : approval'[p] = approval[p]
    BY <1>1, <1>4, <1>r, <2>1, SetRowOK
  <2>3. approval'[r]["MANAGER"].status = "APPROVED" <=>
          approval[r]["MANAGER"].status = "APPROVED"
    <3>1. CASE status[r] = "PENDING_MANAGER"
      BY <1>2, <2>1, <2>2, <3>1 DEF StageOf, Row, IInv, StagesInStep
    <3>2. CASE status[r] = "PENDING_HR"
      BY <1>2, <2>2, <3>2 DEF StageOf, Stage
    <3> QED
      BY <1>2, <3>1, <3>2 DEF Pending
  <2>4. ManagerEvent(approval'[r]) = ManagerEvent(approval[r])
    BY <2>3 DEF ManagerEvent
  <2>5. Told(r)'
    <3>1. CASE s = "APPROVED"
      BY <1>2, <1>4, <2>1, <2>4, <3>1, DecisionTold DEF LastEvent
    <3>2. CASE s = "REJECTED"
      BY <1>2, <1>4, <2>1, <2>4, <3>2, DecisionTold DEF LastEvent
    <3> QED
      BY <3>1, <3>2
  <2> QED
    BY <1>0, <1>2, <2>1, <2>2, <2>5 DEF Record, RowsOK, Told, Announced, OnlySaid
<1>7. CASE CancelWrite(t)
  <2>1. /\ approval' = [approval EXCEPT ![r] = CancelRows(approval[r])]
        /\ Record(r, "CANCELLED", "LEAVE_CANCELLED", {})
    BY <1>7, <1>r DEF CancelWrite
  <2>2. /\ approval'[r] = CancelRows(approval[r])
        /\ \A p \in RequestId \ {r} : approval'[p] = approval[p]
    BY <1>0, <1>2, <2>1 DEF RowsOK
  <2>3. CancelRows(approval[r])["MANAGER"].status = "APPROVED" <=>
          approval[r]["MANAGER"].status = "APPROVED"
    BY <1>0, <1>2 DEF CancelRows, RowsOK, Stage, Approval
  <2>4. ManagerEvent(approval'[r]) = ManagerEvent(approval[r])
    BY <2>2, <2>3 DEF ManagerEvent
  <2>5. Told(r)'
    BY <1>2, <1>4, <2>1, <2>4, DecisionTold DEF LastEvent
  <2> QED
    BY <1>0, <1>2, <2>1, <2>2, <2>5 DEF Record, RowsOK, Told, Announced, OnlySaid
<1> QED
  BY <1>5, <1>6, <1>7

\* The audit log of a request is the story its rows tell; its submission was
\* announced to an account and nothing but its events was, however accounts change.
THEOREM TrailIsComplete == Spec => []TrailTellsHistory
<1> DEFINE AllTold == \A r \in RequestId : Told(r)
<1>1. Init => AllTold /\ AddresseesKnown
  BY DEF Init, Told, AddresseesKnown, AddresseeKnown, PastManager
<1>2. ASSUME IInv, AddresseesKnown, AllTold, [Next]_vars PROVE AllTold'
  <2>1. CASE UNCHANGED requestRows
    BY <1>2, <2>1 DEF requestRows, Told, Announced, OnlySaid
  <2> QED
    BY <1>2, <2>1, RequestSteps, SubmitTold, WriteTold
<1>3. AllTold => TrailTellsHistory
  BY DEF Told, Story, ManagerEvent, LastEvent, Announced, OnlySaid, Types, Said,
         TrailTellsHistory
<1>4. IInv /\ AddresseesKnown /\ [Next]_vars => AddresseesKnown'
  BY AddresseeKept DEF AddresseesKnown
<1> HIDE DEF AllTold
<1> QED
  BY <1>1, <1>2, <1>3, <1>4, Invariance, PTL DEF Spec

----------------------------------------------------------------------------
(* Waiting: only decisions hold requests, and who holds a balance is about  *)
(* to write                                                                 *)

\* Only a decision holds the row of a request, that of its own.
RequestHolder(t) ==
  \A r \in RequestId : requestLock[r] = t => Deciding(t) /\ call[t].req = r
BalanceHolder(t) == \A k \in Key : balanceLock[k] = t => pc[t] = "write"
HoldersKnown == \A t \in Tx : RequestHolder(t) /\ BalanceHolder(t)

\* A step takes locks for its own transaction only, and the last releases all.
LEMMA LocksTaken ==
  ASSUME ControlOK, NEW t \in Tx, Begin(t) \/ Advance(t) \/ Abort(t)
  PROVE  /\ \A u \in Tx \ {t}, r \in RequestId :
              requestLock'[r] = u => requestLock[r] = u
         /\ \A u \in Tx \ {t}, k \in Key : balanceLock'[k] = u => balanceLock[k] = u
         /\ Finish(t) => /\ \A r \in RequestId : requestLock'[r] # t
                         /\ \A k \in Key : balanceLock'[k] # t
<1> DEFINE Kept == /\ \A u \in Tx \ {t}, r \in RequestId :
                        requestLock'[r] = u => requestLock[r] = u
                   /\ \A u \in Tx \ {t}, k \in Key :
                        balanceLock'[k] = u => balanceLock[k] = u
<1>1. ASSUME Finish(t)
      PROVE  /\ Kept
             /\ \A r \in RequestId : requestLock'[r] # t
             /\ \A k \in Key : balanceLock'[k] # t
  BY <1>1, CallsAssumption DEF Finish, Release, ControlOK
<1>2. ASSUME Rollback(t) PROVE Kept
  BY <1>1, <1>2 DEF Rollback
<1>3. CASE LockRequest(t) \/ LockCharged(t) \/ LockEntitlement(t) \/ LockAdjusted(t)
  <2>1. ASSUME ~Rollback(t)
        PROVE  \/ UNCHANGED locks
               \/ \E r : requestLock' = [requestLock EXCEPT ![r] = t] /\ UNCHANGED balanceLock
               \/ \E k : balanceLock' = [balanceLock EXCEPT ![k] = t] /\ UNCHANGED requestLock
    BY <1>3, <2>1 DEF LockRequest, LockCharged, LockEntitlement, LockAdjusted,
                      Take, locks
  <2> QED
    BY <1>1, <1>2, <2>1 DEF ControlOK, locks
<1>4. CASE \/ Begin(t) \/ ReadEmployee(t) \/ ReadManager(t) \/ CheckType(t)
           \/ CheckOverlap(t) \/ CheckBalance(t) \/ CheckScope(t) \/ ReadType(t)
  BY <1>1, <1>2, <1>4
  DEF Begin, ReadEmployee, ReadManager, CheckType, CheckOverlap, CheckBalance,
      CheckScope, ReadType, locks
<1>5. CASE \/ SubmitWrite(t) \/ ManagerApproveWrite(t) \/ HRApproveWrite(t)
           \/ RejectWrite(t) \/ CancelWrite(t) \/ SetEntitlementWrite(t)
           \/ AdjustWrite(t) \/ Abort(t)
  BY <1>1, <1>2, <1>5
  DEF SubmitWrite, ManagerApproveWrite, HRApproveWrite, RejectWrite, CancelWrite,
      SetEntitlementWrite, AdjustWrite, Abort
<1> QED
  BY <1>1, <1>3, <1>4, <1>5 DEF Advance

\* A transaction that goes on keeps what it knows of the locks it holds.
LEMMA HolderGoesOn ==
  ASSUME ControlOK, HoldersKnown, NEW t \in Tx, Begin(t) \/ Advance(t) \/ Abort(t),
         ~Finish(t)
  PROVE  RequestHolder(t)' /\ BalanceHolder(t)'
<1>1. pc[t] \notin {"scope", "type", "balance", "write"} =>
        \A r \in RequestId : requestLock[r] # t
  BY DEF HoldersKnown, RequestHolder, Deciding
<1>2. pc[t] # "write" => \A k \in Key : balanceLock[k] # t
  BY DEF HoldersKnown, BalanceHolder
<1>3. CASE \/ Begin(t) \/ ReadEmployee(t) \/ ReadManager(t) \/ CheckType(t)
           \/ CheckOverlap(t) \/ CheckBalance(t)
  <2>1. UNCHANGED locks /\ pc[t] # "write"
    BY <1>3
    DEF Begin, ReadEmployee, ReadManager, CheckType, CheckOverlap, CheckBalance,
        Rollback, At, locks
  <2>2. \A r \in RequestId : requestLock[r] # t
    BY <1>1, <1>3
    DEF HoldersKnown, RequestHolder, Deciding, Begin, ReadEmployee, ReadManager,
        CheckType, CheckOverlap, CheckBalance, At, Decisions
  <2> QED
    BY <1>2, <2>1, <2>2 DEF RequestHolder, BalanceHolder, locks
<1>4. CASE LockRequest(t)
  <2>1. /\ requestLock' = [requestLock EXCEPT ![call[t].req] = t]
        /\ balanceLock' = balanceLock /\ call' = call
        /\ pc' = [pc EXCEPT ![t] = AfterLock(call[t])]
        /\ pc[t] = "start" /\ call[t].op \in Decisions
    BY <1>4 DEF LockRequest, Rollback, Goto, Take, At
  <2>2. Deciding(t)'
    BY <2>1 DEF Deciding, AfterLock, ControlOK
  <2>3. \A r \in RequestId : requestLock'[r] = t => r = call[t].req
    BY <1>1, <2>1 DEF ControlOK
  <2> QED
    BY <1>2, <2>1, <2>2, <2>3 DEF RequestHolder, BalanceHolder
<1>5. CASE CheckScope(t) \/ ReadType(t) \/ LockCharged(t)
  <2>1. /\ requestLock' = requestLock /\ call' = call
        /\ \E label \in {"balance", "write"} : pc' = [pc EXCEPT ![t] = label]
        /\ pc[t] # "write" /\ call[t].op \in Decisions
        /\ balanceLock' = balanceLock \/ pc' = [pc EXCEPT ![t] = "write"]
    BY <1>5 DEF CheckScope, ReadType, LockCharged, Rollback, Goto, At, Decisions, locks
  <2>2. Deciding(t)'
    BY <2>1 DEF Deciding, ControlOK
  <2>3. BalanceHolder(t)'
    BY <1>2, <2>1 DEF BalanceHolder, ControlOK
  <2> QED
    BY <2>1, <2>2, <2>3 DEF HoldersKnown, RequestHolder
<1>6. CASE LockEntitlement(t) \/ LockAdjusted(t)
  <2>1. requestLock' = requestLock /\ pc' = [pc EXCEPT ![t] = "write"] /\ pc[t] = "start"
    BY <1>6 DEF LockEntitlement, LockAdjusted, Rollback, Goto, At
  <2> QED
    BY <1>1, <2>1 DEF RequestHolder, BalanceHolder, ControlOK
<1> QED
  BY <1>3, <1>4, <1>5, <1>6
  DEF Advance, Abort, Rollback, SubmitWrite, ManagerApproveWrite, HRApproveWrite,
      RejectWrite, CancelWrite, SetEntitlementWrite, AdjustWrite

LEMMA HoldersKept == ASSUME IInv, HoldersKnown, [Next]_vars PROVE HoldersKnown'
<1>0. ControlOK
  BY TypeParts DEF IInv
<1>1. ASSUME NEW t \in Tx, Begin(t) \/ Advance(t) \/ Abort(t), NEW u \in Tx
      PROVE  RequestHolder(u)' /\ BalanceHolder(u)'
  <2>1. CASE u # t
    BY <1>0, <1>1, <2>1, AdvanceOthers, LocksTaken
    DEF Others, HoldersKnown, RequestHolder, BalanceHolder, Deciding
  <2>2. CASE u = t /\ Finish(t)
    BY <1>0, <1>1, <2>2, LocksTaken DEF RequestHolder, BalanceHolder
  <2>3. CASE u = t /\ ~Finish(t)
    BY <1>0, <1>1, <2>3, HolderGoesOn
  <2> QED
    BY <2>1, <2>2, <2>3
<1>2. ASSUME UNCHANGED <<locks, pc, call>> PROVE HoldersKnown'
  BY <1>2 DEF HoldersKnown, RequestHolder, BalanceHolder, Deciding, locks
<1> QED
  BY <1>1, <1>2 DEF Next, CreateType, UpdateType, UpdateEmployee, vars, HoldersKnown

\* A decision waits for another, or whoever is waited for is at its writes.
LEMMA WaitedForHolds ==
  ASSUME IInv, HoldersKnown, NEW t \in Tx, NEW u \in Tx, WaitsFor(t, u)
  PROVE  \/ At(t, "start", Decisions) /\ Deciding(u)
         \/ pc[u] = "write"
<1>1. CASE At(t, "start", Decisions) /\ requestLock[call[t].req] = u
  <2>1. call[t].req \in RequestId
    BY <1>1, TypeParts, CallShape DEF IInv, At
  <2> QED
    BY <1>1, <2>1 DEF HoldersKnown, RequestHolder
<1>2. CASE At(t, "balance", {"hrApprove"}) /\ balanceLock[KeyOf(leave[call[t].req])] = u
  <2>1. Deciding(t)
    BY <1>2 DEF At, Deciding, Decisions
  <2>2. KeyOf(leave[call[t].req]) \in Key
    BY <2>1, DecisionFacts, KeyType
  <2> QED
    BY <1>2, <2>2 DEF HoldersKnown, BalanceHolder
<1>3. CASE At(t, "start", {"setEntitlement", "adjust"}) /\ balanceLock[call[t].key] = u
  <2>1. call[t].key \in Key
    BY <1>3, TypeParts, CallShape DEF IInv, At
  <2> QED
    BY <1>3, <2>1 DEF HoldersKnown, BalanceHolder
<1> QED
  BY <1>1, <1>2, <1>3 DEF WaitsFor

\* Who holds a balance is at its writes, so who holds a request waits, if at
\* all, for a transaction that runs; and nobody waits for anything else.
THEOREM NoCircularWait == Spec => []WaitsEndAtRunner
<1>1. Init => HoldersKnown
  BY CallsAssumption DEF Init, HoldersKnown, RequestHolder, BalanceHolder
<1>2. ASSUME IInv, HoldersKnown PROVE WaitsEndAtRunner
  <2>1. ASSUME NEW G \in SUBSET Tx, G # {},
               \A t \in G : \E u \in G : WaitsFor(t, u)
        PROVE  FALSE
    <3>1. ASSUME NEW t \in G, pc[t] # "start" PROVE FALSE
      <4>1. PICK u \in G : WaitsFor(t, u)
        BY <2>1
      <4>2. pc[u] = "write"
        BY <1>2, <3>1, <4>1, WaitedForHolds DEF At
      <4> QED
        BY <2>1, <4>2 DEF WaitsFor, At
    <3>2. PICK t \in G : TRUE
      BY <2>1
    <3>3. PICK u \in G : WaitsFor(t, u)
      BY <2>1
    <3>4. pc[u] # "start"
      BY <1>2, <3>3, WaitedForHolds DEF Deciding
    <3> QED
      BY <3>1, <3>4
  <2>2. ASSUME NEW t \in Tx, NEW u \in Tx, WaitsFor(t, u) PROVE pc[u] # "idle"
    BY <1>2, <2>2, WaitedForHolds DEF Deciding
  <2> QED
    BY <2>1, <2>2 DEF WaitsEndAtRunner
<1>3. IInv /\ HoldersKnown /\ [Next]_vars => HoldersKnown'
  BY HoldersKept
<1> QED
  BY <1>1, <1>2, <1>3, Invariance, PTL DEF Spec

----------------------------------------------------------------------------
(* The ledger: a balance counts the days of the requests it was charged for *)

DaysOf(r) == {r} \X (leave[r].first .. leave[r].last)

LedgerRight ==
  /\ \A r \in charged : status[r] = "APPROVED"
  /\ \A k \in Key :
       IsFiniteSet(DaysCharged(k)) /\ balance[k].used = Cardinality(DaysCharged(k))
LeavesValid == \A r \in RequestId : status[r] # "ABSENT" => ValidPeriod(leave[r])

LEMMA LeavesValidKept ==
  ASSUME IInv, ValidCalls, LeavesValid, [Next]_vars PROVE LeavesValid'
<1>0. RowsOK
  BY TypeParts DEF IInv
<1> SUFFICES ASSUME NEW r \in RequestId, status'[r] # "ABSENT"
             PROVE  ValidPeriod(leave'[r])
  BY DEF LeavesValid, ValidPeriod
<1>1. CASE status[r] # "ABSENT"
  BY <1>0, <1>1, LeaveKept DEF LeavesValid
<1>2. CASE status[r] = "ABSENT"
  <2>1. ASSUME NEW t \in Tx, SubmitWrite(t), ~Rollback(t) PROVE ValidPeriod(leave'[r])
    BY <1>0, <1>2, <2>1 DEF SubmitWrite, Record, RowsOK, ValidCalls, At
  <2>2. ASSUME NEW t \in Tx, \/ ManagerApproveWrite(t) \/ HRApproveWrite(t)
                             \/ RejectWrite(t) \/ CancelWrite(t), ~Rollback(t)
        PROVE  FALSE
    <3>1. Deciding(t)
      BY <2>2 DEF ManagerApproveWrite, HRApproveWrite, RejectWrite, CancelWrite, At,
                  Deciding, Decisions
    <3>2. \E s : status' = [status EXCEPT ![call[t].req] = s]
      BY <2>2 DEF ManagerApproveWrite, HRApproveWrite, RejectWrite, CancelWrite, Record
    <3> QED
      BY <1>0, <1>2, <3>1, <3>2, DecisionFacts DEF RowsOK, Pending
  <2> QED
    BY <1>2, <2>1, <2>2, RequestSteps DEF requestRows
<1> QED
  BY <1>1, <1>2

\* A set has as many members as its pairs with one thing.
LEMMA Tagged ==
  ASSUME NEW x, NEW S, IsFiniteSet(S)
  PROVE  IsFiniteSet({x} \X S) /\ Cardinality({x} \X S) = Cardinality(S)
<1>1. IsFiniteSet({x}) /\ Cardinality({x}) = 1
  BY FS_Singleton
<1>2. IsFiniteSet({x} \X S) /\ Cardinality({x} \X S) = 1 * Cardinality(S)
  BY <1>1, FS_Product
<1>3. Cardinality(S) \in Nat
  BY FS_CardinalityType
<1> QED
  BY <1>2, <1>3

\* As many days as parseDateRange counted.
LEMMA DaysOfCounted ==
  ASSUME NEW r \in RequestId, leave[r] \in Period, ValidPeriod(leave[r])
  PROVE  IsFiniteSet(DaysOf(r)) /\ Cardinality(DaysOf(r)) = Duration(leave[r])
<1> DEFINE a == leave[r].first
           b == leave[r].last
<1>1. a \in Int /\ b \in Int /\ a <= b
  <2>1. a \in Day /\ b \in Day
    BY DEF Period
  <2>2. \A d \in Day : d \in Int
    BY RowsAssumption
  <2> QED
    BY <2>1, <2>2 DEF ValidPeriod
<1>2. IsFiniteSet(a .. b) /\ Cardinality(a .. b) = b - a + 1
  BY <1>1, FS_Interval
<1>3. b - a + 1 = Duration(leave[r])
  BY DEF Duration
<1>4. DaysOf(r) = {r} \X (a .. b)
  BY DEF DaysOf
<1> HIDE DEF a, b
<1>5. IsFiniteSet({r} \X (a .. b)) /\ Cardinality({r} \X (a .. b)) = Cardinality(a .. b)
  BY <1>2, Tagged
<1> QED
  BY <1>2, <1>3, <1>4, <1>5

\* The debit adds the days of one more request to the balance it is charged to.
LEMMA DebitCounted ==
  ASSUME IInv, LeavesValid, LedgerRight, NEW r \in RequestId,
         status[r] = "PENDING_HR", status' = [status EXCEPT ![r] = "APPROVED"],
         charged' = charged \cup {r}, leave' = leave,
         balance' = [balance EXCEPT ![KeyOf(leave[r])] =
                       Charge(balance[KeyOf(leave[r])], leave[r])]
  PROVE  LedgerRight'
<1> DEFINE here == KeyOf(leave[r])
<1>0. RowsOK
  BY TypeParts DEF IInv
<1>1. leave[r] \in Period /\ ValidPeriod(leave[r]) /\ r \notin charged
  BY <1>0 DEF RowsOK, LeavesValid, LedgerRight
<1>2. charged \subseteq RequestId /\ status \in [RequestId -> Status \cup {"ABSENT"}]
  BY <1>0 DEF RowsOK
<1>3. \A q \in charged' : status'[q] = "APPROVED"
  BY <1>2 DEF LedgerRight
<1>4. ASSUME NEW k \in Key, k # here PROVE DaysCharged(k)' = DaysCharged(k)
  BY <1>1, <1>2, <1>4 DEF DaysCharged
<1>5. DaysCharged(here)' = DaysCharged(here) \cup DaysOf(r)
  BY <1>1, <1>2 DEF DaysCharged, DaysOf
<1>6. DaysCharged(here) \cap DaysOf(r) = {}
  BY <1>1 DEF DaysCharged, DaysOf
<1>7. here \in Key /\ IsFiniteSet(DaysOf(r)) /\ Cardinality(DaysOf(r)) = Duration(leave[r])
  BY <1>1, KeyType, DaysOfCounted
<1>8. /\ IsFiniteSet(DaysCharged(here)')
      /\ Cardinality(DaysCharged(here)') =
           Cardinality(DaysCharged(here)) + Cardinality(DaysOf(r)) - Cardinality({})
  BY <1>5, <1>6, <1>7, FS_Union DEF LedgerRight
<1>9. balance'[here].used = balance[here].used + Duration(leave[r])
  BY <1>0, <1>7 DEF RowsOK, BalanceRow, Charge
<1>10. Cardinality({}) = 0 /\ balance[here].used \in Int /\ Duration(leave[r]) \in Int
  BY <1>0, <1>1, <1>7, FS_EmptySet, DurationType DEF RowsOK, BalanceRow
<1>11. balance'[here].used = Cardinality(DaysCharged(here)')
  BY <1>7, <1>8, <1>9, <1>10 DEF LedgerRight
<1>12. ASSUME NEW k \in Key, k # here PROVE balance'[k].used = balance[k].used
  BY <1>0, <1>12 DEF RowsOK
<1> QED
  BY <1>3, <1>4, <1>8, <1>11, <1>12 DEF LedgerRight

LEMMA SameLedger ==
  ASSUME IInv, LedgerRight, [Next]_vars, charged' = charged,
         \A k \in Key : balance'[k].used = balance[k].used
  PROVE  LedgerRight'
<1>1. charged \subseteq RequestId
  BY TypeParts DEF IInv, RowsOK
<1>2. ASSUME NEW q \in charged
      PROVE  status'[q] = "APPROVED" /\ leave'[q] = leave[q] /\ status[q] = "APPROVED"
  BY <1>1, <1>2, FinalKept, LeaveKept, TypeParts
  DEF LedgerRight, Final, Status, Pending, IInv
<1>3. ASSUME NEW k \in Key PROVE DaysCharged(k)' = DaysCharged(k)
  BY <1>2 DEF DaysCharged
<1> QED
  BY <1>2, <1>3 DEF LedgerRight

LEMMA LedgerKept ==
  ASSUME IInv, BalanceHeld, LeavesValid, LedgerRight, [Next]_vars PROVE LedgerRight'
<1>0. RowsOK /\ ControlOK
  BY TypeParts DEF IInv
<1>1. CASE charged' = charged /\ balance' = balance
  BY <1>1, SameLedger
<1>2. ASSUME NEW t \in Tx, SetEntitlementWrite(t) \/ AdjustWrite(t), ~Rollback(t)
      PROVE  LedgerRight'
  <2>1. charged' = charged /\ call[t].key \in Key
    BY <1>0, <1>2, CallShape DEF SetEntitlementWrite, AdjustWrite, At, requestRows
  <2>2. balance[call[t].key] \in BalanceRow
    BY <1>0, <2>1 DEF RowsOK
  <2>3. \E row : balance' = [balance EXCEPT ![call[t].key] = row]
                /\ row.used = balance[call[t].key].used
    <3>1. CASE SetEntitlementWrite(t)
      <4>1. balanceLock[call[t].key] # t => balance[call[t].key] = NoBalance
        BY <1>2, <2>1, <3>1 DEF SetEntitlementWrite, Insertable, BalanceHeld, Unconfigured
      <4> QED
        BY <1>2, <2>2, <3>1, <4>1 DEF SetEntitlementWrite, BalanceRow
    <3>2. CASE AdjustWrite(t)
      BY <1>2, <2>2, <3>2 DEF AdjustWrite, BalanceRow
    <3> QED
      BY <1>2, <3>1, <3>2
  <2>4. \A k \in Key : balance'[k].used = balance[k].used
    BY <1>0, <2>1, <2>3 DEF RowsOK
  <2> QED
    BY <2>1, <2>4, SameLedger
<1>3. ASSUME NEW t \in Tx, HRApproveWrite(t), ~Rollback(t), seen[t].needsBalance
      PROVE  LedgerRight'
  <2>1. Deciding(t) /\ call[t].op = "hrApprove"
    BY <1>3 DEF HRApproveWrite, At, Deciding, Decisions
  <2>2. call[t].req \in RequestId /\ status[call[t].req] = "PENDING_HR"
    BY <2>1, DecisionFacts DEF IInv, RequestHeld
  <2> QED
    BY <1>3, <2>2, DebitCounted DEF HRApproveWrite, Record
<1>4. ASSUME NEW t \in Tx, Advance(t) PROVE LedgerRight'
  BY <1>1, <1>2, <1>3, <1>4
  DEF Advance, ReadEmployee, ReadManager, CheckType, CheckOverlap, CheckBalance,
      SubmitWrite, LockRequest, CheckScope, ReadType, LockCharged,
      ManagerApproveWrite, HRApproveWrite, RejectWrite, CancelWrite,
      LockEntitlement, SetEntitlementWrite, LockAdjusted, AdjustWrite, Goto,
      Rollback, rows, requestRows, balanceRows
<1> QED
  BY <1>1, <1>4
  DEF Next, Begin, Abort, Rollback, CreateType, UpdateType, UpdateEmployee, vars, rows,
      requestRows, balanceRows

\* The ledger is right in every reachable state, and its leaves are valid.
LEMMA LedgerInvariant == Spec => [](LeavesValid /\ LedgerRight)
<1>0. Init => BalanceHeld
  BY DEF Init, BalanceHeld, Unconfigured, ChargeHeld, AdjustHeld, Charging, Adjusting, At
<1>1. Init => ValidCalls /\ LeavesValid /\ LedgerRight
  <2> SUFFICES ASSUME Init PROVE ValidCalls /\ LeavesValid /\ LedgerRight
    OBVIOUS
  <2>1. \A k \in Key : DaysCharged(k) = {} /\ balance[k].used = 0
    BY DEF Init, DaysCharged, NoBalance
  <2> QED
    BY <2>1, FS_EmptySet DEF Init, ValidCalls, LeavesValid, LedgerRight
<1>2. IInv /\ BalanceHeld /\ ValidCalls /\ LeavesValid /\ LedgerRight /\ [Next]_vars
        => (BalanceHeld /\ ValidCalls /\ LeavesValid /\ LedgerRight)'
  BY BalanceHeldKept, ValidCallsKept, LeavesValidKept, LedgerKept
<1> QED
  BY <1>0, <1>1, <1>2, Invariance, PTL DEF Spec

\* What a balance counts as used are exactly the days of the approved requests
\* it was charged for, however approvals, entitlements and adjustments mix.
THEOREM UsedDaysAreCharged == Spec => []UsedIsApprovedCharges
<1>1. LedgerRight => UsedIsApprovedCharges
  BY DEF LedgerRight, UsedIsApprovedCharges
<1> QED
  BY <1>1, LedgerInvariant, PTL

\* A statement that leaves less than nothing available fails.
NoneOverdrawn == \A k \in Key : Available(balance[k]) >= 0

LEMMA NoneOverdrawnKept ==
  ASSUME IInv, NoneOverdrawn, [Next]_vars PROVE NoneOverdrawn'
<1>0. RowsOK
  BY TypeParts DEF IInv
<1>1. ASSUME \/ balance' = balance
             \/ \E k, row : /\ SatisfiesChecks(row)
                            /\ balance' = [balance EXCEPT ![k] = row]
      PROVE  NoneOverdrawn'
  BY <1>0, <1>1 DEF NoneOverdrawn, SatisfiesChecks, RowsOK, Available
<1>2. ASSUME NEW t \in Tx, HRApproveWrite(t) \/ SetEntitlementWrite(t) \/ AdjustWrite(t)
      PROVE  NoneOverdrawn'
  BY <1>1, <1>2
  DEF HRApproveWrite, SetEntitlementWrite, AdjustWrite, Rollback, rows, balanceRows
<1>3. ASSUME NEW t \in Tx, Advance(t) PROVE NoneOverdrawn'
  BY <1>1, <1>2, <1>3
  DEF Advance, ReadEmployee, ReadManager, CheckType, CheckOverlap, CheckBalance,
      SubmitWrite, LockRequest, CheckScope, ReadType, LockCharged, ManagerApproveWrite,
      RejectWrite, CancelWrite, LockEntitlement, LockAdjusted, Goto, Rollback, rows,
      balanceRows
<1> QED
  BY <1>1, <1>3
  DEF Next, Begin, Abort, Rollback, CreateType, UpdateType, UpdateEmployee, vars, rows,
      balanceRows

\* Nobody has more days approved on a balance than it grants, adjustments
\* included, whatever is approved, granted and taken back at the same time.
THEOREM BalancesCover == Spec => []ApprovedIsGranted
<1>1. Init => NoneOverdrawn
  BY DEF Init, NoneOverdrawn, NoBalance, Available
<1>2. IInv /\ NoneOverdrawn /\ [Next]_vars => NoneOverdrawn'
  BY NoneOverdrawnKept
<1>3. IInv /\ NoneOverdrawn /\ LedgerRight => ApprovedIsGranted
  <2> SUFFICES ASSUME IInv, NoneOverdrawn, LedgerRight, NEW k \in Key
               PROVE  Cardinality(DaysCharged(k))
                        <= balance[k].entitled + balance[k].adjustment
    BY DEF ApprovedIsGranted
  <2>1. balance[k] \in BalanceRow /\ Limit \in Nat
    BY TypeParts, RowsAssumption DEF IInv, RowsOK
  <2>2. /\ balance[k].entitled \in Int /\ balance[k].adjustment \in Int
        /\ balance[k].used \in Int
    BY <2>1 DEF BalanceRow
  <2>3. balance[k].entitled + balance[k].adjustment - balance[k].used >= 0
    BY DEF NoneOverdrawn, Available
  <2> QED
    BY <2>2, <2>3 DEF LedgerRight
<1> QED
  BY <1>1, <1>2, <1>3, Invariance, LedgerInvariant, PTL DEF Spec

\* The calendar days of the approved requests that a balance was charged for.
DatesCharged(k) == {entry[2] : entry \in DaysCharged(k)}

\* When every employee makes one submission at a time, a balance counts as used
\* exactly as many calendar days as were approved: no day is charged twice.
THEOREM NoDayChargedTwice ==
  OneAtATime => [](\A k \in Key : balance[k].used = Cardinality(DatesCharged(k)))
<1>1. ASSUME LedgerRight, NoOverlap, TypeOK, LeavesValid, NEW k \in Key
      PROVE  balance[k].used = Cardinality(DatesCharged(k))
  <2> DEFINE date == [entry \in DaysCharged(k) |-> entry[2]]
  <2>1. ASSUME NEW x \in DaysCharged(k)
        PROVE  \E r \in charged : /\ x = <<r, x[2]>> /\ KeyOf(leave[r]) = k
                                  /\ status[r] = "APPROVED"
                                  /\ x[2] \in leave[r].first .. leave[r].last
    BY DEF DaysCharged
  <2>2. ASSUME NEW x \in DaysCharged(k), NEW y \in DaysCharged(k), x[2] = y[2]
        PROVE  x = y
    <3>1. PICK r \in charged : /\ x = <<r, x[2]>> /\ KeyOf(leave[r]) = k
                               /\ status[r] = "APPROVED"
                               /\ x[2] \in leave[r].first .. leave[r].last
      BY <2>1
    <3>2. PICK s \in charged : /\ y = <<s, y[2]>> /\ KeyOf(leave[s]) = k
                               /\ status[s] = "APPROVED"
                               /\ y[2] \in leave[s].first .. leave[s].last
      BY <2>1
    <3>3. /\ r \in RequestId /\ s \in RequestId
          /\ leave[r] \in Period /\ leave[s] \in Period
      BY <1>1, <3>1, <3>2, TypeParts DEF RowsOK
    <3>4. /\ leave[r].first \in Int /\ leave[r].last \in Int
          /\ leave[s].first \in Int /\ leave[s].last \in Int
      <4>1. \A d \in Day : d \in Int
        BY RowsAssumption
      <4> QED
        BY <3>3, <4>1 DEF Period
    <3>5. leave[r].emp = leave[s].emp
      BY <3>1, <3>2 DEF KeyOf
    <3>6. Overlap(leave[r], leave[s])
      BY <2>2, <3>1, <3>2, <3>4, <3>5 DEF Overlap
    <3>7. r = s
      BY <1>1, <3>1, <3>2, <3>3, <3>6 DEF NoOverlap, Active
    <3> QED
      BY <2>2, <3>1, <3>2, <3>7
  <2>3. date \in Bijection(DaysCharged(k), DatesCharged(k))
    BY <2>2 DEF Bijection, Injection, Surjection, IsInjective, DatesCharged
  <2>4. ExistsBijection(DaysCharged(k), DatesCharged(k))
    BY <2>3 DEF ExistsBijection
  <2> QED
    BY <1>1, <2>4, FS_Bijection DEF LedgerRight
<1>2. ASSUME LedgerRight, NoOverlap, TypeOK, LeavesValid
      PROVE  \A k \in Key : balance[k].used = Cardinality(DatesCharged(k))
  BY <1>1, <1>2
<1>3. OneAtATime => Spec
  <2>1. [Next /\ OneSubmission']_vars => [Next]_vars
    OBVIOUS
  <2> QED
    BY <2>1, PTL DEF OneAtATime, Spec
<1> QED
  BY <1>2, <1>3, LedgerInvariant, NoOverlapOneAtATime, TypeCorrect, PTL
=============================================================================
