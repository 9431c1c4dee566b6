----------------------------- MODULE LeaveProofs -----------------------------
(***************************************************************************)
(* Proofs about Leave, for every set of transactions, requests, employees, *)
(* leave types, days and amounts.                                          *)
(***************************************************************************)
EXTENDS Leave, TLAPS

\* The parts of TypeOK that the rows and the transactions own.
RowsOK ==
  /\ status \in [RequestId -> Status \cup {"ABSENT"}]
  /\ leave \in [RequestId -> Period \cup {None}]
  /\ approval \in [RequestId -> [Stage -> Approval]]
  /\ trail \in [RequestId -> Seq(Event)]
  /\ told \in [RequestId -> SUBSET Notification]
  /\ charged \subseteq RequestId
  /\ configured \subseteq Key
  /\ balance \in [Key -> BalanceRow]
  /\ types \subseteq LeaveType
  /\ flags \in [LeaveType -> TypeFlags]
  /\ manager \in [Employee -> Employee \cup {None}]
  /\ account \in Linkings
  /\ \A r \in RequestId : status[r] # "ABSENT" => leave[r] # None

ControlOK ==
  /\ requestLock \in [RequestId -> Tx \cup {None}]
  /\ balanceLock \in [Key -> Tx \cup {None}]
  /\ pc \in [Tx -> PC]
  /\ call \in [Tx -> Call \cup {None}]
  /\ seen \in [Tx -> Memory]
  /\ \A t \in Tx : pc[t] # "idle" => call[t] # None

LEMMA TypeParts == TypeOK <=> RowsOK /\ ControlOK
BY DEF TypeOK, RowsOK, ControlOK

\* A busy transaction serves a call, and its operation says which fields it has.
LEMMA CallShape ==
  ASSUME ControlOK, NEW t \in Tx, pc[t] # "idle"
  PROVE  /\ call[t] \in Call
         /\ call[t].op = "submit" => call[t].leave \in Period
         /\ call[t].op \in Decisions =>
              call[t].user \in User /\ call[t].req \in RequestId
         /\ call[t].op = "setEntitlement" =>
              call[t].key \in Key /\ call[t].amount \in Entitlement
         /\ call[t].op = "adjust" =>
              call[t].key \in Key /\ call[t].amount \in Adjustment
<1>1. call[t] \in Call
  BY DEF ControlOK
<1> QED
  BY <1>1 DEF Call, Decisions

LEMMA FinishOK ==
  ASSUME ControlOK, NEW t \in Tx, Finish(t)
  PROVE  ControlOK'
BY DEF ControlOK, Finish, Release, NothingSeen, Memory, PC

LEMMA GotoOK ==
  ASSUME ControlOK, NEW t \in Tx, NEW label \in PC, pc[t] # "idle",
         Goto(t, label), seen' \in [Tx -> Memory],
         requestLock' \in [RequestId -> Tx \cup {None}],
         balanceLock' \in [Key -> Tx \cup {None}]
  PROVE  ControlOK'
BY DEF ControlOK, Goto

LEMMA RowsUnchanged == ASSUME RowsOK, UNCHANGED rows PROVE RowsOK'
BY DEF RowsOK, rows, requestRows, balanceRows, orgRows

LEMMA KeyType == ASSUME NEW l \in Period PROVE KeyOf(l) \in Key
BY RowsAssumption DEF Period, KeyOf, Key

LEMMA DurationType == ASSUME NEW l \in Period PROVE Duration(l) \in Int
<1>1. l.first \in Day /\ l.last \in Day
  BY DEF Period
<1>2. \A d \in Day : d \in Int
  BY RowsAssumption
<1>3. l.first \in Int /\ l.last \in Int
  BY <1>1, <1>2
<1> QED
  BY <1>3 DEF Duration

----------------------------------------------------------------------------
(* The inductive invariant: a decision holds the lock of its request, so    *)
(* the status it read, and with it the approval row it is about to decide,  *)
(* stay as they are until its commit.                                       *)

IInv == TypeOK /\ StagesInStep /\ RequestHeld

\* A transaction that ends disturbs no decision under way but its own.
LEMMA FinishHeld ==
  ASSUME ControlOK, RequestHeld, NEW t \in Tx, Finish(t),
         \A u \in Tx \ {t} :
           Deciding(u) => status'[call[u].req] = status[call[u].req]
  PROVE  RequestHeld'
<1> SUFFICES ASSUME NEW u \in Tx, Deciding(u)'
             PROVE  LET s == status[call[u].req] IN
                    ( /\ requestLock[call[u].req] = u
                      /\ s \in Pending
                      /\ seen[u].stage = StageOf(s)
                      /\ call[u].op = "managerApprove" => s = "PENDING_MANAGER"
                      /\ call[u].op = "hrApprove" => s = "PENDING_HR" )'
  BY DEF RequestHeld
<1>1. u # t /\ pc'[u] = pc[u] /\ call'[u] = call[u] /\ seen'[u] = seen[u]
  BY DEF ControlOK, Finish, Deciding
<1>2. Deciding(u) /\ status'[call[u].req] = status[call[u].req]
  BY <1>1 DEF Deciding
<1>3. requestLock[call[u].req] = u /\ call[u].req \in RequestId
  BY <1>2, CallShape DEF RequestHeld, Deciding
<1>4. requestLock'[call[u].req] = u
  BY <1>1, <1>3 DEF ControlOK, Finish, Release
<1> QED
  BY <1>1, <1>2, <1>4 DEF RequestHeld, StageOf

\* Neither does a statement that takes no request lock.
LEMMA GotoHeld ==
  ASSUME ControlOK, RequestHeld, NEW t \in Tx, NEW label, Goto(t, label),
         pc[t] # "idle", call[t].op \in Decisions => Deciding(t),
         UNCHANGED requestLock, seen' \in [Tx -> Memory],
         \A u \in Tx : seen'[u].stage = seen[u].stage
  PROVE  RequestHeld'
<1>1. call' = call /\ status' = status /\ requestLock' = requestLock
  BY DEF Goto, rows, requestRows
<1>2. \A u \in Tx : Deciding(u)' => Deciding(u)
  BY <1>1 DEF Goto, Deciding, ControlOK
<1> QED
  BY <1>1, <1>2 DEF RequestHeld, StageOf

LEMMA InitIInv == Init => IInv
<1> SUFFICES ASSUME Init PROVE IInv
  OBVIOUS
<1>1. TypeOK
  <2>1. NoBalance \in BalanceRow
    BY RowsAssumption DEF NoBalance, BalanceRow
  <2>2. Row("ABSENT", None) \in Approval
    BY DEF Row, Approval, ApprovalStatus
  <2> QED
    BY <2>1, <2>2 DEF Init, TypeOK, Memory, NothingSeen, PC
<1>2. StagesInStep
  BY DEF Init, StagesInStep, Row, Stage
<1>3. RequestHeld
  BY DEF Init, RequestHeld, Deciding
<1> QED
  BY <1>1, <1>2, <1>3 DEF IInv

\* Transactions that only read and lock.
LEMMA StagesUnchanged ==
  ASSUME StagesInStep, UNCHANGED <<status, approval>> PROVE StagesInStep'
BY DEF StagesInStep

LEMMA RollbackIInv ==
  ASSUME IInv, NEW t \in Tx, Rollback(t) PROVE IInv'
<1>1. ControlOK' /\ RowsOK'
  BY TypeParts, FinishOK, RowsUnchanged DEF IInv, Rollback
<1>2. TypeOK'
  BY <1>1 DEF TypeOK, RowsOK, ControlOK
<1>3. status' = status /\ approval' = approval
  BY DEF Rollback, rows, requestRows
<1>4. RequestHeld'
  BY <1>3, TypeParts, FinishHeld DEF IInv, Rollback
<1> QED
  BY <1>2, <1>3, <1>4, StagesUnchanged DEF IInv

LEMMA GotoIInv ==
  ASSUME IInv, NEW t \in Tx, NEW label \in PC, pc[t] # "idle",
         Goto(t, label), call[t].op \in Decisions => Deciding(t),
         UNCHANGED requestLock, balanceLock' \in [Key -> Tx \cup {None}],
         seen' \in [Tx -> Memory], \A u \in Tx : seen'[u].stage = seen[u].stage
  PROVE  IInv'
<1>1. RowsOK /\ ControlOK
  BY TypeParts DEF IInv
<1>2. UNCHANGED rows /\ UNCHANGED <<status, approval>>
  BY DEF Goto, rows, requestRows
<1>3. requestLock' \in [RequestId -> Tx \cup {None}]
  BY <1>1 DEF ControlOK
<1>4. ControlOK'
  BY <1>1, <1>3, GotoOK
<1>5. RowsOK'
  BY <1>1, <1>2, RowsUnchanged
<1>6. TypeOK'
  BY <1>4, <1>5 DEF TypeOK, RowsOK, ControlOK
<1>7. RequestHeld'
  BY <1>1, GotoHeld DEF IInv
<1> QED
  BY <1>2, <1>6, <1>7, StagesUnchanged DEF IInv

\* Statements that read, and lock at most a balance.
LEMMA ReadIInv ==
  ASSUME IInv, NEW t \in Tx,
         \/ ReadEmployee(t) \/ ReadManager(t) \/ CheckType(t)
         \/ CheckOverlap(t) \/ CheckBalance(t) \/ CheckScope(t) \/ ReadType(t)
         \/ LockCharged(t) \/ LockEntitlement(t) \/ LockAdjusted(t)
  PROVE  IInv'
<1>0. RowsOK /\ ControlOK
  BY TypeParts DEF IInv
<1>1. CASE Rollback(t)
  BY <1>1, RollbackIInv
<1>2. ASSUME ~Rollback(t), ReadEmployee(t) PROVE IInv'
  <2>1. call[t].leave \in Period /\ call[t].op \notin Decisions
    BY <1>0, <1>2, CallShape DEF ReadEmployee, At, Decisions
  <2>2. manager[call[t].leave.emp] \in Employee \cup {None}
    BY <1>0, <2>1 DEF RowsOK, Period
  <2>3. seen' \in [Tx -> Memory] /\ \A u \in Tx : seen'[u].stage = seen[u].stage
    <3>1. seen' = [seen EXCEPT ![t].manager = manager[call[t].leave.emp]]
      BY <1>2 DEF ReadEmployee
    <3>2. seen \in [Tx -> Memory]
      BY <1>0 DEF ControlOK
    <3> QED
      BY <2>2, <3>1, <3>2 DEF Memory
  <2>4. pc[t] # "idle" /\ "manager" \in PC /\ Goto(t, "manager") /\ UNCHANGED locks
    BY <1>2 DEF ReadEmployee, At, PC
  <2> QED
    BY <1>0, <2>1, <2>3, <2>4, GotoIInv DEF ControlOK, locks
<1>9. ASSUME ~Rollback(t), ReadManager(t) PROVE IInv'
  <2>1. call[t].op \notin Decisions
    BY <1>9 DEF ReadManager, At, Decisions
  <2>2. PICK u \in User : seen' = [seen EXCEPT ![t].addressee = u]
    BY <1>9 DEF ReadManager
  <2>3. seen' \in [Tx -> Memory] /\ \A v \in Tx : seen'[v].stage = seen[v].stage
    <3>1. seen \in [Tx -> Memory]
      BY <1>0 DEF ControlOK
    <3> QED
      BY <2>2, <3>1 DEF Memory
  <2>4. pc[t] # "idle" /\ "type" \in PC /\ Goto(t, "type") /\ UNCHANGED locks
    BY <1>9 DEF ReadManager, At, PC
  <2> QED
    BY <1>0, <2>1, <2>3, <2>4, GotoIInv DEF ControlOK, locks
<1>3. ASSUME ~Rollback(t), CheckType(t) PROVE IInv'
  <2>1. call[t].leave \in Period /\ call[t].op \notin Decisions
    BY <1>0, <1>3, CallShape DEF CheckType, At, Decisions
  <2>2. flags[call[t].leave.type].needsBalance \in BOOLEAN
    BY <1>0, <2>1, ConstantsAssumption DEF RowsOK, Period
  <2>3. seen' = [seen EXCEPT ![t].needsBalance = flags[call[t].leave.type].needsBalance]
    BY <1>3 DEF CheckType
  <2>4. seen' \in [Tx -> Memory] /\ \A u \in Tx : seen'[u].stage = seen[u].stage
    BY <1>0, <2>2, <2>3 DEF ControlOK, Memory
  <2>5. pc[t] # "idle" /\ "overlap" \in PC /\ Goto(t, "overlap") /\ UNCHANGED locks
    BY <1>3 DEF CheckType, At, PC
  <2> QED
    BY <1>0, <2>1, <2>4, <2>5, GotoIInv DEF ControlOK, locks
<1>4. ASSUME ~Rollback(t), CheckOverlap(t) \/ CheckBalance(t) PROVE IInv'
  BY <1>0, <1>4, GotoIInv
  DEF CheckOverlap, CheckBalance, At, ControlOK, PC, locks, Decisions
<1>5. ASSUME ~Rollback(t), CheckScope(t) PROVE IInv'
  BY <1>0, <1>5, GotoIInv
  DEF CheckScope, At, ControlOK, PC, locks, Decisions, Deciding
<1>6. ASSUME ReadType(t) PROVE IInv'
  <2>1. Deciding(t) /\ call[t].req \in RequestId
    BY <1>0, <1>6, CallShape DEF ReadType, At, Decisions, Deciding
  <2>2. leave[call[t].req] \in Period
    BY <1>0, <2>1 DEF IInv, RowsOK, RequestHeld, Pending
  <2>3. flags[leave[call[t].req].type].needsBalance \in BOOLEAN
    BY <1>0, <2>2, ConstantsAssumption DEF RowsOK, Period
  <2> QED
    BY <1>0, <1>6, <2>1, <2>3, GotoIInv
    DEF ReadType, At, ControlOK, Memory, PC, locks
<1>7. ASSUME ~Rollback(t), LockCharged(t) PROVE IInv'
  BY <1>0, <1>7, GotoIInv
  DEF LockCharged, At, ControlOK, PC, Take, Decisions, Deciding
<1>8. ASSUME ~Rollback(t), LockEntitlement(t) \/ LockAdjusted(t) PROVE IInv'
  BY <1>0, <1>8, GotoIInv
  DEF LockEntitlement, LockAdjusted, At, ControlOK, PC, Take, Decisions
<1> QED
  BY <1>1, <1>2, <1>3, <1>4, <1>5, <1>6, <1>7, <1>8, <1>9

\* The statement that admits a decision and locks its request.
LEMMA LockRequestIInv ==
  ASSUME IInv, NEW t \in Tx, LockRequest(t) PROVE IInv'
<1>0. RowsOK /\ ControlOK
  BY TypeParts DEF IInv
<1>1. CASE Rollback(t)
  BY <1>1, RollbackIInv
<1>2. CASE ~Rollback(t)
  <2> DEFINE r == call[t].req
  <2>1. /\ r \in RequestId /\ call[t].op \in Decisions /\ pc[t] = "start"
        /\ requestLock[r] = None /\ Admits(t)
        /\ requestLock' = [requestLock EXCEPT ![r] = t]
        /\ seen' = [seen EXCEPT ![t].stage = StageOf(status[r])]
        /\ Goto(t, AfterLock(call[t])) /\ balanceLock' = balanceLock
    BY <1>0, <1>2, CallShape DEF LockRequest, At, Take
  <2>2. UNCHANGED rows /\ UNCHANGED <<status, approval, call>>
    BY <2>1 DEF Goto, rows, requestRows
  <2>3. ControlOK'
    <3>1. AfterLock(call[t]) \in PC
      BY DEF AfterLock, PC
    <3>2. seen' \in [Tx -> Memory]
      BY <1>0, <2>1 DEF ControlOK, Memory, StageOf, Stage
    <3>3. requestLock' \in [RequestId -> Tx \cup {None}]
      BY <1>0, <2>1 DEF ControlOK
    <3>4. balanceLock' \in [Key -> Tx \cup {None}]
      BY <1>0, <2>1 DEF ControlOK
    <3> QED
      BY <1>0, <2>1, <3>1, <3>2, <3>3, <3>4, GotoOK
  <2>4. TypeOK'
    BY <1>0, <2>2, <2>3, RowsUnchanged DEF TypeOK, RowsOK, ControlOK
  <2>5. RequestHeld'
    <3>1. \A u \in Tx \ {t} :
            Deciding(u)' => Deciding(u) /\ requestLock'[call[u].req] = u
      <4> SUFFICES ASSUME NEW u \in Tx \ {t}, Deciding(u)'
                   PROVE  Deciding(u) /\ requestLock'[call[u].req] = u
        OBVIOUS
      <4>1. Deciding(u)
        BY <1>0, <2>1, <2>2 DEF Goto, Deciding, ControlOK
      <4>2. requestLock[call[u].req] = u /\ call[u].req \in RequestId
        BY <1>0, <4>1, CallShape DEF IInv, RequestHeld, Deciding
      <4>3. call[u].req # r
        BY <2>1, <4>2, CallsAssumption
      <4> QED
        BY <1>0, <2>1, <4>1, <4>2, <4>3 DEF ControlOK
    <3>2. \A u \in Tx \ {t} : seen'[u] = seen[u]
      BY <1>0, <2>1 DEF ControlOK
    <3>3. requestLock'[r] = t /\ seen'[t].stage = StageOf(status[r])
      BY <1>0, <2>1 DEF ControlOK, Memory
    <3>4. /\ status[r] \in Pending
          /\ call[t].op = "managerApprove" => status[r] = "PENDING_MANAGER"
          /\ call[t].op = "hrApprove" => status[r] = "PENDING_HR"
      BY <2>1 DEF Admits, Pending, Decisions
    <3> QED
      BY <2>2, <3>1, <3>2, <3>3, <3>4 DEF IInv, RequestHeld, StageOf
  <2> QED
    BY <2>2, <2>4, <2>5, StagesUnchanged DEF IInv
<1> QED
  BY <1>1, <1>2

\* What a decision under way knows of its request.
LEMMA DecisionFacts ==
  ASSUME IInv, NEW t \in Tx, Deciding(t)
  PROVE  /\ call[t].req \in RequestId /\ call[t].user \in User
         /\ status[call[t].req] \in Pending
         /\ leave[call[t].req] \in Period
         /\ seen[t].stage = StageOf(status[call[t].req])
         /\ seen[t].stage \in Stage
         /\ call[t].op # "cancel" => RowPending(t)
         /\ \A u \in Tx \ {t} : Deciding(u) => call[u].req # call[t].req
<1>0. RowsOK /\ ControlOK
  BY TypeParts DEF IInv
<1>1. call[t].req \in RequestId /\ call[t].user \in User
  BY <1>0, CallShape DEF Deciding
<1>2. /\ status[call[t].req] \in Pending
      /\ seen[t].stage = StageOf(status[call[t].req])
  BY DEF IInv, RequestHeld
<1>3. leave[call[t].req] \in Period
  BY <1>0, <1>1, <1>2 DEF RowsOK, Pending
<1>4. seen[t].stage \in Stage
  BY <1>2 DEF StageOf, Stage
<1>5. RowPending(t)
  BY <1>1, <1>2 DEF IInv, StagesInStep, RowPending, StageOf, Pending
<1>6. \A u \in Tx \ {t} : Deciding(u) => call[u].req # call[t].req
  BY DEF IInv, RequestHeld
<1> QED
  BY <1>1, <1>2, <1>3, <1>4, <1>5, <1>6

\* A commit keeps the invariant if its writes keep the rows' part of it.
LEMMA CommitIInv ==
  ASSUME IInv, NEW t \in Tx, Finish(t), RowsOK', StagesInStep',
         \A u \in Tx \ {t} :
           Deciding(u) => status'[call[u].req] = status[call[u].req]
  PROVE  IInv'
<1>1. ControlOK /\ RequestHeld
  BY TypeParts DEF IInv
<1>2. ControlOK' /\ RequestHeld'
  BY <1>1, FinishOK, FinishHeld
<1> QED
  BY <1>2 DEF IInv, TypeOK, RowsOK, ControlOK

LEMMA RecordOK ==
  ASSUME RowsOK, NEW r \in RequestId, NEW s \in Status, NEW event \in Event,
         NEW users, Record(r, s, event, users)
  PROVE  /\ status' \in [RequestId -> Status \cup {"ABSENT"}]
         /\ trail' \in [RequestId -> Seq(Event)]
         /\ told' \in [RequestId -> SUBSET Notification]
<1>1. status' \in [RequestId -> Status \cup {"ABSENT"}]
  BY DEF RowsOK, Record
<1>2. trail' \in [RequestId -> Seq(Event)]
  BY DEF RowsOK, Record
<1>3. [type : {event}, to : users \cap User] \subseteq Notification
  BY DEF Notification
<1>4. told' \in [RequestId -> SUBSET Notification]
  BY <1>3 DEF RowsOK, Record
<1> QED
  BY <1>1, <1>2, <1>4

\* Rows of two stages: a function on Stage is known by its two values.
LEMMA RowType == \A s \in ApprovalStatus, a \in User \cup {None} : Row(s, a) \in Approval
BY DEF Row, Approval

LEMMA SubmitWriteIInv ==
  ASSUME IInv, NEW t \in Tx, SubmitWrite(t) PROVE IInv'
<1>0. RowsOK /\ ControlOK
  BY TypeParts DEF IInv
<1>1. CASE Rollback(t)
  BY <1>1, RollbackIInv
<1>2. CASE ~Rollback(t)
  <2>1. PICK r \in RequestId :
          /\ status[r] = "ABSENT"
          /\ leave' = [leave EXCEPT ![r] = call[t].leave]
          /\ approval' = [approval EXCEPT ![r]["MANAGER"] = Row("PENDING", None)]
          /\ Record(r, "PENDING_MANAGER", "LEAVE_SUBMITTED", {seen[t].addressee})
    BY <1>2 DEF SubmitWrite
  <2>2. /\ Finish(t) /\ UNCHANGED <<charged, balanceRows, orgRows>>
        /\ At(t, "write", {"submit"})
    BY <1>2 DEF SubmitWrite
  <2>3. call[t].leave \in Period /\ call[t].leave # None
    BY <1>0, <2>2, CallShape, CallsAssumption DEF At
  <2>4. approval' \in [RequestId -> [Stage -> Approval]]
    BY <1>0, <2>1, RowType DEF RowsOK, ApprovalStatus
  <2>5. \A q \in RequestId : status'[q] # "ABSENT" => leave'[q] # None
    BY <1>0, <2>1, <2>3 DEF RowsOK, Record
  <2>6. /\ status' \in [RequestId -> Status \cup {"ABSENT"}]
        /\ trail' \in [RequestId -> Seq(Event)]
        /\ told' \in [RequestId -> SUBSET Notification]
    BY <1>0, <2>1, RecordOK DEF Status, Event
  <2>7. RowsOK'
    BY <1>0, <2>1, <2>2, <2>3, <2>4, <2>5, <2>6
    DEF RowsOK, balanceRows, orgRows
  <2>8. StagesInStep'
    <3>1. approval'[r]["MANAGER"].status = "PENDING" /\ approval'[r]["HR"] = approval[r]["HR"]
      BY <1>0, <2>1 DEF RowsOK, Row, Stage
    <3>2. \A q \in RequestId \ {r} : approval'[q] = approval[q] /\ status'[q] = status[q]
      BY <1>0, <2>1 DEF RowsOK, Record
    <3>3. status'[r] = "PENDING_MANAGER" /\ approval[r]["HR"].status = "ABSENT"
      BY <1>0, <2>1 DEF RowsOK, Record, IInv, StagesInStep
    <3> QED
      BY <3>1, <3>2, <3>3 DEF IInv, StagesInStep
  <2>9. \A u \in Tx \ {t} :
           Deciding(u) => status'[call[u].req] = status[call[u].req]
    BY <1>0, <2>1, DecisionFacts DEF RowsOK, Record, Pending
  <2> QED
    BY <2>2, <2>7, <2>8, <2>9, CommitIInv
<1> QED
  BY <1>1, <1>2

\* The common part of the four decisions' writes.
LEMMA DecideIInv ==
  ASSUME IInv, NEW t \in Tx, Deciding(t), NEW s \in Status, NEW event \in Event,
         NEW users, Record(call[t].req, s, event, users), Finish(t),
         UNCHANGED <<leave, configured, orgRows>>,
         charged' \subseteq RequestId, balance' \in [Key -> BalanceRow],
         approval' \in [RequestId -> [Stage -> Approval]],
         \A q \in RequestId \ {call[t].req} : approval'[q] = approval[q],
         <<s, approval'[call[t].req]["MANAGER"].status,
           approval'[call[t].req]["HR"].status>> \in
           {<<"PENDING_HR", "APPROVED", "PENDING">>,
            <<"APPROVED", "APPROVED", "APPROVED">>,
            <<"REJECTED", "REJECTED", "ABSENT">>,
            <<"REJECTED", "APPROVED", "REJECTED">>,
            <<"CANCELLED", "CANCELLED", "ABSENT">>,
            <<"CANCELLED", "APPROVED", "CANCELLED">>}
  PROVE  IInv'
<1> DEFINE r == call[t].req
<1>0. RowsOK /\ ControlOK
  BY TypeParts DEF IInv
<1>1. r \in RequestId /\ leave[r] # None
  BY DecisionFacts, CallsAssumption
<1>2. /\ status' \in [RequestId -> Status \cup {"ABSENT"}]
      /\ trail' \in [RequestId -> Seq(Event)]
      /\ told' \in [RequestId -> SUBSET Notification]
  BY <1>0, <1>1, RecordOK
<1>3. status'[r] = s /\ \A q \in RequestId \ {r} : status'[q] = status[q]
  BY <1>0, <1>1 DEF RowsOK, Record
<1>4. RowsOK'
  BY <1>0, <1>1, <1>2, <1>3 DEF RowsOK, orgRows
<1>5. StagesInStep'
  BY <1>3 DEF IInv, StagesInStep
<1>6. \A u \in Tx \ {t} :
        Deciding(u) => status'[call[u].req] = status[call[u].req]
  BY <1>3, DecisionFacts
<1> QED
  BY <1>4, <1>5, <1>6, CommitIInv

\* A decided row has its new value, and the request's other row its old one.
LEMMA SetRowOK ==
  ASSUME IInv, NEW t \in Tx, Deciding(t), NEW s \in ApprovalStatus
  PROVE  LET r == call[t].req IN
         /\ SetRow(t, s) \in [RequestId -> [Stage -> Approval]]
         /\ SetRow(t, s)[r][seen[t].stage] = Row(s, call[t].user)
         /\ \A g \in Stage \ {seen[t].stage} : SetRow(t, s)[r][g] = approval[r][g]
         /\ \A q \in RequestId \ {r} : SetRow(t, s)[q] = approval[q]
<1>0. approval \in [RequestId -> [Stage -> Approval]]
  BY TypeParts DEF IInv, RowsOK
<1>1. Row(s, call[t].user) \in Approval
  BY DecisionFacts, RowType
<1> QED
  BY <1>0, <1>1, DecisionFacts DEF SetRow

LEMMA ManagerApproveWriteIInv ==
  ASSUME IInv, NEW t \in Tx, ManagerApproveWrite(t) PROVE IInv'
<1> DEFINE r == call[t].req
<1>0. RowsOK /\ ControlOK
  BY TypeParts DEF IInv
<1>1. Deciding(t) /\ call[t].op = "managerApprove"
  BY DEF ManagerApproveWrite, At, Deciding, Decisions
<1>2. r \in RequestId /\ seen[t].stage = "MANAGER" /\ RowPending(t)
  BY <1>1, DecisionFacts DEF IInv, RequestHeld, StageOf
<1>3. /\ approval' = [SetRow(t, "APPROVED") EXCEPT ![r]["HR"] = Row("PENDING", None)]
      /\ Record(r, "PENDING_HR", "LEAVE_MANAGER_APPROVED", HRUser)
      /\ Finish(t) /\ UNCHANGED <<leave, charged, balanceRows, orgRows>>
  BY <1>2 DEF ManagerApproveWrite
<1>4. Row("PENDING", None) \in Approval /\ "HR" \in Stage /\ "MANAGER" \in Stage
  BY RowType DEF ApprovalStatus, Stage
<1>5. approval' \in [RequestId -> [Stage -> Approval]]
  <2>1. SetRow(t, "APPROVED") \in [RequestId -> [Stage -> Approval]]
    BY <1>1, SetRowOK DEF ApprovalStatus
  <2> QED
    BY <1>3, <1>4, <2>1
<1>6. \A q \in RequestId \ {r} : approval'[q] = approval[q]
  BY <1>1, <1>3, SetRowOK DEF ApprovalStatus
<1>7. /\ approval'[r]["MANAGER"] = Row("APPROVED", call[t].user)
      /\ approval'[r]["HR"] = Row("PENDING", None)
  BY <1>1, <1>2, <1>3, <1>4, SetRowOK DEF ApprovalStatus
<1>8. <<"PENDING_HR", approval'[r]["MANAGER"].status, approval'[r]["HR"].status>> =
        <<"PENDING_HR", "APPROVED", "PENDING">>
  BY <1>7 DEF Row
<1> QED
  BY <1>0, <1>1, <1>3, <1>5, <1>6, <1>8, DecideIInv
  DEF RowsOK, balanceRows, Status, Event

LEMMA HRApproveWriteIInv ==
  ASSUME IInv, NEW t \in Tx, HRApproveWrite(t) PROVE IInv'
<1> DEFINE r == call[t].req
           k == KeyOf(leave[r])
<1>0. RowsOK /\ ControlOK
  BY TypeParts DEF IInv
<1>1. Deciding(t) /\ call[t].op = "hrApprove"
  BY DEF HRApproveWrite, At, Deciding, Decisions
<1>2. CASE Rollback(t)
  BY <1>2, RollbackIInv
<1>3. CASE ~Rollback(t)
  <2>1. /\ seen[t].needsBalance => SatisfiesChecks(Charge(balance[k], leave[r]))
        /\ balance' = IF seen[t].needsBalance
                      THEN [balance EXCEPT ![k] = Charge(balance[k], leave[r])]
                      ELSE balance
        /\ charged' = IF seen[t].needsBalance THEN charged \cup {r} ELSE charged
        /\ approval' = SetRow(t, "APPROVED")
        /\ Record(r, "APPROVED", "LEAVE_APPROVED", {OwnerAccount(r)})
        /\ Finish(t) /\ UNCHANGED <<leave, configured, orgRows>>
    BY <1>3 DEF HRApproveWrite
  <2>2. r \in RequestId /\ seen[t].stage = "HR" /\ status[r] = "PENDING_HR"
    BY <1>1, DecisionFacts DEF IInv, RequestHeld, StageOf
  <2>3. charged' \subseteq RequestId /\ balance' \in [Key -> BalanceRow]
    BY <1>0, <2>1, <2>2 DEF RowsOK, SatisfiesChecks
  <2>4. /\ approval' \in [RequestId -> [Stage -> Approval]]
        /\ \A q \in RequestId \ {r} : approval'[q] = approval[q]
        /\ approval'[r]["HR"] = Row("APPROVED", call[t].user)
        /\ approval'[r]["MANAGER"] = approval[r]["MANAGER"]
    BY <1>1, <2>1, <2>2, SetRowOK DEF ApprovalStatus, Stage
  <2>5. approval[r]["MANAGER"].status = "APPROVED"
    BY <2>2 DEF IInv, StagesInStep
  <2>6. <<"APPROVED", approval'[r]["MANAGER"].status, approval'[r]["HR"].status>> =
          <<"APPROVED", "APPROVED", "APPROVED">>
    BY <2>4, <2>5 DEF Row
  <2> QED
    BY <1>1, <2>1, <2>3, <2>4, <2>6, DecideIInv DEF Status, Event
<1> QED
  BY <1>2, <1>3

LEMMA RejectWriteIInv ==
  ASSUME IInv, NEW t \in Tx, RejectWrite(t) PROVE IInv'
<1> DEFINE r == call[t].req
<1>0. RowsOK /\ ControlOK
  BY TypeParts DEF IInv
<1>1. Deciding(t) /\ call[t].op = "reject"
  BY DEF RejectWrite, At, Deciding, Decisions
<1>2. r \in RequestId /\ status[r] \in Pending /\ seen[t].stage = StageOf(status[r])
  BY <1>1, DecisionFacts
<1>3. /\ approval' = SetRow(t, "REJECTED")
      /\ Record(r, "REJECTED", "LEAVE_REJECTED", {OwnerAccount(r)})
      /\ Finish(t) /\ UNCHANGED <<leave, charged, balanceRows, orgRows>>
  BY <1>1, DecisionFacts DEF RejectWrite
<1>4. /\ approval' \in [RequestId -> [Stage -> Approval]]
      /\ \A q \in RequestId \ {r} : approval'[q] = approval[q]
      /\ approval'[r][seen[t].stage] = Row("REJECTED", call[t].user)
      /\ \A g \in Stage \ {seen[t].stage} : approval'[r][g] = approval[r][g]
  BY <1>1, <1>3, SetRowOK DEF ApprovalStatus
<1>5. <<"REJECTED", approval'[r]["MANAGER"].status, approval'[r]["HR"].status>> \in
        {<<"REJECTED", "REJECTED", "ABSENT">>, <<"REJECTED", "APPROVED", "REJECTED">>}
  <2>1. CASE status[r] = "PENDING_MANAGER"
    BY <1>2, <1>4, <2>1 DEF IInv, StagesInStep, StageOf, Stage, Row
  <2>2. CASE status[r] = "PENDING_HR"
    BY <1>2, <1>4, <2>2 DEF IInv, StagesInStep, StageOf, Stage, Row
  <2> QED
    BY <1>2, <2>1, <2>2 DEF Pending
<1> QED
  BY <1>0, <1>1, <1>3, <1>4, <1>5, DecideIInv
  DEF RowsOK, balanceRows, Status, Event

LEMMA CancelWriteIInv ==
  ASSUME IInv, NEW t \in Tx, CancelWrite(t) PROVE IInv'
<1> DEFINE r == call[t].req
<1>0. RowsOK /\ ControlOK
  BY TypeParts DEF IInv
<1>1. Deciding(t)
  BY DEF CancelWrite, At, Deciding, Decisions
<1>2. r \in RequestId /\ status[r] \in Pending /\ approval[r] \in [Stage -> Approval]
  BY <1>0, <1>1, DecisionFacts DEF RowsOK
<1>3. /\ approval' = [approval EXCEPT ![r] = CancelRows(approval[r])]
      /\ Record(r, "CANCELLED", "LEAVE_CANCELLED", {})
      /\ Finish(t) /\ UNCHANGED <<leave, charged, balanceRows, orgRows>>
  BY DEF CancelWrite
<1>4. \A g \in Stage : [approval[r][g] EXCEPT !.status = "CANCELLED"] \in Approval
  BY <1>2 DEF Approval, ApprovalStatus
<1>5. CancelRows(approval[r]) \in [Stage -> Approval]
  BY <1>2, <1>4 DEF CancelRows
<1>6. /\ approval' \in [RequestId -> [Stage -> Approval]]
      /\ \A q \in RequestId \ {r} : approval'[q] = approval[q]
      /\ approval'[r] = CancelRows(approval[r])
  BY <1>0, <1>2, <1>3, <1>5 DEF RowsOK
<1>7. \A g \in Stage :
        CancelRows(approval[r])[g].status =
          IF approval[r][g].status = "PENDING" THEN "CANCELLED" ELSE approval[r][g].status
  BY <1>2 DEF CancelRows, Approval
<1>8. <<"CANCELLED", approval'[r]["MANAGER"].status, approval'[r]["HR"].status>> \in
        {<<"CANCELLED", "CANCELLED", "ABSENT">>, <<"CANCELLED", "APPROVED", "CANCELLED">>}
  <2>1. CASE status[r] = "PENDING_MANAGER"
    BY <1>2, <1>6, <1>7, <2>1 DEF IInv, StagesInStep, Stage
  <2>2. CASE status[r] = "PENDING_HR"
    BY <1>2, <1>6, <1>7, <2>2 DEF IInv, StagesInStep, Stage
  <2> QED
    BY <1>2, <2>1, <2>2 DEF Pending
<1> QED
  BY <1>0, <1>1, <1>3, <1>6, <1>8, DecideIInv
  DEF RowsOK, balanceRows, Status, Event

LEMMA BalanceWriteIInv ==
  ASSUME IInv, NEW t \in Tx, SetEntitlementWrite(t) \/ AdjustWrite(t) PROVE IInv'
<1>0. RowsOK /\ ControlOK
  BY TypeParts DEF IInv
<1>1. CASE Rollback(t)
  BY <1>1, RollbackIInv
<1>2. CASE ~Rollback(t)
  <2>1. /\ configured' \subseteq configured \cup {call[t].key}
        /\ \E b \in BalanceRow : balance' = [balance EXCEPT ![call[t].key] = b]
        /\ Finish(t) /\ UNCHANGED <<requestRows, orgRows>>
    BY <1>2 DEF SetEntitlementWrite, AdjustWrite, SatisfiesChecks
  <2>2. call[t].key \in Key
    BY <1>0, CallShape DEF SetEntitlementWrite, AdjustWrite, At
  <2>3. RowsOK'
    BY <1>0, <2>1, <2>2 DEF RowsOK, requestRows, orgRows
  <2>4. StagesInStep' /\ status' = status
    BY <2>1, StagesUnchanged DEF IInv, requestRows
  <2> QED
    BY <2>1, <2>3, <2>4, CommitIInv
<1> QED
  BY <1>1, <1>2

LEMMA IdentifyOK ==
  ASSUME ControlOK, NEW t \in Tx, NEW c, Identify(t, c)
  PROVE  seen' \in [Tx -> Memory] /\ \A u \in Tx : seen'[u].stage = seen[u].stage
<1>1. seen \in [Tx -> Memory]
  BY DEF ControlOK
<1>2. CASE UNCHANGED seen
  BY <1>1, <1>2
<1>3. ASSUME NEW e \in Employee, seen' = [seen EXCEPT ![t].employee = e]
      PROVE  seen' \in [Tx -> Memory] /\ \A u \in Tx : seen'[u].stage = seen[u].stage
  BY <1>1, <1>3 DEF Memory
<1> QED
  BY <1>2, <1>3 DEF Identify, LinkedTo

LEMMA BeginIInv == ASSUME IInv, NEW t \in Tx, Begin(t) PROVE IInv'
<1>0. RowsOK /\ ControlOK
  BY TypeParts DEF IInv
<1>1. PICK c \in Calls : call' = [call EXCEPT ![t] = c] /\ Identify(t, c)
  BY DEF Begin
<1>2. c \in Call /\ c # None
  BY CallsAssumption
<1>3. /\ seen' \in [Tx -> Memory] /\ \A u \in Tx : seen'[u].stage = seen[u].stage
      /\ UNCHANGED <<rows, locks>> /\ pc[t] = "idle" /\ pc' = [pc EXCEPT ![t] = "start"]
  BY <1>0, <1>1, IdentifyOK DEF Begin
<1>4. ControlOK'
  BY <1>0, <1>1, <1>2, <1>3 DEF ControlOK, PC, locks
<1>5. RowsOK' /\ StagesInStep' /\ status' = status /\ approval' = approval
  BY <1>0, <1>3, RowsUnchanged, StagesUnchanged DEF IInv, rows, requestRows
<1>6. \A u \in Tx : Deciding(u)' => Deciding(u) /\ call'[u] = call[u]
  BY <1>0, <1>1, <1>3 DEF Deciding, ControlOK
<1>7. RequestHeld'
  BY <1>3, <1>5, <1>6 DEF IInv, RequestHeld, locks, StageOf
<1> QED
  BY <1>4, <1>5, <1>7 DEF IInv, TypeOK, RowsOK, ControlOK

\* The environment changes what the workflow reads, and no request.
LEMMA EnvironmentIInv ==
  ASSUME IInv,
         \/ \E ty \in LeaveType : CreateType(ty) \/ UpdateType(ty)
         \/ \E e \in Employee, m \in Employee \cup {None}, u \in User \cup {None} :
              UpdateEmployee(e, m, u)
  PROVE  IInv'
<1>0. RowsOK /\ ControlOK
  BY TypeParts DEF IInv
<1>1. UNCHANGED <<requestRows, balanceRows, locks, pc, call, seen>>
  BY DEF CreateType, UpdateType, UpdateEmployee
<1>2. /\ types' \subseteq LeaveType /\ flags' \in [LeaveType -> TypeFlags]
      /\ manager' \in [Employee -> Employee \cup {None}] /\ account' \in Linkings
  <2>1. CASE \E ty \in LeaveType : CreateType(ty) \/ UpdateType(ty)
    <3>1. \/ types' = types
          \/ \E ty \in LeaveType : types' = types \cup {ty}
      BY <2>1 DEF CreateType, UpdateType
    <3>2. \E ty \in LeaveType, f \in TypeFlags : flags' = [flags EXCEPT ![ty] = f]
      BY <2>1 DEF CreateType, UpdateType
    <3>3. UNCHANGED <<manager, account>>
      BY <2>1 DEF CreateType, UpdateType
    <3> QED
      BY <1>0, <3>1, <3>2, <3>3 DEF RowsOK
  <2>2. ASSUME NEW e \in Employee, NEW m \in Employee \cup {None},
               NEW u \in User \cup {None}, UpdateEmployee(e, m, u)
        PROVE  /\ UNCHANGED <<types, flags>> /\ account' \in Linkings
               /\ manager' \in [Employee -> Employee \cup {None}]
    BY <1>0, <2>2 DEF UpdateEmployee, RowsOK
  <2> QED
    BY <1>0, <2>1, <2>2 DEF RowsOK
<1>3. RowsOK' /\ ControlOK'
  BY <1>0, <1>1, <1>2 DEF RowsOK, ControlOK, requestRows, balanceRows, locks
<1>4. StagesInStep' /\ RequestHeld'
  BY <1>1 DEF IInv, StagesInStep, RequestHeld, Deciding, StageOf, requestRows, locks
<1> QED
  BY <1>3, <1>4 DEF IInv, TypeOK, RowsOK, ControlOK

LEMMA NextIInv == ASSUME IInv, [Next]_vars PROVE IInv'
<1>1. ASSUME NEW t \in Tx, Begin(t) PROVE IInv'
  BY <1>1, BeginIInv
<1>2. ASSUME NEW t \in Tx, Abort(t) PROVE IInv'
  BY <1>2, RollbackIInv DEF Abort
<1>3. ASSUME NEW t \in Tx, Advance(t) PROVE IInv'
  BY <1>3, ReadIInv, LockRequestIInv, SubmitWriteIInv, ManagerApproveWriteIInv,
     HRApproveWriteIInv, RejectWriteIInv, CancelWriteIInv, BalanceWriteIInv
  DEF Advance
<1>4. CASE UNCHANGED vars
  <2>1. UNCHANGED <<rows, locks, pc, call, seen>>
    BY <1>4 DEF vars
  <2>2. /\ UNCHANGED <<requestRows, balanceRows, orgRows>>
        /\ UNCHANGED <<requestLock, balanceLock>>
    BY <2>1 DEF rows, locks
  <2> QED
    BY <2>1, <2>2
    DEF IInv, TypeOK, StagesInStep, RequestHeld, Deciding, StageOf,
        requestRows, balanceRows, orgRows
<1> QED
  BY <1>1, <1>2, <1>3, <1>4, EnvironmentIInv DEF Next

THEOREM Invariance == Spec => []IInv
BY InitIInv, NextIInv, PTL DEF Spec

\* Every row and every transaction is well typed in every reachable state.
THEOREM TypeCorrect == Spec => []TypeOK
BY Invariance, PTL DEF IInv

\* The approval rows agree with the status of their request, always.
THEOREM StagesAgree == Spec => []StagesInStep
BY Invariance, PTL DEF IInv

\* A decision under way holds its request: no other changes it.
THEOREM DecisionsHoldTheirRequest == Spec => []RequestHeld
BY Invariance, PTL DEF IInv

\* A manager approval, HR approval or rejection about to write finds the row
\* PENDING: RowsAffected is never 0.
THEOREM NoDecisionIsLate == Spec => []DecidedRowStillPending
<1>1. IInv => DecidedRowStillPending
  BY DecisionFacts DEF DecidedRowStillPending, At, Deciding, Decisions
<1> QED
  BY <1>1, Invariance, PTL

----------------------------------------------------------------------------
(* Decisions *)

\* What a step leaves of the requests that are decided or cancelled.
Final ==
  \A r \in RequestId :
    status[r] \in Status \ Pending =>
      /\ status'[r] = status[r]
      /\ approval'[r] = approval[r]
      /\ trail'[r] = trail[r]

LEMMA FinalKept == ASSUME IInv, [Next]_vars PROVE Final
<1>0. RowsOK
  BY TypeParts DEF IInv
<1>1. CASE UNCHANGED requestRows
  BY <1>1 DEF requestRows, Final
<1>2. ASSUME NEW t \in Tx, SubmitWrite(t) PROVE UNCHANGED requestRows \/ Final
  BY <1>0, <1>2 DEF SubmitWrite, Record, RowsOK, Status, Rollback, rows, Final
<1>3. ASSUME NEW t \in Tx, Deciding(t), NEW s, NEW event, NEW users,
             Record(call[t].req, s, event, users),
             \A q \in RequestId \ {call[t].req} : approval'[q] = approval[q]
      PROVE  Final
  BY <1>0, <1>3, DecisionFacts DEF Record, RowsOK, Final
<1>4. ASSUME NEW t \in Tx, \/ ManagerApproveWrite(t) \/ HRApproveWrite(t)
                           \/ RejectWrite(t) \/ CancelWrite(t)
      PROVE  UNCHANGED requestRows \/ Final
  <2>1. Deciding(t)
    BY <1>4 DEF ManagerApproveWrite, HRApproveWrite, RejectWrite, CancelWrite,
                At, Deciding, Decisions
  <2>2. CASE Rollback(t)
    BY <2>2 DEF Rollback, rows
  <2>3. CASE ~Rollback(t)
    <3>1. \E s, event, users : Record(call[t].req, s, event, users)
      BY <1>4, <2>3
      DEF ManagerApproveWrite, HRApproveWrite, RejectWrite, CancelWrite
    <3>2. \A q \in RequestId \ {call[t].req} : approval'[q] = approval[q]
      BY <1>0, <1>4, <2>3
      DEF ManagerApproveWrite, HRApproveWrite, RejectWrite, CancelWrite,
          SetRow, RowsOK
    <3> QED
      BY <1>3, <2>1, <3>1, <3>2
  <2> QED
    BY <2>2, <2>3
<1>5. ASSUME NEW t \in Tx, Advance(t) PROVE UNCHANGED requestRows \/ Final
  BY <1>2, <1>4, <1>5
  DEF Advance, ReadEmployee, ReadManager, CheckType, CheckOverlap, CheckBalance, LockRequest,
      CheckScope, ReadType, LockCharged, LockEntitlement, SetEntitlementWrite,
      LockAdjusted, AdjustWrite, Goto, Rollback, rows
<1>6. UNCHANGED requestRows \/ Final
  BY <1>5 DEF Next, Begin, Abort, Rollback, CreateType, UpdateType, UpdateEmployee, vars, rows
<1> QED
  BY <1>1, <1>6

\* A request that was approved, rejected or cancelled never changes again.
THEOREM Finality == Spec => DecisionsAreFinal
<1>1. IInv /\ [Next]_vars => Final
  BY FinalKept
<1> QED
  BY <1>1, Invariance, PTL DEF Spec, DecisionsAreFinal, Final
=============================================================================
