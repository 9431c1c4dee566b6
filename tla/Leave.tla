-------------------------------- MODULE Leave --------------------------------
(***************************************************************************)
(* The leave workflow of internal/leave: submission, the two approval      *)
(* stages, rejection, cancellation and the yearly balances, as concurrent  *)
(* PostgreSQL transactions under READ COMMITTED.                           *)
(*                                                                         *)
(* A transaction is a process of Tx.  Each statement that reads shared     *)
(* rows or waits for a row lock is a step of its own.  The statements that *)
(* write are the transaction's last step, together with its commit: until  *)
(* then nobody else sees them, and every row they update is already locked *)
(* FOR UPDATE.                                                             *)
(***************************************************************************)
EXTENDS LeaveRows, Sequences, FiniteSets

CONSTANTS
  Tx,           \* transactions in flight at the same time
  User,         \* ids of users rows
  Linkings,     \* the assignments of employees.user_id in the instance
  HRUser,       \* users whose roles grant leave.hr.approve
  TypeFlags,    \* flag combinations a leave type takes in the instance
  Calls         \* the calls that are made in the instance

Decisions == {"managerApprove", "hrApprove", "reject", "cancel"}

ASSUME ConstantsAssumption ==
  /\ \A a \in Linkings :
       /\ a \in [Employee -> User \cup {None}]
       /\ \A d, e \in Employee : a[d] = a[e] => d = e \/ a[d] = None
  /\ HRUser \subseteq User
  /\ TypeFlags \subseteq [active : BOOLEAN, needsBalance : BOOLEAN,
                          needsAttachment : BOOLEAN]

----------------------------------------------------------------------------
(* Rows, calls and what a transaction remembers *)

Stage == {"MANAGER", "HR"}
ApprovalStatus == {"ABSENT", "PENDING", "APPROVED", "REJECTED", "CANCELLED"}
Approval == [status : ApprovalStatus, actor : User \cup {None}]
Row(s, actor) == [status |-> s, actor |-> actor]

Event ==
  {"LEAVE_SUBMITTED", "LEAVE_MANAGER_APPROVED", "LEAVE_APPROVED",
   "LEAVE_REJECTED", "LEAVE_CANCELLED"}
Notification == [type : Event, to : User]

\* A call that passed authentication, validation and the route's permission
\* check.
Call ==
  [op : {"submit"}, leave : Period]
    \cup [op : Decisions, user : User, req : RequestId]
    \cup [op : {"setEntitlement"}, key : Key, amount : Entitlement]
    \cup [op : {"adjust"}, key : Key, amount : Adjustment]

ASSUME CallsAssumption ==
  /\ Calls \subseteq Call
  /\ None \notin User \cup Employee \cup Tx \cup Period \cup Call

\* What a transaction keeps of rows it read earlier: employee is the one whom
\* the middleware found linked to the caller's account, before the transaction
\* starts, and addressee the account of the manager at the time of a submission.
Memory ==
  [needsBalance : BOOLEAN, stage : Stage \cup {None},
   employee : Employee \cup {None}, manager : Employee \cup {None},
   addressee : User \cup {None}]
NothingSeen ==
  [needsBalance |-> FALSE, stage |-> None, employee |-> None, manager |-> None,
   addressee |-> None]

PC == {"idle", "start", "manager", "type", "overlap", "scope", "balance", "write"}

----------------------------------------------------------------------------
VARIABLES
  status,       \* leave_requests.status, "ABSENT" for an id not used yet
  leave,        \* the other columns of leave_requests
  approval,     \* leave_approvals, by request and stage
  trail,        \* audit_logs of each request
  told,         \* notifications about each request
  charged,      \* requests whose approval debited a balance (history)
  configured,   \* keys that have a leave_balances row
  balance,      \* the columns of those rows
  types,        \* ids that have a leave_types row, and
  flags,        \* the flags of those rows
  manager,      \* employees.manager_id
  account,      \* employees.user_id
  requestLock,  \* the transaction that holds the row lock of a request, or None
  balanceLock,  \* the same for balances
  pc, call, seen

requestRows == <<status, leave, approval, trail, told, charged>>
balanceRows == <<configured, balance>>
orgRows == <<types, flags, manager, account>>
rows == <<requestRows, balanceRows, orgRows>>
locks == <<requestLock, balanceLock>>
vars == <<rows, locks, pc, call, seen>>

Init ==
  /\ status = [r \in RequestId |-> "ABSENT"]
  /\ leave = [r \in RequestId |-> None]
  /\ approval = [r \in RequestId |-> [s \in Stage |-> Row("ABSENT", None)]]
  /\ trail = [r \in RequestId |-> <<>>]
  /\ told = [r \in RequestId |-> {}]
  /\ charged = {}
  /\ configured = {}
  /\ balance = [k \in Key |-> NoBalance]
  /\ types \in SUBSET LeaveType
  /\ flags \in [LeaveType -> TypeFlags]
  /\ manager = [e \in Employee |-> None]
  /\ account \in Linkings
  /\ requestLock = [r \in RequestId |-> None]
  /\ balanceLock = [k \in Key |-> None]
  /\ pc = [t \in Tx |-> "idle"]
  /\ call = [t \in Tx |-> None]
  /\ seen = [t \in Tx |-> NothingSeen]

----------------------------------------------------------------------------
(* Transactions *)

At(t, label, ops) == pc[t] = label /\ call[t].op \in ops

\* The end of a statement that only reads and locks.
Goto(t, label) == pc' = [pc EXCEPT ![t] = label] /\ UNCHANGED <<call, rows>>

TakeNothing(lock, x, t) == lock
Take(lock, x, t) == [lock EXCEPT ![x] = t]
ReleaseNothing(lock, t) == lock
Release(lock, t) == [x \in DOMAIN lock |-> IF lock[x] = t THEN None ELSE lock[x]]

\* Commit or rollback: the locks are released and the call is answered.
Finish(t) ==
  /\ pc' = [pc EXCEPT ![t] = "idle"]
  /\ call' = [call EXCEPT ![t] = None]
  /\ seen' = [seen EXCEPT ![t] = NothingSeen]
  /\ requestLock' = Release(requestLock, t)
  /\ balanceLock' = Release(balanceLock, t)

Rollback(t) == Finish(t) /\ UNCHANGED rows

LinkedTo(u) == {e \in Employee : account[e] = u}

\* Submit, ManagerApprove and Cancel need an employee; Submit acts on its own.
Permitted(c) ==
  /\ c.op = "submit" => ValidPeriod(c.leave) /\ account[c.leave.emp] # None
  /\ c.op \in {"managerApprove", "cancel"} => LinkedTo(c.user) # {}
  /\ c.op = "hrApprove" => c.user \in HRUser

\* The middleware's Preload of the caller's employee.
Identify(t, c) ==
  IF c.op \in Decisions /\ LinkedTo(c.user) # {}
  THEN \E e \in LinkedTo(c.user) : seen' = [seen EXCEPT ![t].employee = e]
  ELSE UNCHANGED seen

Begin(t) ==
  /\ pc[t] = "idle"
  /\ \E c \in Calls :
       /\ Permitted(c)
       /\ c.op = "submit" => \E r \in RequestId : status[r] = "ABSENT"
       /\ call' = [call EXCEPT ![t] = c]
       /\ Identify(t, c)
  /\ pc' = [pc EXCEPT ![t] = "start"]
  /\ UNCHANGED <<rows, locks>>

\* A failed statement, a lost connection, a cancelled context or a crash.
Abort(t) == pc[t] # "idle" /\ Rollback(t)

----------------------------------------------------------------------------
(* Submit *)

ReadEmployee(t) ==
  LET m == manager[call[t].leave.emp] IN
  /\ At(t, "start", {"submit"})
  /\ \/ /\ m # None
        /\ seen' = [seen EXCEPT ![t].manager = m]
        /\ Goto(t, "manager")
        /\ UNCHANGED locks
     \/ m = None /\ Rollback(t)

ReadManager(t) ==
  LET u == account[seen[t].manager] IN
  /\ At(t, "manager", {"submit"})
  /\ \/ /\ u \in User
        /\ seen' = [seen EXCEPT ![t].addressee = u]
        /\ Goto(t, "type")
        /\ UNCHANGED locks
     \/ u \notin User /\ Rollback(t)

CheckType(t) ==
  LET ty == call[t].leave.type
      f == flags[ty]
      offered == ty \in types /\ f.active /\ ~f.needsAttachment IN
  /\ At(t, "type", {"submit"})
  /\ \/ /\ offered
        /\ seen' = [seen EXCEPT ![t].needsBalance = f.needsBalance]
        /\ Goto(t, "overlap")
        /\ UNCHANGED locks
     \/ ~offered /\ Rollback(t)

OverlapsApproved(l) ==
  \E r \in RequestId : status[r] = "APPROVED" /\ Overlap(leave[r], l)
\* A COUNT of committed rows: it locks nothing.
Overlaps(l) == \E r \in RequestId : status[r] \in Active /\ Overlap(leave[r], l)

CheckOverlap(t) ==
  /\ At(t, "overlap", {"submit"})
  /\ \/ /\ ~Overlaps(call[t].leave)
        /\ Goto(t, IF seen[t].needsBalance THEN "balance" ELSE "write")
        /\ UNCHANGED <<locks, seen>>
     \/ Overlaps(call[t].leave) /\ Rollback(t)

Covers(l) ==
  KeyOf(l) \in configured /\ Available(balance[KeyOf(l)]) >= Duration(l)

CheckBalance(t) ==
  /\ At(t, "balance", {"submit"})
  /\ \/ /\ Covers(call[t].leave)
        /\ Goto(t, "write")
        /\ UNCHANGED <<locks, seen>>
     \/ ~Covers(call[t].leave) /\ Rollback(t)

\* The rows a transaction writes about request r besides its approvals; an
\* employee without an account gets no notification.
Record(r, s, event, users) ==
  /\ status' = [status EXCEPT ![r] = s]
  /\ trail' = [trail EXCEPT ![r] = Append(@, event)]
  /\ told' = [told EXCEPT ![r] = @ \cup [type : {event}, to : users \cap User]]

\* Without a free id (the bound RequestId) the insert fails.
SubmitWrite(t) ==
  /\ At(t, "write", {"submit"})
  /\ \/ /\ \E r \in RequestId :
             /\ status[r] = "ABSENT"
             /\ leave' = [leave EXCEPT ![r] = call[t].leave]
             /\ approval' = [approval EXCEPT ![r]["MANAGER"] = Row("PENDING", None)]
             /\ Record(r, "PENDING_MANAGER", "LEAVE_SUBMITTED", {seen[t].addressee})
        /\ Finish(t)
        /\ UNCHANGED <<charged, balanceRows, orgRows>>
     \/ (\A r \in RequestId : status[r] # "ABSENT") /\ Rollback(t)

----------------------------------------------------------------------------
(* Decisions *)

StageOfStatus(s) == IF s = "PENDING_MANAGER" THEN "MANAGER" ELSE s
StageOf(s) == IF s = "PENDING_MANAGER" THEN "MANAGER" ELSE "HR"

AdmitsLateCancel(t) ==
  LET c == call[t]
      s == status[c.req] IN
  \/ c.op = "managerApprove" /\ s = "PENDING_MANAGER"
  \/ c.op = "hrApprove" /\ s = "PENDING_HR"
  \/ c.op = "reject" /\ s = "PENDING_MANAGER"
  \/ c.op = "reject" /\ s = "PENDING_HR" /\ c.user \in HRUser
  \/ c.op = "cancel" /\ s \in Active /\ seen[t].employee = leave[c.req].emp
\* The checks made on the locked request; an id that is not there is refused.
Admits(t) ==
  LET c == call[t]
      s == status[c.req] IN
  \/ c.op = "managerApprove" /\ s = "PENDING_MANAGER"
  \/ c.op = "hrApprove" /\ s = "PENDING_HR"
  \/ c.op = "reject" /\ s = "PENDING_MANAGER"
  \/ c.op = "reject" /\ s = "PENDING_HR" /\ c.user \in HRUser
  \/ c.op = "cancel" /\ s \in Pending /\ seen[t].employee = leave[c.req].emp

AfterLock(c) ==
  IF c.op = "hrApprove" THEN "type"
  ELSE IF c.op # "cancel" /\ status[c.req] = "PENDING_MANAGER" THEN "scope"
  ELSE "write"

LockRequest(t) ==
  LET c == call[t] IN
  /\ At(t, "start", Decisions)
  /\ requestLock[c.req] = None
  /\ \/ /\ Admits(t)
        /\ requestLock' = Take(requestLock, c.req, t)
        /\ seen' = [seen EXCEPT ![t].stage = StageOf(status[c.req])]
        /\ Goto(t, AfterLock(c))
        /\ UNCHANGED balanceLock
     \/ ~Admits(t) /\ Rollback(t)

InScopeOfOwner(t) == leave[call[t].req].emp = seen[t].employee
\* The owner is managed, now, by the employee the caller was identified as.
InScope(t) ==
  LET m == manager[leave[call[t].req].emp] IN m # None /\ m = seen[t].employee

CheckScope(t) ==
  /\ At(t, "scope", {"managerApprove", "reject"})
  /\ \/ /\ InScope(t)
        /\ Goto(t, "write")
        /\ UNCHANGED <<locks, seen>>
     \/ ~InScope(t) /\ Rollback(t)

ReadType(t) ==
  LET f == flags[leave[call[t].req].type] IN
  /\ At(t, "type", {"hrApprove"})
  /\ seen' = [seen EXCEPT ![t].needsBalance = f.needsBalance]
  /\ Goto(t, IF f.needsBalance THEN "balance" ELSE "write")
  /\ UNCHANGED locks

LockCharged(t) ==
  LET l == leave[call[t].req] IN
  /\ At(t, "balance", {"hrApprove"})
  /\ balanceLock[KeyOf(l)] = None
  /\ \/ /\ Covers(l)
        /\ balanceLock' = Take(balanceLock, KeyOf(l), t)
        /\ Goto(t, "write")
        /\ UNCHANGED <<requestLock, seen>>
     \/ ~Covers(l) /\ Rollback(t)

\* RowsAffected = 1: the stage's approval row is still PENDING.
RowPending(t) == approval[call[t].req][seen[t].stage].status = "PENDING"
SetRow(t, s) ==
  [approval EXCEPT ![call[t].req][seen[t].stage] = Row(s, call[t].user)]
\* Whom notifyEmployee finds; between this read and the commit the transaction
\* only inserts.
OwnerAccount(r) == account[leave[r].emp]

ManagerApproveWrite(t) ==
  LET r == call[t].req IN
  /\ At(t, "write", {"managerApprove"})
  /\ IF RowPending(t)
     THEN /\ approval' =
               [SetRow(t, "APPROVED") EXCEPT ![r]["HR"] = Row("PENDING", None)]
          /\ Record(r, "PENDING_HR", "LEAVE_MANAGER_APPROVED", HRUser)
          /\ Finish(t)
          /\ UNCHANGED <<leave, charged, balanceRows, orgRows>>
     ELSE Rollback(t)

HRApproveWrite(t) ==
  LET r == call[t].req
      k == KeyOf(leave[r])
      debit == Charge(balance[k], leave[r])
      succeeds == RowPending(t) /\ (seen[t].needsBalance => SatisfiesChecks(debit)) IN
  /\ At(t, "write", {"hrApprove"})
  /\ \/ /\ succeeds
        /\ balance' = IF seen[t].needsBalance
                      THEN [balance EXCEPT ![k] = debit] ELSE balance
        /\ charged' = IF seen[t].needsBalance THEN charged \cup {r} ELSE charged
        /\ approval' = SetRow(t, "APPROVED")
        /\ Record(r, "APPROVED", "LEAVE_APPROVED", {OwnerAccount(r)})
        /\ Finish(t)
        /\ UNCHANGED <<leave, configured, orgRows>>
     \/ ~succeeds /\ Rollback(t)

RejectWrite(t) ==
  LET r == call[t].req IN
  /\ At(t, "write", {"reject"})
  /\ IF RowPending(t)
     THEN /\ approval' = SetRow(t, "REJECTED")
          /\ Record(r, "REJECTED", "LEAVE_REJECTED", {OwnerAccount(r)})
          /\ Finish(t)
          /\ UNCHANGED <<leave, charged, balanceRows, orgRows>>
     ELSE Rollback(t)

CancelAllRows(a) == [s \in Stage |-> [a[s] EXCEPT !.status = "CANCELLED"]]
\* Every row that is still PENDING is cancelled, and nobody is notified.
CancelRows(a) ==
  [s \in Stage |-> IF a[s].status = "PENDING"
                   THEN [a[s] EXCEPT !.status = "CANCELLED"] ELSE a[s]]

CancelWrite(t) ==
  LET r == call[t].req IN
  /\ At(t, "write", {"cancel"})
  /\ approval' = [approval EXCEPT ![r] = CancelRows(@)]
  /\ Record(r, "CANCELLED", "LEAVE_CANCELLED", {})
  /\ Finish(t)
  /\ UNCHANGED <<leave, charged, balanceRows, orgRows>>

----------------------------------------------------------------------------
(* Balances *)

\* The leave type must exist; FOR UPDATE on a row that is not there locks
\* nothing.  AdjustBalance needs no check of its own: no type, no balance.
LockEntitlement(t) ==
  LET k == call[t].key IN
  /\ At(t, "start", {"setEntitlement"})
  /\ \/ /\ k[2] \in types
        /\ \/ /\ k \in configured /\ balanceLock[k] = None
              /\ balanceLock' = Take(balanceLock, k, t)
           \/ k \notin configured /\ UNCHANGED balanceLock
        /\ Goto(t, "write")
        /\ UNCHANGED <<requestLock, seen>>
     \/ k[2] \notin types /\ Rollback(t)

InsertableAlways(k) == TRUE
\* leave_balances is UNIQUE by employee, type and year.
Insertable(k) == k \notin configured

\* An update of the row it locked; without one, an insert of a new row, even if
\* another transaction has inserted that row since.
SetEntitlementWrite(t) ==
  LET k == call[t].key
      held == balanceLock[k] = t
      old == IF held THEN balance[k] ELSE NoBalance
      row == [old EXCEPT !.entitled = call[t].amount]
      succeeds == (held \/ Insertable(k)) /\ SatisfiesChecks(row) IN
  /\ At(t, "write", {"setEntitlement"})
  /\ \/ /\ succeeds
        /\ configured' = configured \cup {k}
        /\ balance' = [balance EXCEPT ![k] = row]
        /\ Finish(t)
        /\ UNCHANGED <<requestRows, orgRows>>
     \/ ~succeeds /\ Rollback(t)

Allows(c) ==
  c.key \in configured /\ Available(balance[c.key]) + c.amount >= 0

LockAdjusted(t) ==
  LET k == call[t].key IN
  /\ At(t, "start", {"adjust"})
  /\ balanceLock[k] = None
  /\ \/ /\ Allows(call[t])
        /\ balanceLock' = Take(balanceLock, k, t)
        /\ Goto(t, "write")
        /\ UNCHANGED <<requestLock, seen>>
     \/ ~Allows(call[t]) /\ Rollback(t)

AdjustWrite(t) ==
  LET k == call[t].key
      row == [balance[k] EXCEPT !.adjustment = @ + call[t].amount] IN
  /\ At(t, "write", {"adjust"})
  /\ \/ /\ SatisfiesChecks(row)
        /\ balance' = [balance EXCEPT ![k] = row]
        /\ Finish(t)
        /\ UNCHANGED <<requestRows, configured, orgRows>>
     \/ ~SatisfiesChecks(row) /\ Rollback(t)

----------------------------------------------------------------------------
(* What the rest of the program does to the rows the workflow reads *)

\* GORM inserts the defaults of is_active and requires_balance, both TRUE, in
\* place of FALSE.  Rows with other flags come from UpdateType and the seed.
CreateType(ty) ==
  /\ ty \notin types
  /\ types' = types \cup {ty}
  /\ \E f \in TypeFlags :
       f.active /\ f.needsBalance /\ flags' = [flags EXCEPT ![ty] = f]
  /\ UNCHANGED <<requestRows, balanceRows, manager, account, locks, pc, call, seen>>

UpdateType(ty) ==
  /\ ty \in types
  /\ \E f \in TypeFlags : flags' = [flags EXCEPT ![ty] = f]
  /\ UNCHANGED <<requestRows, balanceRows, types, manager, account, locks, pc, call, seen>>

\* The UPDATE of employee.Update (and what Create inserts for an employee that
\* nothing refers to yet), under the CHECK employees_not_own_manager and the
\* UNIQUE of user_id, which every assignment in Linkings respects.
UpdateEmployee(e, m, u) ==
  /\ m # e
  /\ manager' = [manager EXCEPT ![e] = m]
  /\ account' = [account EXCEPT ![e] = u]
  /\ account' \in Linkings
  /\ UNCHANGED <<requestRows, balanceRows, types, flags, locks, pc, call, seen>>

----------------------------------------------------------------------------
Advance(t) ==
  \/ ReadEmployee(t) \/ ReadManager(t) \/ CheckType(t) \/ CheckOverlap(t)
  \/ CheckBalance(t) \/ SubmitWrite(t)
  \/ LockRequest(t) \/ CheckScope(t) \/ ReadType(t) \/ LockCharged(t)
  \/ ManagerApproveWrite(t) \/ HRApproveWrite(t) \/ RejectWrite(t) \/ CancelWrite(t)
  \/ LockEntitlement(t) \/ SetEntitlementWrite(t)
  \/ LockAdjusted(t) \/ AdjustWrite(t)

Next ==
  \/ \E t \in Tx : Begin(t) \/ Advance(t) \/ Abort(t)
  \/ \E ty \in LeaveType : CreateType(ty) \/ UpdateType(ty)
  \/ \E e \in Employee, m \in Employee \cup {None}, u \in User \cup {None} :
       UpdateEmployee(e, m, u)

Spec == Init /\ [][Next]_vars

\* Every employee submits one request at a time, among any other calls: the
\* overlap check of Submit does not hold against concurrent ones.
Submitting(t) == call[t] # None /\ call[t].op = "submit"
OneSubmission ==
  \A t, u \in Tx :
    Submitting(t) /\ Submitting(u) /\ call[t].leave.emp = call[u].leave.emp => t = u
OneAtATime == Init /\ [][Next /\ OneSubmission']_vars

\* A statement that can run does run, and PostgreSQL hands a row lock to the
\* transactions that wait for it in turn.
FairSpec == Spec /\ \A t \in Tx : SF_vars(Advance(t))

----------------------------------------------------------------------------
(* Properties *)

TypeOK ==
  /\ status \in [RequestId -> Status \cup {"ABSENT"}]
  /\ leave \in [RequestId -> Period \cup {None}]
  /\ approval \in [RequestId -> [Stage -> Approval]]
  /\ trail \in [RequestId -> Seq(Event)]
  /\ told \in [RequestId -> SUBSET Notification]
  /\ charged \subseteq RequestId
  /\ configured \subseteq Key
  /\ balance \in [Key -> BalanceRow]
  /\ types \subseteq LeaveType
  /\ flags \in [LeaveType -> TypeFlags]
  /\ manager \in [Employee -> Employee \cup {None}]
  /\ account \in Linkings
  /\ requestLock \in [RequestId -> Tx \cup {None}]
  /\ balanceLock \in [Key -> Tx \cup {None}]
  /\ pc \in [Tx -> PC]
  /\ call \in [Tx -> Call \cup {None}]
  /\ seen \in [Tx -> Memory]
  /\ \A r \in RequestId : status[r] # "ABSENT" => leave[r] # None
  /\ \A t \in Tx : pc[t] # "idle" => call[t] # None

\* The approval rows of a request always agree with its status, although four
\* handlers maintain the two tables and race each other for them.
StagesInStep ==
  \A r \in RequestId :
    <<status[r], approval[r]["MANAGER"].status, approval[r]["HR"].status>> \in
      {<<"ABSENT", "ABSENT", "ABSENT">>,
       <<"PENDING_MANAGER", "PENDING", "ABSENT">>,
       <<"PENDING_HR", "APPROVED", "PENDING">>,
       <<"APPROVED", "APPROVED", "APPROVED">>,
       <<"REJECTED", "REJECTED", "ABSENT">>,
       <<"REJECTED", "APPROVED", "REJECTED">>,
       <<"CANCELLED", "CANCELLED", "ABSENT">>,
       <<"CANCELLED", "APPROVED", "CANCELLED">>}

Deciding(t) ==
  pc[t] \in {"scope", "type", "balance", "write"} /\ call[t].op \in Decisions

\* From its first statement to its commit a decision holds the row lock of the
\* request, and the request stays in the status that the decision was admitted
\* for, whichever other decisions are waiting.
RequestHeld ==
  \A t \in Tx : Deciding(t) =>
    LET s == status[call[t].req] IN
    /\ requestLock[call[t].req] = t
    /\ s \in Pending
    /\ seen[t].stage = StageOf(s)
    /\ call[t].op = "managerApprove" => s = "PENDING_MANAGER"
    /\ call[t].op = "hrApprove" => s = "PENDING_HR"

\* A decision that reached its writes, after statements during which others
\* ran, still finds the approval row it is about to decide PENDING: the
\* APPROVAL_ALREADY_PROCESSED answers are a second line that never fires.
DecidedRowStillPending ==
  \A t \in Tx : At(t, "write", Decisions \ {"cancel"}) => RowPending(t)

\* What HRApprove and AdjustBalance found in the balance still holds when they
\* update it, so the CHECK of the table never turns their answer into an error.
CheckedBalanceStillCovers ==
  \A t \in Tx :
    /\ At(t, "write", {"hrApprove"}) /\ seen[t].needsBalance =>
         Covers(leave[call[t].req])
    /\ At(t, "write", {"adjust"}) => Allows(call[t])

\* The days of the approved requests that a balance was charged for.
DaysCharged(k) ==
  UNION {{r} \X (leave[r].first .. leave[r].last) :
           r \in {q \in charged : KeyOf(leave[q]) = k /\ status[q] = "APPROVED"}}

\* What a balance counts as used are exactly those days, whatever mix of
\* approvals, entitlements and adjustments ran, and although HRApprove reads
\* the leave type without a lock.
UsedIsApprovedCharges ==
  \A k \in Key : balance[k].used = Cardinality(DaysCharged(k))

\* Nobody has more days approved on a balance than it grants, adjustments
\* included, whatever is approved, granted and taken back at the same time:
\* Submit reserves nothing and SetEntitlement compares nothing.
ApprovedIsGranted ==
  \A k \in Key :
    Cardinality(DaysCharged(k)) <= balance[k].entitled + balance[k].adjustment

\* Whoever decides the manager stage of a leave acts as an employee, and not as
\* the one who takes it: neither a change of managers while the decision waits
\* and is checked, nor a change of the accounts of either employee since the
\* caller was identified, makes the owner their own approver.
NobodyManagesOwnLeave ==
  \A t \in Tx :
    At(t, "write", {"managerApprove", "reject"}) /\ seen[t].stage = "MANAGER" =>
      seen[t].employee \in Employee \ {leave[call[t].req].emp}

\* The audit log of a request is the story its rows tell, each event once and
\* in order.  The submission was announced to an account, although the account
\* of the manager may change while it runs; otherwise only events of that story
\* were, since the owner may have no account by then, and never a cancellation.
TrailTellsHistory ==
  \A r \in RequestId :
    LET byHR == IF approval[r]["MANAGER"].status = "APPROVED"
                THEN <<"LEAVE_MANAGER_APPROVED">> ELSE <<>>
        last == CASE status[r] = "APPROVED" -> <<"LEAVE_APPROVED">>
                  [] status[r] = "REJECTED" -> <<"LEAVE_REJECTED">>
                  [] status[r] = "CANCELLED" -> <<"LEAVE_CANCELLED">>
                  [] OTHER -> <<>>
        announced == {n.type : n \in told[r]} IN
    status[r] # "ABSENT" =>
      /\ trail[r] = <<"LEAVE_SUBMITTED">> \o byHR \o last
      /\ "LEAVE_SUBMITTED" \in announced
      /\ announced \subseteq
           {trail[r][i] : i \in DOMAIN trail[r]} \ {"LEAVE_CANCELLED"}

\* An approved, rejected or cancelled request never changes again, nor do its
\* approval rows: a late or repeated decision is refused.
DecisionsAreFinal ==
  [][\A r \in RequestId :
       status[r] \in Status \ Pending =>
         /\ status'[r] = status[r]
         /\ approval'[r] = approval[r]
         /\ trail'[r] = trail[r]]_vars

\* Two requests of one employee that are pending or approved never share a day
\* (the answer OVERLAPPING_LEAVE_REQUEST of Submit).
NoOverlap ==
  \A r, s \in RequestId :
    r # s /\ status[r] \in Active /\ status[s] \in Active =>
      ~Overlap(leave[r], leave[s])

\* A statement that waits for the row lock of another transaction.
WaitsFor(t, u) ==
  /\ t # u
  /\ \/ At(t, "start", Decisions) /\ requestLock[call[t].req] = u
     \/ At(t, "balance", {"hrApprove"}) /\ balanceLock[KeyOf(leave[call[t].req])] = u
     \/ At(t, "start", {"setEntitlement", "adjust"}) /\ balanceLock[call[t].key] = u

\* Whoever is waited for is at work, and among transactions that wait, one waits
\* for a transaction that does not: no way a transaction ends leaves a lock
\* behind, and no order of the locks on requests and balances closes a circle.
WaitsEndAtRunner ==
  /\ \A t, u \in Tx : WaitsFor(t, u) => pc[u] # "idle"
  /\ \A G \in SUBSET Tx : G # {} => \E t \in G : \A u \in G : ~WaitsFor(t, u)

\* Every call is answered: no two handlers wait for each other's row locks,
\* and none is overtaken for ever.
CallsAnswered == \A t \in Tx : pc[t] # "idle" ~> pc[t] = "idle"

\* The workflow looks to its callers as if each call ran alone.
Lifecycle ==
  INSTANCE LeaveLifecycle
    WITH status <- status, leave <- leave, configured <- configured, balance <- balance
ActsAtomically == Lifecycle!Spec
=============================================================================
