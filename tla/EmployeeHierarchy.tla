------------------------- MODULE EmployeeHierarchy -------------------------
(***************************************************************************)
(* internal/employee: Create and Update, which link an employee to a user, *)
(* a manager, a department and a position, as concurrent transactions,     *)
(* beside the requests of Catalog.  validateReferences reads each of them  *)
(* by a SELECT of its own, without locks; the write that follows is one    *)
(* step with the commit.                                                   *)
(***************************************************************************)
EXTENDS Naturals

CONSTANTS
  Tx,        \* transactions in flight at the same time
  Employee,  \* ids of employees rows
  User,      \* ids of active users: no call deactivates one
  Clerk, Department, Position, Placements,  \* see Catalog
  None,      \* SQL NULL, and the absence of a call
  Calls      \* the calls that are made in the instance

Call == [op : {"create", "update"}, emp : Employee, user : User \cup {None},
         boss : Employee \cup {None}, department : Department \cup {None},
         position : Position \cup {None}]

ASSUME HierarchyAssumption ==
  /\ Calls \subseteq Call
  /\ None \notin Employee \cup User \cup Call

VARIABLES
  hired,    \* ids that have a row
  manager,  \* employees.manager_id
  account,  \* employees.user_id
  office,   \* employees.department_id and position_id
  pc, call,
  department, position, at, placing

Rooms == INSTANCE Catalog

ASSUME RoomsAssumption ==
  /\ Placements \subseteq Rooms!Placement
  /\ None \notin Department \cup Position \cup Rooms!Placement

rows == <<hired, manager, account, office>>
own == <<rows, pc, call>>
catalog == <<department, position, at, placing>>
vars == <<own, catalog>>

Init ==
  /\ Rooms!Init
  /\ hired = {}
  /\ manager = [e \in Employee |-> None]
  /\ account = [e \in Employee |-> None]
  /\ office = [e \in Employee |-> <<None, None>>]
  /\ pc = [t \in Tx |-> "idle"]
  /\ call = [t \in Tx |-> None]

----------------------------------------------------------------------------
Goto(t, label) == pc' = [pc EXCEPT ![t] = label]

Finish(t) ==
  /\ Goto(t, "idle")
  /\ call' = [call EXCEPT ![t] = None]

Rollback(t) == Finish(t) /\ UNCHANGED rows

\* Update reads the row it changes; Create has no id yet, so nobody can name
\* the new employee: the spare id stands for the one the insert will draw.
Begin(t) ==
  /\ pc[t] = "idle"
  /\ \E c \in Calls :
       /\ c.op = "update" => c.emp \in hired
       /\ c.op = "create" =>
            /\ c.emp \notin hired /\ c.boss # c.emp
            /\ \A u \in Tx : call[u] # None => call[u].emp # c.emp
       /\ call' = [call EXCEPT ![t] = c]
  /\ Goto(t, "references")
  /\ UNCHANGED rows

NeverClosesCycle(t) == FALSE
ClosesCycle(t) == manager[call[t].boss] = call[t].emp

\* The manager must exist, differ from the employee and not be managed by him.
\* The loop goes no further: its lookup of the next manager reuses the row
\* variable, and GORM adds the id that the variable holds to the condition, so
\* it finds no row and the loop breaks.
ReadManager(t) ==
  LET c == call[t] IN
  /\ pc[t] = "references"
  /\ \/ /\ c.boss # None =>
             c.boss \in hired /\ c.boss # c.emp /\ ~ClosesCycle(t)
        /\ Goto(t, "department")
        /\ UNCHANGED <<rows, call>>
     \/ /\ c.boss # None
        /\ c.boss \notin hired \/ c.boss = c.emp \/ ClosesCycle(t)
        /\ Rollback(t)

DepartmentUsable(d) == d # None => department[d] = "ACTIVE"
PositionUsable(p) == p # None => position[p].state = "ACTIVE"

CheckDepartment(t) ==
  /\ pc[t] = "department"
  /\ \/ /\ DepartmentUsable(call[t].department)
        /\ Goto(t, "position")
        /\ UNCHANGED <<rows, call>>
     \/ ~DepartmentUsable(call[t].department) /\ Rollback(t)

CheckPosition(t) ==
  /\ pc[t] = "position"
  /\ \/ /\ PositionUsable(call[t].position)
        /\ Goto(t, "write")
        /\ UNCHANGED <<rows, call>>
     \/ ~PositionUsable(call[t].position) /\ Rollback(t)

\* The UNIQUE constraint of user_id; the CHECK on manager_id cannot fail here.
AccountFree(c) ==
  c.user = None \/ \A e \in hired \ {c.emp} : account[e] # c.user

Write(t) ==
  LET c == call[t] IN
  /\ pc[t] = "write"
  /\ \/ /\ AccountFree(c)
        /\ hired' = hired \cup {c.emp}
        /\ manager' = [manager EXCEPT ![c.emp] = c.boss]
        /\ account' = [account EXCEPT ![c.emp] = c.user]
        /\ office' = [office EXCEPT ![c.emp] = <<c.department, c.position>>]
        /\ Finish(t)
     \/ ~AccountFree(c) /\ Rollback(t)

Abort(t) == pc[t] # "idle" /\ Rollback(t)

Advance(t) ==
  /\ ReadManager(t) \/ CheckDepartment(t) \/ CheckPosition(t) \/ Write(t)
  /\ UNCHANGED catalog

\* Requests about departments and positions, at any time.
ChangeCatalog == Rooms!Next /\ UNCHANGED own

Next ==
  \/ \E t \in Tx : Advance(t) \/ ((Begin(t) \/ Abort(t)) /\ UNCHANGED catalog)
  \/ ChangeCatalog

Spec == Init /\ [][Next]_vars

\* Calls that name a manager are made one at a time, among any others: what
\* ReadManager finds is not locked and does not hold against concurrent ones.
NamesManager(t) == call[t] # None /\ call[t].boss # None
OneReading == \A t, u \in Tx : NamesManager(t) /\ NamesManager(u) => t = u
OneManagerAtATime == Init /\ [][Next /\ OneReading']_vars

----------------------------------------------------------------------------
(* Properties *)

\* Every row is well typed, and a transaction has a call exactly while it runs.
TypeOK ==
  /\ hired \subseteq Employee
  /\ manager \in [Employee -> Employee \cup {None}]
  /\ account \in [Employee -> User \cup {None}]
  /\ office \in [Employee -> (Department \cup {None}) \X (Position \cup {None})]
  /\ pc \in [Tx -> {"idle", "references", "department", "position", "write"}]
  /\ call \in [Tx -> Calls \cup {None}]
  /\ \A t \in Tx : (call[t] = None) <=> (pc[t] = "idle")
  /\ Rooms!TypeOK

\* Nobody is above himself, over any number of steps: every group of employees
\* has a member whose manager is outside it (MANAGER_HIERARCHY_CYCLE).
Acyclic ==
  \A group \in (SUBSET hired) \ {{}} : \E e \in group : manager[e] \notin group

\* No two employees manage each other and nobody himself, whatever other calls
\* clear or departments change between the check of a call and its write.
NoMutualManagers ==
  \A d \in hired : manager[d] # None => manager[manager[d]] # d
=============================================================================
