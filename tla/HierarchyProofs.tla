--------------------------- MODULE HierarchyProofs ---------------------------
(***************************************************************************)
(* Proofs about EmployeeHierarchy, for every number of transactions,       *)
(* employees, users, departments and positions.                            *)
(***************************************************************************)
EXTENDS EmployeeHierarchy, TLAPS

\* The part of TypeOK that is about employees.
OwnOK ==
  /\ hired \subseteq Employee
  /\ manager \in [Employee -> Employee \cup {None}]
  /\ account \in [Employee -> User \cup {None}]
  /\ office \in [Employee -> (Department \cup {None}) \X (Position \cup {None})]
  /\ pc \in [Tx -> {"idle", "references", "department", "position", "write"}]
  /\ call \in [Tx -> Calls \cup {None}]
  /\ \A t \in Tx : (call[t] = None) <=> (pc[t] = "idle")

LEMMA TypeParts == TypeOK <=> OwnOK /\ Rooms!TypeOK
BY DEF TypeOK, OwnOK

LEMMA CallShape ==
  ASSUME OwnOK, NEW t \in Tx, pc[t] # "idle"
  PROVE  /\ call[t] \in Calls /\ call[t] \in Call /\ call[t] # None
         /\ call[t].emp \in Employee
         /\ call[t].user \in User \cup {None}
         /\ call[t].boss \in Employee \cup {None}
         /\ call[t].department \in Department \cup {None}
         /\ call[t].position \in Position \cup {None}
<1>1. call[t] \in Calls /\ call[t] \in Call /\ call[t] # None
  BY HierarchyAssumption DEF OwnOK
<1> QED
  BY <1>1 DEF Call

LEMMA FinishOK ==
  ASSUME OwnOK, NEW t \in Tx, Finish(t),
         hired' \subseteq Employee,
         manager' \in [Employee -> Employee \cup {None}],
         account' \in [Employee -> User \cup {None}],
         office' \in [Employee -> (Department \cup {None}) \X (Position \cup {None})]
  PROVE  OwnOK'
BY DEF OwnOK, Finish, Goto

LEMMA RollbackOK == ASSUME OwnOK, NEW t \in Tx, Rollback(t) PROVE OwnOK'
BY FinishOK DEF Rollback, rows, OwnOK

LEMMA WriteOK == ASSUME OwnOK, NEW t \in Tx, Write(t) PROVE OwnOK'
<1>1. CASE Rollback(t)
  BY <1>1, RollbackOK
<1>2. CASE ~Rollback(t)
  <2> DEFINE c == call[t]
  <2>1. /\ pc[t] = "write" /\ Finish(t)
        /\ hired' = hired \cup {c.emp}
        /\ manager' = [manager EXCEPT ![c.emp] = c.boss]
        /\ account' = [account EXCEPT ![c.emp] = c.user]
        /\ office' = [office EXCEPT ![c.emp] = <<c.department, c.position>>]
    BY <1>2 DEF Write
  <2>2. /\ c.emp \in Employee
        /\ c.user \in User \cup {None}
        /\ c.boss \in Employee \cup {None}
        /\ c.department \in Department \cup {None}
        /\ c.position \in Position \cup {None}
    BY <2>1, CallShape
  <2> QED
    BY <2>1, <2>2, FinishOK DEF OwnOK
<1> QED
  BY <1>1, <1>2

\* A statement that only reads.
LEMMA ReadOK ==
  ASSUME OwnOK, NEW t \in Tx, ReadManager(t) \/ CheckDepartment(t) \/ CheckPosition(t)
  PROVE  OwnOK'
<1>1. CASE Rollback(t)
  BY <1>1, RollbackOK
<1>2. CASE ~Rollback(t)
  <2>1. /\ UNCHANGED <<rows, call>> /\ pc[t] # "idle"
        /\ \E label \in {"department", "position", "write"} : pc' = [pc EXCEPT ![t] = label]
    BY <1>2 DEF ReadManager, CheckDepartment, CheckPosition, Goto
  <2> QED
    BY <2>1 DEF OwnOK, rows
<1> QED
  BY <1>1, <1>2

LEMMA BeginOK == ASSUME OwnOK, NEW t \in Tx, Begin(t) PROVE OwnOK'
<1>1. PICK c \in Calls : call' = [call EXCEPT ![t] = c]
  BY DEF Begin
<1>2. c \in Call /\ c # None
  BY HierarchyAssumption
<1> QED
  BY <1>1, <1>2 DEF OwnOK, Begin, Goto, rows

----------------------------------------------------------------------------
(* The requests of Catalog *)

LEMMA CatalogTypes ==
  ASSUME Rooms!TypeOK, Rooms!Next PROVE Rooms!TypeOK'
<1>0. \A a : Rooms!Inserted(a) \in Rooms!State
  BY DEF Rooms!Inserted, Rooms!State
<1>1. \A s \in Rooms!State, a \in Rooms!Asked : Rooms!Updated(s, a) \in Rooms!State
  BY DEF Rooms!Updated, Rooms!State, Rooms!Asked
<1>2. ASSUME NEW d \in Department, NEW a \in Rooms!Asked,
             Rooms!CreateDepartment(d, a) \/ Rooms!UpdateDepartment(d, a)
      PROVE  Rooms!TypeOK'
  <2>1. \E s \in Rooms!State : department' = [department EXCEPT ![d] = s]
    BY <1>0, <1>1, <1>2 DEF Rooms!TypeOK, Rooms!CreateDepartment, Rooms!UpdateDepartment
  <2>2. UNCHANGED <<position, at, placing>>
    BY <1>2 DEF Rooms!CreateDepartment, Rooms!UpdateDepartment
  <2> QED
    BY <2>1, <2>2 DEF Rooms!TypeOK
<1>3. \A c \in Placements : c \in Rooms!Placement /\ c # None
  BY RoomsAssumption
<1>4. ASSUME NEW k \in Clerk, Rooms!Finish(k),
             position' \in [Position -> [state : Rooms!State, department : Department \cup {None}]]
      PROVE  Rooms!TypeOK'
  BY <1>4 DEF Rooms!TypeOK, Rooms!Finish
<1>5. ASSUME NEW k \in Clerk, Rooms!Begin(k) PROVE Rooms!TypeOK'
  BY <1>3, <1>5 DEF Rooms!TypeOK, Rooms!Begin
<1>6. ASSUME NEW k \in Clerk, Rooms!Validate(k) \/ Rooms!Abort(k) PROVE Rooms!TypeOK'
  BY <1>4, <1>6 DEF Rooms!TypeOK, Rooms!Validate, Rooms!Abort
<1>7. ASSUME NEW k \in Clerk, Rooms!Write(k) PROVE Rooms!TypeOK'
  <2> DEFINE c == placing[k]
             old == position[c.id].state
             new == IF c.op = "create" THEN Rooms!Inserted(c.asked)
                    ELSE Rooms!Updated(old, c.asked)
  <2>1. c \in Rooms!Placement
    BY <1>3, <1>7 DEF Rooms!TypeOK, Rooms!Write
  <2>2. /\ c.id \in Position /\ c.asked \in Rooms!Asked
        /\ c.department \in Department \cup {None}
    BY <2>1 DEF Rooms!Placement
  <2>3. new \in Rooms!State
    BY <1>0, <1>1, <2>2 DEF Rooms!TypeOK
  <2>4. /\ Rooms!Finish(k)
        /\ \/ position' = position
           \/ position' = [position EXCEPT ![c.id] =
                              [state |-> new, department |-> c.department]]
    BY <1>7 DEF Rooms!Write
  <2>5. position' \in [Position -> [state : Rooms!State, department : Department \cup {None}]]
    BY <2>2, <2>3, <2>4 DEF Rooms!TypeOK
  <2> QED
    BY <1>4, <2>4, <2>5
<1> QED
  BY <1>2, <1>5, <1>6, <1>7 DEF Rooms!Next

\* Every row, transaction and request is well typed.
THEOREM TypeCorrect == Spec => []TypeOK
<1>1. Init => TypeOK
  BY DEF Init, TypeOK, Rooms!Init, Rooms!TypeOK, Rooms!State
<1>2. TypeOK /\ [Next]_vars => TypeOK'
  <2> SUFFICES ASSUME OwnOK, Rooms!TypeOK, [Next]_vars PROVE OwnOK' /\ Rooms!TypeOK'
    BY TypeParts DEF TypeOK, OwnOK
  <2>1. ASSUME UNCHANGED catalog PROVE Rooms!TypeOK'
    BY <2>1 DEF catalog, Rooms!TypeOK
  <2>2. ASSUME NEW t \in Tx, Advance(t) PROVE OwnOK' /\ UNCHANGED catalog
    BY <2>2, ReadOK, WriteOK DEF Advance
  <2>3. ASSUME NEW t \in Tx, Begin(t) \/ Abort(t) PROVE OwnOK'
    BY <2>3, BeginOK, RollbackOK DEF Abort
  <2>4. ASSUME UNCHANGED own PROVE OwnOK'
    BY <2>4 DEF OwnOK, own, rows
  <2> QED
    BY <2>1, <2>2, <2>3, <2>4, CatalogTypes DEF Next, ChangeCatalog, vars
<1> QED
  BY <1>1, <1>2, PTL DEF Spec

----------------------------------------------------------------------------
(* One call that names a manager at a time *)

\* While a call names a manager, the steps of other calls leave the manager of
\* an employee alone or clear it.
LEMMA OthersOnlyClear ==
  ASSUME OwnOK, OneReading, NEW t \in Tx, NEW u \in Tx \ {t}, NamesManager(u),
         Begin(t) \/ Advance(t) \/ Abort(t)
  PROVE  \A e \in Employee : manager'[e] \in {manager[e], None}
<1>1. CASE manager' = manager
  BY <1>1
<1>2. CASE Write(t) /\ manager' # manager
  <2>1. manager' = [manager EXCEPT ![call[t].emp] = call[t].boss] /\ pc[t] = "write"
    BY <1>2 DEF Write, Rollback, rows
  <2>2. call[t] # None /\ call[t].boss = None
    BY <2>1 DEF OneReading, NamesManager, OwnOK
  <2> QED
    BY <2>1, <2>2 DEF OwnOK
<1> QED
  BY <1>1, <1>2
  DEF Begin, Advance, Abort, ReadManager, CheckDepartment, CheckPosition, Rollback, rows

\* The manager that a call has checked is another one than the employee and not
\* managed by him.
Checked(t) ==
  NamesManager(t) /\ pc[t] # "references" =>
    call[t].boss \in hired /\ call[t].boss # call[t].emp /\ ~ClosesCycle(t)

LEMMA CheckedKept ==
  ASSUME OwnOK, \A t \in Tx : Checked(t), OneReading,
         NEW t \in Tx, Begin(t) \/ Advance(t) \/ Abort(t), NEW u \in Tx
  PROVE  Checked(u)'
<1> SUFFICES ASSUME (NamesManager(u) /\ pc[u] # "references")'
             PROVE  (call[u].boss \in hired /\ call[u].boss # call[u].emp /\ ~ClosesCycle(u))'
  BY DEF Checked
<1>0. hired \subseteq hired'
  BY DEF Begin, Advance, Abort, ReadManager, CheckDepartment, CheckPosition, Write,
         Rollback, rows
<1>1. CASE u # t
  <2>1. pc'[u] = pc[u] /\ call'[u] = call[u]
    BY <1>1 DEF Begin, Advance, Abort, ReadManager, CheckDepartment, CheckPosition,
                Write, Rollback, Finish, Goto, OwnOK
  <2>2. NamesManager(u) /\ call[u].boss \in Employee /\ call[u].emp \in Employee
    BY <2>1, CallShape DEF NamesManager, OwnOK
  <2>3. \A e \in Employee : manager'[e] \in {manager[e], None}
    BY <1>1, <2>2, OthersOnlyClear
  <2> QED
    BY <1>0, <2>1, <2>2, <2>3, HierarchyAssumption DEF Checked, ClosesCycle
<1>2. ASSUME u = t, Finish(t) \/ Begin(t) PROVE FALSE
  BY <1>2 DEF Finish, Begin, Goto, OwnOK, NamesManager
<1>3. CASE u = t /\ ReadManager(t)
  <2>1. /\ call' = call /\ hired' = hired /\ manager' = manager
        /\ call[t].boss \in hired /\ call[t].boss # call[t].emp /\ ~ClosesCycle(t)
    BY <1>2, <1>3 DEF ReadManager, NamesManager, Rollback, rows
  <2> QED
    BY <1>3, <2>1 DEF ClosesCycle
<1>4. CASE u = t /\ (CheckDepartment(t) \/ CheckPosition(t))
  <2>1. /\ call' = call /\ hired' = hired /\ manager' = manager /\ NamesManager(t)
        /\ pc[t] # "references"
    BY <1>2, <1>4 DEF CheckDepartment, CheckPosition, NamesManager, Rollback, rows
  <2> QED
    BY <1>4, <2>1 DEF Checked, ClosesCycle
<1>5. ASSUME u = t, Write(t) \/ Abort(t) PROVE FALSE
  BY <1>2, <1>5 DEF Write, Abort, Rollback
<1> QED
  BY <1>1, <1>2, <1>3, <1>4, <1>5 DEF Advance

\* Although the loop stops at its second lookup, no two employees manage each
\* other, and nobody himself, while calls that name managers take turns.
THEOREM NoMutualManagersOneAtATime == OneManagerAtATime => []NoMutualManagers
<1> DEFINE Apart == \A d, e \in Employee : manager[d] = e => manager[e] # d
           Read == OneReading /\ Apart /\ \A t \in Tx : Checked(t)
<1>1. Init => Read
  BY HierarchyAssumption DEF Init, Checked, OneReading, NamesManager
<1>2. ASSUME OwnOK, Read, [Next /\ OneReading']_vars PROVE Read'
  <2>1. ASSUME NEW t \in Tx, Write(t) PROVE Apart'
    <3> DEFINE c == call[t]
    <3>1. CASE manager' = manager
      BY <1>2, <3>1
    <3>2. CASE manager' # manager
      <4>1. manager' = [manager EXCEPT ![c.emp] = c.boss] /\ pc[t] = "write"
        BY <2>1, <3>2 DEF Write, Rollback, rows
      <4>2. c.emp \in Employee /\ c # None /\ c.boss \in Employee \cup {None}
        BY <1>2, <4>1, CallShape
      <4>3. c.boss # None => c.boss # c.emp /\ manager[c.boss] # c.emp
        BY <1>2, <4>1, <4>2 DEF Checked, NamesManager, ClosesCycle
      <4>4. \A e \in Employee : manager'[e] = IF e = c.emp THEN c.boss ELSE manager[e]
        BY <1>2, <4>1 DEF OwnOK
      <4> QED
        BY <1>2, <4>2, <4>3, <4>4, HierarchyAssumption
    <3> QED
      BY <3>1, <3>2
  <2>2. ASSUME NEW t \in Tx, Begin(t) \/ Advance(t) \/ Abort(t), OneReading'
        PROVE  Read'
    <3>1. Apart'
      <4>1. CASE manager' = manager
        BY <1>2, <4>1
      <4> QED
        BY <2>1, <2>2, <4>1
        DEF Begin, Advance, Abort, ReadManager, CheckDepartment, CheckPosition,
            Rollback, rows
    <3> QED
      BY <1>2, <2>2, <3>1, CheckedKept
  <2>3. CASE UNCHANGED own
    <3>1. hired' = hired /\ manager' = manager /\ pc' = pc /\ call' = call
      BY <2>3 DEF own, rows
    <3> QED
      BY <1>2, <3>1 DEF Checked, ClosesCycle, OneReading, NamesManager
  <2> QED
    BY <1>2, <2>2, <2>3 DEF Next, ChangeCatalog, vars
<1>3. OwnOK /\ Read => NoMutualManagers
  BY DEF OwnOK, NoMutualManagers
<1>4. Init /\ [][Next]_vars => []OwnOK
  <2>1. TypeOK => OwnOK
    BY TypeParts
  <2> QED
    BY <2>1, TypeCorrect, PTL DEF Spec
<1>5. [Next /\ OneReading']_vars => [Next]_vars
  OBVIOUS
<1> QED
  <2> HIDE DEF Read
  <2> QED
    BY <1>1, <1>2, <1>3, <1>4, <1>5, PTL DEF OneManagerAtATime
=============================================================================
