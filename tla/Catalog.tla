------------------------------ MODULE Catalog ------------------------------
(***************************************************************************)
(* Departments and positions (internal/department, internal/position):     *)
(* their active flags, and the department a position is placed in.         *)
(*                                                                         *)
(* No row is ever deleted, so the SELECT and the UPDATE of an update are   *)
(* one step; the check of a position's department is a step of its own,    *)
(* before the transaction and on another connection.                       *)
(***************************************************************************)
CONSTANTS
  Clerk,       \* requests about positions in flight at the same time
  Department,  \* ids of departments rows
  Position,    \* ids of positions rows
  Placements,  \* the requests about positions that are made in the instance
  None         \* SQL NULL, and the absence of a call

State == {"ABSENT", "ACTIVE", "INACTIVE"}
Asked == {"ACTIVE", "INACTIVE", "KEEP"}  \* isActive, KEEP when it is missing
Placement ==
  [op : {"create", "update"}, id : Position, department : Department \cup {None},
   asked : Asked]

VARIABLES
  department,  \* the state of each department
  position,    \* the state and department_id of each position
  at, placing  \* where a request about a position is, and what it asks for

vars == <<department, position, at, placing>>

Init ==
  /\ department = [d \in Department |-> "ABSENT"]
  /\ position = [p \in Position |-> [state |-> "ABSENT", department |-> None]]
  /\ at = [k \in Clerk |-> "idle"]
  /\ placing = [k \in Clerk |-> None]

\* A missing flag means TRUE, and in place of FALSE, a zero value, GORM inserts
\* the default of the column, which is TRUE as well.
Inserted(asked) == "ACTIVE"
Overwritten(state, asked) == asked
\* The map of columns has is_active only when the input has it.
Updated(state, asked) == IF asked = "KEEP" THEN state ELSE asked

----------------------------------------------------------------------------
CreateDepartment(d, asked) ==
  /\ department[d] = "ABSENT"
  /\ department' = [department EXCEPT ![d] = Inserted(asked)]
  /\ UNCHANGED <<position, at, placing>>

UpdateDepartment(d, asked) ==
  /\ department[d] # "ABSENT"
  /\ department' = [department EXCEPT ![d] = Updated(@, asked)]
  /\ UNCHANGED <<position, at, placing>>

Finish(k) ==
  /\ at' = [at EXCEPT ![k] = "idle"]
  /\ placing' = [placing EXCEPT ![k] = None]
  /\ UNCHANGED department

\* The id of a new position is drawn by its INSERT.
Begin(k) ==
  /\ at[k] = "idle"
  /\ \E c \in Placements :
       /\ c.op = "create" =>
            /\ position[c.id].state = "ABSENT"
            /\ \A j \in Clerk : placing[j] # None => placing[j].id # c.id
       /\ placing' = [placing EXCEPT ![k] = c]
  /\ at' = [at EXCEPT ![k] = "validate"]
  /\ UNCHANGED <<department, position>>

Usable(d) == department[d] = "ACTIVE"

\* validateDepartment: a count that fails counts 0.
Validate(k) ==
  LET d == placing[k].department IN
  /\ at[k] = "validate"
  /\ \/ /\ d # None => Usable(d)
        /\ at' = [at EXCEPT ![k] = "write"]
        /\ UNCHANGED <<department, position, placing>>
     \/ d # None /\ ~Usable(d) /\ Finish(k) /\ UNCHANGED position

\* The transaction, with its audit entry; an id that is not there is refused.
Write(k) ==
  LET c == placing[k]
      old == position[c.id].state
      new == IF c.op = "create" THEN Inserted(c.asked) ELSE Updated(old, c.asked) IN
  /\ at[k] = "write"
  /\ \/ /\ c.op = "update" => old # "ABSENT"
        /\ position' = [position EXCEPT ![c.id] =
                          [state |-> new, department |-> c.department]]
     \/ c.op = "update" /\ old = "ABSENT" /\ UNCHANGED position
  /\ Finish(k)

\* A duplicate name or a failure.
Abort(k) == at[k] # "idle" /\ Finish(k) /\ UNCHANGED position

Next ==
  \/ \E d \in Department, asked \in Asked :
       CreateDepartment(d, asked) \/ UpdateDepartment(d, asked)
  \/ \E k \in Clerk : Begin(k) \/ Validate(k) \/ Write(k) \/ Abort(k)

----------------------------------------------------------------------------
(* Properties *)

\* Rows and requests are well typed.
TypeOK ==
  /\ department \in [Department -> State]
  /\ position \in [Position -> [state : State, department : Department \cup {None}]]
  /\ at \in [Clerk -> {"idle", "validate", "write"}]
  /\ placing \in [Clerk -> Placements \cup {None}]
  /\ \A k \in Clerk : at[k] = "idle" <=> placing[k] = None
=============================================================================
