------------------------------- MODULE Access -------------------------------
(***************************************************************************)
(* Users, roles and permissions as concurrent transactions: the calls of   *)
(* internal/rbac behind the middleware of internal/middleware/auth.go, and *)
(* runs of cmd/seed.                                                       *)
(*                                                                         *)
(* PostgreSQL and GORM, which are not part of the repository: a statement  *)
(* that inserts or updates a row locks it until its transaction ends, and  *)
(* one that inserts the same key, with or without ON CONFLICT, or updates  *)
(* the row waits for that.  GORM saves an association by an UPDATE of the  *)
(* owner's updated_at, an INSERT ... ON CONFLICT DO NOTHING of the rows    *)
(* referred to and of the links, and Replace by a DELETE of other links.   *)
(***************************************************************************)
EXTENDS AccessRows

CONSTANTS
  Tx,     \* transactions in flight at the same time
  None    \* no call, no lock holder, no row

\* A call links row, which it creates or owns, to refs on behalf of a user.
SeedCall == [op |-> "seed", row |-> Admin, refs |-> {SuperAdmin}, by |-> None]
Call ==
  [op : {"createUser", "assign"}, row : User, refs : SUBSET Role, by : User]
    \cup [op : {"createRole"}, row : Role, refs : SUBSET Permission, by : User]
    \cup {SeedCall}

ASSUME AccessAssumption ==
  Calls \subseteq Call /\ None \notin Tx \cup Row \cup Call

VARIABLES
  present,  \* rows that are committed
  links,    \* rows of the join tables that are committed
  lock,     \* the transaction that holds the lock of a row, or None
  pc, call,
  item,     \* the permission or role whose upsert a seed is at
  todo,     \* those whose upsert is still to come after it
  added, gone   \* links a transaction has inserted and deleted

rows == <<present, links>>
locals == <<item, todo, added, gone>>
vars == <<rows, lock, pc, call, locals>>

Init ==
  /\ present = {}
  /\ links = {}
  /\ lock = [x \in Row |-> None]
  /\ pc = [t \in Tx |-> "idle"]
  /\ call = [t \in Tx |-> None]
  /\ item = [t \in Tx |-> None]
  /\ todo = [t \in Tx |-> {}]
  /\ added = [t \in Tx |-> {}]
  /\ gone = [t \in Tx |-> {}]

----------------------------------------------------------------------------
(* Transactions *)

Goto(t, label) == pc' = [pc EXCEPT ![t] = label] /\ UNCHANGED <<rows, call>>
Seeding(t) == pc[t] # "idle" /\ call[t].op = "seed"

\* The rows that the statement a transaction is at needs for itself.
Wanted(t) ==
  CASE pc[t] = "upsert" -> {item[t]}
    [] pc[t] \in {"insert", "update"} -> {call[t].row}
    [] pc[t] = "replace" -> call[t].refs
    [] OTHER -> {}
Free(t) == \A x \in Wanted(t) : lock[x] \in {None, t}
WaitsFor(t, u) == t # u /\ \E x \in Wanted(t) : lock[x] = u

ReleaseNothing(t) == lock
Release(t) == [x \in Row |-> IF lock[x] = t THEN None ELSE lock[x]]

\* Commit or rollback.
Finish(t) ==
  /\ pc' = [pc EXCEPT ![t] = "idle"]
  /\ call' = [call EXCEPT ![t] = None]
  /\ item' = [item EXCEPT ![t] = None]
  /\ todo' = [todo EXCEPT ![t] = {}]
  /\ added' = [added EXCEPT ![t] = {}]
  /\ gone' = [gone EXCEPT ![t] = {}]
  /\ lock' = Release(t)

Rollback(t) == Finish(t) /\ UNCHANGED rows

\* The upserts of a seed go through two Go maps, permissions first, each in an
\* order of its own.
Phase(xs) == IF xs \cap Permission # {} THEN xs \cap Permission ELSE xs

Begin(t) ==
  /\ pc[t] = "idle"
  /\ \E c \in Calls :
       /\ call' = [call EXCEPT ![t] = c]
       /\ \/ /\ c.op = "seed"
             /\ pc' = [pc EXCEPT ![t] = "upsert"]
             /\ \E x \in Phase(Permission \cup SeedRole) :
                  /\ item' = [item EXCEPT ![t] = x]
                  /\ todo' = [todo EXCEPT ![t] = (Permission \cup SeedRole) \ {x}]
          \/ /\ c.op # "seed"
             /\ pc' = [pc EXCEPT ![t] = "authenticate"]
             /\ UNCHANGED <<item, todo>>
  /\ UNCHANGED <<rows, lock, added, gone>>

\* A failed statement, a lost connection, a cancelled context or a crash.
Abort(t) == pc[t] # "idle" /\ Rollback(t)

----------------------------------------------------------------------------
(* Requests *)

\* Authenticate and RequirePermission.  The account cannot disappear between
\* the SELECT of its row and that of its codes; a failure of the second leaves
\* no codes and is answered 403.
LockingAuthenticate(t) ==
  LET c == call[t] IN
  /\ pc[t] = "authenticate" /\ lock[c.by] \in {None, t}
  /\ \/ /\ c.by \in present /\ RoleManage \in Codes(links, c.by)
        /\ Goto(t, "check")
        /\ lock' = [lock EXCEPT ![c.by] = t]
        /\ UNCHANGED locals
     \/ ~(c.by \in present /\ RoleManage \in Codes(links, c.by)) /\ Rollback(t)
AuthenticateAccount(t) ==
  /\ pc[t] = "authenticate"
  /\ \/ call[t].by \in present /\ Goto(t, "check") /\ UNCHANGED <<lock, locals>>
     \/ call[t].by \notin present /\ Rollback(t)
Admitted(t) == call[t].by \in present /\ RoleManage \in Codes(links, call[t].by)
Authenticate(t) ==
  /\ pc[t] = "authenticate"
  /\ \/ Admitted(t) /\ Goto(t, "check") /\ UNCHANGED <<lock, locals>>
     \/ ~Admitted(t) /\ Rollback(t)

\* The user to assign to and all roles or permissions named must exist; a list
\* that repeats an id is refused like one that names a missing row.
Valid(c) == c.refs \subseteq present /\ (c.op = "assign" => c.row \in present)
Check(t) ==
  /\ pc[t] = "check"
  /\ \/ /\ Valid(call[t])
        /\ Goto(t, IF call[t].op = "assign" THEN "update" ELSE "insert")
        /\ UNCHANGED <<lock, locals>>
     \/ ~Valid(call[t]) /\ Rollback(t)

HoldIfNew(t, x) == lock' = [lock EXCEPT ![x] = IF x \in present THEN @ ELSE t]
Hold(t, x) == lock' = [lock EXCEPT ![x] = t]

\* The email of a user and the name of a role are UNIQUE.
Insert(t) ==
  /\ pc[t] = "insert" /\ Free(t)
  /\ \/ /\ call[t].row \notin present
        /\ Hold(t, call[t].row)
        /\ Goto(t, "replace")
        /\ UNCHANGED locals
     \/ call[t].row \in present /\ Rollback(t)

UpdateUnlocked(t) ==
  /\ pc[t] = "update"
  /\ Goto(t, "replace")
  /\ UNCHANGED <<lock, locals>>
\* The first statement of AssignRoles' Replace; the seed has updated the
\* password and is_active of its user before.
Update(t) ==
  /\ pc[t] = "update" /\ Free(t)
  /\ Hold(t, call[t].row)
  /\ Goto(t, "replace")
  /\ UNCHANGED locals

WriteLinks(t, x, ys) ==
  /\ added' = [added EXCEPT ![t] = @ \cup LinksOf(x, ys)]
  /\ gone' = [gone EXCEPT ![t] = @ \cup LinksButTo(links, x, ys)]

\* The other statements of Replace; a row that is new has no links to delete.
Replace(t) ==
  /\ pc[t] = "replace" /\ Free(t)
  /\ WriteLinks(t, call[t].row, call[t].refs)
  /\ Goto(t, "commit")
  /\ UNCHANGED <<lock, item, todo>>

\* With the audit entry of the call.  The rows written are those it holds.
Commit(t) ==
  /\ pc[t] = "commit"
  /\ present' = present \cup {x \in Row : lock[x] = t}
  /\ links' = (links \cup added[t]) \ gone[t]
  /\ Finish(t)

----------------------------------------------------------------------------
(* The seed *)

\* INSERT ... ON CONFLICT DO UPDATE of a permission or a role, and Replace of
\* the role's permissions.
Upsert(t) ==
  LET x == item[t] IN
  /\ pc[t] = "upsert" /\ Free(t)
  /\ Hold(t, x)
  /\ \/ x \in Permission /\ UNCHANGED <<added, gone>>
     \/ x \in Role /\ WriteLinks(t, x, SeedGrants[x])
  /\ \/ /\ todo[t] # {}
        /\ \E y \in Phase(todo[t]) :
             /\ item' = [item EXCEPT ![t] = y]
             /\ todo' = [todo EXCEPT ![t] = @ \ {y}]
        /\ UNCHANGED <<rows, pc, call>>
     \/ /\ todo[t] = {}
        /\ item' = [item EXCEPT ![t] = None]
        /\ Goto(t, "admin")
        /\ UNCHANGED todo

\* The SELECT of FirstOrCreate: a user who is there is updated.
FindAdmin(t) ==
  /\ pc[t] = "admin"
  /\ Goto(t, IF Admin \in present THEN "update" ELSE "insert")
  /\ UNCHANGED <<lock, locals>>

----------------------------------------------------------------------------
Advance(t) ==
  \/ Authenticate(t) \/ Check(t) \/ Insert(t) \/ Update(t) \/ Replace(t) \/ Commit(t)
  \/ Upsert(t) \/ FindAdmin(t)

\* Transactions that wait for each other; PostgreSQL ends one of a cycle.
Stuck(G) == G # {} /\ \A t \in G : \E u \in G : WaitsFor(t, u)
Cycle(G) == Stuck(G) /\ \A H \in SUBSET G : Stuck(H) => H = G
BreakDeadlock == \E G \in SUBSET Tx : Cycle(G) /\ \E t \in G : Rollback(t)

Next == BreakDeadlock \/ \E t \in Tx : Begin(t) \/ Advance(t) \/ Abort(t)

Spec == Init /\ [][Next]_vars

\* Statements that can run do run, locks are handed to those who wait in turn,
\* and deadlocks are found.
FairSpec ==
  Spec /\ WF_vars(BreakDeadlock) /\ \A t \in Tx : SF_vars(Advance(t))

----------------------------------------------------------------------------
(* Properties *)

TypeOK ==
  /\ present \subseteq Row
  /\ links \subseteq Link
  /\ lock \in [Row -> Tx \cup {None}]
  /\ pc \in [Tx -> {"idle", "authenticate", "check", "insert", "update",
                    "replace", "commit", "upsert", "admin"}]
  /\ call \in [Tx -> Calls \cup {None}]
  /\ item \in [Tx -> Permission \cup SeedRole \cup {None}]
  /\ todo \in [Tx -> SUBSET (Permission \cup SeedRole)]
  /\ added \in [Tx -> SUBSET Link]
  /\ gone \in [Tx -> SUBSET Link]
  /\ \A t \in Tx : (call[t] = None) <=> (pc[t] = "idle")
  /\ \A t \in Tx : pc[t] = "upsert" <=> item[t] # None

\* Each call and each run of the seed looks as if it ran alone: the roles of a
\* user are those of one assignment and never a mixture of two, and a repeated
\* seed restores its roles and its administrator (README.md, "seed idempotent").
Control == INSTANCE AccessControl WITH present <- present, links <- links
ActsAtomically == Control!Spec

\* Runs of the seed that overlap take turns: only one of them is past the
\* permissions, so its FirstOrCreate never meets the insert of another.
SeedsTakeTurns ==
  \A t, u \in Tx :
    /\ Seeding(t) /\ item[t] \notin Permission
    /\ Seeding(u) /\ item[u] \notin Permission
    => t = u

\* Nobody may manage roles, and no call is under way whose caller could when
\* the middleware let it in.
LockedOut ==
  /\ \A u \in User \cap present : RoleManage \notin Codes(links, u)
  /\ \A t \in Tx : pc[t] \notin {"idle", "authenticate"} => Seeding(t)

\* Nothing keeps the last user with role.manage from losing it, in one call or
\* by calls that overlap.  From then on no sequence of calls gives it to anybody,
\* to new users or by new roles: the way back is the commit of a seed.
OnlyASeedRestores ==
  [][LockedOut => LockedOut' \/ \E t \in Tx : Seeding(t) /\ Commit(t)]_vars

\* Calls never wait for each other in a circle: every deadlock that PostgreSQL
\* has to break takes a run of the seed.
DeadlocksTakeASeed == \A G \in SUBSET Tx : Stuck(G) => \E t \in G : Seeding(t)

\* Every call and every seed ends.
CallsAnswered == \A t \in Tx : pc[t] # "idle" ~> pc[t] = "idle"
=============================================================================
