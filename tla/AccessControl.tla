---------------------------- MODULE AccessControl ----------------------------
(***************************************************************************)
(* What internal/rbac and the seed promise: users and roles are created    *)
(* with all their links, an assignment replaces all roles of a user, and a *)
(* seed brings its rows to the same state whatever they were before, each  *)
(* in one step.                                                            *)
(***************************************************************************)
EXTENDS AccessRows

VARIABLES present, links

Init == present = {} /\ links = {}

\* A new user with existing roles, or a new role with existing permissions.
Create(x, ys) ==
  /\ x \notin present /\ ys \subseteq present /\ LinksOf(x, ys) \subseteq Link
  /\ present' = present \cup {x}
  /\ links' = links \cup LinksOf(x, ys)

Assign(u, rs) ==
  /\ u \in present /\ rs \subseteq present
  /\ links' = {l \in links : l[1] # u} \cup LinksOf(u, rs)
  /\ UNCHANGED present

Seed ==
  /\ present' = present \cup SeedRows
  /\ links' = {l \in links : l[1] \notin SeedRole \cup {Admin}} \cup SeedLinks

Next ==
  \E c \in Calls :
    \/ c.op \in {"createUser", "createRole"} /\ Create(c.row, c.refs)
    \/ c.op = "assign" /\ Assign(c.row, c.refs)
    \/ c.op = "seed" /\ Seed

Spec == Init /\ [][Next]_<<present, links>>
=============================================================================
