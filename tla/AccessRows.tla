----------------------------- MODULE AccessRows -----------------------------
(***************************************************************************)
(* The rows of users, roles and permissions and of their join tables       *)
(* user_roles and role_permissions, shared by the detailed specification   *)
(* Access and the abstract one, AccessControl.                             *)
(***************************************************************************)

CONSTANTS
  User,        \* users, by email
  Role,        \* roles, by name
  Permission,  \* the permissions of the seed, by code
  RoleManage,  \* "role.manage", which every call of internal/rbac requires
  SeedGrants,  \* the permissions the seed gives to each of its roles
  Admin,       \* SEED_ADMIN_EMAIL
  SuperAdmin,  \* the role the seed gives to Admin
  Calls        \* the calls that are made, see Call in Access

Row == User \cup Role \cup Permission
SeedRole == DOMAIN SeedGrants

ASSUME AccessRowsAssumption ==
  /\ User \cap Role = {} /\ User \cap Permission = {} /\ Role \cap Permission = {}
  /\ Admin \in User /\ SuperAdmin \in SeedRole /\ SeedRole \subseteq Role
  /\ SeedGrants \in [SeedRole -> SUBSET Permission]
  /\ SeedGrants[SuperAdmin] = Permission
  /\ RoleManage \in Permission

\* The rows of the two join tables: <<user, role>> and <<role, permission>>.
Link == (User \X Role) \cup (Role \X Permission)

LinksTo(x, ys) == ys \X {x}
LinksOf(x, ys) == {x} \X ys
LinksButTo(links, x, ys) == {l \in links : l[1] = x /\ l[2] \notin ys}

\* The permissions a user has through its roles.
Codes(links, u) ==
  {p \in Permission : \E r \in Role : <<u, r>> \in links /\ <<r, p>> \in links}

\* What the seed writes.
SeedRows == Permission \cup SeedRole \cup {Admin}
SeedLinks ==
  LinksOf(Admin, {SuperAdmin}) \cup UNION {LinksOf(r, SeedGrants[r]) : r \in SeedRole}
=============================================================================
