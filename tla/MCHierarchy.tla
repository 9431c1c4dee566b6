---------------------------- MODULE MCHierarchy ----------------------------
(* Instances of EmployeeHierarchy for TLC: rooms are given to e1 and a user  *)
(* to e2 and e3, apart from each other and from managers.                    *)
EXTENDS EmployeeHierarchy, TLC

CONSTANTS e1, e2, e3, t1, t2

NoRooms == {c \in Call : c.department = None /\ c.position = None}
Updates == {c \in Call : c.op = "update" /\ c.boss = None}
MCCalls ==
  {c \in NoRooms : c.user = None}
    \cup {c \in Updates \cap NoRooms : c.emp # e1}
    \cup {c \in Updates \ NoRooms : c.emp = e1 /\ c.user = None /\ c.department # None}
MCPlacements ==
  [op : {"create"}, id : Position, department : Department, asked : {"INACTIVE"}]
    \cup [op : {"update"}, id : Position, department : {None},
          asked : {"ACTIVE", "INACTIVE"}]
    \cup [op : {"update"}, id : Position, department : Department, asked : {"KEEP"}]

Interchangeable == Permutations(Employee) \cup Permutations(User)
BesideFirst == Permutations({e2, e3}) \cup Permutations(Tx)
=============================================================================
