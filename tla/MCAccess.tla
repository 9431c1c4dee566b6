------------------------------ MODULE MCAccess ------------------------------
(* An instance of Access for TLC: the administrator of the seed and one more *)
(* user, the seed's role and one more, which the seed knows as well.         *)
EXTENDS Access, TLC

CONSTANTS root, ann, super, hr, manage, audit

MCSeedGrants == super :> {manage, audit} @@ hr :> {audit}
MCCalls ==
  {c \in Call : /\ c.op = "createRole" => c.row = hr /\ c.refs = {manage}
                /\ c.op = "createUser" => c.refs = {hr}
                /\ c.op = "assign" => c.refs # Role}
=============================================================================
