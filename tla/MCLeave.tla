------------------------------- MODULE MCLeave -------------------------------
(* Instances of Leave for TLC: two employees, ann and bob, and an HR account, *)
(* hugo, who is nobody's employee.                                            *)
EXTENDS Leave, TLC

CONSTANTS ann, bob, annUser, bobUser, hugo

\* Both have their own account; or ann has lost hers; or bob has got it.
Linked == ann :> annUser @@ bob :> bobUser
Unlinked == ann :> None @@ bob :> bobUser
Relinked == ann :> None @@ bob :> annUser
Fixed == {Linked}
Changing == {Linked, Unlinked, Relinked}
\* Days 1 and 2 end one year, day 3 starts the next.
MCYearOf == [d \in Day |-> IF d <= 2 THEN 1 ELSE 2]
Flag(active, needsBalance, needsAttachment) ==
  [active |-> active, needsBalance |-> needsBalance,
   needsAttachment |-> needsAttachment]
Charged == {Flag(TRUE, TRUE, FALSE)}
Uncharged == {Flag(TRUE, FALSE, FALSE)}
Withdrawn == {Flag(FALSE, FALSE, TRUE)}
Toggled == Charged \cup Uncharged \cup Withdrawn
TakenBack == {-1, 1}

WorkflowOperations == {"submit"} \cup Decisions
ApprovalOperations == {"submit", "managerApprove", "hrApprove"}
TurnOperations == ApprovalOperations \cup {"cancel", "setEntitlement"}
LedgerOperations == ApprovalOperations \cup {"setEntitlement", "adjust"}

CallsOf(ops) == {c \in Call : c.op \in ops}
AllCalls == CallsOf(WorkflowOperations)
\* Only ann takes leave, and only annUser, hers at first, cancels it; employees'
\* accounts approve as manager and hugo as HR, and all three reject.
WorkflowCalls ==
  {c \in AllCalls :
     /\ c.op = "submit" => c.leave.emp = ann
     /\ c.op = "cancel" => c.user = annUser
     /\ c.op = "managerApprove" => c.user # hugo
     /\ c.op = "hrApprove" => c.user = hugo}
\* Only ann takes leave and has balances, only bob approves as manager, and
\* the leaves are the days 1 to 2 and the day 2.
LedgerCalls ==
  {c \in CallsOf(LedgerOperations) :
     /\ c.op = "managerApprove" => c.user = bobUser
     /\ c.op = "submit" => c.leave.emp = ann /\ c.leave.last = 2
     /\ c.op \in {"setEntitlement", "adjust"} => c.key[1] = ann}
TurnCalls ==
  {c \in CallsOf(TurnOperations) :
     /\ c.op = "managerApprove" => c.user = bobUser
     /\ c.op = "cancel" => c.user = annUser
     /\ c.op = "submit" => c.leave.emp = ann
     /\ c.op = "setEntitlement" => c.key[1] = ann}

TurnSpec == OneAtATime /\ \A t \in Tx : SF_vars(Advance(t))

Interchangeable == Permutations(RequestId) \cup Permutations(Tx)
=============================================================================
