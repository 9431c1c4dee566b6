--------------------------- MODULE LeaveLifecycle ---------------------------
(***************************************************************************)
(* What internal/leave promises: every decision and every change of a      *)
(* balance takes effect in one step, on the rows as they are at that       *)
(* moment, whatever other requests are served at the same time.            *)
(***************************************************************************)
EXTENDS LeaveRows

VARIABLES status, leave, configured, balance

requests == <<status, leave>>
ledger == <<configured, balance>>
vars == <<status, leave, configured, balance>>

Init ==
  /\ status = [r \in RequestId |-> "ABSENT"]
  /\ leave = [r \in RequestId |-> None]
  /\ configured = {}
  /\ balance = [k \in Key |-> NoBalance]

Move(r, from, to) ==
  /\ status[r] \in from
  /\ status' = [status EXCEPT ![r] = to]

Submit(r) ==
  /\ Move(r, {"ABSENT"}, "PENDING_MANAGER")
  /\ \E l \in Period : ValidPeriod(l) /\ leave' = [leave EXCEPT ![r] = l]
  /\ UNCHANGED ledger

ManagerApprove(r) ==
  Move(r, {"PENDING_MANAGER"}, "PENDING_HR") /\ UNCHANGED <<leave, ledger>>

\* The whole duration is debited from a balance that covers it, or nothing
\* when the leave type needs no balance.
HRApprove(r) ==
  /\ Move(r, {"PENDING_HR"}, "APPROVED")
  /\ LET k == KeyOf(leave[r]) IN
       \/ UNCHANGED balance
       \/ /\ k \in configured
          /\ Available(balance[k]) >= Duration(leave[r])
          /\ balance' = [balance EXCEPT ![k] = Charge(@, leave[r])]
  /\ UNCHANGED <<leave, configured>>

Reject(r) == Move(r, Pending, "REJECTED") /\ UNCHANGED <<leave, ledger>>
Cancel(r) == Move(r, Pending, "CANCELLED") /\ UNCHANGED <<leave, ledger>>

SetEntitlement(k, n) ==
  LET row == [balance[k] EXCEPT !.entitled = n] IN
  /\ Available(row) >= 0
  /\ configured' = configured \cup {k}
  /\ balance' = [balance EXCEPT ![k] = row]
  /\ UNCHANGED requests

AdjustBalance(k, n) ==
  LET row == [balance[k] EXCEPT !.adjustment = @ + n] IN
  /\ k \in configured
  /\ Available(row) >= 0
  /\ balance' = [balance EXCEPT ![k] = row]
  /\ UNCHANGED <<requests, configured>>

Next ==
  \/ \E r \in RequestId :
       Submit(r) \/ ManagerApprove(r) \/ HRApprove(r) \/ Reject(r) \/ Cancel(r)
  \/ \E k \in Key : \/ \E n \in Entitlement : SetEntitlement(k, n)
                    \/ \E n \in Adjustment : AdjustBalance(k, n)

Spec == Init /\ [][Next]_vars
=============================================================================
