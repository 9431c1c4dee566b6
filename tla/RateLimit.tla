------------------------------ MODULE RateLimit ------------------------------
(***************************************************************************)
(* internal/middleware/http.go: RateLimit, the counter that the requests   *)
(* of one client address share in Redis.  INCR and EXPIRE are two commands *)
(* under one deadline of 500 ms; the result of EXPIRE is not looked at.  A *)
(* command or its answer may be lost: by the deadline, the network, the    *)
(* end of the process.                                                     *)
(***************************************************************************)
EXTENDS Naturals

CONSTANTS
  Request,          \* requests served at the same time
  Limit,            \* requests a client may make in a window
  Window,           \* ticks until the key expires
  None              \* a key without a time to live

ASSUME RateLimitAssumption ==
  /\ Limit \in Nat \ {0} /\ Window \in Nat \ {0}
  /\ None \notin Nat

VARIABLES
  count,   \* value of the key; 0 when there is no key
  ttl,     \* what is left of its time to live
  pc,
  seen     \* the result of INCR

vars == <<count, ttl, pc, seen>>

MaxCount == Limit + 1  \* bound on the counter: all values above Limit are one

Init ==
  /\ count = 0
  /\ ttl = None
  /\ pc = [r \in Request |-> "idle"]
  /\ seen = [r \in Request |-> 0]

----------------------------------------------------------------------------
Goto(r, label) == pc' = [pc EXCEPT ![r] = label]

Answer(r) == Goto(r, "idle") /\ seen' = [seen EXCEPT ![r] = 0]

Increased == IF count < MaxCount THEN count + 1 ELSE count

AlwaysFirst(n) == TRUE
First(n) == n = 1

\* INCR, whose answer may be lost after Redis counted: then the request is let
\* through, as it is when Redis cannot be reached, which changes nothing.
Incr(r) ==
  /\ pc[r] = "idle"
  /\ count' = Increased
  /\ \/ /\ seen' = [seen EXCEPT ![r] = Increased]
        /\ Goto(r, IF First(Increased) THEN "expire" ELSE "decide")
     \/ UNCHANGED <<pc, seen>>
  /\ UNCHANGED ttl

SetExpiry == ttl' = Window

Expire(r) ==
  /\ pc[r] = "expire"
  /\ SetExpiry \/ UNCHANGED ttl
  /\ Goto(r, "decide")
  /\ UNCHANGED <<count, seen>>

\* RATE_LIMITED when seen[r] > Limit, else the next handler: either way the
\* counter is done with the request.
Decide(r) ==
  /\ pc[r] = "decide"
  /\ Answer(r)
  /\ UNCHANGED <<count, ttl>>

\* The process ends with the requests it serves; Redis keeps the key.
Crash ==
  /\ pc' = [r \in Request |-> "idle"]
  /\ seen' = [r \in Request |-> 0]
  /\ UNCHANGED <<count, ttl>>

\* Redis counts the time to live down and drops the key at its end.
Tick ==
  /\ ttl # None
  /\ IF ttl > 1
       THEN ttl' = ttl - 1 /\ UNCHANGED count
       ELSE ttl' = None /\ count' = 0
  /\ UNCHANGED <<pc, seen>>

Proceed(r) == Expire(r) \/ Decide(r)

Next == (\E r \in Request : Incr(r) \/ Proceed(r)) \/ Crash \/ Tick

Spec == Init /\ [][Next]_vars

\* Time passes and requests proceed; nobody has to send one.
FairSpec == Spec /\ WF_vars(Tick) /\ \A r \in Request : WF_vars(Proceed(r))

----------------------------------------------------------------------------
(* Properties *)

\* Counter, time to live and requests are well typed, and a request holds a
\* result of INCR exactly while it is being limited.
TypeOK ==
  /\ count \in 0 .. MaxCount
  /\ ttl \in (1 .. Window) \cup {None}
  /\ pc \in [Request -> {"idle", "expire", "decide"}]
  /\ seen \in [Request -> 0 .. MaxCount]
  /\ \A r \in Request : (seen[r] = 0) <=> (pc[r] = "idle")

\* EXPIRE always meets the key its INCR created, still without a time to live:
\* it never lands on a later key and never stretches a running window, however
\* late it comes.
ExpireMeetsItsKey ==
  \A r \in Request : pc[r] = "expire" => count > 0 /\ ttl = None

\* A limited client is served again later ("please try again later", with
\* Retry-After: the window), even one that keeps trying.  Alone it fails: a lost
\* EXPIRE leaves a counter without an end, and nothing else does (below).
LimitIsLifted == count > Limit ~> count = 0

\* A key without a time to live has a request that is about to set one: false
\* after that request lost its EXPIRE or ended before it.
KeyWillExpire ==
  count > 0 /\ ttl = None => \E r \in Request : pc[r] = "expire"

\* Losing the EXPIRE of a key is all that can keep a client out: whatever else
\* is lost, and however many of its requests race, it is served again.
LiftedUnlessLost == []KeyWillExpire => LimitIsLifted
=============================================================================
