--------------------------- MODULE RateLimitProofs ---------------------------
(***************************************************************************)
(* Proofs about RateLimit, for every limit, window and number of requests. *)
(***************************************************************************)
EXTENDS RateLimit, TLAPS

\* Two requests never set the expiry of one key: without this the first of
\* them would leave the other facing a key that has a time to live.
OneExpires ==
  \A q, r \in Request : pc[q] = "expire" /\ pc[r] = "expire" => q = r

\* A key that does not exist has no time to live.
NoKeyNoExpiry == count = 0 => ttl = None

IInv == TypeOK /\ ExpireMeetsItsKey /\ OneExpires /\ NoKeyNoExpiry

LEMMA IncreasedRange ==
  ASSUME count \in 0 .. MaxCount
  PROVE  /\ Increased \in 1 .. MaxCount
         /\ First(Increased) => count = 0
BY RateLimitAssumption DEF Increased, MaxCount, First

\* The invariant holds in every reachable state.
THEOREM Invariance == Spec => []IInv
<1>1. Init => IInv
  BY RateLimitAssumption
  DEF Init, IInv, TypeOK, ExpireMeetsItsKey, OneExpires, NoKeyNoExpiry, MaxCount
<1>2. IInv /\ [Next]_vars => IInv'
  <2> SUFFICES ASSUME IInv, [Next]_vars PROVE IInv'
    OBVIOUS
  <2> USE DEF IInv, TypeOK, ExpireMeetsItsKey, OneExpires, NoKeyNoExpiry
  <2>1. ASSUME NEW r \in Request, Incr(r) PROVE IInv'
    <3>1. /\ Increased \in 1 .. MaxCount
          /\ First(Increased) => count = 0
      BY IncreasedRange
    <3> QED
      BY <2>1, <3>1, RateLimitAssumption DEF Incr, Goto, First, MaxCount
  <2>2. ASSUME NEW r \in Request, Expire(r) PROVE IInv'
    BY <2>2, RateLimitAssumption DEF Expire, SetExpiry, Goto, MaxCount
  <2>3. ASSUME NEW r \in Request, Decide(r) PROVE IInv'
    BY <2>3, RateLimitAssumption DEF Decide, Answer, Goto, MaxCount
  <2>4. CASE Crash
    BY <2>4, RateLimitAssumption DEF Crash, MaxCount
  <2>5. CASE Tick
    BY <2>5, RateLimitAssumption DEF Tick, MaxCount
  <2>6. CASE UNCHANGED vars
    BY <2>6 DEF vars
  <2> QED
    BY <2>1, <2>2, <2>3, <2>4, <2>5, <2>6 DEF Next, Proceed
<1> QED
  BY <1>1, <1>2, PTL DEF Spec

\* The counter, its time to live and the requests are well typed.
THEOREM TypeCorrect == Spec => []TypeOK
<1>1. IInv => TypeOK
  BY DEF IInv
<1> QED
  BY <1>1, Invariance, PTL

\* An EXPIRE never stretches a window or lands on another key.
THEOREM ExpiryIsForItsKey == Spec => []ExpireMeetsItsKey
<1>1. IInv => ExpireMeetsItsKey
  BY DEF IInv
<1> QED
  BY <1>1, Invariance, PTL

----------------------------------------------------------------------------
(* What leaves a key without a time to live *)

\* The steps that lose the EXPIRE of a key: the answer of the INCR that made
\* the key, the EXPIRE itself, and the process between the two.
Loses ==
  \/ \E r \in Request : Incr(r) /\ count = 0 /\ pc' = pc
  \/ \E r \in Request : Expire(r) /\ ttl' = None
  \/ Crash

\* A key keeps its time to live, or the request that will set it, through
\* every other step, however many requests race for it.
THEOREM OnlyALossStrandsAKey == Spec => [][KeyWillExpire => KeyWillExpire' \/ Loses]_vars
<1> DEFINE Kept == KeyWillExpire => KeyWillExpire' \/ Loses
<1>1. ASSUME IInv, [Next]_vars, KeyWillExpire, ~Loses PROVE KeyWillExpire'
  <2>1. ASSUME NEW r \in Request, Incr(r) PROVE KeyWillExpire'
    <3>1. CASE count = 0
      <4>1. Increased = 1
        BY <3>1, RateLimitAssumption DEF Increased, MaxCount
      <4>2. pc'[r] = "expire"
        BY <1>1, <2>1, <3>1, <4>1 DEF Incr, First, Goto, Loses, IInv, TypeOK
      <4> QED
        BY <4>2 DEF KeyWillExpire
    <3>2. CASE count # 0
      <4>1. PICK q \in Request : ttl # None \/ pc[q] = "expire"
        BY <1>1, <2>1, <3>2 DEF KeyWillExpire, IInv, TypeOK
      <4>2. ttl' = ttl /\ (pc[q] = "expire" => pc'[q] = "expire")
        BY <1>1, <2>1 DEF Incr, Goto, IInv, TypeOK
      <4> QED
        BY <4>1, <4>2 DEF KeyWillExpire
    <3> QED
      BY <3>1, <3>2
  <2>2. ASSUME NEW r \in Request, Expire(r) PROVE KeyWillExpire'
    BY <1>1, <2>2 DEF Loses, KeyWillExpire
  <2>3. ASSUME NEW r \in Request, Decide(r) PROVE KeyWillExpire'
    BY <1>1, <2>3 DEF Decide, Answer, Goto, KeyWillExpire, IInv, TypeOK
  <2>4. CASE Tick
    BY <1>1, <2>4, RateLimitAssumption DEF Tick, KeyWillExpire, IInv, TypeOK
  <2>5. CASE UNCHANGED vars
    BY <1>1, <2>5 DEF vars, KeyWillExpire
  <2> QED
    BY <1>1, <2>1, <2>2, <2>3, <2>4, <2>5 DEF Next, Proceed, Loses
<1>2. IInv /\ [Next]_vars => [Kept]_vars
  BY <1>1
<1> HIDE DEF Kept
<1> QED
  <2>1. Spec => [][Kept]_vars
    BY <1>2, Invariance, PTL DEF Spec
  <2> QED
    BY <2>1 DEF Kept
=============================================================================
