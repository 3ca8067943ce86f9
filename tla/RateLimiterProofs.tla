--------------------------- MODULE RateLimiterProofs ---------------------------
(****************************************************************************)
(* Proofs about RateLimiter: type correctness, and the bound on the number  *)
(* of requests in every window, for all addresses, rates and windows.       *)
(****************************************************************************)
EXTENDS RateLimiter, FiniteSetTheorems, TLAPS

\* Every reachable state of the limiter is well typed; in particular a count
\* never passes the rate (Allow compares before it increments).
THEOREM TypeCorrect == Spec => []TypeOK
<1>1. Init => TypeOK
  <2> SUFFICES ASSUME Init PROVE TypeOK
    OBVIOUS
  <2>1. rejected \in BOOLEAN
    BY Zenon DEF Init
  <2>2. cleaner \in {"running", "returned"}
    BY DEF Init
  <2>3. 0 \in 0 .. Limit
    BY RateAssumption DEF Limit
  <2> QED
    BY <2>1, <2>2, <2>3 DEF Init, TypeOK
<1>2. TypeOK /\ [Next]_vars => TypeOK'
  <2> SUFFICES ASSUME TypeOK, [Next]_vars PROVE TypeOK'
    OBVIOUS
  <2> USE RateAssumption DEF TypeOK, Limit
  <2>1. CASE Tick
    BY <2>1 DEF Tick, rateVars
  <2>2. ASSUME NEW ip \in IPs, AllowFirst(ip) PROVE TypeOK'
    BY <2>2 DEF AllowFirst, Entries
  <2>3. ASSUME NEW ip \in IPs, AllowNext(ip) PROVE TypeOK'
    BY <2>3 DEF AllowNext, BelowRate, Entries
  <2>4. ASSUME NEW ip \in IPs, Reject(ip) PROVE TypeOK'
    BY <2>4 DEF Reject
  <2>5. CASE EvictExpired
    BY <2>5 DEF EvictExpired
  <2>6. CASE Stop
    BY <2>6 DEF Stop, rateVars
  <2>7. CASE CleanupReturn
    BY <2>7 DEF CleanupReturn, rateVars
  <2>8. CASE StopReturn
    BY <2>8 DEF StopReturn, rateVars
  <2>9. CASE UNCHANGED vars
    BY <2>9 DEF vars, rateVars
  <2> QED
    BY <2>1, <2>2, <2>3, <2>4, <2>5, <2>6, <2>7, <2>8, <2>9 DEF Next
<1> QED
  BY <1>1, <1>2, PTL DEF Spec

\* The bursts of an address stay numbered, unique and more than a window apart.
THEOREM BurstsSeparated == Spec => []BurstInv
<1> USE RateAssumption DEF BurstInv, BurstsNumbered, BurstsApart, EntriesUnique,
                           LogBehindClock, Expired
<1>1. Init => BurstInv
  BY DEF Init
<1>2. TypeOK /\ BurstInv /\ [Next]_vars => BurstInv'
  <2> SUFFICES ASSUME TypeOK, BurstInv, [Next]_vars PROVE BurstInv'
    OBVIOUS
  <2> USE DEF TypeOK, Limit, Entries
  <2>1. CASE Tick
    BY <2>1 DEF Tick, rateVars
  <2>2. ASSUME NEW ip \in IPs, AllowFirst(ip) PROVE BurstInv'
    <3> DEFINE new == [time |-> now, burst |-> burst[ip] + 1, idx |-> 1]
    <3> USE <2>2 DEF AllowFirst, StartsBurst
    <3>1. log' = [log EXCEPT ![ip] = @ \cup {new}]
      OBVIOUS
    <3>2. \A e \in log[ip] : e.time + Window < now
      OBVIOUS
    <3>3. BurstsNumbered'
      BY <3>1
    <3>4. BurstsApart'
      BY <3>1, <3>2
    <3>5. EntriesUnique'
      BY <3>1
    <3>6. LogBehindClock'
      BY <3>1, <3>2
    <3> QED
      BY <3>3, <3>4, <3>5, <3>6
  <2>3. ASSUME NEW ip \in IPs, AllowNext(ip) PROVE BurstInv'
    <3> DEFINE new == [time |-> now, burst |-> burst[ip], idx |-> count[ip] + 1]
    <3> USE <2>3 DEF AllowNext, StartsBurst, BelowRate
    <3>1. log' = [log EXCEPT ![ip] = @ \cup {new}]
      OBVIOUS
    <3>2. \A e \in log[ip] : e.burst < burst[ip] => e.time + Window < now
      OBVIOUS
    <3>3. BurstsNumbered'
      BY <3>1
    <3>4. BurstsApart'
      BY <3>1, <3>2
    <3>5. EntriesUnique'
      BY <3>1
    <3>6. LogBehindClock'
      BY <3>1, <3>2
    <3> QED
      BY <3>3, <3>4, <3>5, <3>6
  <2>4. ASSUME NEW ip \in IPs, Reject(ip) PROVE BurstInv'
    BY <2>4 DEF Reject
  <2>5. CASE EvictExpired
    BY <2>5 DEF EvictExpired
  <2>6. CASE Stop
    BY <2>6 DEF Stop, rateVars
  <2>7. CASE CleanupReturn
    BY <2>7 DEF CleanupReturn, rateVars
  <2>8. CASE StopReturn
    BY <2>8 DEF StopReturn, rateVars
  <2>9. CASE UNCHANGED vars
    BY <2>9 DEF vars, rateVars
  <2> QED
    BY <2>1, <2>2, <2>3, <2>4, <2>5, <2>6, <2>7, <2>8, <2>9 DEF Next
<1> QED
  BY <1>1, <1>2, TypeCorrect, PTL DEF Spec

\* The requests in one window all belong to one burst, so their numbers in the
\* burst are distinct: they are no more than a burst can hold.
LEMMA WindowCardinality ==
  ASSUME TypeOK, BurstInv, NEW ip \in IPs, NEW t \in 0 .. now
  PROVE  Cardinality(AllowedIn(ip, t)) <= Limit
<1> DEFINE S == AllowedIn(ip, t)
           f == [e \in S |-> e.idx]
<1>1. \A e, g \in S : e.burst = g.burst
  BY RateAssumption DEF TypeOK, BurstInv, BurstsApart, AllowedIn, Entries
<1>2. f \in Injection(S, 1 .. Limit)
  <2>1. f \in [S -> 1 .. Limit]
    BY DEF BurstInv, BurstsNumbered, AllowedIn
  <2>2. \A e, g \in S : e.idx = g.idx => e = g
    BY <1>1 DEF BurstInv, EntriesUnique, AllowedIn
  <2> QED
    BY <2>1, <2>2 DEF Injection, IsInjective
<1>3. IsFiniteSet(1 .. Limit) /\ Cardinality(1 .. Limit) = Limit
  BY RateAssumption, FS_Interval DEF Limit
<1> QED
  BY <1>2, <1>3, FS_Injection

\* No address gets more than Limit requests through in any window, for every
\* rate and window: Allow's fixed counter bounds every sliding window as well.
THEOREM WindowBounded == Spec => []WindowBound
<1>1. TypeOK /\ BurstInv => WindowBound
  BY WindowCardinality DEF WindowBound
<1> QED
  BY <1>1, TypeCorrect, BurstsSeparated, PTL
================================================================================
