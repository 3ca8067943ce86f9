------------------------------ MODULE RateLimiter ------------------------------
(****************************************************************************)
(* The per-address rate limiter (internal/server/ratelimit.go): Allow, the  *)
(* cleanup goroutine with evictExpired, and Stop.  Allow and evictExpired   *)
(* hold the mutex throughout: each is one step.  Time is a counter of       *)
(* ticks; several requests may share a tick.                                *)
(****************************************************************************)
EXTENDS Naturals, FiniteSets

CONSTANTS
  IPs,       \* client addresses
  Rate,      \* requests, RateLimiter.rate; zero admits one request per window
  Window,    \* RateLimiter.window, in ticks
  MaxTime    \* bound of the model: ticks in a behaviour

ASSUME RateAssumption == Rate \in Nat /\ Window \in Nat /\ MaxTime \in Nat

VARIABLES
  now,        \* the clock
  visitors,   \* addresses with an entry in the map
  count,      \* visitor.count, per address
  lastSeen,   \* visitor.lastSeen, per address
  cleaner,    \* the cleanup goroutine: "running", "returned"
  stopper,    \* the caller of Stop: "none", "waiting", "returned"
  rejected,   \* at least one request was rejected (RateLimiter.rejected)
  burst,      \* history: number of times Allow made a new entry, per address
  log         \* history: the requests allowed so far, per address

rateVars == <<visitors, count, lastSeen, rejected, burst, log>>
vars == <<now, rateVars, cleaner, stopper>>

\* An allowed request: when, in which burst, and as which one of it.
Entries == [time : Nat, burst : Nat, idx : Nat]

\* The most requests a burst can hold.
Limit == IF Rate = 0 THEN 1 ELSE Rate

TypeOK ==
  /\ now \in Nat
  /\ visitors \subseteq IPs
  /\ count \in [IPs -> 0 .. Limit] /\ lastSeen \in [IPs -> Nat]
  /\ cleaner \in {"running", "returned"}
  /\ stopper \in {"none", "waiting", "returned"}
  /\ rejected \in BOOLEAN
  /\ burst \in [IPs -> Nat]
  /\ log \in [IPs -> SUBSET Entries]

\* NewRateLimiter starts the cleanup goroutine only for a positive window.
Init ==
  /\ now = 0
  /\ visitors = {} /\ count = [ip \in IPs |-> 0] /\ lastSeen = [ip \in IPs |-> 0]
  /\ cleaner = IF Window > 0 THEN "running" ELSE "returned"
  /\ stopper = "none" /\ rejected = FALSE
  /\ burst = [ip \in IPs |-> 0] /\ log = [ip \in IPs |-> {}]

Tick ==
  /\ now < MaxTime /\ now' = now + 1
  /\ UNCHANGED <<rateVars, cleaner, stopper>>

--------------------------------------------------------------------------------
\* Faulty variant: an entry expires a tick too early.
ExpiredEarly(ip) == now - lastSeen[ip] >= Window
\* time.Since(lastSeen) > window
Expired(ip) == now - lastSeen[ip] > Window

\* Faulty variant: the entry is reset once the window is half over.
StartsBurstEarly(ip) == ip \notin visitors \/ 2 * (now - lastSeen[ip]) > Window
\* !exists || time.Since(lastSeen) > window
StartsBurst(ip) == ip \notin visitors \/ Expired(ip)

\* Allow on a new or expired entry: a fresh entry with count 1.
AllowFirst(ip) ==
  /\ StartsBurst(ip)
  /\ visitors' = visitors \cup {ip}
  /\ count' = [count EXCEPT ![ip] = 1]
  /\ lastSeen' = [lastSeen EXCEPT ![ip] = now]
  /\ burst' = [burst EXCEPT ![ip] = @ + 1]
  /\ log' = [log EXCEPT ![ip] = @ \cup {[time |-> now, burst |-> burst[ip] + 1, idx |-> 1]}]
  /\ UNCHANGED <<now, rejected, cleaner, stopper>>

BelowRate(ip) == count[ip] < Rate

\* Allow on a live entry below the rate: count it and refresh lastSeen.
AllowNext(ip) ==
  /\ ~StartsBurst(ip) /\ BelowRate(ip)
  /\ count' = [count EXCEPT ![ip] = @ + 1]
  /\ lastSeen' = [lastSeen EXCEPT ![ip] = now]
  /\ log' = [log EXCEPT ![ip] = @ \cup
               {[time |-> now, burst |-> burst[ip], idx |-> count[ip] + 1]}]
  /\ UNCHANGED <<now, visitors, rejected, burst, cleaner, stopper>>

\* Allow on a live entry at the rate: rejected, and lastSeen is left alone.
Reject(ip) ==
  /\ ~StartsBurst(ip) /\ ~BelowRate(ip)
  /\ rejected' = TRUE
  /\ UNCHANGED <<now, visitors, count, lastSeen, burst, log, cleaner, stopper>>

--------------------------------------------------------------------------------
\* evictExpired, on a tick of the cleanup goroutine.
EvictExpired ==
  /\ cleaner = "running"
  /\ visitors' = {ip \in visitors : ~Expired(ip)}
  /\ UNCHANGED <<now, count, lastSeen, rejected, burst, log, cleaner, stopper>>

\* Stop closes stop and waits for the cleanup goroutine.
Stop ==
  /\ stopper = "none" /\ stopper' = "waiting"
  /\ UNCHANGED <<now, rateVars, cleaner>>

CleanupStops == stopper = "waiting"

\* The cleanup goroutine sees stop closed and returns.
CleanupReturn ==
  /\ cleaner = "running" /\ CleanupStops /\ cleaner' = "returned"
  /\ UNCHANGED <<now, rateVars, stopper>>

StopReturn ==
  /\ stopper = "waiting" /\ cleaner = "returned" /\ stopper' = "returned"
  /\ UNCHANGED <<now, rateVars, cleaner>>

Next ==
  \/ Tick
  \/ \E ip \in IPs : AllowFirst(ip) \/ AllowNext(ip) \/ Reject(ip)
  \/ EvictExpired \/ Stop \/ CleanupReturn \/ StopReturn

\* The goroutines of cleanup and of Stop run when they can.
Fairness == WF_vars(CleanupReturn) /\ WF_vars(StopReturn)

Spec == Init /\ [][Next]_vars /\ Fairness
--------------------------------------------------------------------------------
\* The requests of an address allowed in the window that starts at t.
AllowedIn(ip, t) == {e \in log[ip] : t <= e.time /\ e.time <= t + Window}

\* However requests, clock and evictions interleave, no address gets more than
\* Limit requests through in any interval as long as the window, wherever the
\* interval starts: not only in the windows the limiter counts in.
WindowBound ==
  \A ip \in IPs : \A t \in 0 .. now : Cardinality(AllowedIn(ip, t)) <= Limit

\* The parts of the inductive invariant behind WindowBound: within a burst the
\* entries are numbered 1 to count, and bursts lie more than a window apart.
BurstsNumbered ==
  \A ip \in IPs : \A e \in log[ip] :
    /\ e.idx \in 1 .. Limit /\ e.burst <= burst[ip]
    /\ e.burst = burst[ip] => e.idx <= count[ip]
BurstsApart ==
  \A ip \in IPs : \A e, f \in log[ip] :
    e.burst < f.burst => e.time + Window < f.time
EntriesUnique ==
  \A ip \in IPs : \A e, f \in log[ip] : e.burst = f.burst /\ e.idx = f.idx => e = f
LogBehindClock ==
  \A ip \in IPs :
    /\ lastSeen[ip] <= now
    /\ \A e \in log[ip] :
         /\ e.time <= lastSeen[ip]
         /\ e.burst < burst[ip] => e.time + Window < lastSeen[ip]
    /\ ip \notin visitors => log[ip] = {} \/ Expired(ip)
\* An expired or evicted entry never takes part of its burst along: the next
\* burst starts out of reach of every window that holds a request of this one.
BurstInv == BurstsNumbered /\ BurstsApart /\ EntriesUnique /\ LogBehindClock
================================================================================
