---------------------------------- MODULE Feed ----------------------------------
(****************************************************************************)
(* What the presence state machine (internal/state/presence.go) promises,   *)
(* without timers, generations, goroutines and the semaphore: a cache of    *)
(* the last activity, at most one open window of coalescing, and a          *)
(* notification when the window ends with something new in the cache.       *)
(* Presence is shown to implement it; Proxy is built on it.                 *)
(****************************************************************************)
EXTENDS Naturals

CONSTANTS
  Activities,   \* activities an Update may carry, Equals being equality
  Empty         \* the zero Activity

VARIABLES
  cached, hasSource, lastNotified,   \* fields of Presence
  on,        \* between Start and Stop
  ctxDone,   \* the context given to the last Start is cancelled
  open,      \* an update waits for the end of its window
  sent       \* notifications so far

vars == <<cached, hasSource, lastNotified, on, ctxDone, open, sent>>

TypeOK ==
  /\ cached \in Activities /\ lastNotified \in Activities
  /\ hasSource \in BOOLEAN /\ on \in BOOLEAN /\ ctxDone \in BOOLEAN /\ open \in BOOLEAN
  /\ sent \in Nat

Init ==
  /\ cached = Empty /\ hasSource = FALSE /\ lastNotified = Empty
  /\ on = FALSE /\ ctxDone = FALSE /\ open = FALSE /\ sent = 0

\* A restart forgets what was notified and that there was a source; the cached
\* activity stays.
Start ==
  /\ ~on /\ on' = TRUE /\ ctxDone' = FALSE
  /\ hasSource' = FALSE /\ lastNotified' = Empty
  /\ UNCHANGED <<cached, open, sent>>

Cancel ==
  /\ on /\ ~ctxDone /\ ctxDone' = TRUE
  /\ UNCHANGED <<cached, hasSource, lastNotified, on, open, sent>>

Stop ==
  /\ on /\ on' = FALSE
  /\ UNCHANGED <<cached, hasSource, lastNotified, ctxDone, open, sent>>

\* An activity is cached at once and announced at the end of a window.
Update(a) ==
  /\ on /\ cached' = a /\ hasSource' = TRUE /\ open' = TRUE
  /\ UNCHANGED <<lastNotified, sent>>

\* The cached activity has something to tell.
New == cached # lastNotified

\* The window ends: subscribers are notified of the cached activity, if it is new.
WindowEnds ==
  /\ open /\ on /\ open' = FALSE
  /\ lastNotified' = cached
  /\ sent' = IF New THEN sent + 1 ELSE sent
  /\ UNCHANGED <<cached, hasSource>>

\* After a stop or a cancelled context the window may end without a word.
Abandon ==
  /\ open /\ (~on \/ ctxDone) /\ open' = FALSE
  /\ UNCHANGED <<cached, hasSource, lastNotified, sent>>

Next ==
  \/ Start \/ Cancel \/ Stop
  \/ /\ (\E a \in Activities : Update(a)) \/ WindowEnds \/ Abandon
     /\ UNCHANGED <<on, ctxDone>>

Spec == Init /\ [][Next]_vars

\* What Snapshot answers: no activity before the first update of a session.
Snapshot(none) == IF hasSource THEN cached ELSE none
--------------------------------------------------------------------------------
\* Nothing is forgotten: while the machine runs, an activity that subscribers have
\* not been told of is waiting for the end of its window.
NewIsPending == on /\ ~ctxDone /\ hasSource /\ New => open
================================================================================
