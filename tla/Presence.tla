-------------------------------- MODULE Presence --------------------------------
(****************************************************************************)
(* The presence state machine (internal/state/presence.go): a cache of the  *)
(* last activity, a debounce timer that flushes it, and asynchronous        *)
(* delivery to subscribers under a semaphore.                               *)
(*                                                                          *)
(* Every method body under p.mu is one step.  A timer that has fired is a   *)
(* goroutine of its own that has yet to take the lock: timer.Stop does not  *)
(* reach it any more, only the generation and the stopped flag do.          *)
(* Notification happens outside the lock: one goroutine per flush takes the *)
(* list of subscribers, then spawns one callback goroutine per subscriber.  *)
(* One owner (main) calls Start and Stop; anyone may call Update.           *)
(****************************************************************************)
EXTENDS Naturals, FiniteSets

CONSTANTS
  Activities,   \* activities an Update may carry, Equals being equality
  Empty,        \* the zero Activity
  Subs,         \* calls of Subscribe, each with an id of its own
  SemCap,       \* DefaultMaxConcurrentCallbacks (50 in the code)
  MaxGen,       \* bound of the model: updates in a behaviour
  MaxStarts     \* bound of the model: calls of Start

ASSUME PresenceAssumption ==
  /\ Empty \in Activities /\ IsFiniteSet(Subs)
  /\ SemCap \in Nat \ {0} /\ MaxGen \in Nat /\ MaxStarts \in Nat

VARIABLES
  cached, hasSource, lastNotified, gen, stopped,   \* fields of Presence
  armed,      \* generation of the pending timer, 0 when there is none
  flushing,   \* generations whose timer has fired and whose flush has yet to run
  ctxDone,    \* the context given to the last Start is cancelled
  owner,      \* "created", "started", "stopping" (in Stop), "stopped"
  starts,     \* calls of Start so far
  runner,     \* run: "none", "waiting", "waking", "returned"
  subs,       \* per subscription: "new", "in", "out"
  nrounds,    \* notifications started so far
  rounds,     \* notify calls in progress
  callbacks,  \* callback goroutines that have not returned
  sem         \* occupancy of notifySem

fields     == <<cached, hasSource, lastNotified, gen, stopped>>
timerVars  == <<armed, flushing>>
ownerVars  == <<ctxDone, owner, starts, runner>>
notifyVars == <<nrounds, rounds, callbacks, sem>>
vars == <<fields, timerVars, ownerVars, subs, notifyVars>>

Rounds == [seq : 1 .. MaxGen, act : Activities, listed : BOOLEAN, todo : SUBSET Subs]
Callbacks == [seq : 1 .. MaxGen, act : Activities, sub : Subs]

TypeOK ==
  /\ cached \in Activities /\ lastNotified \in Activities
  /\ hasSource \in BOOLEAN /\ stopped \in BOOLEAN /\ ctxDone \in BOOLEAN
  /\ gen \in 0 .. MaxGen /\ armed \in 0 .. MaxGen
  /\ flushing \subseteq 1 .. MaxGen
  /\ owner \in {"created", "started", "stopping", "stopped"}
  /\ starts \in 0 .. MaxStarts
  /\ runner \in {"none", "waiting", "waking", "returned"}
  /\ subs \in [Subs -> {"new", "in", "out"}]
  /\ nrounds \in 0 .. MaxGen
  /\ rounds \subseteq Rounds
  /\ callbacks \subseteq Callbacks
  /\ sem \in 0 .. SemCap

Init ==
  /\ cached = Empty /\ hasSource = FALSE /\ lastNotified = Empty
  /\ gen = 0 /\ stopped = FALSE
  /\ armed = 0 /\ flushing = {}
  /\ ctxDone = FALSE /\ owner = "created" /\ starts = 0 /\ runner = "none"
  /\ subs = [s \in Subs |-> "new"]
  /\ nrounds = 0 /\ rounds = {} /\ callbacks = {} /\ sem = 0

--------------------------------------------------------------------------------
(* The owner: Start, Stop and the run goroutine. *)

\* Start resets the diff state and the source flag, but neither the cached
\* activity nor the generation.
Start ==
  /\ owner \in {"created", "stopped"} /\ starts < MaxStarts
  /\ owner' = "started" /\ starts' = starts + 1
  /\ ctxDone' = FALSE /\ runner' = "waiting"
  /\ stopped' = FALSE /\ hasSource' = FALSE /\ lastNotified' = Empty
  /\ UNCHANGED <<cached, gen, timerVars, subs, notifyVars>>

\* The context is cancelled.
Cancel ==
  /\ owner = "started" /\ ~ctxDone /\ ctxDone' = TRUE
  /\ UNCHANGED <<fields, timerVars, owner, starts, runner, subs, notifyVars>>

\* Stop up to its wait for done: stopped is set and stopCh closed.
Stop ==
  /\ owner = "started" /\ owner' = "stopping"
  /\ stopped' = TRUE
  /\ UNCHANGED <<cached, hasSource, lastNotified, gen, timerVars, ctxDone, starts,
                 runner, subs, notifyVars>>

\* done is closed: Stop returns.
StopReturn ==
  /\ owner = "stopping" /\ runner = "returned" /\ owner' = "stopped"
  /\ UNCHANGED <<fields, timerVars, ctxDone, starts, runner, subs, notifyVars>>

\* run's select: the context is done or stopCh is closed.
RunWake ==
  /\ runner = "waiting" /\ (ctxDone \/ owner = "stopping")
  /\ runner' = "waking"
  /\ UNCHANGED <<fields, timerVars, ctxDone, owner, starts, subs, notifyVars>>

\* Faulty variant: Stop keeps the lock while it waits for run to return.
RunCleanupLockedOut ==
  /\ runner = "waking" /\ owner # "stopping"
  /\ runner' = "returned" /\ armed' = 0
  /\ UNCHANGED <<fields, flushing, ctxDone, owner, starts, subs, notifyVars>>

\* run takes the lock, stops the pending timer and closes done.
RunCleanup ==
  /\ runner = "waking" /\ runner' = "returned"
  /\ armed' = 0
  /\ UNCHANGED <<fields, flushing, ctxDone, owner, starts, subs, notifyVars>>

--------------------------------------------------------------------------------
(* Update, the timer and flush. *)

\* Faulty variant: a pending timer is left running instead of being replaced.
KeepTimer == armed' = IF armed = 0 THEN gen + 1 ELSE armed
RestartTimer == armed' = gen + 1

\* Update: cache the activity and restart the timer; a no-op once stopped.  main
\* calls Start before it starts the only caller of Update.
Update(a) ==
  /\ owner # "created" /\ ~stopped /\ gen < MaxGen
  /\ cached' = a /\ hasSource' = TRUE
  /\ gen' = gen + 1 /\ RestartTimer
  /\ UNCHANGED <<lastNotified, stopped, flushing, ownerVars, subs, notifyVars>>

\* The interval has passed: the flush gets a goroutine.
TimerFires ==
  /\ armed # 0
  /\ flushing' = flushing \cup {armed} /\ armed' = 0
  /\ UNCHANGED <<fields, ownerVars, subs, notifyVars>>

\* Faulty variant: flush does not compare generations.
EmitsStale(g) == ~stopped /\ cached # lastNotified

\* The conditions under which flush(g) notifies.
Emits(g) == g = gen /\ ~stopped /\ cached # lastNotified

\* flush(g): what it does under the lock; notify goes on outside of it.
Flush(g) ==
  /\ g \in flushing /\ flushing' = flushing \ {g}
  /\ IF Emits(g)
       THEN /\ lastNotified' = cached
            /\ nrounds' = nrounds + 1
            /\ rounds' = rounds \cup
                 {[seq |-> nrounds + 1, act |-> cached, listed |-> FALSE, todo |-> {}]}
       ELSE UNCHANGED <<lastNotified, nrounds, rounds>>
  /\ UNCHANGED <<cached, hasSource, gen, stopped, armed, ownerVars, subs,
                 callbacks, sem>>

--------------------------------------------------------------------------------
(* Subscribe, unsubscribe, notify and the callbacks. *)

Subscribe(s) ==
  /\ subs[s] = "new" /\ subs' = [subs EXCEPT ![s] = "in"]
  /\ UNCHANGED <<fields, timerVars, ownerVars, notifyVars>>

Unsubscribe(s) ==
  /\ subs[s] = "in" /\ subs' = [subs EXCEPT ![s] = "out"]
  /\ UNCHANGED <<fields, timerVars, ownerVars, notifyVars>>

\* notify copies the subscribers under subMu.
ListSubscribers(r) ==
  /\ r \in rounds /\ ~r.listed
  /\ rounds' = (rounds \ {r}) \cup
       {[r EXCEPT !.listed = TRUE, !.todo = {s \in Subs : subs[s] = "in"}]}
  /\ UNCHANGED <<fields, timerVars, ownerVars, subs, nrounds, callbacks, sem>>

\* Faulty variant: a callback is spawned without waiting for the semaphore.
AcquiredAlways == TRUE

\* There is room in notifySem.
Acquired == sem < SemCap

\* notify acquires the semaphore and spawns the callback of one subscriber.
Spawn(r, s) ==
  /\ r \in rounds /\ r.listed /\ s \in r.todo /\ Acquired
  /\ sem' = sem + 1
  /\ callbacks' = callbacks \cup {[seq |-> r.seq, act |-> r.act, sub |-> s]}
  /\ rounds' = (rounds \ {r}) \cup {[r EXCEPT !.todo = @ \ {s}]}
  /\ UNCHANGED <<fields, timerVars, ownerVars, subs, nrounds>>

\* notify returns.
NotifyReturn(r) ==
  /\ r \in rounds /\ r.listed /\ r.todo = {}
  /\ rounds' = rounds \ {r}
  /\ UNCHANGED <<fields, timerVars, ownerVars, subs, nrounds, callbacks, sem>>

\* Faulty variant: the release is skipped when the function panics.
ReleaseUnlessPanic == sem' \in {sem, sem - 1}
Release == sem' = sem - 1

\* The subscriber's function runs.  Whether it returns or panics (which is
\* recovered), the deferred function releases the semaphore.
Callback(cb) ==
  /\ cb \in callbacks /\ callbacks' = callbacks \ {cb}
  /\ Release
  /\ UNCHANGED <<fields, timerVars, ownerVars, subs, nrounds, rounds>>

--------------------------------------------------------------------------------
Runner == RunWake \/ RunCleanup

Notify(r) == ListSubscribers(r) \/ (\E s \in Subs : Spawn(r, s)) \/ NotifyReturn(r)

Next ==
  \/ Start \/ Cancel \/ Stop \/ StopReturn
  \/ Runner
  \/ \E a \in Activities : Update(a)
  \/ TimerFires
  \/ \E g \in flushing : Flush(g)
  \/ \E s \in Subs : Subscribe(s) \/ Unsubscribe(s)
  \/ \E r \in rounds : Notify(r)
  \/ \E cb \in callbacks : Callback(cb)

\* Goroutines that can run do run, timers fire and callbacks return; nobody has
\* to call Update, Subscribe, Start or Stop.
Fairness ==
  /\ WF_vars(StopReturn) /\ WF_vars(Runner) /\ WF_vars(TimerFires)
  /\ \A g \in 1 .. MaxGen : WF_vars(Flush(g))
  /\ WF_vars(\E r \in rounds : Notify(r))
  /\ WF_vars(\E cb \in callbacks : Callback(cb))

Spec == Init /\ [][Next]_vars /\ Fairness
--------------------------------------------------------------------------------
(* Presence implements Feed: a window is open while a timer is armed or the    *)
(* flush of the last generation is on its way.                                *)

WindowOpen == armed # 0 \/ gen \in flushing

F == INSTANCE Feed WITH
       on <- owner = "started", open <- WindowOpen, sent <- nrounds

\* Timers, generations, the lock and the goroutines together behave as the abstract
\* feed: one window at a time, a notification only at its end, only of what is
\* cached by then and only if it is new.  The flush of a timer that fired just before
\* a newer Update or before Stop starts none (TestFlushAfterStopDoesNotEmit).
ImplementsFeed == F!Spec

\* While the machine runs, an activity that subscribers have not been told of is
\* waiting for the end of its window: no stale flush or stop swallows it.
NewIsPending == F!NewIsPending

\* notifySem counts the running callbacks exactly, whether they return or panic,
\* so that no more than SemCap run at a time over all overlapping notifications.
CallbackLimit ==
  IsFiniteSet(callbacks) /\ sem = Cardinality(callbacks) /\ sem <= SemCap

\* The owner's calls, the stop flag and run agree: run only wakes up for a cancelled
\* context or for Stop.
OwnerInv ==
  /\ stopped <=> owner \in {"stopping", "stopped"}
  /\ owner = "created" => gen = 0
  /\ runner = "waking" => ctxDone \/ owner = "stopping"

\* A timer is armed for the last generation or not at all, fires once per generation,
\* and there are no more notifications than generations that are through.
TimerInv ==
  /\ armed \in {0, gen} /\ flushing \subseteq 1 .. gen
  /\ armed # 0 => gen \notin flushing
  /\ nrounds <= gen /\ (WindowOpen => nrounds < gen)

\* Notifications have numbers of their own, and a subscriber that notify has yet to
\* serve has no callback of that notification: every callback takes a new place.
RoundsApart ==
  /\ \A r \in rounds : r.seq <= nrounds
  /\ \A cb \in callbacks : cb.seq <= nrounds
  /\ \A r, q \in rounds : r.seq = q.seq => r = q
  /\ \A r \in rounds, cb \in callbacks :
       r.seq = cb.seq => r.listed /\ cb.sub \notin r.todo

\* What fields, timers and goroutines satisfy together in every state: nothing new is
\* forgotten and the semaphore counts the callbacks, although flushes of several
\* generations and several notifications may be on their way.
PresenceInv ==
  /\ TypeOK /\ NewIsPending /\ CallbackLimit
  /\ OwnerInv /\ TimerInv /\ RoundsApart

\* Once updates stop, the subscribers' view catches up with the cache: whatever
\* interleaving of updates and timers came before, no update is swallowed by a
\* flush that was discarded as stale.
Converges ==
  (hasSource /\ lastNotified # cached) ~> (lastNotified = cached \/ ctxDone \/ stopped)

\* Stop returns, however early or late it meets the run goroutine.
StopReturns == (owner = "stopping") ~> (owner = "stopped")

\* Every notification is handed to all its subscribers in the end, even when the
\* semaphore is exhausted and subscribers panic.
NotifyTerminates == \A n \in 1 .. MaxGen :
  (\E r \in rounds : r.seq = n) ~> (\A r \in rounds : r.seq # n)
================================================================================
