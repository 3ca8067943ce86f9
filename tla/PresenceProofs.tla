----------------------------- MODULE PresenceProofs -----------------------------
(****************************************************************************)
(* Proofs about Presence, for any activities, subscribers and capacity of   *)
(* the semaphore: its invariant, and that it implements Feed.               *)
(****************************************************************************)
EXTENDS Presence, FiniteSetTheorems, TLAPS

\* The calls of the owner keep what fields, timers and goroutines satisfy together.
LEMMA OwnerSteps ==
  ASSUME PresenceInv, Start \/ Cancel \/ Stop \/ StopReturn \/ Runner
  PROVE  PresenceInv'
<1> USE PresenceAssumption
    DEF PresenceInv, TypeOK, CallbackLimit, OwnerInv, TimerInv, RoundsApart, NewIsPending,
        F!NewIsPending, F!New, WindowOpen, fields, timerVars, ownerVars, notifyVars
<1>1. CASE Start
  <2>0. hasSource' \in BOOLEAN /\ stopped' \in BOOLEAN /\ ctxDone' \in BOOLEAN
    BY <1>1, Zenon DEF Start
  <2>1. TypeOK'
    BY <1>1, <2>0 DEF Start
  <2>2. NewIsPending' 
    BY <1>1 DEF Start
  <2>3. OwnerInv'
    BY <1>1 DEF Start
  <2>4. CallbackLimit' /\ TimerInv' /\ RoundsApart'
    BY <1>1 DEF Start
  <2> QED
    BY <2>1, <2>2, <2>3, <2>4
<1>2. CASE Cancel
  BY <1>2 DEF Cancel
<1>3. CASE Stop
  BY <1>3 DEF Stop
<1>4. CASE StopReturn
  BY <1>4 DEF StopReturn
<1>5. CASE RunWake
  BY <1>5 DEF RunWake
<1>6. CASE RunCleanup
  BY <1>6 DEF RunCleanup
<1> QED
  BY <1>1, <1>2, <1>3, <1>4, <1>5, <1>6 DEF Runner

\* Update, timers and flushes keep it: a stale flush changes nothing, and a flush that
\* notifies finds its window open, hence its notification has a number of its own.
LEMMA TimerSteps ==
  ASSUME PresenceInv,
         \/ \E a \in Activities : Update(a)
         \/ TimerFires
         \/ \E g \in flushing : Flush(g)
  PROVE  PresenceInv'
<1> USE PresenceAssumption
    DEF PresenceInv, TypeOK, CallbackLimit, OwnerInv, TimerInv, NewIsPending,
        F!NewIsPending, F!New, WindowOpen, fields, timerVars, ownerVars, notifyVars
<1>1. ASSUME NEW a \in Activities, Update(a) PROVE PresenceInv'
  <2>1. hasSource' \in BOOLEAN
    BY <1>1, Zenon DEF Update
  <2>2. TypeOK' /\ CallbackLimit' /\ OwnerInv' /\ RoundsApart'
    BY <1>1, <2>1 DEF Update, RestartTimer, RoundsApart
  <2>3. TimerInv' /\ NewIsPending'
    BY <1>1 DEF Update, RestartTimer
  <2> QED
    BY <2>2, <2>3
<1>2. CASE TimerFires
  <2>0. armed \in 1 .. MaxGen
    BY <1>2 DEF TimerFires
  <2>1. TypeOK'
    BY <1>2, <2>0 DEF TimerFires
  <2>3. CallbackLimit' /\ OwnerInv' /\ RoundsApart'
    BY <1>2 DEF TimerFires, RoundsApart
  <2>2. TimerInv' /\ NewIsPending'
    BY <1>2 DEF TimerFires
  <2> QED
    BY <2>1, <2>2, <2>3
<1>3. ASSUME NEW g \in flushing, Flush(g) PROVE PresenceInv'
  <2>1. CASE Emits(g)
    <3> DEFINE new == [seq |-> nrounds + 1, act |-> cached, listed |-> FALSE, todo |-> {}]
    <3>1. nrounds < gen /\ rounds' = rounds \cup {new} /\ nrounds' = nrounds + 1
      BY <1>3, <2>1 DEF Flush, Emits
    <3>2. new.listed \in BOOLEAN
      BY Zenon
    <3>3. new \in Rounds
      BY <3>1, <3>2 DEF Rounds
    <3> HIDE DEF new
    <3>4. TypeOK'
      BY <1>3, <2>1, <3>1, <3>3 DEF Flush, Emits
    <3>6. CallbackLimit' /\ OwnerInv' /\ TimerInv' /\ NewIsPending'
      BY <1>3, <2>1, <3>1 DEF Flush, Emits
    <3>5. RoundsApart'
      <4>1. \A r \in rounds : r.seq \in Nat /\ r.seq < new.seq
        BY DEF Rounds, RoundsApart, new
      <4>2. \A cb \in callbacks : cb.seq \in Nat /\ cb.seq < new.seq
        BY DEF Callbacks, RoundsApart, new
      <4>3. callbacks' = callbacks /\ new.seq = nrounds'
        BY <1>3, <3>1 DEF Flush, new
      <4> QED
        BY <3>1, <4>1, <4>2, <4>3 DEF RoundsApart
    <3> QED
      BY <3>4, <3>5, <3>6
  <2>2. CASE ~Emits(g)
    <3>1. TypeOK' /\ CallbackLimit' /\ OwnerInv' /\ RoundsApart'
      BY <1>3, <2>2 DEF Flush, RoundsApart
    <3>2. TimerInv' /\ NewIsPending'
      BY <1>3, <2>2 DEF Flush, Emits
    <3> QED
      BY <3>1, <3>2
  <2> QED
    BY <2>1, <2>2
<1> QED
  BY <1>1, <1>2, <1>3

\* Subscriptions do not touch anything else.
LEMMA SubscribeSteps ==
  ASSUME PresenceInv, NEW s \in Subs, Subscribe(s) \/ Unsubscribe(s)
  PROVE  PresenceInv'
<1> USE DEF PresenceInv, CallbackLimit, OwnerInv, TimerInv, NewIsPending, RoundsApart,
            F!NewIsPending, F!New, WindowOpen, fields, timerVars, ownerVars, notifyVars
<1>1. subs' \in [Subs -> {"new", "in", "out"}]
  BY DEF Subscribe, Unsubscribe, TypeOK
<1>2. UNCHANGED <<fields, timerVars, ownerVars, notifyVars>>
  BY DEF Subscribe, Unsubscribe
<1> QED
  BY <1>1, <1>2 DEF TypeOK

\* Notifications and callbacks keep it: the callback that notify spawns is not one of
\* those that run, and a callback that ends is one of those that are counted.
LEMMA NotifySteps ==
  ASSUME PresenceInv,
         (\E r \in rounds : Notify(r)) \/ (\E cb \in callbacks : Callback(cb))
  PROVE  PresenceInv'
<1> USE PresenceAssumption DEF fields, timerVars, ownerVars
<1>1. ASSUME UNCHANGED <<fields, timerVars, ownerVars, subs, nrounds>>
      PROVE  NewIsPending' /\ OwnerInv' /\ TimerInv'
  BY <1>1 DEF PresenceInv, OwnerInv, TimerInv, NewIsPending, F!NewIsPending, F!New, WindowOpen
<1>2. ASSUME NEW r \in rounds, ListSubscribers(r) PROVE PresenceInv'
  <2> DEFINE new == [r EXCEPT !.listed = TRUE, !.todo = {s \in Subs : subs[s] = "in"}]
  <2>1. r \in Rounds /\ rounds' = (rounds \ {r}) \cup {new} /\ callbacks' = callbacks
        /\ sem' = sem /\ nrounds' = nrounds
    BY <1>2 DEF ListSubscribers, PresenceInv, TypeOK
  <2>2. new \in Rounds /\ new.seq = r.seq
    BY <2>1 DEF Rounds
  <2>3. \A cb \in callbacks : cb.seq # r.seq
    BY <1>2 DEF ListSubscribers, PresenceInv, RoundsApart
  <2> HIDE DEF new
  <2>4. TypeOK'
    BY <1>2, <2>1, <2>2 DEF ListSubscribers, PresenceInv, TypeOK
  <2>5. RoundsApart'
    BY <2>1, <2>2, <2>3 DEF PresenceInv, RoundsApart
  <2>6. CallbackLimit'
    BY <2>1 DEF PresenceInv, CallbackLimit
  <2> QED
    BY <1>1, <1>2, <2>4, <2>5, <2>6 DEF ListSubscribers, PresenceInv
<1>3. ASSUME NEW r \in rounds, NEW s \in Subs, Spawn(r, s) PROVE PresenceInv'
  <2> DEFINE new == [r EXCEPT !.todo = @ \ {s}]
             cb  == [seq |-> r.seq, act |-> r.act, sub |-> s]
  <2>1. /\ r \in Rounds /\ r.listed /\ s \in r.todo /\ sem < SemCap
        /\ rounds' = (rounds \ {r}) \cup {new} /\ callbacks' = callbacks \cup {cb}
        /\ sem' = sem + 1 /\ nrounds' = nrounds
    BY <1>3 DEF Spawn, Acquired, PresenceInv, TypeOK
  <2>2. /\ new \in Rounds /\ new.seq = r.seq /\ new.listed = r.listed
        /\ new.todo = r.todo \ {s}
    BY <2>1 DEF Rounds
  <2>3. cb \in Callbacks /\ cb.seq = r.seq /\ cb.sub = s
    BY <2>1 DEF Rounds, Callbacks
  <2> HIDE DEF new, cb
  <2>4. cb \notin callbacks
    BY <2>1, <2>3 DEF PresenceInv, RoundsApart
  <2>5. CallbackLimit'
    BY <2>1, <2>4, FS_AddElement DEF PresenceInv, CallbackLimit, TypeOK
  <2>6. TypeOK'
    BY <1>3, <2>1, <2>2, <2>3 DEF Spawn, PresenceInv, TypeOK
  <2>7. RoundsApart'
    <3> USE <2>1, <2>2, <2>3 DEF PresenceInv, RoundsApart
    <3>1. \A q \in rounds' : q.seq <= nrounds'
      OBVIOUS
    <3>2. \A d \in callbacks' : d.seq <= nrounds'
      OBVIOUS
    <3>3. \A q, p \in rounds' : q.seq = p.seq => q = p
      OBVIOUS
    <3>4. \A q \in rounds', d \in callbacks' : q.seq = d.seq => q.listed /\ d.sub \notin q.todo
      <4> SUFFICES ASSUME NEW q \in rounds', NEW d \in callbacks', q.seq = d.seq
                   PROVE  q.listed /\ d.sub \notin q.todo
        OBVIOUS
      <4>1. CASE q = new
        BY <4>1
      <4>2. CASE q # new
        BY <4>2
      <4> QED
        BY <4>1, <4>2
    <3> QED
      BY <3>1, <3>2, <3>3, <3>4
  <2> QED
    BY <1>1, <1>3, <2>5, <2>6, <2>7 DEF Spawn, PresenceInv
<1>4. ASSUME NEW r \in rounds, NotifyReturn(r) PROVE PresenceInv'
  <2>1. rounds' = rounds \ {r} /\ callbacks' = callbacks /\ sem' = sem /\ nrounds' = nrounds
    BY <1>4 DEF NotifyReturn
  <2>2. TypeOK'
    BY <1>4 DEF NotifyReturn, PresenceInv, TypeOK
  <2>3. RoundsApart' /\ CallbackLimit'
    BY <2>1 DEF PresenceInv, RoundsApart, CallbackLimit
  <2> QED
    BY <1>1, <1>4, <2>2, <2>3 DEF NotifyReturn, PresenceInv
<1>5. ASSUME NEW cb \in callbacks, Callback(cb) PROVE PresenceInv'
  <2>1. callbacks' = callbacks \ {cb} /\ sem' = sem - 1 /\ rounds' = rounds
        /\ nrounds' = nrounds
    BY <1>5 DEF Callback, Release
  <2>2. CallbackLimit' /\ sem' \in 0 .. SemCap
    <3>1. IsFiniteSet(callbacks') /\ Cardinality(callbacks') = Cardinality(callbacks) - 1
      BY <2>1, FS_RemoveElement DEF PresenceInv, CallbackLimit
    <3>2. Cardinality(callbacks') \in Nat
      BY <3>1, FS_CardinalityType
    <3> QED
      BY <2>1, <3>1, <3>2 DEF PresenceInv, CallbackLimit, TypeOK
  <2>3. TypeOK'
    BY <1>5, <2>1, <2>2 DEF Callback, PresenceInv, TypeOK
  <2>4. RoundsApart'
    BY <2>1 DEF PresenceInv, RoundsApart
  <2> QED
    BY <1>1, <1>5, <2>2, <2>3, <2>4 DEF Callback, PresenceInv
<1> QED
  BY <1>2, <1>3, <1>4, <1>5 DEF Notify

\* Every reachable state of the presence machine: nothing new is forgotten while it
\* runs, notifySem counts the callbacks that run, and timers, generations and the
\* owner's flags agree.
THEOREM PresenceCorrect == Spec => []PresenceInv
<1>1. Init => PresenceInv
  <2> SUFFICES ASSUME Init PROVE PresenceInv
    OBVIOUS
  <2> USE PresenceAssumption DEF Init
  <2>1. hasSource \in BOOLEAN /\ stopped \in BOOLEAN /\ ctxDone \in BOOLEAN
    BY Zenon
  <2>2. TypeOK
    BY <2>1 DEF TypeOK
  <2>3. CallbackLimit
    BY FS_EmptySet DEF CallbackLimit
  <2>4. NewIsPending /\ OwnerInv /\ TimerInv /\ RoundsApart
    BY DEF NewIsPending, F!NewIsPending, F!New, WindowOpen, OwnerInv, TimerInv, RoundsApart
  <2> QED
    BY <2>2, <2>3, <2>4 DEF PresenceInv
<1>2. PresenceInv /\ [Next]_vars => PresenceInv'
  <2> SUFFICES ASSUME PresenceInv, [Next]_vars PROVE PresenceInv'
    OBVIOUS
  <2>1. CASE UNCHANGED vars
    BY <2>1 DEF vars, fields, timerVars, ownerVars, notifyVars, PresenceInv, TypeOK,
                CallbackLimit, OwnerInv, TimerInv, NewIsPending, RoundsApart,
                F!NewIsPending, F!New, WindowOpen
  <2> QED
    BY <2>1, OwnerSteps, TimerSteps, SubscribeSteps, NotifySteps DEF Next
<1> QED
  BY <1>1, <1>2, PTL DEF Spec

\* The presence machine implements the abstract feed: a stale flush, the steps of
\* notify, of the callbacks and of run are not seen, the end of a window under a
\* stopped machine is Abandon, and every other flush of the last generation ends the
\* window exactly as Feed says.
THEOREM PresenceImplementsFeed == Spec => ImplementsFeed
<1> USE DEF WindowOpen
<1>1. Init => F!Init
  BY DEF Init, F!Init
<1>2. PresenceInv /\ [Next]_vars => [F!Next]_F!vars
  <2> SUFFICES ASSUME PresenceInv, [Next]_vars PROVE [F!Next]_F!vars
    OBVIOUS
  <2> USE DEF fields, timerVars, ownerVars, notifyVars
  <2>1. CASE Start
    BY <2>1 DEF Start, F!Start, F!Next
  <2>2. CASE Cancel
    BY <2>2 DEF Cancel, F!Cancel, F!Next
  <2>3. CASE Stop
    BY <2>3 DEF Stop, F!Stop, F!Next
  <2>4. CASE StopReturn
    BY <2>4 DEF StopReturn, F!vars
  <2>5. CASE RunWake
    BY <2>5 DEF RunWake, F!vars
  <2>6. CASE RunCleanup
    <3>1. CASE WindowOpen /\ ~WindowOpen'
      BY <2>6, <3>1 DEF RunCleanup, PresenceInv, OwnerInv, F!Abandon, F!Next
    <3>2. CASE ~(WindowOpen /\ ~WindowOpen')
      BY <2>6, <3>2 DEF RunCleanup, F!vars
    <3> QED
      BY <3>1, <3>2
  <2>7. ASSUME NEW a \in Activities, Update(a) PROVE [F!Next]_F!vars
    BY <2>7 DEF Update, RestartTimer, PresenceInv, OwnerInv, TypeOK, F!Update, F!Next
  <2>8. CASE TimerFires
    BY <2>8 DEF TimerFires, PresenceInv, TimerInv, F!vars
  <2>9. ASSUME NEW g \in flushing, Flush(g) PROVE [F!Next]_F!vars
    BY <2>9 DEF Flush, Emits, PresenceInv, TimerInv, OwnerInv, TypeOK, F!vars, F!WindowEnds, F!Abandon, F!New, F!Next
  <2>10. ASSUME NEW s \in Subs, Subscribe(s) \/ Unsubscribe(s) PROVE [F!Next]_F!vars
    BY <2>10 DEF Subscribe, Unsubscribe, F!vars
  <2>11. ASSUME NEW r \in rounds, Notify(r) PROVE [F!Next]_F!vars
    BY <2>11 DEF Notify, ListSubscribers, Spawn, NotifyReturn, F!vars
  <2>12. ASSUME NEW cb \in callbacks, Callback(cb) PROVE [F!Next]_F!vars
    BY <2>12 DEF Callback, F!vars
  <2>13. CASE UNCHANGED vars
    BY <2>13 DEF vars, F!vars
  <2> QED
    BY <2>1, <2>2, <2>3, <2>4, <2>5, <2>6, <2>7, <2>8, <2>9, <2>10, <2>11, <2>12, <2>13
       DEF Next, Runner
<1> QED
  BY <1>1, <1>2, PresenceCorrect, PTL DEF Spec, ImplementsFeed, F!Spec
================================================================================
