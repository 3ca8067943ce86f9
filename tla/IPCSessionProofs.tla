---------------------------- MODULE IPCSessionProofs ----------------------------
(****************************************************************************)
(* Proofs about IPCSession, for any number of sessions and attempts and any *)
(* capacity of the events channel.                                          *)
(****************************************************************************)
EXTENDS IPCSession, SequenceTheorems, FiniteSetTheorems, FunctionTheorems,
        WellFoundedInduction, TLAPS

\* An event that Run publishes keeps its channel typed and within its capacity.
LEMMA EmitTyped ==
  ASSUME TypeOK, NEW e \in EventKinds, EmitEvent(e)
  PROVE  /\ chan' \in [Sessions -> Seq(EventKinds)]
         /\ \A k \in Sessions : Len(chan'[k]) <= EventCap
<1> USE IPCAssumption DEF TypeOK
<1> DEFINE old == chan[rdSess]
           new == IF Len(old) < EventCap THEN Append(old, e) ELSE old
<1>1. chan' = [chan EXCEPT ![rdSess] = new]
  BY DEF EmitEvent
<1>2. CASE rdSess \in Sessions
  <2>1. new \in Seq(EventKinds) /\ Len(new) <= EventCap
    BY <1>2, LenProperties, AppendProperties
  <2> QED
    BY <1>1, <1>2, <2>1
<1>3. CASE rdSess \notin Sessions
  BY <1>1, <1>3
<1> QED
  BY <1>2, <1>3

\* Close breaks the socket of the current session and leaves later ones alone.
LEMMA ClientCloseLinks ==
  ASSUME TypeOK, ClientClose
  PROVE  /\ \A k \in Sessions : k > sess => link'[k] = link[k]
         /\ sess # 0 => state' = "disconnected" /\ link'[sess] = "broken"
         /\ sess = 0 => state' = state /\ link' = link
BY IPCAssumption DEF TypeOK, ClientClose, Sessions

\* Every step keeps the state typed.
LEMMA TypeSteps ==
  ASSUME TypeOK, Places, Holds, Next
  PROVE  TypeOK'
<1> USE IPCAssumption
    DEF TypeOK, Sessions, States, connVars, chanVars, rdVars, supVars, hcVars, loopVars
<1>1. CASE Environment
  <2>1. CASE Signal
    <3>1. ctxDone' \in BOOLEAN
      BY <2>1, Zenon DEF Signal
    <3> QED
      BY <2>1, <3>1 DEF Signal
  <2>2. CASE LinkBreaks
    BY <2>2 DEF LinkBreaks
  <2>3. CASE DiscordHangs
    <3>1. mute' \in BOOLEAN
      BY <2>3, Zenon DEF DiscordHangs
    <3> QED
      BY <2>3, <3>1 DEF DiscordHangs
  <2>4. CASE ReadPong
    <3>1. pong' \in BOOLEAN /\ inflight' \in BOOLEAN
      BY <2>4, Zenon DEF ReadPong, Reading, HandlePong
    <3> QED
      BY <2>4, <3>1 DEF ReadPong, Reading, HandlePong
  <2>5. CASE ReadClose
    BY <2>5 DEF ReadClose, Reading
  <2>6. ASSUME NEW e \in {"frame", "bad"}, ReadFrame(e) PROVE TypeOK'
    BY <2>6, EmitTyped DEF ReadFrame, EventKinds
  <2> QED
    BY <1>1, <2>1, <2>2, <2>3, <2>4, <2>5, <2>6 DEF Environment
<1>2. CASE MainClose
  BY <1>2 DEF MainClose, ClientClose
<1>3. CASE RunEnds
  <2>1. CASE ReadFails
    BY <2>1 DEF ReadFails
  <2>2. CASE ClearEvents
    BY <2>2 DEF ClearEvents, EventsCleared
  <2>3. CASE CloseEvents
    <3>1. FALSE \in BOOLEAN
      BY Zenon
    <3>2. chanOpen' \in [Sessions -> BOOLEAN]
      BY <2>3, <3>1 DEF CloseEvents
    <3> QED
      BY <2>3, <3>2 DEF CloseEvents
  <2>4. CASE EmitTerminal
    <3>1. CASE EmitEvent("end")
      BY <2>4, <3>1, EmitTyped DEF EmitTerminal, EventKinds
    <3>2. CASE UNCHANGED chan
      BY <2>4, <3>2 DEF EmitTerminal
    <3> QED
      BY <2>4, <3>1, <3>2 DEF EmitTerminal
  <2> QED
    BY <1>3, <2>1, <2>2, <2>3, <2>4 DEF RunEnds
<1>4. CASE Supervisor
  <2>1. CASE SupStart
    <3>1. hcStop' \in BOOLEAN /\ pong' \in BOOLEAN /\ inflight' \in BOOLEAN
      BY <2>1, Zenon DEF SupStart, StartHealthCheck
    <3> QED
      BY <2>1, <3>1 DEF SupStart, StartHealthCheck
  <2>2. CASE SupRunReturned
    BY <2>2 DEF SupRunReturned
  <2>3. CASE SupCancelled
    BY <2>3 DEF SupCancelled, Interrupt, ClientClose
  <2>4. CASE SupStopHealthCheck
    <3>1. hcStop' \in BOOLEAN
      BY <2>4, Zenon DEF SupStopHealthCheck
    <3> QED
      BY <2>4, <3>1 DEF SupStopHealthCheck
  <2>5. CASE SupStopped
    BY <2>5 DEF SupStopped, HealthCheckStopped
  <2>6. CASE ReconnectHead
    BY <2>6 DEF ReconnectHead, Exhausted, ReturnError
  <2>7. CASE ReconnectCancelled
    BY <2>7 DEF ReconnectCancelled
  <2>8. CASE ConnectBegin
    BY <2>8 DEF ConnectBegin
  <2>9. CASE ConnectFails
    BY <2>9 DEF ConnectFails, AttemptCounted, Places
  <2>10. CASE ConnectOpens
    <3>1. mute' \in BOOLEAN
      BY <2>10, Zenon DEF ConnectOpens
    <3> QED
      BY <2>10, <3>1 DEF ConnectOpens
  <2>11. CASE ConnectDone
    BY <2>11 DEF ConnectDone, SetConnected
  <2> QED
    BY <1>4, <2>1, <2>2, <2>3, <2>4, <2>5, <2>6, <2>7, <2>8, <2>9, <2>10, <2>11 DEF Supervisor
<1>5. CASE HealthCheck
  <2>1. CASE HCTick
    <3>1. pong' \in BOOLEAN
      BY <2>1, Zenon DEF HCTick
    <3> QED
      BY <2>1, <3>1 DEF HCTick
  <2>2. CASE HCPing
    <3>1. inflight' \in BOOLEAN
      BY <2>2, Zenon DEF HCPing
    <3> QED
      BY <2>2, <3>1 DEF HCPing
  <2>3. CASE HCPong
    <3>1. pong' \in BOOLEAN
      BY <2>3, Zenon DEF HCPong
    <3> QED
      BY <2>3, <3>1 DEF HCPong
  <2>4. CASE HCTimeout
    BY <2>4 DEF HCTimeout, CloseHung, ClientClose
  <2>5. CASE HCStopped
    BY <2>5 DEF HCStopped
  <2> QED
    BY <1>5, <2>1, <2>2, <2>3, <2>4, <2>5 DEF HealthCheck
<1>6. CASE EventLoop
  <2>1. CASE LoopFetch
    BY <2>1 DEF LoopFetch, Published
  <2>2. CASE LoopExit
    BY <2>2 DEF LoopExit
  <2>3. CASE LoopAnnounce
    BY <2>3 DEF LoopAnnounce
  <2>4. CASE LoopDrained
    <3>1. loop' = "lost" /\ UNCHANGED <<ctxDone, main, connVars, chanVars, rdVars, supVars,
                                       hcVars, loopChan, bcast>>
      BY <2>4 DEF LoopDrained
    <3> QED
      BY <3>1
  <2>5. CASE LoopLost
    BY <2>5 DEF LoopLost, AnnounceLoss
  <2>6. CASE LoopReceive
    <3>1. loopChan \in Sessions
      BY <2>6 DEF LoopReceive, Holds
    <3>2. Tail(chan[loopChan]) \in Seq(EventKinds) /\ Len(Tail(chan[loopChan])) <= EventCap
      BY <2>6, <3>1, HeadTailProperties DEF LoopReceive
    <3> QED
      BY <2>6, <3>1, <3>2 DEF LoopReceive
  <2> QED
    BY <1>6, <2>1, <2>2, <2>3, <2>4, <2>5, <2>6 DEF EventLoop
<1> QED
  BY <1>1, <1>2, <1>3, <1>4, <1>5, <1>6 DEF Next

\* The signal, the socket and Discord keep the goroutines to one session: a socket that
\* breaks is noticed by Run, and a frame goes to the channel Run is reading for.
LEMMA EnvironmentKeeps ==
  ASSUME SessionInv, TypeOK', Environment
  PROVE  SessionInv'
<1> USE IPCAssumption
    DEF SessionInv, TypeOK, HealthCheckOwnSession, RunOwnsSession, PublishedOpen,
        LiveSessionWatched, SendsOnOpen, Places, Holds, Sessions,
        connVars, chanVars, rdVars, supVars, hcVars, loopVars
<1>1. CASE Signal
  BY <1>1 DEF Signal
<1>2. CASE LinkBreaks
  BY <1>2 DEF LinkBreaks
<1>3. CASE DiscordHangs
  BY <1>3 DEF DiscordHangs
<1>4. CASE ReadPong
  BY <1>4 DEF ReadPong, Reading, HandlePong
<1>5. CASE ReadClose
  BY <1>5 DEF ReadClose, Reading
<1>6. ASSUME NEW e \in {"frame", "bad"}, ReadFrame(e) PROVE SessionInv'
  BY <1>6 DEF ReadFrame, Reading, EmitEvent
<1> QED
  BY <1>1, <1>2, <1>3, <1>4, <1>5, <1>6 DEF Environment

\* The Close at the end of main's shutdown comes after the signal.
LEMMA MainCloseKeeps ==
  ASSUME SessionInv, TypeOK', MainClose
  PROVE  SessionInv'
<1> USE IPCAssumption
    DEF SessionInv, TypeOK, HealthCheckOwnSession, RunOwnsSession, PublishedOpen,
        LiveSessionWatched, SendsOnOpen, Places, Holds, Sessions,
        connVars, chanVars, rdVars, supVars, hcVars, loopVars
<1>1. HealthCheckOwnSession' /\ RunOwnsSession' /\ PublishedOpen' /\ SendsOnOpen'
  BY DEF MainClose, ClientClose
<1>2. LiveSessionWatched' /\ Places'
  BY DEF MainClose, ClientClose
<1>3. Holds'
  BY ClientCloseLinks DEF MainClose
<1> QED
  BY <1>1, <1>2, <1>3

\* The end of Run keeps them apart: the channel is first taken back and then closed.
LEMMA RunEndsKeeps ==
  ASSUME SessionInv, TypeOK', RunEnds
  PROVE  SessionInv'
<1> USE IPCAssumption
    DEF SessionInv, TypeOK, HealthCheckOwnSession, RunOwnsSession, PublishedOpen,
        LiveSessionWatched, SendsOnOpen, Places, Holds, Sessions,
        connVars, chanVars, rdVars, supVars, hcVars, loopVars
<1>1. CASE ReadFails
  BY <1>1 DEF ReadFails
<1>2. CASE ClearEvents
  BY <1>2 DEF ClearEvents, EventsCleared
<1>3. CASE CloseEvents
  <2>1. HealthCheckOwnSession' /\ RunOwnsSession' /\ PublishedOpen' /\ SendsOnOpen'
    BY <1>3 DEF CloseEvents
  <2>2. LiveSessionWatched' /\ Places'
    BY <1>3 DEF CloseEvents
  <2>3. Holds'
    BY <1>3 DEF CloseEvents
  <2> QED
    BY <2>1, <2>2, <2>3
<1>4. CASE EmitTerminal
  BY <1>4 DEF EmitTerminal, EmitEvent
<1> QED
  BY <1>1, <1>2, <1>3, <1>4 DEF RunEnds

\* The supervisor keeps them apart: it connects only once Run has returned and the health
\* check has been stopped.
LEMMA SupervisorKeeps ==
  ASSUME SessionInv, TypeOK', Supervisor
  PROVE  SessionInv'
<1> USE IPCAssumption
    DEF SessionInv, TypeOK, HealthCheckOwnSession, RunOwnsSession, PublishedOpen,
        LiveSessionWatched, SendsOnOpen, Places, Holds, Sessions,
        connVars, chanVars, rdVars, supVars, hcVars, loopVars
<1>1. CASE SupStart
  <2>1. HealthCheckOwnSession' /\ RunOwnsSession' /\ PublishedOpen' /\ SendsOnOpen'
    BY <1>1 DEF SupStart, StartHealthCheck
  <2>2. LiveSessionWatched' /\ Places'
    BY <1>1 DEF SupStart, StartHealthCheck
  <2>3. Holds'
    BY <1>1 DEF SupStart, StartHealthCheck
  <2> QED
    BY <2>1, <2>2, <2>3
<1>2. CASE SupRunReturned
  BY <1>2 DEF SupRunReturned
<1>3. CASE SupCancelled
  <2>1. HealthCheckOwnSession' /\ RunOwnsSession' /\ PublishedOpen' /\ SendsOnOpen'
    BY <1>3 DEF SupCancelled, Interrupt, ClientClose
  <2>2. LiveSessionWatched' /\ Places'
    BY <1>3 DEF SupCancelled, Interrupt, ClientClose
  <2>3. Holds'
    BY <1>3 DEF SupCancelled, Interrupt, ClientClose
  <2> QED
    BY <2>1, <2>2, <2>3
<1>4. CASE SupStopHealthCheck
  BY <1>4 DEF SupStopHealthCheck
<1>5. CASE SupStopped
  BY <1>5 DEF SupStopped, HealthCheckStopped
<1>6. CASE ReconnectHead
  BY <1>6 DEF ReconnectHead, Exhausted, ReturnError
<1>7. CASE ReconnectCancelled
  BY <1>7 DEF ReconnectCancelled
<1>8. CASE ConnectBegin
  BY <1>8 DEF ConnectBegin
<1>9. CASE ConnectFails
  BY <1>9 DEF ConnectFails, AttemptCounted
<1>10. CASE ConnectOpens
  <2>1. HealthCheckOwnSession' /\ RunOwnsSession' /\ PublishedOpen' /\ SendsOnOpen'
    BY <1>10 DEF ConnectOpens
  <2>2. LiveSessionWatched' /\ Places'
    BY <1>10 DEF ConnectOpens
  <2>3. Holds'
    <3>1. ASSUME NEW k \in Sessions, k > sess'
          PROVE  chan'[k] = <<>> /\ ~chanOpen'[k] /\ link'[k] = "none"
      <4>1. k > sess /\ k # sess + 1 /\ chan' = chan
        BY <1>10, <3>1 DEF ConnectOpens
      <4>2. link'[k] = link[k] /\ chanOpen'[k] = chanOpen[k]
        BY <1>10, <4>1 DEF ConnectOpens
      <4> QED
        BY <4>1, <4>2
    <3>2. /\ sess' # 0 /\ events' = sess' /\ sup' = "connected"
          /\ rd' = rd /\ rd # "closing" /\ loop' = loop /\ loopChan' = loopChan
      BY <1>10 DEF ConnectOpens
    <3> HIDE DEF TypeOK, SessionInv, Places
    <3> QED
      BY <3>1, <3>2 DEF SessionInv
  <2> QED
    BY <2>1, <2>2, <2>3
<1>11. CASE ConnectDone
  BY <1>11 DEF ConnectDone, SetConnected
<1> QED
  BY <1>1, <1>2, <1>3, <1>4, <1>5, <1>6, <1>7, <1>8, <1>9, <1>10, <1>11 DEF Supervisor

\* The health check keeps them apart: it closes its own session only.
LEMMA HealthCheckKeeps ==
  ASSUME SessionInv, TypeOK', HealthCheck
  PROVE  SessionInv'
<1> USE IPCAssumption
    DEF SessionInv, TypeOK, HealthCheckOwnSession, RunOwnsSession, PublishedOpen,
        LiveSessionWatched, SendsOnOpen, Places, Holds, Sessions,
        connVars, chanVars, rdVars, supVars, hcVars, loopVars
<1>1. CASE HCTick
  BY <1>1 DEF HCTick
<1>2. CASE HCPing
  BY <1>2 DEF HCPing
<1>3. CASE HCPong
  BY <1>3 DEF HCPong
<1>4. CASE HCTimeout
  <2>1. HealthCheckOwnSession' /\ RunOwnsSession' /\ PublishedOpen' /\ SendsOnOpen'
    BY <1>4 DEF HCTimeout, CloseHung, ClientClose
  <2>2. LiveSessionWatched' /\ Places'
    BY <1>4 DEF HCTimeout, CloseHung, ClientClose
  <2>3. Holds'
    BY <1>4, ClientCloseLinks DEF HCTimeout, CloseHung
  <2> QED
    BY <2>1, <2>2, <2>3
<1>5. CASE HCStopped
  BY <1>5 DEF HCStopped
<1> QED
  BY <1>1, <1>2, <1>3, <1>4, <1>5 DEF HealthCheck

\* The event loop changes nothing but its own position and the channel it drains.
LEMMA EventLoopKeeps ==
  ASSUME SessionInv, TypeOK', EventLoop
  PROVE  SessionInv'
<1> USE IPCAssumption
    DEF SessionInv, TypeOK, HealthCheckOwnSession, RunOwnsSession, PublishedOpen,
        LiveSessionWatched, SendsOnOpen, Places, Holds, Sessions,
        connVars, chanVars, rdVars, supVars, hcVars, loopVars
<1>1. CASE LoopFetch
  BY <1>1 DEF LoopFetch, Published
<1>2. CASE LoopExit
  BY <1>2 DEF LoopExit
<1>3. CASE LoopAnnounce
  BY <1>3 DEF LoopAnnounce
<1>4. CASE LoopDrained
  BY <1>4 DEF LoopDrained
<1>5. CASE LoopLost
  BY <1>5 DEF LoopLost, AnnounceLoss
<1>6. CASE LoopReceive
  BY <1>6 DEF LoopReceive
<1> QED
  BY <1>1, <1>2, <1>3, <1>4, <1>5, <1>6 DEF EventLoop

\* Every reachable state of the Discord side: reader, supervisor, health check and event
\* loop never mix two sessions, and Run never sends on or closes a closed channel.
THEOREM SessionCorrect == Spec => []SessionInv
<1>1. Init => SessionInv
  <2> SUFFICES ASSUME Init PROVE SessionInv
    OBVIOUS
  <2> USE IPCAssumption DEF Init, Sessions
  <2>1. /\ ctxDone \in BOOLEAN /\ mute \in BOOLEAN
        /\ hcStop \in BOOLEAN /\ pong \in BOOLEAN /\ inflight \in BOOLEAN
    BY Zenon
  <2>2. chanOpen \in [Sessions -> BOOLEAN]
    OBVIOUS
  <2>3. chan \in [Sessions -> Seq(EventKinds)] /\ \A k \in Sessions : Len(chan[k]) <= EventCap
    BY EmptySeq
  <2>4. TypeOK
    BY <2>1, <2>2, <2>3 DEF TypeOK, States
  <2>5. PublishedOpen /\ Holds
    <3>1. CASE sess = 1
      <4>1. events = 1 /\ state = "connected" /\ chanOpen = [k \in Sessions |-> k = 1]
            /\ link = [k \in Sessions |-> IF k = 1 THEN "open" ELSE "none"]
        BY <3>1
      <4>2. \A k \in Sessions : chanOpen[k] <=> k = 1
        BY <4>1, Zenon
      <4>3. 1 \in Sessions /\ \A k \in Sessions : k > 1 => k # 1 /\ link[k] = "none"
        BY <4>1
      <4>4. /\ sup = "top" /\ rd = "none" /\ loop = "fetch"
            /\ \A k \in Sessions : chan[k] = <<>>
        OBVIOUS
      <4>5. events = 1 /\ state = "connected"
        BY <4>1
      <4> HIDE DEF Init
      <4> QED
        BY <3>1, <4>2, <4>3, <4>4, <4>5 DEF PublishedOpen, Holds
    <3>2. CASE sess = 0
      BY <3>2 DEF PublishedOpen, Holds
    <3> QED
      BY <3>1, <3>2
  <2>6. SendsOnOpen /\ Places
    BY DEF SendsOnOpen, Places
  <2>7. HealthCheckOwnSession /\ RunOwnsSession /\ LiveSessionWatched
    BY DEF HealthCheckOwnSession, RunOwnsSession, LiveSessionWatched
  <2> QED
    BY <2>4, <2>5, <2>6, <2>7 DEF SessionInv
<1>2. SessionInv /\ [Next]_vars => SessionInv'
  <2> SUFFICES ASSUME SessionInv, [Next]_vars PROVE SessionInv'
    OBVIOUS
  <2>1. CASE Next
    <3>1. TypeOK'
      BY <2>1, TypeSteps DEF SessionInv
    <3> QED
      BY <2>1, <3>1, EnvironmentKeeps, MainCloseKeeps, RunEndsKeeps, SupervisorKeeps,
         HealthCheckKeeps, EventLoopKeeps DEF Next
  <2>2. CASE UNCHANGED vars
    BY <2>2 DEF vars, connVars, chanVars, rdVars, supVars, hcVars, loopVars, SessionInv,
                TypeOK, HealthCheckOwnSession, RunOwnsSession, PublishedOpen,
                LiveSessionWatched, SendsOnOpen, Places, Holds
  <2> QED
    BY <2>1, <2>2
<1> QED
  BY <1>1, <1>2, PTL DEF Spec
--------------------------------------------------------------------------------
(* The backoff.  The doublings are computed by a recursive function, so that its   *)
(* values are a matter of induction, here in the form of sets of numbers.          *)

\* A set of natural numbers has a least element.
LEMMA LeastElement ==
  ASSUME NEW S \in SUBSET Nat, S # {}
  PROVE  \E n \in S : \A m \in S : ~(m < n)
<1> DEFINE R == {ss \in Nat \X Nat : ss[1] < ss[2]}
<1>1. IsWellFoundedOn(R, Nat)
  BY NatLessThanWellFounded DEF OpToRel
<1>3. \E x \in S : \A y \in S : ~ (<<y, x>> \in R)
  <2> HIDE DEF R
  <2> QED
    BY <1>1, WFMin
<1>2. \A x,y \in Nat : <<x,y>> \in R <=> x < y
  OBVIOUS
<1> QED
  BY <1>2, <1>3

\* Induction: a set that holds 0 and the successor of each of its elements is Nat.
LEMMA SetInduction ==
  ASSUME NEW S \in SUBSET Nat, 0 \in S, \A n \in S : n + 1 \in S
  PROVE  S = Nat
<1> SUFFICES ASSUME S # Nat PROVE FALSE
  OBVIOUS
<1> DEFINE T == Nat \ S
<1>1. T \in SUBSET Nat /\ T # {}
  OBVIOUS
<1>2. PICK n \in T : \A m \in T : ~(m < n)
  BY <1>1, LeastElement
<1>3. n # 0 /\ n - 1 \in Nat /\ n - 1 \notin S
  BY <1>2
<1> QED
  BY <1>2, <1>3

\* Powers of two, counted as the subsets of 1 .. n.
LEMMA PowerOfTwo ==
  ASSUME NEW n \in Nat
  PROVE  2 ^ n \in Nat /\ 2 ^ (n + 1) = 2 * 2 ^ n
<1> DEFINE A == SUBSET (1 .. n)
           f == [X \in A |-> X \cup {n + 1}]
           B == {X \cup {n + 1} : X \in A}
<1>1. /\ IsFiniteSet(1 .. n) /\ Cardinality(1 .. n) = n
      /\ IsFiniteSet(1 .. n + 1) /\ Cardinality(1 .. n + 1) = n + 1
  BY FS_Interval
<1>2. /\ IsFiniteSet(A) /\ Cardinality(A) = 2 ^ n
      /\ Cardinality(SUBSET (1 .. n + 1)) = 2 ^ (n + 1)
  BY <1>1, FS_SUBSET
<1>3. IsFiniteSet(B) /\ Cardinality(B) = Cardinality(A)
  <2>1. \A X \in A : n + 1 \notin X
    OBVIOUS
  <2>2. \A X, Y \in A : X \cup {n + 1} = Y \cup {n + 1} => X \subseteq Y
    BY <2>1
  <2>3. \A X, Y \in A : f[X] = f[Y] => X = Y
    BY <2>2
  <2>4. f \in [A -> B] /\ \A t \in B : \E X \in A : f[X] = t
    OBVIOUS
  <2> HIDE DEF f, A, B
  <2>5. ExistsBijection(A, B)
    BY <2>3, <2>4, Fun_IsBij DEF ExistsBijection
  <2> QED
    BY <1>2, <2>5, FS_Bijection
<1>4. SUBSET (1 .. n + 1) = A \cup B
  <2>1. ASSUME NEW X \in SUBSET (1 .. n + 1) PROVE X \in A \cup B
    <3>1. CASE n + 1 \in X
      <4>1. X \ {n + 1} \in A
        OBVIOUS
      <4>2. X = (X \ {n + 1}) \cup {n + 1}
        BY <3>1
      <4> QED
        BY <4>1, <4>2
    <3>2. CASE n + 1 \notin X
      BY <3>2
    <3> QED
      BY <3>1, <3>2
  <2>2. ASSUME NEW X \in A \cup B PROVE X \in SUBSET (1 .. n + 1)
    BY <2>2
  <2> QED
    BY <2>1, <2>2
<1>5. A \cap B = {}
  OBVIOUS
<1> HIDE DEF A, B
<1>6. Cardinality(A \cup B) = Cardinality(A) + Cardinality(B) - Cardinality(A \cap B)
  BY <1>2, <1>3, FS_Union
<1>7. Cardinality(A \cap B) = 0 /\ Cardinality(A) \in Nat
  BY <1>2, <1>5, FS_EmptySet, FS_CardinalityType
<1>8. Cardinality(A \cup B) = 2 * Cardinality(A)
  BY <1>3, <1>6, <1>7
<1> QED
  BY <1>2, <1>4, <1>7, <1>8, Zenon

\* A duration in range is left alone by the arithmetic of time.Duration.
LEMMA WrapInRange ==
  ASSUME NEW d \in Nat, d <= MaxDuration
  PROVE  Wrap(d) = d
<1>1. \A a, b \in Nat : a < b => a % b = a
  OBVIOUS
<1>2. /\ d + MaxDuration + 1 \in Nat /\ 2 * (MaxDuration + 1) \in Nat
      /\ d + MaxDuration + 1 < 2 * (MaxDuration + 1)
  BY IPCAssumption
<1> QED
  BY <1>1, <1>2, IPCAssumption DEF Wrap

\* The doublings of CappedDouble are well defined, however many there are.
LEMMA DoublingDefined ==
  ASSUME NEW value, NEW cap, NEW times \in Nat
  PROVE  \E f : f = [i \in 0 .. times |->
                       IF i = 0 THEN value
                       ELSE IF f[i - 1] < cap THEN Wrap(2 * f[i - 1]) ELSE f[i - 1]]
<1> DEFINE Step(x) == IF x < cap THEN Wrap(2 * x) ELSE x
           Def(f, n) == f = [i \in 0 .. n |-> IF i = 0 THEN value ELSE Step(f[i - 1])]
           S == {n \in Nat : \E f : Def(f, n)}
<1> HIDE DEF Step
<1>1. 0 \in S
  <2>1. Def([i \in 0 .. 0 |-> value], 0)
    OBVIOUS
  <2> QED
    BY <2>1
<1>2. ASSUME NEW n \in S PROVE n + 1 \in S
  <2>1. PICK f : Def(f, n)
    OBVIOUS
  <2> DEFINE g == [i \in 0 .. n + 1 |-> IF i = n + 1 THEN Step(f[n]) ELSE f[i]]
  <2>2. \A i \in 0 .. n + 1 : g[i] = IF i = 0 THEN value ELSE Step(g[i - 1])
    <3> SUFFICES ASSUME NEW i \in 0 .. n + 1
                 PROVE  g[i] = IF i = 0 THEN value ELSE Step(g[i - 1])
      OBVIOUS
    <3>1. CASE i = 0
      BY <2>1, <3>1
    <3>2. CASE i = n + 1
      BY <2>1, <3>2
    <3>3. CASE i # 0 /\ i # n + 1
      BY <2>1, <3>3
    <3> QED
      BY <3>1, <3>2, <3>3
  <2>4. g = [i \in 0 .. n + 1 |-> g[i]]
    OBVIOUS
  <2> HIDE DEF g
  <2>3. Def(g, n + 1)
    BY <2>2, <2>4
  <2> QED
    BY <2>3
<1>3. times \in S
  <2> HIDE DEF S
  <2> QED
    BY <1>1, <1>2, SetInduction DEF S
<1> QED
  BY <1>3 DEF Step

\* CappedDouble returns min(cap, value * 2^times): the doublings stop before they can
\* leave the range of time.Duration.
LEMMA CappedDoubleExact ==
  ASSUME NEW value \in Nat \ {0}, NEW cap \in Nat \ {0}, NEW times \in Nat,
         value <= MaxDuration, 2 * cap <= MaxDuration
  PROVE  CappedDouble(value, cap, times) =
           IF value * 2 ^ times < cap THEN value * 2 ^ times ELSE cap
<1> USE IPCAssumption
<1> DEFINE doubled == CHOOSE f : f = [i \in 0 .. times |->
                       IF i = 0 THEN value
                       ELSE IF f[i - 1] < cap THEN Wrap(2 * f[i - 1]) ELSE f[i - 1]]
           exact == [i \in Nat |-> value * 2 ^ i]
           S == {i \in Nat : i <= times =>
                   /\ doubled[i] \in Nat
                   /\ doubled[i] < cap => doubled[i] = exact[i]
                   /\ doubled[i] >= cap => exact[i] >= cap}
<1>1. doubled = [i \in 0 .. times |->
                   IF i = 0 THEN value
                   ELSE IF doubled[i - 1] < cap THEN Wrap(2 * doubled[i - 1])
                                                ELSE doubled[i - 1]]
  BY DoublingDefined
<1>2. exact[0] = value /\ \A i \in Nat : exact[i] \in Nat /\ exact[i + 1] = 2 * exact[i]
  <2>1. 2 ^ 0 = 1
    OBVIOUS
  <2>2. exact[0] = value
    BY <2>1
  <2>3. ASSUME NEW i \in Nat PROVE exact[i] \in Nat /\ exact[i + 1] = 2 * exact[i]
    <3>1. PICK p \in Nat : p = 2 ^ i /\ 2 ^ (i + 1) = 2 * p
      BY PowerOfTwo
    <3>2. exact[i] = value * p /\ exact[i + 1] = value * (2 * p)
      BY <3>1
    <3>3. value * p \in Nat /\ value * (2 * p) = 2 * (value * p)
      BY <3>1
    <3> QED
      BY <3>2, <3>3
  <2> QED
    BY <2>2, <2>3
<1> HIDE DEF exact, doubled
<1>3. 0 \in S
  <2>1. doubled[0] = value
    BY <1>1
  <2> QED
    BY <1>2, <2>1
<1>4. ASSUME NEW i \in S PROVE i + 1 \in S
  <2> SUFFICES ASSUME i + 1 <= times
               PROVE  /\ doubled[i + 1] \in Nat
                      /\ doubled[i + 1] < cap => doubled[i + 1] = exact[i + 1]
                      /\ doubled[i + 1] >= cap => exact[i + 1] >= cap
    OBVIOUS
  <2>0. i \in Nat /\ i + 1 # 0 /\ i + 1 \in 0 .. times /\ (i + 1) - 1 = i
    OBVIOUS
  <2>4. doubled[i + 1] = IF doubled[i] < cap THEN Wrap(2 * doubled[i]) ELSE doubled[i]
    BY <1>1, <2>0
  <2>1. /\ doubled[i] \in Nat /\ exact[i] \in Nat /\ exact[i + 1] = 2 * exact[i]
        /\ doubled[i] < cap => doubled[i] = exact[i]
        /\ doubled[i] >= cap => exact[i] >= cap
    BY <1>2, <2>0
  <2>2. CASE doubled[i] < cap
    <3>1. Wrap(2 * doubled[i]) = 2 * doubled[i]
      BY <2>1, <2>2, WrapInRange
    <3> QED
      BY <2>1, <2>2, <2>4, <3>1
  <2>3. CASE doubled[i] >= cap
    BY <2>1, <2>3, <2>4
  <2> QED
    BY <2>1, <2>2, <2>3
<1>5. times \in S
  <2>1. S \in SUBSET Nat
    OBVIOUS
  <2> HIDE DEF S
  <2> QED
    BY <1>3, <1>4, <2>1, SetInduction
<1>6. CappedDouble(value, cap, times) = IF doubled[times] > cap THEN cap ELSE doubled[times]
  BY DEF CappedDouble, doubled
<1>7. exact[times] = value * 2 ^ times
  BY DEF exact
<1>8. doubled[times] \in Nat /\ exact[times] \in Nat
  BY <1>2, <1>5
<1>9. CappedDouble(value, cap, times) = IF exact[times] < cap THEN exact[times] ELSE cap
  BY <1>5, <1>6, <1>8
<1> QED
  BY <1>7, <1>9

\* What Reconnect waits is within a tenth of the ideal interval, whatever the attempt.
LEMMA BackoffInTypedState ==
  ASSUME TypeOK
  PROVE  BackoffExact
<1> USE IPCAssumption
<1> DEFINE exact == BaseInterval * 2 ^ attempt
           ideal == IF exact < MaxInterval THEN exact ELSE MaxInterval
           jitter == ideal \div 10
<1>1. exact \in Nat
  <2>1. attempt \in Nat
    BY DEF TypeOK
  <2> QED
    BY <2>1, PowerOfTwo
<1>2. CappedDouble(BaseInterval, MaxInterval, attempt) = ideal
  BY CappedDoubleExact DEF TypeOK
<1>3. NextInterval = ideal - jitter .. ideal + jitter
  BY <1>2 DEF NextInterval
<1> HIDE DEF exact
<1>4. ideal \in Nat
  BY <1>1
<1> HIDE DEF ideal
<1>5. jitter \in Nat /\ 10 * jitter <= ideal
  BY <1>4
<1> HIDE DEF jitter
<1>6. NextInterval # {}
  <2>1. ideal \in NextInterval
    BY <1>3, <1>4, <1>5
  <2> QED
    BY <2>1
<1>7. ASSUME NEW d \in NextInterval PROVE 10 * d \in 9 * ideal .. 11 * ideal
  <2>1. d \in Int /\ ideal - jitter <= d /\ d <= ideal + jitter
    BY <1>3, <1>4, <1>5
  <2> QED
    BY <1>4, <1>5, <2>1
<1> QED
  BY <1>6, <1>7 DEF BackoffExact, ideal, exact

\* Every wait of Reconnect is within a tenth of min(max, base * 2^n), for every base and
\* maximum that fit twice into a time.Duration and however often the connect failed.
THEOREM BackoffCorrect == Spec => []BackoffExact
<1>1. SessionInv => BackoffExact
  BY BackoffInTypedState DEF SessionInv
<1> QED
  BY <1>1, SessionCorrect, PTL
================================================================================
