------------------------------- MODULE HubProofs -------------------------------
(****************************************************************************)
(* Proofs about Hub, for any number of connections and any capacities.      *)
(****************************************************************************)
EXTENDS Hub, FiniteSetTheorems, SequenceTheorems, TLAPS

\* A non-blocking send keeps the channel typed and within its capacity.
LEMMA EnqueueTyped ==
  ASSUME TypeOK, NEW c \in Conns, NEW m \in Broadcasts \cup {Reply}, Enqueue(c, m)
  PROVE  /\ send' \in [Conns -> Seq(Broadcasts \cup {Reply})]
         /\ \A d \in Conns : Len(send'[d]) <= SendCap
<1> USE HubAssumption DEF TypeOK
<1> DEFINE new == IF Len(send[c]) < SendCap THEN Append(send[c], m) ELSE send[c]
<1>1. send' = [send EXCEPT ![c] = new]
  BY DEF Enqueue
<1>2. new \in Seq(Broadcasts \cup {Reply}) /\ Len(new) <= SendCap
  BY LenProperties, AppendProperties
<1> QED
  BY <1>1, <1>2

\* A receive keeps the channel typed and within its capacity.
LEMMA ReceiveTyped ==
  ASSUME TypeOK, NEW c \in Conns, send[c] # <<>>, send' = [send EXCEPT ![c] = Tail(@)]
  PROVE  /\ send' \in [Conns -> Seq(Broadcasts \cup {Reply})]
         /\ \A d \in Conns : Len(send'[d]) <= SendCap
<1> USE HubAssumption DEF TypeOK
<1>1. Tail(send[c]) \in Seq(Broadcasts \cup {Reply}) /\ Len(Tail(send[c])) <= SendCap
  BY HeadTailProperties
<1> QED
  BY <1>1

\* Every reachable state of the hub is well typed: the channels keep within
\* their capacities and the tracker's count within the connection limit.
THEOREM TypeCorrect == Spec => []TypeOK
<1>1. Init => TypeOK
  <2> SUFFICES ASSUME Init PROVE TypeOK
    OBVIOUS
  <2> USE HubAssumption
      DEF Init, RunStates, HandlerStates, ConnStates, ReaderStates, WriterStates,
          WatcherStates
  <2>1. ctxDone \in BOOLEAN /\ hubDone \in BOOLEAN
    BY Zenon
  <2>2. queue \in Seq(Broadcasts) /\ Len(queue) <= QueueCap
    BY EmptySeq
  <2>3. /\ send \in [Conns -> Seq(Broadcasts \cup {Reply})]
        /\ \A c \in Conns : Len(send[c]) <= SendCap
    BY EmptySeq
  <2>4. count \in 0 .. MaxConn /\ issued \in 0 .. MaxSeq /\ last \in [Conns -> 0 .. MaxSeq]
    OBVIOUS
  <2> QED
    BY <2>1, <2>2, <2>3, <2>4 DEF TypeOK
<1>2. TypeOK /\ [Next]_vars => TypeOK'
  <2> SUFFICES ASSUME TypeOK, [Next]_vars PROVE TypeOK'
    OBVIOUS
  <2> USE HubAssumption
      DEF TypeOK, RunStates, HandlerStates, ConnStates, ReaderStates, WriterStates,
          WatcherStates, stopVars, runVars, clientVars, queueVars
  <2>1. ASSUME NEW c \in Conns, ServeHTTP(c) PROVE TypeOK'
    <3>1. CASE Unauthorized(c)
      BY <3>1 DEF Unauthorized
    <3>2. CASE TryAdd(c)
      <4>1. CASE Full
        BY <3>2, <4>1 DEF TryAdd
      <4>2. CASE ~Full
        <5>1. count' \in 0 .. MaxConn
          BY <3>2, <4>2 DEF TryAdd, Full
        <5> QED
          BY <3>2, <4>2, <5>1 DEF TryAdd
      <4> QED
        BY <4>1, <4>2
    <3>3. CASE UpgradeFails(c)
      BY <3>3 DEF UpgradeFails, ReservationReturned, Remove
    <3>4. CASE Upgrade(c)
      BY <3>4 DEF Upgrade, NewClient
    <3>5. CASE Register(c)
      BY <3>5 DEF Register, StartPumps
    <3>6. CASE RegisterAfterDone(c)
      BY <3>6 DEF RegisterAfterDone, StartPumps
    <3> QED
      BY <2>1, <3>1, <3>2, <3>3, <3>4, <3>5, <3>6 DEF ServeHTTP
  <2>2. ASSUME NEW c \in Conns, TrackDisconnect(c) PROVE TypeOK'
    BY <2>2 DEF TrackDisconnect, Remove
  <2>3. ASSUME NEW c \in Conns, ReadPump(c) PROVE TypeOK'
    <3>1. CASE SendMessage(c)
      <4>1. CASE c \in closed
        BY <3>1, <4>1 DEF SendMessage
      <4>2. CASE c \notin closed
        <5>1. Enqueue(c, Reply)
          BY <3>1, <4>2 DEF SendMessage
        <5>2. /\ send' \in [Conns -> Seq(Broadcasts \cup {Reply})]
              /\ \A d \in Conns : Len(send'[d]) <= SendCap
          BY <5>1, EnqueueTyped
        <5> QED
          BY <3>1, <4>2, <5>2 DEF SendMessage
      <4> QED
        BY <4>1, <4>2
    <3>2. CASE ReadFails(c)
      BY <3>2 DEF ReadFails
    <3>3. CASE Unregister(c)
      BY <3>3 DEF Unregister, LeaveReadPump
    <3>4. CASE UnregisterAfterDone(c)
      BY <3>4 DEF UnregisterAfterDone, LeaveReadPump
    <3> QED
      BY <2>3, <3>1, <3>2, <3>3, <3>4 DEF ReadPump
  <2>4. ASSUME NEW c \in Conns, WritePump(c) PROVE TypeOK'
    <3>1. CASE WriteMessage(c)
      <4>1. Head(send[c]) \in Broadcasts \cup {Reply}
        BY <3>1, HeadTailProperties DEF WriteMessage
      <4>2. last' \in [Conns -> 0 .. MaxSeq]
        BY <3>1, <4>1 DEF WriteMessage, Broadcasts, Seqnos
      <4> QED
        BY <3>1, <4>2, ReceiveTyped DEF WriteMessage
    <3>2. CASE WriteFails(c)
      <4>1. CASE UNCHANGED send
        BY <3>2, <4>1 DEF WriteFails, LeaveWritePump
      <4>2. CASE send[c] # <<>> /\ send' = [send EXCEPT ![c] = Tail(@)]
        BY <3>2, <4>2, ReceiveTyped DEF WriteFails, LeaveWritePump
      <4> QED
        BY <3>2, <4>1, <4>2 DEF WriteFails
    <3>3. CASE WriteClose(c)
      BY <3>3 DEF WriteClose, LeaveWritePump
    <3> QED
      BY <2>4, <3>1, <3>2, <3>3 DEF WritePump
  <2>5. ASSUME NEW c \in Conns, ClientInput(c) PROVE TypeOK'
    <3>1. CASE PeerLost(c)
      BY <3>1 DEF PeerLost
    <3>2. CASE ReadRequest(c)
      BY <3>2 DEF ReadRequest
    <3>3. ASSUME NEW S \in SUBSET Types \ {{}}, ReadSubscribe(c, S) PROVE TypeOK'
      BY <3>3 DEF ReadSubscribe
    <3> QED
      BY <2>5, <3>1, <3>2, <3>3 DEF ClientInput
  <2>6. ASSUME NEW t \in Types, Broadcast(t) PROVE TypeOK'
    <3>1. [type |-> t, seq |-> issued + 1] \in Broadcasts
      BY <2>6 DEF Broadcast, Broadcasts, Seqnos
    <3>2. queue' \in Seq(Broadcasts) /\ Len(queue') <= QueueCap
      BY <2>6, <3>1, LenProperties, AppendProperties DEF Broadcast
    <3> QED
      BY <2>6, <3>2 DEF Broadcast
  <2>7. CASE Run
    <3>1. CASE RunInsert
      BY <3>1 DEF RunInsert
    <3>2. CASE RunRemove
      <4>1. CASE cur \in clients
        BY <3>2, <4>1 DEF RunRemove, Delete, CloseChannels
      <4>2. CASE cur \notin clients
        BY <3>2, <4>2 DEF RunRemove
      <4> QED
        BY <4>1, <4>2
    <3>3. CASE RunReceive
      <4>1. /\ Head(queue) \in Broadcasts /\ Tail(queue) \in Seq(Broadcasts)
            /\ Len(Tail(queue)) <= QueueCap
        BY <3>3, HeadTailProperties DEF RunReceive
      <4> QED
        BY <3>3, <4>1 DEF RunReceive, Dequeue
    <3>4. CASE RunDelivered
      BY <3>4 DEF RunDelivered
    <3>5. ASSUME NEW c \in Conns, RunDeliver(c) PROVE TypeOK'
      <4>1. CASE c \in closed \/ msg.type \notin events[c]
        BY <3>5, <4>1 DEF RunDeliver, Offer
      <4>2. CASE c \notin closed /\ msg.type \in events[c]
        <5>1. Enqueue(c, msg)
          BY <3>5, <4>2 DEF RunDeliver, Offer
        <5> QED
          BY <3>5, <4>2, <5>1, EnqueueTyped DEF RunDeliver, Offer
      <4> QED
        BY <4>1, <4>2
    <3>6. CASE RunCancelled
      BY <3>6 DEF RunCancelled, CloseAllClients
    <3>7. CASE RunExit
      BY <3>7 DEF RunExit
    <3>8. CASE RunDone
      BY <3>8 DEF RunDone
    <3> QED
      BY <2>7, <3>1, <3>2, <3>3, <3>4, <3>5, <3>6, <3>7, <3>8 DEF Run
  <2>8. CASE Shutdown
    <3>1. CASE Signal
      BY <3>1 DEF Signal
    <3>2. CASE Close
      BY <3>2 DEF Close, CloseAllClients
    <3>3. CASE CloseDone
      BY <3>3 DEF CloseDone
    <3> QED
      BY <2>8, <3>1, <3>2, <3>3 DEF Shutdown
  <2>9. CASE UNCHANGED vars
    BY <2>9 DEF vars
  <2> QED
    BY <2>1, <2>2, <2>3, <2>4, <2>5, <2>6, <2>7, <2>8, <2>9 DEF Next
<1> QED
  BY <1>1, <1>2, PTL DEF Spec

--------------------------------------------------------------------------------
\* The map, the fan-out and the channels stay consistent with each other.
LEMMA HubInvStep ==
  ASSUME TypeOK, HubInv, [Next]_vars
  PROVE  HubInv'
<1> USE DEF TypeOK, HubInv, stopVars, runVars, clientVars, queueVars
<1>1. ASSUME NEW c \in Conns, ServeHTTP(c) PROVE HubInv'
  <2>1. CASE Unauthorized(c)
    BY <2>1 DEF Unauthorized
  <2>2. CASE TryAdd(c)
    BY <2>2 DEF TryAdd
  <2>3. CASE UpgradeFails(c)
    BY <2>3 DEF UpgradeFails
  <2>4. CASE Upgrade(c)
    BY <2>4 DEF Upgrade, NewClient
  <2>5. CASE Register(c)
    BY <2>5 DEF Register, StartPumps
  <2>6. CASE RegisterAfterDone(c)
    BY <2>6 DEF RegisterAfterDone, StartPumps
  <2> QED
    BY <1>1, <2>1, <2>2, <2>3, <2>4, <2>5, <2>6 DEF ServeHTTP
<1>2. ASSUME NEW c \in Conns, TrackDisconnect(c) PROVE HubInv'
  BY <1>2 DEF TrackDisconnect
<1>3. ASSUME NEW c \in Conns, ReadPump(c) PROVE HubInv'
  <2>1. CASE SendMessage(c)
    BY <2>1 DEF SendMessage
  <2>2. CASE ReadFails(c)
    BY <2>2 DEF ReadFails
  <2>3. CASE Unregister(c)
    BY <2>3 DEF Unregister, LeaveReadPump
  <2>4. CASE UnregisterAfterDone(c)
    BY <2>4 DEF UnregisterAfterDone, LeaveReadPump
  <2> QED
    BY <1>3, <2>1, <2>2, <2>3, <2>4 DEF ReadPump
<1>4. ASSUME NEW c \in Conns, WritePump(c) PROVE HubInv'
  <2>1. CASE WriteMessage(c)
    BY <2>1 DEF WriteMessage
  <2>2. CASE WriteFails(c)
    BY <2>2 DEF WriteFails, LeaveWritePump
  <2>3. CASE WriteClose(c)
    BY <2>3 DEF WriteClose, LeaveWritePump
  <2> QED
    BY <1>4, <2>1, <2>2, <2>3 DEF WritePump
<1>5. ASSUME NEW c \in Conns, ClientInput(c) PROVE HubInv'
  <2>1. CASE PeerLost(c)
    BY <2>1 DEF PeerLost
  <2>2. CASE ReadRequest(c)
    BY <2>2 DEF ReadRequest
  <2>3. ASSUME NEW S \in SUBSET Types \ {{}}, ReadSubscribe(c, S) PROVE HubInv'
    BY <2>3 DEF ReadSubscribe
  <2> QED
    BY <1>5, <2>1, <2>2, <2>3 DEF ClientInput
<1>6. ASSUME NEW t \in Types, Broadcast(t) PROVE HubInv'
  BY <1>6 DEF Broadcast
<1>7. CASE Run
  <2>1. CASE RunInsert
    BY <2>1 DEF RunInsert
  <2>2. CASE RunRemove
    <3>1. CASE cur \in clients
      BY <2>2, <3>1 DEF RunRemove, Delete, CloseChannels
    <3>2. CASE cur \notin clients
      BY <2>2, <3>2 DEF RunRemove
    <3> QED
      BY <3>1, <3>2
  <2>3. CASE RunReceive
    BY <2>3 DEF RunReceive
  <2>4. CASE RunDelivered
    BY <2>4 DEF RunDelivered
  <2>5. ASSUME NEW c \in Conns, RunDeliver(c) PROVE HubInv'
    BY <2>5 DEF RunDeliver
  <2>6. CASE RunCancelled
    BY <2>6 DEF RunCancelled, CloseAllClients
  <2>7. CASE RunExit
    BY <2>7 DEF RunExit
  <2>8. CASE RunDone
    BY <2>8 DEF RunDone
  <2> QED
    BY <1>7, <2>1, <2>2, <2>3, <2>4, <2>5, <2>6, <2>7, <2>8 DEF Run
<1>8. CASE Shutdown
  <2>1. CASE Signal
    BY <2>1 DEF Signal
  <2>2. CASE Close
    BY <2>2 DEF Close, CloseAllClients, Unlocked
  <2>3. CASE CloseDone
    BY <2>3 DEF CloseDone
  <2> QED
    BY <1>8, <2>1, <2>2, <2>3 DEF Shutdown
<1>9. CASE UNCHANGED vars
  BY <1>9 DEF vars
<1> QED
  BY <1>1, <1>2, <1>3, <1>4, <1>5, <1>6, <1>7, <1>8, <1>9 DEF Next

\* HubInv holds in every reachable state: closeAllClients, called by Run and by
\* Close at any time, and the register and unregister cases preserve it.
THEOREM HubInvariant == Spec => []HubInv
<1>1. Init => HubInv
  BY DEF Init, HubInv
<1> QED
  BY <1>1, HubInvStep, TypeCorrect, PTL DEF Spec

\* One step keeps Run from panicking, and ReadPump from panicking in service.
LEMMA PanicStep ==
  ASSUME TypeOK, HubInv, HubNeverPanics, PanicOnlyInShutdown, [Next]_vars
  PROVE  HubNeverPanics' /\ PanicOnlyInShutdown'
<1> USE DEF TypeOK, HubInv, HubNeverPanics, PanicOnlyInShutdown,
            stopVars, runVars, clientVars, queueVars
<1>1. ASSUME UNCHANGED panic, ctxDone => ctxDone'
      PROVE  HubNeverPanics' /\ PanicOnlyInShutdown'
  BY <1>1
<1>2. ASSUME NEW c \in Conns, ServeHTTP(c) PROVE UNCHANGED <<panic, ctxDone>>
  BY <1>2 DEF ServeHTTP, Unauthorized, TryAdd, UpgradeFails, Upgrade, NewClient, Register,
              RegisterAfterDone
<1>3. ASSUME NEW c \in Conns, TrackDisconnect(c) PROVE UNCHANGED <<panic, ctxDone>>
  BY <1>3 DEF TrackDisconnect
<1>4. ASSUME NEW c \in Conns, ReadPump(c) PROVE HubNeverPanics' /\ PanicOnlyInShutdown'
  <2>1. CASE SendMessage(c)
    <3>1. CASE c \in closed
      <4>1. ctxDone
        BY <2>1, <3>1 DEF SendMessage
      <4> QED
        BY <2>1, <3>1, <4>1 DEF SendMessage
    <3>2. CASE c \notin closed
      BY <1>1, <2>1, <3>2 DEF SendMessage
    <3> QED
      BY <3>1, <3>2
  <2>2. CASE ReadFails(c) \/ Unregister(c) \/ UnregisterAfterDone(c)
    BY <1>1, <2>2 DEF ReadFails, Unregister, UnregisterAfterDone
  <2> QED
    BY <1>4, <2>1, <2>2 DEF ReadPump
<1>5. ASSUME NEW c \in Conns, WritePump(c) PROVE UNCHANGED <<panic, ctxDone>>
  BY <1>5 DEF WritePump, WriteMessage, WriteFails, WriteClose, LeaveWritePump
<1>6. ASSUME NEW c \in Conns, ClientInput(c) PROVE UNCHANGED <<panic, ctxDone>>
  BY <1>6 DEF ClientInput, PeerLost, ReadRequest, ReadSubscribe
<1>7. ASSUME NEW t \in Types, Broadcast(t) PROVE UNCHANGED <<panic, ctxDone>>
  BY <1>7 DEF Broadcast
<1>8. CASE Run
  <2>1. CASE RunRemove
    BY <1>1, <2>1 DEF RunRemove, CloseChannels
  <2>2. ASSUME NEW c \in Conns, RunDeliver(c) PROVE UNCHANGED <<panic, ctxDone>>
    BY <2>2 DEF RunDeliver, Offer
  <2>3. CASE RunCancelled
    <3>1. clients \cap closed = {}
      OBVIOUS
    <3> QED
      BY <1>1, <2>3, <3>1 DEF RunCancelled, CloseAllClients
  <2>4. CASE RunInsert \/ RunReceive \/ RunDelivered \/ RunExit \/ RunDone
    BY <1>1, <2>4 DEF RunInsert, RunReceive, RunDelivered, RunExit, RunDone
  <2> QED
    BY <1>1, <1>8, <2>1, <2>2, <2>3, <2>4 DEF Run
<1>9. CASE Shutdown
  <2>1. clients \cap closed = {}
    OBVIOUS
  <2> QED
    BY <1>1, <1>9, <2>1 DEF Shutdown, Signal, Close, CloseDone, CloseAllClients
<1>10. CASE UNCHANGED vars
  BY <1>1, <1>10 DEF vars
<1> QED
  BY <1>1, <1>2, <1>3, <1>4, <1>5, <1>6, <1>7, <1>8, <1>9, <1>10 DEF Next

\* Run never sends on a closed channel and nothing is closed twice, with Close
\* and a cancelled Run removing clients at the same time.
THEOREM RunNeverPanics == Spec => []HubNeverPanics
<1>1. Init => HubNeverPanics /\ PanicOnlyInShutdown
  BY DEF Init, HubNeverPanics, PanicOnlyInShutdown
<1> QED
  BY <1>1, PanicStep, TypeCorrect, HubInvariant, PTL DEF Spec

\* The unlocked SendMessage of ReadPump is safe until the shutdown begins.
THEOREM ServicePanicFree == Spec => []PanicOnlyInShutdown
<1>1. Init => HubNeverPanics /\ PanicOnlyInShutdown
  BY DEF Init, HubNeverPanics, PanicOnlyInShutdown
<1> QED
  BY <1>1, PanicStep, TypeCorrect, HubInvariant, PTL DEF Spec

--------------------------------------------------------------------------------
(* The map and the channels. *)

\* A step that leaves the map, the channels, Run's client and the handlers alone,
\* and does not reopen done, keeps the map and the channels in agreement.
LEMMA MapStays ==
  ASSUME MapMatchesChannels, UNCHANGED <<clients, closed, handler, cur>>,
         hubDone => hubDone', run' = "removing" => run = "removing"
  PROVE  MapMatchesChannels'
  BY DEF MapMatchesChannels

\* One step keeps the map and the channels in agreement.
LEMMA MapStep ==
  ASSUME TypeOK, HubInv, MapMatchesChannels, [Next]_vars
  PROVE  MapMatchesChannels'
<1> USE HubAssumption DEF TypeOK, HubInv, stopVars, runVars, clientVars, queueVars
<1>1. ASSUME NEW c \in Conns, ServeHTTP(c) PROVE MapMatchesChannels'
  <2>1. CASE Unauthorized(c)
    BY <2>1 DEF Unauthorized, MapMatchesChannels
  <2>2. CASE TryAdd(c)
    BY <2>2 DEF TryAdd, MapMatchesChannels
  <2>3. CASE UpgradeFails(c)
    BY <2>3 DEF UpgradeFails, MapMatchesChannels
  <2>4. CASE Upgrade(c)
    BY <2>4 DEF Upgrade, NewClient, MapMatchesChannels
  <2>5. CASE Register(c)
    BY <2>5 DEF Register, StartPumps, MapMatchesChannels
  <2>6. CASE RegisterAfterDone(c)
    BY <2>6 DEF RegisterAfterDone, StartPumps, MapMatchesChannels
  <2> QED
    BY <1>1, <2>1, <2>2, <2>3, <2>4, <2>5, <2>6 DEF ServeHTTP
<1>2. ASSUME NEW c \in Conns, TrackDisconnect(c) PROVE MapMatchesChannels'
  BY <1>2, MapStays DEF TrackDisconnect
<1>3. ASSUME NEW c \in Conns, ReadPump(c) PROVE MapMatchesChannels'
  <2>1. CASE SendMessage(c) \/ ReadFails(c) \/ UnregisterAfterDone(c)
    BY <2>1, MapStays DEF SendMessage, ReadFails, UnregisterAfterDone, LeaveReadPump
  <2>2. CASE Unregister(c)
    \* A client that leaves was received before: it is in the map, or closed.
    <3>1. handler[c] = "returned" /\ cur = NoConn
      BY <2>2 DEF Unregister
    <3>2. c \in clients \cup closed \/ hubDone
      BY <3>1 DEF MapMatchesChannels
    <3> QED
      BY <2>2, <3>1, <3>2 DEF Unregister, LeaveReadPump, MapMatchesChannels
  <2> QED
    BY <1>3, <2>1, <2>2 DEF ReadPump
<1>4. ASSUME NEW c \in Conns, WritePump(c) PROVE MapMatchesChannels'
  BY <1>4, MapStays DEF WritePump, WriteMessage, WriteFails, WriteClose, LeaveWritePump
<1>5. ASSUME NEW c \in Conns, ClientInput(c) PROVE MapMatchesChannels'
  BY <1>5, MapStays DEF ClientInput, PeerLost, ReadRequest, ReadSubscribe
<1>6. ASSUME NEW t \in Types, Broadcast(t) PROVE MapMatchesChannels'
  BY <1>6, MapStays DEF Broadcast
<1>7. CASE Run
  <2>1. CASE RunInsert
    BY <2>1 DEF RunInsert, MapMatchesChannels
  <2>2. CASE RunRemove
    <3>1. CASE cur \in clients
      BY <2>2, <3>1 DEF RunRemove, Delete, CloseChannels, MapMatchesChannels
    <3>2. CASE cur \notin clients
      BY <2>2, <3>2 DEF RunRemove, MapMatchesChannels
    <3> QED
      BY <3>1, <3>2
  <2>3. CASE RunReceive \/ RunDelivered
    BY <2>3, MapStays DEF RunReceive, RunDelivered
  <2>4. ASSUME NEW c \in Conns, RunDeliver(c) PROVE MapMatchesChannels'
    BY <2>4, MapStays DEF RunDeliver
  <2>5. CASE RunCancelled
    BY <2>5 DEF RunCancelled, CloseAllClients, MapMatchesChannels
  <2>6. CASE RunExit \/ RunDone
    BY <2>6, MapStays DEF RunExit, RunDone
  <2> QED
    BY <1>7, <2>1, <2>2, <2>3, <2>4, <2>5, <2>6 DEF Run
<1>8. CASE Shutdown
  <2>1. CASE Signal \/ CloseDone
    BY <2>1, MapStays DEF Signal, CloseDone
  <2>2. CASE Close
    BY <2>2 DEF Close, CloseAllClients, MapMatchesChannels
  <2> QED
    BY <1>8, <2>1, <2>2 DEF Shutdown
<1>9. CASE UNCHANGED vars
  BY <1>9, MapStays DEF vars
<1> QED
  BY <1>1, <1>2, <1>3, <1>4, <1>5, <1>6, <1>7, <1>8, <1>9 DEF Next

\* Until done is closed a client that Run has received stays in the map until its
\* channels are closed, and the unregister case misses none with open channels.
THEOREM MapCorrect == Spec => []MapMatchesChannels
<1>1. Init => MapMatchesChannels
  BY DEF Init, MapMatchesChannels
<1> QED
  BY <1>1, MapStep, TypeCorrect, HubInvariant, PTL DEF Spec

--------------------------------------------------------------------------------
(* The order of delivery. *)

\* Taking the first message of a channel keeps the rest in order, and what it took
\* is older than the broadcasts it leaves.
LEMMA TailOrder ==
  ASSUME NEW s \in Seq(Broadcasts \cup {Reply}), s # <<>>, Increasing(s)
  PROVE  /\ Increasing(Tail(s))
         /\ \A i \in Waiting(Tail(s)) : i + 1 \in Waiting(s) /\ Tail(s)[i] = s[i + 1]
         /\ 1 \in DOMAIN s
         /\ s[1] # Reply => \A i \in Waiting(Tail(s)) : s[1].seq < Tail(s)[i].seq
<1>1. /\ Len(s) \in Nat \ {0} /\ DOMAIN s = 1 .. Len(s)
      /\ DOMAIN Tail(s) = 1 .. Len(s) - 1
      /\ \A i \in 1 .. Len(s) - 1 : Tail(s)[i] = s[i + 1]
  BY EmptySeq, LenProperties, HeadTailProperties
<1>2. \A i \in Waiting(Tail(s)) :
        i \in Nat /\ i > 0 /\ i + 1 \in Waiting(s) /\ Tail(s)[i] = s[i + 1]
  BY <1>1 DEF Waiting
<1>3. Increasing(Tail(s))
  <2> SUFFICES ASSUME NEW i \in Waiting(Tail(s)), NEW j \in Waiting(Tail(s)), i < j
               PROVE  Tail(s)[i].seq < Tail(s)[j].seq
    BY DEF Increasing
  <2>1. i + 1 \in Waiting(s) /\ j + 1 \in Waiting(s) /\ i + 1 < j + 1
    BY <1>2
  <2>2. s[i + 1].seq < s[j + 1].seq
    BY <2>1 DEF Increasing
  <2> QED
    BY <1>2, <2>2
<1>4. 1 \in DOMAIN s
  BY <1>1
<1>5. s[1] # Reply => \A i \in Waiting(Tail(s)) : s[1].seq < Tail(s)[i].seq
  BY <1>2, <1>4 DEF Increasing, Waiting
<1> QED
  BY <1>2, <1>3, <1>4, <1>5

\* Appending a message keeps a channel in order if it is an answer, or a broadcast
\* newer than those in the channel.
LEMMA AppendOrder ==
  ASSUME NEW s \in Seq(Broadcasts \cup {Reply}), NEW m \in Broadcasts \cup {Reply},
         Increasing(s), m # Reply => \A i \in Waiting(s) : s[i].seq < m.seq
  PROVE  /\ Increasing(Append(s, m))
         /\ \A i \in Waiting(Append(s, m)) :
              \/ i \in Waiting(s) /\ Append(s, m)[i] = s[i]
              \/ Append(s, m)[i] = m /\ m # Reply
<1>1. /\ Len(s) \in Nat /\ DOMAIN s = 1 .. Len(s)
      /\ DOMAIN Append(s, m) = 1 .. Len(s) + 1
      /\ \A i \in 1 .. Len(s) : Append(s, m)[i] = s[i]
      /\ Append(s, m)[Len(s) + 1] = m
  BY LenProperties, AppendProperties
<1>2. \A i \in Waiting(Append(s, m)) :
        \/ i \in Waiting(s) /\ Append(s, m)[i] = s[i] /\ i \in 1 .. Len(s)
        \/ i = Len(s) + 1 /\ Append(s, m)[i] = m /\ m # Reply
  BY <1>1 DEF Waiting
<1>3. Increasing(Append(s, m))
  <2> SUFFICES ASSUME NEW i \in Waiting(Append(s, m)), NEW j \in Waiting(Append(s, m)),
                      i < j
               PROVE  Append(s, m)[i].seq < Append(s, m)[j].seq
    BY DEF Increasing
  <2>1. i \in Waiting(s) /\ Append(s, m)[i] = s[i] /\ i \in 1 .. Len(s)
    BY <1>1, <1>2 DEF Waiting
  <2> QED
    BY <1>2, <2>1 DEF Increasing
<1> QED
  BY <1>2, <1>3

\* What DeliveryOrder says of one client.
ClientOrder(c) ==
  /\ Increasing(send[c])
  /\ \A i \in Waiting(send[c]) : last[c] < send[c][i].seq
  /\ c \in left => SentBefore(c, msg.seq)
  /\ \A j \in DOMAIN queue : SentBefore(c, queue[j].seq)
  /\ SentBefore(c, issued + 1)
\* What it says of the queue and of the message in Run's hands.
QueueOrder ==
  /\ Increasing(queue) /\ \A j \in DOMAIN queue : queue[j].seq <= issued
  /\ run = "fanout" =>
       msg.seq <= issued /\ \A j \in DOMAIN queue : msg.seq < queue[j].seq

\* DeliveryOrder is the conjunction of the two.
LEMMA OrderParts == DeliveryOrder <=> QueueOrder /\ \A c \in Conns : ClientOrder(c)
  BY DEF DeliveryOrder, QueueOrder, ClientOrder

\* A step that leaves the queue, the fan-out and the channels alone, and starts no
\* fan-out, keeps the order.
LEMMA OrderStays ==
  ASSUME DeliveryOrder, UNCHANGED <<queue, issued, send, last>>,
         UNCHANGED <<msg, left>> \/ left' = {},
         run' = "fanout" => run = "fanout" /\ msg' = msg
  PROVE  DeliveryOrder'
  BY DEF DeliveryOrder, SentBefore

\* The way of a message through Enqueue keeps its client's order, and leaves the
\* other clients alone.
LEMMA EnqueueOrder ==
  ASSUME TypeOK, DeliveryOrder, NEW c \in Conns, NEW m \in Broadcasts \cup {Reply},
         Enqueue(c, m), UNCHANGED <<queue, issued, run, msg, last>>,
         left' \subseteq left, m # Reply => c \notin left',
         m # Reply => /\ SentBefore(c, m.seq) /\ m.seq <= issued
                      /\ \A j \in DOMAIN queue : m.seq < queue[j].seq
  PROVE  DeliveryOrder'
<1> USE DEF TypeOK
<1>1. QueueOrder'
  BY OrderParts DEF QueueOrder
<1>2. ASSUME NEW d \in Conns, send'[d] = send[d] PROVE ClientOrder(d)'
  BY <1>2, OrderParts DEF ClientOrder, SentBefore
<1>3. \A d \in Conns \ {c} : send'[d] = send[d]
  BY DEF Enqueue
<1>4. CASE Len(send[c]) < SendCap
  <2>1. send'[c] = Append(send[c], m)
    BY <1>4 DEF Enqueue
  <2>2. ClientOrder(c)
    BY OrderParts
  <2>3. /\ Increasing(send'[c])
        /\ \A i \in Waiting(send'[c]) :
             \/ i \in Waiting(send[c]) /\ send'[c][i] = send[c][i]
             \/ send'[c][i] = m /\ m # Reply
    <3>1. send[c] \in Seq(Broadcasts \cup {Reply}) /\ Increasing(send[c])
      BY <2>2 DEF ClientOrder
    <3>2. m # Reply => \A i \in Waiting(send[c]) : send[c][i].seq < m.seq
      BY DEF SentBefore
    <3>3. /\ Increasing(Append(send[c], m))
          /\ \A i \in Waiting(Append(send[c], m)) :
               \/ i \in Waiting(send[c]) /\ Append(send[c], m)[i] = send[c][i]
               \/ Append(send[c], m)[i] = m /\ m # Reply
      BY <3>1, <3>2, AppendOrder, Zenon
    <3> QED
      BY <2>1, <3>3, Zenon
  <2>4. m # Reply => m.seq \in Nat /\ last[c] < m.seq /\ m.seq < issued + 1
    BY DEF SentBefore, Broadcasts, Seqnos
  <2>5. c \in left' => SentBefore(c, msg.seq)'
    BY <2>2, <2>3 DEF ClientOrder, SentBefore
  <2>6. \A j \in DOMAIN queue' : SentBefore(c, queue[j].seq)'
    BY <2>2, <2>3 DEF ClientOrder, SentBefore
  <2>7. SentBefore(c, issued + 1)'
    BY <2>2, <2>3, <2>4 DEF ClientOrder, SentBefore
  <2>8. \A i \in Waiting(send'[c]) : last'[c] < send'[c][i].seq
    BY <2>2, <2>3, <2>4 DEF ClientOrder
  <2>9. ClientOrder(c)'
    BY <2>3, <2>5, <2>6, <2>7, <2>8 DEF ClientOrder
  <2> QED
    BY <1>1, <1>2, <1>3, <2>9 DEF DeliveryOrder, QueueOrder, ClientOrder
<1>5. CASE ~(Len(send[c]) < SendCap)
  <2>1. send' = send
    BY <1>5 DEF Enqueue
  <2> QED
    BY <1>1, <1>2, <2>1 DEF DeliveryOrder, QueueOrder, ClientOrder
<1> QED
  BY <1>4, <1>5

\* Taking the first message of send keeps the order, whether it is written to the
\* peer or lost: what stays in send is newer than what was written.
LEMMA ReceiveOrder ==
  ASSUME TypeOK, DeliveryOrder, NEW c \in Conns, send[c] # <<>>,
         send' = [send EXCEPT ![c] = Tail(@)],
         UNCHANGED <<queue, issued, run, msg, left>>,
         \/ last' = last
         \/ send[c][1] # Reply /\ last' = [last EXCEPT ![c] = send[c][1].seq]
  PROVE  DeliveryOrder'
<1> USE DEF TypeOK
<1>1. QueueOrder'
  BY OrderParts DEF QueueOrder
<1>2. ASSUME NEW d \in Conns, d # c PROVE ClientOrder(d)'
  <2>1. send'[d] = send[d] /\ last'[d] = last[d]
    BY <1>2
  <2> QED
    BY <2>1, OrderParts DEF ClientOrder, SentBefore
<1>3. ClientOrder(c)
  BY OrderParts
<1>4. /\ send'[c] = Tail(send[c])
      /\ \/ last'[c] = last[c]
         \/ send[c][1] # Reply /\ last'[c] = send[c][1].seq
  <2>1. send'[c] = Tail(send[c])
    OBVIOUS
  <2>2. CASE last' = last
    BY <2>1, <2>2
  <2>3. CASE send[c][1] # Reply /\ last' = [last EXCEPT ![c] = send[c][1].seq]
    BY <2>1, <2>3
  <2> QED
    BY <2>2, <2>3
<1>5. /\ Increasing(Tail(send[c]))
      /\ \A i \in Waiting(Tail(send[c])) :
           i + 1 \in Waiting(send[c]) /\ Tail(send[c])[i] = send[c][i + 1]
      /\ 1 \in DOMAIN send[c]
      /\ send[c][1] # Reply => \A i \in Waiting(Tail(send[c])) :
                                 send[c][1].seq < Tail(send[c])[i].seq
  <2>1. send[c] \in Seq(Broadcasts \cup {Reply}) /\ Increasing(send[c])
    BY <1>3 DEF ClientOrder
  <2> QED
    BY <2>1, TailOrder, Zenon
<1>6. \A i \in Waiting(send'[c]) : \E k \in Waiting(send[c]) : send'[c][i] = send[c][k]
  BY <1>4, <1>5
<1>7. send[c][1] # Reply => 1 \in Waiting(send[c])
  BY <1>5 DEF Waiting
<1>8. \A i \in Waiting(send'[c]) : last'[c] < send'[c][i].seq
  BY <1>3, <1>4, <1>5, <1>6 DEF ClientOrder
<1>9. ASSUME NEW n, SentBefore(c, n)
      PROVE  last'[c] < n /\ \A i \in Waiting(send'[c]) : send'[c][i].seq < n
  BY <1>4, <1>6, <1>7, <1>9 DEF SentBefore
<1>10. c \in left' => SentBefore(c, msg.seq)'
  BY <1>3, <1>9 DEF ClientOrder, SentBefore
<1>11. \A j \in DOMAIN queue' : SentBefore(c, queue[j].seq)'
  <2> SUFFICES ASSUME NEW j \in DOMAIN queue PROVE SentBefore(c, queue[j].seq)'
    OBVIOUS
  <2>1. SentBefore(c, queue[j].seq)
    BY <1>3 DEF ClientOrder
  <2> QED
    BY <1>9, <2>1 DEF SentBefore
<1>12. SentBefore(c, issued + 1)'
  BY <1>3, <1>9 DEF ClientOrder, SentBefore
<1>13. Increasing(send'[c])
  BY <1>4, <1>5, Zenon
<1>14. ClientOrder(c)'
  BY <1>8, <1>10, <1>11, <1>12, <1>13 DEF ClientOrder
<1> QED
  BY <1>1, <1>2, <1>14 DEF DeliveryOrder, QueueOrder, ClientOrder

\* A broadcast that is queued is newer than everything issued before it.
LEMMA BroadcastOrder ==
  ASSUME TypeOK, DeliveryOrder, NEW t \in Types, Broadcast(t)
  PROVE  DeliveryOrder'
<1> USE DEF TypeOK, runVars, clientVars
<1> DEFINE m == [type |-> t, seq |-> issued + 1]
<1>1. /\ issued \in Nat /\ issued' = issued + 1 /\ m \in Broadcasts /\ m # Reply
      /\ m.seq = issued + 1
      /\ UNCHANGED <<run, msg, left, send, last>>
  BY HubAssumption DEF Broadcast, Broadcasts, Seqnos, Reply
<1>2. \A j \in DOMAIN queue : queue[j] \in Broadcasts /\ queue[j].seq \in Nat
                              /\ queue[j].seq <= issued
  <2>1. \A j \in DOMAIN queue : queue[j] \in Broadcasts
    BY LenProperties, ElementOfSeq
  <2> QED
    BY <2>1 DEF DeliveryOrder, Broadcasts, Seqnos
<1>3. run = "fanout" => msg.seq \in Nat /\ msg.seq <= issued
  BY DEF DeliveryOrder, Broadcasts, Seqnos
<1>4. \A c \in Conns : SentBefore(c, issued + 1) /\ SentBefore(c, issued + 2)
  BY <1>1 DEF DeliveryOrder, SentBefore, Waiting, Broadcasts, Seqnos, Reply
<1> HIDE DEF m
<1>5. CASE Len(queue) < QueueCap
  <2>1. queue' = Append(queue, m)
    BY <1>5 DEF Broadcast, m
  <2>2. /\ Increasing(queue')
        /\ \A j \in DOMAIN queue' : \/ j \in DOMAIN queue /\ queue'[j] = queue[j]
                                    \/ queue'[j] = m
    <3>1. queue \in Seq(Broadcasts \cup {Reply}) /\ Increasing(queue)
      BY SeqMonotonic, Broadcasts \subseteq Broadcasts \cup {Reply} DEF DeliveryOrder
    <3>2. m # Reply => \A i \in Waiting(queue) : queue[i].seq < m.seq
      BY <1>1, <1>2 DEF Waiting
    <3>3. Increasing(Append(queue, m))
      BY <1>1, <3>1, <3>2, AppendOrder, Zenon
    <3>4. \A j \in DOMAIN Append(queue, m) :
            \/ j \in DOMAIN queue /\ Append(queue, m)[j] = queue[j]
            \/ Append(queue, m)[j] = m
      <4>1. /\ Len(queue) \in Nat /\ DOMAIN queue = 1 .. Len(queue)
            /\ DOMAIN Append(queue, m) = 1 .. Len(queue) + 1
            /\ \A j \in 1 .. Len(queue) : Append(queue, m)[j] = queue[j]
            /\ Append(queue, m)[Len(queue) + 1] = m
        BY <1>1, LenProperties, AppendProperties
      <4> QED
        BY <4>1
    <3> QED
      BY <2>1, <3>3, <3>4, Zenon
  <2>3. QueueOrder'
    <3>1. Increasing(queue)'
      BY <2>2 DEF Increasing, Waiting
    <3>2. \A j \in DOMAIN queue' : queue'[j].seq <= issued'
      <4> SUFFICES ASSUME NEW j \in DOMAIN queue' PROVE queue'[j].seq <= issued'
        OBVIOUS
      <4>1. CASE j \in DOMAIN queue /\ queue'[j] = queue[j]
        BY <1>1, <1>2, <4>1
      <4>2. CASE queue'[j] = m
        BY <1>1, <4>2
      <4> QED
        BY <2>2, <4>1, <4>2
    <3>3. run' = "fanout" => msg'.seq <= issued'
                             /\ \A j \in DOMAIN queue' : msg'.seq < queue'[j].seq
      <4> SUFFICES ASSUME run = "fanout", NEW j \in DOMAIN queue'
                   PROVE  msg.seq <= issued + 1 /\ msg.seq < queue'[j].seq
        BY <1>1, <1>3
      <4>1. CASE j \in DOMAIN queue /\ queue'[j] = queue[j]
        BY <1>1, <1>3, <4>1 DEF DeliveryOrder
      <4>2. CASE queue'[j] = m
        BY <1>1, <1>3, <4>2
      <4> QED
        BY <2>2, <4>1, <4>2
    <3> QED
      BY <3>1, <3>2, <3>3 DEF QueueOrder
  <2>4. ASSUME NEW c \in Conns PROVE ClientOrder(c)'
    <3>1. \A j \in DOMAIN queue' : SentBefore(c, queue'[j].seq)
      BY <1>1, <1>4, <2>2 DEF DeliveryOrder
    <3> QED
      BY <1>1, <1>4, <3>1 DEF DeliveryOrder, ClientOrder, SentBefore
  <2> QED
    BY <2>3, <2>4 DEF DeliveryOrder, QueueOrder, ClientOrder
<1>6. CASE ~(Len(queue) < QueueCap)
  <2>1. queue' = queue
    BY <1>6 DEF Broadcast
  <2> QED
    BY <1>1, <1>2, <1>3, <1>4, <2>1 DEF DeliveryOrder, SentBefore
<1> QED
  BY <1>5, <1>6

\* The broadcast Run takes is older than those left in the queue and newer than
\* what any client was sent.
LEMMA RunReceiveOrder ==
  ASSUME TypeOK, DeliveryOrder, RunReceive
  PROVE  DeliveryOrder'
<1> USE DEF TypeOK, clientVars
<1>1. /\ queue # <<>> /\ queue' = Tail(queue) /\ msg' = Head(queue)
      /\ UNCHANGED <<issued, send, last>>
  BY DEF RunReceive, Dequeue
<1>2. queue \in Seq(Broadcasts \cup {Reply}) /\ Increasing(queue)
  BY SeqMonotonic, Broadcasts \subseteq Broadcasts \cup {Reply} DEF DeliveryOrder
<1>3. /\ DOMAIN queue = 1 .. Len(queue) /\ Len(queue) \in Nat \ {0}
      /\ DOMAIN queue' = 1 .. Len(queue) - 1 /\ msg' = queue[1]
      /\ \A j \in DOMAIN queue' : j + 1 \in DOMAIN queue /\ queue'[j] = queue[j + 1]
  <2>1. /\ DOMAIN queue = 1 .. Len(queue) /\ Len(queue) \in Nat \ {0}
        /\ DOMAIN Tail(queue) = 1 .. Len(queue) - 1 /\ Head(queue) = queue[1]
        /\ \A j \in 1 .. Len(queue) - 1 : Tail(queue)[j] = queue[j + 1]
    BY <1>1, EmptySeq, LenProperties, HeadTailProperties
  <2> QED
    BY <1>1, <2>1
<1>4. \A j \in DOMAIN queue : queue[j] \in Broadcasts /\ j \in Waiting(queue)
  <2>1. \A j \in DOMAIN queue : queue[j] \in Broadcasts
    BY LenProperties, ElementOfSeq
  <2> QED
    BY <2>1 DEF Waiting, Broadcasts, Seqnos, Reply
<1>5. Increasing(queue)'
  <2>1. Increasing(Tail(queue))
    BY <1>1, <1>2, TailOrder, Zenon
  <2> QED
    BY <1>1, <2>1 DEF Increasing, Waiting
<1>6. \A j \in DOMAIN queue' : queue[1].seq < queue'[j].seq
  <2> SUFFICES ASSUME NEW j \in DOMAIN queue' PROVE queue[1].seq < queue[j + 1].seq
    BY <1>3
  <2>1. 1 \in DOMAIN queue /\ j + 1 \in DOMAIN queue /\ 1 < j + 1
    BY <1>3
  <2>2. 1 \in Waiting(queue) /\ j + 1 \in Waiting(queue)
    BY <1>4, <2>1
  <2> QED
    BY <1>2, <2>1, <2>2 DEF Increasing
<1>7. QueueOrder'
  <2>1. 1 \in DOMAIN queue
    BY <1>3
  <2>2. queue[1].seq <= issued
    BY <2>1 DEF DeliveryOrder
  <2>3. \A j \in DOMAIN queue' : queue'[j].seq <= issued
    BY <1>3 DEF DeliveryOrder
  <2> QED
    BY <1>1, <1>3, <1>5, <1>6, <2>2, <2>3 DEF QueueOrder
<1>8. ASSUME NEW c \in Conns PROVE ClientOrder(c)'
  <2>1. /\ SentBefore(c, queue[1].seq)
        /\ \A j \in DOMAIN queue' : SentBefore(c, queue'[j].seq)
    BY <1>3 DEF DeliveryOrder
  <2> QED
    BY <1>1, <1>3, <2>1 DEF DeliveryOrder, ClientOrder, SentBefore, Increasing, Waiting
<1> QED
  BY <1>7, <1>8 DEF DeliveryOrder, QueueOrder, ClientOrder

\* One step keeps the order of delivery.
LEMMA DeliveryStep ==
  ASSUME TypeOK, HubInv, DeliveryOrder, [Next]_vars
  PROVE  DeliveryOrder'
<1> USE DEF stopVars, runVars, clientVars, queueVars
<1>1. ASSUME NEW c \in Conns, ServeHTTP(c) PROVE DeliveryOrder'
  BY <1>1, OrderStays DEF ServeHTTP, Unauthorized, TryAdd, UpgradeFails, Upgrade,
       NewClient, Register, RegisterAfterDone, StartPumps
<1>2. ASSUME NEW c \in Conns, TrackDisconnect(c) PROVE DeliveryOrder'
  BY <1>2, OrderStays DEF TrackDisconnect
<1>3. ASSUME NEW c \in Conns, ReadPump(c) PROVE DeliveryOrder'
  <2>1. CASE SendMessage(c)
    <3>1. CASE c \in closed
      BY <2>1, <3>1, OrderStays DEF SendMessage
    <3>2. CASE c \notin closed
      <4>1. /\ Enqueue(c, Reply) /\ UNCHANGED <<queue, issued, run, msg, last>>
            /\ left' \subseteq left
        BY <2>1, <3>2 DEF SendMessage
      <4> QED
        BY <4>1, EnqueueOrder
    <3> QED
      BY <3>1, <3>2
  <2>2. CASE ReadFails(c) \/ Unregister(c) \/ UnregisterAfterDone(c)
    BY <2>2, OrderStays DEF ReadFails, Unregister, UnregisterAfterDone, LeaveReadPump
  <2> QED
    BY <1>3, <2>1, <2>2 DEF ReadPump
<1>4. ASSUME NEW c \in Conns, WritePump(c) PROVE DeliveryOrder'
  <2>1. CASE WriteMessage(c)
    <3>1. /\ send[c] # <<>> /\ send' = [send EXCEPT ![c] = Tail(@)]
          /\ UNCHANGED <<queue, issued, run, msg, left>>
      BY <2>1 DEF WriteMessage
    <3>2. Head(send[c]) = send[c][1]
      BY <3>1, HeadTailProperties DEF TypeOK
    <3>3. \/ last' = last
          \/ send[c][1] # Reply /\ last' = [last EXCEPT ![c] = send[c][1].seq]
      BY <2>1, <3>2 DEF WriteMessage, TypeOK
    <3> QED
      BY <3>1, <3>3, ReceiveOrder
  <2>2. CASE WriteFails(c)
    <3>1. CASE UNCHANGED send
      BY <2>2, <3>1, OrderStays DEF WriteFails, LeaveWritePump
    <3>2. CASE send[c] # <<>> /\ send' = [send EXCEPT ![c] = Tail(@)]
      <4>1. UNCHANGED <<queue, issued, run, msg, left, last>>
        BY <2>2 DEF WriteFails, LeaveWritePump
      <4> QED
        BY <3>2, <4>1, ReceiveOrder
    <3> QED
      BY <2>2, <3>1, <3>2 DEF WriteFails
  <2>3. CASE WriteClose(c)
    BY <2>3, OrderStays DEF WriteClose, LeaveWritePump
  <2> QED
    BY <1>4, <2>1, <2>2, <2>3 DEF WritePump
<1>5. ASSUME NEW c \in Conns, ClientInput(c) PROVE DeliveryOrder'
  BY <1>5, OrderStays DEF ClientInput, PeerLost, ReadRequest, ReadSubscribe
<1>6. ASSUME NEW t \in Types, Broadcast(t) PROVE DeliveryOrder'
  BY <1>6, BroadcastOrder
<1>7. CASE Run
  <2>1. CASE RunInsert \/ RunRemove \/ RunExit \/ RunDone
    BY <2>1, OrderStays DEF RunInsert, RunRemove, RunExit, RunDone
  <2>2. CASE RunReceive
    BY <2>2, RunReceiveOrder
  <2>3. CASE RunDelivered
    BY <2>3, OrderStays DEF RunDelivered
  <2>4. ASSUME NEW c \in Conns, RunDeliver(c) PROVE DeliveryOrder'
    <3>1. /\ run = "fanout" /\ c \in left /\ left' = left \ {c}
          /\ UNCHANGED <<queue, issued, run, msg, last>>
      BY <2>4 DEF RunDeliver
    <3>2. CASE UNCHANGED send
      BY <3>1, <3>2 DEF DeliveryOrder, SentBefore
    <3>3. CASE Enqueue(c, msg)
      <4>1. msg \in Broadcasts /\ SentBefore(c, msg.seq) /\ msg.seq <= issued
            /\ \A j \in DOMAIN queue : msg.seq < queue[j].seq
        BY <3>1 DEF TypeOK, DeliveryOrder
      <4> QED
        BY <3>1, <3>3, <4>1, EnqueueOrder
    <3> QED
      BY <2>4, <3>2, <3>3 DEF RunDeliver, Offer
  <2>5. CASE RunCancelled
    BY <2>5, OrderStays DEF RunCancelled, CloseAllClients
  <2> QED
    BY <1>7, <2>1, <2>2, <2>3, <2>4, <2>5 DEF Run
<1>8. CASE Shutdown
  BY <1>8, OrderStays DEF Shutdown, Signal, Close, CloseDone, CloseAllClients
<1>9. CASE UNCHANGED vars
  BY <1>9, OrderStays DEF vars
<1> QED
  BY <1>1, <1>2, <1>3, <1>4, <1>5, <1>6, <1>7, <1>8, <1>9 DEF Next

\* Each client is written the broadcasts in the order in which they were issued and
\* at most once, for any capacities of the channels and any mix of drops, write
\* failures and answers of its ReadPump in between.
THEOREM DeliveryOrdered == Spec => []DeliveryOrder
<1>1. Init => DeliveryOrder
  <2> SUFFICES ASSUME Init PROVE DeliveryOrder
    OBVIOUS
  <2>1. DOMAIN queue = {} /\ \A c \in Conns : DOMAIN send[c] = {} /\ last[c] < issued + 1
    BY DEF Init
  <2> QED
    BY <2>1 DEF Init, DeliveryOrder, Increasing, Waiting, SentBefore
<1> QED
  BY <1>1, DeliveryStep, TypeCorrect, HubInvariant, PTL DEF Spec

--------------------------------------------------------------------------------
(* The connection limit.  Every step either leaves the slots alone, or admits, *)
(* turns away or releases one connection.                                      *)

SlotStutter == Phase' = Phase /\ count' = count
SlotTaken(c) ==
  /\ Phase[c] = "new" /\ count < MaxConn /\ count' = count + 1
  /\ Phase' = [Phase EXCEPT ![c] = "admitted"]
SlotDenied(c) ==
  /\ Phase[c] = "new" /\ count' = count
  /\ Phase' = [Phase EXCEPT ![c] = "over"]
SlotReturned(c) ==
  /\ Phase[c] = "admitted" /\ Remove
  /\ Phase' = [Phase EXCEPT ![c] = "over"]

\* Every step of the hub leaves the slots alone, takes one below the limit, turns
\* a request away or gives one back.
LEMMA SlotSteps ==
  ASSUME TypeOK, HubInv, [Next]_vars
  PROVE  \/ SlotStutter
         \/ \E c \in Conns : SlotTaken(c) \/ SlotDenied(c) \/ SlotReturned(c)
<1> USE HubAssumption DEF TypeOK, HubInv, Phase, Held
<1>1. ASSUME UNCHANGED <<handler, watcher, count>> PROVE SlotStutter
  BY <1>1 DEF SlotStutter
<1>2. ASSUME NEW c \in Conns, Unauthorized(c) PROVE SlotDenied(c)
  BY <1>2 DEF Unauthorized, SlotDenied, clientVars
<1>3. ASSUME NEW c \in Conns, TryAdd(c) PROVE SlotTaken(c) \/ SlotDenied(c)
  <2>1. CASE Full
    BY <1>3, <2>1 DEF TryAdd, SlotDenied, clientVars
  <2>2. CASE ~Full
    <3>1. handler[c] = "idle" /\ handler' = [handler EXCEPT ![c] = "reserved"]
          /\ count' = count + 1 /\ watcher' = watcher
      BY <1>3, <2>2 DEF TryAdd, clientVars
    <3>2. count < MaxConn
      BY <2>2 DEF Full
    <3>3. Phase[c] = "new" /\ Phase' = [Phase EXCEPT ![c] = "admitted"]
      BY <3>1
    <3> QED
      BY <3>1, <3>2, <3>3 DEF SlotTaken
  <2> QED
    BY <2>1, <2>2
<1>4. ASSUME NEW c \in Conns, UpgradeFails(c) PROVE SlotReturned(c)
  BY <1>4 DEF UpgradeFails, ReservationReturned, SlotReturned, clientVars
<1>5. ASSUME NEW c \in Conns, Upgrade(c) PROVE SlotStutter
  BY <1>5 DEF Upgrade, NewClient, SlotStutter
<1>6. ASSUME NEW c \in Conns, Register(c) \/ RegisterAfterDone(c) PROVE SlotStutter
  BY <1>6 DEF Register, RegisterAfterDone, StartPumps, SlotStutter
<1>7. ASSUME NEW c \in Conns, TrackDisconnect(c) PROVE SlotReturned(c)
  BY <1>7 DEF TrackDisconnect, SlotReturned
<1>8. ASSUME NEW c \in Conns, ReadPump(c) PROVE SlotStutter
  BY <1>1, <1>8 DEF ReadPump, SendMessage, ReadFails, Unregister,
                    UnregisterAfterDone, LeaveReadPump
<1>9. ASSUME NEW c \in Conns, WritePump(c) PROVE SlotStutter
  BY <1>1, <1>9 DEF WritePump, WriteMessage, WriteFails, WriteClose, LeaveWritePump
<1>10. ASSUME NEW c \in Conns, ClientInput(c) PROVE SlotStutter
  BY <1>1, <1>10 DEF ClientInput, PeerLost, ReadRequest, ReadSubscribe
<1>11. ASSUME NEW t \in Types, Broadcast(t) PROVE SlotStutter
  BY <1>1, <1>11 DEF Broadcast, clientVars
<1>12. CASE Run
  BY <1>1, <1>12 DEF Run, RunInsert, RunRemove, RunReceive, RunDelivered, RunDeliver,
       RunCancelled, RunExit, RunDone, CloseAllClients, clientVars
<1>13. CASE Shutdown
  BY <1>1, <1>13 DEF Shutdown, Signal, Close, CloseDone, CloseAllClients, clientVars
<1>14. CASE UNCHANGED vars
  BY <1>1, <1>14 DEF vars, clientVars
<1> QED
  BY <1>2, <1>3, <1>4, <1>5, <1>6, <1>7, <1>8, <1>9, <1>10, <1>11, <1>12, <1>13,
     <1>14 DEF Next, ServeHTTP

\* A step that changes one connection's phase changes the set of slot holders
\* by at most that connection.
LEMMA HeldByPhase == Held = {c \in Conns : Phase[c] = "admitted"}
  BY DEF Phase, Held

\* Each of those steps changes the count and the set of holders together.
LEMMA SlotAccountingStep ==
  ASSUME TypeOK, HubInv, SlotAccounting, [Next]_vars
  PROVE  SlotAccounting'
<1> USE DEF SlotAccounting
<1> DEFINE H == {c \in Conns : Phase[c] = "admitted"}
<1>1. Held = H /\ Held' = H'
  BY HeldByPhase DEF Phase, Held
<1>2. DOMAIN Phase = Conns /\ IsFiniteSet(H) /\ Cardinality(H) \in Nat
  BY HubAssumption, FS_Subset, FS_CardinalityType DEF Phase
<1>3. CASE SlotStutter
  BY <1>1, <1>3 DEF SlotStutter
<1>4. ASSUME NEW c \in Conns, SlotTaken(c) PROVE SlotAccounting'
  <2>1. c \notin H /\ H' = H \cup {c}
    BY <1>2, <1>4 DEF SlotTaken
  <2>2. Cardinality(H') = Cardinality(H) + 1
    BY <1>2, <2>1, FS_AddElement
  <2> QED
    BY <1>1, <1>4, <2>2 DEF SlotTaken
<1>5. ASSUME NEW c \in Conns, SlotDenied(c) PROVE SlotAccounting'
  <2>1. H' = H
    BY <1>2, <1>5 DEF SlotDenied
  <2> QED
    BY <1>1, <1>5, <2>1 DEF SlotDenied
<1>6. ASSUME NEW c \in Conns, SlotReturned(c) PROVE SlotAccounting'
  <2>1. c \in H /\ H' = H \ {c}
    BY <1>2, <1>6 DEF SlotReturned
  <2>2. Cardinality(H') = Cardinality(H) - 1
    BY <1>2, <2>1, FS_RemoveElement
  <2>3. Cardinality(H) # 0
    BY <1>2, <2>1, FS_EmptySet
  <2>4. count' = count - 1
    BY <1>1, <1>2, <1>6, <2>3 DEF SlotReturned, Remove
  <2> QED
    BY <1>1, <2>2, <2>4
<1> QED
  BY <1>3, <1>4, <1>5, <1>6, SlotSteps

\* The tracker's count is the number of connections that hold a slot, in every
\* reachable state, for any number of connections and any limit.
THEOREM SlotsAccounted == Spec => []SlotAccounting
<1>1. Init => SlotAccounting
  <2> SUFFICES ASSUME Init PROVE SlotAccounting
    OBVIOUS
  <2>1. Held = {}
    BY DEF Init, Held
  <2> QED
    BY <2>1, FS_EmptySet DEF Init, SlotAccounting
<1> QED
  BY <1>1, SlotAccountingStep, TypeCorrect, HubInvariant, PTL DEF Spec

\* The handler, the hub and the tracker implement the abstract slot pool: at
\* most MaxConn connections are admitted, and each slot is given back once.
THEOREM SlotPoolImplemented == Spec => ImplementsSlotPool
<1>1. Init => Pool!PoolInit
  BY DEF Init, Pool!PoolInit, Phase, Held
<1>2. TypeOK /\ HubInv /\ SlotAccounting /\ [Next]_vars => [Pool!PoolNext]_Phase
  <2> SUFFICES ASSUME TypeOK, HubInv, SlotAccounting, [Next]_vars
               PROVE  [Pool!PoolNext]_Phase
    OBVIOUS
  <2>1. CASE SlotStutter
    BY <2>1 DEF SlotStutter
  <2>2. ASSUME NEW c \in Conns, SlotTaken(c) PROVE Pool!Admit(c)
    <3>1. Pool!Admitted = Held
      BY HeldByPhase DEF Pool!Admitted
    <3>2. Pool!Cardinality(Pool!Admitted) = Cardinality(Pool!Admitted)
      BY DEF Pool!Cardinality, Cardinality
    <3>3. Pool!Cardinality(Pool!Admitted) < MaxConn
      BY <2>2, <3>1, <3>2 DEF SlotTaken, SlotAccounting
    <3> QED
      BY <2>2, <3>3 DEF SlotTaken, Pool!Admit
  <2>3. ASSUME NEW c \in Conns, SlotDenied(c) PROVE Pool!TurnAway(c)
    BY <2>3 DEF SlotDenied, Pool!TurnAway
  <2>4. ASSUME NEW c \in Conns, SlotReturned(c) PROVE Pool!Release(c)
    BY <2>4 DEF SlotReturned, Pool!Release
  <2> QED
    BY <2>1, <2>2, <2>3, <2>4, SlotSteps DEF Pool!PoolNext
<1> QED
  BY <1>1, <1>2, TypeCorrect, HubInvariant, SlotsAccounted, PTL
     DEF Spec, ImplementsSlotPool, Pool!PoolSpec
================================================================================
