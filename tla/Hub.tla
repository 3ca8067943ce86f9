---------------------------------- MODULE Hub ----------------------------------
(****************************************************************************)
(* The WebSocket side of the proxy: the connection hub and its pumps        *)
(* (internal/server/hub.go), the upgrade handler (internal/server/ws.go)    *)
(* and the connection tracker (internal/server/ratelimit.go).               *)
(*                                                                          *)
(* The goroutines are                                                       *)
(*   - Hub.Run, one loop over register, unregister, broadcast, ctx, done;   *)
(*   - per connection: WSHandler.ServeHTTP, then trackDisconnect, ReadPump  *)
(*     and WritePump;                                                       *)
(*   - main, which calls Hub.Close once the signal context is done;         *)
(*   - any caller of Broadcast.                                             *)
(* register and unregister are unbuffered channels: a send is a rendezvous  *)
(* with a Run that waits in its select, so it is one step of both.  What    *)
(* Run does with the client it received is a later step of Run alone.       *)
(* hub.mu is held for the whole fan-out of a broadcast, and that is the     *)
(* only place where it is held across steps.                                *)
(****************************************************************************)
EXTENDS Naturals, Sequences, FiniteSets

CONSTANTS
  Conns,        \* upgrade requests; each is one connection, with its own uuid
  Types,        \* message types a client can subscribe to
  SendCap,      \* capacity of Client.send         (256 in the code)
  QueueCap,     \* capacity of Hub.broadcast       (256 in the code)
  MaxConn,      \* ConnectionTracker.maxConn
  NoConn,       \* Run holds no client
  MaxSeq        \* bound of the model: broadcasts issued in a behaviour

ASSUME HubAssumption ==
  /\ IsFiniteSet(Conns) /\ NoConn \notin Conns
  /\ SendCap \in Nat \ {0} /\ QueueCap \in Nat \ {0}
  /\ MaxConn \in Nat /\ MaxSeq \in Nat

Seqnos == 1 .. MaxSeq
Broadcasts == [type : Types, seq : Seqnos]
\* An answer of ReadPump itself: a current or an error message.
Reply == [type |-> "reply", seq |-> 0]
NoMsg == [type |-> "none", seq |-> 0]

VARIABLES
  ctxDone,   \* the signal context is cancelled
  hubDone,   \* Hub.done is closed
  main,      \* main's shutdown: "serving", "closing" (in Close), "closed"
  run,       \* where Hub.Run is
  cur,       \* the client Run received from register or unregister
  msg,       \* the broadcast Run is fanning out
  left,      \* the clients the fan-out has not visited yet
  clients,   \* Hub.clients
  queue,     \* Hub.broadcast
  issued,    \* number of broadcasts issued so far
  handler,   \* where WSHandler.ServeHTTP is, per connection
  conn,      \* the network connection: "none", "open", "lost", "closed"
  closed,    \* clients whose send and Done channels are closed
  send,      \* contents of Client.send
  events,    \* Client.events
  reader,    \* where ReadPump is
  writer,    \* where WritePump is
  watcher,   \* where trackDisconnect is
  last,      \* sequence number of the last broadcast written to the peer
  count,     \* ConnectionTracker.count
  panic      \* "none", or the goroutine whose panic ended the process

runVars    == <<run, cur, msg, left>>
stopVars   == <<ctxDone, hubDone, main>>
clientVars == <<conn, closed, send, events, reader, writer, watcher, last>>
queueVars  == <<queue, issued>>
vars == <<stopVars, runVars, clients, queueVars, handler, clientVars, count, panic>>

RunStates     == {"select", "inserting", "removing", "fanout", "exiting", "returned"}
HandlerStates == {"idle", "reserved", "registering", "refused", "returned"}
ConnStates    == {"none", "open", "lost", "closed"}
ReaderStates  == {"none", "reading", "replying", "leaving", "returned"}
WriterStates  == {"none", "running", "returned"}
WatcherStates == {"none", "waiting", "returned"}

TypeOK ==
  /\ ctxDone \in BOOLEAN /\ hubDone \in BOOLEAN
  /\ main \in {"serving", "closing", "closed"}
  /\ run \in RunStates
  /\ cur \in Conns \cup {NoConn}
  /\ run \in {"inserting", "removing"} => cur \in Conns
  /\ msg \in Broadcasts \cup {NoMsg}
  /\ run = "fanout" => msg \in Broadcasts
  /\ left \subseteq Conns
  /\ clients \subseteq Conns
  /\ queue \in Seq(Broadcasts) /\ Len(queue) <= QueueCap
  /\ issued \in 0 .. MaxSeq
  /\ handler \in [Conns -> HandlerStates]
  /\ conn \in [Conns -> ConnStates]
  /\ closed \subseteq Conns
  /\ send \in [Conns -> Seq(Broadcasts \cup {Reply})]
  /\ \A c \in Conns : Len(send[c]) <= SendCap
  /\ events \in [Conns -> SUBSET Types]
  /\ reader \in [Conns -> ReaderStates]
  /\ writer \in [Conns -> WriterStates]
  /\ watcher \in [Conns -> WatcherStates]
  /\ last \in [Conns -> 0 .. MaxSeq]
  /\ count \in 0 .. MaxConn
  /\ panic \in {"none", "hub", "reader"}

Init ==
  /\ ctxDone = FALSE /\ hubDone = FALSE /\ main = "serving"
  /\ run = "select" /\ cur = NoConn /\ msg = NoMsg /\ left = {}
  /\ clients = {} /\ queue = <<>> /\ issued = 0
  /\ handler = [c \in Conns |-> "idle"]
  /\ conn = [c \in Conns |-> "none"]
  /\ closed = {}
  /\ send = [c \in Conns |-> <<>>]
  /\ events = [c \in Conns |-> {}]
  /\ reader = [c \in Conns |-> "none"]
  /\ writer = [c \in Conns |-> "none"]
  /\ watcher = [c \in Conns |-> "none"]
  /\ last = [c \in Conns |-> 0]
  /\ count = 0 /\ panic = "none"

--------------------------------------------------------------------------------
(* WSHandler.ServeHTTP: reserve a slot, upgrade, register, start the pumps. *)

\* The authentication function rejects the request.
Unauthorized(c) ==
  /\ handler[c] = "idle"
  /\ handler' = [handler EXCEPT ![c] = "refused"]
  /\ UNCHANGED <<stopVars, runVars, clients, queueVars, clientVars, count, panic>>

\* Faulty variant: the limit is checked with > instead of >=.
FullOffByOne == count > MaxConn
Full == count >= MaxConn

\* ConnectionTracker.TryAdd: check and increment in one critical section.
TryAdd(c) ==
  /\ handler[c] = "idle"
  /\ IF Full
       THEN /\ handler' = [handler EXCEPT ![c] = "refused"]
            /\ UNCHANGED count
       ELSE /\ handler' = [handler EXCEPT ![c] = "reserved"]
            /\ count' = count + 1
  /\ UNCHANGED <<stopVars, runVars, clients, queueVars, clientVars, panic>>

\* ConnectionTracker.Remove.
Remove == count' = IF count > 0 THEN count - 1 ELSE count

\* Faulty variant: the reservation is not given back when the upgrade fails.
ReservationKept == UNCHANGED count
ReservationReturned == Remove

\* The upgrade fails; the deferred function gives the reservation back.
UpgradeFails(c) ==
  /\ handler[c] = "reserved"
  /\ handler' = [handler EXCEPT ![c] = "refused"]
  /\ ReservationReturned
  /\ UNCHANGED <<stopVars, runVars, clients, queueVars, clientVars, panic>>

\* A client starts with its connection, an empty send channel and no events.
NewClient(c) ==
  /\ conn' = [conn EXCEPT ![c] = "open"]
  /\ UNCHANGED <<closed, send, events>>

\* The upgrade succeeds: reserved = false, NewClient, and the call of Register.
Upgrade(c) ==
  /\ handler[c] = "reserved"
  /\ handler' = [handler EXCEPT ![c] = "registering"]
  /\ NewClient(c)
  /\ UNCHANGED <<stopVars, runVars, clients, queueVars, reader, writer, watcher,
                 last, count, panic>>

\* ServeHTTP starts trackDisconnect, WritePump and ReadPump and returns.
StartPumps(c) ==
  /\ handler' = [handler EXCEPT ![c] = "returned"]
  /\ reader' = [reader EXCEPT ![c] = "reading"]
  /\ writer' = [writer EXCEPT ![c] = "running"]
  /\ watcher' = [watcher EXCEPT ![c] = "waiting"]
  /\ UNCHANGED <<conn, closed, send, events, last>>

\* Hub.Register meets Run in its select: Run now holds the client.
Register(c) ==
  /\ handler[c] = "registering" /\ run = "select"
  /\ run' = "inserting" /\ cur' = c
  /\ StartPumps(c)
  /\ UNCHANGED <<stopVars, msg, left, clients, queueVars, count, panic>>

\* Hub.Register returns because done is closed: nobody received the client.
RegisterAfterDone(c) ==
  /\ handler[c] = "registering" /\ hubDone
  /\ StartPumps(c)
  /\ UNCHANGED <<stopVars, runVars, clients, queueVars, count, panic>>

\* trackDisconnect: Done is closed, the slot is given back.
TrackDisconnect(c) ==
  /\ watcher[c] = "waiting" /\ c \in closed
  /\ watcher' = [watcher EXCEPT ![c] = "returned"]
  /\ Remove
  /\ UNCHANGED <<stopVars, runVars, clients, queueVars, handler, conn, closed,
                 send, events, reader, writer, last, panic>>

--------------------------------------------------------------------------------
(* Client.ReadPump *)

\* The peer goes away, breaks the protocol or misses the pong deadline: the
\* next read fails.  Writes may still succeed.
PeerLost(c) ==
  /\ conn[c] = "open"
  /\ conn' = [conn EXCEPT ![c] = "lost"]
  /\ UNCHANGED <<stopVars, runVars, clients, queueVars, handler, closed, send,
                 events, reader, writer, watcher, last, count, panic>>

\* A subscribe message with a non-empty set of event types.
ReadSubscribe(c, S) ==
  /\ reader[c] = "reading" /\ conn[c] = "open"
  /\ events' = [events EXCEPT ![c] = @ \cup S]
  /\ UNCHANGED <<stopVars, runVars, clients, queueVars, handler, conn, closed,
                 send, reader, writer, watcher, last, count, panic>>

\* A get_current, malformed or unknown message: ReadPump has an answer to send.
ReadRequest(c) ==
  /\ reader[c] = "reading" /\ conn[c] = "open"
  /\ reader' = [reader EXCEPT ![c] = "replying"]
  /\ UNCHANGED <<stopVars, runVars, clients, queueVars, handler, conn, closed,
                 send, events, writer, watcher, last, count, panic>>

\* Faulty variant: the buffer has no capacity.
EnqueueUnbounded(c, m) == send' = [send EXCEPT ![c] = Append(@, m)]

\* A non-blocking channel send: dropped when the buffer is full.
Enqueue(c, m) ==
  send' = [send EXCEPT ![c] = IF Len(@) < SendCap THEN Append(@, m) ELSE @]

\* Client.SendMessage holds no lock; a send on a closed channel panics, and no
\* recover covers the goroutine of ReadPump.
SendMessage(c) ==
  /\ reader[c] = "replying"
  /\ reader' = [reader EXCEPT ![c] = "reading"]
  /\ IF c \in closed
       THEN panic' = "reader" /\ UNCHANGED send
       ELSE Enqueue(c, Reply) /\ UNCHANGED panic
  /\ UNCHANGED <<stopVars, runVars, clients, queueVars, handler, conn, closed,
                 events, writer, watcher, last, count>>

\* ReadMessage fails: the deferred function calls Unregister.
ReadFails(c) ==
  /\ reader[c] = "reading" /\ conn[c] \in {"lost", "closed"}
  /\ reader' = [reader EXCEPT ![c] = "leaving"]
  /\ UNCHANGED <<stopVars, runVars, clients, queueVars, handler, conn, closed,
                 send, events, writer, watcher, last, count, panic>>

\* After Unregister ReadPump closes the connection and returns.
LeaveReadPump(c) ==
  /\ reader' = [reader EXCEPT ![c] = "returned"]
  /\ conn' = [conn EXCEPT ![c] = "closed"]
  /\ UNCHANGED <<closed, send, events, writer, watcher, last>>

\* Hub.Unregister meets Run in its select.
Unregister(c) ==
  /\ reader[c] = "leaving" /\ run = "select"
  /\ run' = "removing" /\ cur' = c
  /\ LeaveReadPump(c)
  /\ UNCHANGED <<stopVars, msg, left, clients, queueVars, handler, count, panic>>

\* Faulty variant: Unregister only waits for Run, never for done.
UnregisterIgnoresDone(c) == reader[c] = "leaving" /\ FALSE /\ LeaveReadPump(c)

\* Hub.Unregister returns because done is closed.
UnregisterAfterDone(c) ==
  /\ reader[c] = "leaving" /\ hubDone
  /\ LeaveReadPump(c)
  /\ UNCHANGED <<stopVars, runVars, clients, queueVars, handler, count, panic>>

--------------------------------------------------------------------------------
(* Client.WritePump *)

\* One message taken from send and written to the connection.
WriteMessage(c) ==
  /\ writer[c] = "running" /\ send[c] # <<>> /\ conn[c] # "closed"
  /\ send' = [send EXCEPT ![c] = Tail(@)]
  /\ last' = [last EXCEPT ![c] = IF Head(send[c]) = Reply THEN @ ELSE Head(send[c]).seq]
  /\ UNCHANGED <<stopVars, runVars, clients, queueVars, handler, conn, closed,
                 events, reader, writer, watcher, count, panic>>

\* Faulty variant: WritePump closes the client's channels when it fails.
LeaveWritePumpClosing(c) ==
  /\ writer' = [writer EXCEPT ![c] = "returned"]
  /\ conn' = [conn EXCEPT ![c] = "closed"]
  /\ closed' = closed \cup {c}
  /\ UNCHANGED <<stopVars, runVars, clients, queueVars, handler, events, reader,
                 watcher, last, count, panic>>

\* WritePump's deferred function closes the connection.
LeaveWritePump(c) ==
  /\ writer' = [writer EXCEPT ![c] = "returned"]
  /\ conn' = [conn EXCEPT ![c] = "closed"]
  /\ UNCHANGED <<stopVars, runVars, clients, queueVars, handler, closed, events,
                 reader, watcher, last, count, panic>>

\* A write of a message or of a ping fails, a write that times out included: its
\* peer is lost first.  The message, if any, is lost.
WriteFails(c) ==
  /\ writer[c] = "running" /\ conn[c] # "open"
  /\ \/ send[c] # <<>> /\ send' = [send EXCEPT ![c] = Tail(@)]
     \/ UNCHANGED send
  /\ LeaveWritePump(c)

\* send is closed and drained: a close frame is written and WritePump returns.
WriteClose(c) ==
  /\ writer[c] = "running" /\ c \in closed /\ send[c] = <<>>
  /\ UNCHANGED send
  /\ LeaveWritePump(c)

--------------------------------------------------------------------------------
(* Hub.Broadcast, called from any goroutine; dropped when the queue is full. *)

Broadcast(t) ==
  /\ issued < MaxSeq
  /\ issued' = issued + 1
  /\ queue' = IF Len(queue) < QueueCap
                THEN Append(queue, [type |-> t, seq |-> issued + 1])
                ELSE queue
  /\ UNCHANGED <<stopVars, runVars, clients, handler, clientVars, count, panic>>

--------------------------------------------------------------------------------
(* Hub.Run *)

\* Faulty variant: closeAllClients does not take the lock.
UnlockedAlways == TRUE

\* The write lock of hub.mu is free: no fan-out holds the read lock.
Unlocked == run # "fanout"

\* The register case, once Run has the lock.
RunInsert ==
  /\ run = "inserting" /\ run' = "select"
  /\ clients' = clients \cup {cur} /\ cur' = NoConn
  /\ UNCHANGED <<stopVars, msg, left, queueVars, handler, clientVars, count, panic>>

\* Faulty variant: the client stays in the map.
DeleteNothing == UNCHANGED clients

Delete == clients' = clients \ {cur}
\* close(send) and close(Done); closing a closed channel panics.
CloseChannels ==
  /\ closed' = closed \cup {cur}
  /\ panic' = IF cur \in closed THEN "hub" ELSE panic

\* The unregister case: delete and close, if the client is still present.
RunRemove ==
  /\ run = "removing" /\ run' = "select" /\ cur' = NoConn
  /\ IF cur \in clients THEN Delete /\ CloseChannels
                       ELSE UNCHANGED <<clients, closed, panic>>
  /\ UNCHANGED <<stopVars, msg, left, queueVars, handler, conn, send, events,
                 reader, writer, watcher, last, count>>

\* Faulty variant: the message is read but not taken from the channel.
Peek == UNCHANGED queue
Dequeue == queue' = Tail(queue)

\* The broadcast case: take the message and the read lock.
RunReceive ==
  /\ run = "select" /\ queue # <<>>
  /\ run' = "fanout" /\ msg' = Head(queue) /\ left' = clients
  /\ Dequeue
  /\ UNCHANGED <<stopVars, cur, clients, issued, handler, clientVars, count, panic>>

\* Faulty variant: the send blocks until the client's buffer has room.
OfferBlocking(c) == Len(send[c]) < SendCap /\ Enqueue(c, msg) /\ UNCHANGED panic

\* The non-blocking send of the fan-out; it would panic on a closed channel.
Offer(c) ==
  IF c \in closed THEN panic' = "hub" /\ UNCHANGED send
               ELSE Enqueue(c, msg) /\ UNCHANGED panic

\* One client of the fan-out, in the arbitrary order of a Go map.
RunDeliver(c) ==
  /\ run = "fanout" /\ c \in left /\ left' = left \ {c}
  /\ IF msg.type \in events[c] THEN Offer(c) ELSE UNCHANGED <<send, panic>>
  /\ UNCHANGED <<stopVars, run, cur, msg, clients, queueVars, handler, conn,
                 closed, events, reader, writer, watcher, last, count>>

\* The fan-out is over: the read lock is released.
RunDelivered ==
  /\ run = "fanout" /\ left = {}
  /\ run' = "select" /\ msg' = NoMsg
  /\ UNCHANGED <<stopVars, cur, left, clients, queueVars, handler, clientVars,
                 count, panic>>

\* Faulty variant: the closed clients stay in the map.
CloseAllClientsKeepsMap ==
  /\ Unlocked
  /\ closed' = closed \cup clients
  /\ conn' = [c \in Conns |-> IF c \in clients THEN "closed" ELSE conn[c]]
  /\ UNCHANGED <<clients, panic, send, events, reader, writer, watcher, last>>

\* closeAllClients: under the write lock, close every client and its connection.
CloseAllClients ==
  /\ Unlocked
  /\ clients' = {}
  /\ closed' = closed \cup clients
  /\ conn' = [c \in Conns |-> IF c \in clients THEN "closed" ELSE conn[c]]
  /\ panic' = IF clients \cap closed # {} THEN "hub" ELSE panic
  /\ UNCHANGED <<send, events, reader, writer, watcher, last>>

\* The ctx case: closeAllClients, then return.
RunCancelled ==
  /\ run = "select" /\ ctxDone
  /\ run' = "exiting"
  /\ CloseAllClients
  /\ UNCHANGED <<stopVars, cur, msg, left, queueVars, handler, count>>

\* The deferred closeDone of a Run that returns.
RunExit ==
  /\ run = "exiting" /\ run' = "returned"
  /\ hubDone' = TRUE
  /\ UNCHANGED <<ctxDone, main, cur, msg, left, clients, queueVars, handler,
                 clientVars, count, panic>>

\* The done case: Close has closed done; Run returns.
RunDone ==
  /\ run = "select" /\ hubDone
  /\ run' = "returned"
  /\ UNCHANGED <<stopVars, cur, msg, left, clients, queueVars, handler,
                 clientVars, count, panic>>

--------------------------------------------------------------------------------
(* Shutdown, driven by main: the signal, then Hub.Close. *)

Signal ==
  /\ ~ctxDone /\ ctxDone' = TRUE
  /\ UNCHANGED <<hubDone, main, runVars, clients, queueVars, handler, clientVars,
                 count, panic>>

\* Hub.Close, first half: closeAllClients.
Close ==
  /\ ctxDone /\ main = "serving" /\ main' = "closing"
  /\ CloseAllClients
  /\ UNCHANGED <<ctxDone, hubDone, runVars, queueVars, handler, count>>

\* Hub.Close, second half: closeDone, once.
CloseDone ==
  /\ main = "closing" /\ main' = "closed"
  /\ hubDone' = TRUE
  /\ UNCHANGED <<ctxDone, runVars, clients, queueVars, handler, clientVars,
                 count, panic>>

--------------------------------------------------------------------------------

ServeHTTP(c) ==
  \/ Unauthorized(c) \/ TryAdd(c) \/ UpgradeFails(c) \/ Upgrade(c)
  \/ Register(c) \/ RegisterAfterDone(c)

ReadPump(c) ==
  \/ SendMessage(c) \/ ReadFails(c) \/ Unregister(c) \/ UnregisterAfterDone(c)

WritePump(c) == WriteMessage(c) \/ WriteFails(c) \/ WriteClose(c)

Run ==
  \/ RunInsert \/ RunRemove \/ RunReceive \/ RunDelivered
  \/ (\E c \in Conns : RunDeliver(c))
  \/ RunCancelled \/ RunExit \/ RunDone

ClientInput(c) ==
  PeerLost(c) \/ ReadRequest(c) \/ \E S \in SUBSET Types \ {{}} : ReadSubscribe(c, S)

Shutdown == Signal \/ Close \/ CloseDone

\* A panic outside a recovered handler ends the process: nothing runs after it.
Next ==
  /\ panic = "none"
  /\ \/ \E c \in Conns :
          ServeHTTP(c) \/ TrackDisconnect(c) \/ ReadPump(c) \/ WritePump(c)
            \/ ClientInput(c)
     \/ \E t \in Types : Broadcast(t)
     \/ Run
     \/ Shutdown

\* Every goroutine that can take a step eventually takes one.  WritePump gets no
\* fairness (a peer may stop reading for as long as it likes), nor do clients,
\* callers of Broadcast or the signal.
Fairness ==
  /\ WF_vars(panic = "none" /\ Run)
  /\ WF_vars(panic = "none" /\ (Close \/ CloseDone))
  /\ \A c \in Conns :
       /\ WF_vars(panic = "none" /\ ServeHTTP(c))
       /\ WF_vars(panic = "none" /\ ReadPump(c))
       /\ WF_vars(panic = "none" /\ TrackDisconnect(c))

Spec == Init /\ [][Next]_vars /\ Fairness
--------------------------------------------------------------------------------
\* Connections that hold a slot of the tracker: reserved, or upgraded and not
\* yet released by trackDisconnect.
Held == {c \in Conns : handler[c] \in {"reserved", "registering"} \/ watcher[c] = "waiting"}

\* The tracker's count is exactly the number of connections that hold a slot: no
\* path through ServeHTTP and trackDisconnect releases a slot twice or never
\* takes one, so that at most MaxConn connections are served.
SlotAccounting == count = Cardinality(Held)

\* What Run, Close and the pumps keep true of the map and the channels, and what
\* keeps Run from panicking: the clients of the map and of the fan-out are open,
\* a client on its way into the map was never in it, and before shutdown
\* channels are closed only once their ReadPump is gone.
HubInv ==
  /\ \A c \in clients : c \notin closed /\ handler[c] = "returned"
  /\ \A c \in Conns : handler[c] # "returned" =>
       /\ c \notin closed /\ reader[c] = "none"
       /\ watcher[c] = "none" /\ writer[c] = "none"
  /\ run = "inserting" =>
       cur \notin clients \cup closed /\ handler[cur] = "returned"
  /\ run = "removing" => reader[cur] = "returned"
  /\ run \notin {"inserting", "removing"} => cur = NoConn
  /\ run = "exiting" => ctxDone
  /\ left \subseteq clients /\ (run # "fanout" => left = {})
  /\ \A c \in closed : reader[c] = "returned" \/ ctxDone

\* The phase of a connection as the connection limit sees it.
Phase == [c \in Conns |-> IF c \in Held THEN "admitted"
                          ELSE IF handler[c] = "idle" THEN "new" ELSE "over"]
Pool == INSTANCE SlotPool WITH phase <- Phase

\* The handler, the tracker, the hub and its shutdown implement the slot pool:
\* admission only below the limit, one slot per connection, released once.
ImplementsSlotPool == Pool!PoolSpec

\* Run never panics: no broadcast is sent on a closed send channel and no
\* client's channels are closed twice, whether Run, Close or both remove it.
HubNeverPanics == panic # "hub"

\* ReadPump's unlocked SendMessage can only meet a closed channel while the
\* process is shutting down: in service only ReadPump itself makes Run close it.
PanicOnlyInShutdown == panic = "reader" => ctxDone

\* A client stays in the map until its channels are closed: an upgraded client
\* that has closed channels is gone from the map, and one that was received by
\* Run and is neither closed nor on its way in or out is in the map.  Until done
\* is closed, the unregister case misses a client only if closeAllClients has
\* taken it first: no client is left behind with open channels.
MapMatchesChannels ==
  /\ \A c \in Conns :
       /\ c \in clients => c \notin closed
       /\ handler[c] = "returned" /\ c \notin closed /\ ~hubDone /\ cur # c => c \in clients
  /\ run = "removing" => cur \in clients \cup closed \/ hubDone

\* The positions of a channel that hold broadcasts.
Waiting(s) == {i \in DOMAIN s : s[i] # Reply}
\* The broadcasts in a channel are in the order in which they were issued.
Increasing(s) == \A i, j \in Waiting(s) : i < j => s[i].seq < s[j].seq
\* Everything c was sent, written to the peer or waiting in send, is older than n.
SentBefore(c, n) ==
  last[c] < n /\ \A i \in Waiting(send[c]) : send[c][i].seq < n
\* Broadcasts reach each client in the order in which they were issued and at
\* most once, whatever is dropped on the way when a channel is full: along the
\* way from the queue through Run's fan-out and send to the peer the sequence
\* numbers only decrease, and all are numbers that were issued.
DeliveryOrder ==
  /\ Increasing(queue) /\ \A j \in DOMAIN queue : queue[j].seq <= issued
  /\ run = "fanout" =>
       msg.seq <= issued /\ \A j \in DOMAIN queue : msg.seq < queue[j].seq
  /\ \A c \in Conns :
       /\ Increasing(send[c])
       /\ \A i \in Waiting(send[c]) : last[c] < send[c][i].seq
       /\ c \in left => SentBefore(c, msg.seq)
       /\ \A j \in DOMAIN queue : SentBefore(c, queue[j].seq)
       /\ SentBefore(c, issued + 1)

\* In service, the slot of a connection that broke is given back in the end: the
\* chain ReadPump, Unregister, Run, Done, trackDisconnect never gets stuck, although
\* no WritePump has to empty its channel: a full buffer does not stall the fan-out.
SlotReleased ==
  \A c \in Conns :
    (conn[c] \in {"lost", "closed"}) ~> (c \notin Held \/ ctxDone \/ panic # "none")

\* Also during and after shutdown, the ReadPump of a broken connection returns:
\* it never waits for a Run that is gone.
ReaderReturns ==
  \A c \in Conns :
    (conn[c] \in {"lost", "closed"}) ~> (reader[c] = "returned" \/ panic # "none")

\* No goroutine panics (PLAN.md, task 7.4).
NoPanics == panic = "none"
================================================================================
