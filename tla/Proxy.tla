---------------------------------- MODULE Proxy ---------------------------------
(****************************************************************************)
(* The proxy put together (cmd/proxy/main.go): what happens to an activity  *)
(* and to the state of the Discord session on their way to a client.        *)
(*                                                                          *)
(*   Discord -> Client.Run -> events channel -> runIPCEventLoop ->          *)
(*     Presence (a window of coalescing) -> callback goroutine ->           *)
(*     hub.broadcast -> Run's fan-out -> send buffer -> client              *)
(*                                                                          *)
(* and, beside it, get_current: ReadPump reads the cache and answers into   *)
(* the same send buffer.  The components are taken at the level of what     *)
(* their own modules show of them: the presence state machine is Feed       *)
(* (which Presence implements), a fan-out is one step (Hub), and a session  *)
(* of the IPC client is opened, ends, and unpublishes its channel           *)
(* (IPCSession).  The clients are the terminal dashboard and, for what is   *)
(* received, any program that speaks the protocol.                          *)
(****************************************************************************)
EXTENDS Naturals, Sequences

CONSTANTS
  Activities, Empty,   \* see Feed
  NoSource,            \* the snapshot without an activity source
  Clients,
  EventCap,      \* eventBufferSize (64 in the code)
  BroadcastCap,  \* capacity of hub.broadcast (256 in the code)
  SendCap,       \* capacity of a client's send channel (256 in the code)
  MaxEvents,     \* bound of the model: frames, ends of sessions, and clients that
                 \* connect, leave or ask, all together
  MaxSessions    \* bound of the model: sessions with Discord

ASSUME ProxyAssumption ==
  /\ Empty \in Activities /\ NoSource \notin Activities
  /\ EventCap \in Nat \ {0} /\ BroadcastCap \in Nat \ {0} /\ SendCap \in Nat \ {0}
  /\ MaxEvents \in Nat /\ MaxSessions \in Nat \ {0}

Sessions == 1 .. MaxSessions
Views == Activities \cup {NoSource}
\* Presence and current messages carry a view, the number of updates behind it and,
\* for the properties only, the activity that had been notified last.
Views3 == [val : Views, ver : Nat, base : Activities]
PresenceMsgs == [kind : {"presence"}, view : Views3]
CurrentMsgs == [kind : {"current"}, view : Views3]
StateMsgs == [kind : {"state"}, status : {"connected", "reconnecting"}]

VARIABLES
  count,      \* events of the environment so far
  up,         \* Client.State() is connected
  sup,        \* the session: "running", "ending", "retiring", "retrying", "exited"
  sess,       \* sessions so far
  events,     \* Client.Events(): its session, 0 when nil
  chan,       \* per session: contents of its events channel
  chanOpen,   \* per session: the channel is not closed
  loop,       \* runIPCEventLoop: "fetch" or "range"
  loopChan,   \* the channel it ranges over
  cached, hasSource, lastNotified, open, sent,   \* the presence feed
  ver,        \* updates so far
  callbacks,  \* callback goroutines that have not run
  bq,         \* hub.broadcast
  conn,       \* per client: it is connected
  requests,   \* per client: requests ReadPump has yet to read
  subscribed, \* per client: the hub sends it presence and state messages
  reply,      \* per client: the answer ReadPump is about to queue, or nothing
  out,        \* per client: its send buffer and the wire
  answered,   \* per client: an answer has arrived on this connection
  shown,      \* per client: the view on its screen
  told,       \* per client: the state on its screen, "unknown" before the first
  heard,      \* per client: a state message has arrived on this connection
  best,       \* per client: the newest view received on this connection
  missed      \* per client: a message it might have got was dropped by a full channel

ipcVars    == <<up, sup, sess, events, chan, chanOpen>>
loopVars   == <<loop, loopChan>>
feedVars   == <<cached, hasSource, lastNotified, open, sent, ver>>
serverVars == <<conn, requests, subscribed, reply>>
screenVars == <<answered, shown, told, heard, best>>
vars == <<count, ipcVars, loopVars, feedVars, callbacks, bq, serverVars, out, screenVars, missed>>

F == INSTANCE Feed WITH on <- TRUE, ctxDone <- FALSE

NoReply == <<>>
NoView == [val |-> NoSource, ver |-> 0, base |-> Empty]

TypeOK ==
  /\ count \in 0 .. MaxEvents
  /\ up \in BOOLEAN /\ sup \in {"running", "ending", "retiring", "retrying", "exited"}
  /\ sess \in 0 .. MaxSessions /\ events \in 0 .. MaxSessions
  /\ chan \in [Sessions -> Seq(Activities \cup {"bad", "end"})]
  /\ \A k \in Sessions : Len(chan[k]) <= EventCap
  /\ chanOpen \in [Sessions -> BOOLEAN]
  /\ sup \in {"running", "ending", "retiring"} => sess \in Sessions
  /\ loop \in {"fetch", "range"} /\ loopChan \in 0 .. MaxSessions
  /\ loop = "range" => loopChan \in Sessions
  /\ F!TypeOK /\ ver \in Nat
  /\ callbacks \subseteq [seq : Nat, view : Views3]
  /\ bq \in Seq(PresenceMsgs \cup StateMsgs) /\ Len(bq) <= BroadcastCap
  /\ conn \in [Clients -> BOOLEAN] /\ subscribed \in [Clients -> BOOLEAN]
  /\ requests \in [Clients -> Seq({"subscribe", "get_current"})]
  /\ reply \in [Clients -> {NoReply} \cup CurrentMsgs]
  /\ out \in [Clients -> Seq(PresenceMsgs \cup CurrentMsgs \cup StateMsgs)]
  /\ \A c \in Clients : Len(out[c]) <= SendCap
  /\ answered \in [Clients -> BOOLEAN] /\ heard \in [Clients -> BOOLEAN]
  /\ shown \in [Clients -> Views] /\ best \in [Clients -> Views3]
  /\ told \in [Clients -> {"unknown", "connected", "reconnecting"}]
  /\ missed \in [Clients -> BOOLEAN]

\* main has connected to Discord, or failed to, and has started everything else.
Init ==
  /\ count = 0
  /\ \E k \in {0, 1} :
       /\ up = (k = 1) /\ sess = k /\ events = k
       /\ sup = IF k = 1 THEN "running" ELSE "retrying"
       /\ chanOpen = [n \in Sessions |-> n = k]
  /\ chan = [n \in Sessions |-> <<>>]
  /\ loop = "fetch" /\ loopChan = 0
  /\ cached = Empty /\ hasSource = FALSE /\ lastNotified = Empty
  /\ open = FALSE /\ sent = 0 /\ ver = 0
  /\ callbacks = {} /\ bq = <<>>
  /\ conn = [c \in Clients |-> FALSE]
  /\ requests = [c \in Clients |-> <<>>] /\ subscribed = [c \in Clients |-> FALSE]
  /\ reply = [c \in Clients |-> NoReply] /\ out = [c \in Clients |-> <<>>]
  /\ answered = [c \in Clients |-> FALSE]
  /\ shown = [c \in Clients |-> NoSource] /\ told = [c \in Clients |-> "unknown"]
  /\ heard = [c \in Clients |-> FALSE] /\ best = [c \in Clients |-> NoView]
  /\ missed = [c \in Clients |-> FALSE]

--------------------------------------------------------------------------------
(* The session with Discord *)

\* One more event of the environment.
External == count < MaxEvents /\ count' = count + 1

\* Faulty variant: events pile up without a bound.
EmitUnbounded(e) == chan' = [chan EXCEPT ![sess] = Append(@, e)]

\* Run publishes an event of the current session; a full channel drops it.
Emit(e) ==
  chan' = [chan EXCEPT ![sess] = IF Len(@) < EventCap THEN Append(@, e) ELSE @]

\* A frame arrives: an activity, or one that does not parse.
Frame(e) ==
  /\ External /\ sup = "running"
  /\ Emit(e)
  /\ UNCHANGED <<up, sup, sess, events, chanOpen, loopVars, feedVars, callbacks, bq,
                 serverVars, out, screenVars, missed>>

\* The session ends.
SessionEnds ==
  /\ External /\ sup = "running" /\ sup' = "ending" /\ up' = FALSE
  /\ UNCHANGED <<sess, events, chan, chanOpen, loopVars, feedVars, callbacks, bq,
                 serverVars, out, screenVars, missed>>

\* The terminal event waits for room.
EmitTerminal ==
  /\ sup = "ending" /\ Len(chan[sess]) < EventCap /\ sup' = "retiring"
  /\ Emit("end")
  /\ UNCHANGED <<count, up, sess, events, chanOpen, loopVars, feedVars, callbacks, bq,
                 serverVars, out, screenVars, missed>>

\* Faulty variant: the channel of the ended session is neither unpublished nor closed.
KeepChannel == UNCHANGED <<events, chanOpen>>
RetireChannel == events' = 0 /\ chanOpen' = [chanOpen EXCEPT ![sess] = FALSE]

\* Run's deferred function: the channel is unpublished and closed.
Retire ==
  /\ sup = "retiring" /\ sup' = "retrying" /\ RetireChannel
  /\ UNCHANGED <<count, up, sess, chan, loopVars, feedVars, callbacks, bq, serverVars,
                 out, screenVars, missed>>

\* The supervisor has connected again ...
SessionUp ==
  /\ sup = "retrying" /\ sess < MaxSessions
  /\ sup' = "running" /\ up' = TRUE /\ sess' = sess + 1 /\ events' = sess + 1
  /\ chanOpen' = [chanOpen EXCEPT ![sess + 1] = TRUE]
  /\ UNCHANGED <<count, chan, loopVars, feedVars, callbacks, bq, serverVars, out,
                 screenVars, missed>>

\* ... or has given up, or reconnection is off.
GiveUp ==
  /\ sup = "retrying" /\ sup' = "exited"
  /\ UNCHANGED <<count, up, sess, events, chan, chanOpen, loopVars, feedVars, callbacks,
                 bq, serverVars, out, screenVars, missed>>

--------------------------------------------------------------------------------
(* runIPCEventLoop *)

StateMessage(s) == [kind |-> "state", status |-> s]

\* Hub.Broadcast: dropped when the channel is full, and then missed by every client.
Broadcast(m) ==
  IF Len(bq) < BroadcastCap
    THEN bq' = Append(bq, m) /\ UNCHANGED missed
    ELSE missed' = [c \in Clients |-> TRUE] /\ UNCHANGED bq

\* Events() is not nil: announce the session and range over its channel.
LoopFetch ==
  /\ loop = "fetch" /\ events # 0
  /\ loop' = "range" /\ loopChan' = events
  /\ Broadcast(StateMessage("connected"))
  /\ UNCHANGED <<count, ipcVars, feedVars, callbacks, serverVars, out, screenVars>>

\* An activity goes to the presence state machine.
LoopActivity ==
  /\ loop = "range" /\ chan[loopChan] # <<>> /\ Head(chan[loopChan]) \in Activities
  /\ F!Update(Head(chan[loopChan])) /\ ver' = ver + 1
  /\ chan' = [chan EXCEPT ![loopChan] = Tail(@)]
  /\ UNCHANGED <<count, up, sup, sess, events, chanOpen, loopVars, callbacks, bq,
                 serverVars, out, screenVars, missed>>

\* Faulty variant: the loss of a session is not announced.
SilentLoss == UNCHANGED <<bq, missed>>
AnnounceLoss == Broadcast(StateMessage("reconnecting"))

\* An event with an error, or the channel is closed and drained: announce the loss
\* and fetch the channel again.
LoopLost ==
  /\ loop = "range" /\ loop' = "fetch"
  /\ \/ chan[loopChan] # <<>> /\ Head(chan[loopChan]) \in {"bad", "end"}
        /\ chan' = [chan EXCEPT ![loopChan] = Tail(@)]
     \/ chan[loopChan] = <<>> /\ ~chanOpen[loopChan] /\ UNCHANGED chan
  /\ AnnounceLoss
  /\ UNCHANGED <<count, up, sup, sess, events, chanOpen, loopChan, feedVars, callbacks,
                 serverVars, out, screenVars>>

--------------------------------------------------------------------------------
(* Presence and the hub *)

\* The window ends.  If there is something new a goroutine will run main's callback.
WindowEnds ==
  /\ F!WindowEnds
  /\ callbacks' = IF sent' = sent THEN callbacks
       ELSE callbacks \cup
              {[seq |-> sent', view |-> [val |-> cached, ver |-> ver, base |-> cached]]}
  /\ UNCHANGED <<count, ipcVars, loopVars, ver, bq, serverVars, out, screenVars, missed>>

\* main's callback: broadcast a presence message.
Callback(cb) ==
  /\ cb \in callbacks /\ callbacks' = callbacks \ {cb}
  /\ Broadcast([kind |-> "presence", view |-> cb.view])
  /\ UNCHANGED <<count, ipcVars, loopVars, feedVars, serverVars, out, screenVars>>

\* Run's fan-out of one message to the subscribed clients; full buffers drop it.
FanOut ==
  /\ bq # <<>> /\ bq' = Tail(bq)
  /\ out' = [c \in Clients |-> IF subscribed[c] /\ Len(out[c]) < SendCap
                                 THEN Append(out[c], Head(bq)) ELSE out[c]]
  /\ missed' = [c \in Clients |-> missed[c] \/ (subscribed[c] /\ Len(out[c]) = SendCap)]
  /\ UNCHANGED <<count, ipcVars, loopVars, feedVars, callbacks, serverVars, screenVars>>

--------------------------------------------------------------------------------
(* The client and its ReadPump *)

\* Faulty variant: the client asks for the current view before it subscribes.
AskThenSubscribe == <<"get_current", "subscribe">>

\* What a client sends when its connection opens.
OnOpen == <<"subscribe", "get_current">>

\* A client connects; its screen keeps what it showed.
Connect(c) ==
  /\ External /\ ~conn[c] /\ conn' = [conn EXCEPT ![c] = TRUE]
  /\ requests' = [requests EXCEPT ![c] = OnOpen]
  /\ answered' = [answered EXCEPT ![c] = FALSE] /\ heard' = [heard EXCEPT ![c] = FALSE]
  /\ best' = [best EXCEPT ![c] = NoView]
  /\ UNCHANGED <<ipcVars, loopVars, feedVars, callbacks, bq, subscribed, reply, out, shown,
                 told, missed>>

\* Its connection is lost, and with it whatever was on its way.
Disconnect(c) ==
  /\ External /\ conn[c] /\ conn' = [conn EXCEPT ![c] = FALSE]
  /\ requests' = [requests EXCEPT ![c] = <<>>]
  /\ subscribed' = [subscribed EXCEPT ![c] = FALSE]
  /\ reply' = [reply EXCEPT ![c] = NoReply] /\ out' = [out EXCEPT ![c] = <<>>]
  /\ UNCHANGED <<ipcVars, loopVars, feedVars, callbacks, bq, screenVars, missed>>

\* It asks once more.
AskAgain(c) ==
  /\ External /\ conn[c]
  /\ requests' = [requests EXCEPT ![c] = Append(@, "get_current")]
  /\ UNCHANGED <<ipcVars, loopVars, feedVars, callbacks, bq, conn, subscribed, reply,
                 out, screenVars, missed>>

\* ReadPump handles one request after the other.
Reads(c, r) ==
  /\ requests[c] # <<>> /\ Head(requests[c]) = r /\ reply[c] = NoReply
  /\ requests' = [requests EXCEPT ![c] = Tail(@)]

ReadSubscribe(c) ==
  /\ Reads(c, "subscribe") /\ subscribed' = [subscribed EXCEPT ![c] = TRUE]
  /\ UNCHANGED <<count, ipcVars, loopVars, feedVars, callbacks, bq, conn, reply, out,
                 screenVars, missed>>

GetCurrentPresence == F!Snapshot(NoSource)

\* get_current: the snapshot is taken now and queued later.
ReadGetCurrent(c) ==
  /\ Reads(c, "get_current")
  /\ reply' = [reply EXCEPT ![c] =
       [kind |-> "current",
        view |-> [val |-> GetCurrentPresence, ver |-> ver, base |-> lastNotified]]]
  /\ UNCHANGED <<count, ipcVars, loopVars, feedVars, callbacks, bq, conn, subscribed, out,
                 screenVars, missed>>

\* SendMessage: dropped when the send buffer is full.
SendReply(c) ==
  /\ reply[c] # NoReply /\ reply' = [reply EXCEPT ![c] = NoReply]
  /\ IF Len(out[c]) < SendCap
       THEN out' = [out EXCEPT ![c] = Append(@, reply[c])] /\ UNCHANGED missed
       ELSE missed' = [missed EXCEPT ![c] = TRUE] /\ UNCHANGED out
  /\ UNCHANGED <<count, ipcVars, loopVars, feedVars, callbacks, bq, conn, requests,
                 subscribed, screenVars>>

\* m replaces the newest view a client has received.
Newer(m, b) == m.view.ver > b.ver \/ (m.view.ver = b.ver /\ m.kind = "presence")

\* WritePump and the client's handler: the message replaces what is on the screen.
Receive(c) ==
  /\ out[c] # <<>> /\ out' = [out EXCEPT ![c] = Tail(@)]
  /\ LET m == Head(out[c]) IN
       IF m.kind = "state"
         THEN /\ told' = [told EXCEPT ![c] = m.status]
              /\ heard' = [heard EXCEPT ![c] = TRUE]
              /\ UNCHANGED <<answered, shown, best>>
         ELSE /\ shown' = [shown EXCEPT ![c] = m.view.val]
              /\ answered' = [answered EXCEPT ![c] = @ \/ m.kind = "current"]
              /\ best' = [best EXCEPT ![c] = IF Newer(m, @) THEN m.view ELSE @]
              /\ UNCHANGED <<told, heard>>
  /\ UNCHANGED <<count, ipcVars, loopVars, feedVars, callbacks, bq, serverVars, missed>>

--------------------------------------------------------------------------------
Supervisor == EmitTerminal \/ Retire \/ SessionUp \/ GiveUp
EventLoop == LoopFetch \/ LoopActivity \/ LoopLost
ReadPump(c) == ReadSubscribe(c) \/ ReadGetCurrent(c) \/ SendReply(c)

Next ==
  \/ \E e \in Activities \cup {"bad"} : Frame(e)
  \/ SessionEnds \/ Supervisor \/ EventLoop
  \/ WindowEnds \/ (\E cb \in callbacks : Callback(cb)) \/ FanOut
  \/ \E c \in Clients :
       Connect(c) \/ Disconnect(c) \/ AskAgain(c) \/ ReadPump(c) \/ Receive(c)

\* The goroutines of the proxy run when they can, the timer fires and what is in a
\* send buffer reaches a client that stays connected.  Discord owes nothing, and a
\* client need not connect.
Fairness ==
  /\ WF_vars(Supervisor) /\ WF_vars(EventLoop) /\ WF_vars(WindowEnds)
  /\ WF_vars(\E cb \in callbacks : Callback(cb)) /\ WF_vars(FanOut)
  /\ \A c \in Clients : WF_vars(ReadPump(c)) /\ WF_vars(Receive(c))

Spec == Init /\ [][Next]_vars /\ Fairness
--------------------------------------------------------------------------------
\* What GET /api/presence and GET /readyz answer.
HandlePresence == GetCurrentPresence
HandleReadyz == up

\* What holds of a client before its subscription is read, and of one that is gone:
\* nothing was sent to it on this connection, and the subscription is what ReadPump
\* reads first.
BeforeSubscription ==
  \A c \in Clients :
    /\ ~conn[c] => ~subscribed[c] /\ requests[c] = <<>>
    /\ ~subscribed[c] =>
         /\ out[c] = <<>> /\ reply[c] = NoReply
         /\ conn[c] => /\ requests[c] # <<>> /\ Head(requests[c]) = "subscribe"
                       /\ ~answered[c] /\ ~heard[c] /\ best[c] = NoView

\* The views carried by the messages of one kind in a channel.
ViewsIn(s, kind) == {s[i].view : i \in {i \in DOMAIN s : s[i].kind = kind}}
\* The views on their way to client c: pushed to every subscriber, and answers to it.
Pushed(c) == {cb.view : cb \in callbacks} \cup ViewsIn(bq, "presence")
               \cup ViewsIn(out[c], "presence")
Answers(c) == ViewsIn(out[c], "current")
                \cup (IF reply[c] = NoReply THEN {} ELSE {reply[c].view})
\* ReadPump has answered, though the answer may still be on its way.
Asked(c) == answered[c] \/ Answers(c) # {}

\* A view is not newer than the cache, and says what was notified last if there was
\* no update after it.
Recent(v) == v.ver <= ver /\ (v.ver = ver => ~open /\ v.base = lastNotified)

\* A view that no update came after is what a client asking now would be answered.
Exact(v) == v.ver = ver => v.val = GetCurrentPresence

\* A newer view than v is with the client, or on its way.
Outdated(c, v) == \E w \in {best[c]} \cup Pushed(c) \cup Answers(c) : w.ver > v.ver

\* The cache, what was notified of it, and the views made of them.
ViewsRecent ==
  /\ ~open => cached = lastNotified
  /\ ver = 0 => ~open /\ lastNotified = Empty
  /\ hasSource <=> ver # 0
  /\ \A c \in Clients :
       /\ best[c].ver <= ver /\ \A v \in Answers(c) : v.ver <= ver
       /\ \A v \in Pushed(c) : Recent(v)
       /\ \A v \in {best[c]} \cup Pushed(c) \cup Answers(c) : Exact(v)
       /\ conn[c] /\ ~answered[c] => Recent(best[c])

\* Once a client has been answered, and misses no message, every view it has or is
\* going to get either tells what was notified last or is going to be replaced.
NewestOnTheWay ==
  \A c \in Clients : conn[c] /\ ~missed[c] /\ Asked(c) =>
    /\ \A v \in Pushed(c) : v.base = lastNotified \/ Outdated(c, v)
    /\ \A v \in Answers(c) :
         \/ v.base = lastNotified \/ Outdated(c, v)
         \/ \E w \in {best[c]} \cup Pushed(c) : w.ver = v.ver
    /\ \/ best[c].base = lastNotified \/ Outdated(c, best[c])
       \/ \E w \in Pushed(c) : w.ver = best[c].ver

\* Nothing that concerns client c is on its way, and it has had an answer.
PresenceQuiet(c) ==
  /\ ~open /\ callbacks = {} /\ bq = <<>>
  /\ conn[c] /\ requests[c] = <<>> /\ reply[c] = NoReply /\ out[c] = <<>>
  /\ answered[c] /\ ~missed[c]

\* Subscribing before asking leaves no gap: whatever updates, windows, callbacks and
\* broadcasts came between, the newest view a client that missed no message has
\* received is a notification of the cached activity or an answer from a time when that
\* activity was the one notified last (it went back inside a window, or the first one is
\* empty like lastNotified at the start); and it is the current view if no update followed.
LatestReaches ==
  /\ BeforeSubscription /\ ViewsRecent /\ NewestOnTheWay
  /\ \A c \in Clients : PresenceQuiet(c) =>
       /\ best[c].base = cached
       /\ best[c].ver = ver => best[c].val = HandlePresence

\* "Presence update (pushed on change)" (README.md, messages): once nothing is on its
\* way a client that missed no message shows what /api/presence answers.
LatestShown ==
  \A c \in Clients : PresenceQuiet(c) => shown[c] = HandlePresence

\* The state, the channel that Events returns and the open channel are those of the
\* one session that runs.
OneSession ==
  /\ up <=> sup = "running"
  /\ up => events = sess
  /\ \A k \in Sessions : chanOpen[k] => k = sess /\ sup \in {"running", "ending", "retiring"}

\* What the event loop announced last, if anything.
Announced == IF loop = "range" THEN "connected" ELSE "reconnecting"
\* The positions of a channel that hold state messages.
StatesIn(s) == {i \in DOMAIN s : s[i].kind = "state"}
\* The last state message of a channel, if any, is the last announcement.
EndsOnAnnounced(s) ==
  \A i \in StatesIn(s) : s[i].status = Announced \/ \E j \in StatesIn(s) : i < j

\* Of the states a client that misses nothing was told, is going to be told from its
\* send buffer and from the hub's queue, the last one is what was announced last.
AnnouncedLast ==
  \A c \in Clients : ~missed[c] =>
    /\ EndsOnAnnounced(bq)
    /\ conn[c] /\ StatesIn(bq) = {} =>
         /\ EndsOnAnnounced(out[c])
         /\ heard[c] /\ StatesIn(out[c]) = {} => told[c] = Announced

\* The session and the event loop have come to rest.
SessionQuiet ==
  /\ sup \in {"running", "exited"}
  /\ \/ loop = "fetch" /\ events = 0
     \/ loop = "range" /\ chan[loopChan] = <<>> /\ chanOpen[loopChan]

\* A client that has heard of the state on this connection and has missed nothing
\* is right about it, and agrees with /readyz, once everything is at rest: a loop
\* that lags behind a lost and a new session does not end on the wrong message.
StateTruthful ==
  /\ OneSession /\ AnnouncedLast
  /\ \A c \in Clients :
       SessionQuiet /\ bq = <<>> /\ conn[c] /\ out[c] = <<>> /\ heard[c] /\ ~missed[c]
         => (told[c] = "connected" <=> HandleReadyz)

\* The loss of the session reaches every client that is told "connected" and stays,
\* even when the supervisor gives up, unless a new session comes first.
LossReachesClients ==
  \A c \in Clients :
    (conn[c] /\ heard[c] /\ told[c] = "connected" /\ ~up)
      ~> (told[c] = "reconnecting" \/ up \/ ~conn[c] \/ missed[c])
================================================================================
