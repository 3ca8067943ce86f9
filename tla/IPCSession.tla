------------------------------- MODULE IPCSession -------------------------------
(****************************************************************************)
(* The Discord side of the proxy: the IPC client (internal/ipc/client.go),  *)
(* its supervisor with reconnection (reconnect.go), the health check        *)
(* (healthcheck.go) and main's event loop (cmd/proxy/main.go).              *)
(*                                                                          *)
(* The goroutines are                                                       *)
(*   - sup,  RunWithReconnect: start the health check, run the session,     *)
(*           stop the health check, reconnect, again;                       *)
(*   - rd,   Client.Run of the current session, the only reader;            *)
(*   - hc,   the health check of the current session;                       *)
(*   - loop, runIPCEventLoop, which drains Events() and broadcasts states;  *)
(*   - main, which closes the client at the end of its shutdown.            *)
(* A session is a number: the connection and the events channel that one    *)
(* successful Connect created.  Discord and the socket are the environment. *)
(****************************************************************************)
EXTENDS Integers, Sequences

CONSTANTS
  MaxSessions,    \* bound of the model: successful connects in a behaviour
  MaxAttempts,    \* maxReconnectAttempts (50 in the code)
  EventCap,       \* eventBufferSize (64 in the code)
  BaseInterval,   \* discord.reconnect_base_interval
  MaxInterval,    \* discord.max_reconnect_interval
  MaxDuration,    \* the largest time.Duration (2^63 - 1 in the code)
  AutoReconnect   \* discord.auto_reconnect

ASSUME IPCAssumption ==
  /\ MaxSessions \in Nat \ {0} /\ MaxAttempts \in Nat
  /\ EventCap \in Nat \ {0} /\ AutoReconnect \in BOOLEAN
  /\ BaseInterval \in Nat \ {0} /\ MaxInterval \in Nat \ {0} /\ MaxDuration \in Nat
  /\ BaseInterval <= MaxDuration /\ 2 * MaxInterval <= MaxDuration

Sessions == 1 .. MaxSessions
\* "frame" stands for every event without Err, "bad" for a frame that does not
\* parse, "end" for the terminal event.
EventKinds == {"frame", "bad", "end"}
States == {"disconnected", "connecting", "connected", "reconnecting"}

VARIABLES
  ctxDone,   \* the signal context is cancelled
  main,      \* main: "serving", or "closed" after its Close of the client
  state,     \* Client.state
  sess,      \* Client.ipcConn: its session, 0 when Connect never succeeded
  events,    \* Client.events: its session, 0 when nil
  link,      \* per session: the socket, "none", "open" or "broken"
  mute,      \* Discord has stopped answering pings on the current session
  chan,      \* per session: contents of the events channel
  chanOpen,  \* per session: the events channel exists and is not closed
  rd,        \* where Run is
  rdSess,    \* the session Run captured when it started
  sup,       \* where RunWithReconnect is
  attempt,   \* ReconnectManager.attempt
  hc,        \* where the health check is
  hcSess,    \* the session the health check was started for
  hcStop,    \* its stopCh is closed
  pong,      \* its pongCh holds a pong
  inflight,  \* a pong is on the wire
  loop,      \* where runIPCEventLoop is
  loopChan,  \* the channel it ranges over
  bcast      \* the last state it broadcast, "none" before the first

connVars == <<state, sess, events, link, mute>>
chanVars == <<chan, chanOpen>>
rdVars   == <<rd, rdSess>>
supVars  == <<sup, attempt>>
hcVars   == <<hc, hcSess, hcStop, pong, inflight>>
loopVars == <<loop, loopChan, bcast>>
vars == <<ctxDone, main, connVars, chanVars, rdVars, supVars, hcVars, loopVars>>

TypeOK ==
  /\ ctxDone \in BOOLEAN /\ main \in {"serving", "closed"}
  /\ state \in States
  /\ sess \in 0 .. MaxSessions /\ events \in 0 .. MaxSessions
  /\ link \in [Sessions -> {"none", "open", "broken"}]
  /\ mute \in BOOLEAN
  /\ chan \in [Sessions -> Seq(EventKinds)]
  /\ \A k \in Sessions : Len(chan[k]) <= EventCap
  /\ chanOpen \in [Sessions -> BOOLEAN]
  /\ rd \in {"none", "reading", "ending", "clearing", "closing", "returned"}
  /\ rdSess \in 0 .. MaxSessions
  /\ sup \in {"top", "running", "stopping", "after", "waiting", "connecting",
              "connected", "exited"}
  /\ attempt \in 0 .. MaxAttempts
  /\ hc \in {"none", "idle", "pinging", "waiting", "returned"}
  /\ hcSess \in 0 .. MaxSessions
  /\ hcStop \in BOOLEAN /\ pong \in BOOLEAN /\ inflight \in BOOLEAN
  /\ loop \in {"fetch", "announce", "range", "lost", "returned"}
  /\ loopChan \in 0 .. MaxSessions
  /\ bcast \in {"none", "connected", "reconnecting"}

\* main calls Connect once before it starts any of the goroutines; it may fail.
Init ==
  /\ ctxDone = FALSE /\ main = "serving" /\ mute = FALSE
  /\ \/ /\ state = "connected" /\ sess = 1 /\ events = 1
        /\ link = [k \in Sessions |-> IF k = 1 THEN "open" ELSE "none"]
        /\ chanOpen = [k \in Sessions |-> k = 1]
     \/ /\ state = "disconnected" /\ sess = 0 /\ events = 0
        /\ link = [k \in Sessions |-> "none"]
        /\ chanOpen = [k \in Sessions |-> FALSE]
  /\ chan = [k \in Sessions |-> <<>>]
  /\ rd = "none" /\ rdSess = 0
  /\ sup = "top" /\ attempt = 0
  /\ hc = "none" /\ hcSess = 0 /\ hcStop = FALSE /\ pong = FALSE /\ inflight = FALSE
  /\ loop = "fetch" /\ loopChan = 0 /\ bcast = "none"

--------------------------------------------------------------------------------
(* The environment: the signal, the socket and Discord. *)

Signal ==
  /\ ~ctxDone /\ ctxDone' = TRUE
  /\ UNCHANGED <<main, connVars, chanVars, rdVars, supVars, hcVars, loopVars>>

\* The socket of the current session breaks.
LinkBreaks ==
  /\ sess # 0 /\ link[sess] = "open"
  /\ link' = [link EXCEPT ![sess] = "broken"]
  /\ UNCHANGED <<ctxDone, main, state, sess, events, mute, chanVars, rdVars, supVars,
                 hcVars, loopVars>>

\* Discord hangs: it answers no further ping of this session.
DiscordHangs ==
  /\ sess # 0 /\ ~mute /\ mute' = TRUE
  /\ UNCHANGED <<ctxDone, main, state, sess, events, link, chanVars, rdVars, supVars,
                 hcVars, loopVars>>

--------------------------------------------------------------------------------
(* Client.Run *)

\* Close: mark disconnected and close the connection of the current session.
ClientClose ==
  IF sess = 0 THEN UNCHANGED <<state, link>>
              ELSE /\ state' = "disconnected"
                   /\ link' = [link EXCEPT ![sess] = "broken"]

\* The last step of main's shutdown, wherever the supervisor is by then.
MainClose ==
  /\ ctxDone /\ main = "serving" /\ main' = "closed"
  /\ ClientClose
  /\ UNCHANGED <<ctxDone, sess, events, mute, chanVars, rdVars, supVars, hcVars,
                 loopVars>>

\* emitEvent: dropped when the buffer is full.
EmitEvent(e) ==
  chan' = [chan EXCEPT ![rdSess] = IF Len(@) < EventCap THEN Append(@, e) ELSE @]

Reading == rd = "reading" /\ link[rdSess] = "open"

\* A frame arrives: good ones and unparsable ones are published alike.
ReadFrame(e) ==
  /\ Reading /\ e \in {"frame", "bad"}
  /\ EmitEvent(e)
  /\ UNCHANGED <<ctxDone, main, connVars, chanOpen, rdVars, supVars, hcVars, loopVars>>

\* The attached health check gets the pong; a second one is dropped.
HandlePong == pong' = (hc # "none")

\* A pong arrives.
ReadPong ==
  /\ Reading /\ inflight /\ inflight' = FALSE
  /\ HandlePong
  /\ UNCHANGED <<ctxDone, main, connVars, chanVars, rdVars, supVars, hc, hcSess, hcStop,
                 loopVars>>

\* An OpClose frame.
ReadClose ==
  /\ Reading /\ rd' = "ending" /\ state' = "disconnected"
  /\ UNCHANGED <<ctxDone, main, sess, events, link, mute, chanVars, rdSess, supVars,
                 hcVars, loopVars>>

\* Read fails: quietly when the context is done, with a terminal event otherwise.
ReadFails ==
  /\ rd = "reading" /\ link[rdSess] = "broken"
  /\ IF ctxDone THEN rd' = "clearing" /\ UNCHANGED state
                ELSE rd' = "ending" /\ state' = "disconnected"
  /\ UNCHANGED <<ctxDone, main, sess, events, link, mute, chanVars, rdSess, supVars,
                 hcVars, loopVars>>

\* emitTerminalEvent: waits for room in the buffer, or for the context.
EmitTerminal ==
  /\ rd = "ending" /\ rd' = "clearing"
  /\ \/ Len(chan[rdSess]) < EventCap /\ EmitEvent("end")
     \/ ctxDone /\ UNCHANGED chan
  /\ UNCHANGED <<ctxDone, main, connVars, chanOpen, rdSess, supVars, hcVars, loopVars>>

EventsCleared == IF events = rdSess THEN 0 ELSE events

\* Run's deferred function, first half: Events() returns nil from now on.
ClearEvents ==
  /\ rd = "clearing" /\ rd' = "closing"
  /\ events' = EventsCleared
  /\ UNCHANGED <<ctxDone, main, state, sess, link, mute, chanVars, rdSess, supVars,
                 hcVars, loopVars>>

\* Run's deferred function, second half: close the channel; Run returns.
CloseEvents ==
  /\ rd = "closing" /\ rd' = "returned"
  /\ chanOpen' = [chanOpen EXCEPT ![rdSess] = FALSE]
  /\ UNCHANGED <<ctxDone, main, connVars, chan, rdSess, supVars, hcVars, loopVars>>

--------------------------------------------------------------------------------
(* RunWithReconnect *)

\* NewHealthCheckManager, SetHealthCheck and HealthCheckManager.Start.
StartHealthCheck ==
  /\ hc' = "idle" /\ hcSess' = sess
  /\ hcStop' = FALSE /\ pong' = FALSE /\ inflight' = FALSE

\* Top of the loop: with a connected client a health check is started, and Run
\* gets a goroutine; without a connection Run returns an error at once.
SupStart ==
  /\ sup = "top"
  /\ IF state = "connected" THEN StartHealthCheck ELSE UNCHANGED hcVars
  /\ IF sess = 0
       THEN sup' = "stopping" /\ UNCHANGED rdVars
       ELSE sup' = "running" /\ rd' = "reading" /\ rdSess' = events
  /\ UNCHANGED <<ctxDone, main, connVars, chanVars, attempt, loopVars>>

\* runInterruptible: Run has returned.
SupRunReturned ==
  /\ sup = "running" /\ rd = "returned" /\ sup' = "stopping"
  /\ UNCHANGED <<ctxDone, main, connVars, chanVars, rdVars, attempt, hcVars, loopVars>>

\* Faulty variant: a cancelled supervisor, or a timeout, leaves the connection open.
CloseNothing == UNCHANGED <<state, link>>
Interrupt == ClientClose

\* runInterruptible: the context is done; closing the connection unblocks Run.
SupCancelled ==
  /\ sup = "running" /\ ctxDone /\ sup' = "stopping"
  /\ Interrupt
  /\ UNCHANGED <<ctxDone, main, sess, events, mute, chanVars, rdVars, attempt, hcVars,
                 loopVars>>

\* HealthCheckManager.Stop up to its wait for done.
SupStopHealthCheck ==
  /\ sup = "stopping" /\ hc # "none" /\ ~hcStop /\ hcStop' = TRUE
  /\ UNCHANGED <<ctxDone, main, connVars, chanVars, rdVars, supVars, hc, hcSess, pong,
                 inflight, loopVars>>

\* Faulty variant: Stop does not wait for the health check to return.
HealthCheckStoppedUnwaited == hc = "none" \/ hcStop

\* The wait of HealthCheckManager.Stop is over, or there was nothing to stop.
HealthCheckStopped == hc = "none" \/ (hcStop /\ hc = "returned")

\* SetHealthCheck(nil); then give up or reconnect.
SupStopped ==
  /\ sup = "stopping" /\ HealthCheckStopped
  /\ hc' = IF hc = "returned" THEN "none" ELSE hc
  /\ sup' = IF ctxDone \/ ~AutoReconnect THEN "exited" ELSE "after"
  /\ UNCHANGED <<ctxDone, main, connVars, chanVars, rdVars, attempt, hcSess, hcStop,
                 pong, inflight, loopVars>>

\* The attempts are used up: Reconnect returns an error.
Exhausted == attempt >= MaxAttempts
ReturnError == sup' = "exited"

\* Arithmetic of time.Duration: two's complement.
Wrap(d) == ((d + MaxDuration + 1) % (2 * (MaxDuration + 1))) - (MaxDuration + 1)

\* Faulty variant: all the doublings are done before the result is capped.
DoubleThenCap(value, cap, times) ==
  LET doubled[i \in 0 .. times] == IF i = 0 THEN value ELSE Wrap(2 * doubled[i - 1])
  IN IF doubled[times] > cap THEN cap ELSE doubled[times]

\* cappedDouble: doubling stops at the first value that is not below the cap.
CappedDouble(value, cap, times) ==
  LET doubled[i \in 0 .. times] ==
        IF i = 0 THEN value
        ELSE IF doubled[i - 1] < cap THEN Wrap(2 * doubled[i - 1]) ELSE doubled[i - 1]
  IN IF doubled[times] > cap THEN cap ELSE doubled[times]

\* NextInterval: the intervals it may return, a tenth up or down.
NextInterval ==
  LET interval == CappedDouble(BaseInterval, MaxInterval, attempt)
      jitter   == interval \div 10
  IN interval - jitter .. interval + jitter

\* Head of Reconnect's loop: give up after MaxAttempts failures, else wait.
ReconnectHead ==
  /\ sup = "after"
  /\ IF Exhausted
       THEN ReturnError /\ UNCHANGED state
       ELSE sup' = "waiting" /\ state' = "reconnecting"
  /\ UNCHANGED <<ctxDone, main, sess, events, link, mute, chanVars, rdVars, attempt,
                 hcVars, loopVars>>

\* The context is done while Reconnect waits.
ReconnectCancelled ==
  /\ sup = "waiting" /\ ctxDone /\ sup' = "exited"
  /\ UNCHANGED <<ctxDone, main, connVars, chanVars, rdVars, attempt, hcVars, loopVars>>

\* The interval has passed: Connect begins.
ConnectBegin ==
  /\ sup = "waiting" /\ sup' = "connecting" /\ state' = "connecting"
  /\ UNCHANGED <<ctxDone, main, sess, events, link, mute, chanVars, rdVars, attempt,
                 hcVars, loopVars>>

\* Faulty variant: a failed attempt is not counted.
AttemptUncounted == UNCHANGED attempt
AttemptCounted == attempt' = attempt + 1

\* No socket of the list answers, or none completes the handshake.
ConnectFails ==
  /\ sup = "connecting" /\ sup' = "after" /\ state' = "disconnected"
  /\ AttemptCounted
  /\ UNCHANGED <<ctxDone, main, sess, events, link, mute, chanVars, rdVars, hcVars,
                 loopVars>>

\* Connect stores the new connection and its channel ...
ConnectOpens ==
  /\ sup = "connecting" /\ sess < MaxSessions /\ sup' = "connected"
  /\ sess' = sess + 1 /\ events' = sess + 1 /\ mute' = FALSE
  /\ link' = [link EXCEPT ![sess + 1] = "open"]
  /\ chanOpen' = [chanOpen EXCEPT ![sess + 1] = TRUE]
  /\ UNCHANGED <<ctxDone, main, state, chan, rdVars, attempt, hcVars, loopVars>>

SetConnected == state' = "connected"

\* ... then sets the state, and Reconnect resets its attempts and returns.
ConnectDone ==
  /\ sup = "connected" /\ sup' = "top"
  /\ SetConnected /\ attempt' = 0
  /\ UNCHANGED <<ctxDone, main, sess, events, link, mute, chanVars, rdVars, hcVars,
                 loopVars>>

--------------------------------------------------------------------------------
(* HealthCheckManager.run *)

\* The tick: a stale pong is drained.
HCTick ==
  /\ hc = "idle" /\ hc' = "pinging" /\ pong' = FALSE
  /\ UNCHANGED <<ctxDone, main, connVars, chanVars, rdVars, supVars, hcSess, hcStop,
                 inflight, loopVars>>

\* SendRaw(OpPing): it fails on a broken connection and the health check ends;
\* otherwise Discord may put an answer on the wire.
HCPing ==
  /\ hc = "pinging"
  /\ \/ link[sess] = "broken" /\ hc' = "returned" /\ UNCHANGED inflight
     \/ link[sess] = "open" /\ hc' = "waiting" /\ inflight' \in {inflight, ~mute \/ inflight}
  /\ UNCHANGED <<ctxDone, main, connVars, chanVars, rdVars, supVars, hcSess, hcStop,
                 pong, loopVars>>

\* The pong has arrived.
HCPong ==
  /\ hc = "waiting" /\ pong /\ hc' = "idle" /\ pong' = FALSE
  /\ UNCHANGED <<ctxDone, main, connVars, chanVars, rdVars, supVars, hcSess, hcStop,
                 inflight, loopVars>>

CloseHung == ClientClose

\* No pong within the timeout: the client's current connection is closed.
HCTimeout ==
  /\ hc = "waiting" /\ hc' = "returned"
  /\ CloseHung
  /\ UNCHANGED <<ctxDone, main, sess, events, mute, chanVars, rdVars, supVars, hcSess,
                 hcStop, pong, inflight, loopVars>>

\* stopCh is closed or the context is done, in either select.
HCStopped ==
  /\ hc \in {"idle", "waiting"} /\ (hcStop \/ ctxDone) /\ hc' = "returned"
  /\ UNCHANGED <<ctxDone, main, connVars, chanVars, rdVars, supVars, hcSess, hcStop,
                 pong, inflight, loopVars>>

--------------------------------------------------------------------------------
(* runIPCEventLoop *)

\* Faulty variant: the loop waits for a channel it has not ranged over before.
Unseen == events # 0 /\ events # loopChan
Published == events # 0

\* Events() is not nil: range over it, after a broadcast of "connected".
LoopFetch ==
  /\ loop = "fetch" /\ Published
  /\ loop' = "announce" /\ loopChan' = events
  /\ UNCHANGED <<ctxDone, main, connVars, chanVars, rdVars, supVars, hcVars, bcast>>

\* Events() is nil and the context done: the loop returns.  When it is not done
\* the loop polls again, which changes nothing.
LoopExit ==
  /\ loop = "fetch" /\ events = 0 /\ ctxDone /\ loop' = "returned"
  /\ UNCHANGED <<ctxDone, main, connVars, chanVars, rdVars, supVars, hcVars, loopChan, bcast>>

LoopAnnounce ==
  /\ loop = "announce" /\ loop' = "range" /\ bcast' = "connected"
  /\ UNCHANGED <<ctxDone, main, connVars, chanVars, rdVars, supVars, hcVars, loopChan>>

\* One event: a frame goes to the presence state machine, an error ends the range.
LoopReceive ==
  /\ loop = "range" /\ chan[loopChan] # <<>>
  /\ chan' = [chan EXCEPT ![loopChan] = Tail(@)]
  /\ loop' = IF Head(chan[loopChan]) = "frame" THEN "range" ELSE "lost"
  /\ UNCHANGED <<ctxDone, main, connVars, chanOpen, rdVars, supVars, hcVars, loopChan, bcast>>

\* The channel is closed and drained: the range ends.
LoopDrained ==
  /\ loop = "range" /\ chan[loopChan] = <<>> /\ ~chanOpen[loopChan]
  /\ loop' = "lost"
  /\ UNCHANGED <<ctxDone, main, connVars, chanVars, rdVars, supVars, hcVars, loopChan, bcast>>

\* Faulty variant: nothing is broadcast when a session is lost.
SilentLoss == UNCHANGED bcast
AnnounceLoss == bcast' = "reconnecting"

\* The range is over: broadcast "reconnecting" and fetch the channel again.
LoopLost ==
  /\ loop = "lost" /\ loop' = "fetch" /\ AnnounceLoss
  /\ UNCHANGED <<ctxDone, main, connVars, chanVars, rdVars, supVars, hcVars, loopChan>>

--------------------------------------------------------------------------------
RunEnds == ReadFails \/ EmitTerminal \/ ClearEvents \/ CloseEvents

Supervisor ==
  \/ SupStart \/ SupRunReturned \/ SupCancelled \/ SupStopHealthCheck \/ SupStopped
  \/ ReconnectHead \/ ReconnectCancelled \/ ConnectBegin \/ ConnectFails
  \/ ConnectOpens \/ ConnectDone

HealthCheck == HCTick \/ HCPing \/ HCPong \/ HCTimeout \/ HCStopped

EventLoop ==
  LoopFetch \/ LoopExit \/ LoopAnnounce \/ LoopReceive \/ LoopDrained \/ LoopLost

Environment ==
  \/ Signal \/ LinkBreaks \/ DiscordHangs
  \/ \E e \in {"frame", "bad"} : ReadFrame(e)
  \/ ReadPong \/ ReadClose

Next == Environment \/ MainClose \/ RunEnds \/ Supervisor \/ HealthCheck \/ EventLoop

\* Each of the four goroutines runs when it can; a pong on the wire is read.
\* Nothing is assumed of Discord, of the socket or of the signal.
Fairness ==
  /\ WF_vars(RunEnds) /\ WF_vars(ReadPong)
  /\ WF_vars(Supervisor) /\ WF_vars(HealthCheck) /\ WF_vars(EventLoop)

Spec == Init /\ [][Next]_vars /\ Fairness
--------------------------------------------------------------------------------
\* A health check that is still running belongs to the current connection:
\* its Close on a timeout can never hit the session that replaced its own.
HealthCheckOwnSession == hc \in {"idle", "pinging", "waiting"} => hcSess = sess

\* Run always works on the connection and the channel of one and the same
\* successful Connect: it never starts with a nil channel and no two Runs overlap.
RunOwnsSession == rd \in {"reading", "ending", "clearing"} => rdSess = sess /\ events = sess

\* What Events() returns is open: the event loop never starts to range over a channel
\* that is already closed, which it would do again and again without ever waiting.
PublishedOpen == events # 0 => chanOpen[events]

\* While a session is being read and nothing has ended it, the client is
\* reported connected and its health is watched.
LiveSessionWatched ==
  rd = "reading" /\ link[rdSess] = "open" /\ ~ctxDone
    => state = "connected" /\ hc \in {"idle", "pinging", "waiting"}

\* Run sends on and closes an open channel only: it never sends after a close and never
\* closes twice, either of which would be a panic.
SendsOnOpen == rd \in {"reading", "ending", "clearing", "closing"} => chanOpen[rdSess]

\* Who runs while who waits: Run and the health check live within one turn of the
\* supervisor, except that a cancelled supervisor does not wait for Run.
Places ==
  /\ rd \in {"reading", "ending", "clearing", "closing"} =>
       rdSess = sess /\ sess # 0
         /\ (sup = "running" \/ (ctxDone /\ sup \in {"stopping", "exited"}))
  /\ sup = "running" => rd # "none"
  /\ hc # "none" => hcSess = sess /\ sess # 0 /\ sup \in {"running", "stopping"}
  /\ hc # "none" /\ hcStop => sup = "stopping"
  /\ sup \in {"waiting", "connecting"} => attempt < MaxAttempts
  /\ main = "closed" => ctxDone

\* What the client holds: a connection and a channel from Connect until Run's deferred
\* function, and nothing of a session that is still to come.
Holds ==
  /\ state = "connected" \/ sup = "connected" => sess # 0
  /\ sup = "top" /\ sess # 0 /\ ~ctxDone => state = "connected"
  /\ sup \in {"top", "connected"} => events = sess
  /\ rd = "closing" => events = 0
  /\ rd \in {"none", "returned"} /\ sup \notin {"top", "connected"} => events = 0
  /\ loop \in {"announce", "range"} => loopChan # 0
  /\ \A k \in Sessions : k > sess => chan[k] = <<>> /\ ~chanOpen[k] /\ link[k] = "none"

\* Reader, supervisor, health check and event loop never mix two sessions, although
\* each of them keeps a connection or a channel of its own over its steps.
SessionInv ==
  /\ TypeOK
  /\ HealthCheckOwnSession /\ RunOwnsSession /\ PublishedOpen /\ LiveSessionWatched
  /\ SendsOnOpen /\ Places /\ Holds

\* "Exponential backoff [...] (max), jitter +-10%" (SPEC.md): whatever Reconnect waits
\* before attempt n is within a tenth of min(max, base * 2^n), however often the
\* connect failed and however far base * 2^n is out of range.
BackoffExact ==
  sup = "waiting" =>
    LET exact == BaseInterval * 2 ^ attempt
        ideal == IF exact < MaxInterval THEN exact ELSE MaxInterval
    IN NextInterval # {} /\ \A d \in NextInterval : 10 * d \in 9 * ideal .. 11 * ideal

\* A session that hangs is given up: the health check finds it out.
HungSessionEnds == (rd = "reading" /\ mute) ~> (rd # "reading" \/ ctxDone)

\* After a session has ended the supervisor connects again or gives up; it never
\* waits for a health check, a reader or an event loop that waits for it.
RecoversOrGivesUp == (rd = "ending") ~> (sup = "connected" \/ sup = "exited")

\* A session that ended is announced, to whoever was told that it is connected.
EndAnnounced ==
  (rd = "ending" /\ bcast = "connected") ~> (bcast = "reconnecting" \/ ctxDone)

\* A session that is being read is drained: a frame that does not parse makes the
\* loop leave its range as if the session were over, but it comes back to the channel.
LiveSessionDrained ==
  (rd = "reading" /\ loop # "range") ~> (rd # "reading" \/ loop = "range")

\* After the signal the event loop returns, although it looks at the context only
\* between sessions: Run always closes the channel it ranges over.
LoopReturns == ctxDone ~> (loop = "returned")
================================================================================
