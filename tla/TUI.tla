---------------------------------- MODULE TUI ----------------------------------
(****************************************************************************)
(* The terminal dashboard: the bubbletea model (internal/tui/model.go) and  *)
(* its WebSocket backend (internal/tui/client.go).                          *)
(*                                                                          *)
(* bubbletea handles one message at a time in Update.  A command returned   *)
(* by Update runs in a goroutine of its own and its result comes back as a  *)
(* message, in no order with respect to the other commands: the commands    *)
(* that run, and the results not yet handled, are counted or kept in sets.  *)
(* Each successful Dial starts a readPump goroutine that feeds one shared   *)
(* buffered channel.  What the screen shows of a message is abstracted to   *)
(* which message it is and whether its activity has timestamps.             *)
(****************************************************************************)
EXTENDS Naturals, Sequences, FiniteSets

CONSTANTS
  Base, Cap,     \* reconnectBase and reconnectMax, in seconds
  OutCap,        \* capacity of wsBackend.out (16 in the code)
  MaxDials,      \* bound of the model: successful dials in a behaviour
  MaxMsgs        \* bound of the model: frames received per connection

ASSUME TUIAssumption ==
  /\ Base \in Nat \ {0} /\ Cap \in Nat /\ Base <= Cap
  /\ OutCap \in Nat \ {0} /\ MaxDials \in Nat /\ MaxMsgs \in Nat

Links == 1 .. MaxDials
\* "live": a presence or current message whose activity has timestamps; "plain":
\* one without; "other": a state or error message, or a presence message with a
\* bad payload; "bad": a frame that does not parse; "lost": the read error.
Kinds == {"live", "plain", "other", "bad", "lost"}
Events == [kind : Kinds, link : Links, seq : 1 .. MaxMsgs + 1]

VARIABLES
  \* Model
  ws, backoff,
  live,        \* the snapshot's activity has timestamps
  shown,       \* <<link, seq>> of the last event Update has handled
  done,        \* Model.done is closed (and the context cancelled)
  program,     \* bubbletea's loop: "running", "quit", "panicked"
  \* commands that run, and results that wait for Update
  dials, connecteds, sleeps, readers, ticks,
  inHand,      \* events a readCmd has received
  \* wsBackend
  conn,        \* wsBackend.conn: its link, 0 when nil
  link,        \* per link: "none", "open", "broken"
  pump,        \* per link: where its readPump is
  got,         \* per link: frames read so far
  held,        \* per link: kind of the event readPump delivers
  out          \* contents of wsBackend.out

modelVars == <<ws, backoff, live, shown, done, program>>
cmdVars   == <<dials, connecteds, sleeps, readers, ticks, inHand>>
backVars  == <<conn, link, pump, got, held, out>>
vars == <<modelVars, cmdVars, backVars>>

TypeOK ==
  /\ ws \in {"connecting", "connected", "reconnecting"}
  /\ backoff \in 0 .. Cap
  /\ live \in BOOLEAN /\ done \in BOOLEAN
  /\ shown \in (0 .. MaxDials) \X (0 .. MaxMsgs + 1)
  /\ program \in {"running", "quit", "panicked"}
  /\ dials \in Nat /\ connecteds \in Nat /\ sleeps \in Nat
  /\ readers \in Nat /\ ticks \in Nat
  /\ inHand \subseteq Events
  /\ conn \in 0 .. MaxDials
  /\ link \in [Links -> {"none", "open", "broken"}]
  /\ pump \in [Links -> {"none", "reading", "delivering", "returned"}]
  /\ got \in [Links -> 0 .. MaxMsgs + 1]
  /\ held \in [Links -> Kinds]
  /\ out \in Seq(Events) /\ Len(out) <= OutCap

\* newModel, and the connect command returned by Init.
Init ==
  /\ ws = "connecting" /\ backoff = 0 /\ live = FALSE /\ shown = <<0, 0>>
  /\ done = FALSE /\ program = "running"
  /\ dials = 1 /\ connecteds = 0 /\ sleeps = 0 /\ readers = 0 /\ ticks = 0
  /\ inHand = {}
  /\ conn = 0
  /\ link = [k \in Links |-> "none"] /\ pump = [k \in Links |-> "none"]
  /\ got = [k \in Links |-> 0] /\ held = [k \in Links |-> "lost"]
  /\ out = <<>>

--------------------------------------------------------------------------------
(* wsBackend: Dial, readPump and the connection. *)

Dialed == Cardinality({k \in Links : link[k] # "none"})

\* Dial connects, subscribes, asks for the current presence, stores the
\* connection and starts its readPump; connectedMsg is on its way.
DialOpens ==
  /\ dials > 0 /\ Dialed < MaxDials
  /\ dials' = dials - 1 /\ connecteds' = connecteds + 1
  /\ conn' = Dialed + 1
  /\ link' = [link EXCEPT ![Dialed + 1] = "open"]
  /\ pump' = [pump EXCEPT ![Dialed + 1] = "reading"]
  /\ UNCHANGED <<modelVars, sleeps, readers, ticks, inHand, got, held, out>>

\* The server or the network closes a connection.
LinkBreaks(k) ==
  /\ link[k] = "open" /\ link' = [link EXCEPT ![k] = "broken"]
  /\ UNCHANGED <<modelVars, cmdVars, conn, pump, got, held, out>>

\* readPump reads a frame, or the error that ends the connection.
PumpReads(k, kind) ==
  /\ pump[k] = "reading"
  /\ IF kind = "lost" THEN link[k] = "broken" ELSE link[k] = "open" /\ got[k] < MaxMsgs
  /\ pump' = [pump EXCEPT ![k] = "delivering"]
  /\ got' = [got EXCEPT ![k] = @ + 1]
  /\ held' = [held EXCEPT ![k] = kind]
  /\ UNCHANGED <<modelVars, cmdVars, conn, link, out>>

\* deliver: into the channel when there is room, or dropped once cancelled.
PumpDelivers(k) ==
  /\ pump[k] = "delivering"
  /\ \/ /\ Len(out) < OutCap
        /\ out' = Append(out, [kind |-> held[k], link |-> k, seq |-> got[k]])
     \/ done /\ UNCHANGED out
  /\ pump' = [pump EXCEPT ![k] = IF held[k] = "lost" THEN "returned" ELSE "reading"]
  /\ UNCHANGED <<modelVars, cmdVars, conn, link, got, held>>

--------------------------------------------------------------------------------
(* The goroutine of readCmd. *)

ReadCmdReceives ==
  /\ readers > 0 /\ out # <<>>
  /\ readers' = readers - 1 /\ inHand' = inHand \cup {Head(out)} /\ out' = Tail(out)
  /\ UNCHANGED <<modelVars, dials, connecteds, sleeps, ticks, conn, link, pump,
                 got, held>>

\* done is closed: the command returns no message.
ReadCmdDone ==
  /\ readers > 0 /\ done /\ readers' = readers - 1
  /\ UNCHANGED <<modelVars, dials, connecteds, sleeps, ticks, inHand, backVars>>

--------------------------------------------------------------------------------
(* Update, one action per message. *)

NextBackoff ==
  IF backoff = 0 THEN Base ELSE IF backoff * 2 > Cap THEN Cap ELSE backoff * 2

\* Faulty variant: the reconnect timer is not started again.
ScheduleReconnectOnce ==
  /\ ws' = "reconnecting" /\ backoff' = NextBackoff
  /\ sleeps' = IF ws = "reconnecting" THEN sleeps ELSE sleeps + 1

\* scheduleReconnect: the status, the next delay, and a timer command.
ScheduleReconnect ==
  /\ ws' = "reconnecting" /\ backoff' = NextBackoff
  /\ sleeps' = sleeps + 1

\* connectFailedMsg, the result of a Dial that failed.
HandleConnectFailed ==
  /\ program = "running" /\ dials > 0 /\ dials' = dials - 1
  /\ ScheduleReconnect
  /\ UNCHANGED <<live, shown, done, program, connecteds, readers, ticks, inHand,
                 backVars>>

\* connectedMsg: the status, the reset of the delay, and a readCmd.
HandleConnected ==
  /\ program = "running" /\ connecteds > 0 /\ connecteds' = connecteds - 1
  /\ ws' = "connected" /\ backoff' = 0 /\ readers' = readers + 1
  /\ UNCHANGED <<live, shown, done, program, dials, sleeps, ticks, inHand, backVars>>

\* reconnectMsg, the timer of scheduleReconnect: a connect command.
HandleReconnect ==
  /\ program = "running" /\ sleeps > 0
  /\ sleeps' = sleeps - 1 /\ dials' = dials + 1
  /\ UNCHANGED <<modelVars, connecteds, readers, ticks, inHand, backVars>>

\* Faulty variant: a parse error counts as fatal.
FatalAny(e) == e.kind \in {"lost", "bad"}
Fatal(e) == e.kind = "lost"

\* Faulty variants: a parse error ends the chain of reads; a lost connection
\* does not.
ReadAgainUnlessBad(e) == readers' = IF e.kind \in {"lost", "bad"} THEN readers ELSE readers + 1
ReadAgainAlways(e) == readers' = readers + 1

\* A new readCmd after every event but a fatal one.
ReadAgain(e) == readers' = IF Fatal(e) THEN readers ELSE readers + 1

\* needsTick on the new snapshot: a further tick command.
TickIfLive == ticks' = IF live' THEN ticks + 1 ELSE ticks

\* wsEventMsg: handleWsEvent with applyServerMessage.
HandleEvent(e) ==
  /\ program = "running" /\ e \in inHand /\ inHand' = inHand \ {e}
  /\ shown' = <<e.link, e.seq>>
  /\ live' = IF e.kind \in {"live", "plain"} THEN e.kind = "live" ELSE live
  /\ IF Fatal(e) THEN ScheduleReconnect ELSE UNCHANGED <<ws, backoff, sleeps>>
  /\ ReadAgain(e)
  /\ IF e.kind \in {"lost", "bad"} THEN UNCHANGED ticks ELSE TickIfLive
  /\ UNCHANGED <<done, program, dials, connecteds, backVars>>

\* tickMsg: the clock is redrawn, and ticks on while there are timestamps.
HandleTick ==
  /\ program = "running" /\ ticks > 0
  /\ ticks' = IF live THEN ticks ELSE ticks - 1
  /\ UNCHANGED <<modelVars, dials, connecteds, sleeps, readers, inHand, backVars>>

\* wsBackend.Close.
CloseConn ==
  /\ conn' = 0
  /\ link' = IF conn = 0 THEN link ELSE [link EXCEPT ![conn] = "broken"]

\* A quit key: close done, cancel, close the backend, and the quit command.  A
\* second close of done panics.
HandleQuitKey ==
  /\ program = "running"
  /\ IF done
       THEN program' = "panicked" /\ UNCHANGED <<done, conn, link>>
       ELSE done' = TRUE /\ CloseConn /\ UNCHANGED program
  /\ UNCHANGED <<ws, backoff, live, shown, cmdVars, pump, got, held, out>>

\* The message of the quit command ends bubbletea's loop.
HandleQuit ==
  /\ program = "running" /\ done /\ program' = "quit"
  /\ UNCHANGED <<ws, backoff, live, shown, done, cmdVars, backVars>>

--------------------------------------------------------------------------------
Pump(k) == (\E kind \in Kinds : PumpReads(k, kind)) \/ PumpDelivers(k)

Next ==
  \/ DialOpens
  \/ \E k \in Links : LinkBreaks(k) \/ Pump(k)
  \/ ReadCmdReceives \/ ReadCmdDone
  \/ HandleConnectFailed \/ HandleConnected \/ HandleReconnect \/ HandleTick
  \/ \E e \in inHand : HandleEvent(e)
  \/ HandleQuitKey \/ HandleQuit

\* Commands run, a Dial ends within its timeout one way or the other, a broken
\* connection makes the read fail, and bubbletea handles its messages.  Nobody
\* has to send, to accept a connection or to press a key.
Fairness ==
  /\ WF_vars(DialOpens \/ HandleConnectFailed) /\ WF_vars(HandleConnected)
  /\ WF_vars(HandleReconnect) /\ WF_vars(HandleQuit)
  /\ WF_vars(ReadCmdReceives) /\ WF_vars(\E e \in inHand : HandleEvent(e))
  /\ \A k \in Links : WF_vars(PumpReads(k, "lost")) /\ WF_vars(PumpDelivers(k))

Spec == Init /\ [][Next]_vars /\ Fairness
--------------------------------------------------------------------------------
\* The screen never goes back: events reach Update in the order in which they
\* were read, over reconnections too, although every read is a goroutine of its
\* own and all readPumps share one channel.
ShownInOrder ==
  [][shown' # shown => \/ shown'[1] > shown[1]
                       \/ shown'[1] = shown[1] /\ shown'[2] > shown[2]]_vars

\* A new connection is dialled only after the readPump of the last one is gone:
\* the shared channel never mixes two connections.
OnePump ==
  \A k \in Links : dials + sleeps > 0 \/ k # Dialed => pump[k] \in {"none", "returned"}

\* What serialises the dashboard: at most one command, or result of a command,
\* of the connect and read chain is on its way at any time.
OneChain ==
  IsFiniteSet(inHand) /\ dials + connecteds + sleeps + readers + Cardinality(inHand) <= 1

\* While an activity with timestamps is shown, a tick is on its way.
ClockRuns == live => ticks > 0

\* Connections are dialled one after the other, the backend holds the last one, and a
\* readPump reads no further than its connection goes.
DialedInTurn ==
  /\ {k \in Links : link[k] # "none"} = 1 .. Dialed
  /\ conn \in {0, Dialed}
  /\ \A k \in Links :
       /\ pump[k] # "none" <=> k <= Dialed
       /\ pump[k] = "none" => got[k] = 0
       /\ pump[k] = "reading" => got[k] <= MaxMsgs
       /\ pump[k] = "delivering" => got[k] > 0 /\ (held[k] # "lost" => got[k] <= MaxMsgs)

\* Events between a readPump and Update.
Queued == inHand \cup {out[i] : i \in DOMAIN out}

\* The pipeline from readPump over the channel and readCmd to Update: it holds events of
\* the last connection only, in the order in which they were read and later than what
\* is shown, and nothing comes after the event that tells of the loss.
Pipeline ==
  /\ dials + sleeps > 0 => out = <<>>
  /\ \A e \in Queued :
       /\ e.link = Dialed /\ e.seq <= got[Dialed]
       /\ pump[Dialed] = "delivering" => e.seq < got[Dialed]
       /\ e.kind = "lost" => pump[Dialed] = "returned"
       /\ shown[1] = Dialed => shown[2] < e.seq
  /\ \A e \in inHand, i \in DOMAIN out : e.kind # "lost" /\ e.seq < out[i].seq
  /\ \A i, j \in DOMAIN out : i < j => out[i].kind # "lost" /\ out[i].seq < out[j].seq
  /\ shown[1] <= Dialed
  /\ shown[1] = Dialed /\ Dialed # 0 =>
       shown[2] <= got[Dialed] /\ (pump[Dialed] = "delivering" => shown[2] < got[Dialed])

\* What makes it safe that every command is a goroutine: one chain of commands, one
\* readPump on the shared channel, a running clock, and a pipeline that keeps the order.
CommandInv ==
  TypeOK /\ OneChain /\ OnePump /\ ClockRuns /\ DialedInTurn /\ Pipeline

\* The dashboard does not go on claiming to be connected over a connection that
\* is gone: readPump, the channel, readCmd and Update pass the loss on.
LossNoticed ==
  (ws = "connected" /\ conn # 0 /\ link[conn] = "broken") ~> (ws = "reconnecting" \/ done)

\* After a loss or a failed dial the dashboard dials again, however often.
DialsAgain == (ws = "reconnecting") ~> (dials > 0 \/ ws = "connected" \/ done)
================================================================================
