--------------------------------- MODULE Consumer -------------------------------
(****************************************************************************)
(* The example consumer (examples/consumer/main.go) in a conversation with  *)
(* the proxy: from a Discord frame through parser, cache, message and wire  *)
(* to the line that is printed, with lost connections, read deadlines,      *)
(* backoff and Ctrl-C.                                                      *)
(*                                                                          *)
(* The proxy is reduced to what one client sees of it: windows have no      *)
(* length here (Proxy has them), and a full send buffer drops a message.    *)
(* Time is a clock whose tick is the proxy's ping period; a deadline or a   *)
(* wait that is due is served before the clock goes on.                     *)
(****************************************************************************)
EXTENDS Messages

CONSTANTS
  RawActivities,   \* what Discord may send
  InboxCap,        \* messages on their way to the consumer
  PongWait,        \* pongWait in ticks (90 s in the code, 3 pings)
  ReconnectMin,    \* reconnectMin in ticks (1 s in the code)
  ReconnectMax,    \* reconnectMax in ticks (30 s in the code)
  MaxClosers       \* bound of the model: closer goroutines that have not returned

ASSUME ConsumerAssumption ==
  /\ RawActivities \subseteq Raw \cup {Nil}
  /\ InboxCap \in Nat \ {0} /\ PongWait \in Nat \ {0} /\ MaxClosers \in Nat \ {0}
  /\ ReconnectMin \in Nat \ {0} /\ ReconnectMax \in Nat /\ ReconnectMin <= ReconnectMax

VARIABLES
  up,            \* the proxy is running
  hasSource, cached, lastNotified,   \* its presence state machine
  pushed,        \* history: what its subscribers know, the snapshot pushed last
  requests,      \* requests its ReadPump has yet to read
  subscribed,    \* the consumer's connection is subscribed
  inbox,         \* messages on their way, each with the activity it is about
  ctxDone,       \* Ctrl-C
  pc,            \* "dialing", "writing", "reading", "waiting", "returned"
  link,          \* the session's connection: "up", "silent" (the peer is gone) or "closed"
  received,      \* a message was read in this session
  deadline,      \* ticks until the read deadline
  age,           \* ticks since the session's read loop began
  backoff, wait, \* the next wait, and what is left of the current one
  watching,      \* closer goroutines that wait for Ctrl-C or the session's end
  leaving        \* those that were told of the session's end

proxyVars   == <<up, hasSource, cached, lastNotified, pushed>>
wireVars    == <<requests, subscribed, inbox>>
sessionVars == <<link, received, deadline, age>>
closerVars  == <<watching, leaving>>
vars == <<proxyVars, wireVars, ctxDone, pc, sessionVars, backoff, wait, closerVars>>

Activities == {ParseActivity(r) : r \in {r \in RawActivities : Parses(r)}} \cup {ZeroActivity}

\* nil is none of the values a pointer points to: an activity, its encoding, a
\* snapshot.
ASSUME NilAssumption ==
  \A a \in Activities :
    Nil \notin {a, MarshalJSON(a), Snapshot(TRUE, a), Snapshot(FALSE, a)}

\* What is known before the first activity.
NoSource == Snapshot(FALSE, ZeroActivity)
Snapshots == {Snapshot(TRUE, a) : a \in Activities} \cup {NoSource}

\* What the consumer asks for.
Requests == {Subscribe(EventTypes), GetCurrent}

\* A message on its way, and the activity it is about.
Note(m, a) == [msg |-> m, about |-> a]
\* Everything the proxy tells a client: the state of its Discord session, a changed
\* activity, and the answer to a request, with and without an activity source.
Notes ==
  {Note(NewStateMessage(s), Nil) : s \in ConnectionStates}
  \cup {Note(NewPresenceMessage(Snapshot(TRUE, a)), a) : a \in Activities}
  \cup {Note(NewCurrentMessage(Snapshot(TRUE, a)), a) : a \in Activities}
  \cup {Note(NewCurrentMessage(NoSource), Nil)}

TypeOK ==
  /\ up \in BOOLEAN /\ hasSource \in BOOLEAN
  /\ cached \in Activities /\ lastNotified \in Activities
  /\ pushed \in Snapshots
  /\ requests \in Seq(Requests) /\ Len(requests) <= 2
  /\ inbox \in Seq(Notes) /\ Len(inbox) <= InboxCap
  /\ subscribed \in BOOLEAN /\ ctxDone \in BOOLEAN
  /\ link \in {"up", "silent", "closed"}
  /\ pc \in {"dialing", "writing", "reading", "waiting", "returned"}
  /\ received \in BOOLEAN /\ deadline \in 0 .. PongWait /\ age \in 0 .. PongWait + 1
  /\ backoff \in ReconnectMin .. ReconnectMax /\ wait \in 0 .. ReconnectMax
  /\ watching \in Nat /\ leaving \in Nat /\ watching + leaving <= MaxClosers

Init ==
  /\ up \in BOOLEAN /\ hasSource = FALSE
  /\ cached = ZeroActivity /\ lastNotified = ZeroActivity /\ pushed = NoSource
  /\ requests = <<>> /\ subscribed = FALSE /\ inbox = <<>>
  /\ ctxDone = FALSE /\ pc = "dialing"
  /\ link = "closed" /\ received = FALSE /\ deadline = 0 /\ age = 0
  /\ backoff = ReconnectMin /\ wait = 0
  /\ watching = 0 /\ leaving = 0

--------------------------------------------------------------------------------
(* The proxy, as this client sees it *)

\* A message to the consumer, dropped when its buffer is full.
Send(m, about) ==
  inbox' = IF Len(inbox) < InboxCap THEN Append(inbox, Note(m, about)) ELSE inbox

\* A Discord frame: one that parses replaces the cached activity, and is pushed if
\* it differs from the last one pushed.
Frame(r) ==
  /\ up /\ Parses(r)
  /\ hasSource' = TRUE /\ cached' = ParseActivity(r)
  /\ IF Equals(ParseActivity(r), lastNotified)
       THEN UNCHANGED <<lastNotified, pushed, inbox>>
       ELSE /\ lastNotified' = ParseActivity(r) /\ pushed' = Snapshot(TRUE, ParseActivity(r))
            /\ IF subscribed /\ link = "up"
                 THEN Send(NewPresenceMessage(Snapshot(TRUE, ParseActivity(r))), ParseActivity(r))
                 ELSE UNCHANGED inbox
  /\ UNCHANGED <<up, requests, subscribed, ctxDone, pc, sessionVars, backoff, wait, closerVars>>

\* The state of the Discord session changes.
StateChange(s) ==
  /\ up /\ subscribed /\ link = "up"
  /\ Send(NewStateMessage(s), Nil)
  /\ UNCHANGED <<proxyVars, requests, subscribed, ctxDone, pc, sessionVars, backoff, wait,
                 closerVars>>

\* ReadPump handles a request.
Handle ==
  /\ up /\ link = "up" /\ requests # <<>> /\ requests' = Tail(requests)
  /\ LET r == Head(requests)
         a == Answers(r, hasSource, cached)
     IN /\ subscribed' = (subscribed \/ (r.type = "subscribe" /\ ClientMessageValid(r)))
        /\ IF a = <<>> THEN UNCHANGED inbox
                       ELSE Send(Head(a), IF hasSource THEN cached ELSE Nil)
  /\ UNCHANGED <<proxyVars, ctxDone, pc, sessionVars, backoff, wait, closerVars>>

\* The proxy stops, and the connection with it, which a consumer that was cut off
\* silently does not learn; a new process knows no activity.
ProxyStops ==
  /\ up /\ up' = FALSE /\ link' = IF link = "up" THEN "closed" ELSE link
  /\ hasSource' = FALSE /\ cached' = ZeroActivity /\ lastNotified' = ZeroActivity
  /\ pushed' = NoSource
  /\ UNCHANGED <<wireVars, ctxDone, pc, received, deadline, age, backoff, wait, closerVars>>

ProxyStarts ==
  /\ ~up /\ up' = TRUE
  /\ UNCHANGED <<hasSource, cached, lastNotified, pushed, wireVars, ctxDone, pc, sessionVars,
                 backoff, wait, closerVars>>

\* The connection is lost and neither side is told.
LinkLost ==
  /\ link = "up" /\ link' = "silent"
  /\ UNCHANGED <<proxyVars, wireVars, ctxDone, pc, received, deadline, age, backoff, wait,
                 closerVars>>

--------------------------------------------------------------------------------
(* run and consume *)

CtrlC ==
  /\ ~ctxDone /\ ctxDone' = TRUE
  /\ UNCHANGED <<proxyVars, wireVars, pc, sessionVars, backoff, wait, closerVars>>

\* The dial succeeds, also one that Ctrl-C comes too late for; the closer goroutine
\* starts.
DialOK ==
  /\ pc = "dialing" /\ up /\ watching + leaving < MaxClosers
  /\ pc' = "writing" /\ link' = "up" /\ received' = FALSE
  /\ watching' = watching + 1 /\ UNCHANGED leaving
  /\ UNCHANGED <<proxyVars, wireVars, ctxDone, deadline, age, backoff, wait>>

\* Faulty variant: the closer is not told that the session is over.
ReleaseNone == UNCHANGED closerVars
\* close(done): the closer leaves, unless Ctrl-C made it return before.
ReleaseCloser ==
  \/ watching > 0 /\ watching' = watching - 1 /\ leaving' = leaving + 1
  \/ watching = 0 /\ UNCHANGED closerVars

\* The wait after a session that read something is short again.
AfterConsume(got) == IF got THEN ReconnectMin ELSE backoff

\* consume returns: the connection is closed, the closer released; run returns after
\* Ctrl-C and waits otherwise.
ConsumeReturns(got) ==
  /\ requests' = <<>> /\ subscribed' = FALSE /\ inbox' = <<>>
  /\ link' = "closed" /\ received' = FALSE /\ deadline' = 0 /\ age' = 0
  /\ ReleaseCloser
  /\ IF ctxDone
       THEN pc' = "returned" /\ UNCHANGED <<backoff, wait>>
       ELSE pc' = "waiting" /\ backoff' = AfterConsume(got) /\ wait' = AfterConsume(got)
  /\ UNCHANGED <<proxyVars, ctxDone>>

DialFails == pc = "dialing" /\ ConsumeReturns(FALSE)

\* subscribe and get_current are sent, the deadline is set.
WriteOK ==
  /\ pc = "writing" /\ link # "closed" /\ pc' = "reading"
  /\ requests' = <<Subscribe(EventTypes), GetCurrent>>
  /\ deadline' = PongWait /\ age' = 0
  /\ UNCHANGED <<proxyVars, subscribed, inbox, ctxDone, link, received, backoff, wait,
                 closerVars>>

WriteFails == pc = "writing" /\ link = "closed" /\ ConsumeReturns(FALSE)

\* A message is read and printed.
Read ==
  /\ pc = "reading" /\ link # "closed" /\ inbox # <<>>
  /\ inbox' = Tail(inbox) /\ received' = TRUE
  /\ UNCHANGED <<proxyVars, requests, subscribed, ctxDone, pc, link, deadline, age, backoff,
                 wait, closerVars>>

\* Faulty variant: no read deadline is set.
NeverExpires == FALSE
Expired == deadline = 0

\* The connection is broken or closed, or the deadline has passed.
ReadFails == pc = "reading" /\ (link = "closed" \/ Expired) /\ ConsumeReturns(received)

\* Faulty variant: the closer returns and leaves the connection open.
CloserOnlyReturns ==
  /\ watching > 0 /\ ctxDone /\ watching' = watching - 1 /\ UNCHANGED link

\* The select's first case: the connection is closed under the blocked read.
CloserSelects ==
  /\ watching > 0 /\ ctxDone /\ watching' = watching - 1 /\ link' = "closed"

CloserCloses ==
  /\ CloserSelects
  /\ UNCHANGED <<proxyVars, wireVars, ctxDone, pc, received, deadline, age, backoff, wait,
                 leaving>>

\* The closer of a session that is over returns.
CloserLeaves ==
  /\ leaving > 0 /\ leaving' = leaving - 1
  /\ UNCHANGED <<proxyVars, wireVars, ctxDone, pc, sessionVars, backoff, wait, watching>>

Doubled == IF 2 * backoff > ReconnectMax THEN ReconnectMax ELSE 2 * backoff

\* The wait is over; if Ctrl-C has come as well, select takes either case.
Retry ==
  /\ pc = "waiting" /\ wait = 0 /\ pc' = "dialing"
  /\ backoff' = Doubled
  /\ UNCHANGED <<proxyVars, wireVars, ctxDone, sessionVars, wait, closerVars>>

WaitCancelled ==
  /\ pc = "waiting" /\ ctxDone /\ pc' = "returned"
  /\ UNCHANGED <<proxyVars, wireVars, ctxDone, sessionVars, backoff, wait, closerVars>>

\* Pings are answered without touching the deadline; only a pong would renew it, and
\* the proxy sends none.
AfterPing == deadline - 1

\* A ping period passes.
Tick ==
  /\ \/ /\ pc = "reading" /\ link # "closed" /\ deadline > 0 /\ deadline' = AfterPing
        /\ age' = IF age <= PongWait THEN age + 1 ELSE age
        /\ UNCHANGED wait
     \/ pc = "waiting" /\ wait > 0 /\ wait' = wait - 1 /\ UNCHANGED <<deadline, age>>
  /\ UNCHANGED <<proxyVars, wireVars, ctxDone, pc, link, received, backoff, closerVars>>

--------------------------------------------------------------------------------
Consume ==
  \/ DialFails \/ WriteOK \/ WriteFails \/ Read \/ ReadFails \/ Retry \/ WaitCancelled

Next ==
  \/ \E r \in RawActivities : Frame(r)
  \/ \E s \in ConnectionStates : StateChange(s)
  \/ Handle \/ ProxyStops \/ ProxyStarts \/ LinkLost
  \/ CtrlC \/ DialOK \/ Consume \/ CloserCloses \/ CloserLeaves \/ Tick

\* The consumer's goroutines run, and the proxy answers while it runs.  A dial ends
\* and, tried again and again against a running proxy, succeeds.
Fairness ==
  /\ WF_vars(DialOK \/ Consume) /\ SF_vars(DialOK)
  /\ WF_vars(CloserCloses) /\ WF_vars(CloserLeaves) /\ WF_vars(Handle)

Spec == Init /\ [][Next]_vars /\ Fairness
--------------------------------------------------------------------------------
\* Neither side rejects what the other one sends: the proxy accepts the requests,
\* and every message passes the server's own validation, which the terminal
\* dashboard applies, and decodes in the consumer.
AllUnderstood ==
  \A i \in 1 .. Len(inbox) :
    LET m == inbox[i].msg
    IN ServerMessageValid(m) /\ Format(m).line \notin {"skipped", "error"}

\* What is printed is true of the activity it is about, and nothing is lost on the
\* way by a refusal: "no activity source" is visibly distinct from a cleared activity
\* (PLAN.md), cleared means equal to the zero activity, and anything else is printed
\* as it was cached.
PrintedTrue ==
  /\ AllUnderstood
  /\ \A i \in 1 .. Len(inbox) :
       LET p == Format(inbox[i].msg)
           a == inbox[i].about
       IN inbox[i].msg.type # "state" =>
            /\ p.line = "nosource" <=> a = Nil
            /\ p.line = "cleared" <=> a # Nil /\ Equals(a, ZeroActivity)
            /\ p.line = "activity" => Equals(p.activity, a)

\* A change that a client could see on the wire, of the activity or of its source, is
\* never taken for no change: what get_current would answer is what was pushed last.
\* The one exception is a first activity that is empty: it brings a source, but equals
\* the zero lastNotified (presence.go:62, 168), and subscribers still know of none.
NoChangeSwallowed ==
  \/ pushed = Snapshot(hasSource, cached)
  \/ pushed = NoSource /\ hasSource /\ cached = ZeroActivity

\* A session lasts no longer than pongWait, healthy or not: the deadline is set once
\* and only the pongs that the proxy never sends would renew it, so that the time a
\* session has had and the time it has left never exceed pongWait together.
SessionsBounded == age + deadline <= PongWait

\* A closer waits only as long as its session lasts: sessions that end, one after the
\* other, leave no goroutine behind.
NoLeak == watching <= IF pc \in {"writing", "reading"} THEN 1 ELSE 0

\* What every session of a long row of sessions leaves behind: bounded deadlines and
\* waits, and no goroutine.
SessionInv == TypeOK /\ SessionsBounded /\ NoLeak

\* "exits cleanly on Ctrl-C" (README.md): run returns, whether it was dialing, reading
\* or waiting, and needs no timer for it: the clock is not assumed to go on.
Exits == ctxDone ~> (pc = "returned" /\ watching + leaving = 0)

\* If time passes and from some time on the proxy runs and connections are not lost
\* any more, the consumer ends up reading from a working connection again and again,
\* until Ctrl-C: a connection that was lost silently is given up at the deadline.
Resumes ==
  WF_vars(Tick) /\ <>[](up /\ ~ctxDone) /\ <>[][~LinkLost]_vars
    => []<>(pc = "reading" /\ link = "up")
================================================================================
