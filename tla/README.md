# Verification of discord-proxy-rpc

TLA+ models of the proxy and of the programs that talk to it, TLC configurations that
check them on small instances, and TLAPS proofs of the results that hold for every
instance.
Paths are relative to the root of the repository.

## 1. The system

The proxy reads a user's activity from the Discord desktop client over a local IPC
socket and offers it on the LAN over HTTP and WebSocket.

```
Discord --IPC--> ipc.Client --events--> runIPCEventLoop --Update--> state.Presence
                    ^   ^                     |                         | callback
        RunWithReconnect, health check        | state message           v
                                              +-----> server.Hub <-- presence message
                                                        |  one pair of pumps per client
                                                        v
                                        browser dashboard, terminal dashboard, others
```

| Component | State | Operations | Interacts with | Hard behaviour | Correct when |
|---|---|---|---|---|---|
| Hub (`internal/server/hub.go`) | map of clients; register, unregister, broadcast and done channels; per client a send channel, Done and subscriptions | Run, Register, Unregister, Broadcast, Close, ReadPump, WritePump, SendMessage | upgrade handler, event loop, presence callback, main | pumps, Run and Close race on channels that get closed; bounded channels drop; shutdown from two sides | no panic, no stalled fan-out, order kept, map and channels agree, nobody left behind |
| Upgrade handler and connection tracker (`ws.go`, `ratelimit.go`) | slot count | ServeHTTP, trackDisconnect, TryAdd, Remove | hub (Done) | the slot is handed from the handler to another goroutine | one slot per connection, given back once, never more than the limit |
| Rate limiter (`ratelimit.go`) | count and last time per address | Allow, cleanup, evictExpired, Stop | WebSocket route | boundaries of the window, eviction | at most `rate` requests in any window |
| Presence (`internal/state/presence.go`) | cached and last notified activity, generation, timer, stop flags, semaphore | Start, Stop, Update, flush, notify, Subscribe | event loop, hub | fired timers cannot be stopped; notification outside the lock | stale flushes are silent, the last update arrives, Stop is final |
| IPC client (`internal/ipc/client.go`) | connection, state, event channel | Connect, Run, Close, SendRaw, Events | supervisor, health check, event loop | sessions replaced under running goroutines | every goroutine works on one session |
| Supervisor (`reconnect.go`) | attempts | RunWithReconnect, Reconnect, runInterruptible | client, health check | cancellation while waiting, connecting or reading | recovers or gives up, never hangs |
| Health check (`healthcheck.go`) | stop, pong and done channels | Start, Stop, HandlePong, run | client | late pongs; timeouts racing the end of the session | hung sessions end, no other session is hit |
| Event loop and main (`cmd/proxy/main.go`) | none | runIPCEventLoop, shutdown | all of the above | looks at the context only between sessions | ends after the signal, announces lost sessions |
| Terminal dashboard (`internal/tui`) | model, commands in flight, WebSocket backend | Update, Dial, readPump, Close | hub, as a client | commands finish in any order; one channel for all connections | shows events in order, notices losses, dials again, quits cleanly |
| HTTP routes and authentication (`http.go`, `auth.go`) | the configured token; a cookie in the browser | requireAuth, extractToken, setAuthCookie, dashboard routes, /api/presence, /readyz | browsers, upgrade handler | four token sources with an order; a cookie that all tabs share and that expires | a page that was let in stays usable for the lifetime of the cookie |
| Web dashboard (`web/app.js`) | per tab: token in session storage, socket, reconnection timer and delay | resolveToken, connect, onopen, onerror, onclose, scheduleReconnect | HTTP routes, hub | error, close and timer events in any order; restarts of the proxy | one attempt at a time, connected in the end |
| Activity and IPC parser (`pkg/types/activity.go`, `internal/ipc/parser.go`) | none | ParseActivity, Equals, IsEmpty, MarshalJSON | presence, messages | three notions of "empty" | no visible change is taken for none (but the source of a first, empty activity) |
| Messages (`internal/server/messages.go`) | none | constructors, validation on both sides | hub, dashboards, consumer | every program has its own copy of the protocol | what one side sends the other accepts |
| Example consumer (`examples/consumer`) | connection, deadline, backoff | run, consume, formatMessage | hub, as a client | a goroutine that closes the connection under a blocked read; read deadlines | prints what is true, comes back, exits on Ctrl-C |
| mDNS, metrics, configuration, platform paths, ipc-capture, rendering | see section 6 | | | | not modelled |

The hazards of this code, each with its line and the properties aimed at it, are
listed in `PROJECT.json` under `hazards`.

## 2. Modules

| Module | Models | Run by |
|---|---|---|
| `Hub` | `hub.go`, `ws.go`, `ConnectionTracker` | `MCHub` |
| `SlotPool` | abstract: what the connection limit promises | implemented by `Hub` |
| `HubProofs` | theorems about `Hub` | |
| `RateLimiter` | `RateLimiter` of `ratelimit.go` | `MCRateLimiter` |
| `RateLimiterProofs` | theorems about `RateLimiter` | |
| `Presence` | `presence.go` | `MCPresence` |
| `PresenceProofs` | theorems about `Presence`, its refinement of `Feed` among them | |
| `Feed` | abstract: what `presence.go` promises | implemented by `Presence`, used by `Proxy` |
| `IPCSession` | `client.go`, `reconnect.go`, `healthcheck.go`, `runIPCEventLoop` | `MCIPCSession` |
| `IPCSessionProofs` | theorems about `IPCSession` | |
| `Proxy` | `cmd/proxy/main.go`: session, event loop, `Feed`, hub and clients composed | `MCProxy` |
| `ProxyProofs` | theorems about `Proxy` | |
| `TUI` | `model.go`, `client.go` of `internal/tui` | `MCTUI` |
| `TUIProofs` | theorems about `TUI` | |
| `Dashboard` | `auth.go`, `requireAuth` and the dashboard routes of `http.go`, the connection part of `web/app.js` | `MCDashboard` |
| `DashboardProofs` | theorems about `Dashboard` | |
| `Activity` | `activity.go`, `parser.go` as operators | `MCConsumer` |
| `Messages` | `messages.go`, `examples/consumer/protocol.go` as operators | `MCConsumer` |
| `Consumer` | `examples/consumer/main.go` in a conversation with the proxy | `MCConsumer` |
| `ConsumerProofs` | theorems about `Consumer`, with lemmas about `Activity` and `Messages` | |

`PROJECT.json` maps every definition to its lines. Definitions marked "Faulty variant"
are not used by any specification: each is the shape a plausible bug would give the
definition after it, and shows that a property can fail (`mutants`).

### Grain of atomicity

A step is what a goroutine does between two points at which another one can interfere.
A body under one mutex is one step (`TryAdd`, `Update`, `flush` up to its unlock,
`closeAllClients`, `Allow`). A send on an unbuffered channel is a rendezvous, one step
of both sides (`Register`, `Unregister`); a buffered, non-blocking send is a step that
appends or drops. `hub.mu` is the one lock held across steps: a fan-out keeps the read
lock while it visits the clients one by one, in any order, while pumps go on.

**Hub.** `run` is the position of `Hub.Run`: in its select, with a client received from
`register` or `unregister` (`inserting`, `removing`), in a fan-out, or on its way out.
`closed` holds the clients whose `send` and `Done` channels are closed (always both, in
this order, under the lock). `reader = "replying"` is ReadPump between reading a request
and SendMessage, which takes no lock. A panic ends the process: `Next` is disabled after
it. A message is a type and the number of its `Broadcast` call. The bearer check, the
upgrade and the peer are nondeterministic. `left` is the part of the map that a fan-out
has yet to visit; Close cannot run in between, as it needs the write lock.

**Presence.** `armed` is the generation of the pending timer, `flushing` the generations
whose timer has fired and whose `flush` has not taken the lock. A notification in
progress is a record of `rounds`, a callback goroutine a record of `callbacks`.

**Feed** has no timers: a window is open or not, and its end is a step. `Presence`
implements it with `open` mapped to "a timer is armed, or the flush of the last
generation is on its way", `on` to the time between Start and Stop, and `sent` to the
notifications started. A stale flush is a stutter. What makes the mapping hold is the
comparison of generations in `flush`; without it (the faulty variant) a notification
would appear in the middle of a window.

**Proxy** takes each component at the level its own module justifies: the presence state
machine is `Feed`, a fan-out is one step, a session opens, ends and retires its channel.
What remains visible is what can overtake what: the events channel, the open window,
callback goroutines that run in any order, the broadcast channel, the send buffer, and a
`get_current` whose snapshot is taken in one step and queued in a later one. `base`,
`best`, `heard` and `missed` are history variables for the properties.

**Dashboard.** A page load is a request for the page and a request for its script, which
may be apart in time; each is decided by requireAuth. A WebSocket handshake is authorised
by the subprotocol, else by the cookie. Error and close events of a failed handshake are
two steps; a constructor that throws has neither. The clock ticks only for the cookie.

**Consumer.** The proxy is what one client sees of it. A tick of the clock is a ping
period; a deadline or wait that is due is served before the next tick. The connection is
up, silent (lost, and neither side knows) or closed. Activities are records whose optional
structs are nil, zero or something else, which is all that parser, `Equals`, `IsEmpty` and
the JSON encoding tell apart; a message carries the activity it is about, and `pushed`
is the snapshot that was pushed last, for the properties only.

**IPCSession.** A session is the number of a successful Connect, and names both the
connection and its event channel, so that a goroutine that mixes two sessions becomes
visible. Ticker, timeout and backoff are steps that may come at any time; that is why
nothing is claimed about which of a pong and a timeout wins, only about what follows.
The environment breaks the socket, hangs Discord, and sends good and bad frames. The
waits between attempts are computed with the width of `time.Duration` (`Wrap`), scaled
down to `MaxDuration`.

**RateLimiter.** A discrete clock; requests may share a tick. `log` and `burst` are
history variables: the requests that were allowed, and in which run of the counter.

**TUI.** bubbletea runs Update alone and every returned command in a goroutine of its
own. Commands in flight are counters, events in the hands of a read command are a set, so
that two commands in flight would show. What is drawn is reduced to the last event shown
and whether the activity has timestamps (which keeps the clock ticking).

## 3. Runs

| Run | Instance | Shows |
|---|---|---|
| `hub` | 2 connections, buffers of 1, 2 broadcasts, symmetry | `HubNeverPanics`, `PanicOnlyInShutdown`, `MapMatchesChannels`, `DeliveryOrder`, the inductive invariant `HubInv`, `TypeOK` |
| `hub_slots` | 2 connections, 1 slot, requests and a broadcast | `SlotAccounting`, `ImplementsSlotPool` (refinement), `SlotReleased` (also of a client that does not read, with its buffer full), `ReaderReturns` |
| `presence` | 2 updates, 2 subscribers, semaphore of 1, one restart | `PresenceInv` (types, `NewIsPending`, `CallbackLimit`, `OwnerInv`, `TimerInv`, `RoundsApart`), `ImplementsFeed` (refinement), `Converges`, `StopReturns`, `NotifyTerminates` |
| `ipc` | 2 sessions, 3 attempts, event buffer of 1; intervals 40 and 60 of a range of 127 | `SessionInv` (types, `HealthCheckOwnSession`, `RunOwnsSession`, `PublishedOpen`, `LiveSessionWatched`, `SendsOnOpen`, `Places`, `Holds`), `BackoffExact`, `HungSessionEnds`, `RecoversOrGivesUp`, `EndAnnounced`, `LiveSessionDrained`, `LoopReturns` |
| `rate_limiter` | 2 addresses, rate 2, window 2, 5 ticks | `WindowBound`, the inductive invariant `BurstInv` |
| `tui` | 2 connections of 2 frames, channel of 1, delays 1, 2, 3 | `CommandInv` (types, `OneChain`, `OnePump`, `ClockRuns`, `DialedInTurn`, `Pipeline`), `ShownInOrder`, `LossNoticed`, `DialsAgain` |
| `proxy` | 2 sessions, 1 client, 2 activities, event buffer of 1, other buffers of 2, 4 events of the environment | `LatestReaches` (with `BeforeSubscription`, `ViewsRecent`, `NewestOnTheWay`), `StateTruthful` (with `OneSession`, `AnnouncedLast`), `LossReachesClients`, `TypeOK` |
| `dashboard` | 2 tabs, 2 tokens, cookie of 2 ticks, delays 1, 2, 3, 3 page loads, 1 restart, 1 broken connection | `OneAttempt` (with the types), `ReloadsWithinTTL` (with `CookieCovers`), `Connects` |
| `consumer` | 12 kinds of frames, an inbox of 1, a deadline of 2 pings, waits 1, 2, 3 | `PrintedTrue` (with `AllUnderstood`), `NoChangeSwallowed`, `SessionInv` (types, `SessionsBounded`, `NoLeak`), `Exits`, `Resumes` |

An invariant whose proof needs stronger facts is checked together with them, as one
conjunction of named parts that is inductive (section 5). The types of `RateLimiter` are
proved. Deadlock is not checked: all these systems
stop for good once they are shut down, or once the bounds on the environment's inputs are
used up.

**Bounds.** Buffers of one message are full after one send, so that every
dropping and blocking branch is taken; the code's capacities (256, 64, 50, 16) differ in
length of the behaviour only. Two connections are the fewest that can share a fan-out, a
shutdown and the map, and to compete for a slot. They do the one in `hub` and the other in
`hub_slots`: with one slot two clients are never in the map together, and a fan-out that
blocks shows there through the client's own full buffer. Two sessions are a session and the one
that replaces it. Two updates overtake each other, before, during and after a restart.
`MaxSeq`, `MaxGen`, `MaxStarts`, `MaxSessions`, `MaxTime`, `MaxDials`, `MaxMsgs`,
`MaxEvents`, `MaxOpens`, `MaxRestarts`, `MaxDrops` and `MaxClosers` bound inputs of the
environment, or goroutines it can leave running; they are named in the modules.
`MaxAttempts` is the code's limit of 50, made small. The intervals of `ipc` are chosen so
that the first doubling reaches the cap and the cap is just below half the range:
doubling once before looking at the cap cannot overflow, doubling twice does.
Four events of the environment in `proxy` are a client, two activities and a third that
goes back to the first, or a client, a loss and a bad frame; a further `get_current`, a
second client and a third session add no new way of overtaking. A broadcast buffer of two
can hold a state and a presence message, in either order.
Three page loads in `dashboard` are a right token, a wrong one and a reload.

**Symmetry** is used over connections in `hub`, which checks invariants only.

**Fairness.** Weak fairness of goroutines that can take a step: Go's scheduler runs every
runnable goroutine, a ready select case is taken in the end, timers fire. No fairness of
peers, of `WritePump` (its peer may not read for as long as the write deadline is
renewed), of callers of Update or Broadcast, of Discord, of users or of the signal. Within
`Run` and the supervisor only the goroutine as a whole is fair, not each case of its
select. In `TUI` a Dial ends one way or the other because of its timeout, and in
`IPCSession` a pong that is on the wire is read. In `Proxy` the timer fires and a client
that stays connected receives what is in its buffer. In `Dashboard` the browser runs the
handlers that are due, a stopped proxy is started again, and a handshake that is tried
again and again and would be authorised is accepted at some time (strong fairness: the
rate limit, the slots and the constructor do not fail it for ever). In `Consumer` a dial to a running proxy
that is tried again and again succeeds (strong fairness). The clock of `Consumer` is not
fair: `Exits` needs no timer; `Resumes` states its assumptions, a clock that goes on among
them, in its antecedent.

## 4. Where code and documentation disagree

Each of these is a run whose single property TLC refutes (`findings` quotes the lines).

| Run | What happens |
|---|---|
| `hub_no_panics` (`NoPanics`) | ReadPump is about to send an answer, closeAllClients closes its channel: send on a closed channel, process gone. Only in shutdown (`PanicOnlyInShutdown`, proved). |
| `proxy_latest_shown` (`LatestShown`) | A client that missed nothing is left with an old view, in one of four ways. (1) The first activity is empty: it equals the zero `lastNotified` (`presence.go:62`, `168`) and is never pushed, so that a client answered just before it stays with "no source"; this is the trace TLC prints. (2) The client asked inside a window whose activity then went back to the one notified last. (3) Its answer was overtaken by a newer broadcast. (4) Callbacks of two notifications ran in the other order. `LatestReaches` is what does hold: the newest view it received is the current one, but for (1) and (2), where it is an answer from a time when the activity now cached was the one notified last. |
| `dashboard_cookie_validated` (`CookieValidated`) | A page opened with a wrong `?token=` while the cookie is valid is served, and the wrong token replaces the valid one in the cookie. From then on page loads fail, the ones with the right `?token=` too, until the cookie expires. |

Further behaviour of the code that the models reach, or that was met in reading for them:

- `hub.go:71`: Run holds a client from `register` while Close empties the map; Run inserts
  it, sees `done` and returns. The client stays in the map, open, against what
  `hub_test.go:577` expects of Close. Since Run's select and the one of Register choose at
  random among ready cases, more than one client can get there.
- `presence.go:150`: the callbacks of two notifications may run in the wrong order; a
  callback of a notification that started before Stop may run after Stop has returned.
- `presence.go:62`, `presence.go:109-112`: a first activity that is empty gives the
  snapshot a source, distinct on the wire from none, and is not pushed (`NoChangeSwallowed`
  states it as its exception).
- `presence.go:62`: an Update after the context is cancelled and before Stop leaves a timer
  armed, whose flush then does nothing; Stop followed by Start lets a flush of the first
  session notify, which the proxy never meets because it calls Start once. Every Update
  restarts the interval, so updates that never pause are never announced.
- `client.go:57`, `client.go:207`: a frame that does not parse is published in the form of
  the end of the session. Clients are told "reconnecting" and then "connected" again;
  `LiveSessionDrained` shows that the session is read on.
- `ratelimit.go:70`: every allowed request refreshes `lastSeen`, so a client that sends one
  request per tick of a two-tick window with rate 2 is rejected from the third on, although
  it never exceeds the rate that `ratelimit.go:27-28` describes.
- `model.go:136`: two quit keys before the quit message close a closed channel.
- `model.go:156`: every event with timestamps starts one more chain of ticks.
- `examples/consumer/main.go:119-124`: the deadline is renewed by pongs, but the proxy
  sends pings. A healthy session ends every 90 seconds (`SessionsBounded`).
- `auth.go:91-92`: a tab opened without `?token=` on the strength of the cookie has nothing
  in its session storage, and its WebSocket does depend on the cookie. A token in session
  storage is never cleared, so that a tab whose token has become wrong stays disconnected
  even when it is reloaded with the right one.
- `app.js:71-84`: a token with a character outside the basic multilingual plane is encoded
  as two surrogates of three bytes each, which the server does not decode to the same
  token. The model excludes such tokens.
- `app.js:248-249`: a snapshot without a source leaves the fields of the last activity on
  the page.
- `render.go:55-64`: integer division truncates where the web dashboard takes the floor, so
  that the two differ on times in the future.
- `reconnect.go`: jitter may exceed the maximal interval by a tenth, and `config.go` checks
  none of the intervals; `BackoffExact` assumes a cap of at most half the range of
  `time.Duration`.

## 5. Proofs

All proofs are checked by TLAPS 1.4.5 (SMT, Zenon, LS4). Assumptions are the named
`ASSUME`s of the modules: finitely many connections and subscribers, capacities of at
least one, naturals for the limits, a backoff cap of at most half the range of
`time.Duration`, and that a value which stands for "nothing" is none of the values it is
compared with (`NilAssumption` of `Consumer`). TLC evaluates them in every run. The bounds
on the environment (`MaxSeq`, `MaxGen`, `MaxSessions` and so on) are constants too, so
that a theorem holds for every value of them.

**`HubProofs`**, for any set of connections, message types, capacities and limit.

- `TypeCorrect`: `TypeOK`, which includes the capacity of every channel.
- `HubInvariant`: `HubInv`. Neither "Run never panics" nor "a panic only in shutdown" is
  inductive alone. Run sends to the clients in `left`, so these must be open; they are
  because `left` is a part of `clients`, all of `clients` is open, and nobody closes a
  client without removing it, under a lock that a fan-out excludes. `RunInsert` must not
  bring a closed client back, so a client in Run's hands was never in the map: it is
  registered once (`handler`). Before the shutdown a channel is closed only by
  `RunRemove`, whose client has left ReadPump.
- `RunNeverPanics`, `ServicePanicFree`: from `HubInv` and `TypeOK`.
- `MapCorrect`: `MapMatchesChannels`. The unregister case deletes a client only if it finds
  it in the map, so "removed means closed" needs that a client in Run's hands is in the map,
  closed already, or met by a hub that is done.
- `DeliveryOrdered`: `DeliveryOrder`. The order at the peer follows from the order along the
  whole way: the queue increases, the message of a fan-out is older than the queue, and
  everything a client in `left` was sent is older than that message. Dropping, at any of the
  full channels, only removes positions.
- `SlotsAccounted`, `SlotPoolImplemented`: every step keeps the slots, takes one below the
  limit, turns a request away, or returns one (`SlotSteps`); counting the holders follows
  each case with the cardinality theorems. The refinement mapping is `Phase`: a
  connection is new, admitted (reserved, registering, or watched by trackDisconnect) or
  over.

**`RateLimiterProofs`**, for any addresses, rate and window.

- `TypeCorrect`; `BurstsSeparated`: `BurstInv`, numbering within a burst and a distance
  of more than a window between bursts. An evicted entry is the difficult case: its burst
  must already be out of reach, which is `LogBehindClock`.
- `WindowBounded`: by `BurstInv` two requests in one window belong to one burst, and their
  numbers are different and at most `Limit`; hence an injection into `1 .. Limit`
  (`WindowCardinality`).

**`PresenceProofs`**, for any activities, subscribers, semaphore and number of restarts.

- `PresenceCorrect`: `PresenceInv`. `NewIsPending` needs that a timer is armed for the last
  generation only and that a fired one is not armed again (`TimerInv`), and that Stop, the
  context and run agree (`OwnerInv`). That the semaphore counts the callbacks needs that
  each callback is a new one: notifications have numbers of their own, and a subscriber
  that is still to be served has no callback of that notification (`RoundsApart`).
- `PresenceImplementsFeed`: every step is a step of `Feed` or a stutter. The interesting
  cases are a flush, which ends the window exactly if its generation is the last one, and
  the end of run, which abandons one.

**`IPCSessionProofs`**, for any number of sessions, attempts and events.

- `SessionCorrect`: `SessionInv`. That no goroutine mixes two sessions depends on who runs
  while who waits (`Places`: Run and the health check live within one turn of the
  supervisor, except that a cancelled supervisor leaves Run behind) and on what the client
  holds meanwhile (`Holds`). `SendsOnOpen` is the consequence that would be a panic.
- `BackoffCorrect`: `BackoffExact`. The loop of NextInterval is a recursive function. By
  induction over the attempts, in the form of a set of naturals that contains 0 and is
  closed under successor, it computes the smaller of `MaxInterval` and
  `BaseInterval * 2^n`, where doubling below a cap of at most half the range does not wrap.

**`TUIProofs`**, for any number of connections, frames, delays and any channel.

- `CommandCorrect`: `CommandInv`. Every command is a goroutine, so `OneChain` counts all of
  them together: dials, waits and reads are at most one. `Pipeline` says of the events between
  readPump and Update that they belong to the last connection, in order, later than what is
  shown, and that nothing follows the event of the loss: this is why a new connection may
  use the same channel (`OnePump`).
- `ShownInOrderCorrect`: the action property `ShownInOrder`, from `CommandInv`.

**`DashboardProofs`**, for any tabs, tokens, delays and lifetime of the cookie.

- `OneAttemptCorrect`: `OneAttempt`, inductive as it stands with the types.
- `ReloadsCorrect`: `ReloadsWithinTTL` by `CookieCovers`: until a wrong token or a new one
  comes into play, the cookie holds the right one or nothing, and outlives the window of
  every tab that was loaded with the token.

**`ConsumerProofs`**, for any frames, texts and structs.

- Lemmas about the operators of `Activity` and `Messages`: the parser returns no zero
  structs (`ActivitiesParsed`), on what it returns `Equals` is equality (`EqualsIsEquality`)
  and `IsEmpty` means zero (`EmptyIsZero`), and the consumer decodes what the proxy encodes
  (`RoundTrip`).
- `NothingSwallowed`, `PrintedTruthfully`: from these, as the presence state machine
  compares with `Equals` and the consumer prints what it decodes. Without the parser's
  removal of zero structs both would fail: `Equals` takes a zero struct for a missing one,
  while the two differ on the wire and for `IsEmpty`. The inductive part of
  `NothingSwallowed` is `PushedLast`: the cached activity is the one notified last
  (windows have no length in `Consumer`), and either it was pushed or it is the zero activity and nothing was. The
  second case is the exception that `NoChangeSwallowed` states: a first activity that is
  empty changes the source from none to ipc, which get_current shows and no push tells.
- `ConsumerCorrect`: `SessionInv`. The time a session has had and the time left to its
  deadline do not exceed `PongWait` together, and there is a closer only while its session
  lasts.

**`ProxyProofs`**, for any number of clients, activities and sessions and any capacities.

- `TypeCorrect`: `TypeOK`, with the capacity of every channel from Discord to a client.
- `StateTold`: `StateTruthful`. At rest the loop ranges over an open channel or finds none,
  and by `OneSession` it is right about `up`. Why the client agrees is `AnnouncedLast`: of
  the states it was told, has in its buffer and has in the hub's queue, the last one is
  what the loop announced last. A client that connects late has been told nothing
  (`BeforeSubscription`).
- `LatestReached`: `LatestReaches`. Callbacks, queue and buffer are sets of views to this
  argument, since callbacks run in any order anyway (`Pushed`, `Answers`; `AppendViews` and
  `TailViews` show that moving a message moves its view). A view made by a notification is
  newer than all others when it is made, and an answer tells what was notified last; hence
  every view on its way that does not tell what was notified last has a newer one beside
  it (`NewestOnTheWay`), which stays true when the client keeps the newer of the view it
  has and the one it receives. The first answer is the difficult case: what was pushed
  before the subscription is lost, and must be covered by the answer; that is why views not
  outdated by an update agree with the cache (`ViewsRecent`), and why the client has to
  subscribe first (`BeforeSubscription`).

**Only model-checked:** liveness (`SlotReleased`, `ReaderReturns`, `Converges`,
`StopReturns`, `NotifyTerminates`, `HungSessionEnds`, `RecoversOrGivesUp`, `EndAnnounced`,
`LiveSessionDrained`, `LoopReturns`, `LossNoticed`, `DialsAgain`, `LossReachesClients`,
`Connects`, `Exits`, `Resumes`), since fairness and ENABLED are outside the reach of this
prover. All safety properties of the passing runs are proved.

## 6. Not modelled

Whole components:

- **mDNS advertiser**: a register and a shutdown call of a library, made once each by main.
- **Metrics**: counters and gauges that only read the other components.
- **Configuration**: files, environment and flags merged and validated once, before
  anything else runs; no state afterwards.
- **Platform socket paths**: a list of candidate paths computed once.
- **ipc-capture**: a tool for a developer that records frames to a file.
- **Rendering**, in the terminal and in the browser, clipboard and links: layout.
- **Other HTTP endpoints**, body limit and panic recovery: they answer from what is
  modelled elsewhere and keep no state.

In the modelled parts: logging, wording, byte encodings. Real time, except where a module
has a clock (`RateLimiter`, the cookie of `Dashboard`, `Consumer`): intervals and deadlines
are steps that may come at any time, so nothing is said about durations. Data races that
cannot change an outcome are atomic reads: the unlocked `c.events` in `Client.Run` (no
Connect can run beside it, `RunOwnsSession`), and the TUI backend's `conn` between Dial
and Close (both orders are modelled). A frame that gorilla still holds in its buffer when
the connection is closed counts as read before the close. `Clone` copies what is a value
in the models; that it shares no memory cannot be said there. `extractIP` is a conversion
whose result is the key of the limiter. `ReconnectManager.Stop` is called only when no
Reconnect runs.

## 7. Plan

The safety properties that the runs check are proved. What is left:

1. `NewIsPending` of `Feed`, as a theorem of the abstract specification, so that it holds
   of every implementation.
2. Structural facts that liveness rests on and that are safety properties: who can be
   waiting for whom when nothing moves, for the hub's shutdown and the supervisor.
3. A statement that `Proxy`'s sessions and fan-out are what `IPCSession` and `Hub` provide,
   as refinement mappings; today the correspondence is by reading.
