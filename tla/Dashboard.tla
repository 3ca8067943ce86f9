-------------------------------- MODULE Dashboard -------------------------------
(****************************************************************************)
(* A browser in front of the proxy: the authentication of HTTP requests     *)
(* and WebSocket upgrades (internal/server/auth.go, http.go, ws.go) and the *)
(* dashboard's script (web/app.js) with its two memories of the token, a    *)
(* cookie that all tabs share and a session storage of each tab's own.      *)
(*                                                                          *)
(* auth.enabled is true and set to one token; a restart of the server may   *)
(* change it.  A token has no space at its ends and no character outside    *)
(* the basic multilingual plane: such a token comes out of the base64url    *)
(* encodings of cookie and subprotocol as it went in.  The clock ticks only *)
(* for the cookie.                                                          *)
(****************************************************************************)
EXTENDS Naturals

CONSTANTS
  Tabs,
  Tokens, NoToken,   \* tokens, and the absence of one
  TTL,               \* authCookieTTL in ticks (15 minutes in the code)
  BaseDelay,         \* WS_RECONNECT_BASE (1000 in the code)
  MaxDelay,          \* WS_RECONNECT_MAX (30000 in the code)
  MaxOpens,          \* bound of the model: page loads
  MaxRestarts,       \* bound of the model: restarts of the server
  MaxDrops           \* bound of the model: connections that break by themselves

ASSUME DashboardAssumption ==
  /\ Tokens # {} /\ NoToken \notin Tokens /\ TTL \in Nat \ {0}
  /\ BaseDelay \in Nat \ {0} /\ MaxDelay \in Nat /\ BaseDelay <= MaxDelay
  /\ MaxOpens \in Nat /\ MaxRestarts \in Nat /\ MaxDrops \in Nat

MaybeToken == Tokens \cup {NoToken}

VARIABLES
  token,     \* auth.token of the server
  up,        \* the server is running
  restarts,
  cookie,    \* the browser's auth cookie
  left,      \* ticks until it expires
  page,      \* per tab: "blank", "loading" (the page is there, its script is not),
             \* "running", or "denied" (a 401 for the page or for its script)
  url,       \* per tab: ?token= in the address bar
  stored,    \* per tab: the token in sessionStorage
  auth,      \* per tab: authToken of the script
  ws,        \* per tab: "none", "connecting", "open", "failing" (an error event)
  timer,     \* per tab: a reconnection is scheduled
  delay,     \* per tab: reconnectDelay
  opens, drops,
  since,     \* per tab: ticks since it was loaded with the token in its URL
  spoiled    \* the server's token has changed, or a wrong one was tried

serverVars == <<token, up, restarts>>
cookieVars == <<cookie, left>>
tabVars    == <<page, url, stored, auth>>
wsVars     == <<ws, timer, delay>>
ghostVars  == <<opens, drops, since, spoiled>>
vars == <<serverVars, cookieVars, tabVars, wsVars, ghostVars>>

TypeOK ==
  /\ token \in Tokens /\ up \in BOOLEAN
  /\ restarts \in 0 .. MaxRestarts /\ (up \/ restarts < MaxRestarts)
  /\ cookie \in MaybeToken /\ left \in 0 .. TTL /\ (left = 0 <=> cookie = NoToken)
  /\ page \in [Tabs -> {"blank", "loading", "running", "denied"}]
  /\ url \in [Tabs -> MaybeToken] /\ stored \in [Tabs -> MaybeToken]
  /\ auth \in [Tabs -> MaybeToken]
  /\ ws \in [Tabs -> {"none", "connecting", "open", "failing"}]
  /\ timer \in [Tabs -> BOOLEAN] /\ delay \in [Tabs -> BaseDelay .. MaxDelay]
  /\ opens \in 0 .. MaxOpens /\ drops \in 0 .. MaxDrops
  /\ since \in [Tabs -> 0 .. TTL] /\ spoiled \in BOOLEAN

Init ==
  /\ token = (CHOOSE k \in Tokens : TRUE) /\ up = TRUE /\ restarts = 0
  /\ cookie = NoToken /\ left = 0
  /\ page = [t \in Tabs |-> "blank"]
  /\ url = [t \in Tabs |-> NoToken] /\ stored = [t \in Tabs |-> NoToken]
  /\ auth = [t \in Tabs |-> NoToken]
  /\ ws = [t \in Tabs |-> "none"] /\ timer = [t \in Tabs |-> FALSE]
  /\ delay = [t \in Tabs |-> BaseDelay]
  /\ opens = 0 /\ drops = 0 /\ since = [t \in Tabs |-> TTL] /\ spoiled = FALSE

--------------------------------------------------------------------------------
(* Authentication *)

First(a, b) == IF a # NoToken THEN a ELSE b

\* What the extractors find: a browser sets no Authorization header; the subprotocol
\* carries the script's token; the cookie holds what was encoded into it.
HeaderToken == NoToken
SubprotocolToken(t) == auth[t]
CookieToken == cookie

\* extractToken: header, subprotocol, cookie, query, in this order.
ExtractToken(header, subprotocol, fromCookie, query) ==
  First(header, First(subprotocol, First(fromCookie, query)))

\* BearerAuthFunc.
Allowed(tok) == tok # NoToken /\ tok = token

\* requireAuth lets a browser's GET with ?token=q pass.
Served(q) == up /\ Allowed(ExtractToken(HeaderToken, NoToken, CookieToken, q))

\* Faulty variant: the cookie is not renewed.
SetCookieOnce(q) ==
  IF Served(q) /\ q # NoToken /\ cookie = NoToken
    THEN cookie' = q /\ left' = TTL ELSE UNCHANGED cookieVars

\* A request that passes has its query token stored in the cookie.
SetCookie(q) ==
  IF Served(q) /\ q # NoToken
    THEN cookie' = q /\ left' = TTL ELSE UNCHANGED cookieVars

--------------------------------------------------------------------------------
(* Loading the page *)

\* A navigation ends the script that ran in the tab.
Unload(t) ==
  /\ ws' = [ws EXCEPT ![t] = "none"] /\ timer' = [timer EXCEPT ![t] = FALSE]
  /\ delay' = [delay EXCEPT ![t] = BaseDelay]
  /\ auth' = [auth EXCEPT ![t] = NoToken]

\* GET / with ?token=q in the address bar.
Load(t, q) ==
  /\ opens < MaxOpens /\ opens' = opens + 1
  /\ page' = [page EXCEPT ![t] = IF Served(q) THEN "loading" ELSE "denied"]
  /\ url' = [url EXCEPT ![t] = q]
  /\ SetCookie(q) /\ Unload(t)
  /\ since' = [since EXCEPT ![t] = IF Served(q) /\ q = token THEN 0 ELSE @]
  /\ spoiled' = (spoiled \/ (q # NoToken /\ q # token))
  /\ UNCHANGED <<serverVars, stored, drops>>

Open(t) == \E q \in MaybeToken : Load(t, q)
Reload(t) == page[t] # "blank" /\ Load(t, url[t])

\* A closed tab loses its storage.
CloseTab(t) ==
  /\ page[t] # "blank" /\ page' = [page EXCEPT ![t] = "blank"]
  /\ url' = [url EXCEPT ![t] = NoToken] /\ stored' = [stored EXCEPT ![t] = NoToken]
  /\ since' = [since EXCEPT ![t] = TTL]
  /\ Unload(t)
  /\ UNCHANGED <<serverVars, cookieVars, opens, drops, spoiled>>

\* resolveToken: the stored token, else the one in the URL.
ResolveToken(t) == First(stored[t], url[t])

\* GET /app.js, without a token in its URL; the script's init connects at once.
\* A token found in the URL is stored and stripped from the address bar.
LoadScript(t) ==
  /\ page[t] = "loading"
  /\ IF Served(NoToken)
       THEN /\ page' = [page EXCEPT ![t] = "running"]
            /\ auth' = [auth EXCEPT ![t] = ResolveToken(t)]
            /\ stored' = [stored EXCEPT ![t] = ResolveToken(t)]
            /\ url' = [url EXCEPT ![t] = IF stored[t] = NoToken THEN NoToken ELSE @]
            /\ ws' = [ws EXCEPT ![t] = "connecting"]
       ELSE page' = [page EXCEPT ![t] = "denied"] /\ UNCHANGED <<auth, stored, url, ws>>
  /\ UNCHANGED <<serverVars, cookieVars, timer, delay, ghostVars>>

--------------------------------------------------------------------------------
(* The script's WebSocket *)

\* The upgrade of tab t would be authorised: its subprotocol, else the cookie.
Upgradable(t) ==
  up /\ Allowed(ExtractToken(HeaderToken, SubprotocolToken(t), CookieToken, NoToken))

\* Upgrade and onopen.
Accept(t) ==
  /\ ws[t] = "connecting" /\ Upgradable(t)
  /\ ws' = [ws EXCEPT ![t] = "open"] /\ delay' = [delay EXCEPT ![t] = BaseDelay]
  /\ UNCHANGED <<serverVars, cookieVars, tabVars, timer, ghostVars>>

\* Faulty variant: the error handler schedules a reconnection as well.
OnErrorSchedules(t) == timer' = [timer EXCEPT ![t] = TRUE]
OnError(t) == UNCHANGED timer

\* The handshake fails: no server, 401, the rate limit or no free slot.
Refuse(t) ==
  /\ ws[t] = "connecting"
  /\ ws' = [ws EXCEPT ![t] = "failing"] /\ OnError(t)
  /\ UNCHANGED <<serverVars, cookieVars, tabVars, delay, ghostVars>>

\* Faulty variant: nothing follows a handshake that failed.
ScheduleUnlessFailed(t) ==
  timer' = [timer EXCEPT ![t] = ws[t] = "open"] /\ UNCHANGED delay

\* A timer replaces the one before.
ScheduleReconnect(t) == timer' = [timer EXCEPT ![t] = TRUE] /\ UNCHANGED delay

\* onclose after a failed handshake, or of an open connection.
OnClose(t) ==
  /\ ws' = [ws EXCEPT ![t] = "none"] /\ ScheduleReconnect(t)
  /\ UNCHANGED <<serverVars, cookieVars, tabVars>>

\* connect: the constructor throws, no socket is made and no event follows.
ConstructorFails(t) ==
  /\ ws[t] = "connecting"
  /\ ws' = [ws EXCEPT ![t] = "none"] /\ ScheduleReconnect(t)
  /\ UNCHANGED <<serverVars, cookieVars, tabVars, ghostVars>>

CloseFailed(t) == ws[t] = "failing" /\ OnClose(t) /\ UNCHANGED ghostVars

CloseOpen(t) ==
  /\ ws[t] = "open"
  /\ \/ ~up /\ UNCHANGED ghostVars
     \/ drops < MaxDrops /\ drops' = drops + 1 /\ UNCHANGED <<opens, since, spoiled>>
  /\ OnClose(t)

\* The timer: double the delay and connect.
TimerFires(t) ==
  /\ timer[t] /\ timer' = [timer EXCEPT ![t] = FALSE]
  /\ delay' = [delay EXCEPT ![t] = IF 2 * @ < MaxDelay THEN 2 * @ ELSE MaxDelay]
  /\ ws' = [ws EXCEPT ![t] = "connecting"]
  /\ UNCHANGED <<serverVars, cookieVars, tabVars, ghostVars>>

--------------------------------------------------------------------------------
(* The environment: the clock and the server's operator *)

Tick ==
  /\ left > 0 /\ left' = left - 1
  /\ cookie' = IF left = 1 THEN NoToken ELSE cookie
  /\ since' = [t \in Tabs |-> IF since[t] < TTL THEN since[t] + 1 ELSE TTL]
  /\ UNCHANGED <<serverVars, tabVars, wsVars, opens, drops, spoiled>>

ServerStops ==
  /\ up /\ restarts < MaxRestarts /\ up' = FALSE
  /\ UNCHANGED <<token, restarts, cookieVars, tabVars, wsVars, ghostVars>>

\* The server starts, with the token its configuration now has.
ServerStarts ==
  /\ ~up /\ up' = TRUE /\ restarts' = restarts + 1
  /\ token' \in Tokens /\ spoiled' = (spoiled \/ token' # token)
  /\ UNCHANGED <<cookieVars, tabVars, wsVars, opens, drops, since>>

--------------------------------------------------------------------------------
Script(t) == LoadScript(t) \/ CloseFailed(t) \/ (~up /\ CloseOpen(t)) \/ TimerFires(t)

Next ==
  \/ Tick \/ ServerStops \/ ServerStarts
  \/ \E t \in Tabs :
       \/ Open(t) \/ Reload(t) \/ CloseTab(t) \/ LoadScript(t)
       \/ Accept(t) \/ Refuse(t) \/ ConstructorFails(t)
       \/ CloseFailed(t) \/ CloseOpen(t) \/ TimerFires(t)

\* The browser runs what is due and handshakes end; a stopped server is started
\* again, and the rate limit, the slots and the constructor do not fail a client for
\* ever.  Nobody has to open a page, and the clock need not tick.
Fairness ==
  /\ WF_vars(ServerStarts)
  /\ \A t \in Tabs :
       /\ WF_vars(Script(t)) /\ WF_vars(Accept(t) \/ Refuse(t) \/ ConstructorFails(t))
       /\ SF_vars(Accept(t))

Spec == Init /\ [][Next]_vars /\ Fairness
--------------------------------------------------------------------------------
\* A running dashboard has a socket or a scheduled reconnection and never both: no
\* order of error, close and timer events leaves it with neither, or with two
\* chains of reconnections; a tab without a running script has none of it; and the
\* delay stays within the limits.
OneAttempt ==
  /\ TypeOK
  /\ \A t \in Tabs : IF page[t] = "running" THEN timer[t] <=> ws[t] = "none"
                                           ELSE ~timer[t] /\ ws[t] = "none"

\* As long as only the right token is used and it does not change, the cookie holds
\* nothing else and outlives the window of every tab that was loaded with the token.
CookieCovers ==
  ~spoiled => /\ cookie \in {NoToken, token}
              /\ \A t \in Tabs : since[t] < TTL => left + since[t] >= TTL

\* "a reload within that window" (README.md, dashboard): as long as only the right
\* token is used and it does not change, a tab that was loaded with it less than TTL
\* ago gets its script, and a reload without the token in the URL, whatever other
\* tabs do in between.
ReloadsWithinTTL ==
  /\ CookieCovers
  /\ ~spoiled /\ up => \A t \in Tabs : since[t] < TTL => Served(NoToken)

\* The dashboard "authenticates the WebSocket with it on every (re)connect"
\* (README.md): a tab whose stored token is the server's gets through in the end,
\* whatever the cookie holds and through restarts of the server.
Connects ==
  \A t \in Tabs :
    (page[t] = "running" /\ auth[t] = token)
      ~> (ws[t] = "open" \/ page[t] # "running" \/ auth[t] # token)

\* "setAuthCookie stores a token that was just validated" (auth.go): a token enters
\* the cookie only if it is the server's.
CookieValidated ==
  [][cookie' # cookie /\ cookie' # NoToken => cookie' = token]_vars
================================================================================
