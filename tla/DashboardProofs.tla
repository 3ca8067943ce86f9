---------------------------- MODULE DashboardProofs ----------------------------
(****************************************************************************)
(* Proofs about Dashboard, for any number of tabs and tokens, any lifetime  *)
(* of the cookie and any delays.                                            *)
(****************************************************************************)
EXTENDS Dashboard, TLAPS

\* Loading a page ends the script of the tab and leaves the other tabs alone.
LEMMA LoadKeeps ==
  ASSUME OneAttempt, NEW t \in Tabs, NEW q \in MaybeToken, Load(t, q)
  PROVE  OneAttempt'
<1> USE DashboardAssumption DEF OneAttempt, TypeOK, serverVars, cookieVars
<1>1. FALSE \in BOOLEAN /\ spoiled' \in BOOLEAN
  BY Zenon DEF Load
<1>2. /\ cookie' \in MaybeToken /\ left' \in 0 .. TTL /\ (left' = 0 <=> cookie' = NoToken)
  BY DEF Load, SetCookie, MaybeToken
<1>3. /\ page' \in [Tabs -> {"blank", "loading", "running", "denied"}]
      /\ url' \in [Tabs -> MaybeToken] /\ since' \in [Tabs -> 0 .. TTL]
  BY DEF Load
<1>4. /\ auth' \in [Tabs -> MaybeToken] /\ timer' \in [Tabs -> BOOLEAN]
      /\ ws' \in [Tabs -> {"none", "connecting", "open", "failing"}]
      /\ delay' \in [Tabs -> BaseDelay .. MaxDelay]
  BY <1>1 DEF Load, Unload, MaybeToken
<1>5. TypeOK'
  BY <1>1, <1>2, <1>3, <1>4 DEF Load
<1>6. ASSUME NEW u \in Tabs
      PROVE  IF page'[u] = "running" THEN timer'[u] <=> ws'[u] = "none"
                                     ELSE ~timer'[u] /\ ws'[u] = "none"
  <2>1. CASE u = t
    BY <2>1 DEF Load, Unload
  <2>2. CASE u # t
    BY <2>2 DEF Load, Unload
  <2> QED
    BY <2>1, <2>2
<1> QED
  BY <1>5, <1>6

\* Every reachable state of the dashboard: a running script has a socket or a scheduled
\* reconnection and never both, in whatever order error, close and timer events come.
THEOREM OneAttemptCorrect == Spec => []OneAttempt
<1>1. Init => OneAttempt
  <2> SUFFICES ASSUME Init PROVE OneAttempt
    OBVIOUS
  <2> USE DashboardAssumption DEF Init
  <2>1. up \in BOOLEAN /\ spoiled \in BOOLEAN
    BY Zenon
  <2>2. timer \in [Tabs -> BOOLEAN]
    BY Zenon
  <2>3. TypeOK
    BY <2>1, <2>2 DEF TypeOK, MaybeToken
  <2> QED
    BY <2>3 DEF OneAttempt
<1>2. OneAttempt /\ [Next]_vars => OneAttempt'
  <2> SUFFICES ASSUME OneAttempt, [Next]_vars PROVE OneAttempt'
    OBVIOUS
  <2> USE DashboardAssumption
      DEF OneAttempt, TypeOK, serverVars, cookieVars, tabVars, wsVars, ghostVars
  <2>1. CASE Tick
    BY <2>1 DEF Tick, MaybeToken
  <2>2. CASE ServerStops
    BY <2>2 DEF ServerStops
  <2>3. CASE ServerStarts
    <3>1. up' \in BOOLEAN /\ spoiled' \in BOOLEAN
      BY <2>3, Zenon DEF ServerStarts
    <3> QED
      BY <2>3, <3>1 DEF ServerStarts
  <2>4. ASSUME NEW t \in Tabs, Open(t) \/ Reload(t) PROVE OneAttempt'
    <3>1. PICK q \in MaybeToken : Load(t, q)
      BY <2>4 DEF Open, Reload
    <3> QED
      BY <3>1, LoadKeeps
  <2>5. ASSUME NEW t \in Tabs, CloseTab(t) PROVE OneAttempt'
    BY <2>5 DEF CloseTab, Unload, MaybeToken
  <2>6. ASSUME NEW t \in Tabs, LoadScript(t) PROVE OneAttempt'
    <3>1. CASE Served(NoToken)
      BY <2>6, <3>1 DEF LoadScript, ResolveToken, First, MaybeToken
    <3>2. CASE ~Served(NoToken)
      BY <2>6, <3>2 DEF LoadScript
    <3> QED
      BY <3>1, <3>2
  <2>7. ASSUME NEW t \in Tabs, Accept(t) PROVE OneAttempt'
    BY <2>7 DEF Accept
  <2>8. ASSUME NEW t \in Tabs, Refuse(t) PROVE OneAttempt'
    BY <2>8 DEF Refuse, OnError
  <2>9. ASSUME NEW t \in Tabs, ConstructorFails(t) \/ CloseFailed(t) \/ CloseOpen(t)
        PROVE  OneAttempt'
    <3>1. /\ page[t] = "running" /\ OnClose(t) /\ drops' \in 0 .. MaxDrops
          /\ UNCHANGED <<opens, since, spoiled>>
      BY <2>9 DEF ConstructorFails, CloseFailed, CloseOpen, OnClose, ghostVars
    <3>2. TRUE \in BOOLEAN
      BY Zenon
    <3>3. TypeOK'
      BY <3>1, <3>2 DEF OnClose, ScheduleReconnect
    <3>4. timer'[t] /\ ws'[t] = "none" /\ page' = page
          /\ \A u \in Tabs : u # t => timer'[u] = timer[u] /\ ws'[u] = ws[u]
      BY <3>1 DEF OnClose, ScheduleReconnect
    <3> QED
      BY <3>1, <3>3, <3>4
  <2>10. ASSUME NEW t \in Tabs, TimerFires(t) PROVE OneAttempt'
    BY <2>10 DEF TimerFires
  <2>11. CASE UNCHANGED vars
    BY <2>11 DEF vars
  <2> QED
    BY <2>1, <2>2, <2>3, <2>4, <2>5, <2>6, <2>7, <2>8, <2>9, <2>10, <2>11 DEF Next
<1> QED
  BY <1>1, <1>2, PTL DEF Spec

\* The cookie outlives the window of every tab that was loaded with the token, hence such
\* a tab gets its script and reloads, whatever other tabs do in between.
THEOREM ReloadsCorrect == Spec => []ReloadsWithinTTL
<1>1. Init => CookieCovers
  BY DashboardAssumption DEF Init, CookieCovers
<1>2. OneAttempt /\ CookieCovers /\ [Next]_vars => CookieCovers'
  <2> SUFFICES ASSUME OneAttempt, CookieCovers, [Next]_vars, ~spoiled' PROVE CookieCovers'
    BY DEF CookieCovers
  <2> USE DashboardAssumption
      DEF CookieCovers, serverVars, cookieVars, tabVars, wsVars, ghostVars
  <2>0. /\ left \in 0 .. TTL /\ (left = 0 <=> cookie = NoToken)
        /\ \A t \in Tabs : since[t] \in 0 .. TTL
    BY DEF OneAttempt, TypeOK
  <2>1. CASE Tick
    <3>1. ~spoiled /\ token' = token /\ cookie' \in {NoToken, cookie} /\ left' = left - 1
      BY <2>1 DEF Tick
    <3>2. \A t \in Tabs : since'[t] = IF since[t] < TTL THEN since[t] + 1 ELSE TTL
      BY <2>1 DEF Tick
    <3> QED
      BY <2>0, <3>1, <3>2
  <2>2. ASSUME NEW t \in Tabs, NEW q \in MaybeToken, Load(t, q) PROVE CookieCovers'
    <3>1. ~spoiled /\ token' = token /\ q \in {NoToken, token} /\ token # NoToken
      BY <2>2 DEF Load, OneAttempt, TypeOK
    <3>2. \A u \in Tabs : since'[u] = IF u = t /\ Served(q) /\ q = token THEN 0 ELSE since[u]
      BY <2>2 DEF Load, OneAttempt, TypeOK
    <3>3. CASE Served(q) /\ q = token
      <4>1. cookie' = token /\ left' = TTL
        BY <2>2, <3>1, <3>3 DEF Load, SetCookie
      <4> QED
        BY <2>0, <3>1, <3>2, <4>1
    <3>4. CASE ~(Served(q) /\ q = token)
      <4>1. cookie' = cookie /\ left' = left
        BY <2>2, <3>1, <3>4 DEF Load, SetCookie
      <4> QED
        BY <2>0, <3>1, <3>2, <3>4, <4>1
    <3> QED
      BY <3>3, <3>4
  <2>3. ASSUME NEW t \in Tabs, CloseTab(t) PROVE CookieCovers'
    BY <2>0, <2>3 DEF CloseTab, OneAttempt, TypeOK
  <2>4. CASE ServerStarts
    BY <2>4 DEF ServerStarts
  <2>5. ASSUME UNCHANGED <<token, cookie, left, since, spoiled>> PROVE CookieCovers'
    BY <2>5
  <2>6. CASE ServerStops
    BY <2>5, <2>6 DEF ServerStops
  <2>7. ASSUME NEW t \in Tabs, LoadScript(t) \/ Accept(t) \/ Refuse(t) PROVE CookieCovers'
    BY <2>5, <2>7 DEF LoadScript, Accept, Refuse
  <2>8. ASSUME NEW t \in Tabs,
               ConstructorFails(t) \/ CloseFailed(t) \/ CloseOpen(t) \/ TimerFires(t)
        PROVE  CookieCovers'
    BY <2>5, <2>8 DEF ConstructorFails, CloseFailed, CloseOpen, OnClose, TimerFires
  <2>9. CASE UNCHANGED vars
    BY <2>5, <2>9 DEF vars
  <2>10. ASSUME NEW t \in Tabs, Open(t) \/ Reload(t) PROVE CookieCovers'
    BY <2>2, <2>10 DEF Open, Reload, OneAttempt, TypeOK
  <2> QED
    BY <2>1, <2>3, <2>4, <2>6, <2>7, <2>8, <2>9, <2>10 DEF Next
<1>3. OneAttempt /\ CookieCovers => ReloadsWithinTTL
  <2> SUFFICES ASSUME OneAttempt, CookieCovers, ~spoiled, up,
                      NEW t \in Tabs, since[t] < TTL
               PROVE  Served(NoToken)
    BY DEF ReloadsWithinTTL
  <2>1. cookie = token /\ token # NoToken
    BY DashboardAssumption DEF OneAttempt, TypeOK, CookieCovers
  <2> QED
    BY <2>1 DEF Served, Allowed, ExtractToken, First, HeaderToken, CookieToken
<1> QED
  BY <1>1, <1>2, <1>3, OneAttemptCorrect, PTL DEF Spec
================================================================================
