------------------------------- MODULE ProxyProofs -------------------------------
(****************************************************************************)
(* Proofs about Proxy, for any number of clients, activities and sessions   *)
(* and any capacities.                                                      *)
(****************************************************************************)
EXTENDS Proxy, SequenceTheorems, TLAPS

OutMsgs == PresenceMsgs \cup CurrentMsgs \cup StateMsgs

\* A broadcast keeps the hub's queue typed and within its capacity.
LEMMA BroadcastTyped ==
  ASSUME TypeOK, NEW m \in PresenceMsgs \cup StateMsgs, Broadcast(m)
  PROVE  /\ bq' \in Seq(PresenceMsgs \cup StateMsgs) /\ Len(bq') <= BroadcastCap
         /\ missed' \in [Clients -> BOOLEAN]
<1>1. CASE Len(bq) < BroadcastCap
  <2>1. bq' = Append(bq, m) /\ missed' = missed
    BY <1>1 DEF Broadcast
  <2>2. Append(bq, m) \in Seq(PresenceMsgs \cup StateMsgs) /\ Len(Append(bq, m)) <= BroadcastCap
    BY <1>1, ProxyAssumption, LenProperties, AppendProperties DEF TypeOK
  <2> QED
    BY <2>1, <2>2 DEF TypeOK
<1>2. CASE ~(Len(bq) < BroadcastCap)
  <2>1. bq' = bq /\ missed' = [c \in Clients |-> TRUE]
    BY <1>2 DEF Broadcast
  <2>2. missed' \in [Clients -> BOOLEAN]
    BY <2>1, Zenon
  <2> QED
    BY <2>1, <2>2 DEF TypeOK
<1> QED
  BY <1>1, <1>2

\* An event keeps the channel of its session typed and within its capacity.
LEMMA EmitTyped ==
  ASSUME TypeOK, sess \in Sessions, NEW e \in Activities \cup {"bad", "end"}, Emit(e)
  PROVE  /\ chan' \in [Sessions -> Seq(Activities \cup {"bad", "end"})]
         /\ \A k \in Sessions : Len(chan'[k]) <= EventCap
<1> DEFINE new == IF Len(chan[sess]) < EventCap THEN Append(chan[sess], e) ELSE chan[sess]
<1>1. chan' = [chan EXCEPT ![sess] = new]
  BY DEF Emit
<1>2. new \in Seq(Activities \cup {"bad", "end"}) /\ Len(new) <= EventCap
  BY ProxyAssumption, LenProperties, AppendProperties DEF TypeOK
<1> QED
  BY <1>1, <1>2 DEF TypeOK

\* Taking an event keeps the channel typed and within its capacity.
LEMMA TakeTyped ==
  ASSUME TypeOK, NEW k \in Sessions, chan[k] # <<>>, chan' = [chan EXCEPT ![k] = Tail(@)]
  PROVE  /\ chan' \in [Sessions -> Seq(Activities \cup {"bad", "end"})]
         /\ \A j \in Sessions : Len(chan'[j]) <= EventCap
<1>1. Tail(chan[k]) \in Seq(Activities \cup {"bad", "end"}) /\ Len(Tail(chan[k])) <= EventCap
  BY ProxyAssumption, HeadTailProperties DEF TypeOK
<1> QED
  BY <1>1 DEF TypeOK

\* The steps of the session with Discord keep the types.
LEMMA SessionTypes ==
  ASSUME TypeOK,
         (\E e \in Activities \cup {"bad"} : Frame(e)) \/ SessionEnds \/ Supervisor
  PROVE  TypeOK'
<1> USE ProxyAssumption DEF ipcVars, loopVars, feedVars, serverVars, screenVars
<1>1. ASSUME NEW e \in Activities \cup {"bad"}, Frame(e) PROVE TypeOK'
  <2>1. /\ chan' \in [Sessions -> Seq(Activities \cup {"bad", "end"})]
        /\ \A k \in Sessions : Len(chan'[k]) <= EventCap
    BY <1>1, EmitTyped DEF Frame, TypeOK
  <2> QED
    BY <1>1, <2>1 DEF Frame, External, TypeOK, F!TypeOK
<1>2. ASSUME SessionEnds PROVE TypeOK'
  <2>1. up' \in BOOLEAN
    BY <1>2, Zenon DEF SessionEnds
  <2> QED
    BY <1>2, <2>1 DEF SessionEnds, External, TypeOK, F!TypeOK
<1>3. ASSUME EmitTerminal PROVE TypeOK'
  <2>1. /\ chan' \in [Sessions -> Seq(Activities \cup {"bad", "end"})]
        /\ \A k \in Sessions : Len(chan'[k]) <= EventCap
    BY <1>3, EmitTyped DEF EmitTerminal, TypeOK
  <2> QED
    BY <1>3, <2>1 DEF EmitTerminal, TypeOK, F!TypeOK
<1>4. ASSUME Retire PROVE TypeOK'
  <2>1. chanOpen' \in [Sessions -> BOOLEAN]
    BY <1>4, Zenon DEF Retire, RetireChannel, TypeOK
  <2> QED
    BY <1>4, <2>1 DEF Retire, RetireChannel, TypeOK, F!TypeOK
<1>5. ASSUME SessionUp PROVE TypeOK'
  <2>1. chanOpen' \in [Sessions -> BOOLEAN] /\ up' \in BOOLEAN
    BY <1>5, Zenon DEF SessionUp, TypeOK
  <2>2. sess' \in Sessions /\ sess' \in 0 .. MaxSessions /\ events' \in 0 .. MaxSessions
    BY <1>5 DEF SessionUp, Sessions, TypeOK
  <2> QED
    BY <1>5, <2>1, <2>2 DEF SessionUp, TypeOK, F!TypeOK
<1>6. ASSUME GiveUp PROVE TypeOK'
  BY <1>6 DEF GiveUp, TypeOK, F!TypeOK
<1> QED
  BY <1>1, <1>2, <1>3, <1>4, <1>5, <1>6 DEF Supervisor

\* The steps of the event loop, the presence feed and the hub keep the types.
LEMMA ServerTypes ==
  ASSUME TypeOK,
         EventLoop \/ WindowEnds \/ (\E cb \in callbacks : Callback(cb)) \/ FanOut
  PROVE  TypeOK'
<1> USE ProxyAssumption DEF ipcVars, loopVars, feedVars, serverVars, screenVars
<1>1. \A s \in {"connected", "reconnecting"} : StateMessage(s) \in PresenceMsgs \cup StateMsgs
  BY DEF StateMessage, StateMsgs
<1>2. ASSUME LoopFetch PROVE TypeOK'
  <2>1. /\ bq' \in Seq(PresenceMsgs \cup StateMsgs) /\ Len(bq') <= BroadcastCap
        /\ missed' \in [Clients -> BOOLEAN]
    BY <1>1, <1>2, BroadcastTyped DEF LoopFetch
  <2>2. loopChan' \in Sessions /\ loopChan' \in 0 .. MaxSessions
    BY <1>2 DEF LoopFetch, Sessions, TypeOK
  <2> QED
    BY <1>2, <2>1, <2>2 DEF LoopFetch, TypeOK, F!TypeOK
<1>3. ASSUME LoopActivity PROVE TypeOK'
  <2>1. /\ chan' \in [Sessions -> Seq(Activities \cup {"bad", "end"})]
        /\ \A k \in Sessions : Len(chan'[k]) <= EventCap
    BY <1>3, TakeTyped DEF LoopActivity, TypeOK
  <2>2. hasSource' \in BOOLEAN /\ open' \in BOOLEAN
    BY <1>3, Zenon DEF LoopActivity, F!Update
  <2> QED
    BY <1>3, <2>1, <2>2 DEF LoopActivity, F!Update, TypeOK, F!TypeOK
<1>4. ASSUME LoopLost PROVE TypeOK'
  <2>1. /\ bq' \in Seq(PresenceMsgs \cup StateMsgs) /\ Len(bq') <= BroadcastCap
        /\ missed' \in [Clients -> BOOLEAN]
    BY <1>1, <1>4, BroadcastTyped DEF LoopLost, AnnounceLoss
  <2>2. /\ chan' \in [Sessions -> Seq(Activities \cup {"bad", "end"})]
        /\ \A k \in Sessions : Len(chan'[k]) <= EventCap
    BY <1>4, TakeTyped DEF LoopLost, TypeOK
  <2> QED
    BY <1>4, <2>1, <2>2 DEF LoopLost, TypeOK, F!TypeOK
<1>5. ASSUME WindowEnds PROVE TypeOK'
  <2>1. open' \in BOOLEAN
    BY <1>5, Zenon DEF WindowEnds, F!WindowEnds
  <2>2. sent' \in Nat
    BY <1>5 DEF WindowEnds, F!WindowEnds, TypeOK, F!TypeOK
  <2>3. [val |-> cached, ver |-> ver, base |-> cached] \in Views3
    BY DEF Views3, Views, TypeOK, F!TypeOK
  <2>4. callbacks' \subseteq [seq : Nat, view : Views3]
    BY <1>5, <2>2, <2>3 DEF WindowEnds, TypeOK
  <2> QED
    BY <1>5, <2>1, <2>2, <2>4 DEF WindowEnds, F!WindowEnds, TypeOK, F!TypeOK
<1>6. ASSUME NEW cb \in callbacks, Callback(cb) PROVE TypeOK'
  <2>1. [kind |-> "presence", view |-> cb.view] \in PresenceMsgs \cup StateMsgs
    BY DEF PresenceMsgs, TypeOK
  <2>2. /\ bq' \in Seq(PresenceMsgs \cup StateMsgs) /\ Len(bq') <= BroadcastCap
        /\ missed' \in [Clients -> BOOLEAN]
    BY <1>6, <2>1, BroadcastTyped DEF Callback
  <2> QED
    BY <1>6, <2>2 DEF Callback, TypeOK, F!TypeOK
<1>7. ASSUME FanOut PROVE TypeOK'
  <2>1. /\ Head(bq) \in PresenceMsgs \cup StateMsgs
        /\ Tail(bq) \in Seq(PresenceMsgs \cup StateMsgs) /\ Len(Tail(bq)) <= BroadcastCap
    BY <1>7, HeadTailProperties DEF FanOut, TypeOK
  <2>2. ASSUME NEW c \in Clients, Len(out[c]) < SendCap
        PROVE  /\ Append(out[c], Head(bq)) \in Seq(OutMsgs)
               /\ Len(Append(out[c], Head(bq))) <= SendCap
    BY <2>1, <2>2, LenProperties, AppendProperties DEF TypeOK, OutMsgs
  <2>3. out' \in [Clients -> Seq(OutMsgs)] /\ \A c \in Clients : Len(out'[c]) <= SendCap
    BY <1>7, <2>2 DEF FanOut, TypeOK, OutMsgs
  <2>4. missed' \in [Clients -> BOOLEAN]
    BY <1>7, Zenon DEF FanOut, TypeOK
  <2> QED
    BY <1>7, <2>1, <2>3, <2>4 DEF FanOut, TypeOK, F!TypeOK, OutMsgs
<1> QED
  BY <1>2, <1>3, <1>4, <1>5, <1>6, <1>7 DEF EventLoop

\* The steps of the clients and of their ReadPumps keep the types.
LEMMA ClientTypes ==
  ASSUME TypeOK, NEW c \in Clients,
         Connect(c) \/ Disconnect(c) \/ AskAgain(c) \/ ReadPump(c) \/ Receive(c)
  PROVE  TypeOK'
<1> USE ProxyAssumption DEF ipcVars, loopVars, feedVars, serverVars, screenVars
<1>1. ASSUME Connect(c) PROVE TypeOK'
  <2>1. requests' \in [Clients -> Seq({"subscribe", "get_current"})]
    BY <1>1 DEF Connect, OnOpen, TypeOK
  <2>2. /\ conn' \in [Clients -> BOOLEAN] /\ answered' \in [Clients -> BOOLEAN]
        /\ heard' \in [Clients -> BOOLEAN]
    BY <1>1, Zenon DEF Connect, TypeOK
  <2>3. best' \in [Clients -> Views3]
    BY <1>1 DEF Connect, NoView, Views3, Views, TypeOK
  <2> QED
    BY <1>1, <2>1, <2>2, <2>3 DEF Connect, External, TypeOK, F!TypeOK
<1>2. ASSUME Disconnect(c) PROVE TypeOK'
  <2>1. requests' \in [Clients -> Seq({"subscribe", "get_current"})]
    BY <1>2, EmptySeq DEF Disconnect, TypeOK
  <2>2. conn' \in [Clients -> BOOLEAN] /\ subscribed' \in [Clients -> BOOLEAN]
    BY <1>2, Zenon DEF Disconnect, TypeOK
  <2>3. out' \in [Clients -> Seq(OutMsgs)] /\ \A d \in Clients : Len(out'[d]) <= SendCap
    BY <1>2, EmptySeq DEF Disconnect, TypeOK, OutMsgs
  <2> QED
    BY <1>2, <2>1, <2>2, <2>3 DEF Disconnect, External, TypeOK, F!TypeOK, OutMsgs
<1>3. ASSUME AskAgain(c) PROVE TypeOK'
  <2>1. Append(requests[c], "get_current") \in Seq({"subscribe", "get_current"})
    BY AppendProperties DEF TypeOK
  <2> QED
    BY <1>3, <2>1 DEF AskAgain, External, TypeOK, F!TypeOK
<1>4. ASSUME NEW r, Reads(c, r)
      PROVE  requests' \in [Clients -> Seq({"subscribe", "get_current"})]
  <2>1. Tail(requests[c]) \in Seq({"subscribe", "get_current"})
    BY <1>4, HeadTailProperties DEF Reads, TypeOK
  <2> QED
    BY <1>4, <2>1 DEF Reads, TypeOK
<1>5. ASSUME ReadSubscribe(c) PROVE TypeOK'
  <2>1. subscribed' \in [Clients -> BOOLEAN]
    BY <1>5, Zenon DEF ReadSubscribe, TypeOK
  <2> QED
    BY <1>4, <1>5, <2>1 DEF ReadSubscribe, TypeOK, F!TypeOK
<1>6. ASSUME ReadGetCurrent(c) PROVE TypeOK'
  <2>1. [val |-> GetCurrentPresence, ver |-> ver, base |-> lastNotified] \in Views3
    BY DEF GetCurrentPresence, F!Snapshot, Views3, Views, TypeOK, F!TypeOK
  <2>2. reply' \in [Clients -> {NoReply} \cup CurrentMsgs]
    BY <1>6, <2>1 DEF ReadGetCurrent, CurrentMsgs, TypeOK
  <2> QED
    BY <1>4, <1>6, <2>2 DEF ReadGetCurrent, TypeOK, F!TypeOK
<1>7. ASSUME SendReply(c) PROVE TypeOK'
  <2>1. reply' \in [Clients -> {NoReply} \cup CurrentMsgs]
    BY <1>7 DEF SendReply, TypeOK
  <2>2. CASE Len(out[c]) < SendCap
    <3>1. Append(out[c], reply[c]) \in Seq(OutMsgs) /\ Len(Append(out[c], reply[c])) <= SendCap
      BY <1>7, <2>2, LenProperties, AppendProperties DEF SendReply, TypeOK, OutMsgs
    <3>2. out' \in [Clients -> Seq(OutMsgs)] /\ \A d \in Clients : Len(out'[d]) <= SendCap
      BY <1>7, <2>2, <3>1 DEF SendReply, TypeOK, OutMsgs
    <3> QED
      BY <1>7, <2>1, <2>2, <3>2 DEF SendReply, TypeOK, F!TypeOK, OutMsgs
  <2>3. CASE ~(Len(out[c]) < SendCap)
    <3>1. missed' \in [Clients -> BOOLEAN]
      BY <1>7, <2>3, Zenon DEF SendReply, TypeOK
    <3> QED
      BY <1>7, <2>1, <2>3, <3>1 DEF SendReply, TypeOK, F!TypeOK
  <2> QED
    BY <2>2, <2>3
<1>8. ASSUME Receive(c) PROVE TypeOK'
  <2> DEFINE m == Head(out[c])
  <2>1. m \in OutMsgs /\ Tail(out[c]) \in Seq(OutMsgs) /\ Len(Tail(out[c])) <= SendCap
    BY <1>8, HeadTailProperties DEF Receive, TypeOK, OutMsgs
  <2>2. out' \in [Clients -> Seq(OutMsgs)] /\ \A d \in Clients : Len(out'[d]) <= SendCap
    BY <1>8, <2>1 DEF Receive, TypeOK, OutMsgs
  <2>3. CASE m.kind = "state"
    <3>1. m.status \in {"connected", "reconnecting"}
      BY <2>1, <2>3 DEF OutMsgs, PresenceMsgs, CurrentMsgs, StateMsgs
    <3>2. heard' \in [Clients -> BOOLEAN]
      BY <1>8, <2>3, Zenon DEF Receive, TypeOK
    <3>3. told' \in [Clients -> {"unknown", "connected", "reconnecting"}]
      BY <1>8, <2>3, <3>1 DEF Receive, TypeOK
    <3> QED
      BY <1>8, <2>2, <2>3, <3>2, <3>3 DEF Receive, TypeOK, F!TypeOK, OutMsgs
  <2>4. CASE m.kind # "state"
    <3>1. m.view \in Views3 /\ m.view.val \in Views
      BY <2>1, <2>4 DEF OutMsgs, PresenceMsgs, CurrentMsgs, StateMsgs, Views3
    <3>2. answered' \in [Clients -> BOOLEAN]
      BY <1>8, <2>4, Zenon DEF Receive, TypeOK
    <3>3. shown' \in [Clients -> Views] /\ best' \in [Clients -> Views3]
      BY <1>8, <2>4, <3>1 DEF Receive, TypeOK
    <3> QED
      BY <1>8, <2>2, <2>4, <3>2, <3>3 DEF Receive, TypeOK, F!TypeOK, OutMsgs
  <2> QED
    BY <2>3, <2>4
<1> QED
  BY <1>1, <1>2, <1>3, <1>5, <1>6, <1>7, <1>8 DEF ReadPump

\* Every reachable state of the proxy is well typed, and every channel on the way
\* from Discord to a client keeps within its capacity.
THEOREM TypeCorrect == Spec => []TypeOK
<1>1. Init => TypeOK
  <2> SUFFICES ASSUME Init PROVE TypeOK
    OBVIOUS
  <2>1. PICK k \in {0, 1} :
          /\ up = (k = 1) /\ sess = k /\ events = k
          /\ sup = IF k = 1 THEN "running" ELSE "retrying"
          /\ chanOpen = [n \in Sessions |-> n = k]
    BY DEF Init
  <2> USE ProxyAssumption DEF Init
  <2>2. up \in BOOLEAN /\ chanOpen \in [Sessions -> BOOLEAN]
    BY <2>1, Zenon
  <2>3. /\ sess \in 0 .. MaxSessions /\ events \in 0 .. MaxSessions
        /\ sup \in {"running", "retrying"} /\ (sup = "running" => sess \in Sessions)
    BY <2>1 DEF Sessions
  <2>4. /\ conn \in [Clients -> BOOLEAN] /\ subscribed \in [Clients -> BOOLEAN]
        /\ answered \in [Clients -> BOOLEAN] /\ heard \in [Clients -> BOOLEAN]
        /\ missed \in [Clients -> BOOLEAN]
    BY Zenon
  <2>5. F!TypeOK
    <3>1. hasSource \in BOOLEAN /\ open \in BOOLEAN /\ TRUE \in BOOLEAN /\ FALSE \in BOOLEAN
      BY Zenon
    <3> QED
      BY <3>1 DEF F!TypeOK
  <2>6. best \in [Clients -> Views3]
    BY DEF NoView, Views3, Views
  <2>7. /\ chan \in [Sessions -> Seq(Activities \cup {"bad", "end"})]
        /\ \A n \in Sessions : Len(chan[n]) <= EventCap
        /\ bq \in Seq(PresenceMsgs \cup StateMsgs) /\ Len(bq) <= BroadcastCap
        /\ requests \in [Clients -> Seq({"subscribe", "get_current"})]
        /\ out \in [Clients -> Seq(PresenceMsgs \cup CurrentMsgs \cup StateMsgs)]
        /\ \A c \in Clients : Len(out[c]) <= SendCap
    BY EmptySeq
  <2> QED
    BY <2>2, <2>3, <2>4, <2>5, <2>6, <2>7 DEF TypeOK, Views
<1>2. TypeOK /\ [Next]_vars => TypeOK'
  <2> SUFFICES ASSUME TypeOK, [Next]_vars PROVE TypeOK'
    OBVIOUS
  <2>1. CASE UNCHANGED vars
    BY <2>1 DEF vars, ipcVars, loopVars, feedVars, serverVars, screenVars, TypeOK, F!TypeOK
  <2> QED
    BY <2>1, SessionTypes, ServerTypes, ClientTypes DEF Next
<1> QED
  BY <1>1, <1>2, PTL DEF Spec

--------------------------------------------------------------------------------
(* Before the subscription, and the one session. *)

\* What BeforeSubscription says of one client.
Unserved(c) ==
  /\ ~conn[c] => ~subscribed[c] /\ requests[c] = <<>>
  /\ ~subscribed[c] =>
       /\ out[c] = <<>> /\ reply[c] = NoReply
       /\ conn[c] => /\ requests[c] # <<>> /\ Head(requests[c]) = "subscribe"
                     /\ ~answered[c] /\ ~heard[c] /\ best[c] = NoView

\* A step that leaves a client alone keeps what holds of it.
LEMMA UnservedStays ==
  ASSUME NEW c, Unserved(c), out'[c] = out[c],
         conn'[c] = conn[c], subscribed'[c] = subscribed[c], requests'[c] = requests[c],
         reply'[c] = reply[c], answered'[c] = answered[c], heard'[c] = heard[c],
         best'[c] = best[c]
  PROVE  Unserved(c)'
  BY DEF Unserved

\* A client that is not subscribed stays unserved, and subscribes first.
LEMMA UnservedStep ==
  ASSUME TypeOK, BeforeSubscription, [Next]_vars
  PROVE  BeforeSubscription'
<1> SUFFICES ASSUME NEW d \in Clients PROVE Unserved(d)'
  BY DEF BeforeSubscription, Unserved
<1>1. Unserved(d)
  BY DEF BeforeSubscription, Unserved
<1> USE DEF ipcVars, loopVars, feedVars, serverVars, screenVars
<1>2. ASSUME NEW e \in Activities \cup {"bad"}, Frame(e) PROVE Unserved(d)'
  BY <1>1, <1>2, UnservedStays DEF Frame
<1>3. CASE SessionEnds \/ Supervisor
  BY <1>1, <1>3, UnservedStays DEF SessionEnds, Supervisor, EmitTerminal, Retire, SessionUp,
       GiveUp
<1>4. CASE EventLoop \/ WindowEnds
  BY <1>1, <1>4, UnservedStays DEF EventLoop, LoopFetch, LoopActivity, LoopLost, WindowEnds
<1>5. ASSUME NEW cb \in callbacks, Callback(cb) PROVE Unserved(d)'
  BY <1>1, <1>5, UnservedStays DEF Callback
<1>6. CASE FanOut
  BY <1>1, <1>6 DEF FanOut, Unserved
<1>7. ASSUME NEW c \in Clients,
             Connect(c) \/ Disconnect(c) \/ AskAgain(c) \/ ReadPump(c) \/ Receive(c)
      PROVE  Unserved(d)'
  <2>1. CASE d # c
    <3>1. /\ out'[d] = out[d] /\ conn'[d] = conn[d] /\ subscribed'[d] = subscribed[d]
          /\ requests'[d] = requests[d] /\ reply'[d] = reply[d]
          /\ answered'[d] = answered[d] /\ heard'[d] = heard[d] /\ best'[d] = best[d]
      BY <1>7, <2>1 DEF Connect, Disconnect, AskAgain, ReadPump, ReadSubscribe,
           ReadGetCurrent, Reads, SendReply, Receive, TypeOK
    <3> QED
      BY <1>1, <3>1, UnservedStays
  <2>2. CASE d = c /\ Connect(c)
    <3>1. OnOpen # <<>> /\ Head(OnOpen) = "subscribe"
      BY DEF OnOpen
    <3>2. ~answered'[c] /\ ~heard'[c] /\ conn'[c]
      BY <2>2, Zenon DEF Connect, TypeOK
    <3> QED
      BY <1>1, <2>2, <3>1, <3>2 DEF Connect, Unserved, TypeOK
  <2>3. CASE d = c /\ Disconnect(c)
    <3>1. ~conn'[c] /\ ~subscribed'[c]
      BY <2>3, Zenon DEF Disconnect, TypeOK
    <3> QED
      BY <2>3, <3>1 DEF Disconnect, Unserved, TypeOK
  <2>4. CASE d = c /\ AskAgain(c)
    <3>1. /\ Append(requests[c], "get_current") # <<>>
          /\ requests[c] # <<>> => Head(Append(requests[c], "get_current")) = Head(requests[c])
      <4> DEFINE s == requests[c]
                 t == Append(s, "get_current")
      <4>1. s \in Seq({"subscribe", "get_current"})
        BY DEF TypeOK
      <4> HIDE DEF s
      <4>2. /\ t \in Seq({"subscribe", "get_current"}) /\ Len(t) = Len(s) + 1 /\ Len(s) \in Nat
            /\ \A i \in 1 .. Len(s) : t[i] = s[i]
        BY <4>1, LenProperties, AppendProperties
      <4> HIDE DEF t
      <4>3. t # <<>> /\ Head(t) = t[1]
        BY <4>2, EmptySeq, HeadTailProperties
      <4>4. s # <<>> => Head(s) = s[1] /\ 1 \in 1 .. Len(s)
        BY <4>1, EmptySeq, LenProperties, HeadTailProperties
      <4> QED
        BY <4>2, <4>3, <4>4 DEF s, t
    <3> QED
      BY <1>1, <2>4, <3>1 DEF AskAgain, Unserved, TypeOK
  <2>5. CASE d = c /\ ReadSubscribe(c)
    <3>1. subscribed'[c]
      BY <2>5, Zenon DEF ReadSubscribe, TypeOK
    <3>2. conn[c]
      BY <1>1, <2>5 DEF ReadSubscribe, Reads, Unserved
    <3> QED
      BY <2>5, <3>1, <3>2 DEF ReadSubscribe, Unserved
  <2>6. CASE d = c /\ (ReadGetCurrent(c) \/ SendReply(c) \/ Receive(c))
    <3>1. subscribed[c] /\ conn[c]
      BY <1>1, <2>6 DEF ReadGetCurrent, Reads, SendReply, Receive, Unserved
    <3>2. subscribed' = subscribed /\ conn' = conn
      BY <2>6 DEF ReadGetCurrent, SendReply, Receive
    <3> QED
      BY <2>6, <3>1, <3>2 DEF Unserved
  <2> QED
    BY <1>7, <2>1, <2>2, <2>3, <2>4, <2>5, <2>6 DEF ReadPump
<1>8. CASE UNCHANGED vars
  BY <1>1, <1>8, UnservedStays DEF vars
<1> QED
  BY <1>2, <1>3, <1>4, <1>5, <1>6, <1>7, <1>8 DEF Next

\* One step keeps the state, the published channel and the open channel together.
LEMMA OneSessionStep ==
  ASSUME TypeOK, OneSession, [Next]_vars
  PROVE  OneSession'
<1> USE DEF ipcVars, OneSession
<1>1. ASSUME UNCHANGED <<up, sup, sess, events, chanOpen>> PROVE OneSession'
  BY <1>1
<1>2. ASSUME NEW e \in Activities \cup {"bad"}, Frame(e) PROVE OneSession'
  BY <1>1, <1>2 DEF Frame
<1>3. CASE SessionEnds
  BY <1>3 DEF SessionEnds
<1>4. CASE Supervisor
  <2>1. CASE EmitTerminal
    BY <2>1 DEF EmitTerminal
  <2>2. CASE Retire
    BY <2>2 DEF Retire, RetireChannel, TypeOK
  <2>3. CASE SessionUp
    BY <2>3 DEF SessionUp, TypeOK
  <2>4. CASE GiveUp
    BY <2>4 DEF GiveUp
  <2> QED
    BY <1>4, <2>1, <2>2, <2>3, <2>4 DEF Supervisor
<1>5. CASE EventLoop \/ WindowEnds \/ FanOut
  BY <1>1, <1>5 DEF EventLoop, LoopFetch, LoopActivity, LoopLost, WindowEnds, FanOut
<1>6. ASSUME NEW cb \in callbacks, Callback(cb) PROVE OneSession'
  BY <1>1, <1>6 DEF Callback
<1>7. ASSUME NEW c \in Clients,
             Connect(c) \/ Disconnect(c) \/ AskAgain(c) \/ ReadPump(c) \/ Receive(c)
      PROVE  OneSession'
  BY <1>1, <1>7 DEF Connect, Disconnect, AskAgain, ReadPump, ReadSubscribe, ReadGetCurrent,
       SendReply, Receive
<1>8. CASE UNCHANGED vars
  BY <1>1, <1>8 DEF vars
<1> QED
  BY <1>2, <1>3, <1>4, <1>5, <1>6, <1>7, <1>8 DEF Next

--------------------------------------------------------------------------------
(* The states announced to the clients. *)

\* The last state message of s, if any, says a.
EndsOn(s, a) == \A i \in StatesIn(s) : s[i].status = a \/ \E j \in StatesIn(s) : i < j

\* What appending a message does to the state messages of a channel.
LEMMA AppendStates ==
  ASSUME NEW s \in Seq(OutMsgs), NEW m \in OutMsgs, NEW a
  PROVE  /\ m.kind # "state" =>
              /\ StatesIn(Append(s, m)) = StatesIn(s)
              /\ EndsOn(s, a) => EndsOn(Append(s, m), a)
         /\ m.kind = "state" =>
              /\ StatesIn(Append(s, m)) # {}
              /\ m.status = a => EndsOn(Append(s, m), a)
<1> DEFINE t == Append(s, m)
<1>1. /\ Len(s) \in Nat /\ DOMAIN s = 1 .. Len(s) /\ DOMAIN t = 1 .. Len(s) + 1
      /\ \A i \in 1 .. Len(s) : t[i] = s[i]
      /\ t[Len(s) + 1] = m
  BY LenProperties, AppendProperties
<1> HIDE DEF t
<1>2. ASSUME m.kind # "state"
      PROVE  StatesIn(t) = StatesIn(s) /\ (EndsOn(s, a) => EndsOn(t, a))
  <2>1. StatesIn(t) = StatesIn(s) /\ \A i \in StatesIn(s) : t[i] = s[i]
    BY <1>1, <1>2 DEF StatesIn
  <2> QED
    BY <2>1 DEF EndsOn
<1>3. ASSUME m.kind = "state"
      PROVE  StatesIn(t) # {} /\ (m.status = a => EndsOn(t, a))
  <2>1. Len(s) + 1 \in StatesIn(t) /\ \A i \in StatesIn(t) : i = Len(s) + 1 \/ i < Len(s) + 1
    BY <1>1, <1>3 DEF StatesIn
  <2> QED
    BY <1>1, <2>1 DEF EndsOn
<1> QED
  BY <1>2, <1>3 DEF t

\* What taking the first message does to the state messages of a channel.
LEMMA TailStates ==
  ASSUME NEW s \in Seq(OutMsgs), s # <<>>, NEW a
  PROVE  /\ EndsOn(s, a) => EndsOn(Tail(s), a)
         /\ StatesIn(Tail(s)) = {} =>
              IF Head(s).kind = "state" THEN EndsOn(s, a) => Head(s).status = a
                                        ELSE StatesIn(s) = {}
         /\ Head(s).kind = "state" => StatesIn(s) # {}
<1> DEFINE t == Tail(s)
<1>1. /\ Len(s) \in Nat \ {0} /\ DOMAIN s = 1 .. Len(s) /\ DOMAIN t = 1 .. Len(s) - 1
      /\ \A i \in 1 .. Len(s) - 1 : t[i] = s[i + 1]
      /\ Head(s) = s[1]
  BY EmptySeq, LenProperties, HeadTailProperties
<1> HIDE DEF t
<1>2. \A i \in StatesIn(t) : i \in Nat /\ i + 1 \in StatesIn(s) /\ t[i] = s[i + 1]
  BY <1>1 DEF StatesIn
<1>3. ASSUME NEW i \in StatesIn(s), i # 1 PROVE i \in Nat /\ i - 1 \in StatesIn(t)
  <2>1. i \in 1 .. Len(s) /\ i - 1 \in 1 .. Len(s) - 1 /\ s[i].kind = "state"
    BY <1>1, <1>3 DEF StatesIn
  <2>2. t[i - 1] = s[i]
    BY <1>1, <2>1
  <2> QED
    BY <1>1, <2>1, <2>2 DEF StatesIn
<1>4. ASSUME EndsOn(s, a) PROVE EndsOn(t, a)
  <2> SUFFICES ASSUME NEW i \in StatesIn(t), t[i].status # a
               PROVE  \E j \in StatesIn(t) : i < j
    BY DEF EndsOn
  <2>1. PICK j \in StatesIn(s) : i + 1 < j
    BY <1>2, <1>4 DEF EndsOn
  <2>2. j - 1 \in StatesIn(t) /\ i < j - 1
    BY <1>2, <1>3, <2>1
  <2> QED
    BY <2>2
<1>5. Head(s).kind = "state" => 1 \in StatesIn(s)
  BY <1>1 DEF StatesIn
<1>6. ASSUME StatesIn(t) = {} PROVE \A i \in StatesIn(s) : i = 1
  BY <1>3, <1>6
<1>7. ASSUME StatesIn(t) = {}, Head(s).kind = "state", EndsOn(s, a) PROVE Head(s).status = a
  BY <1>1, <1>5, <1>6, <1>7 DEF EndsOn
<1>8. ASSUME StatesIn(t) = {}, Head(s).kind # "state" PROVE StatesIn(s) = {}
  BY <1>1, <1>6, <1>8 DEF StatesIn
<1> QED
  BY <1>4, <1>5, <1>7, <1>8 DEF t

\* What AnnouncedLast says of one client.
ToldLast(c) ==
  ~missed[c] =>
    /\ EndsOn(bq, Announced)
    /\ conn[c] /\ StatesIn(bq) = {} =>
         /\ EndsOn(out[c], Announced)
         /\ heard[c] /\ StatesIn(out[c]) = {} => told[c] = Announced

\* AnnouncedLast says it of every client.
LEMMA ToldLastOfAll == AnnouncedLast <=> \A c \in Clients : ToldLast(c)
  BY DEF AnnouncedLast, ToldLast, EndsOnAnnounced, EndsOn

\* A step that announces nothing and sends nothing keeps it.
LEMMA ToldStays ==
  ASSUME NEW c, ToldLast(c), UNCHANGED <<loop, bq>>, missed[c] => missed'[c],
         out'[c] = out[c], conn'[c] = conn[c], heard'[c] = heard[c], told'[c] = told[c]
  PROVE  ToldLast(c)'
  BY DEF ToldLast, Announced, EndsOn, StatesIn

\* A broadcast announces what the loop says, or is no announcement.
LEMMA ToldBroadcast ==
  ASSUME TypeOK, NEW c \in Clients, ToldLast(c), NEW m \in PresenceMsgs \cup StateMsgs,
         Broadcast(m), UNCHANGED <<out, conn, heard, told>>,
         \/ m.kind = "state" /\ m.status = Announced'
         \/ m.kind # "state" /\ UNCHANGED loop
  PROVE  ToldLast(c)'
<1>1. CASE ~(Len(bq) < BroadcastCap)
  <2>1. missed'[c] = TRUE
    BY <1>1 DEF Broadcast
  <2> QED
    BY <2>1, Zenon DEF ToldLast
<1>2. CASE Len(bq) < BroadcastCap
  <2>1. bq' = Append(bq, m) /\ missed' = missed
    BY <1>2 DEF Broadcast
  <2>2. bq \in Seq(OutMsgs) /\ m \in OutMsgs
    BY SeqMonotonic, PresenceMsgs \cup StateMsgs \subseteq OutMsgs DEF TypeOK, OutMsgs
  <2>3. CASE m.kind = "state" /\ m.status = Announced'
    <3>1. StatesIn(bq') # {} /\ EndsOn(bq', Announced')
      BY <2>1, <2>2, <2>3, AppendStates
    <3>2. EndsOn(bq, Announced)' /\ ~(StatesIn(bq) = {})'
      BY <3>1 DEF EndsOn, StatesIn
    <3> QED
      BY <3>2 DEF ToldLast
  <2>4. CASE m.kind # "state" /\ UNCHANGED loop
    <3>1. StatesIn(bq') = StatesIn(bq) /\ (EndsOn(bq, Announced) => EndsOn(bq', Announced))
      BY <2>1, <2>2, <2>4, AppendStates
    <3>2. Announced' = Announced
      BY <2>4 DEF Announced
    <3>3. /\ (StatesIn(bq) = {})' <=> StatesIn(bq) = {}
          /\ EndsOn(bq, Announced) => EndsOn(bq, Announced)'
      BY <3>1, <3>2 DEF EndsOn, StatesIn
    <3>4. /\ EndsOn(out[c], Announced)' <=> EndsOn(out[c], Announced)
          /\ (StatesIn(out[c]) = {})' <=> StatesIn(out[c]) = {}
      BY <3>2 DEF EndsOn, StatesIn
    <3> QED
      BY <2>1, <3>2, <3>3, <3>4 DEF ToldLast
  <2> QED
    BY <2>3, <2>4
<1> QED
  BY <1>1, <1>2

\* The fan-out hands the first message on to the subscribers, and the other clients
\* have not been told anything yet.
LEMMA ToldFanOut ==
  ASSUME TypeOK, BeforeSubscription, NEW c \in Clients, ToldLast(c), FanOut
  PROVE  ToldLast(c)'
<1> DEFINE m == Head(bq)
<1>1. /\ bq # <<>> /\ bq' = Tail(bq) /\ UNCHANGED <<loop, conn, heard, told>>
      /\ out'[c] = IF subscribed[c] /\ Len(out[c]) < SendCap THEN Append(out[c], m) ELSE out[c]
      /\ missed'[c] = (missed[c] \/ (subscribed[c] /\ Len(out[c]) = SendCap))
  BY DEF FanOut, loopVars, serverVars, screenVars
<1>2. Announced' = Announced
  BY <1>1 DEF Announced
<1>3. bq \in Seq(OutMsgs) /\ out[c] \in Seq(OutMsgs) /\ m \in OutMsgs
  <2>1. bq \in Seq(OutMsgs)
    BY SeqMonotonic, PresenceMsgs \cup StateMsgs \subseteq OutMsgs DEF TypeOK, OutMsgs
  <2> QED
    BY <1>1, <2>1, HeadTailProperties DEF TypeOK, OutMsgs
<1> SUFFICES ASSUME ~missed'[c]
             PROVE  /\ EndsOn(bq', Announced)
                    /\ conn[c] /\ StatesIn(bq') = {} =>
                         /\ EndsOn(out'[c], Announced)
                         /\ heard[c] /\ StatesIn(out'[c]) = {} => told[c] = Announced
  BY <1>1, <1>2 DEF ToldLast, EndsOn, StatesIn
<1> HIDE DEF m
<1>4. ~missed[c] /\ (subscribed[c] => Len(out[c]) < SendCap)
  <2>1. ~missed[c] /\ ~(subscribed[c] /\ Len(out[c]) = SendCap)
    BY <1>1, Zenon
  <2> QED
    BY <2>1, ProxyAssumption, LenProperties DEF TypeOK
<1>5. EndsOn(bq, Announced) /\ EndsOn(bq', Announced)
  BY <1>1, <1>3, <1>4, TailStates DEF ToldLast
<1>6. ASSUME conn[c], StatesIn(bq') = {}
      PROVE  /\ EndsOn(out'[c], Announced)
             /\ heard[c] /\ StatesIn(out'[c]) = {} => told[c] = Announced
  <2>1. IF m.kind = "state" THEN m.status = Announced ELSE StatesIn(bq) = {}
    BY <1>1, <1>3, <1>5, <1>6, TailStates DEF m
  <2>2. CASE ~subscribed[c]
    <3>1. out'[c] = <<>> /\ ~heard[c]
      BY <1>1, <1>6, <2>2 DEF BeforeSubscription
    <3> QED
      BY <3>1 DEF EndsOn, StatesIn
  <2>3. CASE subscribed[c] /\ m.kind = "state"
    <3>1. out'[c] = Append(out[c], m)
      BY <1>1, <1>4, <2>3
    <3>2. StatesIn(Append(out[c], m)) # {} /\ EndsOn(Append(out[c], m), Announced)
      BY <1>3, <2>1, <2>3, AppendStates
    <3> QED
      BY <3>1, <3>2
  <2>4. CASE subscribed[c] /\ m.kind # "state"
    <3>1. out'[c] = Append(out[c], m)
      BY <1>1, <1>4, <2>4
    <3>2. EndsOn(out[c], Announced) /\ (heard[c] /\ StatesIn(out[c]) = {} => told[c] = Announced)
      BY <1>4, <1>6, <2>1, <2>4 DEF ToldLast
    <3> QED
      BY <1>3, <2>4, <3>1, <3>2, AppendStates
  <2> QED
    BY <2>2, <2>3, <2>4
<1> QED
  BY <1>5, <1>6

\* A client that reads its next message is told what comes last.
LEMMA ToldReceive ==
  ASSUME TypeOK, NEW c \in Clients, ToldLast(c), Receive(c)
  PROVE  ToldLast(c)'
<1> DEFINE m == Head(out[c])
<1>1. /\ out[c] # <<>> /\ out'[c] = Tail(out[c]) /\ UNCHANGED <<loop, conn, bq, missed>>
      /\ IF m.kind = "state" THEN told'[c] = m.status ELSE told'[c] = told[c] /\ heard' = heard
  BY DEF Receive, loopVars, serverVars, TypeOK
<1>2. Announced' = Announced
  BY <1>1 DEF Announced
<1>3. out[c] \in Seq(OutMsgs)
  BY DEF TypeOK, OutMsgs
<1> SUFFICES ASSUME ~missed[c], conn[c], StatesIn(bq) = {}
             PROVE  /\ EndsOn(out'[c], Announced)
                    /\ heard'[c] /\ StatesIn(out'[c]) = {} => told'[c] = Announced
  BY <1>1, <1>2 DEF ToldLast, EndsOn, StatesIn
<1>4. /\ EndsOn(out[c], Announced)
      /\ heard[c] /\ StatesIn(out[c]) = {} => told[c] = Announced
  BY DEF ToldLast
<1>5. /\ EndsOn(Tail(out[c]), Announced)
      /\ StatesIn(Tail(out[c])) = {} =>
           IF m.kind = "state" THEN m.status = Announced ELSE StatesIn(out[c]) = {}
  BY <1>1, <1>3, <1>4, TailStates
<1> QED
  BY <1>1, <1>4, <1>5

\* One step keeps what the clients are told last.
LEMMA AnnouncedStep ==
  ASSUME TypeOK, BeforeSubscription, AnnouncedLast, [Next]_vars
  PROVE  AnnouncedLast'
<1> SUFFICES ASSUME NEW d \in Clients PROVE ToldLast(d)'
  BY DEF AnnouncedLast, ToldLast, EndsOnAnnounced, EndsOn
<1>1. ToldLast(d)
  BY ToldLastOfAll
<1> USE DEF ipcVars, loopVars, feedVars, serverVars, screenVars
<1>2. ASSUME NEW e \in Activities \cup {"bad"}, Frame(e) PROVE ToldLast(d)'
  BY <1>1, <1>2, ToldStays DEF Frame
<1>3. CASE SessionEnds \/ Supervisor
  BY <1>1, <1>3, ToldStays DEF SessionEnds, Supervisor, EmitTerminal, Retire, SessionUp,
       GiveUp
<1>4. CASE EventLoop
  <2>1. \A s \in {"connected", "reconnecting"} :
          /\ StateMessage(s) \in PresenceMsgs \cup StateMsgs
          /\ StateMessage(s).kind = "state" /\ StateMessage(s).status = s
    BY DEF StateMessage, StateMsgs
  <2>2. CASE LoopFetch
    <3>1. Broadcast(StateMessage("connected")) /\ UNCHANGED <<out, conn, heard, told>>
          /\ Announced' = "connected"
      BY <2>2 DEF LoopFetch, Announced
    <3> QED
      BY <1>1, <2>1, <3>1, ToldBroadcast
  <2>3. CASE LoopActivity
    BY <1>1, <2>3, ToldStays DEF LoopActivity
  <2>4. CASE LoopLost
    <3>1. Broadcast(StateMessage("reconnecting")) /\ UNCHANGED <<out, conn, heard, told>>
          /\ Announced' = "reconnecting"
      BY <2>4 DEF LoopLost, AnnounceLoss, Announced
    <3> QED
      BY <1>1, <2>1, <3>1, ToldBroadcast
  <2> QED
    BY <1>4, <2>2, <2>3, <2>4 DEF EventLoop
<1>5. CASE WindowEnds
  BY <1>1, <1>5, ToldStays DEF WindowEnds
<1>6. ASSUME NEW cb \in callbacks, Callback(cb) PROVE ToldLast(d)'
  <2> DEFINE m == [kind |-> "presence", view |-> cb.view]
  <2>1. m \in PresenceMsgs \cup StateMsgs /\ m.kind # "state"
    BY DEF PresenceMsgs, TypeOK
  <2>2. Broadcast(m) /\ UNCHANGED <<out, conn, heard, told, loop>>
    BY <1>6 DEF Callback
  <2> HIDE DEF m
  <2> QED
    BY <1>1, <2>1, <2>2, ToldBroadcast
<1>7. CASE FanOut
  BY <1>1, <1>7, ToldFanOut
<1>8. ASSUME NEW c \in Clients,
             Connect(c) \/ Disconnect(c) \/ AskAgain(c) \/ ReadPump(c) \/ Receive(c)
      PROVE  ToldLast(d)'
  <2>1. CASE d # c
    <3>1. /\ out'[d] = out[d] /\ conn'[d] = conn[d] /\ heard'[d] = heard[d]
          /\ told'[d] = told[d] /\ missed'[d] = missed[d] /\ UNCHANGED <<loop, bq>>
      BY <1>8, <2>1 DEF Connect, Disconnect, AskAgain, ReadPump, ReadSubscribe,
           ReadGetCurrent, Reads, SendReply, Receive, TypeOK
    <3> QED
      BY <1>1, <3>1, ToldStays
  <2>2. CASE d = c /\ Connect(c)
    <3>1. out'[c] = <<>> /\ UNCHANGED <<bq, loop, missed>>
      BY <2>2 DEF Connect, BeforeSubscription
    <3>2. ~heard'[c]
      BY <2>2, Zenon DEF Connect, TypeOK
    <3> QED
      BY <1>1, <2>2, <3>1, <3>2 DEF ToldLast, EndsOn, StatesIn, Announced
  <2>3. CASE d = c /\ Disconnect(c)
    <3>1. ~conn'[c]
      BY <2>3, Zenon DEF Disconnect, TypeOK
    <3> QED
      BY <1>1, <2>3, <3>1 DEF Disconnect, ToldLast, EndsOn, StatesIn, Announced
  <2>4. CASE AskAgain(c) \/ ReadSubscribe(c) \/ ReadGetCurrent(c)
    BY <1>1, <2>4, ToldStays DEF AskAgain, ReadSubscribe, ReadGetCurrent
  <2>5. CASE d = c /\ SendReply(c)
    <3>1. CASE Len(out[c]) < SendCap
      <4>1. /\ out'[c] = Append(out[c], reply[c])
            /\ UNCHANGED <<missed, loop, bq, conn, heard, told>>
        BY <2>5, <3>1 DEF SendReply, TypeOK
      <4>2. out[c] \in Seq(OutMsgs) /\ reply[c] \in OutMsgs /\ reply[c].kind # "state"
        BY <2>5 DEF SendReply, TypeOK, OutMsgs, CurrentMsgs
      <4>3. /\ StatesIn(out'[c]) = StatesIn(out[c])
            /\ EndsOn(out[c], Announced) => EndsOn(out'[c], Announced)
        BY <4>1, <4>2, AppendStates
      <4>4. Announced' = Announced
        BY <4>1 DEF Announced
      <4>5. /\ (StatesIn(out[c]) = {})' <=> StatesIn(out[c]) = {}
            /\ EndsOn(out[c], Announced) => EndsOn(out[c], Announced)'
            /\ EndsOn(bq, Announced)' <=> EndsOn(bq, Announced)
            /\ (StatesIn(bq) = {})' <=> StatesIn(bq) = {}
        BY <4>1, <4>3, <4>4 DEF EndsOn, StatesIn
      <4> QED
        BY <1>1, <2>5, <4>1, <4>4, <4>5 DEF ToldLast
    <3>2. CASE ~(Len(out[c]) < SendCap)
      <4>1. missed'[c]
        BY <2>5, <3>2, Zenon DEF SendReply, TypeOK
      <4> QED
        BY <2>5, <4>1 DEF ToldLast
    <3> QED
      BY <3>1, <3>2
  <2>6. CASE d = c /\ Receive(c)
    BY <1>1, <2>6, ToldReceive
  <2> QED
    BY <1>8, <2>1, <2>2, <2>3, <2>4, <2>5, <2>6 DEF ReadPump
<1>9. CASE UNCHANGED vars
  BY <1>1, <1>9, ToldStays DEF vars
<1> QED
  BY <1>2, <1>3, <1>4, <1>5, <1>6, <1>7, <1>8, <1>9 DEF Next

\* The invariant that BeforeSubscription, OneSession and AnnouncedLast make together.
StateInv == BeforeSubscription /\ OneSession /\ AnnouncedLast

\* In service and while sessions come and go, what the clients were told, are going to
\* be told and what the event loop announced last agree.
LEMMA StateInvariant == Spec => []StateInv
<1>1. Init => StateInv
  <2> SUFFICES ASSUME Init PROVE StateInv
    OBVIOUS
  <2>1. BeforeSubscription
    <3>1. \A c \in Clients : ~conn[c] /\ ~subscribed[c]
      BY Zenon DEF Init
    <3> QED
      BY <3>1 DEF Init, BeforeSubscription
  <2>2. OneSession
    <3>1. PICK k \in {0, 1} :
            /\ up = (k = 1) /\ sess = k /\ events = k
            /\ sup = IF k = 1 THEN "running" ELSE "retrying"
            /\ chanOpen = [n \in Sessions |-> n = k]
      BY DEF Init
    <3>2. CASE k = 1
      BY <3>1, <3>2 DEF OneSession
    <3>3. CASE k = 0
      <4>1. \A n \in Sessions : n # 0
        BY ProxyAssumption DEF Sessions
      <4>2. \A n \in Sessions : ~chanOpen[n]
        BY <3>1, <3>3, <4>1, Zenon
      <4> QED
        BY <3>1, <3>3, <4>2 DEF OneSession
    <3> QED
      BY <3>2, <3>3
  <2>3. AnnouncedLast
    <3>1. \A c \in Clients : ~conn[c]
      BY Zenon DEF Init
    <3>2. StatesIn(bq) = {}
      BY DEF Init, StatesIn
    <3> QED
      BY <3>1, <3>2 DEF AnnouncedLast, EndsOnAnnounced
  <2> QED
    BY <2>1, <2>2, <2>3 DEF StateInv
<1>2. TypeOK /\ StateInv /\ [Next]_vars => StateInv'
  BY UnservedStep, OneSessionStep, AnnouncedStep DEF StateInv
<1> QED
  BY <1>1, <1>2, TypeCorrect, PTL DEF Spec

\* Once the session, the event loop and the channels are at rest, a client that was told
\* a state on this connection and has missed no message agrees with /readyz, after any
\* number of lost and new sessions and for any number of clients.
THEOREM StateTold == Spec => []StateTruthful
<1>1. TypeOK /\ StateInv => StateTruthful
  <2> SUFFICES ASSUME TypeOK, StateInv, NEW c \in Clients, SessionQuiet, bq = <<>>,
                      conn[c], out[c] = <<>>, heard[c], ~missed[c]
               PROVE  told[c] = "connected" <=> up
    BY DEF StateInv, StateTruthful, HandleReadyz
  <2>1. told[c] = Announced
    <3>1. StatesIn(bq) = {} /\ StatesIn(out[c]) = {}
      BY DEF StatesIn
    <3> QED
      BY <3>1 DEF StateInv, AnnouncedLast
  <2>2. CASE loop = "fetch" /\ events = 0
    <3>1. ~up
      BY <2>2 DEF StateInv, OneSession, TypeOK, Sessions
    <3> QED
      BY <2>1, <2>2, <3>1 DEF Announced
  <2>3. CASE loop = "range" /\ chanOpen[loopChan]
    <3>1. up
      BY <2>3 DEF StateInv, OneSession, SessionQuiet, TypeOK
    <3> QED
      BY <2>1, <2>3, <3>1 DEF Announced
  <2> QED
    BY <2>2, <2>3 DEF SessionQuiet
<1> QED
  BY <1>1, TypeCorrect, StateInvariant, PTL

--------------------------------------------------------------------------------
(* The newest view.  First what happens to the views P that are pushed, the answers A *)
(* and the best view b that a client has received, as facts about sets of views.      *)

\* Recent, of the version n, the open window o and the notified activity l.
RecentView(v, n, o, l) == v.ver <= n /\ (v.ver = n => ~o /\ v.base = l)

\* What NewestOnTheWay says of one client.
Newest(P, A, b, l) ==
  /\ \A v \in P : v.base = l \/ \E w \in {b} \cup P \cup A : w.ver > v.ver
  /\ \A v \in A : \/ v.base = l \/ \E w \in {b} \cup P \cup A : w.ver > v.ver
                  \/ \E w \in {b} \cup P : w.ver = v.ver
  /\ \/ b.base = l \/ \E w \in {b} \cup P \cup A : w.ver > b.ver
     \/ \E w \in P : w.ver = b.ver

\* A notification outdates every view before it.
LEMMA NewestNotified ==
  ASSUME NEW P \in SUBSET Views3, NEW A \in SUBSET Views3, NEW b \in Views3,
         NEW p \in Views3, \A v \in P : v.ver < p.ver, \A v \in A : v.ver <= p.ver,
         b.ver <= p.ver
  PROVE  Newest(P \cup {p}, A, b, p.base)
<1>1. \A v \in {b, p} \cup P \cup A : v.ver \in Nat
  BY DEF Views3
<1>2. \A v \in P : \E w \in {b} \cup (P \cup {p}) \cup A : w.ver > v.ver
  BY <1>1
<1>3. \A v \in A \cup {b} : \/ \E w \in {b} \cup (P \cup {p}) \cup A : w.ver > v.ver
                            \/ \E w \in P \cup {p} : w.ver = v.ver
  <2> SUFFICES ASSUME NEW v \in A \cup {b}, v.ver # p.ver
               PROVE  p.ver > v.ver
    OBVIOUS
  <2> QED
    BY <1>1
<1> QED
  BY <1>2, <1>3 DEF Newest

\* The first answer outdates every view before it, or agrees with it.
LEMMA NewestFirstAnswer ==
  ASSUME NEW P \in SUBSET Views3, NEW b \in Views3, NEW a \in Views3, NEW o,
         \A v \in P : RecentView(v, a.ver, o, a.base), RecentView(b, a.ver, o, a.base)
  PROVE  Newest(P, {a}, b, a.base)
<1>1. \A v \in {a, b} \cup P : v.ver \in Nat
  BY DEF Views3
<1>2. \A v \in P \cup {b} : v.base = a.base \/ a.ver > v.ver
  BY <1>1 DEF RecentView
<1> QED
  BY <1>2 DEF Newest

\* A further answer tells what was notified last.
LEMMA NewestAnswer ==
  ASSUME NEW P, NEW A, NEW b, NEW a, NEW l, Newest(P, A, b, l), a.base = l
  PROVE  Newest(P, A \cup {a}, b, l)
  BY DEF Newest

\* The client reads an answer: it replaces what it has if it is newer.
LEMMA NewestTakeAnswer ==
  ASSUME NEW P \in SUBSET Views3, NEW A \in SUBSET Views3, NEW B, NEW b \in Views3, NEW m, NEW l,
         A = B \cup {m}, Newest(P, A, b, l)
  PROVE  Newest(P, B, IF m.ver > b.ver THEN m ELSE b, l)
<1>1. \A v \in {b, m} \cup P \cup B : v.ver \in Nat
  BY DEF Views3
<1>2. CASE m.ver > b.ver
  <2>1. ASSUME NEW v \in {b, m} \cup P \cup B, \E w \in {b} \cup P \cup A : w.ver > v.ver
        PROVE  \E w \in {m} \cup P \cup B : w.ver > v.ver
    BY <1>1, <1>2, <2>1
  <2>2. \A v \in P : v.base = l \/ \E w \in {m} \cup P \cup B : w.ver > v.ver
    BY <2>1 DEF Newest
  <2>3. \A v \in B : \/ v.base = l \/ \E w \in {m} \cup P \cup B : w.ver > v.ver
                     \/ \E w \in {m} \cup P : w.ver = v.ver
    BY <1>1, <1>2, <2>1 DEF Newest
  <2>4. \/ m.base = l \/ \E w \in {m} \cup P \cup B : w.ver > m.ver
        \/ \E w \in P : w.ver = m.ver
    BY <1>1, <1>2, <2>1 DEF Newest
  <2> QED
    BY <1>2, <2>2, <2>3, <2>4 DEF Newest
<1>3. CASE ~(m.ver > b.ver)
  <2>1. ASSUME NEW v \in {b, m} \cup P \cup B, \E w \in {b} \cup P \cup A : w.ver > v.ver
        PROVE  \E w \in {b} \cup P \cup B : w.ver > v.ver
    BY <1>1, <1>3, <2>1
  <2>2. \A v \in P : v.base = l \/ \E w \in {b} \cup P \cup B : w.ver > v.ver
    BY <2>1 DEF Newest
  <2>3. \A v \in B : \/ v.base = l \/ \E w \in {b} \cup P \cup B : w.ver > v.ver
                     \/ \E w \in {b} \cup P : w.ver = v.ver
    BY <2>1 DEF Newest
  <2>4. \/ b.base = l \/ \E w \in {b} \cup P \cup B : w.ver > b.ver
        \/ \E w \in P : w.ver = b.ver
    BY <2>1 DEF Newest
  <2> QED
    BY <1>3, <2>2, <2>3, <2>4 DEF Newest
<1> QED
  BY <1>2, <1>3

\* The client reads a pushed view: it replaces what it has unless that is newer.
LEMMA NewestTakePushed ==
  ASSUME NEW P \in SUBSET Views3, NEW A \in SUBSET Views3, NEW Q, NEW b \in Views3, NEW m, NEW l,
         P = Q \cup {m}, Newest(P, A, b, l)
  PROVE  Newest(Q, A, IF m.ver >= b.ver THEN m ELSE b, l)
<1>1. \A v \in {b, m} \cup Q \cup A : v.ver \in Nat
  BY DEF Views3
<1>2. CASE m.ver >= b.ver
  <2>1. ASSUME NEW v \in {b, m} \cup Q \cup A, \E w \in {b} \cup P \cup A : w.ver > v.ver
        PROVE  \E w \in {m} \cup Q \cup A : w.ver > v.ver
    BY <1>1, <1>2, <2>1
  <2>2. \A v \in Q : v.base = l \/ \E w \in {m} \cup Q \cup A : w.ver > v.ver
    BY <2>1 DEF Newest
  <2>3. \A v \in A : \/ v.base = l \/ \E w \in {m} \cup Q \cup A : w.ver > v.ver
                     \/ \E w \in {m} \cup Q : w.ver = v.ver
    BY <1>1, <1>2, <2>1 DEF Newest
  <2>4. \/ m.base = l \/ \E w \in {m} \cup Q \cup A : w.ver > m.ver
    BY <1>1, <1>2, <2>1 DEF Newest
  <2> QED
    BY <1>2, <2>2, <2>3, <2>4 DEF Newest
<1>3. CASE ~(m.ver >= b.ver)
  <2>1. ASSUME NEW v \in {b, m} \cup Q \cup A, \E w \in {b} \cup P \cup A : w.ver > v.ver
        PROVE  \E w \in {b} \cup Q \cup A : w.ver > v.ver
    BY <1>1, <1>3, <2>1
  <2>2. \A v \in Q : v.base = l \/ \E w \in {b} \cup Q \cup A : w.ver > v.ver
    BY <2>1 DEF Newest
  <2>3. \A v \in A : \/ v.base = l \/ \E w \in {b} \cup Q \cup A : w.ver > v.ver
                     \/ \E w \in {b} \cup Q : w.ver = v.ver
    BY <1>1, <1>3, <2>1 DEF Newest
  <2>4. \/ b.base = l \/ \E w \in {b} \cup Q \cup A : w.ver > b.ver
        \/ \E w \in Q : w.ver = b.ver
    BY <1>1, <1>3, <2>1 DEF Newest
  <2> QED
    BY <1>3, <2>2, <2>3, <2>4 DEF Newest
<1> QED
  BY <1>2, <1>3

\* Appending a message adds at most its view to a channel.
LEMMA AppendViews ==
  ASSUME NEW s \in Seq(OutMsgs), NEW m \in OutMsgs, NEW k
  PROVE  ViewsIn(Append(s, m), k) = ViewsIn(s, k) \cup (IF m.kind = k THEN {m.view} ELSE {})
<1> DEFINE t == Append(s, m)
<1>1. /\ Len(s) \in Nat /\ DOMAIN s = 1 .. Len(s) /\ DOMAIN t = 1 .. Len(s) + 1
      /\ \A i \in 1 .. Len(s) : t[i] = s[i]
      /\ t[Len(s) + 1] = m
  BY LenProperties, AppendProperties
<1> HIDE DEF t
<1>2. ASSUME NEW v \in ViewsIn(t, k)
      PROVE  v \in ViewsIn(s, k) \cup (IF m.kind = k THEN {m.view} ELSE {})
  <2>1. PICK i \in DOMAIN t : t[i].kind = k /\ v = t[i].view
    BY <1>2 DEF ViewsIn
  <2>2. CASE i \in 1 .. Len(s)
    BY <1>1, <2>1, <2>2 DEF ViewsIn
  <2>3. CASE i = Len(s) + 1
    BY <1>1, <2>1, <2>3
  <2> QED
    BY <1>1, <2>2, <2>3
<1>3. ViewsIn(s, k) \subseteq ViewsIn(t, k)
  BY <1>1 DEF ViewsIn
<1>4. m.kind = k => m.view \in ViewsIn(t, k)
  <2>1. Len(s) + 1 \in DOMAIN t
    BY <1>1
  <2> QED
    BY <1>1, <2>1 DEF ViewsIn
<1> QED
  BY <1>2, <1>3, <1>4 DEF t

\* Taking a message takes at most its view out of a channel.
LEMMA TailViews ==
  ASSUME NEW s \in Seq(OutMsgs), s # <<>>, NEW k
  PROVE  ViewsIn(s, k) =
           ViewsIn(Tail(s), k) \cup (IF Head(s).kind = k THEN {Head(s).view} ELSE {})
<1> DEFINE t == Tail(s)
<1>1. /\ Len(s) \in Nat \ {0} /\ DOMAIN s = 1 .. Len(s) /\ DOMAIN t = 1 .. Len(s) - 1
      /\ \A i \in 1 .. Len(s) - 1 : t[i] = s[i + 1]
      /\ Head(s) = s[1]
  BY EmptySeq, LenProperties, HeadTailProperties
<1> HIDE DEF t
<1>2. ASSUME NEW v \in ViewsIn(s, k)
      PROVE  v \in ViewsIn(t, k) \cup (IF Head(s).kind = k THEN {Head(s).view} ELSE {})
  <2>1. PICK i \in DOMAIN s : s[i].kind = k /\ v = s[i].view
    BY <1>2 DEF ViewsIn
  <2>2. CASE i # 1
    <3>1. i - 1 \in DOMAIN t /\ t[i - 1] = s[i]
      BY <1>1, <2>2
    <3> QED
      BY <2>1, <3>1 DEF ViewsIn
  <2>3. CASE i = 1
    BY <1>1, <2>1, <2>3
  <2> QED
    BY <2>2, <2>3
<1>3. ASSUME NEW v \in ViewsIn(t, k) PROVE v \in ViewsIn(s, k)
  <2>1. PICK i \in DOMAIN t : t[i].kind = k /\ v = t[i].view
    BY <1>3 DEF ViewsIn
  <2>2. i + 1 \in DOMAIN s /\ s[i + 1] = t[i]
    BY <1>1
  <2> QED
    BY <2>1, <2>2 DEF ViewsIn
<1>4. Head(s).kind = k => Head(s).view \in ViewsIn(s, k)
  <2>1. 1 \in DOMAIN s
    BY <1>1
  <2> QED
    BY <1>1, <2>1 DEF ViewsIn
<1> QED
  BY <1>2, <1>3, <1>4 DEF t

\* A channel without messages carries no view.
LEMMA NoViews == \A k : ViewsIn(<<>>, k) = {}
  BY DEF ViewsIn

\* The views on their way to a client are views.
LEMMA ViewsTyped ==
  ASSUME TypeOK, NEW c \in Clients
  PROVE  /\ Pushed(c) \subseteq Views3 /\ Answers(c) \subseteq Views3 /\ best[c] \in Views3
         /\ \A v \in Views3 : v.ver \in Nat
<1>1. ASSUME NEW s \in Seq(OutMsgs), NEW k \in {"presence", "current"}
      PROVE  ViewsIn(s, k) \subseteq Views3
  <2>1. \A i \in DOMAIN s : s[i] \in OutMsgs
    BY LenProperties, ElementOfSeq
  <2> QED
    BY <2>1 DEF ViewsIn, OutMsgs, PresenceMsgs, CurrentMsgs, StateMsgs
<1>2. bq \in Seq(OutMsgs) /\ out[c] \in Seq(OutMsgs)
  BY SeqMonotonic, PresenceMsgs \cup StateMsgs \subseteq OutMsgs DEF TypeOK, OutMsgs
<1>3. \A cb \in callbacks : cb.view \in Views3
  BY DEF TypeOK
<1>4. reply[c] # NoReply => reply[c].view \in Views3
  BY DEF TypeOK, CurrentMsgs
<1>5. Pushed(c) \subseteq Views3 /\ Answers(c) \subseteq Views3
  BY <1>1, <1>2, <1>3, <1>4 DEF Pushed, Answers
<1> QED
  BY <1>5 DEF TypeOK, Views3

\* An answer is something.
LEMMA AnswerIsReply == \A m \in CurrentMsgs : m # NoReply
  BY DEF CurrentMsgs, NoReply

\* What ViewsRecent and NewestOnTheWay say of one client.
ClientRecent(c) ==
  /\ best[c].ver <= ver /\ \A v \in Answers(c) : v.ver <= ver
  /\ \A v \in Pushed(c) : Recent(v)
  /\ \A v \in {best[c]} \cup Pushed(c) \cup Answers(c) : Exact(v)
  /\ conn[c] /\ ~answered[c] => Recent(best[c])
ClientNewest(c) ==
  conn[c] /\ ~missed[c] /\ Asked(c) => Newest(Pushed(c), Answers(c), best[c], lastNotified)
\* What ViewsRecent says of the feed.
FeedRecent ==
  /\ ~open => cached = lastNotified
  /\ ver = 0 => ~open /\ lastNotified = Empty
  /\ hasSource <=> ver # 0

\* The two invariants are these three.
LEMMA ViewParts ==
  ViewsRecent /\ NewestOnTheWay
    <=> FeedRecent /\ \A c \in Clients : ClientRecent(c) /\ ClientNewest(c)
  BY DEF ViewsRecent, NewestOnTheWay, FeedRecent, ClientRecent, ClientNewest, Newest, Outdated

\* The views on their way to a client, after a step.
LEMMA ViewsPrimed ==
  ASSUME NEW d \in Clients
  PROVE  /\ Pushed(d)' = {cb.view : cb \in callbacks'} \cup ViewsIn(bq', "presence")
                           \cup ViewsIn(out'[d], "presence")
         /\ Answers(d)' = ViewsIn(out'[d], "current")
                            \cup (IF reply'[d] = NoReply THEN {} ELSE {reply'[d].view})
         /\ Asked(d)' <=> answered'[d] \/ Answers(d)' # {}
  BY DEF Pushed, Answers, ViewsIn, Asked, NoReply

\* A step that leaves the views, the client and the feed alone keeps both parts.
LEMMA ViewStays ==
  ASSUME NEW d \in Clients, ClientRecent(d), ClientNewest(d),
         Pushed(d)' = Pushed(d), Answers(d)' = Answers(d), best'[d] = best[d],
         conn'[d] = conn[d], answered'[d] = answered[d], missed[d] => missed'[d],
         UNCHANGED <<ver, open, lastNotified, cached, hasSource>>
  PROVE  ClientRecent(d)' /\ ClientNewest(d)'
<1>1. ClientRecent(d)'
  BY DEF ClientRecent, Recent, Exact, GetCurrentPresence, F!Snapshot
<1>2. Asked(d)' <=> Asked(d)
  BY DEF Asked
<1>3. ClientNewest(d)'
  BY <1>2 DEF ClientNewest, Newest
<1> QED
  BY <1>1, <1>3

\* A step that drops views and leaves the feed alone keeps the first part, and the
\* second holds of a client that is gone or misses a message.
LEMMA ViewsDropped ==
  ASSUME NEW d \in Clients, ClientRecent(d),
         Pushed(d)' \subseteq Pushed(d), Answers(d)' \subseteq Answers(d), best'[d] = best[d],
         conn'[d] => conn[d], answered'[d] = answered[d], ~conn'[d] \/ missed'[d],
         UNCHANGED <<ver, open, lastNotified, cached, hasSource>>
  PROVE  ClientRecent(d)' /\ ClientNewest(d)'
<1>1. ClientRecent(d)'
  BY DEF ClientRecent, Recent, Exact, GetCurrentPresence, F!Snapshot
<1>2. ClientNewest(d)'
  BY DEF ClientNewest
<1> QED
  BY <1>1, <1>2

\* An announcement of the event loop carries no view.
LEMMA ViewAnnounced ==
  ASSUME TypeOK, NEW d \in Clients, ClientRecent(d), ClientNewest(d),
         NEW m \in StateMsgs, Broadcast(m),
         UNCHANGED <<feedVars, callbacks, serverVars, out, screenVars>>
  PROVE  ClientRecent(d)' /\ ClientNewest(d)'
<1> USE DEF feedVars, serverVars, screenVars
<1>1. CASE Len(bq) < BroadcastCap
  <2>1. bq' = Append(bq, m) /\ UNCHANGED missed
    BY <1>1 DEF Broadcast
  <2>2. bq \in Seq(OutMsgs) /\ m \in OutMsgs /\ m.kind # "presence"
    BY SeqMonotonic, PresenceMsgs \cup StateMsgs \subseteq OutMsgs DEF TypeOK, OutMsgs, StateMsgs
  <2>3. ViewsIn(bq', "presence") = ViewsIn(bq, "presence")
    <3>1. ViewsIn(Append(bq, m), "presence")
            = ViewsIn(bq, "presence") \cup (IF m.kind = "presence" THEN {m.view} ELSE {})
      BY <2>2, AppendViews
    <3> QED
      BY <2>1, <2>2, <3>1
  <2>4. Pushed(d)' = Pushed(d) /\ Answers(d)' = Answers(d)
    BY <2>3, ViewsPrimed DEF Pushed, Answers
  <2> QED
    BY <2>1, <2>4, ViewStays
<1>2. CASE ~(Len(bq) < BroadcastCap)
  <2>1. bq' = bq /\ missed'[d]
    BY <1>2, Zenon DEF Broadcast
  <2>2. Pushed(d)' = Pushed(d) /\ Answers(d)' = Answers(d)
    BY <2>1, ViewsPrimed DEF Pushed, Answers
  <2> QED
    BY <2>1, <2>2, ViewsDropped
<1> QED
  BY <1>1, <1>2

\* An update makes every view outdated that is not: it opens a window.
LEMMA ViewUpdated ==
  ASSUME TypeOK, NEW d \in Clients, ClientRecent(d), ClientNewest(d), LoopActivity
  PROVE  ClientRecent(d)' /\ ClientNewest(d)'
<1>1. /\ ver' = ver + 1 /\ lastNotified' = lastNotified
      /\ UNCHANGED <<callbacks, bq, serverVars, out, screenVars, missed>>
  BY DEF LoopActivity, F!Update
<1> USE DEF serverVars, screenVars
<1>2. Pushed(d)' = Pushed(d) /\ Answers(d)' = Answers(d)
  BY <1>1, ViewsPrimed DEF Pushed, Answers
<1>3. /\ ver \in Nat /\ best[d].ver \in Nat
      /\ \A v \in Pushed(d) \cup Answers(d) : v.ver \in Nat
  BY ViewsTyped DEF TypeOK
<1>4. ClientRecent(d)'
  BY <1>1, <1>2, <1>3 DEF ClientRecent, Recent, Exact
<1>5. ClientNewest(d)'
  BY <1>1, <1>2 DEF ClientNewest, Newest, Asked
<1> QED
  BY <1>4, <1>5

\* The end of a window makes a view that outdates every other, or has nothing to say.
LEMMA ViewNotified ==
  ASSUME TypeOK, FeedRecent, NEW d \in Clients, ClientRecent(d), ClientNewest(d), WindowEnds
  PROVE  ClientRecent(d)' /\ ClientNewest(d)'
<1> DEFINE p == [val |-> cached, ver |-> ver, base |-> cached]
<1>1. /\ open /\ ~open' /\ lastNotified' = cached
      /\ UNCHANGED <<ver, bq, serverVars, out, screenVars, missed, cached, hasSource>>
  BY Zenon DEF WindowEnds, F!WindowEnds
<1> USE DEF serverVars, screenVars
<1>2. p \in Views3 /\ p.ver = ver /\ p.base = cached /\ p.val = GetCurrentPresence
  BY <1>1 DEF FeedRecent, GetCurrentPresence, F!Snapshot, Views3, Views, TypeOK, F!TypeOK
<1>3. /\ ver \in Nat /\ best[d] \in Views3 /\ best[d].ver \in Nat
      /\ Pushed(d) \subseteq Views3 /\ Answers(d) \subseteq Views3
      /\ \A v \in Pushed(d) \cup Answers(d) : v.ver \in Nat
  BY ViewsTyped DEF TypeOK
<1>4. /\ \A v \in Pushed(d) : v.ver < ver
      /\ \A v \in Answers(d) : v.ver <= ver
      /\ best[d].ver <= ver
      /\ conn[d] /\ ~answered[d] => best[d].ver < ver
  BY <1>1, <1>3 DEF ClientRecent, Recent
<1>5. CASE cached # lastNotified
  <2>1. sent' # sent
    BY <1>5 DEF WindowEnds, F!WindowEnds, F!New, TypeOK, F!TypeOK
  <2> DEFINE new == [seq |-> sent', view |-> p]
  <2>2. callbacks' = callbacks \cup {new} /\ new.view = p
    BY <2>1 DEF WindowEnds
  <2>3. {cb.view : cb \in callbacks'} = {cb.view : cb \in callbacks} \cup {p}
    <3> HIDE DEF new, p
    <3> QED
      BY <2>2
  <2> HIDE DEF p
  <2>4. Pushed(d)' = Pushed(d) \cup {p} /\ Answers(d)' = Answers(d)
    BY <1>1, <2>3, ViewsPrimed DEF Pushed, Answers
  <2>5. Newest(Pushed(d) \cup {p}, Answers(d), best[d], p.base)
    BY <1>2, <1>3, <1>4, NewestNotified
  <2>6. ClientNewest(d)'
    BY <1>1, <1>2, <2>4, <2>5 DEF ClientNewest, Newest
  <2>7. \A v \in Pushed(d)' : v.ver <= ver /\ (v.ver = ver => v.base = cached)
    BY <1>2, <1>3, <1>4, <2>4
  <2>8. \A v \in {best[d]} \cup Pushed(d)' \cup Answers(d) : Exact(v)
    BY <1>2, <2>4 DEF ClientRecent, Exact
  <2>9. GetCurrentPresence' = GetCurrentPresence
    BY <1>1 DEF GetCurrentPresence, F!Snapshot
  <2>10. ClientRecent(d)'
    BY <1>1, <1>3, <1>4, <2>4, <2>7, <2>8, <2>9 DEF ClientRecent, Recent, Exact
  <2> QED
    BY <2>6, <2>10
<1>6. CASE cached = lastNotified
  <2>1. callbacks' = callbacks /\ lastNotified' = lastNotified
    BY <1>1, <1>6 DEF WindowEnds, F!WindowEnds, F!New
  <2>2. Pushed(d)' = Pushed(d) /\ Answers(d)' = Answers(d)
    BY <1>1, <2>1, ViewsPrimed DEF Pushed, Answers
  <2>3. ClientNewest(d)'
    BY <1>1, <2>1, <2>2 DEF ClientNewest, Newest, Asked
  <2>4. ClientRecent(d)'
    BY <1>1, <1>3, <1>4, <2>1, <2>2
      DEF ClientRecent, Recent, Exact, GetCurrentPresence, F!Snapshot
  <2> QED
    BY <2>3, <2>4
<1> QED
  BY <1>5, <1>6

\* A callback moves its view into the hub's queue, or every client misses it.
LEMMA ViewCalledBack ==
  ASSUME TypeOK, NEW d \in Clients, ClientRecent(d), ClientNewest(d),
         NEW cb \in callbacks, Callback(cb)
  PROVE  ClientRecent(d)' /\ ClientNewest(d)'
<1> DEFINE m == [kind |-> "presence", view |-> cb.view]
<1>1. /\ Broadcast(m) /\ callbacks' = callbacks \ {cb}
      /\ UNCHANGED <<feedVars, serverVars, out, screenVars>>
  BY DEF Callback
<1> USE DEF feedVars, serverVars, screenVars
<1>2. bq \in Seq(OutMsgs) /\ m \in OutMsgs /\ m.kind = "presence" /\ m.view = cb.view
  BY SeqMonotonic, PresenceMsgs \cup StateMsgs \subseteq OutMsgs
    DEF TypeOK, OutMsgs, PresenceMsgs
<1> HIDE DEF m
<1>3. {b.view : b \in callbacks} = {b.view : b \in callbacks'} \cup {cb.view}
  BY <1>1
<1>4. CASE Len(bq) < BroadcastCap
  <2>1. bq' = Append(bq, m) /\ UNCHANGED missed
    BY <1>1, <1>4 DEF Broadcast
  <2>2. ViewsIn(bq', "presence") = ViewsIn(bq, "presence") \cup {cb.view}
    <3>1. ViewsIn(Append(bq, m), "presence") = ViewsIn(bq, "presence") \cup {m.view}
      BY <1>2, AppendViews
    <3> QED
      BY <1>2, <2>1, <3>1
  <2>3. Pushed(d)' = Pushed(d) /\ Answers(d)' = Answers(d)
    BY <1>1, <1>3, <2>2, ViewsPrimed DEF Pushed, Answers
  <2> QED
    BY <1>1, <2>1, <2>3, ViewStays
<1>5. CASE ~(Len(bq) < BroadcastCap)
  <2>1. bq' = bq /\ missed'[d]
    BY <1>1, <1>5, Zenon DEF Broadcast
  <2>2. Pushed(d)' \subseteq Pushed(d) /\ Answers(d)' = Answers(d)
    BY <1>1, <1>3, <2>1, ViewsPrimed DEF Pushed, Answers
  <2> QED
    BY <1>1, <2>1, <2>2, ViewsDropped
<1> QED
  BY <1>4, <1>5

\* The fan-out moves a view into the buffer of a subscribed client, or that client
\* misses it; another one has not been answered.
LEMMA ViewFannedOut ==
  ASSUME TypeOK, BeforeSubscription, NEW d \in Clients, ClientRecent(d), ClientNewest(d),
         FanOut
  PROVE  ClientRecent(d)' /\ ClientNewest(d)'
<1> DEFINE m == Head(bq)
<1>1. /\ bq # <<>> /\ bq' = Tail(bq)
      /\ UNCHANGED <<feedVars, callbacks, serverVars, screenVars>>
  BY DEF FanOut
<1> USE DEF feedVars, serverVars, screenVars
<1>2. /\ bq \in Seq(OutMsgs) /\ out[d] \in Seq(OutMsgs)
      /\ m \in PresenceMsgs \cup StateMsgs /\ m \in OutMsgs /\ m.kind # "current"
  <2>1. m \in PresenceMsgs \cup StateMsgs
    BY <1>1, HeadTailProperties DEF TypeOK
  <2> QED
    BY <2>1, SeqMonotonic, PresenceMsgs \cup StateMsgs \subseteq OutMsgs
      DEF TypeOK, OutMsgs, PresenceMsgs, StateMsgs
<1>3. ViewsIn(bq, "presence")
        = ViewsIn(bq', "presence") \cup (IF m.kind = "presence" THEN {m.view} ELSE {})
  BY <1>1, <1>2, TailViews
<1> HIDE DEF m
<1>4. CASE subscribed[d] /\ Len(out[d]) < SendCap
  <2>1. out'[d] = Append(out[d], m)
    BY <1>4 DEF FanOut, m
  <2>2. missed[d] => missed'[d]
    BY Zenon DEF FanOut
  <2>3. \A k : ViewsIn(out'[d], k)
                 = ViewsIn(out[d], k) \cup (IF m.kind = k THEN {m.view} ELSE {})
    <3>1. \A k : ViewsIn(Append(out[d], m), k)
                   = ViewsIn(out[d], k) \cup (IF m.kind = k THEN {m.view} ELSE {})
      BY <1>2, AppendViews
    <3> QED
      BY <2>1, <3>1
  <2>4. Pushed(d)' = Pushed(d) /\ Answers(d)' = Answers(d)
    <3>1. /\ ViewsIn(out'[d], "presence") = ViewsIn(out[d], "presence")
                 \cup (IF m.kind = "presence" THEN {m.view} ELSE {})
          /\ ViewsIn(out'[d], "current") = ViewsIn(out[d], "current")
      BY <1>2, <2>3
    <3> QED
      BY <1>1, <1>3, <3>1, ViewsPrimed DEF Pushed, Answers
  <2> QED
    BY <1>1, <2>2, <2>4, ViewStays
<1>5. CASE ~(subscribed[d] /\ Len(out[d]) < SendCap)
  <2>1. out'[d] = out[d]
    BY <1>5 DEF FanOut
  <2>2. Pushed(d)' \subseteq Pushed(d) /\ Answers(d)' = Answers(d)
    BY <1>1, <1>3, <2>1, ViewsPrimed DEF Pushed, Answers
  <2>3. CASE subscribed[d]
    <3>1. Len(out[d]) = SendCap
      BY <1>2, <1>5, <2>3, ProxyAssumption, LenProperties DEF TypeOK
    <3>2. missed'[d]
      BY <2>3, <3>1, Zenon DEF FanOut
    <3> QED
      BY <1>1, <2>2, <3>2, ViewsDropped
  <2>4. CASE ~subscribed[d]
    <3>1. conn[d] => ~Asked(d)
      BY <2>4, NoViews DEF BeforeSubscription, Asked, Answers
    <3>2. conn'[d] => ~Asked(d)'
      BY <1>1, <2>2, <3>1 DEF Asked
    <3>3. ClientNewest(d)'
      BY <3>2 DEF ClientNewest
    <3>4. ClientRecent(d)'
      BY <1>1, <2>2 DEF ClientRecent, Recent, Exact, GetCurrentPresence, F!Snapshot
    <3> QED
      BY <3>3, <3>4
  <2> QED
    BY <2>3, <2>4
<1> QED
  BY <1>4, <1>5

\* A client connects to an empty buffer, and has received nothing.
LEMMA ViewConnected ==
  ASSUME TypeOK, BeforeSubscription, FeedRecent, NEW d \in Clients, ClientRecent(d),
         Connect(d)
  PROVE  ClientRecent(d)' /\ ClientNewest(d)'
<1>1. /\ ~conn[d] /\ best'[d] = NoView
      /\ UNCHANGED <<feedVars, callbacks, bq, reply, out>>
  BY DEF Connect, TypeOK
<1>2. ~answered'[d]
  BY Zenon DEF Connect, TypeOK
<1> USE DEF feedVars
<1>3. out[d] = <<>> /\ reply[d] = NoReply
  BY <1>1 DEF BeforeSubscription
<1>4. Pushed(d)' = Pushed(d) /\ Answers(d)' = {}
  BY <1>1, <1>3, ViewsPrimed, NoViews DEF Pushed
<1>5. ClientNewest(d)'
  BY <1>2, <1>4 DEF ClientNewest, Asked
<1>6. Recent(NoView) /\ Exact(NoView)
  BY DEF FeedRecent, Recent, Exact, GetCurrentPresence, F!Snapshot, NoView, TypeOK
<1>7. ClientRecent(d)'
  BY <1>1, <1>4, <1>6 DEF ClientRecent, Recent, Exact, GetCurrentPresence, F!Snapshot
<1> QED
  BY <1>5, <1>7

\* An answer tells what was notified last.
LEMMA ViewAnswered ==
  ASSUME TypeOK, BeforeSubscription, NEW d \in Clients, ClientRecent(d), ClientNewest(d),
         ReadGetCurrent(d)
  PROVE  ClientRecent(d)' /\ ClientNewest(d)'
<1> DEFINE a == [val |-> GetCurrentPresence, ver |-> ver, base |-> lastNotified]
<1> DEFINE m == [kind |-> "current", view |-> a]
<1>1. /\ requests[d] # <<>> /\ reply[d] = NoReply /\ reply'[d] = m
      /\ Head(requests[d]) = "get_current"
      /\ UNCHANGED <<feedVars, callbacks, bq, conn, out, screenVars, missed>>
  BY DEF ReadGetCurrent, Reads, TypeOK
<1>2. /\ a \in Views3 /\ a.ver = ver /\ a.base = lastNotified /\ a.val = GetCurrentPresence
      /\ m.view = a /\ m # NoReply
  <2>1. a \in Views3
    BY DEF GetCurrentPresence, F!Snapshot, Views3, Views, TypeOK, F!TypeOK
  <2>2. m \in CurrentMsgs
    BY <2>1 DEF CurrentMsgs
  <2> QED
    BY <2>1, <2>2, AnswerIsReply
<1> HIDE DEF m, a
<1> USE DEF feedVars, screenVars
<1>3. Pushed(d)' = Pushed(d) /\ Answers(d)' = Answers(d) \cup {a}
  BY <1>1, <1>2, ViewsPrimed DEF Pushed, Answers
<1>4. /\ ver \in Nat /\ best[d] \in Views3 /\ best[d].ver \in Nat
      /\ Pushed(d) \subseteq Views3 /\ Answers(d) \subseteq Views3
  BY ViewsTyped DEF TypeOK
<1>5. ClientRecent(d)'
  BY <1>1, <1>2, <1>3, <1>4 DEF ClientRecent, Recent, Exact, GetCurrentPresence, F!Snapshot
<1>6. ASSUME conn[d], ~missed[d] PROVE Newest(Pushed(d), Answers(d) \cup {a}, best[d], lastNotified)
  <2>1. CASE Asked(d)
    BY <1>2, <1>6, <2>1, NewestAnswer DEF ClientNewest
  <2>2. CASE ~Asked(d)
    <3>1. Answers(d) = {} /\ ~answered[d]
      BY <2>2 DEF Asked
    <3>2. /\ \A v \in Pushed(d) : RecentView(v, a.ver, open, a.base)
          /\ RecentView(best[d], a.ver, open, a.base)
      BY <1>2, <1>6, <3>1 DEF ClientRecent, Recent, RecentView
    <3>3. Newest(Pushed(d), {a}, best[d], a.base)
      BY <1>2, <1>4, <3>2, NewestFirstAnswer
    <3>4. Answers(d) \cup {a} = {a}
      BY <3>1
    <3> QED
      BY <1>2, <3>3, <3>4
  <2> QED
    BY <2>1, <2>2
<1>7. ClientNewest(d)'
  BY <1>1, <1>3, <1>6 DEF ClientNewest, Newest
<1> QED
  BY <1>5, <1>7

\* The answer is queued, or the client misses it.
LEMMA ViewReplied ==
  ASSUME TypeOK, NEW d \in Clients, ClientRecent(d), ClientNewest(d), SendReply(d)
  PROVE  ClientRecent(d)' /\ ClientNewest(d)'
<1> DEFINE m == reply[d]
<1>1. /\ m # NoReply /\ reply'[d] = NoReply
      /\ UNCHANGED <<feedVars, callbacks, bq, conn, screenVars>>
  BY DEF SendReply, TypeOK
<1>2. out[d] \in Seq(OutMsgs) /\ m \in OutMsgs /\ m.kind = "current"
  BY <1>1 DEF TypeOK, OutMsgs, CurrentMsgs
<1> USE DEF feedVars, screenVars
<1>3. CASE Len(out[d]) < SendCap
  <2>1. out'[d] = Append(out[d], m) /\ UNCHANGED missed
    BY <1>3 DEF SendReply, TypeOK
  <2> HIDE DEF m
  <2>2. \A k : ViewsIn(out'[d], k)
                 = ViewsIn(out[d], k) \cup (IF m.kind = k THEN {m.view} ELSE {})
    <3>1. \A k : ViewsIn(Append(out[d], m), k)
                   = ViewsIn(out[d], k) \cup (IF m.kind = k THEN {m.view} ELSE {})
      BY <1>2, AppendViews
    <3> QED
      BY <2>1, <3>1
  <2>3. /\ ViewsIn(out'[d], "presence") = ViewsIn(out[d], "presence")
        /\ ViewsIn(out'[d], "current") = ViewsIn(out[d], "current") \cup {m.view}
    BY <1>2, <2>2
  <2>4. Pushed(d)' = Pushed(d) /\ Answers(d)' = Answers(d)
    BY <1>1, <2>3, ViewsPrimed DEF Pushed, Answers, m
  <2> QED
    BY <1>1, <2>1, <2>4, ViewStays
<1>4. CASE ~(Len(out[d]) < SendCap)
  <2>1. out'[d] = out[d]
    BY <1>4 DEF SendReply
  <2>2. missed'[d]
    BY <1>4, Zenon DEF SendReply, TypeOK
  <2>3. Pushed(d)' = Pushed(d) /\ Answers(d)' \subseteq Answers(d)
    BY <1>1, <2>1, ViewsPrimed DEF Pushed, Answers
  <2> QED
    BY <1>1, <2>2, <2>3, ViewsDropped
<1> QED
  BY <1>3, <1>4

\* A view that arrives replaces what the client has, unless that is newer.
LEMMA ViewReceived ==
  ASSUME TypeOK, NEW d \in Clients, ClientRecent(d), ClientNewest(d), Receive(d)
  PROVE  ClientRecent(d)' /\ ClientNewest(d)'
<1> DEFINE m == Head(out[d])
<1>1. /\ out[d] # <<>> /\ out'[d] = Tail(out[d])
      /\ UNCHANGED <<feedVars, callbacks, bq, serverVars, missed>>
  BY DEF Receive, TypeOK
<1> USE DEF feedVars, serverVars
<1>2. out[d] \in Seq(OutMsgs) /\ m \in OutMsgs
  BY <1>1, HeadTailProperties DEF TypeOK, OutMsgs
<1>3. /\ ver \in Nat /\ best[d] \in Views3 /\ best[d].ver \in Nat
      /\ Pushed(d) \subseteq Views3 /\ Answers(d) \subseteq Views3
      /\ \A v \in Views3 : v.ver \in Nat
  BY ViewsTyped DEF TypeOK
<1>4. \A k : ViewsIn(out[d], k)
               = ViewsIn(out'[d], k) \cup (IF m.kind = k THEN {m.view} ELSE {})
  <2>1. \A k : ViewsIn(out[d], k)
                 = ViewsIn(Tail(out[d]), k) \cup (IF m.kind = k THEN {m.view} ELSE {})
    BY <1>1, <1>2, TailViews
  <2> QED
    BY <1>1, <2>1
<1>5. CASE m.kind = "state"
  <2>1. best'[d] = best[d] /\ answered'[d] = answered[d]
    BY <1>5 DEF Receive
  <2>2. /\ ViewsIn(out'[d], "presence") = ViewsIn(out[d], "presence")
        /\ ViewsIn(out'[d], "current") = ViewsIn(out[d], "current")
    BY <1>4, <1>5
  <2>3. Pushed(d)' = Pushed(d) /\ Answers(d)' = Answers(d)
    BY <1>1, <2>2, ViewsPrimed DEF Pushed, Answers
  <2> QED
    BY <1>1, <2>1, <2>3, ViewStays
<1>6. CASE m.kind = "presence"
  <2>1. best'[d] = IF Newer(m, best[d]) THEN m.view ELSE best[d]
    BY <1>6 DEF Receive, TypeOK
  <2>2. answered'[d] <=> answered[d]
    <3>1. answered' = [answered EXCEPT ![d] = @ \/ m.kind = "current"]
      BY <1>6 DEF Receive
    <3>2. m.kind # "current"
      BY <1>6
    <3> QED
      BY <3>1, <3>2, Zenon DEF TypeOK
  <2> HIDE DEF m
  <2>3. /\ ViewsIn(out[d], "presence") = ViewsIn(out'[d], "presence") \cup {m.view}
        /\ ViewsIn(out'[d], "current") = ViewsIn(out[d], "current")
    BY <1>4, <1>6
  <2>4. Pushed(d) = Pushed(d)' \cup {m.view} /\ Answers(d)' = Answers(d)
    BY <1>1, <2>3, ViewsPrimed DEF Pushed, Answers
  <2>5. best'[d] = IF m.view.ver >= best[d].ver THEN m.view ELSE best[d]
    BY <1>3, <1>6, <2>1, <2>4 DEF Newer
  <2>6. ClientRecent(d)'
    BY <1>1, <1>3, <2>2, <2>4, <2>5
      DEF ClientRecent, Recent, Exact, GetCurrentPresence, F!Snapshot
  <2>7. Newest(Pushed(d), Answers(d), best[d], lastNotified)
          => Newest(Pushed(d)', Answers(d), best'[d], lastNotified)
    BY <1>3, <2>4, <2>5, NewestTakePushed
  <2>8. ClientNewest(d)'
    BY <1>1, <2>2, <2>4, <2>7 DEF ClientNewest, Newest, Asked
  <2> QED
    BY <2>6, <2>8
<1>7. CASE m.kind = "current"
  <2>1. best'[d] = IF Newer(m, best[d]) THEN m.view ELSE best[d]
    BY <1>7 DEF Receive, TypeOK
  <2>2. answered'[d]
    <3>1. answered' = [answered EXCEPT ![d] = @ \/ m.kind = "current"]
      BY <1>7 DEF Receive
    <3> QED
      BY <1>7, <3>1, Zenon DEF TypeOK
  <2> HIDE DEF m
  <2>3. /\ ViewsIn(out'[d], "presence") = ViewsIn(out[d], "presence")
        /\ ViewsIn(out[d], "current") = ViewsIn(out'[d], "current") \cup {m.view}
    BY <1>4, <1>7
  <2>4. Pushed(d)' = Pushed(d) /\ Answers(d) = Answers(d)' \cup {m.view}
    BY <1>1, <2>3, ViewsPrimed DEF Pushed, Answers
  <2>5. best'[d] = IF m.view.ver > best[d].ver THEN m.view ELSE best[d]
    BY <1>7, <2>1 DEF Newer
  <2>6. ClientRecent(d)'
    BY <1>1, <1>3, <2>2, <2>4, <2>5
      DEF ClientRecent, Recent, Exact, GetCurrentPresence, F!Snapshot
  <2>7. Newest(Pushed(d), Answers(d), best[d], lastNotified)
          => Newest(Pushed(d), Answers(d)', best'[d], lastNotified)
    BY <1>3, <2>4, <2>5, NewestTakeAnswer
  <2>8. Asked(d)
    BY <2>4 DEF Asked
  <2>9. ClientNewest(d)'
    BY <1>1, <2>4, <2>7, <2>8 DEF ClientNewest, Newest
  <2> QED
    BY <2>6, <2>9
<1> QED
  BY <1>2, <1>5, <1>6, <1>7 DEF OutMsgs, PresenceMsgs, CurrentMsgs, StateMsgs

\* Every step keeps the views of every client recent, and the newest on its way.
LEMMA ViewsStep ==
  ASSUME TypeOK, BeforeSubscription, ViewsRecent /\ NewestOnTheWay, [Next]_vars
  PROVE  (ViewsRecent /\ NewestOnTheWay)'
<1> USE DEF ipcVars, loopVars, feedVars, serverVars, screenVars
<1>1. FeedRecent /\ \A d \in Clients : ClientRecent(d) /\ ClientNewest(d)
  BY ViewParts
<1>2. FeedRecent'
  <2>1. CASE UNCHANGED feedVars
    BY <1>1, <2>1 DEF FeedRecent
  <2>2. CASE LoopActivity
    <3>1. open' /\ hasSource' /\ ver' = ver + 1
      BY <2>2, Zenon DEF LoopActivity, F!Update
    <3> QED
      BY <3>1 DEF FeedRecent, TypeOK
  <2>3. CASE WindowEnds
    <3>1. open /\ lastNotified' = cached /\ UNCHANGED <<cached, hasSource, ver>>
      BY <2>3 DEF WindowEnds, F!WindowEnds
    <3> QED
      BY <1>1, <3>1 DEF FeedRecent
  <2> QED
    BY <2>1, <2>2, <2>3 DEF Next, vars, Frame, SessionEnds, Supervisor, EmitTerminal, Retire,
         SessionUp, GiveUp, EventLoop, LoopFetch, LoopLost, Callback, FanOut, Connect,
         Disconnect, AskAgain, ReadPump, ReadSubscribe, ReadGetCurrent, SendReply, Receive
<1>3. ASSUME NEW d \in Clients PROVE ClientRecent(d)' /\ ClientNewest(d)'
  <2>1. ASSUME UNCHANGED <<feedVars, callbacks, bq, missed>>, conn'[d] = conn[d],
               reply'[d] = reply[d], out'[d] = out[d], best'[d] = best[d],
               answered'[d] = answered[d]
        PROVE  ClientRecent(d)' /\ ClientNewest(d)'
    <3>1. Pushed(d)' = Pushed(d) /\ Answers(d)' = Answers(d)
      BY <2>1, ViewsPrimed DEF Pushed, Answers
    <3> QED
      BY <1>1, <2>1, <3>1, ViewStays
  <2>2. CASE (\E e \in Activities \cup {"bad"} : Frame(e)) \/ SessionEnds \/ Supervisor
    BY <2>1, <2>2 DEF Frame, SessionEnds, Supervisor, EmitTerminal, Retire, SessionUp, GiveUp
  <2>3. CASE LoopFetch \/ LoopLost
    <3>1. \A s \in {"connected", "reconnecting"} : StateMessage(s) \in StateMsgs
      BY DEF StateMessage, StateMsgs
    <3> QED
      BY <1>1, <2>3, <3>1, ViewAnnounced DEF LoopFetch, LoopLost, AnnounceLoss
  <2>4. CASE LoopActivity
    BY <1>1, <2>4, ViewUpdated
  <2>5. CASE WindowEnds
    BY <1>1, <2>5, ViewNotified
  <2>6. CASE \E cb \in callbacks : Callback(cb)
    BY <1>1, <2>6, ViewCalledBack
  <2>7. CASE FanOut
    BY <1>1, <2>7, ViewFannedOut
  <2>8. ASSUME NEW c \in Clients,
               Connect(c) \/ Disconnect(c) \/ AskAgain(c) \/ ReadPump(c) \/ Receive(c)
        PROVE  ClientRecent(d)' /\ ClientNewest(d)'
    <3>1. CASE d # c
      <4>1. /\ UNCHANGED <<feedVars, callbacks, bq>> /\ missed'[d] = missed[d]
            /\ conn'[d] = conn[d] /\ reply'[d] = reply[d] /\ out'[d] = out[d]
            /\ best'[d] = best[d] /\ answered'[d] = answered[d]
        BY <2>8, <3>1 DEF Connect, Disconnect, AskAgain, ReadPump, ReadSubscribe,
             ReadGetCurrent, SendReply, Receive, TypeOK
      <4>2. Pushed(d)' = Pushed(d) /\ Answers(d)' = Answers(d)
        BY <4>1, ViewsPrimed DEF Pushed, Answers
      <4> QED
        BY <1>1, <4>1, <4>2, ViewStays
    <3>2. CASE d = c /\ Connect(d)
      BY <1>1, <3>2, ViewConnected
    <3>3. CASE d = c /\ Disconnect(d)
      <4>1. ~conn'[d]
        BY <3>3, Zenon DEF Disconnect, TypeOK
      <4>2. Pushed(d)' \subseteq Pushed(d) /\ Answers(d)' = {}
        <5>1. out'[d] = <<>> /\ reply'[d] = NoReply /\ UNCHANGED <<callbacks, bq>>
          BY <3>3 DEF Disconnect, TypeOK
        <5> QED
          BY <5>1, ViewsPrimed, NoViews DEF Pushed
      <4> QED
        BY <1>1, <3>3, <4>1, <4>2, ViewsDropped DEF Disconnect
    <3>4. CASE AskAgain(c) \/ ReadSubscribe(c)
      BY <2>1, <3>4 DEF AskAgain, ReadSubscribe
    <3>5. CASE d = c /\ ReadGetCurrent(d)
      BY <1>1, <3>5, ViewAnswered
    <3>6. CASE d = c /\ SendReply(d)
      BY <1>1, <3>6, ViewReplied
    <3>7. CASE d = c /\ Receive(d)
      BY <1>1, <3>7, ViewReceived
    <3> QED
      BY <2>8, <3>1, <3>2, <3>3, <3>4, <3>5, <3>6, <3>7 DEF ReadPump
  <2>9. CASE UNCHANGED vars
    BY <2>1, <2>9 DEF vars
  <2> QED
    BY <2>2, <2>3, <2>4, <2>5, <2>6, <2>7, <2>8, <2>9 DEF Next, EventLoop
<1>4. (FeedRecent /\ \A d \in Clients : ClientRecent(d) /\ ClientNewest(d))'
        => (ViewsRecent /\ NewestOnTheWay)'
  BY DEF ViewsRecent, NewestOnTheWay, FeedRecent, ClientRecent, ClientNewest, Newest, Outdated
<1> QED
  BY <1>2, <1>3, <1>4

\* Subscribing before asking leaves no gap: whatever updates, windows, callbacks and
\* broadcasts came between, once nothing is on its way the newest view a client that has
\* missed no message has received tells of the cached activity, or was answered when that
\* was the activity notified last; and it is the current one if no update followed it.
THEOREM LatestReached == Spec => []LatestReaches
<1>1. Init => ViewsRecent /\ NewestOnTheWay
  <2> SUFFICES ASSUME Init PROVE ViewsRecent /\ NewestOnTheWay
    OBVIOUS
  <2>1. \A c \in Clients : ~conn[c] /\ ~answered[c]
    BY Zenon DEF Init
  <2>2. ASSUME NEW c \in Clients
        PROVE  Pushed(c) = {} /\ Answers(c) = {} /\ best[c].ver = 0 /\ best[c].val = NoSource
    BY NoViews DEF Init, Pushed, Answers, NoView
  <2>3. GetCurrentPresence = NoSource
    BY DEF Init, GetCurrentPresence, F!Snapshot
  <2> QED
    BY <2>1, <2>2, <2>3 DEF Init, ViewsRecent, NewestOnTheWay, Exact
<1>2. TypeOK /\ StateInv /\ (ViewsRecent /\ NewestOnTheWay) /\ [Next]_vars
        => (ViewsRecent /\ NewestOnTheWay)'
  BY ViewsStep DEF StateInv
<1>3. TypeOK /\ StateInv /\ (ViewsRecent /\ NewestOnTheWay) => LatestReaches
  <2> SUFFICES ASSUME TypeOK, StateInv, ViewsRecent, NewestOnTheWay,
                      NEW c \in Clients, PresenceQuiet(c)
               PROVE  /\ best[c].base = cached
                      /\ best[c].ver = ver => best[c].val = HandlePresence
    BY DEF LatestReaches, StateInv
  <2>1. Pushed(c) = {} /\ Answers(c) = {}
    BY NoViews DEF PresenceQuiet, Pushed, Answers
  <2>2. best[c].ver \in Nat
    BY DEF TypeOK, Views3
  <2>3. best[c].base = lastNotified
    BY <2>1, <2>2 DEF PresenceQuiet, NewestOnTheWay, Asked, Outdated
  <2> QED
    BY <2>3 DEF PresenceQuiet, ViewsRecent, Exact, HandlePresence
<1> QED
  BY <1>1, <1>2, <1>3, TypeCorrect, StateInvariant, PTL DEF Spec
================================================================================
